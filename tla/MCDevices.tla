----------------------------- MODULE MCDevices -----------------------------
(***************************************************************************)
(* Devices and their drivers for TLC.  A behaviour is one of one           *)
(* component: a virtqueue, the drivers above it, the transports below it,  *)
(* the PCI bus, the Ethernet adapters or the block devices of the kernel.  *)
(***************************************************************************)
EXTENDS Virtqueue, TLC

CONSTANT Parts   \* the components this run is about

VARIABLE which   \* the component that runs
VARIABLES connections, listening, to_us, to_peer, peer, next_in, dropped   \* Vsock
VARIABLES devices_device, indirect, devices_q, mem, console, rx_buffers, held, reqs, call,
          xfer, devices_next_in, next_out, devices_panicked   \* VirtioDevices
VARIABLES dmas, rect, control_held, resource, set_up, jack_infos, pcm_parameters,
          dev_params, stream, control_panicked   \* VirtioControl
VARIABLES version, status, ready, serving, transport_mem, transport_pc, at, isr, raised,
          seen, config, reading   \* VirtioTransport
VARIABLES scanner, layout, bar, decode, current, bars_pc, step, bars_idx, saved, found,
          regions   \* PciBars
VARIABLES kind, rings_pc, enabled, rings_held, send_queue, tdh, tdt, first_trans, sent,
          next_sent, recv_queue, rdh, rdt, rings_next_in, rings_next_out, icr,
          draining   \* EthernetRings
VARIABLES driver, port, disk, vol, op, dma, slot, free, shared   \* BlockDrivers

vsock_vars == <<connections, listening, to_us, to_peer, peer, next_in, dropped>>
devices_vars == <<devices_device, indirect, devices_q, mem, console, rx_buffers, held, reqs,
                  call, xfer, devices_next_in, next_out, devices_panicked>>
control_vars == <<dmas, rect, control_held, resource, set_up, jack_infos, pcm_parameters,
                  dev_params, stream, control_panicked>>
transport_vars == <<version, status, ready, serving, transport_mem, transport_pc, at, isr, raised,
                    seen, config, reading>>
bars_vars == <<scanner, layout, bar, decode, current, bars_pc, step, bars_idx, saved, found,
               regions>>
rings_vars == <<kind, rings_pc, enabled, rings_held, send_queue, tdh, tdt, first_trans, sent,
                next_sent, recv_queue, rdh, rdt, rings_next_in,
                rings_next_out, icr, draining>>
disk_vars == <<driver, port, disk, vol, op, dma, slot, free, shared>>


MCShapes == {<<1, 0>>, <<1, 2>>}
MCFeatures == {<<TRUE, FALSE>>, <<FALSE, TRUE>>}

Vsock == INSTANCE Vsock WITH
  Keys <- {<<"host", 1>>}, Cap <- 2, PeerCap <- 1, Wrap <- 4, Serial <- 3, MaxIn <- 2,
  MaxOut <- 1, Reuse <- FALSE, Crossing <- FALSE
Devices == INSTANCE VirtioDevices WITH
  Size <- 3, Serial <- 4, MaxFill <- 2, MaxFrames <- 4, Mixed <- FALSE, Faulty <- FALSE,
  device <- devices_device, q <- devices_q, next_in <- devices_next_in,
  panicked <- devices_panicked
Control == INSTANCE VirtioControl WITH
  MaxDma <- 2, Streams <- {0, 1}, Jacks <- 1, Params <- {1, 2}, Faulty <- FALSE,
  Deaf <- FALSE, held <- control_held, panicked <- control_panicked
Transport == INSTANCE VirtioTransport WITH
  Queues <- 2, Generations <- 3, MaxChanges <- 2, Careless <- FALSE,
  mem <- transport_mem, pc <- transport_pc
Bars == INSTANCE PciBars WITH
  Bars <- 3, Word <- 256, Sizes <- {16, 32}, PciBase <- 64, PciSize <- 64,
  Outside <- 192, Inside <- FALSE, pc <- bars_pc, idx <- bars_idx
Rings == INSTANCE EthernetRings WITH
  N <- 3, SendNum <- 2, Serial <- 4, Full <- FALSE, AnyDrop <- FALSE, pc <- rings_pc,
  held <- rings_held, next_in <- rings_next_in, next_out <- rings_next_out
Disk == INSTANCE BlockDrivers WITH
  Blocks <- 3, Ratio <- 2, Values <- {1, 2}, Frames <- 4

-----------------------------------------------------------------------------
\* The components that do not run keep still.
MCInit ==
  /\ which \in Parts
  /\ Init /\ (which # "queue" => mode = "calls" /\ q.indirect)
  /\ mode = "owning" => q.event_idx
  /\ IF which = "vsock" THEN Vsock!Init
     ELSE /\ connections = 0 /\ listening = 0 /\ to_us = 0 /\ to_peer = 0 /\ peer = 0
          /\ next_in = 0 /\ dropped = 0
  /\ IF which = "devices" THEN Devices!Init
     ELSE /\ devices_device = 0 /\ indirect = 0 /\ devices_q = 0 /\ mem = 0 /\ console = 0
          /\ rx_buffers = 0 /\ held = 0 /\ reqs = 0 /\ call = 0 /\ xfer = 0
          /\ devices_next_in = 0 /\ next_out = 0 /\ devices_panicked = 0
  /\ IF which = "control" THEN Control!Init
     ELSE /\ dmas = 0 /\ rect = 0 /\ control_held = 0 /\ resource = 0 /\ set_up = 0
          /\ jack_infos = 0 /\ pcm_parameters = 0 /\ dev_params = 0 /\ stream = 0
          /\ control_panicked = 0
  /\ IF which = "transport" THEN Transport!Init
     ELSE /\ version = 0 /\ status = 0 /\ ready = 0 /\ serving = 0 /\ transport_mem = 0
          /\ transport_pc = 0 /\ at = 0 /\ isr = 0 /\ raised = 0 /\ seen = 0
          /\ config = 0 /\ reading = 0
  /\ IF which = "bars" THEN Bars!Init
     ELSE /\ scanner = 0 /\ layout = 0 /\ bar = 0 /\ decode = 0 /\ current = 0 /\ bars_pc = 0
          /\ step = 0 /\ bars_idx = 0 /\ saved = 0 /\ found = 0 /\ regions = 0
  /\ IF which = "rings" THEN Rings!Init
     ELSE /\ kind = 0 /\ rings_pc = 0 /\ enabled = 0 /\ rings_held = 0 /\ send_queue = 0
          /\ tdh = 0 /\ tdt = 0 /\ first_trans = 0 /\ sent = 0 /\ next_sent = 0
          /\ recv_queue = 0 /\ rdh = 0 /\ rdt = 0 /\ rings_next_in = 0
          /\ rings_next_out = 0 /\ icr = 0 /\ draining = 0
  /\ IF which = "disk" THEN Disk!Init
     ELSE /\ driver = 0 /\ port = 0 /\ disk = 0 /\ vol = 0 /\ op = 0 /\ dma = 0 /\ slot = 0
          /\ free = 0 /\ shared = 0

MCNext ==
  \/ /\ which = "queue" /\ Next
     /\ UNCHANGED <<which, vsock_vars, devices_vars, control_vars, transport_vars,
                    bars_vars, rings_vars, disk_vars>>
  \/ /\ which = "vsock" /\ Vsock!Next
     /\ UNCHANGED <<which, vars, devices_vars, control_vars, transport_vars, bars_vars,
                    rings_vars, disk_vars>>
  \/ /\ which = "devices" /\ Devices!Next
     /\ UNCHANGED <<which, vars, vsock_vars, control_vars, transport_vars, bars_vars,
                    rings_vars, disk_vars>>
  \/ /\ which = "control" /\ Control!Next
     /\ UNCHANGED <<which, vars, vsock_vars, devices_vars, transport_vars, bars_vars,
                    rings_vars, disk_vars>>
  \/ /\ which = "transport" /\ Transport!Next
     /\ UNCHANGED <<which, vars, vsock_vars, devices_vars, control_vars, bars_vars,
                    rings_vars, disk_vars>>
  \/ /\ which = "bars" /\ Bars!Next
     /\ UNCHANGED <<which, vars, vsock_vars, devices_vars, control_vars, transport_vars,
                    rings_vars, disk_vars>>
  \/ /\ which = "rings" /\ Rings!Next
     /\ UNCHANGED <<which, vars, vsock_vars, devices_vars, control_vars, transport_vars,
                    bars_vars, disk_vars>>
  \/ /\ which = "disk" /\ Disk!Next
     /\ UNCHANGED <<which, vars, vsock_vars, devices_vars, control_vars, transport_vars,
                    bars_vars, rings_vars>>

MCvars == <<which, vars, vsock_vars, devices_vars, control_vars, transport_vars, bars_vars,
            rings_vars, disk_vars>>
MCSpec == MCInit /\ [][MCNext]_MCvars

-----------------------------------------------------------------------------

\* The drivers above the queues keep their word (vsock/connectionmanager.rs,
\* console.rs, input.rs, net/dev.rs, blk.rs, sound.rs, gpu.rs): the credit of a
\* socket is what its peer has room for, and its bytes arrive once and in order;
\* bytes, events, packets and sound periods are handed over once and in order,
\* and a buffer is the driver's or the caller's but never both; what the GPU and
\* sound drivers remember is what their device was told.
DriversAreExact ==
  /\ which = "vsock" => Vsock!CreditIsSound
  /\ which = "devices" => Devices!ItemsArriveInOrder /\ Devices!LentBuffersAreHeld
  /\ which = "control" => Control!DeviceViewIsShared

\* A device never uses queue memory that was freed, no interrupt goes unseen and
\* no configuration is read torn (transport/mmio.rs, pci.rs, transport/mod.rs
\* read_consistent); sizing and placing the BARs of a function leaves each with
\* its own range and the function as it was (pci/bus.rs, drivers/block/pci.rs).
TransportIsExact ==
  /\ which = "transport" => Transport!QueueMemoryIsOurs /\ Transport!DeviceStateIsSeen
  /\ which = "bars" => Bars!BarsAreExact

\* Frames leave and arrive in order over the rings of the Ethernet adapters and
\* none waits unannounced (e1000.rs, ixgbe.rs); a block of the disk holds what
\* was written to it last (virtio_blk.rs, sata_blk.rs, virtio_blk_pci.rs).
DataIsExact ==
  /\ which = "rings" => Rings!RingsAreExact /\ Rings!NoForgottenFrame
  /\ which = "disk" => Disk!BlocksAreExact
=============================================================================
