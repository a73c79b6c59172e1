---------------------------- MODULE BlockDrivers ----------------------------
(***************************************************************************)
(* The three implementations of BlockDevice: VirtIOBlock over MMIO, the    *)
(* same over PCI, and SataBlock over the AHCI driver of dep_iso.  A kernel *)
(* block is Ratio sectors of the device, and read_block and write_block    *)
(* move a buffer of one or more blocks one sector at a time.               *)
(*                                                                         *)
(* VirtIOBlock moves a sector through frames that VirtioHal::share takes   *)
(* from the frame allocator and unshare gives back.  SataBlock moves it    *)
(* through the one data page of the AHCI, with command slot 0, after it    *)
(* has reset the controller and started the port.  The kernel does not     *)
(* switch tasks in here, but the device works beside it.  What the layers  *)
(* above see is in vol: the value each block has.                          *)
(***************************************************************************)
EXTENDS Integers, FiniteSets, FiniteSetsExt

CONSTANTS Blocks,  \* kernel blocks of the disk
          Ratio,   \* BLOCK_SZ / 512
          Values,  \* contents of a block
          Frames   \* free frames of the allocator at the start

VARIABLES driver,  \* "sata", "virtio", or "indirect": virtio with indirect descriptors
          port,    \* AHCI: "running", "reset", "stopped", "started", "ready"
          disk,    \* contents of every sector: <<value, part>>
          vol,     \* contents of every block
          op,      \* the call in progress
          dma,     \* what is in the memory shared with the device
          slot,    \* the request: "idle", "issued", "done", "failed"
          free,    \* the frame allocator's free frames
          shared   \* frames the device has been given

vars == <<driver, port, disk, vol, op, dma, slot, free, shared>>

B == 0 .. Blocks - 1
Sector == 0 .. Blocks * Ratio - 1
Part == 0 .. Ratio - 1
Junk == <<0, 0>>
NoOp == [kind |-> "none", block |-> 0, len |-> 0, i |-> 0, buf |-> <<>>, vals |-> <<>>]

Init ==
  /\ driver \in {"virtio", "indirect", "sata"}
  /\ port = IF driver = "sata" THEN "running" ELSE "ready"
  /\ vol \in [B -> {CHOOSE v \in Values : TRUE}]
  /\ disk = [s \in Sector |-> <<vol[s \div Ratio], s % Ratio>>]
  /\ op = NoOp
  /\ dma = Junk
  /\ slot = "idle"
  /\ free = 1 .. Frames
  /\ shared = {}

-----------------------------------------------------------------------------
(* AHCI::new.                                                              *)

\* enable: the controller is reset, which stops the engines of its ports, and
\* the driver waits for it.
EnableAhci ==
  /\ port = "running"
  /\ port' = "reset"
  /\ UNCHANGED <<driver, disk, vol, op, dma, slot, free, shared>>

\* Four pages are allocated and forgotten, the port is told of them, and the
\* engines are started.  (The loops that wait for the engines to stop compare
\* with | and do not wait: the reset has stopped them.)
StartPort ==
  /\ port = "reset" /\ Cardinality(free) >= 4
  /\ LET pages == CHOOSE p \in kSubset(4, free) : TRUE
     IN free' = free \ pages /\ shared' = pages
  /\ port' = "started"
  /\ UNCHANGED <<driver, disk, vol, op, dma, slot>>

\* IDENTIFY DEVICE leaves the identity in the data page.
Identify ==
  /\ port = "started"
  /\ dma' = Junk
  /\ port' = "ready"
  /\ UNCHANGED <<driver, disk, vol, op, slot, free, shared>>

-----------------------------------------------------------------------------
(* read_block and write_block.                                             *)

read_block(b, n) ==
  /\ port = "ready" /\ op.kind = "none"
  /\ op' = [kind |-> "read", block |-> b, len |-> n * Ratio, i |-> 0,
            buf |-> [j \in 0 .. n * Ratio - 1 |-> Junk], vals |-> <<>>]
  /\ UNCHANGED <<driver, port, disk, vol, dma, slot, free, shared>>

write_block(b, vals) ==
  /\ port = "ready" /\ op.kind = "none"
  /\ LET n == Cardinality(DOMAIN vals) IN
       op' = [kind |-> "write", block |-> b, len |-> n * Ratio, i |-> 0,
              buf |-> [j \in 0 .. n * Ratio - 1 |-> <<vals[1 + j \div Ratio], j % Ratio>>],
              vals |-> vals]
  /\ UNCHANGED <<driver, port, disk, vol, dma, slot, free, shared>>

\* At mutated: the chunk of a second block starts over at the first sector.
AtWrapped == op.block * Ratio + (op.i % Ratio)

\* The sector of chunk i.
At == op.block * Ratio + op.i

\* The buffers of a request, each shared in a frame of its own: the header, the
\* data, the status and, when it is negotiated, the list that describes them.
Buffers == IF driver = "indirect" THEN 4 ELSE 3

\* VirtioHal::share of the buffers; what goes to the device is copied.
share ==
  /\ driver # "sata" /\ op.kind # "none" /\ op.i < op.len /\ slot = "idle"
  /\ Cardinality(free) >= Buffers
  /\ LET frames == CHOOSE p \in kSubset(Buffers, free) : TRUE
     IN free' = free \ frames /\ shared' = frames
  /\ dma' = IF op.kind = "write" THEN op.buf[op.i] ELSE Junk
  /\ slot' = "issued"
  /\ UNCHANGED <<driver, port, disk, vol, op>>

\* AHCI::read_block and write_block: the command goes to slot 0.
issue_command ==
  /\ driver = "sata" /\ op.kind # "none" /\ op.i < op.len /\ slot = "idle"
  /\ dma' = IF op.kind = "write" THEN op.buf[op.i] ELSE dma
  /\ slot' = "issued"
  /\ UNCHANGED <<driver, port, disk, vol, op, free, shared>>

\* The device executes the request, or fails it.
Execute ==
  /\ slot = "issued"
  /\ disk' = IF op.kind = "write" THEN [disk EXCEPT ![At] = dma] ELSE disk
  /\ dma' = IF op.kind = "read" THEN disk[At] ELSE dma
  /\ slot' = "done"
  /\ UNCHANGED <<driver, port, vol, op, free, shared>>

Fail ==
  /\ slot = "issued"
  /\ slot' = "failed"
  /\ UNCHANGED <<driver, port, disk, vol, op, dma, free, shared>>

Advanced ==
  [op EXCEPT !.i = @ + 1,
             !.buf = IF op.kind = "read" THEN [@ EXCEPT ![op.i] = dma] ELSE @]

\* unshare copies what the device wrote and frees the frames by number (their
\* trackers stay in QUEUE_FRAMES and never free them a second time).
unshare ==
  /\ driver # "sata" /\ slot = "done"
  /\ op' = Advanced
  /\ free' = free \cup shared /\ shared' = {}
  /\ slot' = "idle" /\ dma' = Junk
  /\ UNCHANGED <<driver, port, disk, vol>>

\* spin_on_slot sees the slot clear and the data page is copied out.
spin_on_slot ==
  /\ driver = "sata" /\ slot = "done"
  /\ op' = Advanced
  /\ slot' = "idle"
  /\ UNCHANGED <<driver, port, disk, vol, dma, free, shared>>

\* A failed virtio request panics; a failed SATA command spins for ever.
\* Otherwise the call returns when every chunk has moved.
Return ==
  /\ op.kind # "none" /\ op.i = op.len
  /\ vol' = [b \in B |->
               IF op.kind = "write" /\ b \in op.block .. op.block + op.len \div Ratio - 1
               THEN op.vals[b - op.block + 1] ELSE vol[b]]
  /\ op' = NoOp
  /\ UNCHANGED <<driver, port, disk, dma, slot, free, shared>>

Next ==
  \/ EnableAhci \/ StartPort \/ Identify
  \/ \E b \in B, n \in 1 .. 2 : b + n <= Blocks /\ read_block(b, n)
  \/ \E b \in B, v, w \in Values :
       \/ write_block(b, <<v>>)
       \/ b + 2 <= Blocks /\ write_block(b, <<v, w>>)
  \/ share \/ issue_command \/ Execute \/ Fail \/ unshare \/ spin_on_slot
  \/ Return

Spec == Init /\ [][Next]_vars

-----------------------------------------------------------------------------
\* A call moves the blocks it names and no others: between calls every sector
\* holds its part of its block, a read that is about to return holds the
\* blocks, and the frames of a request have all gone back to the allocator.
BlocksAreExact ==
  /\ op.kind \in {"none", "read"} =>
       \A s \in Sector : disk[s] = <<vol[s \div Ratio], s % Ratio>>
  /\ op.kind = "read" /\ op.i = op.len =>
       \A j \in 0 .. op.len - 1 :
         op.buf[j] = <<vol[op.block + j \div Ratio], j % Ratio>>
  /\ op.kind = "write" =>
       \A s \in Sector : disk[s] = IF s \in op.block * Ratio .. At - 1
                                   THEN op.buf[s - op.block * Ratio]
                                   ELSE IF s = At /\ slot = "done" THEN op.buf[op.i]
                                   ELSE <<vol[s \div Ratio], s % Ratio>>
  /\ driver # "sata" => free \cup shared = 1 .. Frames /\ free \cap shared = {}
=============================================================================
