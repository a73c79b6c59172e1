--------------------------- MODULE VirtioTransport ---------------------------
(***************************************************************************)
(* The life of a virtio device as its driver sees it through a transport:  *)
(* Transport::begin_init, VirtQueue::new, finish_init, ack_interrupt,      *)
(* read_consistent and the drop of the driver, over the three transports   *)
(* of virtio-drivers (legacy MMIO, modern MMIO and PCI).                   *)
(*                                                                         *)
(* The device runs beside the driver.  It serves a queue from the moment   *)
(* the queue is set and DRIVER_OK is written, it may still be using the    *)
(* queue's memory after the driver has written the register that stops it, *)
(* and it changes its configuration and raises interrupts when it likes.   *)
(* A register write that the driver waits for (queue_ready and the status  *)
(* of PCI reading zero) is a write step and a wait step.                   *)
(***************************************************************************)
EXTENDS Integers, FiniteSets

CONSTANTS Queues,      \* queues of the device: 0 .. Queues - 1
          Generations, \* values of the configuration generation (2^8 on PCI)
          MaxChanges,  \* changes of the configuration while one is being read
          Careless     \* the driver is VirtIOSound, which has no Drop

VARIABLES version,  \* "legacy", "modern" (MMIO) or "pci"
          status,   \* the status register: "reset", "features", "ok"
          ready,    \* the queue_ready (modern, PCI) or queue_pfn register
          serving,  \* the device is using the memory of the queue
          mem,      \* the VirtQueueLayout of the queue: "none", "ours", "freed"
          pc,       \* where the driver is
          at,       \* the queue it is setting, unsetting or freeing
          isr,      \* the interrupt status register
          raised,   \* interrupts raised that the driver has not answered
          seen,     \* what ack_interrupt has read
          config,   \* version of the configuration, generation, changes
          reading   \* read_consistent: what it has read so far

vars == <<version, status, ready, serving, mem, pc, at, isr, raised, seen,
          config, reading>>

Q == 0 .. Queues - 1
Bits == {"queue", "config"}
NoRead == [at |-> "none", before |-> 0, low |-> 0, high |-> 0]

quiet == <<isr, raised, seen, config, reading>>
driver == <<version, status, ready, serving, mem, pc, at>>

Init ==
  /\ version \in {"legacy", "modern", "pci"}
  /\ status = "reset"
  /\ ready = [q \in Q |-> FALSE]
  /\ serving = [q \in Q |-> FALSE]
  /\ mem = [q \in Q |-> "none"]
  /\ pc = "idle" /\ at = 0
  /\ isr = {} /\ raised = {} /\ seen = {}
  /\ config = [version |-> 0, generation |-> 0, changes |-> 0]
  /\ reading = NoRead

-----------------------------------------------------------------------------
(* Construction.                                                           *)

\* The status is written 0, ACKNOWLEDGE | DRIVER and then FEATURES_OK.  The
\* device has finished the reset when it takes the second write.
begin_init ==
  /\ pc = "idle"
  /\ status' = "features"
  /\ ready' = [q \in Q |-> FALSE]
  /\ serving' = [q \in Q |-> FALSE]
  /\ mem' = [q \in Q |-> "none"]
  /\ isr' = {} /\ raised' = {}
  /\ pc' = "queues" /\ at' = 0
  /\ UNCHANGED <<version, seen, config, reading>>

\* The queue's registers are written, the one that starts it last.
queue_set(q) == [ready EXCEPT ![q] = TRUE]

\* The PFN is nonzero or the queue is marked ready.
queue_used(q) == ready[q]

\* VirtQueue::new for the next queue: queue_used, max_queue_size, the
\* allocation of the layout and queue_set.
new ==
  /\ pc = "queues" /\ at < Queues
  /\ ~queue_used(at)
  /\ mem' = [mem EXCEPT ![at] = "ours"]
  /\ ready' = queue_set(at)
  /\ at' = at + 1
  /\ UNCHANGED <<version, status, serving, pc, quiet>>

\* It fails (the queue is in use or too small, no memory).  The queues made so
\* far are dropped, the last one first, before the transport is.
new_fails ==
  /\ pc = "queues" /\ at < Queues
  /\ mem' = [q \in Q |-> IF q < at THEN "freed" ELSE mem[q]]
  /\ pc' = "reset" /\ at' = Queues
  /\ UNCHANGED <<version, status, ready, serving, quiet>>

finish_init ==
  /\ pc = "queues" /\ at = Queues
  /\ status' = "ok"
  /\ pc' = "running"
  /\ UNCHANGED <<version, ready, serving, mem, at, quiet>>

-----------------------------------------------------------------------------
(* Destruction: Drop of the driver, of the transport, then of the queues.  *)

\* The driver's Drop: queue_unset of every queue, in order.
Drop ==
  /\ pc = "running" /\ seen = {} /\ reading = NoRead
  /\ pc' = IF Careless THEN "reset" ELSE "unset"
  /\ at' = IF Careless THEN Queues ELSE 0
  /\ UNCHANGED <<version, status, ready, serving, mem, quiet>>

\* queue_unset mutated: it does not wait to read queue_ready back.
UnsetsAtOnce ==
  /\ pc = "unset" /\ at < Queues
  /\ ready' = [ready EXCEPT ![at] = version = "pci" /\ ready[at]]
  /\ serving' = [serving EXCEPT ![at] = version # "legacy" /\ serving[at]]
  /\ at' = at + 1
  /\ UNCHANGED <<version, status, mem, pc, quiet>>

\* Legacy MMIO writes a zero PFN, which stops the queue at once; modern MMIO
\* writes queue_ready and waits to read it back; PCI does nothing.
queue_unset ==
  /\ pc = "unset" /\ at < Queues
  /\ IF version = "modern" /\ (ready[at] \/ serving[at])
     THEN /\ ready' = [ready EXCEPT ![at] = FALSE]
          /\ UNCHANGED <<serving, at>>
     ELSE /\ ready' = [ready EXCEPT ![at] = version = "pci" /\ ready[at]]
          /\ serving' = [serving EXCEPT ![at] = version = "pci" /\ serving[at]]
          /\ at' = at + 1
  /\ UNCHANGED <<version, status, mem, pc, quiet>>

UnsetDone ==
  /\ pc = "unset" /\ at = Queues
  /\ pc' = "reset"
  /\ UNCHANGED <<version, status, ready, serving, mem, at, quiet>>

\* Drop of MmioTransport and of PciTransport: both write a zero status, PCI
\* waits to read it back.
DropTransport ==
  /\ pc = "reset"
  /\ status' = "reset"
  /\ serving' = [q \in Q |-> version # "pci" /\ serving[q]]
  /\ ready' = [q \in Q |-> version # "pci" /\ ready[q]]
  /\ pc' = "free"
  /\ UNCHANGED <<version, mem, at, quiet>>

\* The VirtQueues are dropped after the transport, and their layouts freed.
DropQueues ==
  /\ pc = "free"
  /\ mem' = [q \in Q |-> IF mem[q] = "ours" THEN "freed" ELSE mem[q]]
  /\ pc' = "idle"
  /\ UNCHANGED <<version, status, ready, serving, at, quiet>>

-----------------------------------------------------------------------------
(* Interrupts and the configuration.                                       *)

\* ack_interrupt mutated: every interrupt is acknowledged, the ones raised
\* since the register was read too.
AcksAll ==
  /\ pc = "running"
  /\ \/ /\ seen = {} /\ isr # {}
        /\ seen' = isr
        /\ isr' = IF version = "pci" THEN {} ELSE isr
        /\ UNCHANGED raised
     \/ /\ seen # {}
        /\ isr' = {}
        /\ raised' = raised \ seen
        /\ seen' = {}
  /\ UNCHANGED <<driver, config, reading>>

\* The register is read (which clears it on PCI), what was read is written to
\* interrupt_ack (MMIO), and the caller answers those interrupts.
ack_interrupt ==
  /\ pc = "running"
  /\ \/ /\ seen = {} /\ isr # {}
        /\ seen' = isr
        /\ isr' = IF version = "pci" THEN {} ELSE isr
        /\ UNCHANGED raised
     \/ /\ seen # {}
        /\ isr' = IF version = "pci" THEN isr ELSE isr \ seen
        /\ raised' = raised \ (seen \ isr')
        /\ seen' = {}
  /\ UNCHANGED <<driver, config, reading>>

\* Legacy MMIO has no generation register and reads zero there.
read_config_generation ==
  IF version = "legacy" THEN 0 ELSE config.generation

\* read_consistent: the generation, the fields one after the other, and the
\* generation again; all over again if it has changed.
read_consistent ==
  /\ pc = "running"
  /\ \/ /\ reading.at \in {"none", "done"}
        /\ reading' = [NoRead EXCEPT !.at = "low", !.before = read_config_generation]
        /\ config' = [config EXCEPT !.changes = 0]
     \/ /\ reading.at = "low"
        /\ reading' = [reading EXCEPT !.at = "high", !.low = config.version]
        /\ UNCHANGED config
     \/ /\ reading.at = "high"
        /\ reading' = [reading EXCEPT !.at = "after", !.high = config.version]
        /\ UNCHANGED config
     \/ /\ reading.at = "after"
        /\ reading' = IF reading.before = read_config_generation
                      THEN [reading EXCEPT !.at = "done"] ELSE NoRead
        /\ UNCHANGED config
  /\ UNCHANGED <<driver, isr, raised, seen>>

\* The caller has used the fields.
UseConfig ==
  /\ reading.at = "done"
  /\ reading' = NoRead
  /\ UNCHANGED <<driver, isr, raised, seen, config>>

-----------------------------------------------------------------------------
(* The device.                                                             *)

Serve(q) ==
  /\ status = "ok" /\ ready[q] /\ ~serving[q]
  /\ serving' = [serving EXCEPT ![q] = TRUE]
  /\ UNCHANGED <<version, status, ready, mem, pc, at, quiet>>

\* A queue whose register has been cleared, or a device that was reset, is
\* let go of some time later.
LetGo(q) ==
  /\ serving[q] /\ (status = "reset" \/ ~ready[q])
  /\ serving' = [serving EXCEPT ![q] = FALSE]
  /\ ready' = IF status = "reset" THEN [ready EXCEPT ![q] = FALSE] ELSE ready
  /\ UNCHANGED <<version, status, mem, pc, at, quiet>>

Raise(b) ==
  /\ status = "ok"
  /\ isr' = isr \cup {b}
  /\ raised' = raised \cup {b}
  /\ UNCHANGED <<driver, seen, config, reading>>

Change ==
  /\ status = "ok" /\ config.changes < MaxChanges
  /\ config' = [version |-> (config.version + 1) % (2 * Generations),
                generation |-> (config.generation + 1) % Generations,
                changes |-> config.changes + 1]
  /\ UNCHANGED <<driver, isr, raised, seen, reading>>

Next ==
  \/ begin_init \/ new \/ new_fails \/ finish_init
  \/ Drop \/ queue_unset \/ UnsetDone \/ DropTransport \/ DropQueues
  \/ ack_interrupt \/ read_consistent \/ UseConfig \/ Change
  \/ \E q \in Q : Serve(q) \/ LetGo(q)
  \/ \E b \in Bits : Raise(b)

Spec == Init /\ [][Next]_vars

-----------------------------------------------------------------------------
\* The device never uses the memory of a queue that the driver has given back:
\* "Clear any pointers pointing to DMA regions, so the device doesn't try to
\* access them after they have been freed" (the Drop of the drivers).
QueueMemoryIsOurs == \A q \in Q : serving[q] => mem[q] = "ours"

\* An interrupt raised at any moment of ack_interrupt is still in the register
\* or among those the caller is about to answer, and the fields read_consistent
\* returns are of one configuration where there is a generation to compare.
DeviceStateIsSeen ==
  /\ raised \subseteq isr \cup seen
  /\ reading.at = "done" /\ version # "legacy" => reading.low = reading.high
=============================================================================
