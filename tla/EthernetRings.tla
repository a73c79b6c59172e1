---------------------------- MODULE EthernetRings ----------------------------
(***************************************************************************)
(* The two Intel network drivers of dep_iso, E1000 and IXGBE: descriptor   *)
(* rings shared with the adapter.  The driver owns the descriptors from    *)
(* the tail register on, the adapter those from the head to the tail, and  *)
(* sets the "descriptor done" bit of each one it has finished.             *)
(*                                                                         *)
(* E1000 has one send ring and IXGBE several (IXGBE_SEND_QUEUE_NUM); both  *)
(* have one receive ring.  Frames carry serial numbers.  The caller is     *)
(* SmolTCP's device: it answers an interrupt by receiving until there is   *)
(* nothing more.                                                           *)
(***************************************************************************)
EXTENDS Integers, FiniteSets

CONSTANTS N,        \* descriptors of a ring (256)
          SendNum,  \* send rings of IXGBE (4)
          Serial,   \* serial numbers of frames, more than N
          Full,     \* the caller may have N frames in flight on a send ring
          AnyDrop   \* an E1000 may be dropped

VARIABLES kind,        \* "e1000" or "ixgbe"
          pc,          \* construction, use, and what is left after Drop
          enabled,     \* RCTL / RXEN and TCTL / DMATXCTL
          held,        \* the rings and buffers are allocated
          send_queue,  \* [q][i]: the frame of the buffer and the DD bit
          tdh, tdt,    \* head and tail of each send ring
          first_trans, \* the first lap of a send ring is not over
          sent,        \* frames the driver has put on each ring, less those
                       \* the adapter has sent
          next_sent,   \* serial of the next frame the adapter should send
          recv_queue,  \* [i]: the frame of the buffer and the DD bit
          rdh, rdt,
          next_in,     \* serial of the next frame to arrive
          next_out,    \* serial of the next frame the driver returns
          icr,         \* an interrupt is raised
          draining     \* the caller is receiving until None

tx == <<send_queue, tdh, tdt, first_trans, sent, next_sent>>
rx == <<recv_queue, rdh, rdt, next_in, next_out>>
irq == <<icr, draining>>
vars == <<kind, pc, enabled, held, tx, rx, irq>>

Ring == 0 .. N - 1
Rings == 0 .. (IF kind = "ixgbe" THEN SendNum ELSE 1) - 1
Next1(i) == (i + 1) % N
Blank == [frame |-> 0, dd |-> FALSE]

Init ==
  /\ kind \in {"e1000", "ixgbe"}
  /\ pc = "new"
  /\ enabled = FALSE /\ held = FALSE
  /\ send_queue = [q \in Rings |-> [i \in Ring |-> Blank]]
  /\ tdh = [q \in Rings |-> 0] /\ tdt = [q \in Rings |-> 0]
  /\ first_trans = [q \in Rings |-> TRUE]
  /\ sent = [q \in Rings |-> 0] /\ next_sent = [q \in Rings |-> 0]
  /\ recv_queue = [i \in Ring |-> Blank]
  /\ rdh = 0 /\ rdt = 0
  /\ next_in = 0 /\ next_out = 0
  /\ icr = FALSE /\ draining = FALSE

-----------------------------------------------------------------------------
(* Construction.                                                           *)

\* Rings and buffers are allocated and their addresses stored.  IXGBE resets
\* the adapter first and waits for it.
Allocate ==
  /\ pc = "new"
  /\ held' = TRUE /\ enabled' = FALSE
  /\ pc' = "rings"
  /\ UNCHANGED <<kind, tx, rx, irq>>

\* The registers: heads and tails; the receive tail is one short of the end.
SetRings ==
  /\ pc = "rings"
  /\ tdh' = [q \in Rings |-> 0] /\ tdt' = [q \in Rings |-> 0]
  /\ rdh' = 0 /\ rdt' = N - 1
  /\ pc' = "enable"
  /\ UNCHANGED <<kind, enabled, held, send_queue, first_trans, sent, next_sent,
                 recv_queue, next_in, next_out, irq>>

\* Both paths are enabled and old interrupts cleared.
Enable ==
  /\ pc = "enable"
  /\ enabled' = TRUE /\ icr' = FALSE
  /\ pc' = "ready"
  /\ UNCHANGED <<kind, held, tx, rx, draining>>

-----------------------------------------------------------------------------
(* Sending.                                                                *)

Available(q) == first_trans[q] \/ send_queue[q][tdt[q]].dd

can_send == \E q \in Rings : Available(q)

\* send and msend take the first ring whose tail descriptor is free.
FirstRing == CHOOSE q \in Rings : Available(q) /\ \A p \in 0 .. q - 1 : ~Available(p)

\* Filled mutated: the done bit is left from the lap before.
FilledDone(q) ==
  [send_queue EXCEPT ![q][tdt[q]].frame = (next_sent[q] + sent[q]) % Serial]

\* The buffer is copied, the status cleared, and the tail moved on.
Filled(q) ==
  [send_queue EXCEPT ![q][tdt[q]] =
     [frame |-> (next_sent[q] + sent[q]) % Serial, dd |-> FALSE]]

\* One frame.  E1000::send asserts that there is room.
send ==
  /\ pc = "ready" /\ can_send
  /\ Full \/ sent[FirstRing] < N - 1
  /\ LET q == FirstRing IN
       /\ send_queue' = Filled(q)
       /\ tdt' = [tdt EXCEPT ![q] = Next1(tdt[q])]
       /\ first_trans' = [first_trans EXCEPT ![q] = @ /\ Next1(tdt[q]) # 0]
       /\ sent' = [sent EXCEPT ![q] = @ + 1]
  /\ UNCHANGED <<kind, pc, enabled, held, tdh, next_sent, rx, irq>>

\* Two frames of one call that both fit the first ring with room; a frame that
\* does not is put on the next ring, as by send.
msend ==
  /\ pc = "ready" /\ kind = "ixgbe" /\ can_send
  /\ LET q == FirstRing
         more == Next1(tdt[q])
         second == send_queue[q][more].dd \/ (first_trans[q] /\ more # 0)
     IN /\ second
        /\ Full \/ sent[q] < N - 2
        /\ send_queue' = [send_queue EXCEPT
             ![q][tdt[q]] = [frame |-> (next_sent[q] + sent[q]) % Serial, dd |-> FALSE],
             ![q][more] = [frame |-> (next_sent[q] + sent[q] + 1) % Serial, dd |-> FALSE]]
        /\ tdt' = [tdt EXCEPT ![q] = Next1(more)]
        /\ first_trans' = [first_trans EXCEPT ![q] = @ /\ more # 0 /\ Next1(more) # 0]
        /\ sent' = [sent EXCEPT ![q] = @ + 2]
  /\ UNCHANGED <<kind, pc, enabled, held, tdh, next_sent, rx, irq>>

-----------------------------------------------------------------------------
(* Receiving.                                                              *)

\* E1000 receives only when it could also send.
CanReceive == kind = "e1000" => Available(0)

\* The descriptor after the tail, if the adapter is done with it, is handed
\* back by moving the tail onto it.
receive ==
  /\ pc = "ready"
  /\ LET i == Next1(rdt) IN
       IF recv_queue[i].dd /\ CanReceive
       THEN /\ recv_queue' = [recv_queue EXCEPT ![i].dd = FALSE]
            /\ rdt' = i
            /\ next_out' = (next_out + 1) % Serial
            /\ UNCHANGED draining
       ELSE /\ draining
            /\ draining' = FALSE
            /\ UNCHANGED <<recv_queue, rdt, next_out>>
  /\ UNCHANGED <<kind, pc, enabled, held, tx, rdh, next_in, icr>>

\* The causes that were read are cleared, and the caller starts to receive.
handle_interrupt ==
  /\ pc = "ready" /\ icr
  /\ icr' = FALSE
  /\ draining' = TRUE
  /\ UNCHANGED <<kind, pc, enabled, held, tx, rx>>

\* IXGBE resets the adapter and waits before it frees; E1000 just frees.
Drop ==
  /\ pc = "ready" /\ (kind = "ixgbe" \/ AnyDrop)
  /\ enabled' = (kind # "ixgbe")
  /\ held' = FALSE
  /\ pc' = "gone"
  /\ UNCHANGED <<kind, tx, rx, irq>>

-----------------------------------------------------------------------------
(* The adapter.  A ring whose head is its tail is empty.                   *)

Transmit(q) ==
  /\ enabled /\ tdh[q] # tdt[q]
  /\ send_queue' = [send_queue EXCEPT ![q][tdh[q]] = [frame |-> 0, dd |-> TRUE]]
  /\ tdh' = [tdh EXCEPT ![q] = Next1(@)]
  /\ sent' = [sent EXCEPT ![q] = @ - 1]
  /\ next_sent' = [next_sent EXCEPT ![q] = (@ + 1) % Serial]
  /\ UNCHANGED <<kind, pc, enabled, held, tdt, first_trans, rx, irq>>

Arrive ==
  /\ enabled /\ rdh # rdt
  /\ recv_queue' = [recv_queue EXCEPT ![rdh] = [frame |-> next_in, dd |-> TRUE]]
  /\ rdh' = Next1(rdh)
  /\ next_in' = (next_in + 1) % Serial
  /\ icr' = TRUE
  /\ UNCHANGED <<kind, pc, enabled, held, tx, rdt, next_out, draining>>

Next ==
  \/ Allocate \/ SetRings \/ Enable \/ Drop
  \/ send \/ msend \/ receive \/ handle_interrupt
  \/ (\E q \in Rings : Transmit(q)) \/ Arrive

Spec == Init /\ [][Next]_vars

-----------------------------------------------------------------------------
\* Every frame reaches the wire, and every arrived frame the caller, once, in
\* order and as it was handed over: the descriptors between head and tail hold
\* exactly the frames that are outstanding (E1000::send, receive; IXGBE::msend,
\* recv), and the adapter never works on memory that was given back.
RingsAreExact ==
  /\ enabled => held
  /\ pc = "ready" =>
       /\ \A q \in Rings :
            /\ sent[q] = (tdt[q] - tdh[q] + N) % N
            /\ \A k \in 0 .. sent[q] - 1 :
                 send_queue[q][(tdh[q] + k) % N] =
                   [frame |-> (next_sent[q] + k) % Serial, dd |-> FALSE]
       /\ LET arrived == (rdh - Next1(rdt) + N) % N IN
            /\ arrived = (next_in - next_out + Serial) % Serial
            /\ \A k \in 0 .. arrived - 1 :
                 recv_queue[(rdt + 1 + k) % N] =
                   [frame |-> (next_out + k) % Serial, dd |-> TRUE]

\* A frame that has arrived is about to be received: its interrupt is still
\* raised or the caller has not yet been told that there is nothing more.
NoForgottenFrame ==
  pc = "ready" /\ recv_queue[Next1(rdt)].dd => icr \/ draining
=============================================================================
