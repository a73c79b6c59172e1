--------------------------- MODULE VirtqueueProofs ---------------------------
(***************************************************************************)
(* Proof that a virtqueue's notifications are not lost, for every queue    *)
(* size, index width, set of requests and negotiated features, in every    *)
(* behaviour in which no load of should_notify overtakes the store of the  *)
(* index.  The code does not order the two: the fence of add comes before  *)
(* the store, and there is none between the store and the load.            *)
(***************************************************************************)
EXTENDS Virtqueue, TLAPS

Checking == pc \in {"check", "checkwait"}

(* The fields of the VirtQueue. *)
Fields == {"desc_shadow", "desc", "ring", "free_head", "num_used", "avail_idx",
           "last_used_idx", "indirect", "event_idx", "indirect_lists"}

(* A record with the fields of a VirtQueue. *)
IsQueue(qu) == DOMAIN qu = Fields /\ qu = [f \in Fields |-> qu[f]]

(* What the driver and the device know of each other's indices: the device sees the
   index the driver has stored, or the one before while the driver is about to check;
   and a device that sleeps, or is about to, has asked to be told of the next chain. *)
IndexInv ==
  /\ IsQueue(q)
  /\ q.avail_idx \in 0 .. Wrap - 1
  /\ idx \in 0 .. Wrap - 1
  /\ last_avail \in 0 .. Wrap - 1
  /\ idx # q.avail_idx => Checking /\ q.avail_idx = Next1(idx)
  /\ used = [f \in {"ring", "idx", "avail_event", "flags"} |-> used[f]]
  /\ state \in {"asleep", "awake", "arming"}
  /\ state # "awake" => used.flags = 0 /\ used.avail_event = last_avail
  /\ NoLostNotification

(* Next1 stays within the indices and moves. *)
LEMMA Next1Type ==
  ASSUME NEW i \in 0 .. Wrap - 1
  PROVE  Next1(i) \in 0 .. Wrap - 1 /\ Next1(i) # i
  BY VirtqueueAssumption DEF Next1

(* Writing descriptors to the table touches nothing but the table. *)
LEMMA WriteDescKeeps ==
  ASSUME NEW qu, IsQueue(qu), NEW S
  PROVE  /\ IsQueue(write_desc(qu, S))
         /\ write_desc(qu, S).avail_idx = qu.avail_idx
         /\ write_desc(qu, S).event_idx = qu.event_idx
  BY DEF IsQueue, write_desc, Fields

(* add advances the available index by one and leaves the features alone. *)
LEMMA AddAdvances ==
  ASSUME NEW qu, IsQueue(qu), NEW shape
  PROVE  /\ IsQueue(add(qu, shape))
         /\ add(qu, shape).avail_idx = Next1(qu.avail_idx)
         /\ add(qu, shape).event_idx = qu.event_idx
<1>1. /\ IsQueue(add_direct(qu, shape))
      /\ add_direct(qu, shape).avail_idx = qu.avail_idx
      /\ add_direct(qu, shape).event_idx = qu.event_idx
  <2>1. PICK s, h, n, S :
          add_direct(qu, shape) =
            write_desc([qu EXCEPT !.desc_shadow = s, !.free_head = h, !.num_used = n], S)
    BY Zenon DEF add_direct
  <2> DEFINE q1 == [qu EXCEPT !.desc_shadow = s, !.free_head = h, !.num_used = n]
  <2>2. IsQueue(q1) /\ q1.avail_idx = qu.avail_idx /\ q1.event_idx = qu.event_idx
    BY DEF IsQueue, Fields
  <2> HIDE DEF q1
  <2>3. add_direct(qu, shape) = write_desc(q1, S)
    BY <2>1 DEF q1
  <2> QED BY <2>2, <2>3, WriteDescKeeps, Zenon
<1>2. /\ IsQueue(add_indirect(qu, shape))
      /\ add_indirect(qu, shape).avail_idx = qu.avail_idx
      /\ add_indirect(qu, shape).event_idx = qu.event_idx
  <2>1. PICK s, h, n, l, S :
          add_indirect(qu, shape) =
            write_desc([qu EXCEPT !.indirect_lists = l, !.free_head = h, !.desc_shadow = s,
                                  !.num_used = n], S)
    BY Zenon DEF add_indirect
  <2> DEFINE q1 == [qu EXCEPT !.indirect_lists = l, !.free_head = h, !.desc_shadow = s,
                              !.num_used = n]
  <2>2. IsQueue(q1) /\ q1.avail_idx = qu.avail_idx /\ q1.event_idx = qu.event_idx
    BY DEF IsQueue, Fields
  <2> HIDE DEF q1
  <2>3. add_indirect(qu, shape) = write_desc(q1, S)
    BY <2>1 DEF q1
  <2> QED BY <2>2, <2>3, WriteDescKeeps, Zenon
<1> DEFINE q1 == IF qu.indirect /\ shape[1] + shape[2] > 1
                 THEN add_indirect(qu, shape) ELSE add_direct(qu, shape)
<1>3. IsQueue(q1) /\ q1.avail_idx = qu.avail_idx /\ q1.event_idx = qu.event_idx
  BY <1>1, <1>2
<1>4. add(qu, shape) = [q1 EXCEPT !.ring[qu.avail_idx % Size] = qu.free_head,
                                  !.avail_idx = Next1(@)]
  BY DEF add
<1> HIDE DEF q1
<1> QED BY <1>3, <1>4 DEF IsQueue, Fields

(* Popping touches neither the available index nor the features. *)
LEMMA PopKeeps ==
  ASSUME NEW qu, IsQueue(qu), NEW t, NEW shape
  PROVE  /\ IsQueue(pop_used(qu, t, shape))
         /\ pop_used(qu, t, shape).avail_idx = qu.avail_idx
         /\ pop_used(qu, t, shape).event_idx = qu.event_idx
<1>1. /\ IsQueue(recycle_descriptors(qu, t, shape))
      /\ recycle_descriptors(qu, t, shape).avail_idx = qu.avail_idx
      /\ recycle_descriptors(qu, t, shape).event_idx = qu.event_idx
  <2>1. PICK h, n, s, l, S :
          \/ recycle_descriptors(qu, t, shape) =
               write_desc([qu EXCEPT !.free_head = h, !.num_used = n, !.desc_shadow = s,
                                     !.indirect_lists = l], S)
          \/ recycle_descriptors(qu, t, shape) =
               [qu EXCEPT !.free_head = h, !.num_used = n, !.desc_shadow = s,
                          !.indirect_lists = l]
    BY Zenon DEF recycle_descriptors
  <2> DEFINE q1 == [qu EXCEPT !.free_head = h, !.num_used = n, !.desc_shadow = s,
                              !.indirect_lists = l]
  <2>2. IsQueue(q1) /\ q1.avail_idx = qu.avail_idx /\ q1.event_idx = qu.event_idx
    BY DEF IsQueue, Fields
  <2> HIDE DEF q1
  <2>3. \/ recycle_descriptors(qu, t, shape) = write_desc(q1, S)
        \/ recycle_descriptors(qu, t, shape) = q1
    BY <2>1 DEF q1
  <2> QED BY <2>2, <2>3, WriteDescKeeps, Zenon
<1> QED BY <1>1 DEF pop_used, IsQueue, Fields

(* The device has the index of an add before should_notify decides (queue.rs 201-204
   before 353 and 358). *)
InOrder == Notify => idx = q.avail_idx

(* Whether or not the load may overtake the store (Reorder), a notification is lost only
   in a behaviour in which one did: as long as every check comes after its store, a
   device that sleeps while there are chains for it has been told or is about to be. *)
THEOREM NotificationsAreNeverLost ==
  Spec /\ [][InOrder]_vars => []NoLostNotification
<1>1. Init => IndexInv
  <2> SUFFICES ASSUME Init PROVE IndexInv
    OBVIOUS
  <2> USE VirtqueueAssumption
  <2>1. PICK f \in Features :
          q = IF mode = "owning" THEN Filled(new(f[1], f[2])) ELSE new(f[1], f[2])
    BY DEF Init
  <2> DEFINE qn == new(f[1], f[2])
  <2>2. IsQueue(qn) /\ qn.avail_idx = 0
    BY DEF new, IsQueue, Fields
  <2> HIDE DEF qn
  <2>a. IsQueue(Filled(qn)) /\ Filled(qn).avail_idx = Size
    BY <2>2 DEF Filled, IsQueue, Fields
  <2>3. /\ IsQueue(q)
        /\ q.avail_idx = IF mode = "owning" THEN Size ELSE 0
    BY <2>1, <2>2, <2>a DEF qn
  <2>4. /\ idx = q.avail_idx /\ last_avail = 0 /\ state = "asleep"
        /\ pc = IF mode = "owning" THEN "check" ELSE "idle"
        /\ used.avail_event = 0 /\ used.flags = 0
        /\ used = [g \in {"ring", "idx", "avail_event", "flags"} |-> used[g]]
    BY DEF Init
  <2>5. NoLostNotification
    BY <2>3, <2>4 DEF NoLostNotification, should_notify, Next1
  <2> QED BY <2>3, <2>4, <2>5 DEF IndexInv, Checking
<1>2. IndexInv /\ [Next]_vars /\ [InOrder]_vars => IndexInv'
  <2> SUFFICES ASSUME IndexInv, [Next]_vars, [InOrder]_vars PROVE IndexInv'
    OBVIOUS
  <2> USE VirtqueueAssumption DEF IndexInv
  <2>1. ASSUME UNCHANGED vars PROVE IndexInv'
    BY <2>1 DEF vars, NoLostNotification, should_notify, Checking
  <2>2. ASSUME NEW shape, q' = add(q, shape), pc' \in {"check", "checkwait"},
               ~Checking, UNCHANGED <<idx, used, last_avail, state, kick>>
        PROVE IndexInv'
    <3>1. /\ IsQueue(q') /\ q'.event_idx = q.event_idx
          /\ q'.avail_idx = Next1(q.avail_idx)
      BY <2>2, AddAdvances
    <3>2. idx = q.avail_idx
      BY <2>2
    <3>3. q'.avail_idx \in 0 .. Wrap - 1
      BY <3>1, Next1Type
    <3>4. NoLostNotification'
      <4> SUFFICES ASSUME state = "asleep", last_avail # q'.avail_idx, ~kick
                   PROVE  should_notify(q)'
        BY <2>2 DEF NoLostNotification
      <4>1. last_avail = q.avail_idx
        BY <2>2 DEF NoLostNotification, Checking
      <4>2. q'.avail_idx = Next1(used.avail_event) /\ used.flags = 0
        BY <4>1, <3>1
      <4> QED BY <2>2, <3>3, <4>2 DEF should_notify
    <3> QED BY <2>2, <3>1, <3>2, <3>3, <3>4 DEF Checking
  <2>3. ASSUME Notify PROVE IndexInv'
    BY <2>1, <2>3 DEF InOrder, Notify, device, NoLostNotification, should_notify, Checking
  <2>4. ASSUME StoreArrives PROVE IndexInv'
    BY <2>4 DEF StoreArrives, device, NoLostNotification, should_notify, Checking
  <2>p. ASSUME NEW t, NEW shape, q' = pop_used(q, t, shape) \/ q' = q, ~Checking, TakeUsed,
               UNCHANGED <<idx, last_avail, state, kick>>, pc' \notin {"check", "checkwait"}
        PROVE IndexInv'
    <3>1. IsQueue(q') /\ q'.event_idx = q.event_idx /\ q'.avail_idx = q.avail_idx
      BY <2>p, PopKeeps
    <3>2. idx = q.avail_idx
      BY <2>p
    <3>3. /\ used'.avail_event = used.avail_event /\ used'.flags = used.flags
          /\ used' = [f \in {"ring", "idx", "avail_event", "flags"} |-> used'[f]]
      BY <2>p DEF TakeUsed
    <3> QED BY <2>p, <3>1, <3>2, <3>3 DEF NoLostNotification, should_notify, Checking
  <2>5. ASSUME Complete PROVE IndexInv'
    <3>1. PICK t : q' = pop_used(q, t, posted[t]) \/ q' = q
      BY <2>5 DEF Complete
    <3> QED BY <2>5, <3>1, <2>p DEF Complete, device, Checking
  <2>6. ASSUME WaitPop PROVE IndexInv'
    <3>1. PICK t : q' = pop_used(q, t, posted[t]) \/ q' = q
      BY <2>6 DEF WaitPop
    <3> QED BY <2>6, <3>1, <2>p DEF WaitPop, device, Checking
  <2>7. ASSUME poll PROVE IndexInv'
    <3>1. PICK q1 : /\ IsQueue(q1) /\ q1.event_idx = q.event_idx
                    /\ q1.avail_idx = q.avail_idx
                    /\ q' = q \/ q' = add(q1, <<0, 1>>)
      BY <2>7, PopKeeps DEF poll
    <3>2. /\ IsQueue(q') /\ q'.event_idx = q.event_idx
          /\ q'.avail_idx = q.avail_idx \/ q'.avail_idx = Next1(q.avail_idx)
      BY <3>1, AddAdvances
    <3>3. idx = q.avail_idx /\ idx' = idx /\ pc' = "check"
      BY <2>7 DEF poll, Checking
    <3>4. /\ used'.avail_event = used.avail_event /\ used'.flags = used.flags
          /\ used' = [f \in {"ring", "idx", "avail_event", "flags"} |-> used'[f]]
      BY <2>7 DEF poll, TakeUsed
    <3>5. q'.avail_idx \in 0 .. Wrap - 1
      BY <3>2, Next1Type
    <3>6. NoLostNotification'
      <4> SUFFICES ASSUME state = "asleep", last_avail # q'.avail_idx, ~kick
                   PROVE  should_notify(q)'
        BY <2>7, <3>3 DEF poll, device, NoLostNotification
      <4>1. last_avail = q.avail_idx
        BY <2>7 DEF poll, NoLostNotification, Checking
      <4>2. q'.avail_idx = Next1(used.avail_event) /\ used.flags = 0
        BY <4>1, <3>2
      <4> QED BY <3>4, <3>5, <4>2 DEF should_notify
    <3> QED BY <2>7, <3>2, <3>3, <3>4, <3>5, <3>6 DEF poll, device, Checking
  <2>8. ASSUME Fetch PROVE IndexInv'
    <3>1. IsQueue(q') /\ q'.event_idx = q.event_idx /\ q'.avail_idx = q.avail_idx
      BY <2>8 DEF Fetch, IsQueue, Fields
    <3>2. last_avail' \in 0 .. Wrap - 1
      BY <2>8, Next1Type DEF Fetch
    <3> QED BY <2>8, <3>1, <3>2 DEF Fetch, NoLostNotification, should_notify, Checking
  <2>9. ASSUME NEW t \in Tokens, Use(t) PROVE IndexInv'
    BY <2>9 DEF Use, NoLostNotification, should_notify, Checking
  <2>10. ASSUME Arm PROVE IndexInv'
    BY <2>10 DEF Arm, NoLostNotification, should_notify, Checking
  <2>11. ASSUME Recheck PROVE IndexInv'
    BY <2>11 DEF Recheck, NoLostNotification, should_notify, Checking
  <2>12. ASSUME Wake PROVE IndexInv'
    BY <2>12 DEF Wake, NoLostNotification, should_notify, Checking
  <2>13. ASSUME NEW shape \in Shapes, Post(shape) PROVE IndexInv'
    BY <2>2, <2>13, Zenon DEF Post, device, Checking
  <2>14. ASSUME NEW shape \in Shapes, AddNotifyWait(shape) PROVE IndexInv'
    BY <2>2, <2>14, Zenon DEF AddNotifyWait, device, Checking
  <2> QED BY <2>1, <2>3, <2>4, <2>5, <2>6, <2>7, <2>8, <2>9, <2>10, <2>11, <2>12,
             <2>13, <2>14, Zenon DEF Next
<1>3. IndexInv => NoLostNotification
  BY DEF IndexInv
<1> QED BY <1>1, <1>2, <1>3, PTL DEF Spec

==============================================================================
