------------------------------ MODULE Virtqueue ------------------------------
(***************************************************************************)
(* The split virtqueue of the virtio drivers (dependency/virtio-drivers/   *)
(* src/queue.rs, queue/owning.rs): the driver's VirtQueue, and the device  *)
(* it shares memory with.                                                  *)
(*                                                                         *)
(* The driver runs concurrently with the device.  Its accesses to the      *)
(* shared memory that the device can observe one by one are the store of   *)
(* the available index, which publishes what was written before it, and    *)
(* the load should_notify makes; both are steps of their own.  Buffers are *)
(* abstracted to addresses: the k-th buffer of the request with token t is *)
(* <<t, k>>, and Free is the 0 that unset_buf writes.  Indices are  *)
(* u16 counters; here they wrap at Wrap.  A ring slot that its reader has  *)
(* taken is not read again before it is rewritten; it holds Taken from     *)
(* then on.                                                                *)
(***************************************************************************)
EXTENDS Integers, Sequences, FiniteSets, SequencesExt

CONSTANTS Size,     \* SIZE, the number of descriptors, a power of two
          Wrap,     \* 2^16 in the code: the index at which indices wrap
          Shapes,   \* the <<inputs, outputs>> the callers pass to add
          Features, \* the <<RING_INDIRECT_DESC, RING_EVENT_IDX>> negotiated
          MaxPosted, \* a bound on the requests the callers await at a time
          MaxInFlight, \* a bound on the chains the device holds at a time
          Reorder   \* whether the load of should_notify may overtake the store
                    \* of the available index (no fence separates the two)

ASSUME VirtqueueAssumption == Size \in Nat \ {0} /\ Wrap \in Nat /\ 2 * Size <= Wrap

VARIABLES q,        \* the VirtQueue: what the driver alone writes
          idx,      \* (*avail).idx, as the device sees it
          used,     \* the used ring: what the device alone writes
          posted,   \* token -> shape, of the requests the callers await
          pc,       \* where the driver is: "idle", "check" or "wait"
          mode,     \* "owning" for a queue under an OwningQueue, or "calls"
          last_avail, inflight, state, kick,  \* the device
          panicked
vars == <<q, idx, used, posted, pc, mode, last_avail, inflight, state, kick, panicked>>
device == <<last_avail, inflight, state>>

Tokens == 0 .. Size - 1
Free == <<>>
Taken == -1
Next1(i) == (i + 1) % Wrap
Unlinked == [addr |-> Free, flags |-> {}, next |-> 0]

(* A buffer's direction is its WRITE flag; inputs come before outputs. *)
InputOutputIter(shape) ==
  [k \in 1 .. shape[1] + shape[2] |-> IF k > shape[1] THEN {"WRITE"} ELSE {}]

set_buf(desc, addr, flags) == [desc EXCEPT !.addr = addr, !.flags = flags]

(* The flags of a descriptor that is free are not read before set_buf overwrites them;
   the model drops them with the buffer. *)
unset_buf(desc) == [desc EXCEPT !.addr = Free, !.flags = {}]

(* The descriptors of a chain, head first. *)
chain(shadow, head) ==
  LET walk[n \in 0 .. Size] ==
        IF n = 0 THEN <<head>>
        ELSE LET c == walk[n - 1] IN
             IF "NEXT" \in shadow[Last(c)].flags THEN Append(c, shadow[Last(c)].next) ELSE c
  IN walk[Size]

(* The first n descriptors of the free list. *)
FreeList(qu, n) ==
  LET walk[m \in 0 .. n] ==
        IF m = 0 THEN <<>>
        ELSE LET l == walk[m - 1] IN
             Append(l, IF l = <<>> THEN qu.free_head ELSE qu.desc_shadow[Last(l)].next)
  IN walk[n]

write_desc(qu, S) == [qu EXCEPT !.desc = [i \in Tokens |-> IF i \in S THEN qu.desc_shadow[i] ELSE @[i]]]

add_direct(qu, shape) ==
  LET io == InputOutputIter(shape)
      taken == FreeList(qu, Len(io))
      head == taken[1]
      flags(k) == io[k] \cup (IF k = Len(io) THEN {} ELSE {"NEXT"})
      shadow == [i \in Tokens |->
                   IF \E k \in DOMAIN taken : taken[k] = i
                   THEN LET k == CHOOSE k \in DOMAIN taken : taken[k] = i
                        IN set_buf(qu.desc_shadow[i], <<head, k>>, flags(k))
                   ELSE qu.desc_shadow[i]]
  IN write_desc([qu EXCEPT !.desc_shadow = shadow,
                           !.free_head = qu.desc_shadow[Last(taken)].next,
                           !.num_used = @ + Len(io)],
                Range(taken))

add_indirect(qu, shape) ==
  LET io == InputOutputIter(shape)
      head == qu.free_head
      list == [k \in DOMAIN io |->
                 [addr |-> <<head, k>>, next |-> k,
                  flags |-> io[k] \cup (IF k = Len(io) THEN {} ELSE {"NEXT"})]]
  IN write_desc([qu EXCEPT !.indirect_lists[head] = list,
                           !.free_head = qu.desc_shadow[head].next,
                           !.desc_shadow[head] = set_buf(@, <<head, "list">>, {"INDIRECT"}),
                           !.num_used = @ + 1],
                {head})

QueueFull(qu, shape) ==
  LET needed == shape[1] + shape[2] IN
  \/ qu.num_used + 1 > Size
  \/ needed > Size
  \/ ~qu.indirect /\ qu.num_used + needed > Size

(* add after its checks: the chain goes into the next slot of the available ring,
   and the index is stored after the fence. *)
add(qu, shape) ==
  LET head == qu.free_head
      q1 == IF qu.indirect /\ shape[1] + shape[2] > 1
            THEN add_indirect(qu, shape) ELSE add_direct(qu, shape)
  IN [q1 EXCEPT !.ring[qu.avail_idx % Size] = head, !.avail_idx = Next1(@)]

can_pop(qu) == qu.last_used_idx # used.idx
peek_used(qu) == used.ring[qu.last_used_idx % Size]

\* recycle_descriptors mutated: the chain is put in front of the free list without
\* linking its last descriptor to what the free list held.
RecycleUnlinked(qu, head, shape) ==
  LET c == chain(qu.desc_shadow, head)
      direct == "INDIRECT" \notin qu.desc_shadow[head].flags
      freed == IF direct THEN Range(c) ELSE {head}
      shadow == [i \in Tokens |->
                   IF i \in freed THEN unset_buf(qu.desc_shadow[i]) ELSE qu.desc_shadow[i]]
      q1 == [qu EXCEPT !.free_head = head, !.num_used = @ - Cardinality(freed),
                       !.desc_shadow = shadow, !.indirect_lists[head] = <<>>]
  IN IF direct THEN write_desc(q1, freed) ELSE q1

(* The chain is put in front of the free list.  An indirect descriptor is one
   descriptor, whose list is dropped, and is not written back to the table. *)
recycle_descriptors(qu, head, shape) ==
  LET c == chain(qu.desc_shadow, head)
      direct == "INDIRECT" \notin qu.desc_shadow[head].flags
      freed == IF direct THEN Range(c) ELSE {head}
      shadow == [i \in Tokens |->
                   IF i \in freed THEN unset_buf(qu.desc_shadow[i]) ELSE qu.desc_shadow[i]]
      end == IF direct THEN Last(c) ELSE head
      q1 == [qu EXCEPT !.free_head = head, !.num_used = @ - Cardinality(freed),
                       !.desc_shadow = [shadow EXCEPT ![end].next = qu.free_head],
                       !.indirect_lists[head] = <<>>]
  IN IF direct THEN write_desc(q1, freed) ELSE q1

(* The panics of recycle_descriptors: no list for an indirect chain, or a chain that
   is not as long as the caller's buffers. *)
RecyclePanics(qu, head, shape) ==
  LET needed == shape[1] + shape[2] IN
  IF "INDIRECT" \in qu.desc_shadow[head].flags
  THEN Len(qu.indirect_lists[head]) # needed
  ELSE Len(chain(qu.desc_shadow, head)) # needed

(* The driver takes the next slot of the used ring. *)
TakeUsed == used' = [used EXCEPT !.ring[q.last_used_idx % Size] = Taken]

pop_used(qu, token, shape) ==
  [recycle_descriptors(qu, token, shape) EXCEPT !.last_used_idx = Next1(@)]

\* should_notify mutated: strictly beyond the index the device asked about.
NotifiesLate(qu) ==
  IF qu.event_idx THEN qu.avail_idx > Next1(used.avail_event) ELSE used.flags = 0

(* The comparison is of plain u16 values, whatever has wrapped. *)
should_notify(qu) ==
  IF qu.event_idx THEN qu.avail_idx >= Next1(used.avail_event) ELSE used.flags = 0

(* VirtQueue::new *)
new(ind, ev) ==
  LET linked == [i \in Tokens |-> [Unlinked EXCEPT !.next = IF i < Size - 1 THEN i + 1 ELSE 0]]
  IN [desc_shadow |-> linked, desc |-> linked, ring |-> [i \in Tokens |-> Taken],
      free_head |-> 0, num_used |-> 0, avail_idx |-> 0, last_used_idx |-> 0,
      indirect |-> ind, event_idx |-> ev, indirect_lists |-> [i \in Tokens |-> <<>>]]

(* OwningQueue::new: the loop offers every descriptor to the device as a buffer of its
   own, descriptor i with token i; its caller checks once for all of them. *)
Filled(qu) ==
  LET offered == [i \in Tokens |-> set_buf(qu.desc_shadow[i], <<i, 1>>, {"WRITE"})]
  IN [qu EXCEPT !.desc_shadow = offered, !.desc = offered, !.ring = [i \in Tokens |-> i],
                !.num_used = Size, !.avail_idx = Size]

Init ==
  /\ mode \in {"calls", "owning"}
  /\ \E f \in Features :
       q = IF mode = "owning" THEN Filled(new(f[1], f[2])) ELSE new(f[1], f[2])
  /\ idx = q.avail_idx
  /\ posted = IF mode = "owning" THEN [t \in Tokens |-> <<0, 1>>] ELSE <<>>
  /\ pc = IF mode = "owning" THEN "check" ELSE "idle"
  /\ used = [ring |-> [i \in Tokens |-> Taken], idx |-> 0, avail_event |-> 0, flags |-> 0]
  /\ last_avail = 0 /\ inflight = {} /\ state = "asleep" /\ kick = FALSE
  /\ panicked = FALSE

(* A caller that posts a request and will pop it later: read_blocks_nb, transmit_begin,
   receive_begin, poll_retrieve. *)
Post(shape) ==
  /\ mode = "calls" /\ pc = "idle" /\ ~QueueFull(q, shape)
  /\ Cardinality(DOMAIN posted) < MaxPosted
  /\ q' = add(q, shape)
  /\ posted' = (q.free_head :> shape) @@ posted
  /\ pc' = "check"
  /\ UNCHANGED <<idx, used, mode, device, kick, panicked>>

(* The store of the available index, with which add ends, reaches the device. *)
StoreArrives ==
  /\ idx # q.avail_idx
  /\ idx' = q.avail_idx
  /\ UNCHANGED <<q, used, posted, pc, mode, device, kick, panicked>>

(* The notification that follows an add, when should_notify asks for one.  The
   notification itself is not ordered before the store. *)
Notify ==
  /\ pc \in {"check", "checkwait"}
  /\ Reorder \/ idx = q.avail_idx
  /\ kick' = (kick \/ should_notify(q))
  /\ idx' = IF should_notify(q) THEN q.avail_idx ELSE idx
  /\ pc' = IF pc = "check" THEN "idle" ELSE "wait"
  /\ UNCHANGED <<q, used, posted, mode, device, panicked>>

(* A caller that polls the used ring and pops the next request with its own buffers. *)
Complete ==
  /\ mode = "calls" /\ pc = "idle" /\ can_pop(q)
  /\ LET t == peek_used(q) IN
       /\ panicked' = (t \notin DOMAIN posted \/ RecyclePanics(q, t, posted[t]))
       /\ ~panicked' => /\ q' = pop_used(q, t, posted[t])
                        /\ posted' = [u \in DOMAIN posted \ {t} |-> posted[u]]
       /\ panicked' => UNCHANGED <<q, posted>>
  /\ TakeUsed
  /\ UNCHANGED <<idx, pc, mode, device, kick>>

(* add_notify_wait_pop, whose contract is that the device has nothing else of this
   queue: the driver spins until the device has used the chain. *)
AddNotifyWait(shape) ==
  /\ mode = "calls" /\ pc = "idle" /\ posted = <<>> /\ ~QueueFull(q, shape)
  /\ q' = add(q, shape)
  /\ posted' = q.free_head :> shape
  /\ pc' = "checkwait"
  /\ UNCHANGED <<idx, used, mode, device, kick, panicked>>

WaitPop ==
  /\ pc = "wait" /\ can_pop(q)
  /\ LET t == CHOOSE t \in DOMAIN posted : TRUE IN
       /\ panicked' = (peek_used(q) # t \/ RecyclePanics(q, t, posted[t]))
       /\ q' = IF panicked' THEN q ELSE pop_used(q, t, posted[t])
  /\ posted' = <<>>
  /\ pc' = "idle"
  /\ TakeUsed
  /\ UNCHANGED <<idx, mode, device, kick>>

(* OwningQueue::poll: the buffer goes to the handler and back into the queue, where it
   has to get the descriptor it had. *)
poll ==
  /\ mode = "owning" /\ pc = "idle" /\ can_pop(q)
  /\ LET t == peek_used(q)
         q1 == pop_used(q, t, <<0, 1>>)
     IN /\ panicked' = (RecyclePanics(q, t, <<0, 1>>) \/ q1.free_head # t)
        /\ q' = IF panicked' THEN q ELSE add(q1, <<0, 1>>)
  /\ pc' = "check"
  /\ TakeUsed
  /\ UNCHANGED <<idx, posted, mode, device, kick>>

(***************************************************************************)
(* The device: it takes chains from the available ring in order, uses them *)
(* in any order, and sleeps until it is notified once it has taken all of  *)
(* them.  Before it sleeps it says from which index on it wants to be      *)
(* notified (or clears its flag) and looks at the available index again.   *)
(***************************************************************************)
Fetch ==
  /\ state = "awake" /\ last_avail # idx /\ Cardinality(inflight) < MaxInFlight
  /\ inflight' = inflight \cup {q.ring[last_avail % Size]}
  /\ q' = [q EXCEPT !.ring[last_avail % Size] = Taken]
  /\ last_avail' = Next1(last_avail)
  /\ UNCHANGED <<idx, used, posted, pc, mode, state, kick, panicked>>

Use(t) ==
  /\ t \in inflight
  /\ used' = [used EXCEPT !.ring[used.idx % Size] = t, !.idx = Next1(@)]
  /\ inflight' = inflight \ {t}
  /\ UNCHANGED <<q, idx, posted, pc, mode, last_avail, state, kick, panicked>>

Arm ==
  /\ state = "awake" /\ last_avail = idx
  /\ used' = [used EXCEPT !.avail_event = last_avail, !.flags = 0]
  /\ state' = "arming"
  /\ UNCHANGED <<q, idx, posted, pc, mode, last_avail, inflight, kick, panicked>>

Recheck ==
  /\ state = "arming"
  /\ state' = IF last_avail = idx THEN "asleep" ELSE "awake"
  /\ used' = IF last_avail = idx THEN used ELSE [used EXCEPT !.flags = 1]
  /\ UNCHANGED <<q, idx, posted, pc, mode, last_avail, inflight, kick, panicked>>

Wake ==
  /\ state = "asleep" /\ kick
  /\ kick' = FALSE
  /\ state' = "awake"
  /\ used' = [used EXCEPT !.flags = 1]
  /\ UNCHANGED <<q, idx, posted, pc, mode, last_avail, inflight, panicked>>

Next ==
  \/ \E shape \in Shapes : Post(shape) \/ AddNotifyWait(shape)
  \/ Notify \/ StoreArrives \/ Complete \/ WaitPop \/ poll
  \/ Fetch \/ (\E t \in Tokens : Use(t)) \/ Arm \/ Recheck \/ Wake

Spec == Init /\ [][Next]_vars

(***************************************************************************)
(* Properties.                                                             *)
(***************************************************************************)
Chain(t) == IF "INDIRECT" \in q.desc_shadow[t].flags THEN {t} ELSE Range(chain(q.desc_shadow, t))

(* What the device reads through the table when it is given head t. *)
Seen(t) ==
  LET d == q.desc[t] IN
  IF "INDIRECT" \in d.flags
  THEN [k \in DOMAIN q.indirect_lists[t] |->
          <<q.indirect_lists[t][k].addr, q.indirect_lists[t][k].flags \ {"NEXT"}>>]
  ELSE LET c == chain(q.desc, t) IN
       [k \in DOMAIN c |-> <<q.desc[c[k]].addr, q.desc[c[k]].flags \ {"NEXT"}>>]

(* The descriptors are partitioned between the requests in progress and a free list of
   SIZE - num_used; the device finds, behind the head of every request it has not used,
   exactly the buffers the caller gave, in their order and directions; and no assertion
   or panic of recycle_descriptors, pop_used or add_buffer_to_queue is reached (queue.rs
   418-499, 510-553, owning.rs 66).  It says that the free list survives requests of
   different lengths that the device uses out of order. *)
RingIsExact ==
  /\ ~panicked
  /\ LET free == FreeList(q, Size - q.num_used)
         chains == {Chain(t) : t \in DOMAIN posted}
     IN /\ Cardinality(Range(free)) = Size - q.num_used
        /\ Cardinality(UNION chains \cup Range(free)) = Size
        /\ Cardinality(UNION chains) = q.num_used
        /\ Cardinality(chains) = Cardinality(DOMAIN posted)
  /\ \A t \in DOMAIN posted :
       Seen(t) = [k \in 1 .. posted[t][1] + posted[t][2] |->
                    <<<<t, k>>, InputOutputIter(posted[t])[k]>>]

(* A device that sleeps while the driver has offered it chains has been notified, or is
   about to be: should_notify never answers "no" to a driver whose device will not look
   at the ring again by itself (queue.rs 349-360), also when the u16 index has wrapped. *)
NoLostNotification ==
  state = "asleep" /\ last_avail # q.avail_idx =>
     kick \/ (pc \in {"check", "checkwait"} /\ should_notify(q))

==============================================================================
