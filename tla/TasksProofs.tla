---------------------------- MODULE TasksProofs -----------------------------
(***************************************************************************)
(* What tasks hold, for any constants.  RecycleAllocator: its type         *)
(* invariant, the ledger of ids, that no drop panics, and that alloc()     *)
(* never hands out an id another handle stands for.  Pipe: its status      *)
(* tells a full ring from an empty one, and it is a queue of bytes.        *)
(***************************************************************************)
EXTENDS RecycleAllocator, Pipe, QueueLemmas, FiniteSetTheorems

\* A leaf that cites no prover is first order.
USE Zenon

Minted == Nat \ {0}

\* The inductive invariant.  DropNeverPanics alone is not inductive: an id
\* twice in `recycled`, or held twice, breaks it only two steps later.
IInv == TypeOK /\ Ledger

LEMMA InitIInv == Init => IInv
  BY EmptyElements, SMT DEF Init, IInv, TypeOK, Ledger, Live, NoId, HeldIds, OneHandlePerId

\* alloc() from the stack of recycled ids.
LEMMA PopKeepsIInv ==
  ASSUME IInv, NEW h \in Handles, h \notin Live, recycled # <<>>,
         held' = [held EXCEPT ![h] = Last(recycled)],
         recycled' = Front(recycled), current' = current
  PROVE  IInv' /\ Last(recycled) \in Nat /\ Last(recycled) \notin HeldIds
<1> DEFINE id == Last(recycled)
<1>1. recycled \in Seq(Minted) /\ held \in [Handles -> Nat]
  BY DEF IInv, TypeOK, Minted
<1>2. /\ recycled' \in Seq(Minted)
      /\ id \in Range(recycled) /\ id \in Minted
      /\ Range(recycled) = Range(recycled') \cup {id}
      /\ IsInjective(recycled') /\ id \notin Range(recycled')
  BY <1>1, PopElements DEF Front, Last, IInv, Ledger
<1>3. \A g \in Handles : held'[g] = IF g = h THEN id ELSE held[g]
  BY <1>1
<1>4. Live' = Live \cup {h}
  BY <1>2, <1>3 DEF Live, NoId, Minted
<1>5. TypeOK'
  BY <1>1, <1>2 DEF IInv, TypeOK, Minted
<1>6. HeldIds' = HeldIds \cup {id}
  BY <1>3, <1>4, SMT DEF Live, HeldIds
<1>7. id \notin HeldIds
  BY <1>2 DEF IInv, Ledger
<1>8. OneHandlePerId'
  BY <1>3, <1>4, <1>7, SMT DEF IInv, Ledger, Live, HeldIds, OneHandlePerId
<1>9. Ledger'
  BY <1>2, <1>6, <1>7, <1>8 DEF IInv, Ledger
<1> QED
  BY <1>2, <1>5, <1>7, <1>9 DEF IInv, Minted

\* alloc() of a fresh id.
LEMMA MintKeepsIInv ==
  ASSUME IInv, NEW h \in Handles, h \notin Live,
         held' = [held EXCEPT ![h] = current],
         recycled' = recycled, current' = current + 1
  PROVE  IInv' /\ current \notin HeldIds
<1>1. current \in Minted /\ held \in [Handles -> Nat]
  BY DEF IInv, TypeOK, Minted
<1>2. current \notin 1..(current - 1) /\ 1..current = (1..(current - 1)) \cup {current}
  BY <1>1, SMT DEF Minted
<1>3. \A g \in Handles : held'[g] = IF g = h THEN current ELSE held[g]
  BY <1>1
<1>4. Live' = Live \cup {h}
  BY <1>1, <1>3 DEF Live, NoId, Minted
<1>5. TypeOK'
  BY <1>1, SMT DEF IInv, TypeOK, Minted
<1>6. HeldIds' = HeldIds \cup {current}
  BY <1>3, <1>4, SMT DEF Live, HeldIds
<1>7. current \notin HeldIds /\ current \notin Range(recycled)
  BY <1>2 DEF IInv, Ledger
<1>8. OneHandlePerId'
  BY <1>3, <1>4, <1>7, SMT DEF IInv, Ledger, Live, HeldIds, OneHandlePerId
<1>9. current' - 1 = current
  BY <1>1, SMT DEF Minted
<1>10. Ledger'
  BY <1>2, <1>6, <1>7, <1>8, <1>9 DEF IInv, Ledger
<1> QED
  BY <1>5, <1>7, <1>10 DEF IInv

LEMMA AllocKeepsIInv ==
  ASSUME IInv, NEW h \in Handles, alloc(h)
  PROVE  IInv'
<1>1. CASE recycled # <<>>
  BY <1>1, PopKeepsIInv DEF alloc
<1>2. CASE recycled = <<>>
  BY <1>2, MintKeepsIInv DEF alloc
<1> QED
  BY <1>1, <1>2

LEMMA DeallocKeepsIInv ==
  ASSUME IInv, NEW h \in Handles, dealloc(h)
  PROVE  IInv'
<1> DEFINE id == held[h]
<1>1. /\ recycled \in Seq(Minted) /\ held \in [Handles -> Nat]
      /\ h \in Live /\ id \in Minted
      /\ recycled' = Append(recycled, id)
      /\ held' = [held EXCEPT ![h] = NoId] /\ current' = current
  BY DEF IInv, TypeOK, Minted, dealloc, Live, NoId
<1>2. id \in HeldIds /\ id \notin Range(recycled) /\ IsInjective(recycled)
  BY <1>1 DEF IInv, Ledger, HeldIds
<1>3. /\ recycled' \in Seq(Minted)
      /\ Range(recycled') = Range(recycled) \cup {id}
      /\ IsInjective(recycled')
  BY <1>1, <1>2, PushElements, PushInjective, SMT
<1>4. \A g \in Handles : held'[g] = IF g = h THEN NoId ELSE held[g]
  BY <1>1
<1>5. Live' = Live \ {h}
  BY <1>4 DEF Live
<1>6. TypeOK'
  BY <1>1, <1>3 DEF IInv, TypeOK, Minted, NoId
<1>7. HeldIds' = HeldIds \ {id}
  BY <1>1, <1>4, <1>5, SMT DEF IInv, Ledger, Live, HeldIds, OneHandlePerId
<1>8. OneHandlePerId'
  BY <1>4, <1>5 DEF IInv, Ledger, Live, OneHandlePerId
<1>9. Ledger'
  BY <1>1, <1>2, <1>3, <1>7, <1>8 DEF IInv, Ledger
<1> QED
  BY <1>6, <1>9 DEF IInv

LEMMA StutterKeepsIInv == IInv /\ UNCHANGED vars => IInv'
  BY SMT DEF IInv, TypeOK, Ledger, Live, vars, HeldIds, OneHandlePerId

LEMMA StepKeepsIInv == IInv /\ [Next]_vars => IInv'
  BY AllocKeepsIInv, DeallocKeepsIInv, StutterKeepsIInv DEF Next

\* In every reachable state the allocator is well typed, and each id minted so
\* far is held by one handle or waits in `recycled` once.
THEOREM LedgerHolds == Spec => [](TypeOK /\ Ledger)
<1>1. Spec => []IInv
  BY InitIInv, StepKeepsIInv, PTL DEF Spec
<1>2. IInv => TypeOK /\ Ledger
  BY DEF IInv
<1> QED
  BY <1>1, <1>2, PTL

\* No drop of a PidHandle, a KernelStack or a TaskControlBlock fails an
\* assert! of dealloc(), whatever the order of allocations and drops.
THEOREM NoDropPanics == Spec => []DropNeverPanics
<1>1. Spec => []IInv
  BY InitIInv, StepKeepsIInv, PTL DEF Spec
<1>2. IInv => DropNeverPanics
  <2> SUFFICES ASSUME IInv, NEW h \in Live PROVE DeallocAsserts(held[h])
    BY DEF DropNeverPanics
  <2>1. held[h] \in 1..(current - 1) /\ held[h] \notin Range(recycled) /\ current \in Nat
    BY DEF IInv, TypeOK, Ledger, HeldIds
  <2> QED
    BY <2>1, SMT DEF DeallocAsserts
<1> QED
  BY <1>1, <1>2, PTL

\* An id is minted only when every id minted before is held, each by another
\* handle: there are never more ids than handles.
LEMMA MintIsBounded ==
  ASSUME IsFiniteSet(Handles), IInv, NEW h \in Handles, h \notin Live, recycled = <<>>
  PROVE  current <= Cardinality(Handles)
<1> DEFINE Others == Handles \ {h}
<1>1. /\ IsFiniteSet(Others) /\ Cardinality(Others) = Cardinality(Handles) - 1
      /\ Cardinality(Handles) \in Nat
  BY FS_RemoveElement, FS_CardinalityType
<1>2. \A i \in 1..(current - 1) : \E g \in Others : held[g] = i
  BY EmptyElements DEF IInv, Ledger, HeldIds, Live
<1> DEFINE Holder == [i \in 1..(current - 1) |-> CHOOSE g \in Others : held[g] = i]
<1>3. \A i \in 1..(current - 1) : Holder[i] \in Others /\ held[Holder[i]] = i
  BY <1>2
<1>4. Holder \in Injection(1..(current - 1), Others)
  <2>1. Holder \in [1..(current - 1) -> Others]
    BY <1>3
  <2>2. ASSUME NEW i \in 1..(current - 1), NEW j \in 1..(current - 1), Holder[i] = Holder[j]
        PROVE  i = j
    BY <1>3, <2>2
  <2> HIDE DEF Holder
  <2> QED
    BY <2>1, <2>2 DEF Injection, IsInjective
<1>5. Cardinality(1..(current - 1)) <= Cardinality(Others)
  BY <1>1, <1>4, FS_Injection, SMT
<1>6. current \in Nat /\ current >= 1
  BY SMT DEF IInv, TypeOK
<1>7. Cardinality(1..(current - 1)) = current - 1
  BY <1>6, FS_Interval, SMT
<1> QED
  BY <1>1, <1>5, <1>6, <1>7, SMT

\* The ids minted are at most as many as the handles.
Dense == current - 1 <= Cardinality(Handles)

LEMMA StepKeepsDense ==
  ASSUME IsFiniteSet(Handles)
  PROVE  IInv /\ Dense /\ [Next]_vars => Dense'
<1> SUFFICES ASSUME IInv, Dense, [Next]_vars PROVE Dense'
  OBVIOUS
<1>1. current \in Nat
  BY DEF IInv, TypeOK
<1>2. ASSUME NEW h \in Handles, alloc(h) PROVE Dense'
  BY <1>1, <1>2, MintIsBounded, SMT DEF alloc, Dense
<1>3. ASSUME NEW h \in Handles, dealloc(h) PROVE Dense'
  BY <1>3 DEF dealloc, Dense
<1> QED
  BY <1>2, <1>3 DEF Next, vars, Dense

LEMMA StepIsPoolStep ==
  ASSUME IsFiniteSet(Handles)
  PROVE  IInv /\ Dense /\ [Next]_vars => [Pool!Next]_held
<1> SUFFICES ASSUME IInv, Dense, [Next]_vars PROVE [Pool!Next]_held
  OBVIOUS
<1>1. Pool!InUse = HeldIds /\ Pool!Unused = Handles \ Live
  BY DEF Pool!InUse, Pool!Unused, Live, HeldIds
<1>2. CASE UNCHANGED vars
  BY <1>2 DEF vars
<1>3. ASSUME NEW h \in Handles, alloc(h) PROVE Pool!Alloc(h)
  <2>0. current \in Nat /\ current >= 1 /\ Cardinality(Handles) \in Nat
    BY FS_CardinalityType, SMT DEF IInv, TypeOK
  <2>1. CASE recycled # <<>>
    <3>1. recycled \in Seq(Minted)
      BY DEF IInv, TypeOK, Minted
    <3>2. Last(recycled) \in 1..(current - 1)
      BY <2>1, <3>1, PopElements DEF Front, Last, IInv, Ledger
    <3>3. Last(recycled) \in 1..Cardinality(Handles)
      BY <2>0, <3>2, SMT DEF Dense
    <3> QED
      BY <1>1, <1>3, <2>1, <3>3, PopKeepsIInv DEF alloc, Pool!Alloc
  <2>2. CASE recycled = <<>>
    <3>1. current \in 1..Cardinality(Handles)
      BY <1>3, <2>0, <2>2, MintIsBounded, SMT DEF alloc
    <3> QED
      BY <1>1, <1>3, <2>2, <3>1, MintKeepsIInv DEF alloc, Pool!Alloc
  <2> QED
    BY <2>1, <2>2
<1>4. ASSUME NEW h \in Handles, dealloc(h) PROVE Pool!Drop(h)
  BY <1>1, <1>4 DEF dealloc, Pool!Drop
<1> QED
  BY <1>2, <1>3, <1>4 DEF Next, Pool!Next

\* alloc() only ever hands out an id that stands for no other handle, and none
\* above the number of handles: the allocator implements the dense pool the
\* kernel takes pids, kernel stacks and thread slots from (task/pid.rs).
THEOREM RefinesIdPool == ASSUME IsFiniteSet(Handles) PROVE Spec => ImplementsIdPool
<1>1. Init => Pool!Init
  BY DEF Init, Pool!Init
<1>2. Init => Dense
  BY FS_CardinalityType, SMT DEF Init, Dense
<1>3. IInv /\ Dense /\ [Next]_vars => Dense'
  BY StepKeepsDense
<1>4. IInv /\ Dense /\ [Next]_vars => [Pool!Next]_held
  BY StepIsPoolStep
<1> QED
  BY <1>1, <1>2, <1>3, <1>4, InitIInv, StepKeepsIInv, PTL DEF Spec, ImplementsIdPool, Pool!Spec

-----------------------------------------------------------------------------

\* In the middle of a copy that reads the ring is not empty, and in one that
\* writes it is not full, although head may equal tail and the status is that of
\* before; and when the user buffer is used up, head and tail differ.
CopyIsSound ==
  op # NoOp =>
    /\ head = tail => status = IF op.kind = "read" THEN "FULL" ELSE "EMPTY"
    /\ op.rest = <<>> => head # tail

\* A call has a buffer to fill or to empty.
CallsHaveBuffers == \A t \in Tasks : pc[t] # "user" => buffer[t] # <<>>

RingInv == PipeTypeOK /\ StatusIsExact /\ CopyIsSound /\ CallsHaveBuffers

Op == [kind : {"read", "write"}, task : Tasks, rest : Seq(Nat \ {0})]

\* make_pipe() makes an empty ring that nobody is copying.
LEMMA RingInit == ASSUME PipeAssumption, PipeInit PROVE RingInv
BY SMT DEF PipeAssumption, PipeInit, RingInv, PipeTypeOK, StatusIsExact, CopyIsSound,
       CallsHaveBuffers, NoOp

\* What is left of a user buffer after n bytes of its first piece.
LEMMA RestType ==
  ASSUME op \in Op, op.rest # <<>>, NEW n \in 1..Head(op.rest)
  PROVE  Rest(n) \in Seq(Nat \ {0})
<1>1. op.rest \in Seq(Nat \ {0})
  BY DEF Op
<1>2. Head(op.rest) \in Nat \ {0} /\ Tail(op.rest) \in Seq(Nat \ {0})
  BY <1>1, SMT
<1>3. CASE n = Head(op.rest)
  BY <1>2, <1>3 DEF Rest
<1>4. CASE n # Head(op.rest)
  <2>1. Head(op.rest) - n \in Nat \ {0}
    BY <1>2, <1>4, SMT
  <2>2. <<Head(op.rest) - n>> \in Seq(Nat \ {0})
    BY <2>1, SMT
  <2> QED
    BY <1>2, <1>4, <2>2, SMT DEF Rest
<1> QED
  BY <1>3, <1>4

\* The bytes buffer_read() copies are in the ring, do not wrap, and are at least one.
LEMMA ReadBounds ==
  ASSUME PipeAssumption, RingInv, op.kind = "read", op.rest # <<>>
  PROVE  /\ op \in Op /\ Readable \in 1..(Size - head)
         /\ Least(Head(op.rest), Readable) \in 1..Head(op.rest)
         /\ Least(Head(op.rest), Readable) \in 1..Readable
         /\ Used \in 0..Size /\ Readable <= Used
<1>1. op \in Op /\ op # NoOp
  BY SMT DEF RingInv, PipeTypeOK, NoOp, Op
<1>2. Head(op.rest) \in Nat \ {0}
  BY <1>1, SMT DEF Op
<1>3. head \in 0..(Size - 1) /\ tail \in 0..(Size - 1) /\ Size \in Nat
  BY DEF RingInv, PipeTypeOK, PipeAssumption
<1>4. head = tail => status = "FULL"
  BY <1>1 DEF RingInv, CopyIsSound
<1>5. Readable \in 1..(Size - head) /\ Used \in 0..Size /\ Readable <= Used
  BY <1>3, <1>4, SMT DEF Readable, Used
<1> QED
  BY <1>1, <1>2, <1>3, <1>5, SMT DEF Least

\* The bytes buffer_write() copies fit into the ring, do not wrap, and are at least one.
LEMMA WriteBounds ==
  ASSUME PipeAssumption, RingInv, op.kind = "write", op.rest # <<>>
  PROVE  /\ op \in Op /\ Writable \in 1..(Size - tail)
         /\ Least(Head(op.rest), Writable) \in 1..Head(op.rest)
         /\ Least(Head(op.rest), Writable) \in 1..Writable
         /\ Used \in 0..Size /\ Writable <= Size - Used
<1>1. op \in Op /\ op # NoOp
  BY SMT DEF RingInv, PipeTypeOK, NoOp, Op
<1>2. Head(op.rest) \in Nat \ {0}
  BY <1>1, SMT DEF Op
<1>3. head \in 0..(Size - 1) /\ tail \in 0..(Size - 1) /\ Size \in Nat
  BY DEF RingInv, PipeTypeOK, PipeAssumption
<1>4. head = tail => status = "EMPTY"
  BY <1>1 DEF RingInv, CopyIsSound
<1>5. Writable \in 1..(Size - tail) /\ Used \in 0..Size /\ Writable <= Size - Used
  BY <1>3, <1>4, SMT DEF Writable, Used
<1> QED
  BY <1>1, <1>2, <1>3, <1>5, SMTT(30) DEF Least

\* A copy that goes on, or returns because head met tail, leaves calls and
\* status sound.
LEMMA ProceedIsSound ==
  ASSUME PipeAssumption, RingInv, op \in Op, op.rest # <<>>,
         NEW n \in 1..Head(op.rest), NEW s \in {"EMPTY", "FULL"},
         Proceed(head' = tail', n, s)
  PROVE  /\ status' \in {"FULL", "EMPTY", "NORMAL"}
         /\ pc' \in [Tasks -> {"user", "read", "write"}]
         /\ buffer' \in [Tasks -> Seq(Nat \ {0})]
         /\ op' = NoOp \/ op' \in Op
         /\ StatusIsExact' /\ CopyIsSound' /\ CallsHaveBuffers'
<1>1. /\ status \in {"FULL", "EMPTY", "NORMAL"}
      /\ pc \in [Tasks -> {"user", "read", "write"}]
      /\ buffer \in [Tasks -> Seq(Nat \ {0})]
      /\ CallsHaveBuffers
  BY DEF RingInv, PipeTypeOK
<1>2. CASE head' = tail'
  <2>1. status' = s /\ op' = NoOp /\ ReturnFrom(op.task)
    BY <1>2 DEF Proceed
  <2>2. StatusIsExact' /\ CopyIsSound'
    BY <1>2, <2>1 DEF StatusIsExact, CopyIsSound
  <2>3. /\ pc' = [pc EXCEPT ![op.task] = "user"]
        /\ buffer' = [buffer EXCEPT ![op.task] = <<>>]
    BY <2>1 DEF ReturnFrom
  <2>4. /\ pc' \in [Tasks -> {"user", "read", "write"}]
        /\ buffer' \in [Tasks -> Seq(Nat \ {0})]
    <3>1. pc \in [Tasks -> {"user", "read", "write"}] /\ buffer \in [Tasks -> Seq(Nat \ {0})]
      BY <1>1
    <3>2. <<>> \in Seq(Nat \ {0})
      BY SMT
    <3> QED
      BY <2>3, <3>1, <3>2
  <2>5. CallsHaveBuffers'
    <3> SUFFICES ASSUME NEW t \in Tasks, pc'[t] # "user" PROVE buffer'[t] # <<>>
      BY DEF CallsHaveBuffers
    <3>1. t # op.task /\ pc[t] # "user" /\ buffer'[t] = buffer[t]
      BY <1>1, <2>3
    <3> QED
      BY <1>1, <3>1 DEF CallsHaveBuffers
  <2> QED
    BY <2>1, <2>2, <2>4, <2>5
<1>3. CASE head' # tail'
  <2>1. op' = [op EXCEPT !.rest = Rest(n)] /\ UNCHANGED <<status, pc, buffer>>
    BY <1>3 DEF Proceed
  <2>2. op' \in Op
    BY <2>1, RestType DEF Op
  <2>3. op' # NoOp
    BY <2>2, SMT DEF Op, NoOp
  <2>4. StatusIsExact' /\ CopyIsSound'
    BY <1>3, <2>3 DEF StatusIsExact, CopyIsSound
  <2>5. CallsHaveBuffers'
    BY <1>1, <2>1 DEF CallsHaveBuffers
  <2> QED
    BY <1>1, <2>1, <2>2, <2>4, <2>5
<1> QED
  BY <1>2, <1>3

\* buffer_read() keeps the ring sound.
LEMMA ReadIsSound == ASSUME PipeAssumption, RingInv, buffer_read PROVE RingInv'
<1> DEFINE n == Least(Head(op.rest), Readable)
<1>1. /\ op.kind = "read" /\ op.rest # <<>>
      /\ delivered' = [i \in 1..n |-> arr[head + i - 1]]
      /\ head' = Wrap(head + n)
      /\ Proceed(head' = tail, n, "EMPTY")
      /\ UNCHANGED <<arr, tail, readers, writers>>
  BY DEF buffer_read
<1>2. op \in Op /\ n \in 1..Head(op.rest) /\ n \in 1..(Size - head)
  <2>1. head \in 0..(Size - 1) /\ Size \in Nat
    BY DEF RingInv, PipeTypeOK, PipeAssumption
  <2> QED
    BY <1>1, <2>1, ReadBounds, SMT
<1> HIDE DEF n
<1>3. Proceed(head' = tail', n, "EMPTY")
  BY <1>1
<1>4. /\ status' \in {"FULL", "EMPTY", "NORMAL"}
      /\ pc' \in [Tasks -> {"user", "read", "write"}]
      /\ buffer' \in [Tasks -> Seq(Nat \ {0})]
      /\ op' = NoOp \/ op' \in Op
      /\ StatusIsExact' /\ CopyIsSound' /\ CallsHaveBuffers'
  BY <1>1, <1>2, <1>3, ProceedIsSound
<1>5. head' \in 0..(Size - 1)
  BY <1>1, <1>2, SMT DEF RingInv, PipeTypeOK, PipeAssumption, Wrap
<1>6. delivered' \in Seq(Bytes)
  <2>1. \A i \in 1..n : arr[head + i - 1] \in Bytes
    BY <1>2, SMT DEF RingInv, PipeTypeOK, PipeAssumption
  <2>2. n \in Nat
    BY <1>2, SMT DEF RingInv, PipeTypeOK, PipeAssumption
  <2> QED
    BY <1>1, <2>1, <2>2, SMT
<1>7. arr' = arr /\ tail' = tail /\ readers' = readers /\ writers' = writers
  BY <1>1
<1> QED
  BY <1>4, <1>5, <1>6, <1>7 DEF RingInv, PipeTypeOK, Op

\* buffer_write() keeps the ring sound.
LEMMA WriteIsSound == ASSUME PipeAssumption, RingInv, buffer_write PROVE RingInv'
<1> DEFINE n == Least(Head(op.rest), Writable)
<1>1. /\ op.kind = "write" /\ op.rest # <<>>
      /\ \E s \in [1..n -> Bytes] :
           arr' = [i \in 0..(Size - 1) |->
                     IF i \in tail..(tail + n - 1) THEN s[i - tail + 1] ELSE arr[i]]
      /\ tail' = Wrap(tail + n)
      /\ Proceed(tail' = head, n, "FULL")
      /\ UNCHANGED <<head, readers, writers, delivered>>
  BY DEF buffer_write
<1>2. op \in Op /\ n \in 1..Head(op.rest) /\ n \in 1..(Size - tail)
  <2>1. tail \in 0..(Size - 1) /\ Size \in Nat
    BY DEF RingInv, PipeTypeOK, PipeAssumption
  <2> QED
    BY <1>1, <2>1, WriteBounds, SMT
<1> HIDE DEF n
<1>3. Proceed(head' = tail', n, "FULL")
  BY <1>1 DEF Proceed
<1>4. /\ status' \in {"FULL", "EMPTY", "NORMAL"}
      /\ pc' \in [Tasks -> {"user", "read", "write"}]
      /\ buffer' \in [Tasks -> Seq(Nat \ {0})]
      /\ op' = NoOp \/ op' \in Op
      /\ StatusIsExact' /\ CopyIsSound' /\ CallsHaveBuffers'
  BY <1>1, <1>2, <1>3, ProceedIsSound
<1>5. tail' \in 0..(Size - 1)
  BY <1>1, <1>2, SMT DEF RingInv, PipeTypeOK, PipeAssumption, Wrap
<1>6. arr' \in [0..(Size - 1) -> Bytes]
  <2>1. PICK s \in [1..n -> Bytes] :
           arr' = [i \in 0..(Size - 1) |->
                     IF i \in tail..(tail + n - 1) THEN s[i - tail + 1] ELSE arr[i]]
    BY <1>1
  <2>2. tail \in Nat /\ n \in Nat /\ arr \in [0..(Size - 1) -> Bytes]
    BY <1>2, SMT DEF RingInv, PipeTypeOK, PipeAssumption
  <2>3. \A i \in tail..(tail + n - 1) : s[i - tail + 1] \in Bytes
    BY <2>2, SMT
  <2> QED
    BY <2>1, <2>2, <2>3
<1>7. head' = head /\ readers' = readers /\ writers' = writers /\ delivered' = delivered
  BY <1>1
<1> QED
  BY <1>4, <1>5, <1>6, <1>7 DEF RingInv, PipeTypeOK, Op

\* Every step keeps the ring sound.
LEMMA RingStep ==
  ASSUME PipeAssumption, NoEmptyCalls, RingInv, [PipeNext]_pipe_vars
  PROVE  RingInv'
<1>1. CASE buffer_read
  BY <1>1, ReadIsSound
<1>2. CASE buffer_write
  BY <1>2, WriteIsSound
<1>3. CASE CopyDone
  <2>1. op \in Op /\ op.rest = <<>> /\ op' = NoOp /\ status' = "NORMAL" /\ head # tail
    BY <1>3 DEF CopyDone, RingInv, PipeTypeOK, CopyIsSound, Op
  <2>2. StatusIsExact' /\ CopyIsSound'
    BY <1>3, <2>1 DEF CopyDone, StatusIsExact, CopyIsSound
  <2>3. PipeTypeOK' /\ CallsHaveBuffers'
    BY <1>3, <2>1 DEF CopyDone, ReturnFrom, RingInv, PipeTypeOK, CallsHaveBuffers, Op
  <2> QED
    BY <2>2, <2>3 DEF RingInv
<1>4. ASSUME NEW t \in Tasks, close_read(t) \/ close_write(t) PROVE RingInv'
  BY <1>4 DEF close_read, close_write, ring, RingInv, PipeTypeOK, StatusIsExact, CopyIsSound,
              CallsHaveBuffers
<1>5. ASSUME NEW t \in Tasks, NEW b \in Buffers, sys_read(t, b) \/ sys_write(t, b)
      PROVE  RingInv'
  <2>1. b \in Seq(Nat \ {0}) /\ b # <<>>
    BY DEF PipeAssumption, NoEmptyCalls
  <2>2. PICK k \in {"read", "write"} : Call(t, k, b)
    BY <1>5 DEF sys_read, sys_write
  <2>3. PipeTypeOK' /\ CallsHaveBuffers'
    BY <2>1, <2>2 DEF Call, ring, RingInv, PipeTypeOK, CallsHaveBuffers
  <2>4. StatusIsExact' /\ CopyIsSound'
    BY <2>2 DEF Call, ring, RingInv, StatusIsExact, CopyIsSound
  <2> QED
    BY <2>3, <2>4 DEF RingInv
<1>6. ASSUME NEW t \in Tasks, ReadRound(t) \/ WriteRound(t) PROVE RingInv'
  <2>1. CASE ReturnFrom(t) /\ UNCHANGED <<op, ring, readers, writers, delivered>>
    BY <2>1, SMT DEF ReturnFrom, ring, RingInv, PipeTypeOK, StatusIsExact, CopyIsSound,
                CallsHaveBuffers
  <2>2. CASE /\ op = NoOp /\ op' = Start(t) /\ UNCHANGED <<pc, buffer>>
             /\ UNCHANGED <<ring, readers, writers, delivered>>
             /\ \/ pc[t] = "read" /\ status # "EMPTY"
                \/ pc[t] = "write" /\ status # "FULL"
    <3>1. op' \in Op /\ op' # NoOp /\ op'.kind = pc[t] /\ op'.rest # <<>>
      BY <2>2 DEF Start, RingInv, PipeTypeOK, CallsHaveBuffers, Op, NoOp
    <3>2. head = tail => status # "NORMAL"
      BY <2>2 DEF RingInv, StatusIsExact
    <3>3. StatusIsExact' /\ CopyIsSound'
      BY <2>2, <3>1, <3>2 DEF ring, RingInv, PipeTypeOK, StatusIsExact, CopyIsSound
    <3>4. PipeTypeOK' /\ CallsHaveBuffers'
      BY <2>2, <3>1 DEF ring, RingInv, PipeTypeOK, CallsHaveBuffers, Op
    <3> QED
      BY <3>3, <3>4 DEF RingInv
  <2> QED
    BY <1>6, <2>1, <2>2 DEF ReadRound, WriteRound
<1>7. CASE UNCHANGED pipe_vars
  BY <1>7 DEF pipe_vars, ring, RingInv, PipeTypeOK, StatusIsExact, CopyIsSound, CallsHaveBuffers
<1> QED
  BY <1>1, <1>2, <1>3, <1>4, <1>5, <1>6, <1>7 DEF PipeNext, Copy

\* As long as no call is made with an empty buffer, the status of a ring is exact
\* whenever no copy is under way: what get_used_size() asserts, and what the
\* comment "we guarantee that this operation will read at least one byte" rests
\* on.  In the middle of a copy the status of before it still tells a full ring
\* from an empty one, and a copy that runs out of buffer leaves neither.
THEOREM RingStatusHolds ==
  ASSUME PipeAssumption, NoEmptyCalls
  PROVE  PipeSpec => [](StatusIsExact /\ CopyIsSound)
<1>1. PipeInit => RingInv
  BY RingInit
<1>2. RingInv /\ [PipeNext]_pipe_vars => RingInv'
  BY RingStep
<1>3. RingInv => StatusIsExact /\ CopyIsSound
  BY DEF RingInv
<1> QED
  BY <1>1, <1>2, <1>3, PTL DEF PipeSpec

\* The bytes in the ring, oldest first, are a sequence.
LEMMA ContentIs ==
  ASSUME PipeAssumption, RingInv
  PROVE  /\ Used \in 0..Size /\ Content \in Seq(Bytes) /\ Len(Content) = Used
         /\ \A i \in 1..Used : Content[i] = arr[Slot(i)] /\ Slot(i) \in 0..(Size - 1)
<1>1. /\ head \in 0..(Size - 1) /\ tail \in 0..(Size - 1) /\ Size \in Nat
      /\ arr \in [0..(Size - 1) -> Bytes]
  BY DEF RingInv, PipeTypeOK, PipeAssumption
<1>2. Used \in 0..Size
  BY <1>1, SMT DEF Used
<1>3. \A i \in 1..Used : Slot(i) \in 0..(Size - 1)
  BY <1>1, <1>2, SMT DEF Slot
<1>4. \A i \in 1..Used : arr[Slot(i)] \in Bytes
  BY <1>1, <1>3
<1>5. Used \in Nat
  BY <1>1, <1>2, SMT
<1> QED
  BY <1>2, <1>3, <1>4, <1>5, SMT DEF Content

\* A step that leaves the ring alone, or corrects its status when head and tail
\* differ, changes nothing a program could tell.
LEMMA SameContent ==
  ASSUME head \in Int, tail \in Int, UNCHANGED <<arr, head, tail>>,
         status' = status \/ head # tail
  PROVE  Content' = Content
<1>1. Used' = Used
  BY SMT DEF Used
<1> QED
  BY <1>1 DEF Content, Slot

\* What remains of a sequence without its first k elements.
LEMMA WithoutFirst ==
  ASSUME NEW S, NEW c \in Seq(S), NEW k \in 0..Len(c)
  PROVE  /\ SubSeq(c, k + 1, Len(c)) \in Seq(S)
         /\ Len(SubSeq(c, k + 1, Len(c))) = Len(c) - k
         /\ \A i \in 1..(Len(c) - k) : SubSeq(c, k + 1, Len(c))[i] = c[k + i]
BY SMT

\* buffer_read() takes the n oldest bytes, also when they end at the end of the
\* array or are the last.
LEMMA ReadTakes ==
  ASSUME PipeAssumption, RingInv, buffer_read
  PROVE  Queue!Take
<1> DEFINE n == Least(Head(op.rest), Readable)
<1>1. /\ op.kind = "read" /\ op.rest # <<>>
      /\ delivered' = [i \in 1..n |-> arr[head + i - 1]]
      /\ head' = Wrap(head + n)
      /\ Proceed(head' = tail, n, "EMPTY")
      /\ UNCHANGED <<arr, tail, readers, writers>>
  BY DEF buffer_read
<1>2. head \in 0..(Size - 1) /\ tail \in 0..(Size - 1) /\ Size \in Nat
  BY DEF RingInv, PipeTypeOK, PipeAssumption
<1>3. n \in 1..(Size - head) /\ n \in 1..Used /\ n <= Readable /\ Used \in 0..Size
  BY <1>1, <1>2, ReadBounds, SMT
<1>4. head' = tail => status' = "EMPTY"
  BY <1>1 DEF Proceed
<1>5. head = tail => status = "FULL"
  BY <1>1, ReadBounds, SMT DEF RingInv, CopyIsSound, NoOp
<1> HIDE DEF n
<1>6. Used' = Used - n
  <2>1. head' = (IF head + n = Size THEN 0 ELSE head + n) /\ tail' = tail
    BY <1>1 DEF Wrap
  <2>2. n \in Nat /\ n >= 1 /\ head + n <= Size /\ (tail <= head \/ head + n <= tail)
    BY <1>2, <1>3, SMT DEF Readable
  <2>3. /\ Used = IF head < tail THEN tail - head
                  ELSE IF tail < head THEN tail + Size - head ELSE Size
        /\ Used' = IF head' < tail THEN tail - head'
                   ELSE IF tail < head' THEN tail + Size - head' ELSE 0
    BY <1>2, <1>4, <1>5, <2>1, <2>2, SMT DEF Used
  <2> QED
    BY <1>2, <2>1, <2>2, <2>3, SMTT(30)
<1>7. \A i \in 1..n : Slot(i) = head + i - 1
  BY <1>2, <1>3, SMT DEF Slot
<1>8. \A i \in 1..(Used - n) : Slot(i)' = Slot(n + i)
  <2>1. ASSUME NEW i \in 1..(Used - n) PROVE Slot(i)' = Slot(n + i)
    <3>1. i \in Nat /\ n \in Nat /\ n >= 1 /\ i >= 1 /\ n + i <= Size /\ head + n <= Size
      BY <1>2, <1>3, SMT
    <3>2. head' = IF head + n = Size THEN 0 ELSE head + n
      BY <1>1 DEF Wrap
    <3>3. Slot(i)' = IF head' + i - 1 < Size THEN head' + i - 1 ELSE head' + i - 1 - Size
      BY DEF Slot
    <3> HIDE DEF n
    <3> QED
      BY <1>2, <3>1, <3>2, <3>3, SMTT(30) DEF Slot
  <2> QED
    BY <2>1
<1>9. delivered' = SubSeq(Content, 1, n)
  BY <1>1, <1>3, <1>7, ContentIs, SMTT(30)
<1>10. Content' = SubSeq(Content, n + 1, Len(Content))
  <2>1. Content' = [i \in 1..(Used - n) |-> arr[Slot(i)']]
    BY <1>1, <1>6 DEF Content, Slot
  <2>2. Content' = [i \in 1..(Used - n) |-> arr[Slot(n + i)]]
    BY <1>8, <2>1
  <2> DEFINE rest == SubSeq(Content, n + 1, Len(Content))
  <2>3. /\ rest \in Seq(Bytes) /\ Len(rest) = Used - n
        /\ \A i \in 1..(Used - n) : rest[i] = Content[n + i]
    BY <1>2, <1>3, ContentIs, WithoutFirst, SMT
  <2> HIDE DEF rest
  <2>4. \A i \in 1..(Used - n) : n + i \in 1..Used
    BY <1>2, <1>3, SMT
  <2>5. \A i \in 1..(Used - n) : rest[i] = arr[Slot(n + i)]
    BY <2>3, <2>4, ContentIs
  <2>6. rest = [i \in 1..(Used - n) |-> rest[i]]
    BY <2>3, SMT
  <2> QED
    BY <2>2, <2>5, <2>6 DEF rest
<1> QED
  BY <1>3, <1>9, <1>10, ContentIs DEF Queue!Take

\* buffer_write() puts its bytes behind those in the ring, and over none of them.
LEMMA WritePuts ==
  ASSUME PipeAssumption, RingInv, buffer_write
  PROVE  Queue!Put
<1> DEFINE n == Least(Head(op.rest), Writable)
<1>1. /\ op.kind = "write" /\ op.rest # <<>>
      /\ tail' = Wrap(tail + n)
      /\ Proceed(tail' = head, n, "FULL")
      /\ UNCHANGED <<head, readers, writers, delivered>>
  BY DEF buffer_write
<1>2. PICK s \in [1..n -> Bytes] :
        arr' = [i \in 0..(Size - 1) |->
                  IF i \in tail..(tail + n - 1) THEN s[i - tail + 1] ELSE arr[i]]
  BY DEF buffer_write
<1>3. head \in 0..(Size - 1) /\ tail \in 0..(Size - 1) /\ Size \in Nat
  BY DEF RingInv, PipeTypeOK, PipeAssumption
<1>4. /\ n \in 1..(Size - tail) /\ n \in 1..(Size - Used) /\ n <= Writable
      /\ Used \in 0..Size
  BY <1>1, <1>3, WriteBounds, SMT
<1>5. head' = tail' => status' = "FULL"
  BY <1>1 DEF Proceed
<1>6. head = tail => status = "EMPTY"
  BY <1>1, WriteBounds, SMT DEF RingInv, CopyIsSound, NoOp
<1> HIDE DEF n
<1>7. Used' = Used + n
  BY <1>1, <1>3, <1>4, <1>5, <1>6, SMT DEF Used, Wrap, Writable
<1>8. \A i \in 1..Used : Slot(i) \in 0..(Size - 1) /\ Slot(i) \notin tail..(tail + n - 1)
  BY <1>3, <1>4, <1>6, SMT DEF Slot, Used, Writable
<1>9. \A i \in 1..n : Slot(Used + i) = tail + i - 1
  BY <1>3, <1>4, <1>6, SMT DEF Slot, Used
<1>10. Len(s) = n /\ s \in Seq(Bytes)
  BY <1>3, <1>4, SMT
<1>11. Content' = Content \o s
  <2>1. RingInv'
    BY WriteIsSound
  <2>2. Content' = [i \in 1..(Used + n) |-> arr'[Slot(i)]]
    BY <1>1, <1>7 DEF Content, Slot
  <2>3. ASSUME NEW i \in 1..(Used + n) PROVE arr'[Slot(i)] = (Content \o s)[i]
    <3>1. CASE i <= Used
      <4>1. arr'[Slot(i)] = arr[Slot(i)]
        BY <1>2, <1>3, <1>4, <1>8, <3>1, SMT
      <4> QED
        BY <1>4, <1>10, <3>1, <4>1, ContentIs, SMT
    <3>2. CASE i > Used
      <4>1. PICK j \in 1..n : i = Used + j
        BY <1>3, <1>4, <3>2, SMT
      <4>2. arr'[Slot(i)] = s[j]
        BY <1>2, <1>3, <1>4, <1>9, <4>1, SMTT(30)
      <4>3. (Content \o s)[i] = s[j]
        BY <1>4, <1>10, <4>1, ContentIs, SMTT(30)
      <4> QED
        BY <4>2, <4>3
    <3>3. i <= Used \/ i > Used
      BY <1>3, <1>4, SMT
    <3> QED
      BY <3>1, <3>2, <3>3
  <2>4. Content \o s \in Seq(Bytes) /\ Len(Content \o s) = Used + n
    BY <1>10, ContentIs, SMT
  <2> DEFINE both == Content \o s
  <2>5. both \in Seq(Bytes) /\ Len(both) = Used + n
    BY <2>4
  <2> HIDE DEF both
  <2>6. both = [i \in 1..(Used + n) |-> both[i]]
    BY <2>5, SMT
  <2> QED
    BY <2>2, <2>3, <2>6 DEF both
<1>12. delivered' = delivered
  BY <1>1
<1> QED
  BY <1>2, <1>4, <1>11, <1>12, ContentIs DEF Queue!Put

\* The ring of a pipe is a queue of bytes, whatever its size, the pieces of the
\* user buffers and the order of the tasks' calls, as long as no call is made with
\* an empty buffer: bytes come out in the order they went in, each once, and a copy
\* moves at least one.
THEOREM PipeIsAByteQueue ==
  ASSUME PipeAssumption, NoEmptyCalls
  PROVE  PipeSpec => ImplementsByteQueue
<1>1. PipeInit => RingInv
  BY RingInit
<1>2. RingInv /\ [PipeNext]_pipe_vars => RingInv'
  BY RingStep
<1>3. PipeInit => Queue!Init
  BY SMT DEF PipeInit, Queue!Init, Content, Used
<1>4. RingInv /\ [PipeNext]_pipe_vars => [Queue!Put \/ Queue!Take]_<<Content, delivered>>
  <2> SUFFICES ASSUME RingInv, [PipeNext]_pipe_vars
               PROVE  Queue!Put \/ Queue!Take \/ (Content' = Content /\ delivered' = delivered)
    OBVIOUS
  <2>5. head \in Int /\ tail \in Int
    BY SMT DEF RingInv, PipeTypeOK, PipeAssumption
  <2>1. CASE buffer_read
    BY <2>1, ReadTakes
  <2>2. CASE buffer_write
    BY <2>2, WritePuts
  <2>3. CASE CopyDone
    <3>1. head # tail
      BY <2>3 DEF CopyDone, RingInv, CopyIsSound
    <3> QED
      BY <2>3, <2>5, <3>1, SameContent DEF CopyDone
  <2>4. CASE UNCHANGED <<ring, delivered>>
    BY <2>4, <2>5, SameContent DEF ring
  <2> QED
    BY <2>1, <2>2, <2>3, <2>4
    DEF PipeNext, Copy, close_read, close_write, sys_read, sys_write, Call, ReadRound, WriteRound,
        pipe_vars
<1> QED
  BY <1>1, <1>2, <1>3, <1>4, PTL DEF PipeSpec, ImplementsByteQueue, Queue!Spec
=============================================================================
