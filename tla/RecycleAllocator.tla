-------------------------- MODULE RecycleAllocator --------------------------
(***************************************************************************)
(* task/pid.rs: the allocator behind pids (PID_ALLOCATOR), kernel stacks   *)
(* (KSTACK_ALLOCATOR) and the per-process thread slots (tid_allocator).    *)
(* Handles are RAII values: PidHandle::drop, KernelStack::drop and         *)
(* TaskControlBlock::drop each give their id back once.                    *)
(***************************************************************************)
EXTENDS Naturals, SequencesExt

CONSTANT Handles        \* the handles that may exist at the same time

VARIABLES current,      \* RecycleAllocator::current, the next fresh id
          recycled,     \* RecycleAllocator::recycled, a stack
          held          \* the id of each handle, NoId when it does not exist

vars == <<current, recycled, held>>

NoId == 0               \* ids start at 1

Live == {h \in Handles : held[h] # NoId}

HeldIds == {held[h] : h \in Live}

Init == /\ current = 1
        /\ recycled = <<>>
        /\ held = [h \in Handles |-> NoId]

\* alloc() mutated: a recycled id is read but left in the vector.
AllocPeeks(h) ==
  /\ h \notin Live
  /\ \/ /\ recycled # <<>>
        /\ held' = [held EXCEPT ![h] = Last(recycled)]
        /\ UNCHANGED <<current, recycled>>
     \/ /\ recycled = <<>>
        /\ current' = current + 1
        /\ held' = [held EXCEPT ![h] = current]
        /\ UNCHANGED recycled

\* alloc() mutated: fresh ids are minted even while recycled ones wait.
AllocIgnoresRecycled(h) ==
  /\ h \notin Live
  /\ current < 9
  /\ current' = current + 1
  /\ held' = [held EXCEPT ![h] = current]
  /\ UNCHANGED recycled

alloc(h) ==
  /\ h \notin Live
  /\ \/ /\ recycled # <<>>
        /\ held' = [held EXCEPT ![h] = Last(recycled)]
        /\ recycled' = Front(recycled)
        /\ UNCHANGED current
     \/ /\ recycled = <<>>
        /\ current' = current + 1
        /\ held' = [held EXCEPT ![h] = current]
        /\ UNCHANGED recycled

\* The two assert!s of dealloc(); a failed one panics the kernel.
DeallocAsserts(id) == id < current /\ id \notin Range(recycled)

dealloc(h) ==
  /\ h \in Live
  /\ recycled' = Append(recycled, held[h])
  /\ held' = [held EXCEPT ![h] = NoId]
  /\ UNCHANGED current

Next == \E h \in Handles : alloc(h) \/ dealloc(h)

Spec == Init /\ [][Next]_vars

-----------------------------------------------------------------------------
TypeOK == /\ current \in Nat \ {0}
          /\ recycled \in Seq(Nat \ {0})
          /\ held \in [Handles -> Nat]

\* Dropping any handle that exists passes both assert!s of dealloc(): no pid,
\* kernel stack or thread slot is given back twice or out of range.
DropNeverPanics == \A h \in Live : DeallocAsserts(held[h])

\* No two handles share an id.
OneHandlePerId == \A g, h \in Live : held[g] = held[h] => g = h

\* No two handles share an id, and every id minted so far is held by a handle
\* or waits in `recycled`, once.  This is what makes DropNeverPanics inductive.
Ledger ==
  /\ OneHandlePerId
  /\ IsInjective(recycled)
  /\ HeldIds \cap Range(recycled) = {}
  /\ HeldIds \cup Range(recycled) = 1..(current - 1)

\* alloc() hands out an id no other handle stands for, and never one above the
\* number of handles that exist at the peak: ids stay dense.
Pool == INSTANCE IdPool WITH Ids <- 1..Cardinality(Handles)
ImplementsIdPool == Pool!Spec
=============================================================================
