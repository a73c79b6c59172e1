------------------------------- MODULE IdPool -------------------------------
(***************************************************************************)
(* What a recycling allocator of the kernel promises its clients: an       *)
(* identifier handed out stands for one handle only, until that handle is  *)
(* dropped.  RecycleAllocator (pids, kernel stacks, thread slots)          *)
(* implements it.                                                          *)
(***************************************************************************)
CONSTANTS Handles,   \* PidHandle, KernelStack, ... values
          Ids,       \* the identifiers the allocator may hand out
          NoId       \* the value of a handle that does not exist

VARIABLE held        \* held[h]: the identifier handle h stands for

Unused == {h \in Handles : held[h] = NoId}

InUse == {held[h] : h \in Handles \ Unused}

Init == held = [h \in Handles |-> NoId]

Alloc(h) == /\ h \in Unused
            /\ \E id \in Ids \ InUse : held' = [held EXCEPT ![h] = id]

Drop(h) == /\ h \notin Unused
           /\ held' = [held EXCEPT ![h] = NoId]

Next == \E h \in Handles : Alloc(h) \/ Drop(h)

Spec == Init /\ [][Next]_held
=============================================================================
