--------------------------- MODULE AddressSpaces ----------------------------
(***************************************************************************)
(* What virtual memory promises to processes: an address space holds a     *)
(* value in every mapped page; while programs run, a write changes one page*)
(* of one space; the kernel changes what it was asked to store or to fork, *)
(* and nothing else.  Where a page is kept is nobody's business.           *)
(***************************************************************************)
CONSTANTS Spaces, Pages, Values,
          Zero,      \* the value of a fresh page
          Absent     \* an unmapped page

VARIABLES mem,
          kernel     \* what the next step of the kernel is for

Nothing == [p \in Pages |-> Absent]

User == [op |-> "user"]                   \* programs run
Busy == [op |-> "busy"]                   \* a fault, a translation, reclaim
StoreTo(s, p, x) == [op |-> "store", space |-> s, page |-> p, value |-> x]
ForkOf(s, c) == [op |-> "fork", space |-> s, child |-> c]

Init == /\ \E s \in Spaces, P \in SUBSET Pages :
             mem = [t \in Spaces |-> [p \in Pages |->
                                        IF t = s /\ p \in P THEN Zero ELSE Absent]]
        /\ kernel = User

Write(s, p, x) ==
  /\ kernel = User /\ kernel' = User
  /\ mem[s][p] # Absent /\ mem' = [mem EXCEPT ![s][p] = x]

Map(s, P) ==
  /\ kernel = User /\ kernel' = User
  /\ \A p \in P : mem[s][p] = Absent
  /\ mem' = [mem EXCEPT ![s] = [p \in Pages |-> IF p \in P THEN Zero ELSE mem[s][p]]]

Unmap(s, P) ==
  /\ kernel = User
  /\ mem' = [mem EXCEPT ![s] = [p \in Pages |-> IF p \in P THEN Absent ELSE mem[s][p]]]

\* The kernel starts, goes on with or ends what no program sees.
Serve == kernel \in {User, Busy} /\ UNCHANGED mem

\* What is stored arrives, where it was to go and nowhere else.
Store(s, p, x) == kernel = StoreTo(s, p, x) /\ mem' = [mem EXCEPT ![s][p] = x]

Fork(s, c) == /\ kernel = ForkOf(s, c) /\ mem[c] = Nothing
              /\ mem' = [mem EXCEPT ![c] = mem[s]]

Next ==
  \/ Serve
  \/ \E s \in Spaces :
       \/ \E p \in Pages, x \in Values : Write(s, p, x) \/ Store(s, p, x)
       \/ \E c \in Spaces \ {s} : Fork(s, c)
       \/ \E P \in SUBSET Pages : Map(s, P) \/ Unmap(s, P)

Spec == Init /\ [][Next]_<<mem, kernel>>
=============================================================================
