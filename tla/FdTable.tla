------------------------------ MODULE FdTable -------------------------------
(***************************************************************************)
(* The FdTable of fs/file_descriptor.rs and the system calls that change   *)
(* it: open, pipe2, dup, dup2, dup3, fcntl, close, execve and setrlimit.   *)
(*                                                                         *)
(* inner is a function on the descriptors 0..n-1, None a closed one;       *)
(* recycled is the vector of closed ones insert() takes from.  Calls that  *)
(* fail without a change (EBADF, EINVAL) are not steps.                    *)
(***************************************************************************)
EXTENDS Naturals, SequencesExt

CONSTANTS Files,     \* open files
          None,
          Limits,    \* soft limits setrlimit is called with
          W,         \* width of the elements of recycled, u8 in the code
          Calls      \* the calls the program makes

FdAssumption == None \notin Files /\ Limits \subseteq Nat /\ W \in Nat

VARIABLES inner, recycled, soft_limit,   \* FdTable
          forgotten,   \* descriptors execve has closed since they were last used
          ret          \* the last call, and the descriptors it returned

vars == <<inner, recycled, soft_limit, forgotten, ret>>

Descriptor == [file : Files, cloexec : BOOLEAN]
Open(file, cloexec) == [file |-> file, cloexec |-> cloexec]

Table == [inner |-> inner, recycled |-> recycled, limit |-> soft_limit]
Used(tb) == Cardinality(DOMAIN tb.inner)
IsOpen(tb, fd) == fd \in DOMAIN tb.inner /\ tb.inner[fd] # None
Closed(tb) == {fd \in DOMAIN tb.inner : tb.inner[fd] = None}

\* The standard streams, all of them the terminal.
Init == \E tty \in Files :
          /\ inner = [fd \in 0..2 |-> Open(tty, FALSE)]
          /\ recycled = <<>>
          /\ soft_limit = Max(Limits)
          /\ forgotten = {}
          /\ ret = [call |-> "execve", fds |-> <<>>]

-----------------------------------------------------------------------------
\* FdTable's own operations: the table after them.

u8(fd) == fd % 2^W

\* Vec::resize(n, None) followed by a push of d.
PushAt(tb, n, d) ==
  [fd \in 0..n |-> IF fd = n THEN d ELSE IF fd \in DOMAIN tb.inner THEN tb.inner[fd] ELSE None]

CanInsert(tb) == tb.recycled # <<>> \/ Used(tb) # tb.limit

\* find_min() mutated into the pop() it replaced.
InsertPops(tb) == IF tb.recycled # <<>> THEN Last(tb.recycled) ELSE Used(tb)

InsertFd(tb) == IF tb.recycled # <<>> THEN Min(ToSet(tb.recycled)) ELSE Used(tb)

\* insert(): the least recycled descriptor (find_min()), else a new one.
insert(tb, d) ==
  LET fd == InsertFd(tb) IN
  IF tb.recycled # <<>>
  THEN [tb EXCEPT !.inner[fd] = d, !.recycled = RemoveFirst(@, fd)]
  ELSE [tb EXCEPT !.inner = PushAt(tb, fd, d)]

\* insert_at() mutated: a closed position stays recycled.
InsertAtKeepsRecycled(tb, d, pos) ==
  IF pos < Used(tb) THEN [tb EXCEPT !.inner[pos] = d]
  ELSE [tb EXCEPT !.inner = PushAt(tb, pos, d),
                  !.recycled = @ \o [i \in 1..(pos - Used(tb)) |-> u8(pos - i)]]

insert_at(tb, d, pos) ==
  IF pos < Used(tb)
  THEN [tb EXCEPT !.inner[pos] = d,
                  !.recycled = IF IsOpen(tb, pos) THEN @ ELSE Remove(@, pos)]
  ELSE [tb EXCEPT !.inner = PushAt(tb, pos, d),
                  !.recycled = @ \o [i \in 1..(pos - Used(tb)) |-> u8(pos - i)]]

\* What try_insert_at() finds above an open hint: the first such recycled
\* descriptor, in the order of the vector.
Above(tb, hint) == SelectInSeq(tb.recycled, LAMBDA fd : fd > hint)

TryFd(tb, hint) ==
  IF ~IsOpen(tb, hint) THEN hint
  ELSE IF Above(tb, hint) # 0 THEN tb.recycled[Above(tb, hint)] ELSE Used(tb)

CanTry(tb, hint) == hint < tb.limit /\ TryFd(tb, hint) < tb.limit

\* With the hint open the descriptor found is used and stays recycled.
try_insert_at(tb, d, hint) ==
  LET fd == TryFd(tb, hint) IN
  IF fd < Used(tb)
  THEN [tb EXCEPT !.inner[fd] = d, !.recycled = IF fd = hint THEN Remove(@, fd) ELSE @]
  ELSE [tb EXCEPT !.inner = PushAt(tb, fd, d),
                  !.recycled = @ \o [i \in 1..(fd - Used(tb)) |-> u8(Used(tb) + i - 1)]]

\* remove() mutated: the slot is recycled and not emptied.
RemoveKeepsSlot(tb, fd) == [tb EXCEPT !.recycled = Append(@, u8(fd))]

remove(tb, fd) == [tb EXCEPT !.inner[fd] = None, !.recycled = Append(@, u8(fd))]

set_soft_limit(tb, limit) ==
  [inner |-> [fd \in {i \in DOMAIN tb.inner : i < limit} |-> tb.inner[fd]],
   recycled |-> IF limit < Used(tb) THEN SelectSeq(tb.recycled, LAMBDA fd : fd < limit)
                ELSE tb.recycled,
   limit |-> limit]

-----------------------------------------------------------------------------
\* The system calls.

Becomes(tb, call, fds) ==
  /\ call \in Calls
  /\ inner' = tb.inner /\ recycled' = tb.recycled /\ soft_limit' = tb.limit
  /\ forgotten' = forgotten \cap Closed(tb)
  /\ ret' = [call |-> call, fds |-> fds]

sys_openat(file, cloexec) ==
  /\ CanInsert(Table)
  /\ Becomes(insert(Table, Open(file, cloexec)), "open", <<InsertFd(Table)>>)

\* pipe2 inserts twice; without room for the second the first one stays.
sys_pipe2(r, w, cloexec) ==
  /\ CanInsert(Table)
  /\ LET tb == insert(Table, Open(r, cloexec)) IN
       \/ /\ CanInsert(tb)
          /\ Becomes(insert(tb, Open(w, cloexec)), "pipe2", <<InsertFd(Table), InsertFd(tb)>>)
       \/ ~CanInsert(tb) /\ Becomes(tb, "pipe2_half", <<>>)

sys_dup(old) ==
  /\ IsOpen(Table, old) /\ CanInsert(Table)
  /\ Becomes(insert(Table, inner[old]), "dup", <<InsertFd(Table)>>)

\* dup2 clears the flag and allows old = new, dup3 sets it and does not.
DupTo(old, new, cloexec) ==
  /\ IsOpen(Table, old)
  /\ new < Used(Table) \/ new < soft_limit
  /\ Becomes(insert_at(Table, Open(inner[old].file, cloexec), new), "dup_to", <<new>>)

sys_dup2(old, new) == DupTo(old, new, FALSE)
sys_dup3(old, new) == old # new /\ DupTo(old, new, TRUE)

\* F_DUPFD and F_DUPFD_CLOEXEC.
sys_fcntl(old, hint, cloexec) ==
  /\ IsOpen(Table, old) /\ CanTry(Table, hint)
  /\ Becomes(try_insert_at(Table, Open(inner[old].file, cloexec), hint),
             IF IsOpen(Table, hint) THEN "dupfd_above" ELSE "dupfd", <<TryFd(Table, hint)>>)

\* F_SETFD.
SetCloexec(fd, cloexec) ==
  /\ IsOpen(Table, fd)
  /\ Becomes([Table EXCEPT !.inner[fd].cloexec = cloexec], "setfd", <<fd>>)

sys_close(fd) == IsOpen(Table, fd) /\ Becomes(remove(Table, fd), "close", <<fd>>)

\* load_elf() empties the slots marked close-on-exec, and only them.
ToClose == {fd \in DOMAIN inner : inner[fd] # None /\ inner[fd].cloexec}
sys_execve ==
  /\ "execve" \in Calls
  /\ inner' = [fd \in DOMAIN inner |-> IF fd \in ToClose THEN None ELSE inner[fd]]
  /\ forgotten' = forgotten \cup ToClose
  /\ ret' = [call |-> "execve", fds |-> <<>>]
  /\ UNCHANGED <<recycled, soft_limit>>

\* RLIMIT_NOFILE; the hard limit is stored and never consulted.
sys_setrlimit(limit) ==
  Becomes(set_soft_limit(Table, limit), "setrlimit", <<>>)

Fds == 0..(Max(Limits) - 1)

Next ==
  \/ \E file \in Files, cloexec \in BOOLEAN : sys_openat(file, cloexec)
  \/ \E r, w \in Files, cloexec \in BOOLEAN : sys_pipe2(r, w, cloexec)
  \/ \E old \in Fds : sys_dup(old) \/ sys_close(old)
  \/ \E old, new \in Fds : sys_dup2(old, new) \/ sys_dup3(old, new)
  \/ \E old, hint \in Fds, cloexec \in BOOLEAN : sys_fcntl(old, hint, cloexec)
  \/ \E fd \in Fds, cloexec \in BOOLEAN : SetCloexec(fd, cloexec)
  \/ sys_execve
  \/ \E limit \in Limits : sys_setrlimit(limit)

Spec == Init /\ [][Next]_vars

-----------------------------------------------------------------------------
TypeOK ==
  /\ \E n \in 0..Max(Limits) : inner \in [0..(n - 1) -> Descriptor \cup {None}]
  /\ recycled \in Seq(0..(2^W - 1))
  /\ soft_limit \in Limits
  /\ Used(Table) <= soft_limit
  /\ forgotten \subseteq Fds

\* recycled lists the closed descriptors of the table, each once, except those
\* execve has closed: the table and its free list are kept in step by hand in
\* six operations.
RecycledAreClosed ==
  /\ IsInjective(recycled)
  /\ ToSet(recycled) \cap forgotten = {}
  /\ ToSet(recycled) \cup forgotten = Closed(Table)

\* A call that asks for a new descriptor leaves the open ones alone: "no
\* replace" (file_descriptor.rs:418).
KeepsOpenOnes ==
  ret'.call \in {"open", "pipe2", "pipe2_half", "dup", "dupfd", "dupfd_above"} =>
    \A fd \in DOMAIN inner : inner[fd] # None => inner'[fd] = inner[fd]
NoReplace == [][KeepsOpenOnes]_vars

\* open and dup return the lowest descriptor that is closed, as the comment of
\* insert() demands (file_descriptor.rs:369), unless execve has closed it.
TakesLowest ==
  ret'.call \in {"open", "dup"} =>
    ret'.fds[1] = Min((Closed(Table) \cup {Used(Table)}) \ forgotten)
LowestFirst == [][TakesLowest]_vars
=============================================================================
