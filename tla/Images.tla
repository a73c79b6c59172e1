------------------------------- MODULE Images -------------------------------
(***************************************************************************)
(* The memory of tasks as whole areas: how the first task is made          *)
(* (TaskControlBlock::new), how clone shares or copies a memory set, how   *)
(* execve replaces it (load_elf, map_elf, create_elf_tables), and what a   *)
(* task gives back when it exits and when it is reaped.                    *)
(*                                                                         *)
(* A memory set is the sequence of its areas, in the order in which they   *)
(* were pushed: the order matters, because fork takes the last area for    *)
(* the trap context.  Only the frames of trap contexts are kept, since the *)
(* kernel writes those by their physical address.  The kernel's own space  *)
(* holds the kernel stacks and, during an execve, the image of the file.   *)
(*                                                                         *)
(* A group is a process: its threads share the memory set.  (The other     *)
(* things execve resets, the handlers, the futex queue, the files to be    *)
(* closed and the pointers into the old memory, are plain assignments and  *)
(* are left out.)  The calls named in Departures are made only when the    *)
(* constant says so; each leads to a state that the code does not handle.  *)
(***************************************************************************)
EXTENDS Integers, Sequences, FiniteSets, FiniteSetsExt, SequencesExt

CONSTANTS Tasks,        \* task slots; a free one is taken by clone
          TrapFrames,   \* frames for trap contexts
          MaxTid,
          ArgLists,     \* lists of argument lengths
          PageSize, Word,
          Departures    \* "vfork", "fork_threads", "bad_image", "odd_args"

VARIABLES task,         \* [Tasks -> record of a task]
          vm,           \* memory sets, named after the task they were made for
          group,        \* [Tasks -> what a process shares], by its first task
          kspace,       \* the areas of the kernel space above its own image, a
                        \* set: one area starts at a place
          panicked

vars == <<task, vm, group, kspace, panicked>>

MayCall(name) == name \in Departures

Programs == {"static", "dynamic"}

\* Files that execve opens and map_elf then refuses: no interpreter to be
\* found, an interpreter that cannot be mapped, no segment to load or a type
\* that is not executable.
BadImages == IF MayCall("bad_image")
             THEN {"no_interp", "bad_interp", "no_load"} ELSE {}

Free == [status |-> "free"]
Existing == {t \in Tasks : task[t].status # "free"}
Live == {t \in Tasks : task[t].status = "live"}
Running == IF panicked THEN {} ELSE Live

-----------------------------------------------------------------------------
(* Areas. *)
Area(kind, n) == [kind |-> kind, n |-> n, frame |-> 0]
Kinds(areas) == {<<areas[i].kind, areas[i].n>> : i \in DOMAIN areas}
IsAt(a, kind, n) == a.kind = kind /\ a.n = n

insert_framed_area(areas, kind, n) == Append(areas, Area(kind, n))

remove_area_with_start_vpn(areas, kind, n) ==
  SelectSeq(areas, LAMBDA a : ~IsAt(a, kind, n))

FramesOf(areas) == {areas[i].frame : i \in DOMAIN areas}
FreshFrame == Min(TrapFrames \ UNION {FramesOf(vm[v]) : v \in Tasks})

translate(areas, kind, n) ==
  LET at == {i \in DOMAIN areas : IsAt(areas[i], kind, n)}
  IN IF at = {} THEN 0 ELSE areas[Min(at)].frame

\* The stack, unless the caller of clone brought one, and the trap context.
alloc_user_res(areas, tid, alloc_stack) ==
  LET stacked == IF alloc_stack
                 THEN insert_framed_area(areas, "stack", tid) ELSE areas
  IN Append(stacked, [kind |-> "trap", n |-> tid, frame |-> FreshFrame])

dealloc_user_res(areas, tid) ==
  remove_area_with_start_vpn(
    remove_area_with_start_vpn(areas, "stack", tid), "trap", tid)

(***************************************************************************)
(* create_elf_tables: where the strings and the tables lie in the stack    *)
(* page, from the top down.  A piece is its size; the result is the        *)
(* sequence of its addresses.                                              *)
(***************************************************************************)
AuxvEntries == 17

string_pieces(lens) == [i \in DOMAIN lens |-> lens[i] + 1]

table_pieces(argv, envp) ==
  <<2 * Word, Word, AuxvEntries * 2 * Word, (Len(envp) + 1) * Word,
    (Len(argv) + 1) * Word, Word>>

Push(sps, size) == Append(sps, Last(sps) - size)

create_elf_tables(argv, envp) ==
  LET top == PageSize - 2 * Word
      strings == FoldLeft(Push, <<top>>, string_pieces(envp) \o string_pieces(argv))
      low == Last(strings)
      aligned == low - (low % Word)
  IN [strings |-> Tail(strings),
      tables |-> Tail(FoldLeft(Push, <<aligned>>, table_pieces(argv, envp)))]

\* The tables name the program by its first argument, and may not leave the
\* page: an assertion says so.
Fits(argv, envp) ==
  argv # <<>> /\ Last(create_elf_tables(argv, envp).tables) >= 0

\* Whether the arguments of an execve fit.
Fitting == IF MayCall("odd_args") THEN BOOLEAN ELSE {TRUE}

-----------------------------------------------------------------------------
(* map_elf: the areas of a program, those of its interpreter included. *)
map_elf(prog) ==
  <<Area("text", 0), Area("data", 0)>> \o
     (IF prog = "dynamic" THEN <<Area("interp", 0)>> ELSE <<>>)

\* from_elf and the heap that load_elf adds at the program break.
FromElf(prog) == insert_framed_area(map_elf(prog), "heap", 0)

NewGroup(prog) == [prog |-> prog, heap |-> FALSE, tids |-> {0}]
NoGroup == NewGroup("static")

NewTask(tgid, tid, v, frame, kstack, stacked) ==
  [status |-> "live", tgid |-> tgid, tid |-> tid, vm |-> v, trap |-> frame,
   kstack |-> kstack, stacked |-> stacked]

first == Min(Tasks)

\* Names for a new process and a new memory set.  (The code names a process by
\* the pid of its first thread, which is free again once that thread is reaped.)
FreshGroup == Min(Tasks \ {task[u].tgid : u \in Existing})
FreshVm == Min(Tasks \ {task[u].vm : u \in Existing})

\* kstack_alloc: the smallest free number.
FreeStack == Min({k \in 0..Cardinality(Tasks) : <<"kstack", k>> \notin kspace})

\* TaskControlBlock::new, for the first task.
Init ==
  LET frame == Min(TrapFrames)
  IN /\ vm = [v \in Tasks |->
                IF v = first
                THEN map_elf("static") \o
                     <<Area("stack", 0),
                       [kind |-> "trap", n |-> 0, frame |-> frame]>>
                ELSE <<>>]
     /\ task = [t \in Tasks |->
                  IF t = first
                  THEN NewTask(first, 0, first, frame, 0, TRUE)
                  ELSE Free]
     /\ group = [g \in Tasks |->
                   IF g = first THEN NewGroup("static") ELSE NoGroup]
     /\ kspace = {<<"kstack", 0>>}
     /\ panicked = FALSE

-----------------------------------------------------------------------------
\* An unwrap or an assertion fails.
Panic == panicked' = TRUE /\ UNCHANGED <<task, vm, group, kspace>>

(* Clone. *)

\* Mutant: the trap context is shared like the other areas.
from_existing_userShares(areas) == areas

\* from_existing_user: every area is shared copy-on-write but the last, which
\* gets a frame of its own with the same bytes.
from_existing_user(areas) ==
  [i \in DOMAIN areas |->
     IF i = Len(areas) THEN [areas[i] EXCEPT !.frame = FreshFrame] ELSE areas[i]]

\* TaskControlBlock::sys_clone with CLONE_THREAD (and CLONE_VM, CLONE_FILES,
\* CLONE_SIGHAND): the child shares what the process has.
CloneThread(t, alloc_stack) ==
  \E c \in {Min(Tasks \ Existing)} :
    LET me == task[t]
        tid == Min((0..MaxTid) \ group[me.tgid].tids)
        areas == alloc_user_res(vm[me.vm], tid, alloc_stack)
    IN /\ group[me.tgid].tids # 0..MaxTid
       /\ vm' = [vm EXCEPT ![me.vm] = areas]
       /\ task' = [task EXCEPT ![c] =
                     NewTask(me.tgid, tid, me.vm, translate(areas, "trap", tid),
                             FreeStack, alloc_stack)]
       /\ group' = [group EXCEPT ![me.tgid].tids = @ \cup {tid}]
       /\ kspace' = kspace \cup {<<"kstack", FreeStack>>}
       /\ UNCHANGED panicked

\* Without CLONE_THREAD the child is thread 0 of a new group.  Its trap context
\* is the one of thread 0 in its memory set, a copy or (CLONE_VM) the parent's.
CloneProcess(t, share_vm) ==
  \E c \in {Min(Tasks \ Existing)} :
    LET me == task[t]
        areas == IF share_vm THEN vm[me.vm] ELSE from_existing_user(vm[me.vm])
        frame == translate(areas, "trap", 0)
    IN /\ share_vm => MayCall("vfork")
       /\ MayCall("fork_threads") \/ IsAt(Last(vm[me.vm]), "trap", 0)
       /\ IF frame = 0
          THEN Panic
          ELSE /\ vm' = IF share_vm THEN vm ELSE [vm EXCEPT ![FreshVm] = areas]
               /\ task' = [task EXCEPT ![c] =
                             NewTask(FreshGroup, 0,
                                     IF share_vm THEN me.vm ELSE FreshVm, frame,
                                     FreeStack, me.stacked)]
               /\ group' = [group EXCEPT ![FreshGroup] =
                              [group[me.tgid] EXCEPT !.tids = {0}]]
               /\ kspace' = kspace \cup {<<"kstack", FreeStack>>}
               /\ UNCHANGED panicked

Clone(t) ==
  /\ Tasks \ Existing # {}
  /\ \/ \E alloc_stack \in BOOLEAN : CloneThread(t, alloc_stack)
     \/ \E share_vm \in BOOLEAN : CloneProcess(t, share_vm)

-----------------------------------------------------------------------------
(* Execve. *)

\* insert_program_area at MMAP_BASE: unwrapped, so an area already there
\* panics.
map_to_kernel_space == kspace \cup {<<"image", 0>>}
ImageIsMapped == <<"image", 0>> \in kspace

\* load_elf_interp maps the interpreter behind the last area.
load_elf_interp(areas) == areas \cup {<<"interp", 0>>}

\* An execve that ends before the file is mapped: the path is bad, the file is
\* short or not an ELF file (a script neither: the pattern for "#!" never
\* matches the four bytes read).
ExecveFails(t) == t \in Live /\ UNCHANGED vars

\* map_elf returns with an error, and load_elf with it.
Refuse(file) ==
  /\ kspace' = IF file = "bad_interp" THEN load_elf_interp(map_to_kernel_space)
               ELSE map_to_kernel_space
  /\ UNCHANGED <<task, vm, group, panicked>>

\* load_elf up to its commit: the new memory set is complete before anything of
\* the task changes.  The other threads are taken out of the queues and never
\* run again; nothing else of them is given back.
load_elf(t, prog, fits) ==
  LET me == task[t]
      areas == alloc_user_res(FromElf(prog), me.tid, TRUE)
  IN IF ImageIsMapped \/ ~fits
     THEN Panic
     ELSE IF prog \in BadImages THEN Refuse(prog)
     ELSE /\ vm' = [vm EXCEPT ![me.vm] = areas]
          /\ task' = [u \in Tasks |->
                IF u = t
                THEN [me EXCEPT !.trap = translate(areas, "trap", me.tid),
                                !.stacked = TRUE]
                ELSE IF u \in Live /\ task[u].tgid = me.tgid
                THEN [task[u] EXCEPT !.status = "lost", !.trap = 0,
                                     !.stacked = FALSE] ELSE task[u]]
          /\ group' = [group EXCEPT ![me.tgid] =
                         [@ EXCEPT !.prog = prog, !.heap = TRUE]]
          /\ UNCHANGED <<kspace, panicked>>

sys_execve(t) ==
  \/ ExecveFails(t)
  \/ \E prog \in Programs \cup BadImages, fits \in Fitting :
       load_elf(t, prog, fits)

-----------------------------------------------------------------------------
(* Exit. *)
\* do_exit: the stack and the trap context go back, and the whole memory set
\* when no other task holds it.
do_exit(t) ==
  LET me == task[t]
      last == ~\E u \in Existing \ {t} : task[u].vm = me.vm
  IN /\ t # first
     /\ vm' = [vm EXCEPT ![me.vm] =
                 IF last THEN <<>> ELSE dealloc_user_res(@, me.tid)]
     /\ task' = [task EXCEPT ![t] =
                   [@ EXCEPT !.status = "zombie", !.trap = 0, !.stacked = FALSE]]
     /\ UNCHANGED <<group, kspace, panicked>>

\* The parent waits for it: the task is dropped, its thread id is free again,
\* and KernelStack::drop removes the stack's area.
Reap(t) ==
  LET me == task[t]
      last == ~\E u \in Existing \ {t} : task[u].tgid = me.tgid
  IN /\ me.status = "zombie"
     /\ kspace' = kspace \ {<<"kstack", me.kstack>>}
     /\ group' = [group EXCEPT ![me.tgid] =
                    IF last THEN NoGroup
                    ELSE [@ EXCEPT !.tids = @ \ {me.tid}]]
     /\ task' = [task EXCEPT ![t] = Free]
     /\ vm' = [vm EXCEPT ![me.vm] =
                 IF \E u \in Existing \ {t} : task[u].vm = me.vm THEN @ ELSE <<>>]
     /\ UNCHANGED panicked

Next ==
  \/ \E t \in Running : Clone(t) \/ sys_execve(t) \/ do_exit(t)
  \/ \E t \in Existing : Reap(t)

Spec == Init /\ [][Next]_vars

-----------------------------------------------------------------------------
(***************************************************************************)
(* What execve puts on the new stack: the strings, the random bytes, the   *)
(* auxiliary vector and the two pointer tables lie in the stack page one   *)
(* below the other, with room for the zero of every string, and the stack  *)
(* pointer is aligned to a word.                                           *)
(***************************************************************************)
ArgumentsAreExact ==
  \A argv, envp \in ArgLists :
    LET at == create_elf_tables(argv, envp)
        lens == envp \o argv
        above(i) == IF i = 1 THEN PageSize - 2 * Word ELSE at.strings[i - 1]
    IN Fits(argv, envp) =>
       /\ \A i \in DOMAIN lens : at.strings[i] + lens[i] + 1 <= above(i)
       /\ at.tables[1] + 2 * Word <= Last(at.strings)
       /\ \A i \in DOMAIN at.tables : at.tables[i] % Word = 0
       /\ at.tables[3] - at.tables[4] = (Len(envp) + 1) * Word
       /\ at.tables[4] - at.tables[5] = (Len(argv) + 1) * Word

(***************************************************************************)
(* The kernel never panics, and every task that can run has a trap context *)
(* of its own, the one at its thread's place in its own memory set.  A     *)
(* memory set holds the areas of the program the process executed last and *)
(* the stacks and trap contexts of its running threads, nothing of an      *)
(* earlier program and nothing twice.  The kernel space holds one stack    *)
(* per task and no image: no execve leaves anything behind there.          *)
(***************************************************************************)
ImagesAreExact ==
  /\ ~panicked
  /\ \A t \in Live :
       /\ task[t].trap # 0
       /\ task[t].trap = translate(vm[task[t].vm], "trap", task[t].tid)
       /\ \A u \in Live \ {t} : task[u].trap # task[t].trap
  /\ \A g \in {task[t].tgid : t \in Live} :
       LET areas == vm[task[CHOOSE t \in Live : task[t].tgid = g].vm]
           mine == {t \in Live : task[t].tgid = g}
       IN /\ Cardinality(Kinds(areas)) = Len(areas)
          /\ Kinds(areas) =
               Kinds(map_elf(group[g].prog))
                 \cup (IF group[g].heap THEN {<<"heap", 0>>} ELSE {})
                 \cup {<<"trap", task[t].tid>> : t \in mine}
                 \cup {<<"stack", task[t].tid>> :
                          t \in {u \in mine : task[u].stacked}}
  /\ kspace = {<<"kstack", task[t].kstack>> : t \in Existing}
  /\ Cardinality(kspace) = Cardinality(Existing)

=============================================================================
