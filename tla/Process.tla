------------------------------ MODULE Process -------------------------------
(***************************************************************************)
(* The life of a task, on top of TaskManager: sys_clone, do_exit, sys_exit,*)
(* exit_group, sys_wait4, setsid, execve, kill and pthread_join, and the   *)
(* family tree (parent, children) they maintain.                           *)
(*                                                                         *)
(* A task stands for its task control block and its pid; RecycleAllocator  *)
(* keeps the pids of live blocks apart.  do_exit() is split into its four  *)
(* stages, and exit_group into one do_exit() per thread: while `exiting`   *)
(* is not idle the hart is in there and nobody else moves.  A round of the *)
(* loop of wait4 is one step.  A killed task has a pending signal whose    *)
(* default action terminates it; SIGCHLD is ignored by default and only    *)
(* wakes.                                                                  *)
(***************************************************************************)
EXTENDS TaskManager, TLC

CONSTANTS INITPROC,   \* the first task, which does not exit and is not killed
          Waiters,    \* tasks whose program calls wait4
          Calls       \* the calls the programs make

ASSUME ProcessAssumption == IsFiniteSet(Tasks) /\ INITPROC \in Tasks /\ Waiters \subseteq Tasks

VARIABLES tgid, parent, children,
          exit_signal,      \* TRUE: SIGCHLD, FALSE: none
          clear_child_tid,  \* it is set, and the word still holds the tid
          killed,           \* a terminating signal is in sigpending
          pc,               \* where a task continues when it is next resumed
          arg,              \* arguments of the call it is in
          exiting           \* the do_exit() the hart is in

pvars == <<tgid, parent, children, exit_signal, clear_child_tid, killed, pc, arg, exiting>>
vars == <<tmvars, pvars>>

NoArg == [pid |-> NoTask, nohang |-> FALSE]
Idle == [stage |-> "idle", task |-> NoTask, group |-> NoTask, rest |-> <<>>,
         collected |-> FALSE]
Stages == {"parent", "zombie", "orphans", "tid", "drop", "collect"}
Places == {"user", "wait4", "join", "sleep", "loop"}

Live(t) == status[t] \notin {"Zombie", NoTCB}
Group(g) == {t \in Tasks : tgid[t] = g /\ status[t] # NoTCB}

\* The positions of a group's tasks in the ready queue, and the one sequence
\* (in a set by itself) that the positions K of q make up, in order.
InQueue(g) == {i \in DOMAIN ready_queue : ready_queue[i] \in Group(g)}
Others(g) == DOMAIN ready_queue \ InQueue(g)
Ascending(f) == \A i, j \in DOMAIN f : i < j => f[i] < f[j]
Picks(q, K) ==
  UNION {{[i \in 1..n |-> q[f[i]]] : f \in {h \in [1..n -> K] : Ascending(h) /\ Range(h) = K}} :
         n \in 0..Len(q)}

\* The sequences the elements of S make up, in any order.
Orders(S) == IF S = {} THEN {<<>>}
             ELSE {s \in [1..Cardinality(S) -> S] : IsInjective(s)}

Backwards(s) == [i \in 1..Len(s) |-> s[Len(s) + 1 - i]]
Without(s, i) == SubSeq(s, 1, i - 1) \o SubSeq(s, i + 1, Len(s))

Init == /\ status = [t \in Tasks |-> IF t = INITPROC THEN "Ready" ELSE NoTCB]
        /\ ready_queue = <<INITPROC>>
        /\ interruptible_queue = [t \in Tasks |-> 0]
        /\ current = NoTask
        /\ tgid = [t \in Tasks |-> t]
        /\ parent = [t \in Tasks |-> NoTask]
        /\ children = [t \in Tasks |-> <<>>]
        /\ exit_signal = [t \in Tasks |-> FALSE]
        /\ clear_child_tid = [t \in Tasks |-> FALSE]
        /\ killed = [t \in Tasks |-> FALSE]
        /\ pc = [t \in Tasks |-> "user"]
        /\ arg = [t \in Tasks |-> NoArg]
        /\ exiting = Idle

Resumed(t, c) == current = t /\ pc[t] = c /\ exiting = Idle
InUser(t) == Resumed(t, "user") /\ ~killed[t]

-----------------------------------------------------------------------------
\* sys_clone mutated: a thread's parent field is inherited, but the thread is
\* registered with its creator.
CloneUnderCreator(t, c, thread, sibling) ==
  /\ InUser(t)
  /\ thread \/ sibling => t # INITPROC
  /\ tgid' = [tgid EXCEPT ![c] = IF thread THEN tgid[t] ELSE c]
  /\ parent' = [parent EXCEPT ![c] = IF thread \/ sibling THEN parent[t] ELSE t]
  /\ children' = [children EXCEPT ![c] = <<>>, ![t] = Append(@, c)]
  /\ exit_signal' = [exit_signal EXCEPT ![c] = ~thread]
  /\ clear_child_tid' = [clear_child_tid EXCEPT ![c] = thread]
  /\ killed' = [killed EXCEPT ![c] = FALSE]
  /\ pc' = [pc EXCEPT ![c] = "user"]
  /\ arg' = [arg EXCEPT ![c] = NoArg]
  /\ add_task(c)
  /\ UNCHANGED exiting

\* sys_clone: a thread, as the C library creates it (CLONE_THREAD,
\* CLONE_CHILD_CLEARTID, no exit signal), or a process (SIGCHLD), a sibling of
\* the caller with CLONE_PARENT.  A thread's parent is its creator's parent; of
\* a creator that has none (setsid) it is nobody's child.
sys_clone(t, c, thread, sibling) ==
  /\ InUser(t)
  /\ thread \/ sibling => t # INITPROC
  /\ LET p == IF thread \/ sibling THEN parent[t] ELSE t IN
       /\ tgid' = [tgid EXCEPT ![c] = IF thread THEN tgid[t] ELSE c]
       /\ parent' = [parent EXCEPT ![c] = p]
       /\ children' = [u \in Tasks |-> IF u = c THEN <<>>
                                     ELSE IF u = p THEN Append(children[u], c) ELSE children[u]]
  /\ exit_signal' = [exit_signal EXCEPT ![c] = ~thread]
  /\ clear_child_tid' = [clear_child_tid EXCEPT ![c] = thread]
  /\ killed' = [killed EXCEPT ![c] = FALSE]
  /\ pc' = [pc EXCEPT ![c] = "user"]
  /\ arg' = [arg EXCEPT ![c] = NoArg]
  /\ add_task(c)
  /\ UNCHANGED exiting

Clone(t) ==
  \E c \in Tasks :
    \/ "fork" \in Calls /\ sys_clone(t, c, FALSE, FALSE)
    \/ "clone_parent" \in Calls /\ sys_clone(t, c, FALSE, TRUE)
    \/ "thread" \in Calls /\ sys_clone(t, c, TRUE, FALSE)

-----------------------------------------------------------------------------
\* Exit.  take_current_task(), then do_exit() stage by stage.

\* collected: exit_group has made its exit_list, of which `rest` is left.
DoExit(t, g, rest, collected) ==
  [stage |-> "parent", task |-> t, group |-> g, rest |-> rest, collected |-> collected]

\* g is the group that exits with t, or NoTask.
BeginExit(t, g) ==
  /\ t # INITPROC
  /\ current' = NoTask
  /\ exiting' = DoExit(t, g, <<>>, FALSE)
  /\ UNCHANGED <<status, ready_queue, interruptible_queue, tgid, parent, children,
                 exit_signal, clear_child_tid, killed, pc, arg>>

sys_exit(t) == "exit" \in Calls /\ InUser(t) /\ BeginExit(t, NoTask)

sys_exit_group(t) == "exit_group" \in Calls /\ InUser(t) /\ BeginExit(t, tgid[t])

\* do_signal() on the way to user mode, for a terminating signal.
do_signal(t) == Resumed(t, "user") /\ killed[t] /\ BeginExit(t, tgid[t])

WakeIfAsleep(t) == wake(t) \/ (status[t] # "Interruptible" /\ UNCHANGED tmvars)

\* do_exit() mutated: the parent gets the signal and is left asleep.
SignalOnly ==
  /\ exiting.stage = "parent"
  /\ exiting' = [exiting EXCEPT !.stage = "zombie"]
  /\ UNCHANGED <<tmvars, tgid, parent, children, exit_signal, clear_child_tid, killed, pc, arg>>

\* The exit signal, and the wake-up of a sleeping parent, if there is one.
notify_parent ==
  /\ exiting.stage = "parent"
  /\ LET t == exiting.task IN
       IF exit_signal[t] /\ parent[t] # NoTask THEN WakeIfAsleep(parent[t])
       ELSE UNCHANGED tmvars
  /\ exiting' = [exiting EXCEPT !.stage = "zombie"]
  /\ UNCHANGED <<tgid, parent, children, exit_signal, clear_child_tid, killed, pc, arg>>

become_zombie ==
  /\ exiting.stage = "zombie"
  /\ status' = [status EXCEPT ![exiting.task] = "Zombie"]
  /\ exiting' = [exiting EXCEPT !.stage = "orphans"]
  /\ UNCHANGED <<ready_queue, interruptible_queue, current>>
  /\ UNCHANGED <<tgid, parent, children, exit_signal, clear_child_tid, killed, pc, arg>>

\* do_exit() mutated: the children move, initproc is not told.
AdoptSilently ==
  /\ exiting.stage = "orphans"
  /\ LET t == exiting.task IN
       /\ parent' = [c \in Tasks |-> IF c \in Range(children[t]) THEN INITPROC ELSE parent[c]]
       /\ children' = [children EXCEPT ![t] = <<>>, ![INITPROC] = @ \o Backwards(children[t])]
  /\ exiting' = [exiting EXCEPT !.stage = "tid"]
  /\ UNCHANGED <<tmvars, tgid, exit_signal, clear_child_tid, killed, pc, arg>>

\* The children are popped one by one and pushed to initproc's, which is woken
\* if it sleeps.
move_children ==
  /\ exiting.stage = "orphans"
  /\ LET t == exiting.task IN
       /\ parent' = [c \in Tasks |-> IF c \in Range(children[t]) THEN INITPROC ELSE parent[c]]
       /\ children' = [children EXCEPT ![t] = <<>>, ![INITPROC] = @ \o Backwards(children[t])]
       /\ IF children[t] = <<>> THEN UNCHANGED tmvars ELSE WakeIfAsleep(INITPROC)
  /\ exiting' = [exiting EXCEPT !.stage = "tid"]
  /\ UNCHANGED <<tgid, exit_signal, clear_child_tid, killed, pc, arg>>

\* Threads asleep on the clear_child_tid word of t.
Joiners(t) == {u \in Tasks : pc[u] = "join" /\ arg[u].pid = t /\ status[u] = "Interruptible"}

\* exit_group goes on to the next thread on its list.
NextExit(rest) == IF rest = <<>> THEN Idle
                  ELSE DoExit(Head(rest), exiting.group, Tail(rest), TRUE)

\* After do_exit(): the caller of exit_group collects its group.
AfterExit == IF exiting.group # NoTask /\ ~exiting.collected
             THEN [exiting EXCEPT !.stage = "collect"] ELSE NextExit(exiting.rest)

\* No children list holds t.
Disowned(t) == \A p \in Tasks : t \notin Range(children[p])

\* The word is cleared and one of its waiters is woken.
clear_tid ==
  /\ exiting.stage = "tid"
  /\ LET t == exiting.task IN
       /\ clear_child_tid' = [clear_child_tid EXCEPT ![t] = FALSE]
       /\ IF clear_child_tid[t] /\ Joiners(t) # {} THEN \E u \in Joiners(t) : wake(u)
          ELSE UNCHANGED tmvars
  /\ exiting' = IF Disowned(exiting.task) THEN [exiting EXCEPT !.stage = "drop"] ELSE AfterExit
  /\ UNCHANGED <<tgid, parent, children, exit_signal, killed, pc, arg>>

\* Arc references to the block of t besides the one in children: queue
\* entries, the processor, and `task` on the kernel stack of sys_wait4, which
\* is kept across block_current_and_run_next().
OtherRefs(t) == {e \in DOMAIN ready_queue : ready_queue[e] = t}
                \cup (IF interruptible_queue[t] > 0 THEN {"asleep"} ELSE {})
                \cup (IF current = t THEN {"current"} ELSE {})
                \cup (IF pc[t] = "wait4" THEN {"stack"} ELSE {})

\* do_exit() returns and drops its argument: a block that is in no children list
\* goes with its last reference.
drop_task ==
  /\ exiting.stage = "drop"
  /\ IF OtherRefs(exiting.task) = {} THEN release(exiting.task) ELSE UNCHANGED tmvars
  /\ exiting' = AfterExit
  /\ UNCHANGED <<tgid, parent, children, exit_signal, clear_child_tid, killed, pc, arg>>

\* exit_group mutated: only the ready queue is searched for the group.
CollectReadyOnly ==
  /\ exiting.stage = "collect"
  /\ \E list \in Picks(ready_queue, InQueue(exiting.group)) : exiting' = NextExit(list)
  /\ ready_queue' \in Picks(ready_queue, Others(exiting.group))
  /\ UNCHANGED <<status, interruptible_queue, current>>
  /\ UNCHANGED <<tgid, parent, children, exit_signal, clear_child_tid, killed, pc, arg>>

\* exit_group mutated: the list is made without emptying the ready queue.
CollectWithoutPop ==
  /\ exiting.stage = "collect"
  /\ \E list \in Picks(ready_queue, InQueue(exiting.group)) : exiting' = NextExit(list)
  /\ UNCHANGED <<tmvars, tgid, parent, children, exit_signal, clear_child_tid, killed, pc, arg>>

\* exit_group_and_run_next() after the caller's own do_exit(): the threads of
\* the group leave both queues and become its exit_list.  The order of those
\* from the interruptible queue is not modelled.
collect_group ==
  /\ exiting.stage = "collect"
  /\ \E ready \in Picks(ready_queue, InQueue(exiting.group)),
        asleep \in Orders({t \in Group(exiting.group) : interruptible_queue[t] > 0}) :
       exiting' = NextExit(ready \o asleep)
  /\ ready_queue' \in Picks(ready_queue, Others(exiting.group))
  /\ interruptible_queue' =
       [t \in Tasks |-> IF tgid[t] = exiting.group THEN 0 ELSE interruptible_queue[t]]
  /\ UNCHANGED <<status, current>>
  /\ UNCHANGED <<tgid, parent, children, exit_signal, clear_child_tid, killed, pc, arg>>

-----------------------------------------------------------------------------
\* wait4.  The pid argument is a child or, for -1, NoTask.  initproc uses -1 in
\* its shell mode (initproc.rs:236) and a child it has forked in the modes that
\* run tests (initproc.rs:286), which is the call "initproc_waitpid" here.

Wait4(t, pid, nohang) ==
  /\ "wait4" \in Calls /\ t \in Waiters /\ InUser(t)
  /\ t = INITPROC /\ pid # NoTask => "initproc_waitpid" \in Calls
  /\ pc' = [pc EXCEPT ![t] = "wait4"]
  /\ arg' = [arg EXCEPT ![t] = [pid |-> pid, nohang |-> nohang]]
  /\ UNCHANGED <<tmvars, tgid, parent, children, exit_signal, clear_child_tid, killed, exiting>>

Matches(t) == {c \in Range(children[t]) : arg[t].pid \in {NoTask, c}}
Dead(t) == {c \in Matches(t) : status[c] = "Zombie"}

\* The first dead child in children order.
FirstDead(t, i) ==
  /\ children[t][i] \in Dead(t)
  /\ \A j \in 1..(i - 1) : children[t][j] \notin Dead(t)

\* The call returns; its arguments are gone with it.
Leave(t) == /\ pc' = [pc EXCEPT ![t] = "user"]
            /\ arg' = [arg EXCEPT ![t] = NoArg]

\* One round of the loop that finds a zombie.  It is released, after the
\* assertion that this was its last reference; a thread is skipped, the main
\* thread of a process ends the call.
Wait4Reap(t) ==
  /\ Resumed(t, "wait4")
  /\ \E i \in DOMAIN children[t] :
       LET c == children[t][i] IN
       /\ FirstDead(t, i) /\ OtherRefs(c) = {}
       /\ release(c)
       /\ children' = [children EXCEPT ![t] = Without(@, i)]
       /\ IF tgid[c] = c THEN Leave(t) ELSE UNCHANGED <<pc, arg>>
  /\ UNCHANGED <<tgid, parent, exit_signal, clear_child_tid, killed, exiting>>

\* ECHILD, or nothing to report with WNOHANG.
Wait4Return(t) ==
  /\ Resumed(t, "wait4")
  /\ Matches(t) = {} \/ (Dead(t) = {} /\ arg[t].nohang)
  /\ Leave(t)
  /\ UNCHANGED <<tmvars, tgid, parent, children, exit_signal, clear_child_tid, killed, exiting>>

Wait4Block(t) ==
  /\ Resumed(t, "wait4")
  /\ Matches(t) # {} /\ Dead(t) = {} /\ ~arg[t].nohang
  /\ block_current_and_run_next
  /\ UNCHANGED pvars

-----------------------------------------------------------------------------
\* The other calls, the timer and the scheduler.

\* load_elf(): the rest of the thread group leaves the queues.  get_allocated()
\* counts one id too many, so its test always succeeds.
sys_execve(t) ==
  /\ "execve" \in Calls /\ InUser(t)
  /\ ready_queue' \in Picks(ready_queue, Others(tgid[t]))
  /\ interruptible_queue' =
       [u \in Tasks |-> IF tgid[u] = tgid[t] THEN 0 ELSE interruptible_queue[u]]
  /\ clear_child_tid' = [clear_child_tid EXCEPT ![t] = FALSE]
  /\ UNCHANGED <<status, current, tgid, parent, children, exit_signal, killed, pc, arg, exiting>>

\* pthread_join: FUTEX_WAIT on the clear_child_tid word of thread u.
Join(t, u) ==
  /\ "join" \in Calls /\ InUser(t)
  /\ u # t /\ tgid[u] = tgid[t] /\ clear_child_tid[u]
  /\ pc' = [pc EXCEPT ![t] = "join"]
  /\ arg' = [arg EXCEPT ![t] = [pid |-> u, nohang |-> FALSE]]
  /\ block_current_and_run_next
  /\ UNCHANGED <<tgid, parent, children, exit_signal, clear_child_tid, killed, exiting>>

\* sys_setsid mutated: the caller forgets its parent and stays its child.
SetsidHalfway(t) ==
  /\ "setsid" \in Calls /\ InUser(t) /\ parent[t] # NoTask /\ tgid[t] = t
  /\ parent' = [parent EXCEPT ![t] = NoTask]
  /\ UNCHANGED <<tmvars, tgid, children, exit_signal, clear_child_tid, killed, pc, arg, exiting>>

\* The children of p whose tid is that of a main thread: the first id of a new
\* allocator, the same for every process.
MainThreads(p) == {c \in Range(children[p]) : tgid[c] = c}

\* sys_setsid, called by a main thread: retain() drops every child of the parent
\* that has the caller's tid, and a dead one is freed with it.  With siblings that
\* is more than the caller, and needs "setsid_siblings" among the calls.
sys_setsid(t) ==
  /\ "setsid" \in Calls /\ InUser(t) /\ parent[t] # NoTask /\ tgid[t] = t
  /\ MainThreads(parent[t]) \subseteq {t} \/ "setsid_siblings" \in Calls
  /\ LET p == parent[t] IN
       /\ \E rest \in Picks(children[p], {i \in DOMAIN children[p] :
                                              children[p][i] \notin MainThreads(p)}) :
            children' = [children EXCEPT ![p] = rest]
       /\ status' = [c \in Tasks |-> IF c \in MainThreads(p) /\ status[c] = "Zombie"
                                          /\ OtherRefs(c) = {} THEN NoTCB ELSE status[c]]
  /\ parent' = [parent EXCEPT ![t] = NoTask]
  /\ UNCHANGED <<ready_queue, interruptible_queue, current>>
  /\ UNCHANGED <<tgid, exit_signal, clear_child_tid, killed, pc, arg, exiting>>

\* nanosleep, a futex wait, sigtimedwait: a call that returns when it is woken.
Sleep(t) ==
  /\ "sleep" \in Calls /\ InUser(t) /\ t # INITPROC
  /\ pc' = [pc EXCEPT ![t] = "sleep"]
  /\ block_current_and_run_next
  /\ UNCHANGED <<tgid, parent, children, exit_signal, clear_child_tid, killed, arg, exiting>>

\* A read or write of a pipe, ppoll, pselect, a receive from a socket: loops that
\* sleep or yield until there is something to return, and look at no signal.
Loop(t) ==
  /\ "loop" \in Calls /\ InUser(t) /\ t # INITPROC
  /\ pc' = [pc EXCEPT ![t] = "loop"]
  /\ block_current_and_run_next \/ suspend_current_and_run_next
  /\ UNCHANGED <<tgid, parent, children, exit_signal, clear_child_tid, killed, arg, exiting>>

LoopRound(t) ==
  /\ Resumed(t, "loop")
  /\ \/ pc' = [pc EXCEPT ![t] = "user"] /\ UNCHANGED tmvars
     \/ (block_current_and_run_next \/ suspend_current_and_run_next) /\ UNCHANGED pc
  /\ UNCHANGED <<tgid, parent, children, exit_signal, clear_child_tid, killed, arg, exiting>>

\* The timeout queue; the loops put themselves there with the present time.
Timeout(t) ==
  /\ exiting = Idle /\ pc[t] \in {"sleep", "loop"}
  /\ wake(t)
  /\ UNCHANGED pvars

\* The second half of a join or a sleep.
Return(t) ==
  /\ Resumed(t, "join") \/ Resumed(t, "sleep")
  /\ Leave(t)
  /\ UNCHANGED <<tmvars, tgid, parent, children, exit_signal, clear_child_tid, killed, exiting>>

\* find_task_by_tgid(): the running task, else the first in the ready queue,
\* else one of the sleeping.
FoundByTgid(g) ==
  IF tgid[current] = g THEN {current}
  ELSE IF InQueue(g) # {} THEN {ready_queue[i] : i \in {k \in InQueue(g) : \A j \in InQueue(g) : k <= j}}
  ELSE {u \in Group(g) : interruptible_queue[u] > 0}

\* kill mutated: a sleeping target is not woken.
KillWithoutWake(t, g) ==
  /\ "kill" \in Calls /\ InUser(t) /\ g # tgid[INITPROC]
  /\ \E u \in FoundByTgid(g) : killed' = [killed EXCEPT ![u] = TRUE]
  /\ UNCHANGED <<tmvars, tgid, parent, children, exit_signal, clear_child_tid, pc, arg, exiting>>

\* kill(g, SIGKILL), or any signal with that default action.
sys_kill(t, g) ==
  /\ "kill" \in Calls /\ InUser(t) /\ g # tgid[INITPROC]
  /\ \E u \in FoundByTgid(g) :
       /\ killed' = [killed EXCEPT ![u] = TRUE]
       /\ WakeIfAsleep(u)
  /\ UNCHANGED <<tgid, parent, children, exit_signal, clear_child_tid, pc, arg, exiting>>

TimerInterrupt(t) ==
  /\ InUser(t)
  /\ suspend_current_and_run_next
  /\ UNCHANGED pvars

Schedule ==
  /\ exiting = Idle
  /\ run_tasks
  /\ UNCHANGED pvars

Exit == \/ notify_parent \/ become_zombie \/ move_children \/ clear_tid \/ drop_task
        \/ collect_group

WaitRound(t) == Wait4Reap(t) \/ Wait4Return(t) \/ Wait4Block(t)

Next ==
  \/ Schedule \/ Exit
  \/ \E t \in Tasks :
       \/ Clone(t) \/ sys_exit(t) \/ sys_exit_group(t) \/ sys_execve(t) \/ Sleep(t) \/ Timeout(t)
       \/ do_signal(t) \/ TimerInterrupt(t) \/ Return(t) \/ WaitRound(t)
       \/ sys_setsid(t) \/ Loop(t) \/ LoopRound(t)
       \/ \E pid \in Range(children[t]) \cup {NoTask}, nohang \in BOOLEAN : Wait4(t, pid, nohang)
       \/ \E u \in Tasks : Join(t, u) \/ sys_kill(t, u)

Spec == Init /\ [][Next]_vars

\* The kernel finishes what it has begun, the timer preempts every user
\* program, and initproc in its shell mode calls wait() again and again.
Fairness ==
  /\ WF_vars(Schedule) /\ WF_vars(Exit)
  /\ SF_vars(Wait4(INITPROC, NoTask, FALSE))
  /\ \A t \in Tasks :
       /\ WF_vars(do_signal(t)) /\ WF_vars(Return(t)) /\ WF_vars(WaitRound(t))
       /\ WF_vars(LoopRound(t))
       /\ SF_vars(TimerInterrupt(t))

FairSpec == Spec /\ Fairness

-----------------------------------------------------------------------------
TypeOK ==
  /\ TMTypeOK
  /\ tgid \in [Tasks -> Tasks]
  /\ parent \in [Tasks -> Tasks \cup {NoTask}]
  /\ children \in [Tasks -> Seq(Tasks)]
  /\ exit_signal \in [Tasks -> BOOLEAN]
  /\ clear_child_tid \in [Tasks -> BOOLEAN]
  /\ killed \in [Tasks -> BOOLEAN]
  /\ pc \in [Tasks -> Places]
  /\ arg \in [Tasks -> [pid : Tasks \cup {NoTask}, nohang : BOOLEAN]]
  /\ exiting \in [stage : Stages \cup {"idle"}, task : Tasks \cup {NoTask},
                  group : Tasks \cup {NoTask}, rest : Seq(Tasks), collected : BOOLEAN]

\* parent and children are two copies of one relation, kept in step by hand in
\* sys_clone, do_exit, wait4 and setsid: a block that has a parent is once in the
\* children of that task, and of no other, and the parent is alive, so the
\* upgrade().unwrap() of do_exit (mod.rs:80) and of sys_clone (task.rs:655) cannot
\* fail; a block without a parent (initproc, or after setsid) is nobody's child.
FamilyTree ==
  /\ \A t \in Tasks : IsInjective(children[t])
  /\ \A t \in Tasks : \A c \in Range(children[t]) : parent[c] = t /\ status[c] # NoTCB
  /\ \A c \in Tasks \ {INITPROC} : status[c] # NoTCB /\ parent[c] # NoTask =>
       /\ c \in Range(children[parent[c]])
       /\ Live(parent[c]) \/ (exiting.task = parent[c] /\ exiting.stage = "orphans")

\* Between two calls the queues and the status of every task agree, although
\* exit_group takes tasks out of the queues behind the scheduler's back.
QueuesAgree == exiting = Idle => StatusMatchesQueues

\* No exit goes unnoticed: a task asleep in wait4 has no dead process to report,
\* and what it waits for is not dead to the last thread.  It may have nothing to
\* wait for any more, if its children have left it by setsid.
NoMissedExit ==
  \A t \in Tasks : exiting = Idle /\ status[t] = "Interruptible" /\ pc[t] = "wait4" =>
    /\ \A c \in Dead(t) : tgid[c] # c
    /\ Matches(t) # {} => Dead(t) # Matches(t)

\* A task asleep in wait4 has somebody to wait for.  setsid breaks it.
WaitsForSomebody ==
  \A t \in Tasks : status[t] = "Interruptible" /\ pc[t] = "wait4" => Matches(t) # {}

\* The kernel comes to a standstill, all tasks asleep and none to wake them, only
\* when one of them waits for children that have left it by setsid: no two tasks
\* of the tree wait for each other.
NoStandstill ==
  exiting = Idle /\ current = NoTask /\ ready_queue = <<>> =>
    \E t \in Tasks : status[t] = "Interruptible" /\ (pc[t] = "wait4" => Matches(t) = {})

\* The assertion of wait4 (process.rs:741): a zombie found in children is
\* referenced from nowhere else.
ReapIsLast == \A t \in Tasks : Resumed(t, "wait4") => \A c \in Dead(t) : OtherRefs(c) = {}

\* When exit_group is through, no thread of the group is alive or queued.
GroupExitIsComplete ==
  [][exiting.group # NoTask /\ exiting' = Idle =>
       \A t \in Group(exiting.group) :
          ~Live(t)' /\ t \notin Range(ready_queue') /\ interruptible_queue'[t] = 0]_vars

\* A dead child of initproc is reaped, whoever brought it up, as long as initproc
\* is in its shell mode.
OrphansAreReaped ==
  \A t \in Tasks : t \in Range(children[INITPROC]) /\ status[t] = "Zombie" ~> status[t] = NoTCB

\* A task that is sent a terminating signal terminates, unless it is in wait4 or
\* in one of the loops that do not look at it.
KillTerminates ==
  \A t \in Tasks : killed[t] /\ pc[t] \notin {"wait4", "loop"} ~> ~Live(t)

\* The same wherever it is; the code does not keep it.
EveryKillTerminates == \A t \in Tasks : killed[t] ~> ~Live(t)

\* Nothing tells the tasks other than initproc apart before they are created.
Symmetry == Permutations(Tasks \ {INITPROC})
=============================================================================
