---------------------------- MODULE TaskManager -----------------------------
(***************************************************************************)
(* task/manager.rs (the ready and the interruptible queue), the processor  *)
(* of task/processor.rs and the state changes of task/mod.rs that move a   *)
(* task between them.  Only the boot hart runs tasks (main.rs does not     *)
(* start the others) and a trap taken in the kernel is a panic, so kernel  *)
(* code runs alone between two calls of schedule(): each action below is   *)
(* one such stretch, or the part of one that touches the queues.           *)
(*                                                                         *)
(* ready_queue is a sequence: its order is the schedule.  The order of     *)
(* interruptible_queue is used by no property here, the number of entries  *)
(* a task has in it is: it is a function from tasks to counts.             *)
(***************************************************************************)
EXTENDS Naturals, Sequences, FiniteSetsExt

CONSTANTS Tasks,               \* task control blocks
          NoTask               \* Processor::current = None

ASSUME NoTaskAssumption == NoTask \notin Tasks

VARIABLES status,              \* TaskControlBlockInner::task_status
          ready_queue,         \* TaskManager::ready_queue
          interruptible_queue, \* entries in TaskManager::interruptible_queue
          current              \* Processor::current of the boot hart

tmvars == <<status, ready_queue, interruptible_queue, current>>

TaskStatus == {"Ready", "Running", "Interruptible", "Zombie"}

NoTCB == "NoTCB"               \* the task control block does not exist

HasStatus(s) == {t \in Tasks : status[t] = s}

TMInit == /\ status = [t \in Tasks |-> NoTCB]
          /\ ready_queue = <<>>
          /\ interruptible_queue = [t \in Tasks |-> 0]
          /\ current = NoTask

-----------------------------------------------------------------------------
\* sys_clone and add_initproc: the new TCB is Ready and enters the queue.
add_task(t) ==
  /\ status[t] = NoTCB
  /\ status' = [status EXCEPT ![t] = "Ready"]
  /\ ready_queue' = Append(ready_queue, t)
  /\ UNCHANGED <<interruptible_queue, current>>

\* fetch() mutated: the task is copied out of the queue, not popped.
FetchWithoutPop ==
  /\ current = NoTask
  /\ ready_queue # <<>>
  /\ current' = Head(ready_queue)
  /\ status' = [status EXCEPT ![Head(ready_queue)] = "Running"]
  /\ UNCHANGED <<ready_queue, interruptible_queue>>

\* One round of run_tasks() that finds a task: fetch() and the switch to it.
run_tasks ==
  /\ current = NoTask
  /\ ready_queue # <<>>
  /\ current' = Head(ready_queue)
  /\ status' = [status EXCEPT ![Head(ready_queue)] = "Running"]
  /\ ready_queue' = Tail(ready_queue)
  /\ UNCHANGED interruptible_queue

\* suspend mutated: the task goes back to the front of the queue.
SuspendToFront ==
  /\ current # NoTask
  /\ status' = [status EXCEPT ![current] = "Ready"]
  /\ ready_queue' = <<current>> \o ready_queue
  /\ current' = NoTask
  /\ UNCHANGED interruptible_queue

suspend_current_and_run_next ==
  /\ current # NoTask
  /\ status' = [status EXCEPT ![current] = "Ready"]
  /\ ready_queue' = Append(ready_queue, current)
  /\ current' = NoTask
  /\ UNCHANGED interruptible_queue

block_current_and_run_next ==
  /\ current # NoTask
  /\ status' = [status EXCEPT ![current] = "Interruptible"]
  /\ interruptible_queue' = [interruptible_queue EXCEPT ![current] = @ + 1]
  /\ current' = NoTask
  /\ UNCHANGED ready_queue

\* TaskManager::try_wake_interruptible: drop_interruptible() retains every
\* entry but t's, then t is added unless find_by_pid() still sees it.
try_wake_interruptible(t) ==
  /\ interruptible_queue' = [interruptible_queue EXCEPT ![t] = 0]
  /\ ready_queue' = IF t \in Range(ready_queue) THEN ready_queue
                                               ELSE Append(ready_queue, t)

\* The wake-up every caller performs (wake_at_most, wake_expired, sys_kill,
\* sys_tkill, sys_tgkill, do_exit): only an Interruptible task is made Ready
\* and moved; a Ready, Running or Zombie one is left alone.
wake(t) ==
  /\ status[t] = "Interruptible"
  /\ status' = [status EXCEPT ![t] = "Ready"]
  /\ try_wake_interruptible(t)
  /\ UNCHANGED current

\* exit_current_and_run_next(), as far as the scheduler is concerned.
exit_current_and_run_next ==
  /\ current # NoTask
  /\ status' = [status EXCEPT ![current] = "Zombie"]
  /\ current' = NoTask
  /\ UNCHANGED <<ready_queue, interruptible_queue>>

\* wait4() drops the last reference to a zombie.
release(t) ==
  /\ status[t] = "Zombie"
  /\ status' = [status EXCEPT ![t] = NoTCB]
  /\ UNCHANGED <<ready_queue, interruptible_queue, current>>

TMNext == \/ run_tasks
          \/ suspend_current_and_run_next
          \/ block_current_and_run_next
          \/ exit_current_and_run_next
          \/ \E t \in Tasks : add_task(t) \/ wake(t) \/ release(t)

TMSpec == TMInit /\ [][TMNext]_tmvars

\* run_tasks() loops as long as the queue is not empty, and the timer
\* interrupt of trap_handler() suspends whatever task is running.
TMFairness == /\ WF_tmvars(run_tasks)
              /\ WF_tmvars(suspend_current_and_run_next)

TMFairSpec == TMSpec /\ TMFairness

-----------------------------------------------------------------------------
TMTypeOK == /\ status \in [Tasks -> TaskStatus \cup {NoTCB}]
            /\ ready_queue \in Seq(Tasks)
            /\ interruptible_queue \in [Tasks -> Nat]
            /\ current \in Tasks \cup {NoTask}

\* A task's status says where it is: Ready tasks are in ready_queue once,
\* Interruptible ones in interruptible_queue once, the Running one is the
\* processor's, and a Zombie is nowhere, so it is never scheduled again.
\* No operation changes status and queue together ("you have to change
\* task_status by hand", manager.rs:174): only the callers keep them in step.
StatusMatchesQueues ==
  /\ IsInjective(ready_queue)
  /\ Range(ready_queue) = HasStatus("Ready")
  /\ \A t \in Tasks :
        interruptible_queue[t] = IF status[t] = "Interruptible" THEN 1 ELSE 0
  /\ \A t \in Tasks : status[t] = "Running" <=> current = t

\* A task that has exited leaves the Zombie state only by being released.
ZombiesStayDead ==
  [][\A t \in Tasks : status[t] = "Zombie" => status'[t] \in {"Zombie", NoTCB}]_tmvars

\* Every Ready task runs, whatever the others do.
ReadyTaskRuns == \A t \in Tasks : status[t] = "Ready" ~> status[t] = "Running"
=============================================================================
