------------------------------- MODULE Futex --------------------------------
(***************************************************************************)
(* The blocking calls of the threads of one process: task/threads.rs (the  *)
(* futex table), WaitQueue and TimeoutWaitQueue of task/manager.rs, the    *)
(* sleeping calls and sys_tkill of syscall/process.rs, the timer interrupt *)
(* and the idle loop, on top of the scheduler of TaskManager.              *)
(*                                                                         *)
(* A system call is one action up to the schedule() inside it, and one     *)
(* from the resumption to the return to user mode, do_signal() included.   *)
(* The loops of wake_at_most() and wake_expired() take one step per queue  *)
(* entry; `loop` says which one the hart is in, and nothing but the clock  *)
(* moves meanwhile.  sigpending keeps of a signal that it is deliverable   *)
(* and does not terminate its task: do_signal() consumes it on the way     *)
(* back to user mode.  EAGAIN and ESRCH returns change nothing and are not *)
(* steps.                                                                  *)
(***************************************************************************)
EXTENDS TaskManager, TLC

CONSTANTS Addrs,       \* user addresses used as futex words
          NoAddr,      \* clear_child_tid = 0
          ClearTid,    \* ClearTid[t]: clear_child_tid of thread t
          Values,      \* values of a futex word, 0 among them
          Expected,    \* the val argument of FUTEX_WAIT
          Durations,   \* lengths of timeouts
          WakeCounts,  \* the val argument of FUTEX_WAKE and FUTEX_REQUEUE
          OpCounts,    \* the val argument of FUTEX_WAKE_OP, below 2^31
          Requeues,    \* pairs of addresses FUTEX_REQUEUE is called with
          CowWords,    \* words on pages the process writes to after a fork()
          MaxTime,     \* bound: no timeout ends later
          MaxEntries,  \* bound: entries in all futex queues (the code has none,
                       \* and an interrupted wait leaves its entry behind)
          Calls        \* the calls the threads make

ASSUME FutexAssumption ==
  /\ IsFiniteSet(Tasks) /\ Cardinality(Tasks) \in Nat   \* the latter follows
  /\ MaxTime \in Nat /\ MaxEntries \in Nat
  /\ Durations \subseteq Nat /\ WakeCounts \subseteq Nat /\ OpCounts \subseteq Nat
  /\ 0 \in Values /\ Expected \subseteq Values /\ NoAddr \notin Addrs
  /\ ClearTid \in [Tasks -> Addrs \cup {NoAddr}]
  /\ Requeues \subseteq Addrs \X Addrs /\ CowWords \subseteq Addrs

VARIABLES pc,          \* where a task continues when it is next resumed
          call,        \* locals of the call a task is blocked in
          now,         \* TimeSpec::now()
          timeouts,    \* TIMEOUT_WAITQUEUE, a set of TimeoutWaiter
          futex,       \* Futex::inner: frame of a word -> WaitQueue
          frame,       \* the physical frame each word lives in
          word,        \* the words themselves
          sigpending,  \* a signal is pending and not masked
          loop         \* the wake-up loop the hart is in

fvars == <<pc, call, now, timeouts, futex, frame, word, sigpending, loop>>
vars == <<tmvars, fvars>>

Forever == MaxTime + 1
NoLoop == [kind |-> "none"]
Sleeping == {"nanosleep", "clock_nanosleep", "sigtimedwait"}
Blocking == Sleeping \cup {"futex_wait"}

\* The key mutated: the page of the word, not the word.
PageKey(a) == <<CHOOSE b \in Addrs : TRUE, frame[a]>>

\* Futex::inner is keyed by the address translated_refmut() returns, i.e. by
\* the frame the page of the word is in at the time of the call.
Key(a) == <<a, frame[a]>>
Keys == Addrs \X {0, 1}

Entries == MapThenSumSet(LAMBDA k : Len(futex[k]), Keys)

\* The orders the threads may have been created in.
Orders == {q \in [1..Cardinality(Tasks) -> Tasks] :
             IsInjective(q) /\ Range(q) = Tasks}

Init == /\ status = [t \in Tasks |-> "Ready"]
        /\ ready_queue \in Orders
        /\ interruptible_queue = [t \in Tasks |-> 0]
        /\ current = NoTask
        /\ pc = [t \in Tasks |-> "user"]
        /\ call = [t \in Tasks |-> [addr |-> NoAddr, end |-> Forever]]
        /\ now = 0
        /\ timeouts = {}
        /\ futex = [k \in Keys |-> <<>>]
        /\ frame = [a \in Addrs |-> 0]
        /\ word \in [Addrs -> Values]
        /\ sigpending = [t \in Tasks |-> FALSE]
        /\ loop = NoLoop

InUser(t) == current = t /\ pc[t] = "user" /\ loop = NoLoop

Resumed(t, c) == current = t /\ pc[t] = c /\ loop = NoLoop

-----------------------------------------------------------------------------
\* The clock and user code.

Tick == /\ now < MaxTime
        /\ now' = now + 1
        /\ UNCHANGED <<tmvars, pc, call, timeouts, futex, frame, word, sigpending, loop>>

\* The C library leaves the clear_child_tid words to the kernel.
Store(t, a, v) ==
  /\ "store" \in Calls /\ InUser(t) /\ word[a] # v /\ a \notin Range(ClearTid)
  /\ word' = [word EXCEPT ![a] = v]
  /\ UNCHANGED <<tmvars, pc, call, now, timeouts, futex, frame, sigpending, loop>>

\* The first store to the page of a word after a fork(), to the word or to
\* anything else there: copy_on_write() gives this process a fresh frame while
\* the child keeps the old one.
StoreAfterFork(t, a) ==
  /\ "fork" \in Calls /\ InUser(t) /\ frame[a] = 0 /\ a \in CowWords
  /\ frame' = [frame EXCEPT ![a] = 1]
  /\ UNCHANGED <<tmvars, pc, call, now, timeouts, futex, word, sigpending, loop>>

-----------------------------------------------------------------------------
\* Blocking calls.  wait_with_timeout() adds a waiter to the timeout queue.

wait_with_timeout(t, end) ==
  timeouts' = timeouts \cup {[task |-> t, timeout |-> end]}

\* do_futex_wait() mutated: the timeout is not registered.
WaitForgetsTimeout(t, a, v, end) ==
  /\ InUser(t) /\ word[a] = v /\ Entries < MaxEntries
  /\ futex' = [futex EXCEPT ![Key(a)] = Append(@, t)]
  /\ UNCHANGED timeouts
  /\ call' = [call EXCEPT ![t] = [addr |-> a, end |-> end]]
  /\ pc' = [pc EXCEPT ![t] = "futex_wait"]
  /\ block_current_and_run_next
  /\ UNCHANGED <<now, frame, word, sigpending, loop>>

\* FUTEX_WAIT with the deadline `end`, Forever when the caller gave no timeout.
do_futex_wait(t, a, v, end) ==
  /\ InUser(t) /\ word[a] = v /\ Entries < MaxEntries
  /\ futex' = [futex EXCEPT ![Key(a)] = Append(@, t)]
  /\ IF end = Forever THEN UNCHANGED timeouts ELSE wait_with_timeout(t, end)
  /\ call' = [call EXCEPT ![t] = [addr |-> a, end |-> end]]
  /\ pc' = [pc EXCEPT ![t] = "futex_wait"]
  /\ block_current_and_run_next
  /\ UNCHANGED <<now, frame, word, sigpending, loop>>

FutexWait(t) ==
  \E a \in Addrs, v \in Expected :
    \/ "futex_wait" \in Calls /\ do_futex_wait(t, a, v, Forever)
    \/ "futex_timedwait" \in Calls
       /\ \E d \in Durations : now + d <= MaxTime /\ do_futex_wait(t, a, v, now + d)

Sleep(t, c, d) ==
  /\ c \in Calls /\ InUser(t) /\ now + d <= MaxTime
  /\ wait_with_timeout(t, now + d)
  /\ call' = [call EXCEPT ![t] = [addr |-> NoAddr, end |-> now + d]]
  /\ pc' = [pc EXCEPT ![t] = c]
  /\ block_current_and_run_next
  /\ UNCHANGED <<now, futex, frame, word, sigpending, loop>>

sys_nanosleep(t, d) == Sleep(t, "nanosleep", d)

sys_clock_nanosleep(t, d) == Sleep(t, "clock_nanosleep", d)

sigtimedwait(t, d) == Sleep(t, "sigtimedwait", d)

\* The second half of a blocking call, up to user mode.  It returns SUCCESS
\* (EAGAIN for sigtimedwait), or EINTR when a signal is pending.
Return(t) ==
  /\ \E c \in Blocking : Resumed(t, c)
  /\ pc' = [pc EXCEPT ![t] = "user"]
  /\ call' = [call EXCEPT ![t] = [addr |-> NoAddr, end |-> Forever]]
  /\ sigpending' = [sigpending EXCEPT ![t] = FALSE]
  /\ UNCHANGED <<tmvars, now, timeouts, futex, frame, word, loop>>

-----------------------------------------------------------------------------
\* Waking.

\* Wake n waiters of queue k; `after` is what the call does next.
FutexLoop(k, n, after) == [kind |-> "futex", key |-> k, left |-> n, after |-> after]

After(op, b, n) == [op |-> op, addr |-> b, n |-> n]
Nothing == After("return", NoAddr, 0)

\* FUTEX_WAKE; wake_at_most(0) returns at once.
FutexWake(t, a, n) ==
  /\ "futex_wake" \in Calls /\ InUser(t) /\ n > 0
  /\ loop' = FutexLoop(Key(a), n, Nothing)
  /\ UNCHANGED <<tmvars, pc, call, now, timeouts, futex, frame, word, sigpending>>

\* FUTEX_REQUEUE: wakes n waiters of a, then moves m others to b.
FutexRequeue(t, a, b, n, m) ==
  /\ "futex_requeue" \in Calls /\ InUser(t)
  /\ loop' = FutexLoop(Key(a), n, After("move", b, m))
  /\ UNCHANGED <<tmvars, pc, call, now, timeouts, futex, frame, word, sigpending>>

\* FUTEX_WAKE_OP: stores the outcome v of the operation in word b, wakes
\* waiters of a and, if the comparison held, of b.  Both counts are taken from
\* val: all of it, and its upper half.
wake_op(t, a, b, v, val, do_wake2) ==
  /\ "futex_wake_op" \in Calls /\ InUser(t) /\ b \notin Range(ClearTid)
  /\ word' = [word EXCEPT ![b] = v]
  /\ loop' = FutexLoop(Key(a), val,
                       IF do_wake2 THEN After("wake", b, (val \div 65536) % 65536) ELSE Nothing)
  /\ UNCHANGED <<tmvars, pc, call, now, timeouts, futex, frame, sigpending>>

\* do_exit() mutated: the word is cleared and nobody is woken.
ExitWithoutWake(t) ==
  /\ "exit" \in Calls /\ InUser(t)
  /\ exit_current_and_run_next
  /\ word' = [a \in Addrs |-> IF a = ClearTid[t] THEN 0 ELSE word[a]]
  /\ UNCHANGED <<pc, call, now, timeouts, futex, frame, sigpending, loop>>

\* do_exit() as far as the other threads can see: the thread is a Zombie, its
\* clear_child_tid word is zeroed and one waiter on it is woken.
sys_exit(t) ==
  /\ "exit" \in Calls /\ InUser(t)
  /\ exit_current_and_run_next
  /\ IF ClearTid[t] = NoAddr THEN UNCHANGED <<word, loop>>
     ELSE /\ word' = [word EXCEPT ![ClearTid[t]] = 0]
          /\ loop' = FutexLoop(Key(ClearTid[t]), 1, Nothing)
  /\ UNCHANGED <<pc, call, now, timeouts, futex, frame, sigpending>>

\* One round of the loop of WaitQueue::wake_at_most(): only an Interruptible
\* task counts, any other entry is dropped.
wake_at_most ==
  /\ loop.kind = "futex" /\ loop.left > 0 /\ futex[loop.key] # <<>>
  /\ LET t == Head(futex[loop.key]) IN
       \/ wake(t) /\ loop' = [loop EXCEPT !.left = @ - 1]
       \/ status[t] # "Interruptible" /\ UNCHANGED <<tmvars, loop>>
  /\ futex' = [futex EXCEPT ![loop.key] = Tail(@)]
  /\ UNCHANGED <<pc, call, now, timeouts, frame, word, sigpending>>

\* requeue() mutated: the destination queue is not put back into the map.
MovedNowhere(k, j, m) ==
  LET n == IF m < Len(futex[k]) THEN m ELSE Len(futex[k])
  IN  [futex EXCEPT ![k] = SubSeq(@, n + 1, Len(@))]

\* The rest of Futex::requeue(): m entries of queue k go to the end of queue j.
\* Both queues are taken out of the map and put back when not empty, so for
\* j = k the second insertion replaces the first.
Moved(k, j, m) ==
  LET n == IF m < Len(futex[k]) THEN m ELSE Len(futex[k])
      rest == SubSeq(futex[k], n + 1, Len(futex[k]))
      dest == (IF j = k THEN <<>> ELSE futex[j]) \o SubSeq(futex[k], 1, n)
  IN  [futex EXCEPT ![k] = rest, ![j] = IF dest = <<>> THEN @ ELSE dest]

WakeLoopEnds == loop.kind = "futex" /\ (loop.left = 0 \/ futex[loop.key] = <<>>)

\* wake_op() goes on to its second queue.
WakeSecond ==
  /\ WakeLoopEnds /\ loop.after.op = "wake"
  /\ loop' = FutexLoop(Key(loop.after.addr), loop.after.n, Nothing)
  /\ UNCHANGED <<tmvars, pc, call, now, timeouts, futex, frame, word, sigpending>>

\* requeue() moves its entries, and the system call returns to user mode.
WakeDone ==
  /\ WakeLoopEnds /\ loop.after.op # "wake"
  /\ futex' = IF loop.after.op = "return" \/ futex[loop.key] = <<>> THEN futex
              ELSE Moved(loop.key, Key(loop.after.addr), loop.after.n)
  /\ sigpending' = [t \in Tasks |-> sigpending[t] /\ t # current]
  /\ loop' = NoLoop
  /\ UNCHANGED <<tmvars, pc, call, now, timeouts, frame, word>>

\* sys_tkill of a thread find_task_by_pid() sees; a signal to oneself is
\* consumed on the way back to user mode.
sys_tkill(t, u) ==
  /\ "tkill" \in Calls /\ InUser(t) /\ u # t /\ status[u] \in {"Ready", "Interruptible"}
  /\ sigpending' = [sigpending EXCEPT ![u] = TRUE]
  /\ wake(u) \/ (status[u] # "Interruptible" /\ UNCHANGED tmvars)
  /\ UNCHANGED <<pc, call, now, timeouts, futex, frame, word, loop>>

-----------------------------------------------------------------------------
\* The timer interrupt, the idle loop and the scheduler.

\* do_wake_expired() reads the clock once.
do_wake_expired == loop' = [kind |-> "expired", at |-> now]

\* trap_handler() on SupervisorTimer: wakes the expired, then suspends.
TimerInterrupt(t) ==
  /\ InUser(t)
  /\ do_wake_expired
  /\ UNCHANGED <<tmvars, pc, call, now, timeouts, futex, frame, word, sigpending>>

\* run_tasks() mutated: the idle loop does not look at the timeouts.
IdleSpins ==
  /\ current = NoTask /\ loop = NoLoop /\ ready_queue = <<>>
  /\ UNCHANGED vars

\* run_tasks() with an empty ready queue.
IdleLoop ==
  /\ current = NoTask /\ loop = NoLoop /\ ready_queue = <<>>
  /\ \E w \in timeouts : w.timeout <= now
  /\ do_wake_expired
  /\ UNCHANGED <<tmvars, pc, call, now, timeouts, futex, frame, word, sigpending>>

\* wake_expired() mutated: the head of the heap is popped without a look at
\* its time.
DueOrNot == timeouts

\* The waiters wake_expired() finds at the head of the heap one by one.
Due == {w \in timeouts : w.timeout <= loop.at}

\* wake_expired() mutated: the status is set, the queues are left alone.
ExpireStatusOnly ==
  /\ loop.kind = "expired"
  /\ \E w \in Due :
       /\ timeouts' = timeouts \ {w}
       /\ status' = [status EXCEPT ![w.task] = IF @ = "Interruptible" THEN "Ready" ELSE @]
  /\ UNCHANGED <<ready_queue, interruptible_queue, current>>
  /\ UNCHANGED <<pc, call, now, futex, frame, word, sigpending, loop>>

\* One round of TimeoutWaitQueue::wake_expired(): the earliest waiter leaves
\* the heap and is woken if it is Interruptible.
wake_expired ==
  /\ loop.kind = "expired"
  /\ \E w \in Due :
       /\ \A x \in Due : w.timeout <= x.timeout
       /\ timeouts' = timeouts \ {w}
       /\ wake(w.task) \/ (status[w.task] # "Interruptible" /\ UNCHANGED tmvars)
  /\ UNCHANGED <<pc, call, now, futex, frame, word, sigpending, loop>>

ExpiredDone ==
  /\ loop.kind = "expired" /\ Due = {}
  /\ loop' = NoLoop
  /\ IF current = NoTask THEN UNCHANGED tmvars ELSE suspend_current_and_run_next
  /\ UNCHANGED <<pc, call, now, timeouts, futex, frame, word, sigpending>>

\* A task suspended in trap_handler() resumes into trap_return().
Schedule ==
  /\ loop = NoLoop
  /\ run_tasks
  /\ sigpending' = [t \in Tasks |-> sigpending[t] /\ ~(t = current' /\ pc[t] = "user")]
  /\ UNCHANGED <<pc, call, now, timeouts, futex, frame, word, loop>>

Syscall(t) ==
  \/ FutexWait(t)
  \/ \E d \in Durations : sys_nanosleep(t, d) \/ sys_clock_nanosleep(t, d) \/ sigtimedwait(t, d)
  \/ \E a \in Addrs, n \in WakeCounts : FutexWake(t, a, n)
  \/ \E ab \in Requeues, n, m \in WakeCounts : FutexRequeue(t, ab[1], ab[2], n, m)
  \/ \E a, b \in Addrs, v \in Values, val \in OpCounts, do_wake2 \in BOOLEAN :
       wake_op(t, a, b, v, val, do_wake2)
  \/ \E u \in Tasks : sys_tkill(t, u)
  \/ sys_exit(t)

Next ==
  \/ Tick
  \/ Schedule \/ IdleLoop \/ wake_expired \/ ExpiredDone \/ wake_at_most \/ WakeSecond \/ WakeDone
  \/ \E t \in Tasks :
       \/ TimerInterrupt(t) \/ Return(t) \/ Syscall(t)
       \/ \E a \in Addrs : StoreAfterFork(t, a) \/ \E v \in Values : Store(t, a, v)

Spec == Init /\ [][Next]_vars

\* A timer interrupt stays pending while the kernel runs and is taken as soon
\* as a task is back in user mode; what the kernel has begun it finishes.
Fairness ==
  /\ WF_vars(Tick)
  /\ WF_vars(Schedule) /\ WF_vars(IdleLoop)
  /\ WF_vars(wake_expired) /\ WF_vars(ExpiredDone)
  /\ WF_vars(wake_at_most) /\ WF_vars(WakeSecond) /\ WF_vars(WakeDone)
  /\ \A t \in Tasks : WF_vars(Return(t)) /\ SF_vars(TimerInterrupt(t))

FairSpec == Spec /\ Fairness

-----------------------------------------------------------------------------
Loops ==
  {NoLoop} \cup [kind : {"expired"}, at : 0..MaxTime]
  \cup [kind : {"futex"}, key : Keys, left : Nat,
        after : [op : {"return", "move", "wake"}, addr : Addrs \cup {NoAddr}, n : Nat]]

TypeOK ==
  /\ TMTypeOK
  /\ pc \in [Tasks -> Blocking \cup {"user"}]
  /\ call \in [Tasks -> [addr : Addrs \cup {NoAddr}, end : 0..Forever]]
  /\ now \in 0..MaxTime
  /\ timeouts \subseteq [task : Tasks, timeout : 0..MaxTime]
  /\ futex \in [Keys -> Seq(Tasks)]
  /\ frame \in [Addrs -> {0, 1}]
  /\ word \in [Addrs -> Values]
  /\ sigpending \in [Tasks -> BOOLEAN]
  /\ loop \in Loops

Asleep(t) == status[t] = "Interruptible"

\* A thread asleep in FUTEX_WAIT is in the queue a FUTEX_WAKE on some futex
\* word looks at: no timeout, signal, exit or requeue loses it.
NoLostWaiter ==
  \A t \in Tasks : Asleep(t) /\ pc[t] = "futex_wait" =>
    \E a \in Addrs : t \in Range(futex[Key(a)])

\* A thread asleep with a deadline has its waiter in the timeout queue, whatever
\* stale waiters of its earlier calls are popped before it.
DeadlineIsQueued ==
  \A t \in Tasks : Asleep(t) /\ call[t].end # Forever =>
    [task |-> t, timeout |-> call[t].end] \in timeouts

\* A thread asleep is where what it waits for looks for it: in the queue of a
\* futex word, and in the timeout queue if it has a deadline (threads.rs
\* do_futex_wait, wake and requeue, manager.rs do_wake_expired).
WaitersAreQueued == NoLostWaiter /\ DeadlineIsQueued

\* sys_nanosleep and sigtimedwait resumed with no signal pending assert that
\* their time is up (process.rs:205, signal.rs:676), and clock_nanosleep
\* returns SUCCESS: none of them may be resumed early.
SleepsInFull ==
  \A t \in Tasks : current = t /\ pc[t] \in Sleeping /\ ~sigpending[t] =>
    call[t].end <= now

\* FUTEX_WAKE wakes only threads that wait on the word it names.
WakesOnlyItsWaiters ==
  [][\A t \in Tasks : loop.kind = "futex" /\ Asleep(t) /\ status'[t] = "Ready" =>
       pc[t] = "futex_wait" /\ call[t].addr = loop.key[1]]_vars

\* A call with a deadline comes back to user mode.
TimedCallReturns ==
  \A t \in Tasks : pc[t] \in Blocking /\ call[t].end # Forever ~> pc[t] = "user"

\* pthread_join: a thread that waits for another one's clear_child_tid word to
\* become 0 returns once that one has exited.
JoinReturns ==
  \A t, u \in Tasks :
    (status[t] = "Zombie" /\ pc[u] = "futex_wait" /\ call[u].addr = ClearTid[t])
    ~> pc[u] = "user"

\* Nobody waits forever for what has happened: a deadline that passes, a thread
\* that has exited, or the hart when it is Ready.
BlockedCallsReturn == TimedCallReturns /\ JoinReturns /\ ReadyTaskRuns

-----------------------------------------------------------------------------
\* Values of the constants for TLC.  One thread announces its exit, in a word
\* that stays in its frame, or none does; FUTEX_REQUEUE names two words.
OneWord ==
  [t \in Tasks |-> IF t = CHOOSE u \in Tasks : TRUE
                   THEN CHOOSE a \in Addrs \ CowWords : TRUE ELSE NoAddr]
NoWords == [t \in Tasks |-> NoAddr]
Distinct == {ab \in Addrs \X Addrs : ab[1] # ab[2]}

\* Without clear_child_tid words nothing tells threads or addresses apart.
Symmetry == Permutations(Tasks) \cup Permutations(Addrs)
=============================================================================
