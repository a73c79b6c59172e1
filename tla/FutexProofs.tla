---------------------------- MODULE FutexProofs -----------------------------
(***************************************************************************)
(* TaskManager and Futex for any set of threads, words, values and         *)
(* durations.  A task's status always says in which queue it is, and a     *)
(* zombie is never scheduled again; every step of a blocking call is one   *)
(* of the scheduler's; a sleeping thread is where what it waits for looks  *)
(* for it; and no thread is woken by what it does not wait for as long as  *)
(* no wait is left before its wake-up.                                     *)
(***************************************************************************)
EXTENDS Futex, QueueLemmas

\* A leaf that cites no prover is first order.
USE Zenon

-----------------------------------------------------------------------------
\* TaskManager by itself.

IInv == TMTypeOK /\ StatusMatchesQueues

LEMMA InitIInv == TMInit => IInv
  BY EmptyElements, NoTaskAssumption, SMT
  DEF TMInit, IInv, TMTypeOK, StatusMatchesQueues, HasStatus, TaskStatus, NoTCB

\* A task enters ready_queue: it was not Ready, and is now.
LEMMA EnterReady ==
  ASSUME IInv, NEW t \in Tasks, status[t] # "Ready",
         status' = [status EXCEPT ![t] = "Ready"],
         ready_queue' = Append(ready_queue, t)
  PROVE  /\ ready_queue' \in Seq(Tasks)
         /\ status' \in [Tasks -> TaskStatus \cup {NoTCB}]
         /\ IsInjective(ready_queue')
         /\ Range(ready_queue') = HasStatus("Ready")'
<1>1. status \in [Tasks -> TaskStatus \cup {NoTCB}] /\ ready_queue \in Seq(Tasks)
  BY DEF IInv, TMTypeOK
<1>2. t \notin Range(ready_queue) /\ IsInjective(ready_queue)
  BY DEF IInv, StatusMatchesQueues, HasStatus
<1>3. /\ ready_queue' \in Seq(Tasks)
      /\ Range(ready_queue') = Range(ready_queue) \cup {t}
      /\ IsInjective(ready_queue')
  BY <1>1, <1>2, PushElements, PushInjective, SMT
<1>4. HasStatus("Ready")' = HasStatus("Ready") \cup {t}
  BY <1>1 DEF HasStatus
<1>5. status' \in [Tasks -> TaskStatus \cup {NoTCB}]
  BY <1>1 DEF TaskStatus
<1> QED
  BY <1>3, <1>4, <1>5 DEF IInv, StatusMatchesQueues

LEMMA AddTaskKeeps ==
  ASSUME IInv, NEW t \in Tasks, add_task(t)
  PROVE  IInv'
<1>1. status[t] # "Ready" /\ status[t] # "Running" /\ status[t] # "Interruptible"
  BY DEF add_task, NoTCB
<1>2. \A u \in Tasks : status'[u] = IF u = t THEN "Ready" ELSE status[u]
  BY DEF add_task, IInv, TMTypeOK
<1>3. /\ ready_queue' \in Seq(Tasks)
      /\ status' \in [Tasks -> TaskStatus \cup {NoTCB}]
      /\ IsInjective(ready_queue')
      /\ Range(ready_queue') = HasStatus("Ready")'
  BY <1>1, EnterReady DEF add_task
<1> QED
  BY <1>1, <1>2, <1>3 DEF add_task, IInv, TMTypeOK, StatusMatchesQueues

LEMMA RunTasksKeeps ==
  ASSUME IInv, run_tasks
  PROVE  IInv'
<1> DEFINE t == Head(ready_queue)
<1>1. status \in [Tasks -> TaskStatus \cup {NoTCB}] /\ ready_queue \in Seq(Tasks)
  BY DEF IInv, TMTypeOK
<1>2. /\ ready_queue' \in Seq(Tasks) /\ t \in Tasks
      /\ t \in Range(ready_queue)
      /\ Range(ready_queue) = Range(ready_queue') \cup {t}
      /\ IsInjective(ready_queue') /\ t \notin Range(ready_queue')
  BY <1>1, PopFrontElements DEF run_tasks, IInv, StatusMatchesQueues
<1>3. status[t] = "Ready"
  BY <1>2 DEF IInv, StatusMatchesQueues, HasStatus
<1>4. \A u \in Tasks : status'[u] = IF u = t THEN "Running" ELSE status[u]
  BY <1>1 DEF run_tasks
<1>5. HasStatus("Ready")' = HasStatus("Ready") \ {t}
  BY <1>4 DEF HasStatus
<1>6. Range(ready_queue') = HasStatus("Ready")'
  BY <1>2, <1>5 DEF IInv, StatusMatchesQueues
<1>7. \A u \in Tasks : status[u] # "Running"
  BY NoTaskAssumption DEF run_tasks, IInv, StatusMatchesQueues
<1>8. TMTypeOK'
  BY <1>1, <1>2 DEF run_tasks, IInv, TMTypeOK, TaskStatus
<1> QED
  BY <1>2, <1>3, <1>4, <1>6, <1>7, <1>8, SMT DEF run_tasks, IInv, StatusMatchesQueues

LEMMA SuspendKeeps ==
  ASSUME IInv, suspend_current_and_run_next
  PROVE  IInv'
<1>1. current \in Tasks /\ status[current] = "Running"
  BY DEF suspend_current_and_run_next, IInv, TMTypeOK, StatusMatchesQueues
<1>2. /\ ready_queue' \in Seq(Tasks)
      /\ status' \in [Tasks -> TaskStatus \cup {NoTCB}]
      /\ IsInjective(ready_queue')
      /\ Range(ready_queue') = HasStatus("Ready")'
  BY <1>1, EnterReady DEF suspend_current_and_run_next
<1>3. \A u \in Tasks : status'[u] = IF u = current THEN "Ready" ELSE status[u]
  BY DEF suspend_current_and_run_next, IInv, TMTypeOK
<1>4. current' = NoTask /\ \A u \in Tasks : status'[u] # "Running"
  BY <1>3, SMT DEF suspend_current_and_run_next, IInv, StatusMatchesQueues
<1> QED
  BY <1>1, <1>2, <1>3, <1>4, NoTaskAssumption
  DEF suspend_current_and_run_next, IInv, TMTypeOK, StatusMatchesQueues

LEMMA BlockKeeps ==
  ASSUME IInv, block_current_and_run_next
  PROVE  IInv'
<1>1. current \in Tasks /\ status[current] = "Running"
  BY DEF block_current_and_run_next, IInv, TMTypeOK, StatusMatchesQueues
<1>2. \A u \in Tasks : status'[u] = IF u = current THEN "Interruptible" ELSE status[u]
  BY DEF block_current_and_run_next, IInv, TMTypeOK
<1>3. \A u \in Tasks : interruptible_queue'[u] =
        IF u = current THEN interruptible_queue[u] + 1 ELSE interruptible_queue[u]
  BY DEF block_current_and_run_next, IInv, TMTypeOK
<1>4. interruptible_queue[current] = 0
  BY <1>1 DEF IInv, StatusMatchesQueues
<1>5. HasStatus("Ready")' = HasStatus("Ready")
  BY <1>1, <1>2 DEF HasStatus
<1>6. TMTypeOK'
  BY <1>1, SMT DEF block_current_and_run_next, IInv, TMTypeOK, TaskStatus
<1>7. current' = NoTask /\ \A u \in Tasks : status'[u] # "Running"
  BY <1>2 DEF block_current_and_run_next, IInv, StatusMatchesQueues
<1>8. \A u \in Tasks : interruptible_queue'[u] =
        IF status'[u] = "Interruptible" THEN 1 ELSE 0
  BY <1>1, <1>2, <1>3, <1>4, SMT DEF IInv, StatusMatchesQueues
<1> QED
  BY <1>5, <1>6, <1>7, <1>8, NoTaskAssumption
  DEF block_current_and_run_next, IInv, StatusMatchesQueues

LEMMA WakeKeeps ==
  ASSUME IInv, NEW t \in Tasks, wake(t)
  PROVE  IInv'
<1>1. status[t] = "Interruptible" /\ t \notin Range(ready_queue)
  BY DEF wake, IInv, StatusMatchesQueues, HasStatus
<1>2. ready_queue' = Append(ready_queue, t)
  BY <1>1 DEF wake, try_wake_interruptible
<1>3. /\ ready_queue' \in Seq(Tasks)
      /\ status' \in [Tasks -> TaskStatus \cup {NoTCB}]
      /\ IsInjective(ready_queue')
      /\ Range(ready_queue') = HasStatus("Ready")'
  BY <1>1, <1>2, EnterReady DEF wake
<1>4. \A u \in Tasks : status'[u] = IF u = t THEN "Ready" ELSE status[u]
  BY DEF wake, IInv, TMTypeOK
<1>5. \A u \in Tasks : interruptible_queue'[u] = IF u = t THEN 0 ELSE interruptible_queue[u]
  BY DEF wake, try_wake_interruptible, IInv, TMTypeOK
<1>6. interruptible_queue' \in [Tasks -> Nat]
  BY DEF wake, try_wake_interruptible, IInv, TMTypeOK
<1> QED
  BY <1>1, <1>3, <1>4, <1>5, <1>6 DEF wake, IInv, TMTypeOK, StatusMatchesQueues

LEMMA ExitKeeps ==
  ASSUME IInv, exit_current_and_run_next
  PROVE  IInv'
<1>1. current \in Tasks /\ status[current] = "Running"
  BY DEF exit_current_and_run_next, IInv, TMTypeOK, StatusMatchesQueues
<1>2. \A u \in Tasks : status'[u] = IF u = current THEN "Zombie" ELSE status[u]
  BY DEF exit_current_and_run_next, IInv, TMTypeOK
<1>3. HasStatus("Ready")' = HasStatus("Ready")
  BY <1>1, <1>2 DEF HasStatus
<1>4. TMTypeOK'
  BY <1>1 DEF exit_current_and_run_next, IInv, TMTypeOK, TaskStatus
<1>5. current' = NoTask /\ \A u \in Tasks : status'[u] # "Running"
  BY <1>2, SMT DEF exit_current_and_run_next, IInv, StatusMatchesQueues
<1> QED
  BY <1>1, <1>2, <1>3, <1>4, <1>5, NoTaskAssumption, SMT
  DEF exit_current_and_run_next, IInv, StatusMatchesQueues

LEMMA ReleaseKeeps ==
  ASSUME IInv, NEW t \in Tasks, release(t)
  PROVE  IInv'
<1>1. \A u \in Tasks : status'[u] = IF u = t THEN NoTCB ELSE status[u]
  BY DEF release, IInv, TMTypeOK
<1>2. HasStatus("Ready")' = HasStatus("Ready")
  BY <1>1, SMT DEF HasStatus, release, NoTCB
<1> QED
  BY <1>1, <1>2 DEF release, IInv, TMTypeOK, StatusMatchesQueues, NoTCB

LEMMA StepKeeps == IInv /\ [TMNext]_tmvars => IInv'
<1> SUFFICES ASSUME IInv, [TMNext]_tmvars PROVE IInv'
  OBVIOUS
<1>1. CASE UNCHANGED tmvars
  BY <1>1 DEF tmvars, IInv, TMTypeOK, StatusMatchesQueues, HasStatus
<1> QED
  BY <1>1, RunTasksKeeps, SuspendKeeps, BlockKeeps, ExitKeeps, AddTaskKeeps,
     WakeKeeps, ReleaseKeeps DEF TMNext

\* The scheduler's state is well typed in every reachable state.
THEOREM TaskManagerTyped == TMSpec => []TMTypeOK
<1>1. IInv => TMTypeOK
  BY DEF IInv
<1> QED
  BY <1>1, InitIInv, StepKeeps, PTL DEF TMSpec

\* The status of a task and the queues never disagree: a Ready task is in
\* ready_queue exactly once, an Interruptible one in interruptible_queue
\* exactly once, the Running one is the processor's, a Zombie is in none.
THEOREM StatusAlwaysMatchesQueues == TMSpec => []StatusMatchesQueues
<1>1. IInv => StatusMatchesQueues
  BY DEF IInv
<1> QED
  BY <1>1, InitIInv, StepKeeps, PTL DEF TMSpec

\* No wake-up, no fetch and no suspension brings an exited task back.
THEOREM ZombiesAreNeverRevived == TMSpec => ZombiesStayDead
<1> DEFINE Dead == \A t \in Tasks : status[t] = "Zombie" => status'[t] \in {"Zombie", NoTCB}
<1>1. IInv /\ [TMNext]_tmvars => [Dead]_tmvars
  <2> SUFFICES ASSUME IInv, TMNext, NEW t \in Tasks, status[t] = "Zombie"
               PROVE  status'[t] \in {"Zombie", NoTCB}
    OBVIOUS
  <2>0. status \in [Tasks -> TaskStatus \cup {NoTCB}] /\ current # t
    BY DEF IInv, TMTypeOK, StatusMatchesQueues
  <2>1. CASE run_tasks
    <3>1. Head(ready_queue) \in Range(ready_queue)
      BY <2>1, PopFrontElements DEF run_tasks, IInv, TMTypeOK
    <3>2. Head(ready_queue) # t
      BY <3>1 DEF IInv, StatusMatchesQueues, HasStatus
    <3> QED
      BY <2>0, <2>1, <3>2 DEF run_tasks
  <2>2. CASE suspend_current_and_run_next \/ block_current_and_run_next
             \/ exit_current_and_run_next
    BY <2>0, <2>2 DEF suspend_current_and_run_next, block_current_and_run_next,
                      exit_current_and_run_next
  <2>3. ASSUME NEW u \in Tasks, add_task(u) \/ wake(u) \/ release(u)
        PROVE  status'[t] \in {"Zombie", NoTCB}
    BY <2>0, <2>3 DEF add_task, wake, release, NoTCB
  <2> QED
    BY <2>1, <2>2, <2>3 DEF TMNext
<1> QED
  BY <1>1, InitIInv, StepKeeps, PTL DEF TMSpec, ZombiesStayDead

-----------------------------------------------------------------------------
\* Futex: the types, and what a loop over a queue knows.

FutexLoops ==
  [kind : {"futex"}, key : Keys, left : Nat,
   after : [op : {"return", "move", "wake"}, addr : Addrs \cup {NoAddr}, n : Nat]]

\* What a wake-up loop does next it does to a futex word.
LoopIsSound == loop.kind = "futex" /\ loop.after.op # "return" => loop.after.addr \in Addrs

FInv == TypeOK /\ StatusMatchesQueues /\ LoopIsSound

\* The kinds of loop are told apart by their field kind.
LEMMA LoopKinds ==
  ASSUME TypeOK
  PROVE  /\ loop.kind = "futex" => loop \in FutexLoops
         /\ loop.kind = "expired" => loop \in [kind : {"expired"}, at : 0..MaxTime]
         /\ loop = NoLoop => loop.kind = "none"
  BY SMT DEF TypeOK, Loops, FutexLoops, NoLoop

\* A loop over a futex queue, as a value.
LEMMA FutexLoopIs ==
  ASSUME NEW k \in Keys, NEW n \in Nat, NEW op \in {"return", "move", "wake"},
         NEW b \in Addrs \cup {NoAddr}, NEW m \in Nat, op # "return" => b \in Addrs,
         loop' = FutexLoop(k, n, After(op, b, m))
  PROVE  /\ loop' \in Loops /\ LoopIsSound'
         /\ loop'.kind = "futex" /\ loop'.key = k /\ loop'.after.op = op
         /\ loop'.after.addr = b
  BY DEF FutexLoop, After, Loops, LoopIsSound

LEMMA KeyIsKey ==
  ASSUME TypeOK, NEW a \in Addrs
  PROVE  Key(a) \in Keys /\ Key(a)[1] = a /\ Key(a)[2] = frame[a]
  BY DEF TypeOK, Key, Keys

\* The queue a loop is at: its head is a thread.
LEMMA HeadIsTask ==
  ASSUME TypeOK, loop.kind = "futex", futex[loop.key] # <<>>
  PROVE  /\ loop.key \in Keys /\ futex[loop.key] \in Seq(Tasks)
         /\ Head(futex[loop.key]) \in Tasks
         /\ Head(futex[loop.key]) \in Range(futex[loop.key])
         /\ Tail(futex[loop.key]) \in Seq(Tasks)
         /\ Range(futex[loop.key]) =
              Range(Tail(futex[loop.key])) \cup {Head(futex[loop.key])}
<1>1. loop.key \in Keys /\ futex[loop.key] \in Seq(Tasks)
  BY LoopKinds DEF FutexLoops, TypeOK
<1> QED
  BY <1>1, PopFrontElements, SMT

-----------------------------------------------------------------------------
\* Every step is one of the scheduler's, or leaves it alone.

LEMMA StepIsScheduler ==
  ASSUME TypeOK, Next
  PROVE  TMNext \/ UNCHANGED tmvars
<1>1. CASE Tick \/ IdleLoop \/ WakeSecond \/ WakeDone
  BY <1>1 DEF Tick, IdleLoop, WakeSecond, WakeDone
<1>2. CASE Schedule
  BY <1>2 DEF Schedule, TMNext
<1>3. CASE wake_expired
  <2> PICK w \in Due : wake(w.task) \/ UNCHANGED tmvars
    BY <1>3 DEF wake_expired
  <2>1. w.task \in Tasks
    BY DEF Due, TypeOK
  <2> QED
    BY <2>1 DEF TMNext
<1>4. CASE ExpiredDone
  BY <1>4 DEF ExpiredDone, TMNext
<1>5. CASE wake_at_most
  BY <1>5, HeadIsTask DEF wake_at_most, TMNext
<1>6. ASSUME NEW t \in Tasks, TimerInterrupt(t) \/ Return(t)
      PROVE  TMNext \/ UNCHANGED tmvars
  BY <1>6 DEF TimerInterrupt, Return
<1>7. ASSUME NEW t \in Tasks, NEW a \in Addrs,
             StoreAfterFork(t, a) \/ \E v \in Values : Store(t, a, v)
      PROVE  TMNext \/ UNCHANGED tmvars
  BY <1>7 DEF StoreAfterFork, Store
<1>8. ASSUME NEW t \in Tasks, Syscall(t)
      PROVE  TMNext \/ UNCHANGED tmvars
  <2>1. CASE FutexWait(t)
    BY <2>1 DEF FutexWait, do_futex_wait, TMNext
  <2>2. CASE \E d \in Durations : sys_nanosleep(t, d) \/ sys_clock_nanosleep(t, d) \/ sigtimedwait(t, d)
    BY <2>2 DEF sys_nanosleep, sys_clock_nanosleep, sigtimedwait, Sleep, TMNext
  <2>3. CASE \E a \in Addrs, n \in WakeCounts : FutexWake(t, a, n)
    BY <2>3 DEF FutexWake
  <2>4. CASE \E ab \in Requeues, n, m \in WakeCounts : FutexRequeue(t, ab[1], ab[2], n, m)
    BY <2>4 DEF FutexRequeue
  <2>5. CASE \E a, b \in Addrs, v \in Values, val \in OpCounts, do_wake2 \in BOOLEAN :
               wake_op(t, a, b, v, val, do_wake2)
    BY <2>5, SMT DEF wake_op
  <2>6. CASE \E u \in Tasks : sys_tkill(t, u)
    BY <2>6 DEF sys_tkill, TMNext
  <2>7. CASE sys_exit(t)
    BY <2>7 DEF sys_exit, TMNext
  <2> QED
    BY <1>8, <2>1, <2>2, <2>3, <2>4, <2>5, <2>6, <2>7 DEF Syscall
<1> QED
  BY <1>1, <1>2, <1>3, <1>4, <1>5, <1>6, <1>7, <1>8 DEF Next

-----------------------------------------------------------------------------
\* The types are kept.

\* What TypeOK says of the variables that are not the scheduler's.
CallsTyped ==
  /\ pc \in [Tasks -> Blocking \cup {"user"}]
  /\ call \in [Tasks -> [addr : Addrs \cup {NoAddr}, end : 0..Forever]]
  /\ now \in 0..MaxTime
  /\ timeouts \subseteq [task : Tasks, timeout : 0..MaxTime]
  /\ futex \in [Keys -> Seq(Tasks)]
  /\ frame \in [Addrs -> {0, 1}]
  /\ word \in [Addrs -> Values]
  /\ sigpending \in [Tasks -> BOOLEAN]
  /\ loop \in Loops
  /\ LoopIsSound

LEMMA FInvIs == FInv <=> IInv /\ CallsTyped
  BY DEF FInv, IInv, CallsTyped, TypeOK

LEMMA LoopsIn ==
  /\ NoLoop \in Loops
  /\ NoLoop.kind = "none"
  /\ \A x \in 0..MaxTime : [kind |-> "expired", at |-> x] \in Loops
  BY DEF Loops, NoLoop

LEMMA ForeverIs == MaxTime \in Nat /\ Forever = MaxTime + 1
  BY FutexAssumption DEF Forever

\* A blocking call of thread t from user mode.
LEMMA BlockTyped ==
  ASSUME FInv, NEW t \in Tasks, NEW c \in Blocking, NEW a \in Addrs \cup {NoAddr},
         NEW end \in 0..Forever,
         call' = [call EXCEPT ![t] = [addr |-> a, end |-> end]],
         pc' = [pc EXCEPT ![t] = c],
         (end # Forever /\ wait_with_timeout(t, end)) \/ UNCHANGED timeouts,
         UNCHANGED <<now, frame, word, sigpending, loop>>,
         futex' \in [Keys -> Seq(Tasks)]
  PROVE  CallsTyped'
<1>1. MaxTime \in Nat /\ Forever = MaxTime + 1
  BY ForeverIs
<1>2. CallsTyped
  BY FInvIs
<1>3. pc' \in [Tasks -> Blocking \cup {"user"}]
  BY <1>2 DEF CallsTyped
<1>4. call' \in [Tasks -> [addr : Addrs \cup {NoAddr}, end : 0..Forever]]
  BY <1>2 DEF CallsTyped
<1>5. timeouts' \subseteq [task : Tasks, timeout : 0..MaxTime]
  BY <1>1, <1>2, SMT DEF CallsTyped, wait_with_timeout
<1> QED
  BY <1>2, <1>3, <1>4, <1>5 DEF CallsTyped, LoopIsSound

LEMMA FutexWaitTyped ==
  ASSUME FInv, NEW t \in Tasks, NEW a \in Addrs, NEW v \in Expected, NEW end \in 0..Forever,
         do_futex_wait(t, a, v, end)
  PROVE  CallsTyped'
<1>1. TypeOK
  BY DEF FInv
<1>2. Key(a) \in Keys /\ futex[Key(a)] \in Seq(Tasks)
  BY <1>1, KeyIsKey DEF TypeOK
<1>3. Append(futex[Key(a)], t) \in Seq(Tasks)
  BY <1>2, PushElements
<1>4. futex' \in [Keys -> Seq(Tasks)]
  BY <1>1, <1>2, <1>3 DEF do_futex_wait, TypeOK
<1> QED
  BY <1>4, BlockTyped DEF do_futex_wait, Blocking

\* The deadline of a timed call fits.
LEMMA EndIsTime ==
  ASSUME TypeOK, NEW d \in Durations, now + d <= MaxTime
  PROVE  now + d \in 0..Forever /\ now + d # Forever /\ now + d \in 0..MaxTime
  BY FutexAssumption, ForeverIs, SMT DEF TypeOK

LEMMA SleepTyped ==
  ASSUME FInv, NEW t \in Tasks, NEW c \in Sleeping, NEW d \in Durations, Sleep(t, c, d)
  PROVE  CallsTyped'
<1>1. TypeOK
  BY DEF FInv
<1>2. now + d \in 0..Forever /\ now + d # Forever
  BY <1>1, EndIsTime DEF Sleep
<1>3. futex' \in [Keys -> Seq(Tasks)]
  BY <1>1 DEF Sleep, TypeOK
<1> DEFINE end == now + d
<1> HIDE DEF end
<1>4. end \in 0..Forever /\ end # Forever
  BY <1>2 DEF end
<1>5. /\ call' = [call EXCEPT ![t] = [addr |-> NoAddr, end |-> end]]
      /\ pc' = [pc EXCEPT ![t] = c] /\ wait_with_timeout(t, end)
      /\ UNCHANGED <<now, frame, word, sigpending, loop>>
  BY DEF Sleep, end
<1> QED
  BY <1>3, <1>4, <1>5, BlockTyped DEF Blocking

-----------------------------------------------------------------------------
\* Futex::requeue().

\* Splitting a queue after its first n entries loses none.
LEMMA SplitElements ==
  ASSUME NEW S, NEW s \in Seq(S), NEW n \in 0..Len(s)
  PROVE  /\ SubSeq(s, 1, n) \in Seq(S) /\ SubSeq(s, n + 1, Len(s)) \in Seq(S)
         /\ Range(s) = Range(SubSeq(s, 1, n)) \cup Range(SubSeq(s, n + 1, Len(s)))
<1>1. Len(s) \in Nat /\ DOMAIN s = 1..Len(s) /\ \A i \in 1..Len(s) : s[i] \in S
  BY SeqIsFunction
<1> DEFINE l == SubSeq(s, 1, n)
           r == SubSeq(s, n + 1, Len(s))
<1>2. /\ l \in Seq(S) /\ Len(l) = n /\ DOMAIN l = 1..n
      /\ \A i \in 1..n : l[i] = s[i]
  BY <1>1, SMT
<1>3. /\ r \in Seq(S) /\ Len(r) = Len(s) - n /\ DOMAIN r = 1..(Len(s) - n)
      /\ \A i \in 1..(Len(s) - n) : r[i] = s[n + i]
  <2> DEFINE m == n + 1
             k == Len(s)
  <2>1. /\ m \in Int /\ k \in Int /\ \A i \in m..k : s[i] \in S
        /\ k - m + 1 = Len(s) - n
    BY <1>1, SMT
  <2> HIDE DEF m, k
  <2>2. /\ SubSeq(s, m, k) \in Seq(S) /\ Len(SubSeq(s, m, k)) = IF m <= k THEN k - m + 1 ELSE 0
        /\ \A i \in 1..(k - m + 1) : SubSeq(s, m, k)[i] = s[m + i - 1]
    BY <2>1, SeqPart, SMT
  <2>3. r = SubSeq(s, m, k)
    BY DEF m, k
  <2> HIDE DEF r
  <2>4. r \in Seq(S) /\ Len(r) = Len(s) - n
    <3>0. n \in Nat /\ n <= k /\ k \in Nat /\ m = n + 1
      BY <1>1, SMT DEF m, k
    <3>1. (IF m <= k THEN k - m + 1 ELSE 0) = k - n
      BY <3>0, SMT
    <3> QED
      BY <2>2, <2>3, <3>1 DEF k
  <2>5. \A i \in 1..(Len(s) - n) : r[i] = s[n + i]
    BY <1>1, <2>1, <2>2, <2>3, SMT DEF m
  <2> QED
    BY <2>4, <2>5, SeqIsFunction
<1> HIDE DEF l, r
<1>4. ASSUME NEW x \in Range(s) PROVE x \in Range(l) \cup Range(r)
  <2> PICK i \in 1..Len(s) : s[i] = x
    BY <1>1 DEF Range
  <2>1. CASE i <= n
    <3>1. i \in DOMAIN l /\ l[i] = x
      BY <1>1, <1>2, <2>1, SMT
    <3> QED
      BY <3>1 DEF Range
  <2>2. CASE i > n
    <3>1. i - n \in DOMAIN r /\ r[i - n] = x
      BY <1>1, <1>3, <2>2, SMT
    <3> QED
      BY <3>1 DEF Range
  <2> QED
    BY <1>1, <2>1, <2>2, SMT
<1>5. ASSUME NEW x \in Range(l) PROVE x \in Range(s)
  <2> PICK i \in 1..n : l[i] = x
    BY <1>2 DEF Range
  <2>1. i \in DOMAIN s /\ s[i] = x
    BY <1>1, <1>2, SMT
  <2> QED
    BY <2>1 DEF Range
<1>6. ASSUME NEW x \in Range(r) PROVE x \in Range(s)
  <2> PICK i \in 1..(Len(s) - n) : r[i] = x
    BY <1>3 DEF Range
  <2>1. n + i \in DOMAIN s /\ s[n + i] = x
    BY <1>1, <1>3, SMT
  <2> QED
    BY <2>1 DEF Range
<1> QED
  BY <1>2, <1>3, <1>4, <1>5, <1>6 DEF l, r

LEMMA JoinElements ==
  ASSUME NEW S, NEW s \in Seq(S), NEW t \in Seq(S)
  PROVE  s \o t \in Seq(S) /\ Range(s \o t) = Range(s) \cup Range(t)
<1>1. /\ Len(s) \in Nat /\ DOMAIN s = 1..Len(s)
      /\ Len(t) \in Nat /\ DOMAIN t = 1..Len(t)
  BY SeqIsFunction
<1>2. /\ s \o t \in Seq(S) /\ Len(s \o t) = Len(s) + Len(t)
      /\ \A i \in 1..(Len(s) + Len(t)) :
            (s \o t)[i] = IF i <= Len(s) THEN s[i] ELSE t[i - Len(s)]
  BY SeqConcat
<1> DEFINE u == s \o t
<1>3. DOMAIN u = 1..(Len(s) + Len(t))
  BY <1>2, SeqIsFunction
<1> HIDE DEF u
<1>4. ASSUME NEW x \in Range(s) PROVE x \in Range(u)
  <2> PICK i \in 1..Len(s) : s[i] = x
    BY <1>1 DEF Range
  <2>1. i \in DOMAIN u /\ u[i] = x
    BY <1>1, <1>2, <1>3, SMT DEF u
  <2> QED
    BY <2>1 DEF Range
<1>5. ASSUME NEW x \in Range(t) PROVE x \in Range(u)
  <2> PICK i \in 1..Len(t) : t[i] = x
    BY <1>1 DEF Range
  <2>1. Len(s) + i \in DOMAIN u /\ u[Len(s) + i] = x
    BY <1>1, <1>2, <1>3, SMT DEF u
  <2> QED
    BY <2>1 DEF Range
<1>6. ASSUME NEW x \in Range(u) PROVE x \in Range(s) \cup Range(t)
  <2> PICK i \in 1..(Len(s) + Len(t)) : u[i] = x
    BY <1>3 DEF Range
  <2>1. CASE i <= Len(s)
    <3>1. i \in DOMAIN s /\ s[i] = x
      BY <1>1, <1>2, <2>1, SMT DEF u
    <3> QED
      BY <3>1 DEF Range
  <2>2. CASE i > Len(s)
    <3>1. i - Len(s) \in DOMAIN t /\ t[i - Len(s)] = x
      BY <1>1, <1>2, <2>2, SMT DEF u
    <3> QED
      BY <3>1 DEF Range
  <2> QED
    BY <1>1, <2>1, <2>2, SMT
<1> QED
  BY <1>2, <1>4, <1>5, <1>6 DEF u

\* Entries of queue k go to queue j, and to no other: none is lost, unless the
\* two queues are the same.
LEMMA MovedIs ==
  ASSUME NEW k \in Keys, NEW j \in Keys, NEW m \in Nat, futex \in [Keys -> Seq(Tasks)]
  PROVE  /\ Moved(k, j, m) \in [Keys -> Seq(Tasks)]
         /\ \A l \in Keys \ {k, j} : Moved(k, j, m)[l] = futex[l]
         /\ k # j => \A t : t \in Range(futex[k]) \/ t \in Range(futex[j]) =>
                             t \in Range(Moved(k, j, m)[k]) \/ t \in Range(Moved(k, j, m)[j])
<1> DEFINE n == IF m < Len(futex[k]) THEN m ELSE Len(futex[k])
           rest == SubSeq(futex[k], n + 1, Len(futex[k]))
           from == IF j = k THEN <<>> ELSE futex[j]
           first == SubSeq(futex[k], 1, n)
           dest == from \o first
           new == IF dest = <<>> THEN (IF j = k THEN rest ELSE futex[j]) ELSE dest
<1>1. futex[k] \in Seq(Tasks) /\ futex[j] \in Seq(Tasks) /\ from \in Seq(Tasks)
  BY SeqIsEmpty
<1>2. n \in 0..Len(futex[k])
  BY <1>1, SeqIsFunction, SMT
<1>3. /\ first \in Seq(Tasks) /\ rest \in Seq(Tasks)
      /\ Range(futex[k]) = Range(first) \cup Range(rest)
  BY <1>1, <1>2, SplitElements
<1>4. dest \in Seq(Tasks) /\ Range(dest) = Range(from) \cup Range(first)
  <2> HIDE DEF from, first
  <2> QED
    BY <1>1, <1>3, JoinElements, SMT
<1>5. Moved(k, j, m) = [futex EXCEPT ![k] = rest, ![j] = IF dest = <<>> THEN @ ELSE dest]
  BY DEF Moved
<1> HIDE DEF n, rest, first, from, dest
<1>6. /\ Moved(k, j, m)[j] = new
      /\ k # j => Moved(k, j, m)[k] = rest
      /\ \A l \in Keys \ {k, j} : Moved(k, j, m)[l] = futex[l]
  BY <1>5, SMT
<1>7. Moved(k, j, m) \in [Keys -> Seq(Tasks)]
  BY <1>1, <1>3, <1>4, <1>5
<1>8. ASSUME k # j
      PROVE  \A t : t \in Range(futex[k]) \/ t \in Range(futex[j]) =>
                     t \in Range(Moved(k, j, m)[k]) \/ t \in Range(Moved(k, j, m)[j])
  <2>1. from = futex[j]
    BY <1>8 DEF from
  <2>2. Range(new) = Range(futex[j]) \cup Range(first)
    <3>1. CASE dest = <<>>
      <4>1. Range(dest) = {}
        BY <3>1, EmptyElements
      <4> QED
        BY <1>4, <1>8, <2>1, <3>1, <4>1
    <3>2. CASE dest # <<>>
      BY <1>4, <2>1, <3>2
    <3> QED
      BY <3>1, <3>2
  <2> HIDE DEF new
  <2> QED
    BY <1>3, <1>6, <1>8, <2>2
<1> QED
  BY <1>6, <1>7, <1>8

-----------------------------------------------------------------------------
LEMMA WakeCallTyped ==
  ASSUME FInv, NEW t \in Tasks,
         \/ \E a \in Addrs, n \in WakeCounts : FutexWake(t, a, n)
         \/ \E ab \in Requeues, n, m \in WakeCounts : FutexRequeue(t, ab[1], ab[2], n, m)
         \/ \E a, b \in Addrs, v \in Values, val \in OpCounts, do_wake2 \in BOOLEAN :
              wake_op(t, a, b, v, val, do_wake2)
  PROVE  CallsTyped'
<1>1. TypeOK /\ CallsTyped
  BY FInvIs DEF FInv
<1>2. WakeCounts \subseteq Nat /\ OpCounts \subseteq Nat /\ Requeues \subseteq Addrs \X Addrs
  BY FutexAssumption
<1>3. ASSUME NEW a \in Addrs, NEW n \in WakeCounts, FutexWake(t, a, n)
      PROVE  CallsTyped'
  <2>1. loop' \in Loops /\ LoopIsSound'
    BY <1>1, <1>2, <1>3, KeyIsKey, FutexLoopIs DEF FutexWake, Nothing
  <2> QED
    BY <1>1, <1>3, <2>1 DEF FutexWake, CallsTyped
<1>4. ASSUME NEW ab \in Requeues, NEW n \in WakeCounts, NEW m \in WakeCounts,
             FutexRequeue(t, ab[1], ab[2], n, m)
      PROVE  CallsTyped'
  <2>1. ab[1] \in Addrs /\ ab[2] \in Addrs
    BY <1>2
  <2>2. loop' \in Loops /\ LoopIsSound'
    BY <1>1, <1>2, <1>4, <2>1, KeyIsKey, FutexLoopIs DEF FutexRequeue
  <2> QED
    BY <1>1, <1>4, <2>2 DEF FutexRequeue, CallsTyped
<1>5. ASSUME NEW a \in Addrs, NEW b \in Addrs, NEW v \in Values, NEW val \in OpCounts,
             NEW do_wake2 \in BOOLEAN, wake_op(t, a, b, v, val, do_wake2)
      PROVE  CallsTyped'
  <2>1. (val \div 65536) % 65536 \in Nat
    BY <1>2, SMT
  <2> DEFINE half == (val \div 65536) % 65536
  <2> HIDE DEF half
  <2>2. loop' = FutexLoop(Key(a), val, After("wake", b, half))
        \/ loop' = FutexLoop(Key(a), val, Nothing)
    BY <1>5, SMT DEF wake_op, half
  <2>3. half \in Nat /\ val \in Nat /\ Key(a) \in Keys
    BY <1>1, <1>2, <2>1, KeyIsKey, SMT DEF half
  <2>4. loop' \in Loops /\ LoopIsSound'
    BY <2>2, <2>3, FutexLoopIs DEF Nothing
  <2>5. word' \in [Addrs -> Values]
    BY <1>1, <1>5, SMT DEF wake_op, CallsTyped
  <2> QED
    BY <1>1, <1>5, <2>4, <2>5, SMT DEF wake_op, CallsTyped
<1> QED
  BY <1>3, <1>4, <1>5

LEMMA ExitTyped ==
  ASSUME FInv, NEW t \in Tasks, sys_exit(t)
  PROVE  CallsTyped'
<1>1. TypeOK /\ CallsTyped
  BY FInvIs DEF FInv
<1>2. CASE ClearTid[t] = NoAddr
  BY <1>1, <1>2 DEF sys_exit, CallsTyped, LoopIsSound
<1>3. CASE ClearTid[t] # NoAddr
  <2>1. ClearTid[t] \in Addrs /\ 0 \in Values
    BY <1>3, FutexAssumption
  <2>2. loop' \in Loops /\ LoopIsSound'
    BY <1>1, <1>3, <2>1, KeyIsKey, FutexLoopIs, SMTT(30) DEF sys_exit, Nothing
  <2>3. word' \in [Addrs -> Values]
    BY <1>1, <1>3, <2>1 DEF sys_exit, CallsTyped
  <2> QED
    BY <1>1, <2>2, <2>3 DEF sys_exit, CallsTyped
<1> QED
  BY <1>2, <1>3

LEMMA LoopTyped ==
  ASSUME FInv, wake_at_most \/ WakeSecond \/ WakeDone \/ wake_expired \/ ExpiredDone
  PROVE  CallsTyped'
<1>1. TypeOK /\ CallsTyped /\ LoopIsSound
  BY FInvIs DEF FInv
<1>2. CASE wake_at_most
  <2>1. /\ loop.kind = "futex" /\ loop.left > 0 /\ futex[loop.key] # <<>>
        /\ futex' = [futex EXCEPT ![loop.key] = Tail(futex[loop.key])]
        /\ loop' = [loop EXCEPT !.left = @ - 1] \/ loop' = loop
        /\ UNCHANGED <<pc, call, now, timeouts, frame, word, sigpending>>
    BY <1>2 DEF wake_at_most
  <2>2. futex' \in [Keys -> Seq(Tasks)]
    BY <1>1, <2>1, HeadIsTask DEF CallsTyped
  <2>3. loop \in FutexLoops
    BY <1>1, <2>1, LoopKinds
  <2>4. loop.left - 1 \in Nat
    BY <2>1, <2>3, SMT DEF FutexLoops
  <2>5. loop' \in FutexLoops /\ loop'.after = loop.after
    BY <2>1, <2>3, <2>4 DEF FutexLoops
  <2>6. loop' \in Loops /\ LoopIsSound'
    BY <1>1, <2>1, <2>5 DEF Loops, FutexLoops, LoopIsSound
  <2> QED
    BY <1>1, <2>1, <2>2, <2>6 DEF CallsTyped
<1>3. CASE WakeSecond
  <2>1. loop \in FutexLoops /\ loop.after.op = "wake" /\ loop.after.addr \in Addrs
    BY <1>1, <1>3, LoopKinds DEF WakeSecond, WakeLoopEnds, LoopIsSound
  <2>2. loop.after.n \in Nat
    BY <2>1 DEF FutexLoops
  <2>3. loop' \in Loops /\ LoopIsSound'
    BY <1>1, <1>3, <2>1, <2>2, KeyIsKey, FutexLoopIs DEF WakeSecond, Nothing
  <2> QED
    BY <1>1, <1>3, <2>3 DEF WakeSecond, CallsTyped
<1>4. CASE WakeDone
  <2>1. loop \in FutexLoops /\ loop.key \in Keys /\ loop.after.n \in Nat
    BY <1>1, <1>4, LoopKinds DEF WakeDone, WakeLoopEnds, FutexLoops
  <2>2. futex' \in [Keys -> Seq(Tasks)]
    <3>1. CASE futex' = futex
      BY <1>1, <3>1 DEF CallsTyped
    <3>2. CASE /\ loop.after.op # "return"
               /\ futex' = Moved(loop.key, Key(loop.after.addr), loop.after.n)
      <4>1. loop.after.addr \in Addrs
        BY <1>1, <1>4, <3>2 DEF WakeDone, WakeLoopEnds, LoopIsSound
      <4>2. Key(loop.after.addr) \in Keys
        BY <1>1, <4>1, KeyIsKey
      <4> QED
        BY <1>1, <2>1, <3>2, <4>2, MovedIs DEF CallsTyped
    <3> QED
      BY <1>4, <3>1, <3>2 DEF WakeDone
  <2>3. sigpending' \in [Tasks -> BOOLEAN]
    BY <1>4 DEF WakeDone
  <2>4. loop' \in Loops /\ LoopIsSound'
    BY <1>4, LoopsIn DEF WakeDone, LoopIsSound
  <2> QED
    BY <1>1, <1>4, <2>2, <2>3, <2>4 DEF WakeDone, CallsTyped
<1>5. CASE wake_expired
  BY <1>1, <1>5 DEF wake_expired, CallsTyped, LoopIsSound
<1>6. CASE ExpiredDone
  BY <1>1, <1>6, LoopsIn DEF ExpiredDone, CallsTyped, LoopIsSound
<1> QED
  BY <1>2, <1>3, <1>4, <1>5, <1>6

LEMMA StepTyped ==
  ASSUME FInv, Next
  PROVE  CallsTyped'
<1>1. TypeOK /\ CallsTyped
  BY FInvIs DEF FInv
<1>2. CASE Tick
  <2>1. now' \in 0..MaxTime
    BY <1>1, <1>2, ForeverIs, SMT DEF Tick, CallsTyped
  <2> QED
    BY <1>1, <1>2, <2>1 DEF Tick, CallsTyped, LoopIsSound
<1>3. CASE Schedule
  <2>1. sigpending' \in [Tasks -> BOOLEAN]
    BY <1>3 DEF Schedule
  <2> QED
    BY <1>1, <1>3, <2>1 DEF Schedule, CallsTyped, LoopIsSound
<1>4. ASSUME do_wake_expired, UNCHANGED <<pc, call, now, timeouts, futex, frame, word, sigpending>>
      PROVE  CallsTyped'
  <2>1. loop' \in Loops /\ loop'.kind = "expired"
    BY <1>1, <1>4, LoopsIn DEF do_wake_expired, CallsTyped
  <2> QED
    BY <1>1, <1>4, <2>1 DEF CallsTyped, LoopIsSound
<1>5. ASSUME NEW t \in Tasks, Return(t) PROVE CallsTyped'
  <2>1. Forever \in 0..Forever
    BY ForeverIs, SMT
  <2>2. call' \in [Tasks -> [addr : Addrs \cup {NoAddr}, end : 0..Forever]]
    BY <1>1, <1>5, <2>1 DEF Return, CallsTyped
  <2>3. pc' \in [Tasks -> Blocking \cup {"user"}] /\ sigpending' \in [Tasks -> BOOLEAN]
    BY <1>1, <1>5 DEF Return, CallsTyped
  <2> QED
    BY <1>1, <1>5, <2>2, <2>3 DEF Return, CallsTyped, LoopIsSound
<1>6. ASSUME NEW t \in Tasks, NEW a \in Addrs, StoreAfterFork(t, a) PROVE CallsTyped'
  <2>1. frame' \in [Addrs -> {0, 1}]
    BY <1>1, <1>6 DEF StoreAfterFork, CallsTyped
  <2> QED
    BY <1>1, <1>6, <2>1 DEF StoreAfterFork, CallsTyped, LoopIsSound
<1>7. ASSUME NEW t \in Tasks, NEW a \in Addrs, NEW v \in Values, Store(t, a, v)
      PROVE  CallsTyped'
  <2>1. word' \in [Addrs -> Values]
    BY <1>1, <1>7 DEF Store, CallsTyped
  <2> QED
    BY <1>1, <1>7, <2>1 DEF Store, CallsTyped, LoopIsSound
<1>8. ASSUME NEW t \in Tasks, Syscall(t) PROVE CallsTyped'
  <2>1. CASE FutexWait(t)
    <3>1. ASSUME NEW a \in Addrs, NEW v \in Expected, do_futex_wait(t, a, v, Forever)
          PROVE  CallsTyped'
      <4>1. Forever \in 0..Forever
        BY ForeverIs, SMT
      <4> QED
        BY <3>1, <4>1, FutexWaitTyped
    <3>2. ASSUME NEW a \in Addrs, NEW v \in Expected, NEW d \in Durations,
                 now + d <= MaxTime, do_futex_wait(t, a, v, now + d)
          PROVE  CallsTyped'
      <4>1. now + d \in 0..Forever
        BY <1>1, <3>2, EndIsTime
      <4> DEFINE end == now + d
      <4> HIDE DEF end
      <4>2. end \in 0..Forever /\ do_futex_wait(t, a, v, end)
        BY <3>2, <4>1 DEF end
      <4> QED
        BY <4>2, FutexWaitTyped
    <3> QED
      BY <2>1, <3>1, <3>2 DEF FutexWait
  <2>2. CASE \E d \in Durations : sys_nanosleep(t, d) \/ sys_clock_nanosleep(t, d) \/ sigtimedwait(t, d)
    BY <2>2, SleepTyped DEF sys_nanosleep, sys_clock_nanosleep, sigtimedwait, Sleeping
  <2>3. ASSUME NEW u \in Tasks, sys_tkill(t, u) PROVE CallsTyped'
    <3>1. sigpending' \in [Tasks -> BOOLEAN]
      BY <1>1, <2>3 DEF sys_tkill, CallsTyped
    <3> QED
      BY <1>1, <2>3, <3>1 DEF sys_tkill, CallsTyped, LoopIsSound
  <2>4. CASE sys_exit(t)
    BY <2>4, ExitTyped
  <2>5. CASE \/ \E a \in Addrs, n \in WakeCounts : FutexWake(t, a, n)
             \/ \E ab \in Requeues, n, m \in WakeCounts : FutexRequeue(t, ab[1], ab[2], n, m)
             \/ \E a, b \in Addrs, v \in Values, val \in OpCounts, do_wake2 \in BOOLEAN :
                  wake_op(t, a, b, v, val, do_wake2)
    BY <2>5, WakeCallTyped
  <2> QED
    BY <1>8, <2>1, <2>2, <2>3, <2>4, <2>5 DEF Syscall
<1>9. CASE wake_at_most \/ WakeSecond \/ WakeDone \/ wake_expired \/ ExpiredDone
  BY <1>9, LoopTyped
<1>10. CASE IdleLoop
  BY <1>4, <1>10 DEF IdleLoop
<1>11. ASSUME NEW t \in Tasks, TimerInterrupt(t) PROVE CallsTyped'
  BY <1>4, <1>11 DEF TimerInterrupt
<1> QED
  BY <1>2, <1>3, <1>5, <1>6, <1>7, <1>8, <1>9, <1>10, <1>11 DEF Next

LEMMA InitFInv == Init => FInv
<1> SUFFICES ASSUME Init PROVE FInv
  OBVIOUS
<1>1. Cardinality(Tasks) \in Nat
  BY FutexAssumption
<1>2. /\ ready_queue \in Seq(Tasks) /\ IsInjective(ready_queue)
      /\ Range(ready_queue) = Tasks
  <2>1. ready_queue \in [1..Cardinality(Tasks) -> Tasks]
    BY DEF Init, Orders
  <2>2. ready_queue \in Seq(Tasks)
    BY <1>1, <2>1, SMT
  <2> QED
    BY <2>2 DEF Init, Orders
<1>3. IInv
  <2>1. TMTypeOK
    BY <1>2 DEF Init, TMTypeOK, TaskStatus
  <2>2. HasStatus("Ready") = Tasks
    BY DEF Init, HasStatus
  <2> QED
    BY <1>2, <2>1, <2>2, NoTaskAssumption DEF Init, IInv, StatusMatchesQueues
<1>4. CallsTyped
  <2>1. Forever \in 0..Forever /\ 0 \in 0..MaxTime
    BY ForeverIs, SMT
  <2>2. call \in [Tasks -> [addr : Addrs \cup {NoAddr}, end : 0..Forever]]
    BY <2>1 DEF Init
  <2>3. futex \in [Keys -> Seq(Tasks)]
    BY SeqIsEmpty DEF Init
  <2> QED
    BY <2>1, <2>2, <2>3, LoopsIn DEF Init, CallsTyped, LoopIsSound
<1> QED
  BY <1>3, <1>4, FInvIs

LEMMA StepFInv == FInv /\ [Next]_vars => FInv'
<1> SUFFICES ASSUME FInv, [Next]_vars PROVE FInv'
  OBVIOUS
<1>1. CASE UNCHANGED vars
  BY <1>1 DEF vars, fvars, tmvars, FInv, TypeOK, TMTypeOK, StatusMatchesQueues, HasStatus,
              LoopIsSound
<1>2. CASE Next
  <2>1. CallsTyped'
    BY <1>2, StepTyped
  <2>2. IInv'
    BY <1>2, StepIsScheduler, StepKeeps DEF FInv, IInv, TypeOK
  <2> QED
    BY <2>1, <2>2 DEF FInv, IInv, CallsTyped, TypeOK
<1> QED
  BY <1>1, <1>2

\* The blocking calls, the wake-ups, the timer interrupt and the idle loop never
\* bring a thread's status and the queues of task/manager.rs out of step: the
\* scheduler's invariant holds for the kernel that makes the calls.
THEOREM BlockingKeepsStatus == Spec => []StatusMatchesQueues
<1>1. FInv => StatusMatchesQueues
  BY DEF FInv
<1> QED
  BY <1>1, InitFInv, StepFInv, PTL DEF Spec

-----------------------------------------------------------------------------
\* A sleeping thread is where what it waits for looks for it.

\* No scheduler action but block_current_and_run_next() puts a task to sleep, and
\* wake() ends a sleep.
LEMMA NotPutToSleep ==
  ASSUME FInv, run_tasks \/ suspend_current_and_run_next \/ exit_current_and_run_next
               \/ (\E u \in Tasks : wake(u)) \/ UNCHANGED tmvars
  PROVE  \A t \in Tasks : status'[t] = "Interruptible" => status[t] = "Interruptible"
<1>1. status \in [Tasks -> TaskStatus \cup {NoTCB}]
  BY DEF FInv, TypeOK, TMTypeOK
<1> QED
  BY <1>1 DEF run_tasks, suspend_current_and_run_next, exit_current_and_run_next, wake, tmvars

LEMMA WokenIsReady ==
  ASSUME FInv, NEW u \in Tasks, wake(u)
  PROVE  status'[u] = "Ready" /\ \A t \in Tasks \ {u} : status'[t] = status[t]
  BY DEF wake, FInv, TypeOK, TMTypeOK

\* Only the running thread goes to sleep.
LEMMA CurrentSleeps ==
  ASSUME FInv, NEW u \in Tasks, InUser(u), block_current_and_run_next
  PROVE  /\ status[u] = "Running" /\ status'[u] = "Interruptible"
         /\ \A t \in Tasks \ {u} : status'[t] = status[t]
  BY DEF InUser, block_current_and_run_next, FInv, TypeOK, TMTypeOK, StatusMatchesQueues

\* No page of a futex word is copied, and FUTEX_REQUEUE names two words.
PlainWords == CowWords = {} /\ \A ab \in Requeues : ab[1] # ab[2]

\* The queues looked at are those of the frames the words are in, and a requeue
\* moves entries to another queue.  NoLostWaiter alone is not inductive: it is
\* the loop under way that takes an entry out, or moves it.
WInv ==
  /\ FInv
  /\ \A a \in Addrs : frame[a] = 0
  /\ loop.kind = "futex" => loop.key[2] = 0
  /\ loop.kind = "futex" /\ loop.after.op = "move" => loop.key[1] # loop.after.addr
  /\ WaitersAreQueued

\* With no page copied, a queue of frame 0 is the queue of a word.
LEMMA WordQueues ==
  ASSUME WInv
  PROVE  /\ \A a \in Addrs : Key(a) \in Keys /\ Key(a)[2] = 0
         /\ \A k \in Keys : k[2] = 0 => \E a \in Addrs : k = Key(a)
<1>1. TypeOK /\ \A a \in Addrs : frame[a] = 0
  BY DEF WInv, FInv
<1>2. \A a \in Addrs : Key(a) = <<a, 0>>
  BY <1>1 DEF Key
<1>3. \A k \in Keys : k[2] = 0 => k[1] \in Addrs /\ k = <<k[1], 0>>
  BY SMT DEF Keys
<1> QED
  BY <1>1, <1>2, <1>3, KeyIsKey, SMT

\* A step after which every sleeper of before is still queued, and that puts
\* nobody else to sleep.
LEMMA StaysQueued ==
  ASSUME WInv, frame' = frame,
         \A t \in Tasks : status'[t] = "Interruptible" =>
            status[t] = "Interruptible" /\ pc'[t] = pc[t] /\ call'[t] = call[t],
         \A t \in Tasks, k \in Keys :
            status'[t] = "Interruptible" /\ k[2] = 0 /\ t \in Range(futex[k]) =>
              \E j \in Keys : j[2] = 0 /\ t \in Range(futex'[j]),
         \A w \in timeouts : status'[w.task] = "Interruptible" => w \in timeouts'
  PROVE  WaitersAreQueued'
<1>1. ASSUME NEW t \in Tasks, status'[t] = "Interruptible", pc'[t] = "futex_wait"
      PROVE  \E a \in Addrs : t \in Range(futex'[<<a, frame'[a]>>])
  <2>1. status[t] = "Interruptible" /\ pc[t] = "futex_wait"
    BY <1>1
  <2>2. PICK a \in Addrs : t \in Range(futex[Key(a)])
    BY <2>1 DEF WInv, WaitersAreQueued, NoLostWaiter, Asleep
  <2>3. PICK j \in Keys : j[2] = 0 /\ t \in Range(futex'[j])
    BY <1>1, <2>2, WordQueues
  <2>4. PICK b \in Addrs : j = Key(b)
    BY <2>3, WordQueues
  <2> QED
    BY <2>3, <2>4 DEF Key
<1>2. ASSUME NEW t \in Tasks, status'[t] = "Interruptible", call'[t].end # Forever
      PROVE  [task |-> t, timeout |-> call'[t].end] \in timeouts'
  <2> DEFINE w == [task |-> t, timeout |-> call[t].end]
  <2>1. w \in timeouts /\ w.task = t
    BY <1>2 DEF WInv, WaitersAreQueued, DeadlineIsQueued, Asleep
  <2> QED
    BY <1>2, <2>1
<1> QED
  BY <1>1, <1>2 DEF WaitersAreQueued, NoLostWaiter, DeadlineIsQueued, Asleep, Key

\* A step that leaves the queues alone.
LEMMA SameQueues ==
  ASSUME WInv, UNCHANGED <<frame, futex, timeouts>>,
         \A t \in Tasks : status'[t] = "Interruptible" =>
            status[t] = "Interruptible" /\ pc'[t] = pc[t] /\ call'[t] = call[t]
  PROVE  WaitersAreQueued'
<1>1. \A t \in Tasks, k \in Keys :
        status'[t] = "Interruptible" /\ k[2] = 0 /\ t \in Range(futex[k]) =>
          \E j \in Keys : j[2] = 0 /\ t \in Range(futex'[j])
  OBVIOUS
<1> QED
  BY <1>1, StaysQueued

\* A thread blocks: it is queued where it says, the others stay queued.
LEMMA BlockQueues ==
  ASSUME WInv, NEW u \in Tasks, InUser(u), block_current_and_run_next,
         NEW c \in Blocking, NEW a \in Addrs \cup {NoAddr}, NEW end \in 0..Forever,
         call' = [call EXCEPT ![u] = [addr |-> a, end |-> end]],
         pc' = [pc EXCEPT ![u] = c],
         IF end = Forever THEN UNCHANGED timeouts ELSE wait_with_timeout(u, end),
         frame' = frame,
         \A k \in Keys : Range(futex[k]) \subseteq Range(futex'[k]),
         c = "futex_wait" => \E b \in Addrs : u \in Range(futex'[Key(b)])
  PROVE  WaitersAreQueued'
<1>1. /\ pc \in [Tasks -> Blocking \cup {"user"}]
      /\ call \in [Tasks -> [addr : Addrs \cup {NoAddr}, end : 0..Forever]]
  BY DEF WInv, FInv, TypeOK
<1>2. \A t \in Tasks \ {u} : status'[t] = status[t] /\ pc'[t] = pc[t] /\ call'[t] = call[t]
  BY <1>1, CurrentSleeps DEF WInv
<1>3. pc'[u] = c /\ call'[u].end = end
  BY <1>1
<1>4. timeouts \subseteq timeouts'
  BY DEF wait_with_timeout
<1>5. ASSUME NEW t \in Tasks, status'[t] = "Interruptible", pc'[t] = "futex_wait"
      PROVE  \E b \in Addrs : t \in Range(futex'[<<b, frame'[b]>>])
  <2>1. CASE t = u
    BY <1>3, <1>5, <2>1 DEF Key
  <2>2. CASE t # u
    <3>1. PICK b \in Addrs : t \in Range(futex[Key(b)])
      BY <1>2, <1>5, <2>2 DEF WInv, WaitersAreQueued, NoLostWaiter, Asleep
    <3> QED
      BY <3>1, WordQueues DEF Key
  <2> QED
    BY <2>1, <2>2
<1>6. ASSUME NEW t \in Tasks, status'[t] = "Interruptible", call'[t].end # Forever
      PROVE  [task |-> t, timeout |-> call'[t].end] \in timeouts'
  <2>1. CASE t = u
    BY <1>3, <1>6, <2>1 DEF wait_with_timeout
  <2>2. CASE t # u
    BY <1>2, <1>4, <1>6, <2>2 DEF WInv, WaitersAreQueued, DeadlineIsQueued, Asleep
  <2> QED
    BY <2>1, <2>2
<1> QED
  BY <1>5, <1>6 DEF WaitersAreQueued, NoLostWaiter, DeadlineIsQueued, Asleep, Key

LEMMA FutexWaitQueues ==
  ASSUME WInv, NEW t \in Tasks, NEW a \in Addrs, NEW v \in Expected, NEW end \in 0..Forever,
         do_futex_wait(t, a, v, end)
  PROVE  WaitersAreQueued'
<1>1. TypeOK /\ Key(a) \in Keys /\ futex[Key(a)] \in Seq(Tasks)
  BY KeyIsKey DEF WInv, FInv, TypeOK
<1>2. /\ Append(futex[Key(a)], t) \in Seq(Tasks)
      /\ Range(Append(futex[Key(a)], t)) = Range(futex[Key(a)]) \cup {t}
  BY <1>1, PushElements, SMT
<1>3. futex' = [futex EXCEPT ![Key(a)] = Append(futex[Key(a)], t)]
  BY DEF do_futex_wait
<1>4. futex \in [Keys -> Seq(Tasks)]
  BY <1>1 DEF TypeOK
<1>5. \A k \in Keys : Range(futex[k]) \subseteq Range(futex'[k])
  BY <1>2, <1>3, <1>4
<1>6. t \in Range(futex'[Key(a)])
  BY <1>1, <1>2, <1>3, <1>4
<1> QED
  BY <1>5, <1>6, BlockQueues DEF do_futex_wait, Blocking

LEMMA SleepQueues ==
  ASSUME WInv, NEW t \in Tasks, NEW c \in Sleeping, NEW d \in Durations, Sleep(t, c, d)
  PROVE  WaitersAreQueued'
<1>1. now + d \in 0..Forever /\ now + d # Forever
  BY EndIsTime DEF Sleep, WInv, FInv
<1> DEFINE end == now + d
<1> HIDE DEF end
<1>2. end \in 0..Forever /\ end # Forever
  BY <1>1 DEF end
<1>3. /\ call' = [call EXCEPT ![t] = [addr |-> NoAddr, end |-> end]]
      /\ pc' = [pc EXCEPT ![t] = c] /\ wait_with_timeout(t, end)
      /\ InUser(t) /\ block_current_and_run_next /\ frame' = frame /\ futex' = futex
  BY DEF Sleep, end
<1>4. c \in Blocking /\ c # "futex_wait"
  BY DEF Blocking, Sleeping
<1> QED
  BY <1>2, <1>3, <1>4, BlockQueues

\* wake_at_most() takes a thread out of a queue: it wakes it, unless it was not
\* asleep.
LEMMA WakeAtMostQueues ==
  ASSUME WInv, wake_at_most
  PROVE  WaitersAreQueued'
<1> DEFINE q == futex[loop.key]
           u == Head(q)
<1>1. TypeOK /\ futex \in [Keys -> Seq(Tasks)]
  BY DEF WInv, FInv, TypeOK
<1>2. /\ loop.key \in Keys /\ u \in Tasks /\ q \in Seq(Tasks)
      /\ Range(q) = Range(Tail(q)) \cup {u}
  BY <1>1, HeadIsTask DEF wake_at_most
<1>3. /\ futex' = [futex EXCEPT ![loop.key] = Tail(q)]
      /\ wake(u) \/ (status[u] # "Interruptible" /\ UNCHANGED tmvars)
      /\ UNCHANGED <<pc, call, timeouts, frame>>
  BY DEF wake_at_most
<1> HIDE DEF q, u
<1>4. /\ status'[u] # "Interruptible"
      /\ \A t \in Tasks : status'[t] = "Interruptible" => status[t] = "Interruptible"
  BY <1>2, <1>3, WokenIsReady, NotPutToSleep DEF WInv, tmvars
<1>5. ASSUME NEW t \in Tasks, NEW k \in Keys, status'[t] = "Interruptible",
             k[2] = 0, t \in Range(futex[k])
      PROVE  t \in Range(futex'[k])
  BY <1>1, <1>2, <1>3, <1>4, <1>5 DEF q
<1> QED
  BY <1>3, <1>4, <1>5, StaysQueued

\* wake_expired() pops a waiter: it wakes its thread, unless that was not asleep.
LEMMA WakeExpiredQueues ==
  ASSUME WInv, wake_expired
  PROVE  WaitersAreQueued'
<1> PICK w \in Due : /\ timeouts' = timeouts \ {w}
                     /\ wake(w.task) \/ (status[w.task] # "Interruptible" /\ UNCHANGED tmvars)
  BY DEF wake_expired
<1>1. w.task \in Tasks
  BY DEF Due, WInv, FInv, TypeOK
<1>2. /\ status'[w.task] # "Interruptible"
      /\ \A t \in Tasks : status'[t] = "Interruptible" => status[t] = "Interruptible"
  BY <1>1, WokenIsReady, NotPutToSleep DEF WInv, tmvars
<1>3. UNCHANGED <<pc, call, futex, frame>>
  BY DEF wake_expired
<1>4. \A x \in timeouts : status'[x.task] = "Interruptible" => x \in timeouts'
  BY <1>2
<1>5. \A t \in Tasks, k \in Keys :
        status'[t] = "Interruptible" /\ k[2] = 0 /\ t \in Range(futex[k]) =>
          \E j \in Keys : j[2] = 0 /\ t \in Range(futex'[j])
  BY <1>3
<1> QED
  BY <1>2, <1>3, <1>4, <1>5, StaysQueued

\* requeue() moves entries to the queue of another word.
LEMMA WakeDoneQueues ==
  ASSUME WInv, WakeDone
  PROVE  WaitersAreQueued'
<1>1. TypeOK /\ LoopIsSound /\ futex \in [Keys -> Seq(Tasks)]
  BY DEF WInv, FInv, TypeOK
<1>2. UNCHANGED <<tmvars, pc, call, timeouts, frame>>
  BY DEF WakeDone
<1>3. CASE futex' = futex
  BY <1>2, <1>3, SameQueues DEF tmvars
<1>4. CASE /\ loop.after.op # "return"
           /\ futex' = Moved(loop.key, Key(loop.after.addr), loop.after.n)
  <2> DEFINE k == loop.key
             j == Key(loop.after.addr)
             m == loop.after.n
  <2>1. /\ loop.kind = "futex" /\ loop \in FutexLoops /\ loop.after.op = "move"
        /\ loop.after.addr \in Addrs
    BY <1>1, <1>4, LoopKinds DEF WakeDone, WakeLoopEnds, FutexLoops, LoopIsSound
  <2>2. k \in Keys /\ m \in Nat /\ j \in Keys /\ j[1] = loop.after.addr
    BY <1>1, <2>1, KeyIsKey DEF FutexLoops
  <2>3. k[2] = 0 /\ j[2] = 0 /\ k # j
    BY <2>1, <2>2, WordQueues DEF WInv
  <2>4. futex' = Moved(k, j, m)
    BY <1>4
  <2> HIDE DEF k, j, m
  <2>5. /\ \A l \in Keys \ {k, j} : futex'[l] = futex[l]
        /\ \A t : t \in Range(futex[k]) \/ t \in Range(futex[j]) =>
                  t \in Range(futex'[k]) \/ t \in Range(futex'[j])
    <3>0. k \in Keys /\ j \in Keys /\ m \in Nat /\ futex \in [Keys -> Seq(Tasks)]
      BY <1>1, <2>2
    <3>1. \A l \in Keys \ {k, j} : Moved(k, j, m)[l] = futex[l]
      BY <3>0, MovedIs
    <3>2. k # j => \A t : t \in Range(futex[k]) \/ t \in Range(futex[j]) =>
                           t \in Range(Moved(k, j, m)[k]) \/ t \in Range(Moved(k, j, m)[j])
      BY <3>0, MovedIs
    <3> QED
      BY <2>3, <2>4, <3>1, <3>2
  <2>6. ASSUME NEW t \in Tasks, NEW l \in Keys, l[2] = 0, t \in Range(futex[l])
        PROVE  \E i \in Keys : i[2] = 0 /\ t \in Range(futex'[i])
    <3>1. CASE l \in {k, j}
      <4>1. t \in Range(futex'[k]) \/ t \in Range(futex'[j])
        BY <2>5, <2>6, <3>1
      <4> QED
        BY <2>2, <2>3, <4>1
    <3>2. CASE l \notin {k, j}
      BY <2>5, <2>6, <3>2
    <3> QED
      BY <3>1, <3>2
  <2>7. \A t \in Tasks : status'[t] = "Interruptible" =>
           status[t] = "Interruptible" /\ pc'[t] = pc[t] /\ call'[t] = call[t]
    BY <1>2 DEF tmvars
  <2> QED
    BY <1>2, <2>6, <2>7, StaysQueued
<1> QED
  BY <1>3, <1>4 DEF WakeDone

\* The running thread, back in user mode, is not asleep.
LEMMA ReturnQueues ==
  ASSUME WInv, NEW u \in Tasks, Return(u)
  PROVE  WaitersAreQueued'
<1>1. /\ pc \in [Tasks -> Blocking \cup {"user"}]
      /\ call \in [Tasks -> [addr : Addrs \cup {NoAddr}, end : 0..Forever]]
  BY DEF WInv, FInv, TypeOK
<1>2. status[u] = "Running"
  BY DEF Return, Resumed, WInv, FInv, StatusMatchesQueues
<1>3. UNCHANGED <<tmvars, timeouts, futex, frame>>
  BY DEF Return
<1>4. \A t \in Tasks : status'[t] = "Interruptible" =>
         status[t] = "Interruptible" /\ pc'[t] = pc[t] /\ call'[t] = call[t]
  BY <1>1, <1>2, <1>3 DEF Return, tmvars
<1> QED
  BY <1>3, <1>4, SameQueues

\* The loop a wake-up call starts is over the queue of a word.
LEMMA LoopStarts ==
  ASSUME WInv, NEW a \in Addrs, NEW n \in Nat, NEW op \in {"return", "move", "wake"},
         NEW b \in Addrs \cup {NoAddr}, NEW m \in Nat, op # "return" => b \in Addrs,
         op = "move" => a # b,
         loop' = FutexLoop(Key(a), n, After(op, b, m))
  PROVE  /\ loop'.kind = "futex" => loop'.key[2] = 0
         /\ loop'.kind = "futex" /\ loop'.after.op = "move" => loop'.key[1] # loop'.after.addr
<1>1. Key(a) \in Keys /\ Key(a)[1] = a /\ Key(a)[2] = 0
  BY KeyIsKey, WordQueues DEF WInv, FInv
<1> QED
  BY <1>1, FutexLoopIs

LEMMA SyscallQueues ==
  ASSUME PlainWords, WInv, NEW t \in Tasks, Syscall(t)
  PROVE  /\ WaitersAreQueued' /\ frame' = frame
         /\ loop'.kind = "futex" => loop'.key[2] = 0
         /\ loop'.kind = "futex" /\ loop'.after.op = "move" => loop'.key[1] # loop'.after.addr
<1> DEFINE Goal == /\ WaitersAreQueued' /\ frame' = frame
                   /\ loop'.kind = "futex" => loop'.key[2] = 0
                   /\ loop'.kind = "futex" /\ loop'.after.op = "move" =>
                        loop'.key[1] # loop'.after.addr
<1> SUFFICES Goal
  OBVIOUS
<1>1. /\ TypeOK /\ FInv
      /\ status \in [Tasks -> TaskStatus \cup {NoTCB}]
  BY DEF WInv, FInv, TypeOK, TMTypeOK
<1>2. loop' = loop /\ frame' = frame /\ WaitersAreQueued' => Goal
  BY DEF WInv
<1>3. ASSUME NEW a \in Addrs, NEW v \in Expected, NEW end \in 0..Forever, do_futex_wait(t, a, v, end)
      PROVE  Goal
  BY <1>2, <1>3, FutexWaitQueues DEF do_futex_wait
<1>4. ASSUME NEW c \in Sleeping, NEW d \in Durations, Sleep(t, c, d)
      PROVE  Goal
  BY <1>2, <1>4, SleepQueues DEF Sleep
<1>5. ASSUME UNCHANGED <<tmvars, pc, call, timeouts, futex, frame>>
      PROVE  WaitersAreQueued' /\ frame' = frame
  BY <1>5, SameQueues DEF tmvars
<1>6. ASSUME NEW a \in Addrs, NEW n \in WakeCounts, FutexWake(t, a, n)
      PROVE  Goal
  <2>1. loop' = FutexLoop(Key(a), n, After("return", NoAddr, 0)) /\ n \in Nat
    BY <1>6, FutexAssumption DEF FutexWake, Nothing
  <2> QED
    BY <1>5, <1>6, <2>1, LoopStarts, SMTT(30) DEF FutexWake
<1>7. ASSUME NEW ab \in Requeues, NEW n \in WakeCounts, NEW m \in WakeCounts,
             FutexRequeue(t, ab[1], ab[2], n, m)
      PROVE  Goal
  <2>1. ab[1] \in Addrs /\ ab[2] \in Addrs /\ n \in Nat /\ m \in Nat /\ ab[1] # ab[2]
    BY <1>7, FutexAssumption DEF PlainWords
  <2>2. loop' = FutexLoop(Key(ab[1]), n, After("move", ab[2], m))
    BY <1>7 DEF FutexRequeue
  <2> QED
    BY <1>5, <1>7, <2>1, <2>2, LoopStarts DEF FutexRequeue
<1>8. ASSUME NEW a \in Addrs, NEW b \in Addrs, NEW v \in Values, NEW val \in OpCounts,
             NEW do_wake2 \in BOOLEAN, wake_op(t, a, b, v, val, do_wake2)
      PROVE  Goal
  <2> DEFINE half == (val \div 65536) % 65536
  <2>1. half \in Nat /\ val \in Nat
    BY FutexAssumption, SMT
  <2> HIDE DEF half
  <2>2. loop' = FutexLoop(Key(a), val, After("wake", b, half))
        \/ loop' = FutexLoop(Key(a), val, After("return", NoAddr, 0))
    BY <1>8, SMT DEF wake_op, half, Nothing
  <2> QED
    BY <1>5, <1>8, <2>1, <2>2, LoopStarts, SMTT(30) DEF wake_op
<1>9. ASSUME NEW u \in Tasks, sys_tkill(t, u)
      PROVE  Goal
  <2>1. UNCHANGED <<pc, call, timeouts, futex, frame, loop>>
    BY <1>9 DEF sys_tkill
  <2>2. \A x \in Tasks : status'[x] = "Interruptible" => status[x] = "Interruptible"
    BY <1>1, <1>9, NotPutToSleep DEF sys_tkill
  <2> QED
    BY <1>2, <2>1, <2>2, SameQueues
<1>10. CASE sys_exit(t)
  <2>1. UNCHANGED <<pc, call, timeouts, futex, frame>>
    BY <1>10 DEF sys_exit
  <2>2. \A x \in Tasks : status'[x] = "Interruptible" => status[x] = "Interruptible"
    BY <1>1, <1>10, NotPutToSleep DEF sys_exit
  <2>3. WaitersAreQueued' /\ frame' = frame
    BY <2>1, <2>2, SameQueues
  <2>4. CASE ClearTid[t] = NoAddr
    BY <1>2, <1>10, <2>3, <2>4 DEF sys_exit
  <2>5. CASE ClearTid[t] # NoAddr
    <3>1. ClearTid[t] \in Addrs
      BY <2>5, FutexAssumption
    <3>2. loop' = FutexLoop(Key(ClearTid[t]), 1, After("return", NoAddr, 0))
      BY <1>10, <2>5 DEF sys_exit, Nothing
    <3> QED
      BY <2>3, <3>1, <3>2, LoopStarts
  <2> QED
    BY <2>4, <2>5
<1>11. CASE FutexWait(t)
  <2>1. Forever \in 0..Forever
    BY ForeverIs, SMT
  <2>2. \A d \in Durations : now + d <= MaxTime => now + d \in 0..Forever
    BY <1>1, EndIsTime
  <2> HIDE DEF Goal
  <2> QED
    BY <1>3, <1>11, <2>1, <2>2 DEF FutexWait
<1>12. CASE \E d \in Durations : sys_nanosleep(t, d) \/ sys_clock_nanosleep(t, d) \/ sigtimedwait(t, d)
  BY <1>4, <1>12 DEF sys_nanosleep, sys_clock_nanosleep, sigtimedwait, Sleeping
<1> HIDE DEF Goal
<1> QED
  BY <1>6, <1>7, <1>8, <1>9, <1>10, <1>11, <1>12 DEF Syscall

LEMMA StepWInv ==
  ASSUME PlainWords
  PROVE  WInv /\ [Next]_vars => WInv'
<1> SUFFICES ASSUME WInv, [Next]_vars PROVE WInv'
  OBVIOUS
<1> DEFINE LoopOk == /\ loop'.kind = "futex" => loop'.key[2] = 0
                     /\ loop'.kind = "futex" /\ loop'.after.op = "move" =>
                          loop'.key[1] # loop'.after.addr
<1>1. FInv' /\ FInv /\ TypeOK
  BY StepFInv DEF WInv, FInv
<1> SUFFICES WaitersAreQueued' /\ frame' = frame /\ LoopOk
  BY <1>1 DEF WInv
<1>2. loop' = loop => LoopOk
  BY DEF WInv
<1>3. ASSUME UNCHANGED <<tmvars, pc, call, timeouts, futex, frame>>
      PROVE  WaitersAreQueued' /\ frame' = frame
  BY <1>3, SameQueues DEF tmvars
<1>4. CASE UNCHANGED vars
  BY <1>2, <1>3, <1>4 DEF vars, fvars
<1>5. CASE Tick
  BY <1>2, <1>3, <1>5 DEF Tick
<1>6. CASE Schedule
  <2>1. \A t \in Tasks : status'[t] = "Interruptible" => status[t] = "Interruptible"
    BY <1>1, <1>6, NotPutToSleep DEF Schedule
  <2> QED
    BY <1>2, <1>6, <2>1, SameQueues DEF Schedule
<1>7. ASSUME do_wake_expired, UNCHANGED <<tmvars, pc, call, timeouts, futex, frame>>
      PROVE  WaitersAreQueued' /\ frame' = frame /\ LoopOk
  BY <1>3, <1>7 DEF do_wake_expired
<1>8. CASE IdleLoop
  BY <1>7, <1>8 DEF IdleLoop
<1>9. ASSUME NEW t \in Tasks, TimerInterrupt(t)
      PROVE  WaitersAreQueued' /\ frame' = frame /\ LoopOk
  BY <1>7, <1>9 DEF TimerInterrupt
<1>10. CASE wake_expired
  BY <1>2, <1>10, WakeExpiredQueues DEF wake_expired
<1>11. CASE ExpiredDone
  <2>1. \A t \in Tasks : status'[t] = "Interruptible" => status[t] = "Interruptible"
    BY <1>1, <1>11, NotPutToSleep DEF ExpiredDone
  <2>2. LoopOk
    BY <1>11, LoopsIn DEF ExpiredDone
  <2> QED
    BY <1>11, <2>1, <2>2, SameQueues DEF ExpiredDone
<1>12. CASE wake_at_most
  <2>1. loop.kind = "futex" /\ loop \in FutexLoops
    BY <1>1, <1>12, LoopKinds DEF wake_at_most
  <2>2. loop' = loop \/ loop' = [loop EXCEPT !.left = loop.left - 1]
    BY <1>12 DEF wake_at_most
  <2>3. loop'.key = loop.key /\ loop'.after = loop.after
    BY <2>1, <2>2 DEF FutexLoops
  <2>4. LoopOk
    BY <2>1, <2>3 DEF WInv
  <2> QED
    BY <1>12, <2>4, WakeAtMostQueues DEF wake_at_most
<1>13. CASE WakeSecond
  <2>1. /\ loop \in FutexLoops /\ loop.after.addr \in Addrs
    BY <1>1, <1>13, LoopKinds DEF WakeSecond, WakeLoopEnds, FInv, LoopIsSound
  <2>2. loop.after.n \in Nat
    BY <2>1 DEF FutexLoops
  <2>3. LoopOk
    BY <1>13, <2>1, <2>2, LoopStarts DEF WakeSecond, Nothing
  <2> QED
    BY <1>3, <1>13, <2>3 DEF WakeSecond
<1>14. CASE WakeDone
  <2>1. LoopOk
    BY <1>14, LoopsIn DEF WakeDone
  <2> QED
    BY <1>14, <2>1, WakeDoneQueues DEF WakeDone
<1>15. ASSUME NEW t \in Tasks, Return(t)
       PROVE  WaitersAreQueued' /\ frame' = frame /\ LoopOk
  BY <1>2, <1>15, ReturnQueues DEF Return
<1>16. ASSUME NEW t \in Tasks, NEW a \in Addrs, NEW v \in Values, Store(t, a, v)
       PROVE  WaitersAreQueued' /\ frame' = frame /\ LoopOk
  BY <1>2, <1>3, <1>16 DEF Store
<1>17. ASSUME NEW t \in Tasks, NEW a \in Addrs PROVE ~StoreAfterFork(t, a)
  BY DEF StoreAfterFork, PlainWords
<1>18. ASSUME NEW t \in Tasks, Syscall(t)
       PROVE  WaitersAreQueued' /\ frame' = frame /\ LoopOk
  BY <1>18, SyscallQueues
<1> HIDE DEF LoopOk
<1> QED
  BY <1>4, <1>5, <1>6, <1>8, <1>9, <1>10, <1>11, <1>12, <1>13, <1>14, <1>15, <1>16,
     <1>17, <1>18 DEF Next

LEMMA InitWInv == Init => WInv
<1> SUFFICES ASSUME Init PROVE WInv
  OBVIOUS
<1>1. FInv
  BY InitFInv
<1>2. \A t \in Tasks : ~Asleep(t)
  BY DEF Init, Asleep
<1>3. loop.kind # "futex"
  BY LoopsIn DEF Init
<1> QED
  BY <1>1, <1>2, <1>3 DEF Init, WInv, WaitersAreQueued, NoLostWaiter, DeadlineIsQueued

\* As long as no page with a futex word is copied after a fork() and no
\* FUTEX_REQUEUE names one word twice, a thread asleep in FUTEX_WAIT is in the
\* queue of a word, and one asleep with a deadline in the timeout queue, whatever
\* wake-ups, time-outs, signals, exits and requeues come between (threads.rs
\* do_futex_wait, wake and requeue, manager.rs wake_at_most and wake_expired).
THEOREM NoWaiterIsLost == ASSUME PlainWords PROVE Spec => []WaitersAreQueued
<1>1. WInv => WaitersAreQueued
  BY DEF WInv
<1>2. WInv /\ [Next]_vars => WInv'
  BY StepWInv
<1> QED
  BY <1>1, <1>2, InitWInv, PTL DEF Spec

-----------------------------------------------------------------------------
\* A wait that ends in any other way than by being woken leaves its entry behind,
\* and a wait with two ways to be woken leaves the other one.  Without them every
\* entry is that of a sleeping thread.

\* No signals, no FUTEX_WAIT with a timeout, no FUTEX_REQUEUE.
WaitsRunOut == Calls \cap {"tkill", "futex_timedwait", "futex_requeue"} = {}

\* An entry in a futex queue, or in the timeout queue, belongs to a sleeper whose
\* call is the one that made it; and a sleeping call that goes on has had its time.
EntriesAreFresh ==
  /\ \A k \in Keys : IsInjective(futex[k])
  /\ \A k, l \in Keys : \A t \in Tasks :
        t \in Range(futex[k]) /\ t \in Range(futex[l]) => k = l
  /\ \A k \in Keys, t \in Tasks : t \in Range(futex[k]) =>
        status[t] = "Interruptible" /\ pc[t] = "futex_wait" /\ call[t].addr = k[1]
  /\ \A t \in Tasks : pc[t] = "futex_wait" => call[t].end = Forever
  /\ \A w \in timeouts : status[w.task] = "Interruptible" /\ call[w.task].end = w.timeout
  /\ \A t \in Tasks : status[t] # "Interruptible" /\ pc[t] \in Sleeping => call[t].end <= now

SInv ==
  /\ FInv
  /\ EntriesAreFresh
  /\ loop.kind = "expired" => loop.at <= now
  /\ loop.kind = "futex" => loop.after.op # "move"

\* The thread that runs next, is suspended or exits is not a sleeper.
LEMMA SameSleepers ==
  ASSUME FInv, run_tasks \/ suspend_current_and_run_next \/ exit_current_and_run_next
               \/ UNCHANGED tmvars
  PROVE  \A t \in Tasks : status'[t] = "Interruptible" <=> status[t] = "Interruptible"
<1>1. /\ status \in [Tasks -> TaskStatus \cup {NoTCB}] /\ ready_queue \in Seq(Tasks)
      /\ current \in Tasks \cup {NoTask}
  BY DEF FInv, TypeOK, TMTypeOK
<1>2. CASE run_tasks
  <2>1. Head(ready_queue) \in Range(ready_queue)
    BY <1>1, <1>2, PopFrontElements DEF run_tasks
  <2>2. Head(ready_queue) \in Tasks /\ status[Head(ready_queue)] = "Ready"
    BY <2>1 DEF FInv, StatusMatchesQueues, HasStatus
  <2> QED
    BY <1>1, <1>2, <2>2 DEF run_tasks
<1>3. CASE suspend_current_and_run_next \/ exit_current_and_run_next
  <2>1. current \in Tasks /\ status[current] = "Running"
    BY <1>1, <1>3 DEF suspend_current_and_run_next, exit_current_and_run_next,
                      FInv, StatusMatchesQueues
  <2> QED
    BY <1>1, <1>3, <2>1 DEF suspend_current_and_run_next, exit_current_and_run_next
<1>4. CASE UNCHANGED tmvars
  BY <1>4 DEF tmvars
<1> QED
  BY <1>2, <1>3, <1>4

\* A step that wakes nobody, puts nobody to sleep and leaves the queues alone.
LEMMA StaysFresh ==
  ASSUME SInv, UNCHANGED <<futex, timeouts>>, now' \in Nat, now <= now',
         \A t \in Tasks : status'[t] = "Interruptible" <=> status[t] = "Interruptible",
         \A t \in Tasks : \/ pc'[t] = pc[t] /\ call'[t] = call[t]
                          \/ status[t] # "Interruptible" /\ pc'[t] = "user"
  PROVE  EntriesAreFresh'
<1>1. TypeOK /\ EntriesAreFresh /\ now \in Nat
  BY SMT DEF SInv, FInv, TypeOK
<1>2. \A w \in timeouts : w.task \in Tasks
  BY <1>1 DEF TypeOK
<1>3. ASSUME NEW k \in Keys, NEW t \in Tasks, t \in Range(futex'[k])
      PROVE  status'[t] = "Interruptible" /\ pc'[t] = "futex_wait" /\ call'[t].addr = k[1]
  BY <1>1, <1>3, SMT DEF EntriesAreFresh
<1>4. \A t \in Tasks : pc'[t] = "futex_wait" => call'[t].end = Forever
  BY <1>1 DEF EntriesAreFresh
<1>5. \A w \in timeouts' : status'[w.task] = "Interruptible" /\ call'[w.task].end = w.timeout
  BY <1>1, <1>2 DEF EntriesAreFresh
<1>6. ASSUME NEW t \in Tasks, status'[t] # "Interruptible", pc'[t] \in Sleeping
      PROVE  call'[t].end <= now'
  <2>1. pc'[t] # "user"
    BY <1>6 DEF Sleeping
  <2>2. call'[t] = call[t] /\ call[t].end <= now
    BY <1>1, <1>6, <2>1 DEF EntriesAreFresh
  <2>3. call[t].end \in Nat
    BY <1>1, ForeverIs, SMT DEF TypeOK
  <2> QED
    BY <1>1, <2>2, <2>3, SMT
<1> QED
  BY <1>1, <1>3, <1>4, <1>5, <1>6 DEF EntriesAreFresh

\* The running thread has no entry anywhere.
LEMMA RunnerHasNoEntry ==
  ASSUME SInv, NEW u \in Tasks, InUser(u)
  PROVE  /\ status[u] = "Running"
         /\ \A k \in Keys : u \notin Range(futex[k])
         /\ \A w \in timeouts : w.task # u
<1>1. status[u] = "Running"
  BY DEF InUser, SInv, FInv, StatusMatchesQueues
<1> QED
  BY <1>1 DEF SInv, EntriesAreFresh

LEMMA FutexWaitFresh ==
  ASSUME SInv, NEW u \in Tasks, NEW a \in Addrs, NEW v \in Expected,
         do_futex_wait(u, a, v, Forever)
  PROVE  EntriesAreFresh'
<1>1. TypeOK /\ FInv /\ EntriesAreFresh /\ Key(a) \in Keys /\ Key(a)[1] = a
  BY KeyIsKey DEF SInv, FInv
<1>2. /\ pc \in [Tasks -> Blocking \cup {"user"}]
      /\ call \in [Tasks -> [addr : Addrs \cup {NoAddr}, end : 0..Forever]]
      /\ futex \in [Keys -> Seq(Tasks)] /\ \A w \in timeouts : w.task \in Tasks
  BY <1>1 DEF TypeOK
<1>3. /\ InUser(u) /\ block_current_and_run_next
      /\ futex' = [futex EXCEPT ![Key(a)] = Append(futex[Key(a)], u)]
      /\ call' = [call EXCEPT ![u] = [addr |-> a, end |-> Forever]]
      /\ pc' = [pc EXCEPT ![u] = "futex_wait"]
      /\ timeouts' = timeouts /\ now' = now
  BY DEF do_futex_wait
<1>4. /\ status[u] = "Running" /\ status'[u] = "Interruptible"
      /\ \A t \in Tasks \ {u} : status'[t] = status[t] /\ pc'[t] = pc[t] /\ call'[t] = call[t]
      /\ pc'[u] = "futex_wait" /\ call'[u].addr = a /\ call'[u].end = Forever
  BY <1>1, <1>2, <1>3, CurrentSleeps
<1>5. /\ \A k \in Keys : u \notin Range(futex[k])
      /\ \A w \in timeouts : w.task # u
  BY <1>3, RunnerHasNoEntry
<1>6. /\ Append(futex[Key(a)], u) \in Seq(Tasks)
      /\ Range(Append(futex[Key(a)], u)) = Range(futex[Key(a)]) \cup {u}
      /\ IsInjective(Append(futex[Key(a)], u))
  BY <1>1, <1>2, <1>5, PushElements, PushInjective, SMT DEF EntriesAreFresh
<1>7. \A k \in Keys : IF k = Key(a) THEN futex'[k] = Append(futex[Key(a)], u)
                                    ELSE futex'[k] = futex[k]
  BY <1>2, <1>3
<1>8. \A k \in Keys : IsInjective(futex'[k])
  BY <1>1, <1>6, <1>7 DEF EntriesAreFresh
<1>9. \A k \in Keys, t \in Tasks : t \in Range(futex'[k]) <=>
         t \in Range(futex[k]) \/ (t = u /\ k = Key(a))
  BY <1>6, <1>7
<1>10. \A k, l \in Keys : \A t \in Tasks :
         t \in Range(futex'[k]) /\ t \in Range(futex'[l]) => k = l
  BY <1>1, <1>5, <1>9, SMT DEF EntriesAreFresh
<1>11. \A k \in Keys, t \in Tasks : t \in Range(futex'[k]) =>
         status'[t] = "Interruptible" /\ pc'[t] = "futex_wait" /\ call'[t].addr = k[1]
  BY <1>1, <1>4, <1>5, <1>9, SMT DEF EntriesAreFresh
<1>12. \A t \in Tasks : pc'[t] = "futex_wait" => call'[t].end = Forever
  BY <1>1, <1>4, SMT DEF EntriesAreFresh
<1>13. \A w \in timeouts' : status'[w.task] = "Interruptible" /\ call'[w.task].end = w.timeout
  BY <1>1, <1>2, <1>3, <1>4, <1>5, SMTT(30) DEF EntriesAreFresh
<1>14. \A t \in Tasks : status'[t] # "Interruptible" /\ pc'[t] \in Sleeping => call'[t].end <= now'
  BY <1>1, <1>3, <1>4, SMTT(30) DEF EntriesAreFresh
<1> QED
  BY <1>8, <1>10, <1>11, <1>12, <1>13, <1>14 DEF EntriesAreFresh

LEMMA SleepFresh ==
  ASSUME SInv, NEW u \in Tasks, NEW c \in Sleeping, NEW d \in Durations, Sleep(u, c, d)
  PROVE  EntriesAreFresh'
<1>1. TypeOK /\ FInv /\ EntriesAreFresh
  BY DEF SInv, FInv
<1>2. /\ pc \in [Tasks -> Blocking \cup {"user"}]
      /\ call \in [Tasks -> [addr : Addrs \cup {NoAddr}, end : 0..Forever]]
      /\ \A w \in timeouts : w.task \in Tasks
  BY <1>1 DEF TypeOK
<1> DEFINE end == now + d
           w0 == [task |-> u, timeout |-> end]
<1>3. w0.task = u /\ w0.timeout = end
  OBVIOUS
<1> HIDE DEF end
<1>4. /\ InUser(u) /\ block_current_and_run_next
      /\ call' = [call EXCEPT ![u] = [addr |-> NoAddr, end |-> end]]
      /\ pc' = [pc EXCEPT ![u] = c]
      /\ timeouts' = timeouts \cup {w0} /\ futex' = futex /\ now' = now
  BY DEF Sleep, end, wait_with_timeout
<1> HIDE DEF w0
<1>5. /\ status[u] = "Running" /\ status'[u] = "Interruptible"
      /\ \A t \in Tasks \ {u} : status'[t] = status[t] /\ pc'[t] = pc[t] /\ call'[t] = call[t]
      /\ pc'[u] = c /\ call'[u].end = end
  BY <1>1, <1>2, <1>4, CurrentSleeps
<1>6. /\ \A k \in Keys : u \notin Range(futex[k])
      /\ \A w \in timeouts : w.task # u
  BY <1>4, RunnerHasNoEntry
<1>7. c # "futex_wait"
  BY DEF Sleeping
<1>8. \A k \in Keys, t \in Tasks : t \in Range(futex'[k]) =>
         status'[t] = "Interruptible" /\ pc'[t] = "futex_wait" /\ call'[t].addr = k[1]
  BY <1>1, <1>4, <1>5, <1>6, SMT DEF EntriesAreFresh
<1>9. \A t \in Tasks : pc'[t] = "futex_wait" => call'[t].end = Forever
  BY <1>1, <1>5, <1>7, SMTT(30) DEF EntriesAreFresh
<1>10. \A w \in timeouts' : status'[w.task] = "Interruptible" /\ call'[w.task].end = w.timeout
  BY <1>1, <1>2, <1>3, <1>4, <1>5, <1>6, SMT DEF EntriesAreFresh
<1>11. \A t \in Tasks : status'[t] # "Interruptible" /\ pc'[t] \in Sleeping => call'[t].end <= now'
  BY <1>1, <1>4, <1>5, ZenonT(60) DEF EntriesAreFresh
<1> QED
  BY <1>1, <1>4, <1>8, <1>9, <1>10, <1>11 DEF EntriesAreFresh

\* wake_at_most() wakes the sleeper whose entry it takes, which has no other one
\* and no deadline.
LEMMA WakeAtMostFresh ==
  ASSUME SInv, wake_at_most
  PROVE  EntriesAreFresh'
<1> DEFINE q == futex[loop.key]
           u == Head(q)
<1>1. TypeOK /\ FInv /\ EntriesAreFresh /\ futex \in [Keys -> Seq(Tasks)]
  BY DEF SInv, FInv, TypeOK
<1>2. /\ loop.key \in Keys /\ u \in Tasks /\ u \in Range(q) /\ q \in Seq(Tasks) /\ q # <<>>
      /\ Range(q) = Range(Tail(q)) \cup {u}
  BY <1>1, HeadIsTask DEF wake_at_most
<1>3. IsInjective(Tail(q)) /\ u \notin Range(Tail(q))
  BY <1>1, <1>2, PopFrontElements DEF EntriesAreFresh
<1>4. /\ futex' = [futex EXCEPT ![loop.key] = Tail(q)]
      /\ UNCHANGED <<pc, call, timeouts, now>>
  BY DEF wake_at_most
<1>5. status[u] = "Interruptible" /\ pc[u] = "futex_wait" /\ call[u].end = Forever
  <2>1. \A k \in Keys, t \in Tasks : t \in Range(futex[k]) =>
          status[t] = "Interruptible" /\ pc[t] = "futex_wait"
    BY <1>1 DEF EntriesAreFresh
  <2>2. status[u] = "Interruptible" /\ pc[u] = "futex_wait"
    BY <1>2, <2>1
  <2> QED
    BY <1>1, <1>2, <2>2 DEF EntriesAreFresh
<1>6. status'[u] = "Ready" /\ \A t \in Tasks \ {u} : status'[t] = status[t]
  BY <1>1, <1>2, <1>5, WokenIsReady DEF wake_at_most
<1> HIDE DEF q, u
<1>7. \A k \in Keys : IF k = loop.key THEN futex'[k] = Tail(q) ELSE futex'[k] = futex[k]
  BY <1>1, <1>4
<1>8. \A k \in Keys, t \in Tasks : t \in Range(futex'[k]) => t \in Range(futex[k]) /\ t # u
  BY <1>1, <1>2, <1>3, <1>7, ZenonT(60) DEF q, EntriesAreFresh
<1>9. \A k \in Keys : IsInjective(futex'[k])
  BY <1>1, <1>3, <1>7 DEF EntriesAreFresh
<1>10. \A w \in timeouts : w.task \in Tasks /\ w.task # u
  <2>1. \A w \in timeouts : w.task \in Tasks /\ w.timeout # Forever
    BY <1>1, ForeverIs, SMT DEF TypeOK
  <2> QED
    BY <1>1, <1>5, <2>1 DEF EntriesAreFresh
<1>11. \A t \in Tasks : status'[t] # "Interruptible" /\ pc'[t] \in Sleeping => call'[t].end <= now'
  <2>1. "futex_wait" \notin Sleeping
    BY DEF Sleeping
  <2> QED
    BY <1>1, <1>4, <1>5, <1>6, <2>1 DEF EntriesAreFresh
<1>12. \A k, l \in Keys : \A t \in Tasks :
         t \in Range(futex'[k]) /\ t \in Range(futex'[l]) => k = l
  BY <1>1, <1>8 DEF EntriesAreFresh
<1>13. \A k \in Keys, t \in Tasks : t \in Range(futex'[k]) =>
         status'[t] = "Interruptible" /\ pc'[t] = "futex_wait" /\ call'[t].addr = k[1]
  BY <1>1, <1>4, <1>6, <1>8, SMT DEF EntriesAreFresh
<1>14. \A w \in timeouts' : status'[w.task] = "Interruptible" /\ call'[w.task].end = w.timeout
  BY <1>1, <1>4, <1>6, <1>10 DEF EntriesAreFresh
<1> QED
  BY <1>1, <1>4, <1>9, <1>11, <1>12, <1>13, <1>14 DEF EntriesAreFresh

\* wake_expired() wakes the sleeper whose waiter it pops: its time has come.
LEMMA WakeExpiredFresh ==
  ASSUME SInv, wake_expired
  PROVE  EntriesAreFresh'
<1>1. TypeOK /\ FInv /\ EntriesAreFresh
  BY DEF SInv, FInv
<1>2. PICK w \in Due : /\ timeouts' = timeouts \ {w}
                       /\ wake(w.task) \/ (status[w.task] # "Interruptible" /\ UNCHANGED tmvars)
  BY DEF wake_expired
<1> DEFINE u == w.task
<1>3. /\ w \in timeouts /\ w \in [task : Tasks, timeout : 0..MaxTime] /\ u \in Tasks
      /\ w.timeout <= loop.at
  BY <1>1, <1>2 DEF Due, TypeOK
<1>4. status[u] = "Interruptible" /\ call[u].end = w.timeout
  BY <1>1, <1>3 DEF EntriesAreFresh
<1>5. status'[u] = "Ready" /\ \A t \in Tasks \ {u} : status'[t] = status[t]
  BY <1>1, <1>2, <1>3, <1>4, WokenIsReady
<1>6. UNCHANGED <<pc, call, now, futex>>
  BY DEF wake_expired
<1>7. pc[u] # "futex_wait" /\ \A k \in Keys : u \notin Range(futex[k])
  <2>1. w.timeout # Forever
    BY <1>3, ForeverIs, SMT
  <2> QED
    BY <1>1, <1>3, <1>4, <2>1 DEF EntriesAreFresh
<1>8. call[u].end <= now
  <2>1. loop.kind = "expired" /\ loop \in [kind : {"expired"}, at : 0..MaxTime] /\ loop.at <= now
    BY <1>1, LoopKinds DEF wake_expired, SInv
  <2>2. loop.at \in Nat /\ now \in Nat /\ w.timeout \in Nat
    BY <1>1, <1>3, <2>1, ForeverIs, SMT DEF TypeOK
  <2> QED
    BY <1>3, <1>4, <2>1, <2>2, SMT
<1>9. \A x \in timeouts' : x.task # u
  <2> SUFFICES ASSUME NEW x \in timeouts, x # w, x.task = u PROVE FALSE
    BY <1>2
  <2>1. x.timeout = w.timeout /\ x \in [task : Tasks, timeout : 0..MaxTime]
    BY <1>1, <1>4 DEF EntriesAreFresh, TypeOK
  <2> QED
    BY <1>3, <2>1, SMT
<1> HIDE DEF u
<1>10. \A x \in timeouts' : status'[x.task] = "Interruptible" /\ call'[x.task].end = x.timeout
  <2>1. \A x \in timeouts' : x \in timeouts /\ x.task \in Tasks
    BY <1>1, <1>2 DEF TypeOK
  <2> QED
    BY <1>1, <1>5, <1>6, <1>9, <2>1 DEF EntriesAreFresh
<1>11. \A k \in Keys, t \in Tasks : t \in Range(futex'[k]) =>
         status'[t] = "Interruptible" /\ pc'[t] = "futex_wait" /\ call'[t].addr = k[1]
  BY <1>1, <1>5, <1>6, <1>7, SMT DEF EntriesAreFresh
<1>12. \A t \in Tasks : status'[t] # "Interruptible" /\ pc'[t] \in Sleeping => call'[t].end <= now'
  BY <1>1, <1>5, <1>6, <1>8 DEF EntriesAreFresh
<1> QED
  BY <1>1, <1>6, <1>10, <1>11, <1>12 DEF EntriesAreFresh

LEMMA SyscallFresh ==
  ASSUME WaitsRunOut, SInv, NEW t \in Tasks, Syscall(t)
  PROVE  /\ EntriesAreFresh' /\ now' = now
         /\ loop' = loop \/ (loop'.kind = "futex" /\ loop'.after.op # "move")
<1> DEFINE Goal == /\ EntriesAreFresh' /\ now' = now
                   /\ loop' = loop \/ (loop'.kind = "futex" /\ loop'.after.op # "move")
<1> SUFFICES Goal
  OBVIOUS
<1>1. TypeOK /\ FInv /\ now \in Nat
  BY SMT DEF SInv, FInv, TypeOK
<1>2. /\ \A a \in Addrs : Key(a) \in Keys
      /\ WakeCounts \subseteq Nat /\ OpCounts \subseteq Nat
  BY <1>1, KeyIsKey, FutexAssumption
<1>3. ASSUME UNCHANGED <<pc, call, now, timeouts, futex>>,
             exit_current_and_run_next \/ UNCHANGED tmvars
      PROVE  EntriesAreFresh'
  BY <1>1, <1>3, SameSleepers, StaysFresh, SMT
<1>4. CASE FutexWait(t)
  BY <1>4, FutexWaitFresh DEF FutexWait, WaitsRunOut, do_futex_wait
<1>5. CASE \E d \in Durations : sys_nanosleep(t, d) \/ sys_clock_nanosleep(t, d) \/ sigtimedwait(t, d)
  BY <1>5, SleepFresh DEF sys_nanosleep, sys_clock_nanosleep, sigtimedwait, Sleeping, Sleep
<1>6. ASSUME NEW a \in Addrs, NEW n \in WakeCounts, FutexWake(t, a, n)
      PROVE  Goal
  <2>1. loop'.kind = "futex" /\ loop'.after.op # "move"
    BY <1>2, <1>6, FutexLoopIs DEF FutexWake, Nothing
  <2> QED
    BY <1>3, <1>6, <2>1 DEF FutexWake
<1>7. ~\E ab \in Requeues, n, m \in WakeCounts : FutexRequeue(t, ab[1], ab[2], n, m)
  BY DEF WaitsRunOut, FutexRequeue
<1>8. ASSUME NEW a \in Addrs, NEW b \in Addrs, NEW v \in Values, NEW val \in OpCounts,
             NEW do_wake2 \in BOOLEAN, wake_op(t, a, b, v, val, do_wake2)
      PROVE  Goal
  <2> DEFINE half == (val \div 65536) % 65536
  <2>1. half \in Nat /\ val \in Nat
    BY <1>2, SMT
  <2> HIDE DEF half
  <2>2. loop' = FutexLoop(Key(a), val, After("wake", b, half))
        \/ loop' = FutexLoop(Key(a), val, After("return", NoAddr, 0))
    BY <1>8, SMT DEF wake_op, half, Nothing
  <2>3. loop'.kind = "futex" /\ loop'.after.op # "move"
    BY <1>2, <2>1, <2>2, FutexLoopIs
  <2> QED
    BY <1>3, <1>8, <2>3, SMTT(30) DEF wake_op
<1>9. ~\E u \in Tasks : sys_tkill(t, u)
  BY DEF WaitsRunOut, sys_tkill
<1>10. CASE sys_exit(t)
  <2>1. EntriesAreFresh' /\ now' = now
    BY <1>3, <1>10 DEF sys_exit
  <2>2. loop' = loop \/ (loop'.kind = "futex" /\ loop'.after.op # "move")
    <3>1. CASE ClearTid[t] # NoAddr
      <4>1. ClearTid[t] \in Addrs
        BY <3>1, FutexAssumption
      <4>2. loop' = FutexLoop(Key(ClearTid[t]), 1, After("return", NoAddr, 0))
        BY <1>10, <3>1 DEF sys_exit, Nothing
      <4> QED
        BY <1>2, <4>1, <4>2, FutexLoopIs
    <3> QED
      BY <1>10, <3>1 DEF sys_exit
  <2> QED
    BY <2>1, <2>2
<1> HIDE DEF Goal
<1> QED
  BY <1>4, <1>5, <1>6, <1>7, <1>8, <1>9, <1>10 DEF Syscall

LEMMA StepSInv ==
  ASSUME WaitsRunOut
  PROVE  SInv /\ [Next]_vars => SInv'
<1> SUFFICES ASSUME SInv, [Next]_vars PROVE SInv'
  OBVIOUS
<1> DEFINE LoopOk == /\ loop'.kind = "expired" => loop'.at <= now'
                     /\ loop'.kind = "futex" => loop'.after.op # "move"
<1>1. FInv' /\ FInv /\ TypeOK
  BY StepFInv DEF SInv, FInv
<1>2. now \in Nat /\ (loop.kind = "expired" => loop.at \in Nat)
  BY <1>1, LoopKinds, SMT DEF TypeOK
<1> SUFFICES EntriesAreFresh' /\ LoopOk
  BY <1>1 DEF SInv
<1>3. loop' = loop /\ now' = now => LoopOk
  BY DEF SInv
<1>4. loop' = NoLoop => LoopOk
  BY LoopsIn
<1>5. ASSUME UNCHANGED <<pc, call, now, timeouts, futex>>,
             run_tasks \/ suspend_current_and_run_next \/ UNCHANGED tmvars
      PROVE  EntriesAreFresh'
  BY <1>1, <1>2, <1>5, SameSleepers, StaysFresh, SMT
<1>6. CASE UNCHANGED vars
  BY <1>3, <1>5, <1>6 DEF vars, fvars
<1>7. CASE Tick
  <2>1. EntriesAreFresh'
    BY <1>1, <1>2, <1>7, SameSleepers, StaysFresh, SMT DEF Tick
  <2>2. LoopOk
    BY <1>2, <1>7, SMT DEF Tick, SInv
  <2> QED
    BY <2>1, <2>2
<1>8. CASE Schedule
  BY <1>3, <1>5, <1>8 DEF Schedule
<1>9. ASSUME do_wake_expired, UNCHANGED <<tmvars, pc, call, now, timeouts, futex>>
      PROVE  EntriesAreFresh' /\ LoopOk
  <2>1. LoopOk
    BY <1>2, <1>9, SMT DEF do_wake_expired
  <2> QED
    BY <1>5, <1>9, <2>1
<1>10. CASE IdleLoop
  BY <1>9, <1>10 DEF IdleLoop
<1>11. ASSUME NEW t \in Tasks, TimerInterrupt(t) PROVE EntriesAreFresh' /\ LoopOk
  BY <1>9, <1>11 DEF TimerInterrupt
<1>12. CASE wake_expired
  BY <1>3, <1>12, WakeExpiredFresh DEF wake_expired
<1>13. CASE ExpiredDone
  BY <1>4, <1>5, <1>13 DEF ExpiredDone
<1>14. CASE wake_at_most
  <2>1. loop.kind = "futex" /\ loop \in FutexLoops
    BY <1>1, <1>14, LoopKinds DEF wake_at_most
  <2>2. loop' = loop \/ loop' = [loop EXCEPT !.left = loop.left - 1]
    BY <1>14 DEF wake_at_most
  <2>3. loop'.kind = loop.kind /\ loop'.after = loop.after
    BY <2>1, <2>2 DEF FutexLoops
  <2>4. LoopOk
    BY <2>1, <2>3 DEF SInv
  <2> QED
    BY <1>14, <2>4, WakeAtMostFresh
<1>15. CASE WakeSecond
  <2>1. loop \in FutexLoops /\ loop.after.addr \in Addrs
    BY <1>1, <1>15, LoopKinds DEF WakeSecond, WakeLoopEnds, FInv, LoopIsSound
  <2>2. loop.after.n \in Nat /\ Key(loop.after.addr) \in Keys
    BY <1>1, <2>1, KeyIsKey DEF FutexLoops
  <2>3. loop'.kind = "futex" /\ loop'.after.op = "return"
    BY <1>15, <2>1, <2>2, FutexLoopIs DEF WakeSecond, Nothing
  <2> QED
    BY <1>5, <1>15, <2>3 DEF WakeSecond
<1>16. CASE WakeDone
  <2>1. loop.kind = "futex" /\ loop \in FutexLoops /\ loop.after.op # "move" /\ loop.after.op # "wake"
    BY <1>1, <1>16, LoopKinds DEF WakeDone, WakeLoopEnds, SInv
  <2>2. futex' = futex
    BY <1>16, <2>1 DEF WakeDone, FutexLoops
  <2> QED
    BY <1>4, <1>5, <1>16, <2>2 DEF WakeDone
<1>17. ASSUME NEW t \in Tasks, Return(t) PROVE EntriesAreFresh' /\ LoopOk
  <2>1. status[t] = "Running"
    BY <1>17 DEF Return, Resumed, SInv, FInv, StatusMatchesQueues
  <2>2. UNCHANGED <<tmvars, futex, timeouts, now, loop>>
    BY <1>17 DEF Return
  <2>3. \A u \in Tasks : \/ pc'[u] = pc[u] /\ call'[u] = call[u]
                         \/ status[u] # "Interruptible" /\ pc'[u] = "user"
    BY <1>1, <1>17, <2>1 DEF Return, TypeOK
  <2>4. \A u \in Tasks : status'[u] = "Interruptible" <=> status[u] = "Interruptible"
    BY <2>2 DEF tmvars
  <2> QED
    BY <1>2, <1>3, <2>2, <2>3, <2>4, StaysFresh, SMT
<1>18. ASSUME NEW t \in Tasks, NEW a \in Addrs,
              StoreAfterFork(t, a) \/ \E v \in Values : Store(t, a, v)
       PROVE  EntriesAreFresh' /\ LoopOk
  BY <1>3, <1>5, <1>18 DEF StoreAfterFork, Store
<1>19. ASSUME NEW t \in Tasks, Syscall(t) PROVE EntriesAreFresh' /\ LoopOk
  BY <1>3, <1>19, SyscallFresh
<1> HIDE DEF LoopOk
<1> QED
  BY <1>6, <1>7, <1>8, <1>10, <1>11, <1>12, <1>13, <1>14, <1>15, <1>16, <1>17, <1>18,
     <1>19 DEF Next

LEMMA InitSInv == Init => SInv
<1> SUFFICES ASSUME Init PROVE SInv
  OBVIOUS
<1>1. FInv /\ loop.kind = "none"
  BY InitFInv, LoopsIn DEF Init
<1>2. \A k \in Keys : IsInjective(futex[k]) /\ Range(futex[k]) = {}
  BY EmptyElements DEF Init
<1>3. \A t \in Tasks : pc[t] = "user"
  BY DEF Init
<1>4. EntriesAreFresh
  BY <1>2, <1>3 DEF Init, EntriesAreFresh, Sleeping
<1> QED
  BY <1>1, <1>4 DEF SInv

\* Where no wait is cut short by a signal, nor has two ways to end, a thread that
\* sleeps for a time sleeps it in full: the assertions of sys_nanosleep and
\* sigtimedwait hold (process.rs:205, signal.rs:676).  With one signal they do not.
THEOREM SleepsAreFull == ASSUME WaitsRunOut PROVE Spec => []SleepsInFull
<1>1. SInv => SleepsInFull
  <2> SUFFICES ASSUME SInv, NEW t \in Tasks, current = t, pc[t] \in Sleeping
               PROVE  call[t].end <= now
    BY DEF SleepsInFull
  <2>1. status[t] = "Running"
    BY DEF SInv, FInv, StatusMatchesQueues
  <2> QED
    BY <2>1 DEF SInv, EntriesAreFresh
<1>2. SInv /\ [Next]_vars => SInv'
  BY StepSInv
<1> QED
  BY <1>1, <1>2, InitSInv, PTL DEF Spec

\* And under the same condition a FUTEX_WAKE, a FUTEX_WAKE_OP or an exit wakes no
\* thread but one that sleeps in FUTEX_WAIT on the word it names (threads.rs,
\* WaitQueue::wake_at_most).
THEOREM WakesAreMeant == ASSUME WaitsRunOut PROVE Spec => WakesOnlyItsWaiters
<1> DEFINE Meant == \A t \in Tasks : loop.kind = "futex" /\ Asleep(t) /\ status'[t] = "Ready" =>
                      pc[t] = "futex_wait" /\ call[t].addr = loop.key[1]
<1>1. SInv /\ [Next]_vars => [Meant]_vars
  <2> SUFFICES ASSUME SInv, Next, NEW t \in Tasks, loop.kind = "futex",
                      status[t] = "Interruptible", status'[t] = "Ready"
               PROVE  pc[t] = "futex_wait" /\ call[t].addr = loop.key[1]
    BY DEF Asleep
  <2>1. loop # NoLoop
    BY LoopsIn
  <2>2. CASE wake_at_most
    <3> DEFINE u == Head(futex[loop.key])
    <3>1. loop.key \in Keys /\ u \in Tasks /\ u \in Range(futex[loop.key])
      BY <2>2, HeadIsTask DEF wake_at_most, SInv, FInv
    <3>2. wake(u) \/ UNCHANGED tmvars
      BY <2>2 DEF wake_at_most
    <3>3. t = u
      BY <3>1, <3>2, WokenIsReady DEF tmvars, SInv
    <3> QED
      BY <3>1, <3>3 DEF SInv, EntriesAreFresh
  <2>3. ASSUME UNCHANGED tmvars PROVE FALSE
    BY <2>3 DEF tmvars
  <2>4. CASE Tick \/ WakeSecond \/ WakeDone
    BY <2>3, <2>4 DEF Tick, WakeSecond, WakeDone
  <2>5. ~Schedule /\ ~IdleLoop /\ ~wake_expired /\ ~ExpiredDone
    BY <2>1 DEF Schedule, IdleLoop, wake_expired, ExpiredDone
  <2>6. ASSUME NEW u \in Tasks
        PROVE  /\ ~TimerInterrupt(u) /\ ~Return(u) /\ ~Syscall(u)
               /\ \A a \in Addrs : ~StoreAfterFork(u, a) /\ \A v \in Values : ~Store(u, a, v)
    <3>1. ~InUser(u)
      BY <2>1 DEF InUser
    <3>2. ~TimerInterrupt(u) /\ ~Return(u)
      BY <2>1, <3>1 DEF TimerInterrupt, Return, Resumed
    <3>3. \A a \in Addrs : ~StoreAfterFork(u, a) /\ \A v \in Values : ~Store(u, a, v)
      BY <2>1, <3>1 DEF StoreAfterFork, Store
    <3>4. ~FutexWait(u) /\ ~sys_exit(u) /\ \A v \in Tasks : ~sys_tkill(u, v)
      BY <3>1 DEF FutexWait, do_futex_wait, sys_exit, sys_tkill
    <3>5. \A d \in Durations : ~sys_nanosleep(u, d) /\ ~sys_clock_nanosleep(u, d) /\ ~sigtimedwait(u, d)
      BY <3>1 DEF sys_nanosleep, sys_clock_nanosleep, sigtimedwait, Sleep
    <3>6. /\ \A a \in Addrs, n \in WakeCounts : ~FutexWake(u, a, n)
          /\ \A ab \in Requeues, n, m \in WakeCounts : ~FutexRequeue(u, ab[1], ab[2], n, m)
      BY <3>1 DEF FutexWake, FutexRequeue
    <3>7. ASSUME NEW a \in Addrs, NEW b \in Addrs, NEW v \in Values, NEW val \in OpCounts,
                 NEW do_wake2 \in BOOLEAN, wake_op(u, a, b, v, val, do_wake2)
          PROVE  FALSE
      BY <3>1, <3>7, SMT DEF wake_op
    <3>8. ~Syscall(u)
      BY <3>4, <3>5, <3>6, <3>7 DEF Syscall
    <3> QED
      BY <3>2, <3>3, <3>8
  <2> QED
    BY <2>2, <2>4, <2>5, <2>6 DEF Next
<1>2. SInv /\ [Next]_vars => SInv'
  BY StepSInv
<1> QED
  BY <1>1, <1>2, InitSInv, PTL DEF Spec, WakesOnlyItsWaiters
=============================================================================
