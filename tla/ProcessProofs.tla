--------------------------- MODULE ProcessProofs ----------------------------
(***************************************************************************)
(* Theorems about the life of processes (Process), for any number of       *)
(* processes and any choice of the calls they make, provided each has one  *)
(* thread and calls setsid only as an only child.  Thread groups are left  *)
(* to TLC: exit_group() of a group whose threads join each other runs one  *)
(* of them after its death.                                                *)
(***************************************************************************)
EXTENDS Process, QueueLemmas

\* A leaf that cites no prover is first order.
USE Zenon

SingleThreaded == "thread" \notin Calls

\* setsid is called by an only child, or not at all.
OnlyChildrenLeave == "setsid_siblings" \notin Calls
NobodyLeaves == "setsid" \notin Calls

\* The task do_exit() works on while it still counts as running.
Leaving == IF exiting.stage \in {"parent", "zombie"} THEN {exiting.task} ELSE {}

OneThread == \A t \in Tasks : tgid[t] = t /\ ~clear_child_tid[t]

Signalled == \A t \in Tasks \ {INITPROC} : status[t] # NoTCB => exit_signal[t]

Queued ==
  /\ IsInjective(ready_queue)
  /\ Range(ready_queue) = HasStatus("Ready")
  /\ \A t \in Tasks : interruptible_queue[t] = IF status[t] = "Interruptible" THEN 1 ELSE 0

Runs == \A t \in Tasks : status[t] = "Running" <=> current = t \/ t \in Leaving

\* do_exit() is never entered for initproc, and exit_group has nobody else to
\* exit; from its third stage on the task is dead, and nobody's child when its
\* block is dropped.
Staged ==
  /\ IF exiting.stage = "idle" THEN exiting = Idle
     ELSE /\ current = NoTask /\ exiting.task \in Tasks \ {INITPROC} /\ exiting.rest = <<>>
          /\ exiting.group \in {NoTask, exiting.task}
  /\ exiting.stage \in {"orphans", "tid", "drop"} => status[exiting.task] = "Zombie"
  /\ exiting.stage = "drop" => Disowned(exiting.task)
  /\ exiting.stage = "collect" =>
       exiting.group = exiting.task /\ status[exiting.task] \in {"Zombie", NoTCB}

\* A task dies on its way to user mode, never inside wait4.
DiesInUser == \A t \in Tasks : status[t] = "Zombie" \/ t \in Leaving => pc[t] = "user"

Rooted == Live(INITPROC) /\ parent[INITPROC] = NoTask

\* The parent is told before its child becomes a zombie.
ToldFirst == exiting.stage = "zombie" /\ parent[exiting.task] # NoTask =>
               status[parent[exiting.task]] # "Interruptible"

\* Stronger than NoMissedExit: it holds during do_exit() as well.
Waits == \A t \in Tasks :
           status[t] = "Interruptible" /\ pc[t] = "wait4" =>
             Dead(t) = {} /\ (NobodyLeaves => Matches(t) # {})

Inv ==
  /\ TypeOK /\ OneThread /\ Signalled /\ Queued /\ Runs /\ Staged /\ DiesInUser /\ Rooted
  /\ FamilyTree /\ ToldFirst /\ Waits

-----------------------------------------------------------------------------
(* The sequences of children and the queue. *)

LEMMA BackwardsElements ==
  ASSUME NEW S, NEW s \in Seq(S)
  PROVE  /\ Backwards(s) \in Seq(S)
         /\ Range(Backwards(s)) = Range(s)
         /\ IsInjective(s) => IsInjective(Backwards(s))
<1>1. Len(s) \in Nat /\ DOMAIN s = 1..Len(s) /\ \A i \in 1..Len(s) : s[i] \in S
  BY SeqIsFunction
<1>2. ASSUME NEW i \in 1..Len(s)
      PROVE  Len(s) + 1 - i \in 1..Len(s) /\ Len(s) + 1 - (Len(s) + 1 - i) = i
  BY <1>1, SMT
<1>3. Backwards(s) = [i \in 1..Len(s) |-> s[Len(s) + 1 - i]]
  BY DEF Backwards
<1>4. /\ DOMAIN Backwards(s) = 1..Len(s)
      /\ \A i \in 1..Len(s) : Backwards(s)[i] = s[Len(s) + 1 - i]
      /\ Backwards(s) \in [1..Len(s) -> S]
  BY <1>1, <1>2, <1>3
<1>5. Backwards(s) \in Seq(S)
  BY <1>1, <1>4, SMT
<1>6. Range(Backwards(s)) = Range(s)
  <2>1. ASSUME NEW i \in 1..Len(s)
        PROVE  s[i] = Backwards(s)[Len(s) + 1 - i] /\ Len(s) + 1 - i \in DOMAIN Backwards(s)
    BY <1>2, <1>4
  <2>2. ASSUME NEW i \in 1..Len(s)
        PROVE  Backwards(s)[i] \in Range(s)
    BY <1>1, <1>2, <1>4 DEF Range
  <2> QED
    BY <1>1, <1>4, <2>1, <2>2, ZenonT(60) DEF Range
<1>7. ASSUME IsInjective(s)
      PROVE  IsInjective(Backwards(s))
  <2>1. SUFFICES ASSUME NEW i \in 1..Len(s), NEW j \in 1..Len(s), Backwards(s)[i] = Backwards(s)[j]
                 PROVE  i = j
    BY <1>4 DEF IsInjective
  <2>2. /\ s[Len(s) + 1 - i] = s[Len(s) + 1 - j]
        /\ Len(s) + 1 - i \in DOMAIN s /\ Len(s) + 1 - j \in DOMAIN s
    BY <1>1, <1>2, <1>4, <2>1
  <2>3. Len(s) + 1 - i = Len(s) + 1 - j
    BY <1>7, <2>2 DEF IsInjective
  <2> QED
    BY <1>1, <2>3, SMT
<1> QED
  BY <1>5, <1>6, <1>7

LEMMA JoinedElements ==
  ASSUME NEW S, NEW s \in Seq(S), NEW r \in Seq(S)
  PROVE  /\ s \o r \in Seq(S)
         /\ Range(s \o r) = Range(s) \cup Range(r)
         /\ IsInjective(s) /\ IsInjective(r) /\ Range(s) \cap Range(r) = {} => IsInjective(s \o r)
<1> DEFINE m == Len(s)
           n == Len(r)
           b == s \o r
<1>1. /\ m \in Nat /\ n \in Nat /\ DOMAIN s = 1..m /\ DOMAIN r = 1..n
      /\ b \in Seq(S) /\ DOMAIN b = 1..(m + n)
      /\ \A k \in 1..(m + n) : b[k] = IF k <= m THEN s[k] ELSE r[k - m]
  BY SeqIsFunction, SeqConcat, SMT
<1>2. b = s \o r
  OBVIOUS
<1> HIDE DEF m, n, b
<1>3. ASSUME NEW k \in 1..m
      PROVE  k \in DOMAIN b /\ b[k] = s[k] /\ s[k] \in Range(s)
  <2>1. k \in DOMAIN b /\ b[k] = s[k] /\ k \in DOMAIN s
    BY <1>1, SMT
  <2> QED
    BY <2>1 DEF Range
<1>4. ASSUME NEW k \in 1..n
      PROVE  m + k \in DOMAIN b /\ b[m + k] = r[k] /\ r[k] \in Range(r)
  <2>1. m + k \in 1..(m + n) /\ ~(m + k <= m) /\ (m + k) - m = k /\ k \in DOMAIN r
    BY <1>1, SMT
  <2>2. b[m + k] = r[k]
    BY <1>1, <2>1
  <2> QED
    BY <1>1, <2>1, <2>2 DEF Range
<1>5. ASSUME NEW k \in 1..(m + n)
      PROVE  \/ k \in 1..m /\ b[k] = s[k]
             \/ k - m \in 1..n /\ b[k] = r[k - m] /\ ~(k \in 1..m)
  BY <1>1, SMT
<1>6. Range(b) = Range(s) \cup Range(r)
  <2>1. ASSUME NEW k \in 1..(m + n)
        PROVE  b[k] \in Range(s) \cup Range(r)
    BY <1>3, <1>4, <1>5
  <2>2. \A x \in Range(s) : x \in Range(b)
    BY <1>1, <1>3 DEF Range
  <2>3. \A x \in Range(r) : x \in Range(b)
    <3>1. ASSUME NEW k \in 1..n
          PROVE  r[k] \in Range(b)
      BY <1>4 DEF Range
    <3> QED
      BY <1>1, <3>1 DEF Range
  <2>4. \A x \in Range(b) : x \in Range(s) \cup Range(r)
    BY <1>1, <2>1 DEF Range
  <2> QED
    BY <2>2, <2>3, <2>4
<1>7. ASSUME IsInjective(s), IsInjective(r), Range(s) \cap Range(r) = {}
      PROVE  IsInjective(b)
  <2>1. SUFFICES ASSUME NEW i \in 1..(m + n), NEW j \in 1..(m + n), b[i] = b[j]
                 PROVE  i = j
    BY <1>1 DEF IsInjective
  <2>2. ASSUME NEW x \in 1..m, NEW y \in 1..n
        PROVE  s[x] # r[y]
    BY <1>3, <1>4, <1>7
  <2>3. CASE i \in 1..m /\ j \in 1..m
    BY <1>1, <1>3, <1>7, <2>1, <2>3 DEF IsInjective
  <2>4. CASE i \notin 1..m /\ j \notin 1..m
    <3>1. i - m \in 1..n /\ j - m \in 1..n /\ r[i - m] = r[j - m]
      BY <1>5, <2>1, <2>4
    <3>2. i - m = j - m
      BY <1>1, <1>7, <3>1 DEF IsInjective
    <3> QED
      BY <1>1, <3>2, SMT
  <2> QED
    BY <1>5, <2>1, <2>2, <2>3, <2>4
<1> QED
  BY <1>1, <1>2, <1>6, <1>7

LEMMA WithoutElements ==
  ASSUME NEW S, NEW s \in Seq(S), NEW i \in DOMAIN s, IsInjective(s)
  PROVE  /\ Without(s, i) \in Seq(S)
         /\ IsInjective(Without(s, i))
         /\ Range(Without(s, i)) = Range(s) \ {s[i]}
<1> DEFINE n == Len(s)
           w == Without(s, i)
<1>1. n \in Nat /\ DOMAIN s = 1..n /\ i \in 1..n /\ \A k \in 1..n : s[k] \in S
  BY SeqIsFunction
<1>2. \A k \in 1..(i - 1) : s[k] \in S
  BY <1>1, SMT
<1>3. \A k \in (i + 1)..n : s[k] \in S
  BY <1>1, SMT
<1>4. w = Without(s, i) /\ n = Len(s)
  OBVIOUS
<1> HIDE DEF n, w
<1> DEFINE before == SubSeq(s, 1, i - 1)
           after == SubSeq(s, i + 1, n)
<1>a. /\ before \in Seq(S) /\ Len(before) = i - 1
      /\ \A k \in 1..(i - 1) : before[k] = s[k]
  <2>1. Len(before) = IF 1 <= i - 1 THEN (i - 1) - 1 + 1 ELSE 0
    BY <1>1, <1>2, SeqPart, SMT
  <2>2. before \in Seq(S) /\ \A k \in 1..((i - 1) - 1 + 1) : before[k] = s[1 + k - 1]
    BY <1>1, <1>2, SeqPart, SMT
  <2> HIDE DEF before
  <2> QED
    BY <1>1, <2>1, <2>2, SMT
<1>b. /\ after \in Seq(S) /\ Len(after) = n - i
      /\ \A k \in 1..(n - i) : after[k] = s[k + i]
  <2>1. Len(after) = IF i + 1 <= n THEN n - (i + 1) + 1 ELSE 0
    BY <1>1, <1>3, SeqPart, SMT
  <2>2. after \in Seq(S) /\ \A k \in 1..(n - (i + 1) + 1) : after[k] = s[(i + 1) + k - 1]
    BY <1>1, <1>3, SeqPart, SMTT(30)
  <2> HIDE DEF before, after
  <2>3. n - (i + 1) + 1 = n - i /\ \A k \in 1..(n - i) : (i + 1) + k - 1 = k + i
    BY <1>1, SMT
  <2>4. Len(after) = n - i
    BY <1>1, <2>1, SMT
  <2> QED
    BY <2>2, <2>3, <2>4
<1>c. w = before \o after
  BY <1>4 DEF Without
<1> HIDE DEF before, after
<1>d. /\ w \in Seq(S) /\ Len(w) = (i - 1) + (n - i)
      /\ \A k \in 1..((i - 1) + (n - i)) : w[k] = IF k <= i - 1 THEN before[k] ELSE after[k - (i - 1)]
  <2>1. /\ before \o after \in Seq(S) /\ Len(before \o after) = Len(before) + Len(after)
        /\ \A k \in 1..(Len(before) + Len(after)) :
             (before \o after)[k] = IF k <= Len(before) THEN before[k] ELSE after[k - Len(before)]
    BY <1>a, <1>b, SeqConcat
  <2>2. Len(before) = i - 1 /\ Len(after) = n - i
    BY <1>a, <1>b
  <2> QED
    BY <1>c, <2>1, <2>2
<1>e. w \in Seq(S) /\ Len(w) = n - 1
  BY <1>1, <1>d, SMT
<1>f. ASSUME NEW k \in 1..(n - 1)
      PROVE  w[k] = IF k < i THEN s[k] ELSE s[k + 1]
  <2>1. w[k] = IF k <= i - 1 THEN before[k] ELSE after[k - (i - 1)]
    BY <1>1, <1>d, SMT
  <2>2. CASE k < i
    BY <1>1, <1>a, <2>1, <2>2, SMT
  <2>3. CASE ~(k < i)
    <3>1. k - (i - 1) \in 1..(n - i) /\ (k - (i - 1)) + i = k + 1 /\ ~(k <= i - 1)
      BY <1>1, <2>3, SMT
    <3> QED
      BY <1>b, <2>1, <2>3, <3>1
  <2> QED
    BY <2>2, <2>3
<1>5. DOMAIN w = 1..(n - 1)
  BY <1>1, <1>e, SMT
<1>7. \A j, k \in 1..n : s[j] = s[k] => j = k
  BY <1>1 DEF IsInjective
<1>8. IsInjective(w)
  BY <1>1, <1>f, <1>5, <1>7, SMT DEF IsInjective
<1>9. Range(w) = Range(s) \ {s[i]}
  <2>1. ASSUME NEW k \in 1..(n - 1)
        PROVE  w[k] \in Range(s) \ {s[i]}
    <3>1. PICK l \in 1..n : l # i /\ w[k] = s[l]
      BY <1>1, <1>f, SMTT(30)
    <3>2. s[l] # s[i] /\ l \in DOMAIN s
      BY <1>1, <1>7, <3>1
    <3> QED
      BY <3>1, <3>2 DEF Range
  <2>2. ASSUME NEW k \in 1..n, k # i
        PROVE  \E l \in 1..(n - 1) : w[l] = s[k]
    <3>1. CASE k < i
      BY <1>1, <1>f, <3>1, SMT
    <3>2. CASE k > i
      <4>1. k - 1 \in 1..(n - 1) /\ ~(k - 1 < i) /\ (k - 1) + 1 = k
        BY <1>1, <3>2, SMT
      <4> QED
        BY <1>f, <4>1
    <3> QED
      BY <1>1, <2>2, <3>1, <3>2, SMT
  <2>3. \A x \in Range(w) : x \in Range(s) \ {s[i]}
    BY <1>5, <2>1 DEF Range
  <2>4. \A x \in Range(s) \ {s[i]} : x \in Range(w)
    BY <1>1, <1>5, <2>2 DEF Range
  <2> QED
    BY <2>3, <2>4
<1> QED
  BY <1>4, <1>e, <1>8, <1>9

\* Filtering the queue by a group that is not in it leaves the queue as it is.
LEMMA PicksEverything ==
  ASSUME NEW S, NEW q \in Seq(S), NEW r \in Picks(q, DOMAIN q), IsInjective(q)
  PROVE  r \in Seq(S) /\ Range(r) = Range(q) /\ IsInjective(r)
<1>1. PICK n \in 0..Len(q) : \E f \in [1..n -> DOMAIN q] :
        Ascending(f) /\ Range(f) = DOMAIN q /\ r = [i \in 1..n |-> q[f[i]]]
  BY DEF Picks
<1>2. PICK f \in [1..n -> DOMAIN q] :
        Ascending(f) /\ Range(f) = DOMAIN q /\ r = [i \in 1..n |-> q[f[i]]]
  BY <1>1
<1>3. Len(q) \in Nat /\ n \in Nat /\ DOMAIN q = 1..Len(q) /\ \A i \in DOMAIN q : q[i] \in S
  BY SeqIsFunction, SMT
<1>4. DOMAIN f = 1..n /\ DOMAIN r = 1..n /\ \A i \in 1..n : f[i] \in DOMAIN q /\ r[i] = q[f[i]]
  BY <1>2
<1>5. r \in [1..n -> S]
  BY <1>2, <1>3, <1>4
<1>6. r \in Seq(S)
  BY <1>3, <1>5, SMT
<1>7. Range(r) = Range(q)
  <2>1. \A i \in 1..n : r[i] \in Range(q)
    BY <1>4 DEF Range
  <2>2. \A k \in DOMAIN q : \E i \in 1..n : f[i] = k
    BY <1>2, <1>4 DEF Range
  <2>3. ASSUME NEW k \in DOMAIN q
        PROVE  q[k] \in Range(r)
    <3>1. PICK i \in 1..n : f[i] = k
      BY <2>2
    <3>2. r[i] = q[k]
      BY <1>4, <3>1
    <3> QED
      BY <1>4, <3>2 DEF Range
  <2>4. \A x \in Range(r) : x \in Range(q)
    BY <1>4, <2>1, ZenonT(60) DEF Range
  <2>5. \A x \in Range(q) : x \in Range(r)
    BY <2>3 DEF Range
  <2> QED
    BY <2>4, <2>5
<1>8. \A i, j \in 1..n : f[i] = f[j] => i = j
  <2>1. \A i, j \in 1..n : i < j => f[i] < f[j]
    BY <1>2, <1>4 DEF Ascending
  <2>2. \A i \in 1..n : f[i] \in Int
    BY <1>3, <1>4, SMT
  <2> QED
    BY <1>3, <2>1, <2>2, SMT
<1>9. IsInjective(r)
  <2>1. \A j, k \in DOMAIN q : q[j] = q[k] => j = k
    BY DEF IsInjective
  <2>2. ASSUME NEW i \in 1..n, NEW j \in 1..n, r[i] = r[j]
        PROVE  i = j
    <3>1. f[i] \in DOMAIN q /\ f[j] \in DOMAIN q /\ q[f[i]] = q[f[j]]
      BY <1>4, <2>2
    <3>2. f[i] = f[j]
      BY <2>1, <3>1
    <3> QED
      BY <1>8, <3>2
  <2> QED
    BY <1>4, <2>2 DEF IsInjective
<1> QED
  BY <1>6, <1>7, <1>9

LEMMA PicksNothing ==
  ASSUME NEW S, NEW q \in Seq(S), NEW r \in Picks(q, {})
  PROVE  r = <<>>
<1>1. PICK n \in 0..Len(q) : \E f \in [1..n -> {}] : r = [i \in 1..n |-> q[f[i]]]
  BY DEF Picks
<1>2. n \in Nat
  BY SeqIsFunction, SMT
<1>3. n = 0
  BY <1>1, <1>2, SMT
<1> QED
  BY <1>1, <1>3, SMT

-----------------------------------------------------------------------------
(* The scheduler's operations keep the queues in step with the statuses. *)

LEMMA Woken ==
  ASSUME TMTypeOK, Queued, NEW u \in Tasks, wake(u)
  PROVE  /\ TMTypeOK' /\ Queued' /\ current' = current
         /\ \A t \in Tasks : status'[t] = IF t = u THEN "Ready" ELSE status[t]
<1>1. u \notin Range(ready_queue)
  BY DEF Queued, HasStatus, wake
<1>2. /\ ready_queue' = Append(ready_queue, u)
      /\ status' = [status EXCEPT ![u] = "Ready"]
      /\ interruptible_queue' = [interruptible_queue EXCEPT ![u] = 0]
      /\ current' = current
  BY <1>1 DEF wake, try_wake_interruptible
<1>3. \A t \in Tasks : status'[t] = IF t = u THEN "Ready" ELSE status[t]
  BY <1>2 DEF TMTypeOK
<1>4. /\ ready_queue' \in Seq(Tasks) /\ IsInjective(ready_queue')
      /\ Range(ready_queue') = Range(ready_queue) \cup {u}
  BY <1>1, <1>2, PushElements, PushInjective, SMT DEF TMTypeOK, Queued
<1>5. TMTypeOK'
  BY <1>2, <1>4 DEF TMTypeOK, TaskStatus
<1>6. Range(ready_queue') = {t \in Tasks : status'[t] = "Ready"}
  BY <1>3, <1>4 DEF Queued, HasStatus
<1>7. \A t \in Tasks : interruptible_queue'[t] = IF status'[t] = "Interruptible" THEN 1 ELSE 0
  BY <1>2, <1>3 DEF TMTypeOK, Queued
<1> QED
  BY <1>2, <1>3, <1>4, <1>5, <1>6, <1>7 DEF Queued, HasStatus

LEMMA WokenOrNot ==
  ASSUME TMTypeOK, Queued, NEW u \in Tasks, WakeIfAsleep(u)
  PROVE  /\ TMTypeOK' /\ Queued' /\ current' = current
         /\ \A t \in Tasks :
              status'[t] = IF t = u /\ status[t] = "Interruptible" THEN "Ready" ELSE status[t]
<1>1. CASE wake(u)
  BY <1>1, Woken DEF wake
<1>2. CASE status[u] # "Interruptible" /\ UNCHANGED tmvars
  BY <1>2 DEF tmvars, TMTypeOK, Queued, HasStatus
<1> QED
  BY <1>1, <1>2 DEF WakeIfAsleep

LEMMA Added ==
  ASSUME TMTypeOK, Queued, NEW c \in Tasks, add_task(c)
  PROVE  /\ TMTypeOK' /\ Queued' /\ current' = current
         /\ \A t \in Tasks : status'[t] = IF t = c THEN "Ready" ELSE status[t]
<1>1. c \notin Range(ready_queue)
  BY DEF Queued, HasStatus, add_task, NoTCB
<1>2. /\ ready_queue' = Append(ready_queue, c)
      /\ status' = [status EXCEPT ![c] = "Ready"]
      /\ interruptible_queue' = interruptible_queue
      /\ current' = current /\ status[c] = NoTCB
  BY DEF add_task
<1>3. \A t \in Tasks : status'[t] = IF t = c THEN "Ready" ELSE status[t]
  BY <1>2 DEF TMTypeOK
<1>4. /\ ready_queue' \in Seq(Tasks) /\ IsInjective(ready_queue')
      /\ Range(ready_queue') = Range(ready_queue) \cup {c}
  BY <1>1, <1>2, PushElements, PushInjective, SMT DEF TMTypeOK, Queued
<1>5. TMTypeOK'
  BY <1>2, <1>4 DEF TMTypeOK, TaskStatus
<1>6. Range(ready_queue') = {t \in Tasks : status'[t] = "Ready"}
  BY <1>3, <1>4 DEF Queued, HasStatus
<1>7. \A t \in Tasks : interruptible_queue'[t] = IF status'[t] = "Interruptible" THEN 1 ELSE 0
  BY <1>2, <1>3, SMT DEF Queued, NoTCB
<1> QED
  BY <1>2, <1>3, <1>4, <1>5, <1>6, <1>7 DEF Queued, HasStatus

LEMMA Fetched ==
  ASSUME TMTypeOK, Queued, run_tasks
  PROVE  /\ TMTypeOK' /\ Queued' /\ current' \in Tasks /\ status[current'] = "Ready"
         /\ \A t \in Tasks : status'[t] = IF t = current' THEN "Running" ELSE status[t]
<1> DEFINE h == Head(ready_queue)
<1>1. ready_queue \in Seq(Tasks) /\ ready_queue # <<>>
  BY DEF run_tasks, TMTypeOK
<1>2. /\ Tail(ready_queue) \in Seq(Tasks) /\ h \in Range(ready_queue) /\ h \in Tasks
      /\ Range(ready_queue) = Range(Tail(ready_queue)) \cup {h}
      /\ IsInjective(Tail(ready_queue)) /\ h \notin Range(Tail(ready_queue))
  BY <1>1, PopFrontElements DEF Queued
<1>3. /\ ready_queue' = Tail(ready_queue) /\ current' = h
      /\ status' = [status EXCEPT ![h] = "Running"]
      /\ interruptible_queue' = interruptible_queue
  BY DEF run_tasks
<1> HIDE DEF h
<1>4. \A t \in Tasks : status'[t] = IF t = h THEN "Running" ELSE status[t]
  BY <1>3 DEF TMTypeOK
<1>5. status[h] = "Ready"
  BY <1>2 DEF Queued, HasStatus
<1>6. TMTypeOK'
  BY <1>2, <1>3 DEF TMTypeOK, TaskStatus
<1>7. Range(ready_queue') = {t \in Tasks : status'[t] = "Ready"}
  BY <1>2, <1>3, <1>4, SMT DEF Queued, HasStatus
<1>8. \A t \in Tasks : interruptible_queue'[t] = IF status'[t] = "Interruptible" THEN 1 ELSE 0
  BY <1>3, <1>4, <1>5, SMT DEF Queued
<1> QED
  BY <1>2, <1>3, <1>4, <1>5, <1>6, <1>7, <1>8 DEF Queued, HasStatus

LEMMA Suspended ==
  ASSUME TMTypeOK, Queued, suspend_current_and_run_next, status[current] = "Running"
  PROVE  /\ TMTypeOK' /\ Queued' /\ current' = NoTask
         /\ \A t \in Tasks : status'[t] = IF t = current THEN "Ready" ELSE status[t]
<1>1. current \in Tasks /\ current \notin Range(ready_queue)
  BY DEF Queued, HasStatus, suspend_current_and_run_next, TMTypeOK
<1>2. /\ ready_queue' = Append(ready_queue, current)
      /\ status' = [status EXCEPT ![current] = "Ready"]
      /\ interruptible_queue' = interruptible_queue /\ current' = NoTask
  BY DEF suspend_current_and_run_next
<1>3. \A t \in Tasks : status'[t] = IF t = current THEN "Ready" ELSE status[t]
  BY <1>2 DEF TMTypeOK
<1>4. /\ ready_queue' \in Seq(Tasks) /\ IsInjective(ready_queue')
      /\ Range(ready_queue') = Range(ready_queue) \cup {current}
  BY <1>1, <1>2, PushElements, PushInjective, SMT DEF TMTypeOK, Queued
<1>5. TMTypeOK'
  BY <1>1, <1>2, <1>4 DEF TMTypeOK, TaskStatus
<1>6. Range(ready_queue') = {t \in Tasks : status'[t] = "Ready"}
  BY <1>1, <1>3, <1>4 DEF Queued, HasStatus
<1>7. \A t \in Tasks : interruptible_queue'[t] = IF status'[t] = "Interruptible" THEN 1 ELSE 0
  BY <1>1, <1>2, <1>3, SMT DEF Queued
<1> QED
  BY <1>2, <1>3, <1>4, <1>5, <1>6, <1>7 DEF Queued, HasStatus

LEMMA Blocked ==
  ASSUME TMTypeOK, Queued, block_current_and_run_next, status[current] = "Running"
  PROVE  /\ TMTypeOK' /\ Queued' /\ current' = NoTask
         /\ \A t \in Tasks : status'[t] = IF t = current THEN "Interruptible" ELSE status[t]
<1>1. current \in Tasks
  BY DEF block_current_and_run_next, TMTypeOK
<1>2. /\ status' = [status EXCEPT ![current] = "Interruptible"]
      /\ interruptible_queue' = [interruptible_queue EXCEPT ![current] = @ + 1]
      /\ ready_queue' = ready_queue /\ current' = NoTask
  BY DEF block_current_and_run_next
<1>3. \A t \in Tasks : status'[t] = IF t = current THEN "Interruptible" ELSE status[t]
  BY <1>2 DEF TMTypeOK
<1>4. interruptible_queue[current] = 0
  BY <1>1 DEF Queued
<1>5. TMTypeOK'
  BY <1>1, <1>2, <1>4, SMT DEF TMTypeOK, TaskStatus
<1>6. Range(ready_queue') = {t \in Tasks : status'[t] = "Ready"}
  BY <1>1, <1>2, <1>3, SMT DEF Queued, HasStatus
<1>7. \A t \in Tasks : interruptible_queue'[t] = IF status'[t] = "Interruptible" THEN 1 ELSE 0
  BY <1>1, <1>2, <1>3, <1>4, SMT DEF Queued, TMTypeOK
<1> QED
  BY <1>2, <1>3, <1>5, <1>6, <1>7 DEF Queued, HasStatus

-----------------------------------------------------------------------------
(* The calls that leave the family alone, made while no do_exit() runs. *)

\* parent and children stay, nobody is created or released, and nobody dies
\* except in do_exit(): the tree stays as it is.
LEMMA FamilyKept ==
  ASSUME FamilyTree, UNCHANGED <<parent, children>>, exiting.stage # "orphans",
         \A t \in Tasks : status'[t] = NoTCB <=> status[t] = NoTCB,
         \A t \in Tasks : Live(t) => Live(t)' \/ (exiting'.task = t /\ exiting'.stage = "orphans"),
         parent \in [Tasks -> Tasks \cup {NoTask}], children \in [Tasks -> Seq(Tasks)]
  PROVE  FamilyTree'
<1>1. \A t \in Tasks : IsInjective(children'[t])
  BY DEF FamilyTree
<1>2. \A t \in Tasks : Range(children[t]) \subseteq Tasks
  BY ElementsIn
<1>3. \A t \in Tasks : \A c \in Range(children'[t]) : parent'[c] = t /\ status'[c] # NoTCB
  BY <1>2 DEF FamilyTree
<1>4. ASSUME NEW c \in Tasks \ {INITPROC}, status'[c] # NoTCB, parent'[c] # NoTask
      PROVE  /\ c \in Range(children'[parent'[c]])
             /\ Live(parent[c])' \/ (exiting'.task = parent'[c] /\ exiting'.stage = "orphans")
  <2>1. parent[c] # NoTask /\ c \in Range(children[parent[c]]) /\ Live(parent[c])
    BY <1>4 DEF FamilyTree, Live
  <2>2. parent[c] \in Tasks /\ parent' = parent /\ children' = children
    BY <2>1
  <2> QED
    BY <2>1, <2>2 DEF Live
<1> QED
  BY <1>1, <1>3, <1>4 DEF FamilyTree

Awake == {"Ready", "Running", "Interruptible"}

LEMMA CallStep ==
  ASSUME Inv, exiting = Idle, UNCHANGED <<tgid, parent, children, exit_signal, exiting>>,
         TMTypeOK', Queued',
         clear_child_tid' = clear_child_tid,
         killed' \in [Tasks -> BOOLEAN],
         pc' \in [Tasks -> Places],
         arg' \in [Tasks -> [pid : Tasks \cup {NoTask}, nohang : BOOLEAN]],
         \A t \in Tasks : status'[t] = status[t] \/ (status[t] \in Awake /\ status'[t] \in Awake),
         \A t \in Tasks : status'[t] = "Running" <=> current' = t,
         \A t \in Tasks : pc'[t] = pc[t] \/ pc'[t] = "user" \/ status[t] \in Awake,
         \A t \in Tasks : status'[t] = "Interruptible" /\ pc'[t] = "wait4" =>
                            Dead(t)' = {} /\ (NobodyLeaves => Matches(t)' # {})
  PROVE  Inv'
<1>1. TypeOK'
  BY DEF Inv, TypeOK
<1>2. OneThread'
  BY DEF Inv, OneThread
<1>3. Idle.stage = "idle" /\ exiting'.stage = "idle" /\ exiting.stage = "idle" /\ exiting' = Idle
  BY DEF Idle
<1>4. \A t \in Tasks : /\ status'[t] = NoTCB <=> status[t] = NoTCB
                       /\ status'[t] = "Zombie" <=> status[t] = "Zombie"
                       /\ Live(t) => Live(t)'
  BY DEF Awake, NoTCB, Live
<1>5. Signalled'
  BY <1>4 DEF Inv, Signalled
<1>6. Runs'
  BY <1>3 DEF Runs, Leaving
<1>7. Staged'
  BY <1>3 DEF Staged
<1>8. DiesInUser'
  <2>1. ASSUME NEW t \in Tasks, status'[t] = "Zombie"
        PROVE  pc'[t] = "user"
    BY <2>1, <1>4 DEF Inv, DiesInUser, Awake
  <2> QED
    BY <1>3, <2>1 DEF DiesInUser, Leaving
<1>9. Rooted'
  BY <1>4, ProcessAssumption DEF Inv, Rooted
<1>10. FamilyTree'
  <2>1. parent \in [Tasks -> Tasks \cup {NoTask}] /\ children \in [Tasks -> Seq(Tasks)] /\ FamilyTree
    BY DEF Inv, TypeOK
  <2> QED
    BY <1>3, <1>4, <2>1, FamilyKept
<1>11. ToldFirst'
  BY <1>3 DEF ToldFirst
<1>12. Waits'
  BY DEF Waits
<1> QED
  BY <1>1, <1>2, <1>5, <1>6, <1>7, <1>8, <1>9, <1>10, <1>11, <1>12 DEF Inv

\* Who waits for children goes on waiting for them when neither they nor the
\* arguments of the call change.
LEMMA StillWaits ==
  ASSUME Inv, NEW t \in Tasks, status[t] = "Interruptible", pc[t] = "wait4",
         children'[t] = children[t], arg'[t] = arg[t],
         \A c \in Tasks : status'[c] = "Zombie" => status[c] = "Zombie"
  PROVE  Dead(t)' = {} /\ (NobodyLeaves => Matches(t)' # {})
<1>1. Matches(t)' = Matches(t) /\ Dead(t) = {} /\ (NobodyLeaves => Matches(t) # {})
  BY DEF Inv, Waits, Matches
<1>2. Matches(t) \subseteq Tasks
  BY ElementsIn DEF Inv, TypeOK, Matches
<1> QED
  BY <1>1, <1>2 DEF Dead

\* The running task, when no do_exit() runs.
LEMMA RunningTask ==
  ASSUME Inv, NEW t \in Tasks, NEW c, Resumed(t, c)
  PROVE  /\ exiting = Idle /\ current = t /\ pc[t] = c /\ status[t] = "Running"
         /\ \A u \in Tasks : status[u] = "Running" <=> u = t
<1>1. Leaving = {}
  BY DEF Resumed, Leaving, Idle
<1> QED
  BY <1>1 DEF Inv, Runs, Resumed

LEMMA ScheduleKeeps ==
  ASSUME Inv, Schedule
  PROVE  Inv'
<1>1. run_tasks /\ exiting = Idle /\ UNCHANGED pvars /\ TMTypeOK /\ Queued
  BY DEF Schedule, Inv, TypeOK
<1>2. /\ TMTypeOK' /\ Queued' /\ current' \in Tasks /\ status[current'] = "Ready"
      /\ \A t \in Tasks : status'[t] = IF t = current' THEN "Running" ELSE status[t]
  BY <1>1, Fetched
<1>3. \A t \in Tasks : status[t] # "Running"
  <2>1. Leaving = {} /\ current = NoTask
    BY <1>1 DEF Leaving, Idle, run_tasks
  <2> QED
    BY <2>1, NoTaskAssumption DEF Inv, Runs
<1>4. \A t \in Tasks : status'[t] = "Running" <=> current' = t
  BY <1>2, <1>3
<1>5. ASSUME NEW t \in Tasks, status'[t] = "Interruptible", pc'[t] = "wait4"
      PROVE  Dead(t)' = {} /\ (NobodyLeaves => Matches(t)' # {})
  <2>1. /\ status[t] = "Interruptible" /\ pc[t] = "wait4" /\ children'[t] = children[t]
        /\ arg'[t] = arg[t] /\ \A c \in Tasks : status'[c] = "Zombie" => status[c] = "Zombie"
    BY <1>1, <1>2, <1>5 DEF pvars
  <2> QED
    BY <2>1, StillWaits
<1>6. \A t \in Tasks : status'[t] = status[t] \/ (status[t] \in Awake /\ status'[t] \in Awake)
  BY <1>2 DEF Awake
<1> QED
  BY <1>1, <1>2, <1>4, <1>5, <1>6, CallStep DEF pvars, Inv, TypeOK

LEMMA TimerKeeps ==
  ASSUME Inv, NEW t \in Tasks, TimerInterrupt(t)
  PROVE  Inv'
<1>1. /\ suspend_current_and_run_next /\ UNCHANGED pvars /\ TMTypeOK /\ Queued
      /\ exiting = Idle /\ current = t /\ status[t] = "Running"
      /\ \A u \in Tasks : status[u] = "Running" <=> u = t
  BY RunningTask DEF TimerInterrupt, InUser, Inv, TypeOK
<1>2. /\ TMTypeOK' /\ Queued' /\ current' = NoTask
      /\ \A u \in Tasks : status'[u] = IF u = t THEN "Ready" ELSE status[u]
  BY <1>1, Suspended
<1>3. \A u \in Tasks : status'[u] = "Running" <=> current' = u
  BY <1>1, <1>2, NoTaskAssumption
<1>4. ASSUME NEW u \in Tasks, status'[u] = "Interruptible", pc'[u] = "wait4"
      PROVE  Dead(u)' = {} /\ (NobodyLeaves => Matches(u)' # {})
  <2>1. /\ status[u] = "Interruptible" /\ pc[u] = "wait4" /\ children'[u] = children[u]
        /\ arg'[u] = arg[u] /\ \A c \in Tasks : status'[c] = "Zombie" => status[c] = "Zombie"
    BY <1>1, <1>2, <1>4 DEF pvars
  <2> QED
    BY <2>1, StillWaits
<1>5. \A u \in Tasks : status'[u] = status[u] \/ (status[u] \in Awake /\ status'[u] \in Awake)
  BY <1>1, <1>2 DEF Awake
<1> QED
  BY <1>1, <1>2, <1>3, <1>4, <1>5, CallStep DEF pvars, Inv, TypeOK

\* wait4() sleeps only when no child it could report is dead.
LEMMA WaitBlockKeeps ==
  ASSUME Inv, NEW t \in Tasks, Wait4Block(t)
  PROVE  Inv'
<1>1. /\ block_current_and_run_next /\ UNCHANGED pvars /\ TMTypeOK /\ Queued
      /\ exiting = Idle /\ current = t /\ status[t] = "Running"
      /\ \A u \in Tasks : status[u] = "Running" <=> u = t
      /\ Matches(t) # {} /\ Dead(t) = {}
  BY RunningTask DEF Wait4Block, Inv, TypeOK
<1>2. /\ TMTypeOK' /\ Queued' /\ current' = NoTask
      /\ \A u \in Tasks : status'[u] = IF u = t THEN "Interruptible" ELSE status[u]
  BY <1>1, Blocked
<1>3. \A u \in Tasks : status'[u] = "Running" <=> current' = u
  BY <1>1, <1>2, NoTaskAssumption
<1>4. \A c \in Tasks : status'[c] = "Zombie" => status[c] = "Zombie"
  BY <1>1, <1>2
<1>5. ASSUME NEW u \in Tasks, status'[u] = "Interruptible", pc'[u] = "wait4"
      PROVE  Dead(u)' = {} /\ (NobodyLeaves => Matches(u)' # {})
  <2>1. CASE u # t
    <3>1. /\ status[u] = "Interruptible" /\ pc[u] = "wait4" /\ children'[u] = children[u]
          /\ arg'[u] = arg[u]
      BY <1>1, <1>2, <1>5, <2>1 DEF pvars
    <3> QED
      BY <1>4, <3>1, StillWaits
  <2>2. CASE u = t
    <3>1. Matches(t)' = Matches(t)
      BY <1>1 DEF pvars, Matches
    <3>2. Matches(t) \subseteq Tasks
      BY ElementsIn DEF Inv, TypeOK, Matches
    <3> QED
      BY <1>1, <1>4, <2>2, <3>1, <3>2 DEF Dead
  <2> QED
    BY <2>1, <2>2
<1>6. \A u \in Tasks : status'[u] = status[u] \/ (status[u] \in Awake /\ status'[u] \in Awake)
  BY <1>1, <1>2 DEF Awake
<1> QED
  BY <1>1, <1>2, <1>3, <1>5, <1>6, CallStep DEF pvars, Inv, TypeOK

\* Join needs a thread whose exit is announced in a word, and there is none.
LEMMA NobodyJoins ==
  ASSUME Inv, NEW t \in Tasks, NEW u \in Tasks
  PROVE  ~Join(t, u)
BY DEF Inv, OneThread, Join

\* The running task gives up the processor inside another call.
LEMMA YieldKeeps ==
  ASSUME Inv, NEW t \in Tasks, NEW c, Resumed(t, c),
         block_current_and_run_next \/ suspend_current_and_run_next,
         UNCHANGED <<tgid, parent, children, exit_signal, clear_child_tid, killed, arg, exiting>>,
         NEW d \in {"sleep", "loop"}, pc' = [pc EXCEPT ![t] = d]
  PROVE  Inv'
<1>1. /\ TMTypeOK /\ Queued /\ exiting = Idle /\ current = t /\ status[t] = "Running"
      /\ \A u \in Tasks : status[u] = "Running" <=> u = t
  BY RunningTask DEF Inv, TypeOK
<1>2. PICK a \in {"Ready", "Interruptible"} :
        /\ TMTypeOK' /\ Queued' /\ current' = NoTask
        /\ \A u \in Tasks : status'[u] = IF u = t THEN a ELSE status[u]
  <2>1. CASE block_current_and_run_next
    BY <1>1, <2>1, Blocked
  <2>2. CASE suspend_current_and_run_next
    BY <1>1, <2>2, Suspended
  <2> QED
    BY <2>1, <2>2
<1>3. \A u \in Tasks : status'[u] = "Running" <=> current' = u
  BY <1>1, <1>2, NoTaskAssumption
<1>4. /\ pc' \in [Tasks -> Places]
      /\ \A u \in Tasks : pc'[u] = IF u = t THEN d ELSE pc[u]
  BY DEF Inv, TypeOK, Places
<1>5. ASSUME NEW u \in Tasks, status'[u] = "Interruptible", pc'[u] = "wait4"
      PROVE  Dead(u)' = {} /\ (NobodyLeaves => Matches(u)' # {})
  <2>1. /\ status[u] = "Interruptible" /\ pc[u] = "wait4" /\ children'[u] = children[u]
        /\ arg'[u] = arg[u] /\ \A k \in Tasks : status'[k] = "Zombie" => status[k] = "Zombie"
    BY <1>1, <1>2, <1>4, <1>5
  <2> QED
    BY <2>1, StillWaits
<1>6. \A u \in Tasks : status'[u] = status[u] \/ (status[u] \in Awake /\ status'[u] \in Awake)
  BY <1>1, <1>2 DEF Awake
<1>7. \A u \in Tasks : pc'[u] = pc[u] \/ pc'[u] = "user" \/ status[u] \in Awake
  BY <1>1, <1>4 DEF Awake
<1> QED
  BY <1>1, <1>2, <1>3, <1>4, <1>5, <1>6, <1>7, CallStep DEF Inv, TypeOK

LEMMA SleepKeeps ==
  ASSUME Inv, NEW t \in Tasks, Sleep(t) \/ Loop(t)
  PROVE  Inv'
BY YieldKeeps DEF Sleep, Loop, InUser

\* A wake-up outside do_exit(): the end of a timeout, or a signal.
LEMMA WakeKeeps ==
  ASSUME Inv, NEW u \in Tasks, exiting = Idle, WakeIfAsleep(u),
         UNCHANGED <<tgid, parent, children, exit_signal, clear_child_tid, pc, arg, exiting>>,
         killed' \in [Tasks -> BOOLEAN]
  PROVE  Inv'
<1>1. TMTypeOK /\ Queued
  BY DEF Inv, TypeOK
<1>2. /\ TMTypeOK' /\ Queued' /\ current' = current
      /\ \A t \in Tasks :
           status'[t] = IF t = u /\ status[t] = "Interruptible" THEN "Ready" ELSE status[t]
  BY <1>1, WokenOrNot
<1>3. \A t \in Tasks : status'[t] = "Running" <=> current' = t
  <2>1. Leaving = {}
    BY DEF Leaving, Idle
  <2> QED
    BY <1>2, <2>1 DEF Inv, Runs
<1>4. ASSUME NEW t \in Tasks, status'[t] = "Interruptible", pc'[t] = "wait4"
      PROVE  Dead(t)' = {} /\ (NobodyLeaves => Matches(t)' # {})
  <2>1. /\ status[t] = "Interruptible" /\ pc[t] = "wait4" /\ children'[t] = children[t]
        /\ arg'[t] = arg[t] /\ \A c \in Tasks : status'[c] = "Zombie" => status[c] = "Zombie"
    BY <1>2, <1>4
  <2> QED
    BY <2>1, StillWaits
<1>5. \A t \in Tasks : status'[t] = status[t] \/ (status[t] \in Awake /\ status'[t] \in Awake)
  BY <1>2 DEF Awake
<1> QED
  BY <1>2, <1>3, <1>4, <1>5, CallStep DEF Inv, TypeOK

LEMMA TimeoutKeeps ==
  ASSUME Inv, NEW t \in Tasks, Timeout(t)
  PROVE  Inv'
BY WakeKeeps DEF Timeout, WakeIfAsleep, pvars, Inv, TypeOK

LEMMA KillKeeps ==
  ASSUME Inv, NEW t \in Tasks, NEW g \in Tasks, sys_kill(t, g)
  PROVE  Inv'
<1>1. PICK u \in FoundByTgid(g) : killed' = [killed EXCEPT ![u] = TRUE] /\ WakeIfAsleep(u)
  BY DEF sys_kill
<1>2. exiting = Idle /\ current = t
  BY RunningTask DEF sys_kill, InUser
<1>3. u \in Tasks
  <2>1. FoundByTgid(g) \subseteq {current} \cup Range(ready_queue) \cup Tasks
    BY DEF FoundByTgid, InQueue, Group, Range
  <2>2. Range(ready_queue) \subseteq Tasks
    BY ElementsIn DEF Inv, TypeOK, TMTypeOK
  <2> QED
    BY <1>1, <1>2, <2>1, <2>2
<1>4. killed' \in [Tasks -> BOOLEAN]
  BY <1>1 DEF Inv, TypeOK
<1> QED
  BY <1>1, <1>2, <1>3, <1>4, WakeKeeps DEF sys_kill

\* The steps that move nobody: the beginning of wait4, its return, and that of
\* another call.
LEMMA StayKeeps ==
  ASSUME Inv, NEW t \in Tasks, NEW c, Resumed(t, c),
         UNCHANGED <<tmvars, tgid, parent, children, exit_signal, clear_child_tid, killed, exiting>>,
         NEW d \in {"user", "wait4"}, pc' = [pc EXCEPT ![t] = d],
         arg' \in [Tasks -> [pid : Tasks \cup {NoTask}, nohang : BOOLEAN]],
         \A u \in Tasks : u # t => arg'[u] = arg[u]
  PROVE  Inv'
<1>1. /\ TMTypeOK /\ Queued /\ exiting = Idle /\ current = t /\ status[t] = "Running"
      /\ \A u \in Tasks : status[u] = "Running" <=> u = t
  BY RunningTask DEF Inv, TypeOK
<1>2. TMTypeOK' /\ Queued' /\ status' = status /\ current' = current
  BY <1>1 DEF tmvars, TMTypeOK, Queued, HasStatus
<1>3. /\ pc' \in [Tasks -> Places]
      /\ \A u \in Tasks : pc'[u] = IF u = t THEN d ELSE pc[u]
  BY DEF Inv, TypeOK, Places
<1>4. ASSUME NEW u \in Tasks, status'[u] = "Interruptible", pc'[u] = "wait4"
      PROVE  Dead(u)' = {} /\ (NobodyLeaves => Matches(u)' # {})
  <2>1. /\ status[u] = "Interruptible" /\ pc[u] = "wait4" /\ children'[u] = children[u]
        /\ arg'[u] = arg[u] /\ \A k \in Tasks : status'[k] = "Zombie" => status[k] = "Zombie"
    BY <1>1, <1>2, <1>3, <1>4
  <2> QED
    BY <2>1, StillWaits
<1>5. \A u \in Tasks : pc'[u] = pc[u] \/ pc'[u] = "user" \/ status[u] \in Awake
  BY <1>1, <1>3 DEF Awake
<1>6. \A u \in Tasks : status'[u] = "Running" <=> current' = u
  BY <1>1, <1>2
<1> QED
  BY <1>1, <1>2, <1>3, <1>4, <1>5, <1>6, CallStep, ZenonT(60) DEF Inv, TypeOK

LEMMA WaitEntryKeeps ==
  ASSUME Inv, NEW t \in Tasks, NEW pid \in Tasks \cup {NoTask}, NEW nohang \in BOOLEAN,
         Wait4(t, pid, nohang)
  PROVE  Inv'
<1>1. arg' = [arg EXCEPT ![t] = [pid |-> pid, nohang |-> nohang]]
  BY DEF Wait4
<1>2. /\ arg' \in [Tasks -> [pid : Tasks \cup {NoTask}, nohang : BOOLEAN]]
      /\ \A u \in Tasks : u # t => arg'[u] = arg[u]
  BY <1>1 DEF Inv, TypeOK
<1> QED
  BY <1>2, StayKeeps DEF Wait4, InUser

\* A call returns, and its arguments are forgotten.
LEMMA LeaveKeeps ==
  ASSUME Inv, NEW t \in Tasks, NEW c, Resumed(t, c), Leave(t),
         UNCHANGED <<tmvars, tgid, parent, children, exit_signal, clear_child_tid, killed, exiting>>
  PROVE  Inv'
<1>1. arg' = [arg EXCEPT ![t] = NoArg] /\ NoArg \in [pid : Tasks \cup {NoTask}, nohang : BOOLEAN]
  BY DEF Leave, NoArg
<1>2. /\ arg' \in [Tasks -> [pid : Tasks \cup {NoTask}, nohang : BOOLEAN]]
      /\ \A u \in Tasks : u # t => arg'[u] = arg[u]
  BY <1>1 DEF Inv, TypeOK
<1> QED
  BY <1>2, StayKeeps DEF Leave

LEMMA WaitReturnKeeps ==
  ASSUME Inv, NEW t \in Tasks, Wait4Return(t)
  PROVE  Inv'
BY LeaveKeeps DEF Wait4Return

LEMMA ReturnKeeps ==
  ASSUME Inv, NEW t \in Tasks, Return(t)
  PROVE  Inv'
BY LeaveKeeps DEF Return

LEMMA LoopKeeps ==
  ASSUME Inv, NEW t \in Tasks, LoopRound(t)
  PROVE  Inv'
<1>1. /\ Resumed(t, "loop")
      /\ UNCHANGED <<tgid, parent, children, exit_signal, clear_child_tid, killed, arg, exiting>>
  BY DEF LoopRound
<1>2. CASE pc' = [pc EXCEPT ![t] = "user"] /\ UNCHANGED tmvars
  BY <1>1, <1>2, StayKeeps DEF Inv, TypeOK
<1>3. CASE (block_current_and_run_next \/ suspend_current_and_run_next) /\ UNCHANGED pc
  <2>1. pc' = [pc EXCEPT ![t] = "loop"]
    BY <1>1, <1>3 DEF Resumed, Inv, TypeOK
  <2> QED
    BY <1>1, <1>3, <2>1, YieldKeeps
<1> QED
  BY <1>2, <1>3 DEF LoopRound

\* An only child leaves its parent, which has no child any more.
LEMMA SetsidKeeps ==
  ASSUME OnlyChildrenLeave, Inv, NEW t \in Tasks, sys_setsid(t)
  PROVE  Inv'
<1> DEFINE p == parent[t]
<1>1. /\ exiting = Idle /\ current = t /\ status[t] = "Running"
      /\ \A u \in Tasks : status[u] = "Running" <=> u = t
  BY RunningTask DEF sys_setsid, InUser
<1>2. /\ TMTypeOK /\ Queued /\ FamilyTree /\ children \in [Tasks -> Seq(Tasks)]
      /\ parent \in [Tasks -> Tasks \cup {NoTask}] /\ exiting.stage = "idle"
      /\ p \in Tasks /\ p # NoTask /\ t # INITPROC /\ ~NobodyLeaves
  BY <1>1 DEF Inv, TypeOK, Rooted, sys_setsid, Idle, NobodyLeaves
<1>3. children[p] \in Seq(Tasks) /\ Range(children[p]) \subseteq Tasks
  BY <1>2, ElementsIn
<1>4. MainThreads(p) = Range(children[p]) /\ Range(children[p]) \subseteq {t}
  BY <1>3 DEF sys_setsid, OnlyChildrenLeave, MainThreads, Inv, OneThread
<1>5. {i \in DOMAIN children[p] : children[p][i] \notin MainThreads(p)} = {}
  BY <1>4 DEF Range
<1>6. children' = [children EXCEPT ![p] = <<>>]
  BY <1>3, <1>5, PicksNothing DEF sys_setsid
<1>7. status' = status
  <2>1. \A c \in Tasks : ~(c \in MainThreads(p) /\ status[c] = "Zombie")
    BY <1>1, <1>4
  <2> QED
    BY <1>2, <2>1 DEF sys_setsid, TMTypeOK
<1>8. /\ parent' = [parent EXCEPT ![t] = NoTask]
      /\ UNCHANGED <<ready_queue, interruptible_queue, current>>
      /\ UNCHANGED <<tgid, exit_signal, clear_child_tid, killed, pc, arg, exiting>>
  BY DEF sys_setsid
<1>p. p = parent[t]
  OBVIOUS
<1> HIDE DEF p
<1>9. /\ children' \in [Tasks -> Seq(Tasks)] /\ children'[p] = <<>>
      /\ \A u \in Tasks \ {p} : children'[u] = children[u]
  BY <1>2, <1>6, SeqIsEmpty
<1>10. /\ parent' \in [Tasks -> Tasks \cup {NoTask}] /\ parent'[t] = NoTask
       /\ \A c \in Tasks \ {t} : parent'[c] = parent[c]
  BY <1>2, <1>8
<1>11. TypeOK' /\ Queued'
  BY <1>2, <1>7, <1>8, <1>9, <1>10 DEF Inv, TypeOK, TMTypeOK, Queued, HasStatus
<1>12. exiting'.stage = "idle" /\ exiting' = Idle /\ Leaving' = Leaving
  BY <1>1, <1>2, <1>8 DEF Leaving
<1>13. OneThread' /\ Signalled' /\ Runs' /\ DiesInUser'
  BY <1>7, <1>8, <1>12 DEF Inv, OneThread, Signalled, Runs, DiesInUser
<1>14. Staged' /\ ToldFirst'
  BY <1>12 DEF Staged, ToldFirst
<1>15. Rooted'
  BY <1>2, <1>7, <1>10, ProcessAssumption DEF Inv, Rooted, Live
<1>16. Range(children'[p]) = {} /\ IsInjective(children'[p])
  BY <1>9, EmptyElements
<1>17. \A u \in Tasks : IsInjective(children'[u])
  BY <1>2, <1>9, <1>16 DEF FamilyTree
<1>18. ASSUME NEW u \in Tasks, NEW c \in Range(children'[u])
       PROVE  parent'[c] = u /\ status'[c] # NoTCB
  <2>1. u # p /\ c \in Range(children[u])
    BY <1>9, <1>16, <1>18
  <2>2. parent[c] = u /\ status[c] # NoTCB /\ c \in Tasks
    BY <1>2, <2>1, ElementsIn DEF FamilyTree
  <2> QED
    BY <1>7, <1>10, <1>p, <2>1, <2>2
<1>19. ASSUME NEW c \in Tasks \ {INITPROC}, status'[c] # NoTCB, parent'[c] # NoTask
       PROVE  c \in Range(children'[parent'[c]]) /\ Live(parent[c])'
  <2>1. c # t /\ parent'[c] = parent[c] /\ parent[c] # NoTask
    BY <1>10, <1>19
  <2>2. c \in Range(children[parent[c]]) /\ Live(parent[c]) /\ parent[c] \in Tasks
    BY <1>2, <1>7, <1>19, <2>1 DEF FamilyTree
  <2>3. parent[c] # p
    BY <1>4, <2>1, <2>2
  <2> QED
    BY <1>7, <1>9, <2>1, <2>2, <2>3 DEF Live
<1>20. FamilyTree'
  BY <1>17, <1>18, <1>19 DEF FamilyTree, Live
<1>21. ASSUME NEW u \in Tasks, status'[u] = "Interruptible", pc'[u] = "wait4"
       PROVE  Dead(u)' = {}
  <2>1. CASE u = p
    BY <1>16, <2>1 DEF Dead, Matches
  <2>2. CASE u # p
    <3>1. /\ status[u] = "Interruptible" /\ pc[u] = "wait4" /\ children'[u] = children[u]
          /\ arg'[u] = arg[u] /\ \A k \in Tasks : status'[k] = "Zombie" => status[k] = "Zombie"
      BY <1>7, <1>8, <1>9, <1>21, <2>2
    <3> QED
      BY <3>1, StillWaits
  <2> QED
    BY <2>1, <2>2
<1>22. Waits'
  BY <1>2, <1>21 DEF Waits
<1> QED
  BY <1>11, <1>13, <1>14, <1>15, <1>20, <1>22 DEF Inv

\* The running task is not in the ready queue, so leaving out its group changes
\* nothing; the same for a dead one.
LEMMA GroupIsNotQueued ==
  ASSUME Inv, NEW g \in Tasks, status[g] \notin {"Ready", "Interruptible"}
  PROVE  /\ InQueue(g) = {} /\ Others(g) = DOMAIN ready_queue
         /\ {t \in Group(g) : interruptible_queue[t] > 0} = {}
         /\ [t \in Tasks |-> IF tgid[t] = g THEN 0 ELSE interruptible_queue[t]]
              = interruptible_queue
<1>1. Group(g) \subseteq {g}
  BY DEF Inv, OneThread, Group
<1>2. g \notin Range(ready_queue)
  BY DEF Inv, Queued, HasStatus
<1>3. InQueue(g) = {}
  BY <1>1, <1>2 DEF InQueue, Range
<1>4. interruptible_queue[g] = 0
  BY DEF Inv, Queued
<1>5. {t \in Group(g) : interruptible_queue[t] > 0} = {}
  BY <1>1, <1>4, SMT
<1>6. interruptible_queue \in [Tasks -> Nat] /\ \A t \in Tasks : tgid[t] = t
  BY DEF Inv, TypeOK, TMTypeOK, OneThread
<1>7. [t \in Tasks |-> IF tgid[t] = g THEN 0 ELSE interruptible_queue[t]] = interruptible_queue
  BY <1>4, <1>6
<1> QED
  BY <1>3, <1>5, <1>7 DEF Others

LEMMA ExecveKeeps ==
  ASSUME Inv, NEW t \in Tasks, sys_execve(t)
  PROVE  Inv'
<1>1. /\ TMTypeOK /\ Queued /\ exiting = Idle /\ current = t /\ status[t] = "Running"
      /\ \A u \in Tasks : status[u] = "Running" <=> u = t
  BY RunningTask DEF sys_execve, InUser, Inv, TypeOK
<1>2. tgid[t] = t
  BY DEF Inv, OneThread
<1>3. Others(t) = DOMAIN ready_queue /\ interruptible_queue' = interruptible_queue
  BY <1>1, <1>2, GroupIsNotQueued DEF sys_execve
<1>4. /\ ready_queue' \in Seq(Tasks) /\ Range(ready_queue') = Range(ready_queue)
      /\ IsInjective(ready_queue')
  <2>1. ready_queue' \in Picks(ready_queue, DOMAIN ready_queue)
    BY <1>2, <1>3 DEF sys_execve
  <2>2. ready_queue \in Seq(Tasks) /\ IsInjective(ready_queue)
    BY <1>1 DEF TMTypeOK, Queued
  <2> QED
    BY <2>1, <2>2, PicksEverything
<1>5. status' = status /\ current' = current
  BY DEF sys_execve
<1>6. TMTypeOK' /\ Queued'
  BY <1>1, <1>3, <1>4, <1>5 DEF TMTypeOK, Queued, HasStatus
<1>7. clear_child_tid' = clear_child_tid
  BY ZenonT(60) DEF sys_execve, Inv, TypeOK, OneThread
<1>8. ASSUME NEW u \in Tasks, status'[u] = "Interruptible", pc'[u] = "wait4"
      PROVE  Dead(u)' = {} /\ (NobodyLeaves => Matches(u)' # {})
  <2>1. /\ status[u] = "Interruptible" /\ pc[u] = "wait4" /\ children'[u] = children[u]
        /\ arg'[u] = arg[u] /\ \A k \in Tasks : status'[k] = "Zombie" => status[k] = "Zombie"
    BY <1>5, <1>8 DEF sys_execve
  <2> QED
    BY <2>1, StillWaits
<1>9. \A u \in Tasks : status'[u] = "Running" <=> current' = u
  BY <1>1, <1>5
<1>10. UNCHANGED <<tgid, parent, children, exit_signal, killed, pc, arg, exiting>>
  BY DEF sys_execve
<1> QED
  BY <1>1, <1>5, <1>6, <1>7, <1>8, <1>9, <1>10, CallStep DEF Inv, TypeOK

-----------------------------------------------------------------------------
(* do_exit(), stage by stage. *)

LEMMA BeginExitKeeps ==
  ASSUME Inv, NEW t \in Tasks, Resumed(t, "user"), NEW g \in {NoTask, t}, BeginExit(t, g)
  PROVE  Inv'
<1>1. /\ exiting = Idle /\ current = t /\ pc[t] = "user" /\ status[t] = "Running"
      /\ \A u \in Tasks : status[u] = "Running" <=> u = t
  BY RunningTask
<1>2. /\ UNCHANGED <<status, ready_queue, interruptible_queue, tgid, parent, children,
                     exit_signal, clear_child_tid, killed, pc, arg>>
      /\ current' = NoTask /\ t # INITPROC
      /\ exiting' = [stage |-> "parent", task |-> t, group |-> g, rest |-> <<>>, collected |-> FALSE]
  BY DEF BeginExit, DoExit
<1>3. /\ exiting'.stage = "parent" /\ exiting'.task = t /\ exiting'.group = g
      /\ exiting'.rest = <<>> /\ Leaving' = {t} /\ exiting.stage = "idle"
  BY <1>1, <1>2 DEF Leaving, Idle
<1>4. TypeOK'
  <2>1. exiting' \in [stage : Stages \cup {"idle"}, task : Tasks \cup {NoTask},
                      group : Tasks \cup {NoTask}, rest : Seq(Tasks), collected : BOOLEAN]
    BY <1>2, SMT DEF Stages
  <2> QED
    BY <1>2, <2>1 DEF Inv, TypeOK, TMTypeOK
<1>5. OneThread' /\ Signalled' /\ Queued' /\ Rooted'
  BY <1>2 DEF Inv, OneThread, Signalled, Queued, HasStatus, Rooted, Live
<1>6. Runs'
  BY <1>1, <1>2, <1>3, NoTaskAssumption DEF Runs
<1>7. Staged'
  BY <1>2, <1>3 DEF Staged
<1>8. DiesInUser'
  BY <1>1, <1>2, <1>3 DEF Inv, DiesInUser
<1>9. FamilyTree'
  BY <1>2, <1>3, FamilyKept DEF Inv, TypeOK, Live
<1>10. ToldFirst'
  BY <1>3 DEF ToldFirst
<1>11. Waits'
  BY <1>2, StillWaits DEF Waits
<1> QED
  BY <1>4, <1>5, <1>6, <1>7, <1>8, <1>9, <1>10, <1>11 DEF Inv

\* The task in do_exit(), whose exit signal is SIGCHLD.
LEMMA LeavingTask ==
  ASSUME Inv, exiting.stage # "idle"
  PROVE  /\ exiting.task \in Tasks \ {INITPROC} /\ current = NoTask /\ exiting.rest = <<>>
         /\ exiting.stage \in {"parent", "zombie"} => status[exiting.task] = "Running"
         /\ exiting.stage \in {"orphans", "tid", "drop"} => status[exiting.task] = "Zombie"
         /\ exiting.stage = "collect" => status[exiting.task] \in {"Zombie", NoTCB}
         /\ exiting.stage # "collect" => exit_signal[exiting.task]
         /\ parent[exiting.task] \in Tasks \cup {NoTask}
         /\ \A u \in Tasks : status[u] = "Running" => u = exiting.task
<1>1. /\ exiting.task \in Tasks \ {INITPROC} /\ current = NoTask /\ exiting.rest = <<>>
      /\ exiting.stage \in {"orphans", "tid", "drop"} => status[exiting.task] = "Zombie"
      /\ exiting.stage = "collect" => status[exiting.task] \in {"Zombie", NoTCB}
  BY DEF Inv, Staged
<1>2. exiting.stage \in Stages
  BY DEF Inv, TypeOK
<1>3. exiting.stage \in {"parent", "zombie"} => status[exiting.task] = "Running"
  BY <1>1 DEF Inv, Runs, Leaving
<1>4. exiting.stage # "collect" => status[exiting.task] # NoTCB
  BY <1>1, <1>2, <1>3 DEF Stages, NoTCB
<1>5. exiting.stage # "collect" => exit_signal[exiting.task]
  BY <1>1, <1>4 DEF Inv, Signalled
<1>6. parent[exiting.task] \in Tasks \cup {NoTask}
  BY <1>1 DEF Inv, TypeOK
<1>7. \A u \in Tasks : status[u] = "Running" => u = exiting.task
  BY <1>1, NoTaskAssumption DEF Inv, Runs, Leaving
<1> QED
  BY <1>1, <1>3, <1>5, <1>6, <1>7

\* exiting has the fields of a do_exit(), whose stage is what moves.
LEMMA StageMoves ==
  ASSUME Inv, NEW g \in Stages, exiting' = [exiting EXCEPT !.stage = g]
  PROVE  /\ exiting' \in [stage : Stages \cup {"idle"}, task : Tasks \cup {NoTask},
                           group : Tasks \cup {NoTask}, rest : Seq(Tasks), collected : BOOLEAN]
         /\ exiting'.stage = g /\ exiting'.task = exiting.task
         /\ exiting'.group = exiting.group /\ exiting'.rest = exiting.rest
BY DEF Inv, TypeOK

LEMMA NotifyKeeps ==
  ASSUME Inv, notify_parent
  PROVE  Inv'
<1> DEFINE t == exiting.task
           p == parent[t]
<1>1. /\ exiting.stage = "parent" /\ exiting' = [exiting EXCEPT !.stage = "zombie"]
      /\ UNCHANGED <<tgid, parent, children, exit_signal, clear_child_tid, killed, pc, arg>>
  BY DEF notify_parent
<1>2. /\ t \in Tasks \ {INITPROC} /\ current = NoTask /\ exiting.rest = <<>>
      /\ status[t] = "Running" /\ exit_signal[t] /\ p \in Tasks \cup {NoTask}
  BY <1>1, LeavingTask
<1>3. TMTypeOK /\ Queued /\ (IF p # NoTask THEN WakeIfAsleep(p) ELSE UNCHANGED tmvars)
  BY <1>2 DEF Inv, TypeOK, notify_parent
<1>4. /\ TMTypeOK' /\ Queued' /\ current' = current
      /\ \A u \in Tasks :
           status'[u] = IF u = p /\ status[u] = "Interruptible" THEN "Ready" ELSE status[u]
  <2>1. CASE p # NoTask
    BY <1>2, <1>3, <2>1, WokenOrNot
  <2>2. CASE p = NoTask
    BY <1>3, <2>2, NoTaskAssumption DEF tmvars, TMTypeOK, Queued, HasStatus
  <2> QED
    BY <2>1, <2>2
<1>5. /\ exiting' \in [stage : Stages \cup {"idle"}, task : Tasks \cup {NoTask},
                        group : Tasks \cup {NoTask}, rest : Seq(Tasks), collected : BOOLEAN]
      /\ exiting'.stage = "zombie" /\ exiting'.task = t
      /\ exiting'.group = exiting.group /\ exiting'.rest = exiting.rest
  BY <1>1, StageMoves DEF Stages
<1>6. Leaving' = {t} /\ Leaving = {t}
  BY <1>1, <1>5 DEF Leaving
<1>p. p = parent[t]
  OBVIOUS
<1> HIDE DEF p
<1>7. \A u \in Tasks : /\ status'[u] = NoTCB <=> status[u] = NoTCB
                       /\ status'[u] = "Zombie" <=> status[u] = "Zombie"
                       /\ Live(u) => Live(u)'
                       /\ status'[u] = "Running" <=> status[u] = "Running"
                       /\ status'[u] = "Interruptible" => status[u] = "Interruptible" /\ u # p
  BY <1>4 DEF Live, NoTCB
<1>8. TypeOK'
  BY <1>1, <1>4, <1>5 DEF Inv, TypeOK
<1>9. OneThread' /\ Signalled'
  BY <1>1, <1>7 DEF Inv, OneThread, Signalled
<1>10. Runs' /\ DiesInUser'
  BY <1>1, <1>4, <1>6, <1>7 DEF Inv, Runs, DiesInUser
<1>11. Staged'
  BY <1>1, <1>2, <1>4, <1>5 DEF Inv, Staged
<1>12. Rooted'
  BY <1>1, <1>7, ProcessAssumption DEF Inv, Rooted
<1>13. FamilyTree'
  BY <1>1, <1>7, FamilyKept DEF Inv, TypeOK
<1>14. ToldFirst'
  BY <1>1, <1>2, <1>4, <1>5, <1>p, SMT DEF ToldFirst
<1>15. Waits'
  BY <1>1, <1>7, StillWaits DEF Waits
<1> QED
  BY <1>4, <1>8, <1>9, <1>10, <1>11, <1>12, <1>13, <1>14, <1>15 DEF Inv

\* Only now the task is dead: its parent, which was told, is awake.
LEMMA ZombieKeeps ==
  ASSUME Inv, become_zombie
  PROVE  Inv'
<1> DEFINE t == exiting.task
<1>1. /\ exiting.stage = "zombie" /\ exiting' = [exiting EXCEPT !.stage = "orphans"]
      /\ UNCHANGED <<ready_queue, interruptible_queue, current>>
      /\ UNCHANGED <<tgid, parent, children, exit_signal, clear_child_tid, killed, pc, arg>>
      /\ status' = [status EXCEPT ![t] = "Zombie"]
  BY DEF become_zombie
<1>2. /\ t \in Tasks \ {INITPROC} /\ current = NoTask /\ exiting.rest = <<>>
      /\ status[t] = "Running" /\ \A u \in Tasks : status[u] = "Running" => u = t
  BY <1>1, LeavingTask
<1>3. TMTypeOK /\ Queued
  BY DEF Inv, TypeOK
<1>4. \A u \in Tasks : status'[u] = IF u = t THEN "Zombie" ELSE status[u]
  BY <1>1, <1>3 DEF TMTypeOK
<1>5. /\ exiting' \in [stage : Stages \cup {"idle"}, task : Tasks \cup {NoTask},
                        group : Tasks \cup {NoTask}, rest : Seq(Tasks), collected : BOOLEAN]
      /\ exiting'.stage = "orphans" /\ exiting'.task = t
      /\ exiting'.group = exiting.group /\ exiting'.rest = exiting.rest
  BY <1>1, StageMoves DEF Stages
<1>6. Leaving' = {} /\ Leaving = {t}
  BY <1>1, <1>5 DEF Leaving
<1>7. TMTypeOK'
  BY <1>1, <1>2, <1>3 DEF TMTypeOK, TaskStatus
<1> HIDE DEF t
<1>8. Queued'
  <2>1. \A u \in Tasks : status'[u] = "Ready" <=> status[u] = "Ready"
    BY <1>2, <1>4
  <2>2. \A u \in Tasks : status'[u] = "Interruptible" <=> status[u] = "Interruptible"
    BY <1>2, <1>4
  <2> QED
    BY <1>1, <1>3, <2>1, <2>2 DEF Queued, HasStatus
<1>9. TypeOK'
  BY <1>1, <1>5, <1>7 DEF Inv, TypeOK
<1>10. OneThread' /\ Signalled'
  BY <1>1, <1>2, <1>4 DEF Inv, OneThread, Signalled, NoTCB
<1>11. Runs'
  BY <1>1, <1>2, <1>4, <1>6, NoTaskAssumption, SMT DEF Runs
<1>12. DiesInUser'
  BY <1>1, <1>4, <1>6 DEF Inv, DiesInUser
<1>13. Staged'
  BY <1>1, <1>2, <1>4, <1>5 DEF Inv, Staged
<1>14. Rooted'
  BY <1>1, <1>2, <1>4, ProcessAssumption DEF Inv, Rooted, Live
<1>15. FamilyTree'
  <2>1. \A u \in Tasks : Live(u) => Live(u)' \/ (exiting'.task = u /\ exiting'.stage = "orphans")
    BY <1>4, <1>5 DEF Live
  <2>2. \A u \in Tasks : status'[u] = NoTCB <=> status[u] = NoTCB
    BY <1>2, <1>4 DEF NoTCB
  <2> QED
    BY <1>1, <2>1, <2>2, FamilyKept DEF Inv, TypeOK
<1>16. ToldFirst'
  BY <1>5 DEF ToldFirst
<1>17. ASSUME NEW u \in Tasks, status'[u] = "Interruptible", pc'[u] = "wait4"
       PROVE  Dead(u)' = {} /\ (NobodyLeaves => Matches(u)' # {})
  <2>1. status[u] = "Interruptible" /\ pc[u] = "wait4"
    BY <1>1, <1>2, <1>4, <1>17, SMT
  <2>2. Matches(u)' = Matches(u) /\ Dead(u) = {} /\ (NobodyLeaves => Matches(u) # {})
    BY <1>1, <2>1 DEF Inv, Waits, Matches
  <2>3. Matches(u) \subseteq Range(children[u]) /\ Matches(u) \subseteq Tasks
    BY ElementsIn DEF Inv, TypeOK, Matches
  <2>4. t \notin Range(children[u])
    <3>1. parent[t] # NoTask => status[parent[t]] # "Interruptible"
      BY <1>1 DEF Inv, ToldFirst, t
    <3> QED
      BY <2>1, <3>1, NoTaskAssumption DEF Inv, FamilyTree
  <2> QED
    BY <1>4, <2>2, <2>3, <2>4 DEF Dead
<1>18. Waits'
  BY <1>17 DEF Waits
<1> QED
  BY <1>8, <1>9, <1>10, <1>11, <1>12, <1>13, <1>14, <1>15, <1>16, <1>18 DEF Inv

\* A child has one parent: the sequences of two tasks have no child in common.
LEMMA OneParent ==
  ASSUME Inv, NEW t \in Tasks, NEW u \in Tasks, NEW c \in Range(children[t]), c \in Range(children[u])
  PROVE  t = u
<1>1. parent[c] = t
  BY DEF Inv, FamilyTree
<1>2. parent[c] = u
  BY DEF Inv, FamilyTree
<1> QED
  BY <1>1, <1>2

\* The children of the dead task go to initproc, which is alive.
LEMMA OrphansKeepFamily ==
  ASSUME Inv, move_children,
         \A u \in Tasks : /\ status'[u] = NoTCB <=> status[u] = NoTCB
                          /\ Live(u) => Live(u)'
  PROVE  FamilyTree' /\ parent'[INITPROC] = NoTask
<1> DEFINE t == exiting.task
           orphans == Range(children[t])
<1>1. exiting.stage = "orphans" /\ t \in Tasks /\ t # INITPROC /\ INITPROC \in Tasks
  BY LeavingTask, ProcessAssumption DEF move_children
<1>2. /\ children \in [Tasks -> Seq(Tasks)] /\ parent \in [Tasks -> Tasks \cup {NoTask}]
      /\ FamilyTree /\ Live(INITPROC) /\ parent[INITPROC] = NoTask
  BY DEF Inv, TypeOK, Rooted
<1>3. /\ parent' = [c \in Tasks |-> IF c \in orphans THEN INITPROC ELSE parent[c]]
      /\ children' = [children EXCEPT ![t] = <<>>, ![INITPROC] = @ \o Backwards(children[t])]
  BY DEF move_children
<1>4. /\ children'[t] = <<>>
      /\ children'[INITPROC] = children[INITPROC] \o Backwards(children[t])
      /\ \A u \in Tasks \ {t, INITPROC} : children'[u] = children[u]
  BY <1>1, <1>2, <1>3
<1>5. \A c \in Tasks : parent'[c] = IF c \in orphans THEN INITPROC ELSE parent[c]
  BY <1>3
<1>6. children[t] \in Seq(Tasks) /\ children[INITPROC] \in Seq(Tasks) /\ orphans \subseteq Tasks
  BY <1>1, <1>2, ElementsIn
<1>7. IsInjective(children[t]) /\ IsInjective(children[INITPROC])
  BY <1>1, <1>2 DEF FamilyTree
<1>8. Range(children[INITPROC]) \cap orphans = {}
  BY <1>1, OneParent
<1>9. /\ Backwards(children[t]) \in Seq(Tasks) /\ Range(Backwards(children[t])) = orphans
      /\ IsInjective(Backwards(children[t]))
  BY <1>6, <1>7, BackwardsElements
<1>10. /\ IsInjective(children'[INITPROC])
       /\ Range(children'[INITPROC]) = Range(children[INITPROC]) \cup orphans
  <2>1. Range(children[INITPROC]) \cap Range(Backwards(children[t])) = {}
    BY <1>8, <1>9
  <2> QED
    BY <1>4, <1>6, <1>7, <1>9, <2>1, JoinedElements, SMT
<1>11. INITPROC \notin orphans
  BY <1>1, <1>2, NoTaskAssumption DEF FamilyTree
<1>12. \A c \in orphans : parent[c] = t /\ status[c] # NoTCB
  BY <1>1, <1>2 DEF FamilyTree
<1>13. Range(children'[t]) = {} /\ IsInjective(children'[t])
  BY <1>4, EmptyElements
<1> HIDE DEF t, orphans
<1>14. \A u \in Tasks : IsInjective(children'[u])
  BY <1>2, <1>4, <1>10, <1>13 DEF FamilyTree
<1>15. ASSUME NEW u \in Tasks, NEW c \in Range(children'[u])
       PROVE  parent'[c] = u /\ status'[c] # NoTCB
  <2>1. CASE u = t
    BY <1>13, <1>15, <2>1
  <2>2. CASE u = INITPROC
    <3>1. CASE c \in orphans
      BY <1>5, <1>6, <1>12, <2>2, <3>1
    <3>2. CASE c \in Range(children[INITPROC]) /\ c \notin orphans
      <4>1. parent[c] = INITPROC /\ status[c] # NoTCB /\ c \in Tasks
        BY <1>1, <1>2, <1>6, <3>2, ElementsIn DEF FamilyTree
      <4> QED
        BY <1>5, <2>2, <3>2, <4>1
    <3> QED
      BY <1>10, <1>15, <2>2, <3>1, <3>2
  <2>3. CASE u # t /\ u # INITPROC
    <3>1. c \in Range(children[u])
      BY <1>4, <1>15, <2>3
    <3>2. parent[c] = u /\ status[c] # NoTCB /\ c \in Tasks
      BY <1>2, <3>1, ElementsIn DEF FamilyTree
    <3>3. c \notin orphans
      BY <1>12, <2>3, <3>2
    <3> QED
      BY <1>5, <3>2, <3>3
  <2> QED
    BY <2>1, <2>2, <2>3
<1>16. ASSUME NEW c \in Tasks \ {INITPROC}, status'[c] # NoTCB, parent'[c] # NoTask
       PROVE  c \in Range(children'[parent'[c]]) /\ Live(parent[c])'
  <2>1. CASE c \in orphans
    <3>1. parent'[c] = INITPROC /\ c \in Range(children'[INITPROC]) /\ Live(INITPROC)'
      BY <1>1, <1>2, <1>5, <1>10, <2>1
    <3> QED
      BY <1>1, <3>1, NoTaskAssumption DEF Live
  <2>2. CASE c \notin orphans
    <3>a. parent'[c] = parent[c]
      BY <1>5, <2>2
    <3>1. /\ parent[c] # NoTask /\ c \in Range(children[parent[c]])
          /\ Live(parent[c]) \/ (exiting.task = parent[c] /\ exiting.stage = "orphans")
      BY <1>2, <1>16, <3>a DEF FamilyTree
    <3>2. parent[c] \in Tasks /\ parent'[c] = parent[c]
      BY <1>2, <3>1, <3>a
    <3>3. parent[c] # t
      BY <2>2, <3>1 DEF orphans
    <3>4. Live(parent[c]) /\ Live(parent[c])'
      BY <3>1, <3>2, <3>3 DEF t, Live
    <3>5. c \in Range(children'[parent[c]])
      BY <1>4, <1>10, <3>1, <3>2, <3>3
    <3> QED
      BY <3>1, <3>2, <3>4, <3>5
  <2> QED
    BY <2>1, <2>2
<1>17. parent'[INITPROC] = NoTask
  BY <1>1, <1>2, <1>5, <1>11
<1> QED
  BY <1>14, <1>15, <1>16, <1>17 DEF FamilyTree, Live

LEMMA OrphansKeep ==
  ASSUME Inv, move_children
  PROVE  Inv'
<1> DEFINE t == exiting.task
<1>1. /\ exiting.stage = "orphans" /\ exiting' = [exiting EXCEPT !.stage = "tid"]
      /\ UNCHANGED <<tgid, exit_signal, clear_child_tid, killed, pc, arg>>
      /\ parent' = [c \in Tasks |-> IF c \in Range(children[t]) THEN INITPROC ELSE parent[c]]
      /\ children' = [children EXCEPT ![t] = <<>>, ![INITPROC] = @ \o Backwards(children[t])]
  BY DEF move_children
<1>2. /\ t \in Tasks \ {INITPROC} /\ current = NoTask /\ exiting.rest = <<>>
      /\ status[t] = "Zombie" /\ \A u \in Tasks : status[u] # "Running"
  BY <1>1, LeavingTask
<1>3. TMTypeOK /\ Queued /\ INITPROC \in Tasks /\ children \in [Tasks -> Seq(Tasks)]
      /\ parent \in [Tasks -> Tasks \cup {NoTask}]
  BY ProcessAssumption DEF Inv, TypeOK
<1>4. /\ TMTypeOK' /\ Queued' /\ current' = current
      /\ \A u \in Tasks :
           \/ status'[u] = status[u]
           \/ u = INITPROC /\ status[u] = "Interruptible" /\ status'[u] = "Ready"
      /\ children[t] # <<>> => status'[INITPROC] # "Interruptible"
  <2>1. CASE children[t] = <<>>
    <3>1. UNCHANGED tmvars
      BY <2>1 DEF move_children
    <3> QED
      BY <1>3, <2>1, <3>1 DEF tmvars, TMTypeOK, Queued, HasStatus
  <2>2. CASE children[t] # <<>>
    <3>1. WakeIfAsleep(INITPROC)
      BY <2>2 DEF move_children
    <3> QED
      BY <1>3, <3>1, WokenOrNot
  <2> QED
    BY <2>1, <2>2
<1>5. \A u \in Tasks : /\ status'[u] = NoTCB <=> status[u] = NoTCB
                       /\ status'[u] = "Zombie" <=> status[u] = "Zombie"
                       /\ Live(u) => Live(u)'
                       /\ status'[u] # "Running"
                       /\ status'[u] = "Interruptible" => status[u] = "Interruptible"
  BY <1>2, <1>4 DEF Live, NoTCB
<1>6. FamilyTree' /\ parent'[INITPROC] = NoTask
  BY <1>5, OrphansKeepFamily
<1>7. /\ exiting' \in [stage : Stages \cup {"idle"}, task : Tasks \cup {NoTask},
                        group : Tasks \cup {NoTask}, rest : Seq(Tasks), collected : BOOLEAN]
      /\ exiting'.stage = "tid" /\ exiting'.task = t
      /\ exiting'.group = exiting.group /\ exiting'.rest = exiting.rest
  BY <1>1, StageMoves DEF Stages
<1>8. /\ Backwards(children[t]) \in Seq(Tasks)
      /\ children[INITPROC] \o Backwards(children[t]) \in Seq(Tasks)
      /\ Range(children[INITPROC] \o Backwards(children[t]))
           = Range(children[INITPROC]) \cup Range(children[t])
  <2>1. children[t] \in Seq(Tasks) /\ children[INITPROC] \in Seq(Tasks)
    BY <1>2, <1>3
  <2>2. /\ Backwards(children[t]) \in Seq(Tasks)
        /\ Range(Backwards(children[t])) = Range(children[t])
    BY <2>1, BackwardsElements
  <2> QED
    BY <2>1, <2>2, JoinedElements, SMT
<1>9. Leaving' = {} /\ Leaving = {}
  BY <1>1, <1>7 DEF Leaving
<1> HIDE DEF t
<1>10. children' \in [Tasks -> Seq(Tasks)] /\ parent' \in [Tasks -> Tasks \cup {NoTask}]
  <2>1. parent' \in [Tasks -> Tasks \cup {NoTask}]
    BY <1>1, <1>3
  <2>2. [children EXCEPT ![t] = <<>>] \in [Tasks -> Seq(Tasks)]
    BY <1>2, <1>3, SeqIsEmpty
  <2>3. [children EXCEPT ![t] = <<>>][INITPROC] = children[INITPROC]
    BY <1>2, <1>3
  <2> QED
    BY <1>1, <1>8, <2>1, <2>2, <2>3
<1>11. TypeOK'
  BY <1>1, <1>4, <1>7, <1>10 DEF Inv, TypeOK
<1>12. OneThread' /\ Signalled'
  BY <1>1, <1>5 DEF Inv, OneThread, Signalled
<1>13. Runs' /\ DiesInUser'
  BY <1>1, <1>2, <1>4, <1>5, <1>9, NoTaskAssumption DEF Inv, Runs, DiesInUser
<1>14. Staged'
  BY <1>1, <1>2, <1>4, <1>5, <1>7 DEF Inv, Staged
<1>15. Rooted'
  BY <1>3, <1>5, <1>6 DEF Inv, Rooted
<1>16. ToldFirst'
  BY <1>7 DEF ToldFirst
<1>17. ASSUME NEW u \in Tasks, status'[u] = "Interruptible", pc'[u] = "wait4"
       PROVE  Dead(u)' = {} /\ (NobodyLeaves => Matches(u)' # {})
  <2>1. status[u] = "Interruptible" /\ pc[u] = "wait4" /\ arg'[u] = arg[u] /\ u # t
    BY <1>1, <1>2, <1>5, <1>17
  <2>2. CASE u # INITPROC
    <3>1. children'[u] = children[u]
      BY <1>1, <1>3, <2>1, <2>2
    <3> QED
      BY <1>5, <2>1, <3>1, StillWaits
  <2>3. CASE u = INITPROC
    <3>1. children[t] = <<>>
      BY <1>4, <1>17, <2>3
    <3>2. Range(children'[u]) = Range(children[u])
      BY <1>1, <1>2, <1>3, <1>8, <2>3, <3>1, EmptyElements
    <3>3. Matches(u)' = Matches(u) /\ Dead(u) = {} /\ (NobodyLeaves => Matches(u) # {})
      BY <2>1, <3>2 DEF Inv, Waits, Matches
    <3>4. Matches(u) \subseteq Tasks
      BY ElementsIn DEF Inv, TypeOK, Matches
    <3> QED
      BY <1>5, <3>3, <3>4 DEF Dead
  <2> QED
    BY <2>2, <2>3
<1>18. Waits'
  BY <1>17 DEF Waits
<1> QED
  BY <1>4, <1>6, <1>11, <1>12, <1>13, <1>14, <1>15, <1>16, <1>18 DEF Inv

\* What follows the drop of a task: nothing, or the rest of its group.
AfterDrop ==
  \/ exiting' = Idle
  \/ exiting' = [exiting EXCEPT !.stage = "collect"] /\ exiting.group = exiting.task

\* A block nobody has as its child is dropped.
LEMMA DropMoves ==
  ASSUME Inv, exiting.stage \in {"tid", "drop", "collect"},
         exiting.stage = "tid" => exiting.task \in Tasks,
         AfterDrop \/ (exiting' = [exiting EXCEPT !.stage = "drop"] /\ exiting.stage = "tid")
  PROVE  /\ exiting' \in [stage : Stages \cup {"idle"}, task : Tasks \cup {NoTask},
                           group : Tasks \cup {NoTask}, rest : Seq(Tasks), collected : BOOLEAN]
         /\ exiting'.stage \in {"idle", "drop", "collect"}
         /\ exiting'.stage = "idle" => exiting' = Idle
         /\ exiting'.stage # "idle" =>
              /\ exiting'.task = exiting.task /\ exiting'.group = exiting.group
              /\ exiting'.rest = exiting.rest
         /\ exiting'.stage = "collect" => exiting'.group = exiting.task
         /\ exiting'.stage = "drop" => exiting.stage = "tid"
<1>1. CASE exiting' = Idle
  BY <1>1, SeqIsEmpty DEF Idle
<1>2. CASE exiting' = [exiting EXCEPT !.stage = "collect"] /\ exiting.group = exiting.task
  BY <1>2, StageMoves DEF Stages
<1>3. CASE exiting' = [exiting EXCEPT !.stage = "drop"] /\ exiting.stage = "tid"
  BY <1>3, StageMoves DEF Stages
<1> QED
  BY <1>1, <1>2, <1>3 DEF AfterDrop

\* The last stages change nothing but the stage.
LEMMA LastStageKeeps ==
  ASSUME Inv, exiting.stage \in {"tid", "drop", "collect"}, TMTypeOK', Queued',
         UNCHANGED <<status, current, tgid, parent, children, exit_signal, killed, pc, arg>>,
         clear_child_tid' = clear_child_tid,
         \/ AfterDrop
         \/ /\ exiting' = [exiting EXCEPT !.stage = "drop"] /\ exiting.stage = "tid"
            /\ Disowned(exiting.task)
  PROVE  Inv'
<1>1. /\ exiting.task \in Tasks \ {INITPROC} /\ current = NoTask /\ exiting.rest = <<>>
      /\ status[exiting.task] \in {"Zombie", NoTCB}
      /\ exiting.stage = "tid" => status[exiting.task] = "Zombie"
  BY LeavingTask
<1>2. /\ exiting' \in [stage : Stages \cup {"idle"}, task : Tasks \cup {NoTask},
                        group : Tasks \cup {NoTask}, rest : Seq(Tasks), collected : BOOLEAN]
      /\ exiting'.stage \in {"idle", "drop", "collect"}
      /\ exiting'.stage = "idle" => exiting' = Idle
      /\ exiting'.stage # "idle" =>
           /\ exiting'.task = exiting.task /\ exiting'.group = exiting.group
           /\ exiting'.rest = exiting.rest
      /\ exiting'.stage = "collect" => exiting'.group = exiting.task
      /\ exiting'.stage = "drop" => exiting.stage = "tid"
  BY <1>1, DropMoves
<1>3. Leaving' = {} /\ Leaving = {}
  BY <1>2 DEF Leaving
<1>4. TypeOK'
  BY <1>2 DEF Inv, TypeOK
<1>5. OneThread' /\ Signalled' /\ Rooted'
  BY DEF Inv, OneThread, Signalled, Rooted, Live
<1>6. Runs' /\ DiesInUser'
  BY <1>3 DEF Inv, Runs, DiesInUser
<1>7. Staged'
  <2>1. exiting.group \in {NoTask, exiting.task}
    BY DEF Inv, Staged
  <2>2. exiting'.stage = "drop" => Disowned(exiting.task)'
    <3>1. exiting'.stage = "drop" => ~AfterDrop
      <4>1. Idle.stage = "idle"
        BY DEF Idle
      <4>2. exiting' = [exiting EXCEPT !.stage = "collect"] => exiting'.stage = "collect"
        BY StageMoves DEF Stages
      <4> QED
        BY <4>1, <4>2 DEF AfterDrop
    <3> QED
      BY <1>2, <3>1 DEF Disowned
  <2> QED
    BY <1>1, <1>2, <2>1, <2>2 DEF Staged, Disowned
<1>8. FamilyTree'
  BY FamilyKept DEF Inv, TypeOK, Live
<1>9. ToldFirst'
  BY <1>2 DEF ToldFirst
<1>10. Waits'
  BY StillWaits DEF Waits
<1> QED
  BY <1>4, <1>5, <1>6, <1>7, <1>8, <1>9, <1>10 DEF Inv

\* Of a process alone in its group.
LEMMA AfterExitIs ==
  ASSUME Inv, exiting.stage # "idle", exiting' = AfterExit
  PROVE  AfterDrop
<1>1. exiting.rest = <<>> /\ exiting.group \in {NoTask, exiting.task}
  BY DEF Inv, Staged
<1> QED
  BY <1>1 DEF AfterExit, NextExit, AfterDrop

LEMMA TidKeeps ==
  ASSUME Inv, clear_tid
  PROVE  Inv'
<1>1. exiting.stage = "tid" /\ exiting.task \in Tasks
  BY DEF clear_tid, Inv, Staged
<1>2. ~clear_child_tid[exiting.task] /\ UNCHANGED tmvars
  BY <1>1 DEF Inv, OneThread, clear_tid
<1>3. clear_child_tid' = clear_child_tid
  BY <1>1, <1>2, SMT DEF clear_tid, Inv, TypeOK, OneThread
<1>4. \/ AfterDrop
      \/ exiting' = [exiting EXCEPT !.stage = "drop"] /\ Disowned(exiting.task)
  BY <1>1, AfterExitIs DEF clear_tid
<1>5. TMTypeOK' /\ Queued'
  BY <1>2 DEF tmvars, Inv, TypeOK, TMTypeOK, Queued, HasStatus
<1> QED
  BY <1>1, <1>2, <1>3, <1>4, <1>5, LastStageKeeps DEF clear_tid, tmvars

\* do_exit() gives up the block of a task that is nobody's child.
LEMMA DropKeeps ==
  ASSUME Inv, drop_task
  PROVE  Inv'
<1> DEFINE t == exiting.task
<1>1. /\ exiting.stage = "drop"
      /\ UNCHANGED <<tgid, parent, children, exit_signal, clear_child_tid, killed, pc, arg>>
      /\ release(t) \/ UNCHANGED tmvars
  BY DEF drop_task
<1>2. /\ t \in Tasks \ {INITPROC} /\ current = NoTask /\ exiting.rest = <<>>
      /\ status[t] = "Zombie" /\ Disowned(t)
  BY <1>1, LeavingTask DEF Inv, Staged
<1>3. AfterDrop
  BY <1>1, AfterExitIs DEF drop_task
<1>4. TMTypeOK /\ Queued /\ FamilyTree /\ children \in [Tasks -> Seq(Tasks)]
      /\ parent \in [Tasks -> Tasks \cup {NoTask}]
  BY DEF Inv, TypeOK
<1>5. CASE UNCHANGED tmvars
  <2>1. TMTypeOK' /\ Queued'
    BY <1>4, <1>5 DEF tmvars, TMTypeOK, Queued, HasStatus
  <2> QED
    BY <1>1, <1>3, <1>5, <2>1, LastStageKeeps DEF tmvars
<1>6. CASE release(t)
  <2>1. /\ UNCHANGED <<ready_queue, interruptible_queue, current>>
        /\ \A u \in Tasks : status'[u] = IF u = t THEN NoTCB ELSE status[u]
        /\ status' = [status EXCEPT ![t] = NoTCB]
    BY <1>4, <1>6 DEF release, TMTypeOK
  <2>2. /\ exiting' \in [stage : Stages \cup {"idle"}, task : Tasks \cup {NoTask},
                          group : Tasks \cup {NoTask}, rest : Seq(Tasks), collected : BOOLEAN]
        /\ exiting'.stage \in {"idle", "drop", "collect"} /\ exiting'.stage # "drop"
        /\ exiting'.stage = "idle" => exiting' = Idle
        /\ exiting'.stage # "idle" =>
             /\ exiting'.task = exiting.task /\ exiting'.group = exiting.group
             /\ exiting'.rest = exiting.rest
        /\ exiting'.stage = "collect" => exiting'.group = exiting.task
    BY <1>1, <1>3, DropMoves
  <2>t. t = exiting.task
    OBVIOUS
  <2> HIDE DEF t
  <2>3. \A u \in Tasks : /\ status'[u] = "Ready" <=> status[u] = "Ready"
                         /\ status'[u] = "Interruptible" <=> status[u] = "Interruptible"
                         /\ status'[u] = "Running" <=> status[u] = "Running"
                         /\ status'[u] = "Zombie" => status[u] = "Zombie"
                         /\ Live(u) => Live(u)' /\ u # t
                         /\ status'[u] # NoTCB => status[u] # NoTCB /\ u # t
    BY <1>2, <2>1, SMT DEF NoTCB, Live
  <2>4. TMTypeOK' /\ Queued'
    <3>1. TMTypeOK'
      BY <1>2, <1>4, <2>1 DEF TMTypeOK, NoTCB
    <3> QED
      BY <1>4, <2>1, <2>3, <3>1 DEF Queued, HasStatus
  <2>5. TypeOK'
    BY <1>1, <2>2, <2>4 DEF Inv, TypeOK
  <2>6. Leaving' = {} /\ Leaving = {}
    BY <1>1, <2>2 DEF Leaving
  <2>7. OneThread' /\ Signalled' /\ Runs' /\ DiesInUser'
    BY <1>1, <2>1, <2>3, <2>6 DEF Inv, OneThread, Signalled, Runs, DiesInUser
  <2>8. Staged' /\ ToldFirst'
    <3>1. exiting.group \in {NoTask, exiting.task}
      BY <1>1 DEF Inv, Staged
    <3> QED
      BY <1>2, <2>1, <2>2, <2>t, <3>1 DEF Staged, ToldFirst
  <2>9. Rooted'
    BY <1>1, <2>3, ProcessAssumption DEF Inv, Rooted
  <2>10. FamilyTree'
    <3>1. ASSUME NEW u \in Tasks, NEW c \in Range(children[u])
          PROVE  parent[c] = u /\ status'[c] # NoTCB
      <4>1. c \in Tasks /\ parent[c] = u /\ status[c] # NoTCB
        BY <1>4, <3>1, ElementsIn DEF FamilyTree
      <4>2. c # t
        BY <1>2, <3>1 DEF Disowned
      <4> QED
        BY <2>1, <4>1, <4>2
    <3>2. ASSUME NEW c \in Tasks \ {INITPROC}, status'[c] # NoTCB, parent[c] # NoTask
          PROVE  c \in Range(children[parent[c]]) /\ Live(parent[c])'
      <4>1. status[c] # NoTCB /\ parent[c] \in Tasks
        BY <1>4, <2>3, <3>2
      <4>2. c \in Range(children[parent[c]]) /\ Live(parent[c])
        BY <1>1, <1>4, <3>2, <4>1 DEF FamilyTree
      <4> QED
        BY <2>3, <4>1, <4>2, <1>1 DEF Live
    <3>3. \A u \in Tasks : IsInjective(children[u])
      BY <1>4 DEF FamilyTree
    <3> QED
      BY <1>1, <3>1, <3>2, <3>3 DEF FamilyTree, Live
  <2>11. Waits'
    BY <1>1, <2>3, StillWaits DEF Waits
  <2> QED
    BY <2>4, <2>5, <2>7, <2>8, <2>9, <2>10, <2>11 DEF Inv
<1> QED
  BY <1>1, <1>5, <1>6

\* exit_group() finds no other thread of the group in the queues.
LEMMA CollectKeeps ==
  ASSUME Inv, collect_group
  PROVE  Inv'
<1>1. /\ exiting.stage = "collect" /\ exiting.task \in Tasks /\ exiting.group = exiting.task
      /\ status[exiting.task] \in {"Zombie", NoTCB}
  BY DEF collect_group, Inv, Staged
<1>2. /\ InQueue(exiting.group) = {} /\ Others(exiting.group) = DOMAIN ready_queue
      /\ {t \in Group(exiting.group) : interruptible_queue[t] > 0} = {}
      /\ interruptible_queue' = interruptible_queue
  BY <1>1, GroupIsNotQueued DEF collect_group, NoTCB
<1>3. ready_queue \in Seq(Tasks) /\ IsInjective(ready_queue)
  BY DEF Inv, TypeOK, TMTypeOK, Queued
<1>4. exiting' = Idle
  <2>1. PICK ready \in Picks(ready_queue, {}), asleep \in {<<>>} : exiting' = NextExit(ready \o asleep)
    BY <1>2 DEF collect_group, Orders
  <2>2. ready = <<>> /\ asleep = <<>>
    BY <1>3, <2>1, PicksNothing
  <2>3. ready \o asleep = <<>>
    BY <2>2, SMT
  <2> QED
    BY <2>1, <2>3 DEF NextExit
<1>5. /\ ready_queue' \in Seq(Tasks) /\ Range(ready_queue') = Range(ready_queue)
      /\ IsInjective(ready_queue')
  <2>1. ready_queue' \in Picks(ready_queue, DOMAIN ready_queue)
    BY <1>2 DEF collect_group
  <2> QED
    BY <1>3, <2>1, PicksEverything
<1>6. status' = status /\ current' = current
  BY DEF collect_group
<1>7. TMTypeOK' /\ Queued'
  BY <1>2, <1>5, <1>6 DEF Inv, TypeOK, TMTypeOK, Queued, HasStatus
<1> QED
  BY <1>1, <1>4, <1>6, <1>7, LastStageKeeps DEF collect_group, AfterDrop

-----------------------------------------------------------------------------
(* sys_clone() and the reaping round of wait4(). *)

LEMMA CloneKeepsFamily ==
  ASSUME Inv, exiting = Idle, UNCHANGED exiting, NEW c \in Tasks, NEW p \in Tasks \cup {NoTask},
         status[c] = NoTCB, p # NoTask => Live(p),
         parent' = [parent EXCEPT ![c] = p],
         children' = [u \in Tasks |-> IF u = c THEN <<>>
                                     ELSE IF u = p THEN Append(children[u], c) ELSE children[u]],
         \A u \in Tasks : status'[u] = IF u = c THEN "Ready" ELSE status[u]
  PROVE  FamilyTree' /\ children' \in [Tasks -> Seq(Tasks)]
<1>1. /\ children \in [Tasks -> Seq(Tasks)] /\ parent \in [Tasks -> Tasks \cup {NoTask}]
      /\ FamilyTree /\ c # p /\ exiting.stage # "orphans" /\ NoTask \notin Tasks
  BY NoTaskAssumption DEF Inv, TypeOK, Live, Idle
<1>2. \A u \in Tasks : children[u] \in Seq(Tasks) /\ Range(children[u]) \subseteq Tasks
  BY <1>1, ElementsIn
<1>3. \A u \in Tasks : c \notin Range(children[u])
  BY <1>1 DEF FamilyTree
<1>4. /\ children'[c] = <<>> /\ p \in Tasks => children'[p] = Append(children[p], c)
      /\ \A u \in Tasks \ {c, p} : children'[u] = children[u]
  BY <1>1
<1>5. \A u \in Tasks : parent'[u] = IF u = c THEN p ELSE parent[u]
  BY <1>1
<1>6. ASSUME p \in Tasks
      PROVE  /\ children'[p] \in Seq(Tasks) /\ Range(children'[p]) = Range(children[p]) \cup {c}
             /\ IsInjective(children'[p])
  <2>1. IsInjective(children[p]) /\ children[p] \in Seq(Tasks) /\ c \notin Range(children[p])
    BY <1>1, <1>2, <1>3, <1>6 DEF FamilyTree
  <2>2. /\ Append(children[p], c) \in Seq(Tasks)
        /\ Range(Append(children[p], c)) = Range(children[p]) \cup {c}
    BY <2>1, PushElements, SMT
  <2>3. IsInjective(Append(children[p], c))
    BY <2>1, PushInjective
  <2> QED
    BY <1>4, <1>6, <2>2, <2>3
<1>7. Range(children'[c]) = {} /\ IsInjective(children'[c]) /\ children'[c] \in Seq(Tasks)
  BY <1>4, EmptyElements, SeqIsEmpty
<1>8. \A u \in Tasks : IsInjective(children'[u])
  BY <1>1, <1>4, <1>6, <1>7 DEF FamilyTree
<1>9. children' \in [Tasks -> Seq(Tasks)]
  <2>1. \A u \in Tasks : children'[u] \in Seq(Tasks)
    BY <1>2, <1>4, <1>6, <1>7
  <2>2. children' = [u \in Tasks |-> children'[u]]
    BY SMT
  <2> QED
    BY <2>1, <2>2
<1>10. ASSUME NEW u \in Tasks, NEW d \in Range(children'[u])
       PROVE  parent'[d] = u /\ status'[d] # NoTCB
  <2>1. CASE d = c
    <3>1. u = p
      BY <1>3, <1>4, <1>7, <1>10, <2>1
    <3> QED
      BY <1>5, <2>1, <3>1 DEF NoTCB
  <2>2. CASE d # c
    <3>1. d \in Range(children[u])
      BY <1>4, <1>6, <1>7, <1>10, <2>2
    <3>2. parent[d] = u /\ status[d] # NoTCB /\ d \in Tasks
      BY <1>1, <1>2, <3>1 DEF FamilyTree
    <3> QED
      BY <1>5, <2>2, <3>2
  <2> QED
    BY <2>1, <2>2
<1>11. ASSUME NEW d \in Tasks \ {INITPROC}, status'[d] # NoTCB, parent'[d] # NoTask
       PROVE  d \in Range(children'[parent'[d]]) /\ Live(parent[d])'
  <2>1. CASE d = c
    <3>1. parent'[d] = p /\ p \in Tasks /\ Live(p)
      BY <1>5, <1>11, <2>1
    <3>2. status'[p] = status[p] /\ d \in Range(children'[p])
      BY <1>1, <1>6, <2>1, <3>1
    <3> QED
      BY <3>1, <3>2 DEF Live
  <2>2. CASE d # c
    <3>1. parent[d] # NoTask /\ d \in Range(children[parent[d]]) /\ Live(parent[d])
      BY <1>1, <1>5, <1>11, <2>2 DEF FamilyTree
    <3>2. parent[d] \in Tasks /\ parent'[d] = parent[d] /\ parent[d] # c
      BY <1>1, <1>5, <2>2, <3>1, ZenonT(60) DEF Live
    <3>3. d \in Range(children'[parent[d]])
      BY <1>4, <1>6, <3>1, <3>2
    <3>4. status'[parent[d]] = status[parent[d]]
      BY <3>2
    <3> QED
      BY <3>1, <3>2, <3>3, <3>4 DEF Live
  <2> QED
    BY <2>1, <2>2
<1> QED
  BY <1>8, <1>9, <1>10, <1>11 DEF FamilyTree, Live

LEMMA CloneKeeps ==
  ASSUME Inv, NEW t \in Tasks, NEW c \in Tasks, NEW sibling \in BOOLEAN,
         sys_clone(t, c, FALSE, sibling)
  PROVE  Inv'
<1> DEFINE p == IF sibling THEN parent[t] ELSE t
<1>1. /\ exiting = Idle /\ current = t /\ status[t] = "Running"
      /\ \A u \in Tasks : status[u] = "Running" <=> u = t
  BY RunningTask DEF sys_clone, InUser
<1>2. TMTypeOK /\ Queued /\ add_task(c) /\ status[c] = NoTCB
  BY DEF sys_clone, add_task, Inv, TypeOK
<1>3. /\ tgid' = [tgid EXCEPT ![c] = c]
      /\ parent' = [parent EXCEPT ![c] = p]
      /\ children' = [u \in Tasks |-> IF u = c THEN <<>>
                                    ELSE IF u = p THEN Append(children[u], c) ELSE children[u]]
      /\ exit_signal' = [exit_signal EXCEPT ![c] = TRUE]
      /\ clear_child_tid' = [clear_child_tid EXCEPT ![c] = FALSE]
      /\ killed' = [killed EXCEPT ![c] = FALSE]
      /\ pc' = [pc EXCEPT ![c] = "user"]
      /\ arg' = [arg EXCEPT ![c] = NoArg]
      /\ exiting' = exiting
  BY DEF sys_clone
<1>4. p \in Tasks \cup {NoTask} /\ (p # NoTask => Live(p))
  <2>1. CASE ~sibling
    BY <1>1, <2>1 DEF Live, NoTCB
  <2>2. CASE sibling
    <3>1. t # INITPROC
      BY <2>2 DEF sys_clone
    <3>2. parent[t] # NoTask => Live(parent[t])
      BY <1>1, <3>1 DEF Inv, FamilyTree, Idle, NoTCB
    <3> QED
      BY <2>2, <3>2 DEF Inv, TypeOK
  <2> QED
    BY <2>1, <2>2
<1> HIDE DEF p
<1>5. /\ TMTypeOK' /\ Queued' /\ current' = current
      /\ \A u \in Tasks : status'[u] = IF u = c THEN "Ready" ELSE status[u]
  BY <1>2, Added
<1>6. FamilyTree' /\ children' \in [Tasks -> Seq(Tasks)]
  BY <1>1, <1>2, <1>3, <1>4, <1>5, CloneKeepsFamily
<1>7. /\ tgid' \in [Tasks -> Tasks] /\ parent' \in [Tasks -> Tasks \cup {NoTask}]
      /\ pc' \in [Tasks -> Places]
      /\ arg' \in [Tasks -> [pid : Tasks \cup {NoTask}, nohang : BOOLEAN]]
  <2>1. NoArg \in [pid : Tasks \cup {NoTask}, nohang : BOOLEAN] /\ "user" \in Places
    BY DEF NoArg, Places
  <2> QED
    BY <1>3, <1>4, <2>1 DEF Inv, TypeOK
<1>8. /\ exit_signal' \in [Tasks -> BOOLEAN] /\ clear_child_tid' \in [Tasks -> BOOLEAN]
      /\ killed' \in [Tasks -> BOOLEAN]
  BY <1>3 DEF Inv, TypeOK
<1>9. TypeOK'
  BY <1>3, <1>5, <1>6, <1>7, <1>8 DEF Inv, TypeOK
<1>10. OneThread'
  BY <1>3 DEF Inv, TypeOK, OneThread
<1>11. Signalled'
  BY <1>3, <1>5 DEF Inv, TypeOK, Signalled
<1>12. exiting'.stage = "idle" /\ exiting' = Idle /\ Leaving' = {} /\ Leaving = {}
  BY <1>1, <1>3 DEF Idle, Leaving
<1>13. Runs'
  BY <1>1, <1>2, <1>5, <1>12 DEF Runs, NoTCB
<1>14. Staged' /\ ToldFirst'
  BY <1>12 DEF Staged, ToldFirst
<1>15. DiesInUser'
  BY <1>3, <1>5, <1>12 DEF Inv, TypeOK, DiesInUser
<1>16. Rooted'
  BY <1>2, <1>3, <1>5, ProcessAssumption DEF Inv, TypeOK, Rooted, Live
<1>17. ASSUME NEW u \in Tasks, status'[u] = "Interruptible", pc'[u] = "wait4"
       PROVE  Dead(u)' = {} /\ (NobodyLeaves => Matches(u)' # {})
  <2>1. u # c /\ status[u] = "Interruptible" /\ pc[u] = "wait4" /\ arg'[u] = arg[u]
    BY <1>3, <1>5, <1>17 DEF Inv, TypeOK
  <2>2. \A k \in Tasks : status'[k] = "Zombie" => status[k] = "Zombie"
    BY <1>5
  <2>3. CASE u # p
    <3>1. children'[u] = children[u]
      BY <1>3, <2>1, <2>3 DEF Inv, TypeOK
    <3> QED
      BY <2>1, <2>2, <3>1, StillWaits
  <2>4. CASE u = p
    <3>1. Range(children'[u]) = Range(children[u]) \cup {c}
      <4>1. children'[u] = Append(children[u], c) /\ children[u] \in Seq(Tasks)
        BY <1>3, <2>1, <2>4 DEF Inv, TypeOK
      <4> QED
        BY <4>1, PushElements, SMT
    <3>2. Dead(u) = {} /\ (NobodyLeaves => Matches(u) # {})
      BY <2>1 DEF Inv, Waits
    <3>3. Matches(u) \subseteq Matches(u)' /\ Matches(u)' \subseteq Matches(u) \cup {c}
      BY <2>1, <3>1 DEF Matches
    <3>4. Matches(u) \subseteq Tasks
      BY ElementsIn DEF Inv, TypeOK, Matches
    <3>5. status'[c] # "Zombie"
      BY <1>5
    <3> QED
      BY <2>2, <3>2, <3>3, <3>4, <3>5 DEF Dead
  <2> QED
    BY <2>3, <2>4
<1>18. Waits'
  BY <1>17 DEF Waits
<1> QED
  BY <1>5, <1>6, <1>9, <1>10, <1>11, <1>13, <1>14, <1>15, <1>16, <1>18 DEF Inv

LEMMA ReapKeeps ==
  ASSUME Inv, NEW t \in Tasks, Wait4Reap(t)
  PROVE  Inv'
<1>1. PICK i \in DOMAIN children[t] :
        /\ FirstDead(t, i) /\ release(children[t][i])
        /\ children' = [children EXCEPT ![t] = Without(@, i)]
        /\ IF tgid[children[t][i]] = children[t][i] THEN Leave(t) ELSE UNCHANGED <<pc, arg>>
  BY DEF Wait4Reap
<1> DEFINE c == children[t][i]
<1>2. /\ exiting = Idle /\ current = t /\ pc[t] = "wait4" /\ status[t] = "Running"
      /\ \A u \in Tasks : status[u] = "Running" <=> u = t
  BY RunningTask DEF Wait4Reap
<1>3. /\ TMTypeOK /\ Queued /\ FamilyTree /\ children \in [Tasks -> Seq(Tasks)]
      /\ parent \in [Tasks -> Tasks \cup {NoTask}] /\ children[t] \in Seq(Tasks)
  BY DEF Inv, TypeOK
<1>4. /\ UNCHANGED <<tgid, parent, exit_signal, clear_child_tid, killed, exiting>>
      /\ UNCHANGED <<ready_queue, interruptible_queue, current>>
      /\ status[c] = "Zombie" /\ status' = [status EXCEPT ![c] = NoTCB]
  BY <1>1 DEF Wait4Reap, release
<1>5. c \in Range(children[t]) /\ c \in Tasks
  BY <1>1, <1>3, ElementsIn, SMT DEF Range
<1>6. /\ Without(children[t], i) \in Seq(Tasks) /\ IsInjective(Without(children[t], i))
      /\ Range(Without(children[t], i)) = Range(children[t]) \ {c}
  <2>1. IsInjective(children[t])
    BY <1>3 DEF FamilyTree
  <2> QED
    BY <1>1, <1>3, <2>1, WithoutElements
<1>7. /\ children' \in [Tasks -> Seq(Tasks)] /\ children'[t] = Without(children[t], i)
      /\ \A u \in Tasks \ {t} : children'[u] = children[u]
  BY <1>1, <1>3, <1>6
<1>8. pc' = [pc EXCEPT ![t] = "user"] /\ arg' = [arg EXCEPT ![t] = NoArg]
  BY <1>1, <1>5 DEF Inv, OneThread, Leave
<1> HIDE DEF c
<1>9. \A u \in Tasks : status'[u] = IF u = c THEN NoTCB ELSE status[u]
  BY <1>3, <1>4 DEF TMTypeOK
<1>10. TMTypeOK' /\ Queued'
  <2>1. TMTypeOK'
    BY <1>3, <1>4, <1>5 DEF TMTypeOK, NoTCB
  <2>2. \A u \in Tasks : /\ status'[u] = "Ready" <=> status[u] = "Ready"
                         /\ status'[u] = "Interruptible" <=> status[u] = "Interruptible"
    BY <1>4, <1>9, SMT DEF NoTCB
  <2> QED
    BY <1>3, <1>4, <2>1, <2>2 DEF Queued, HasStatus
<1>11. /\ pc' \in [Tasks -> Places]
       /\ \A u \in Tasks : pc'[u] = IF u = t THEN "user" ELSE pc[u]
       /\ arg' \in [Tasks -> [pid : Tasks \cup {NoTask}, nohang : BOOLEAN]]
       /\ \A u \in Tasks \ {t} : arg'[u] = arg[u]
  BY <1>8 DEF Inv, TypeOK, Places, NoArg
<1>12. TypeOK'
  BY <1>4, <1>7, <1>10, <1>11 DEF Inv, TypeOK
<1>13. exiting'.stage = "idle" /\ exiting' = Idle /\ Leaving' = {} /\ exiting.stage = "idle"
  BY <1>2, <1>4 DEF Idle, Leaving
<1>14. OneThread' /\ Signalled'
  BY <1>4, <1>9 DEF Inv, OneThread, Signalled
<1>15. Runs'
  BY <1>2, <1>4, <1>9, <1>13, SMT DEF Runs, NoTCB
<1>16. Staged' /\ ToldFirst'
  BY <1>13 DEF Staged, ToldFirst
<1>17. DiesInUser'
  BY <1>9, <1>11, <1>13 DEF Inv, DiesInUser, NoTCB
<1>18. Rooted'
  BY <1>4, <1>9, ProcessAssumption DEF Inv, Rooted, Live
<1>19. \A u \in Tasks : IsInjective(children'[u])
  <2>1. \A u \in Tasks : IsInjective(children[u])
    BY <1>3 DEF FamilyTree
  <2>2. IsInjective(children'[t]) /\ \A u \in Tasks \ {t} : children'[u] = children[u]
    BY <1>6, <1>7
  <2> QED
    BY <2>1, <2>2
<1>20. ASSUME NEW u \in Tasks, NEW d \in Range(children'[u])
       PROVE  parent'[d] = u /\ status'[d] # NoTCB
  <2>1. d \in Range(children[u]) /\ d # c
    <3>1. CASE u = t
      BY <1>6, <1>7, <1>20, <3>1
    <3>2. CASE u # t
      BY <1>5, <1>7, <1>20, <3>2, OneParent
    <3> QED
      BY <3>1, <3>2
  <2>2. parent[d] = u /\ status[d] # NoTCB /\ d \in Tasks
    BY <1>3, <2>1, ElementsIn DEF FamilyTree
  <2> QED
    BY <1>4, <1>9, <2>1, <2>2
<1>21. ASSUME NEW d \in Tasks \ {INITPROC}, status'[d] # NoTCB, parent'[d] # NoTask
       PROVE  d \in Range(children'[parent'[d]]) /\ Live(parent[d])'
  <2>1. d # c /\ status[d] # NoTCB /\ parent[d] # NoTask
    BY <1>4, <1>9, <1>21
  <2>2. parent[d] # NoTask /\ d \in Range(children[parent[d]]) /\ Live(parent[d])
    BY <1>3, <1>13, <2>1 DEF FamilyTree
  <2>3. parent[d] \in Tasks /\ parent' = parent
    BY <1>3, <1>4, <2>2
  <2>4. d \in Range(children'[parent[d]])
    BY <1>6, <1>7, <2>1, <2>2, <2>3
  <2>5. parent[d] # c
    BY <1>4, <2>2 DEF Live
  <2>6. status'[parent[d]] = status[parent[d]]
    BY <1>9, <2>3, <2>5
  <2> QED
    BY <2>2, <2>3, <2>4, <2>6 DEF Live
<1>22. FamilyTree'
  BY <1>19, <1>20, <1>21 DEF FamilyTree, Live
<1>23. ASSUME NEW u \in Tasks, status'[u] = "Interruptible", pc'[u] = "wait4"
       PROVE  Dead(u)' = {} /\ (NobodyLeaves => Matches(u)' # {})
  <2>1. /\ status[u] = "Interruptible" /\ pc[u] = "wait4" /\ u # t /\ arg'[u] = arg[u]
        /\ children'[u] = children[u] /\ \A k \in Tasks : status'[k] = "Zombie" => status[k] = "Zombie"
    BY <1>4, <1>7, <1>9, <1>11, <1>23, SMT DEF NoTCB
  <2> QED
    BY <2>1, StillWaits
<1>24. Waits'
  BY <1>23 DEF Waits
<1> QED
  BY <1>10, <1>12, <1>14, <1>15, <1>16, <1>17, <1>18, <1>22, <1>24 DEF Inv

-----------------------------------------------------------------------------
LEMMA InitHolds ==
  ASSUME Init
  PROVE  Inv
<1>1. /\ status \in [Tasks -> TaskStatus \cup {NoTCB}] /\ ready_queue = <<INITPROC>>
      /\ INITPROC \in Tasks /\ current = NoTask
      /\ \A t \in Tasks : status[t] = IF t = INITPROC THEN "Ready" ELSE NoTCB
      /\ \A t \in Tasks : interruptible_queue[t] = 0 /\ tgid[t] = t /\ parent[t] = NoTask
      /\ \A t \in Tasks : children[t] = <<>> /\ ~clear_child_tid[t] /\ pc[t] = "user"
  BY ProcessAssumption DEF Init, TaskStatus
<1>2. ready_queue \in Seq(Tasks) /\ Range(ready_queue) = {INITPROC} /\ IsInjective(ready_queue)
  BY <1>1, SMT DEF Range, IsInjective
<1>3. exiting = Idle /\ exiting.stage = "idle"
  BY DEF Init, Idle
<1>4. TMTypeOK
  BY <1>1, <1>2 DEF Init, TMTypeOK
<1>5. /\ exit_signal \in [Tasks -> BOOLEAN] /\ clear_child_tid \in [Tasks -> BOOLEAN]
      /\ killed \in [Tasks -> BOOLEAN]
  BY DEF Init
<1>6. TypeOK
  <2>1. Idle \in [stage : Stages \cup {"idle"}, task : Tasks \cup {NoTask},
                  group : Tasks \cup {NoTask}, rest : Seq(Tasks), collected : BOOLEAN]
    BY SeqIsEmpty DEF Idle
  <2>2. NoArg \in [pid : Tasks \cup {NoTask}, nohang : BOOLEAN]
    BY DEF NoArg
  <2>3. children \in [Tasks -> Seq(Tasks)]
    BY SeqIsEmpty DEF Init
  <2> QED
    BY <1>3, <1>4, <1>5, <2>1, <2>2, <2>3 DEF Init, TypeOK, Places
<1>7. Queued
  BY <1>1, <1>2, SMT DEF Queued, HasStatus, NoTCB
<1>8. OneThread /\ Signalled /\ Rooted
  BY <1>1 DEF OneThread, Signalled, Rooted, Live, NoTCB
<1>9. Leaving = {}
  BY <1>3 DEF Leaving
<1>10. Runs /\ DiesInUser /\ Staged /\ ToldFirst
  BY <1>1, <1>3, <1>9, NoTaskAssumption DEF Runs, DiesInUser, Staged, ToldFirst, NoTCB
<1>11. FamilyTree
  BY <1>1, EmptyElements DEF FamilyTree
<1>12. Waits
  BY <1>1 DEF Waits, NoTCB
<1> QED
  BY <1>6, <1>7, <1>8, <1>10, <1>11, <1>12 DEF Inv

LEMMA StepKeeps ==
  ASSUME SingleThreaded, OnlyChildrenLeave, Inv, [Next]_vars
  PROVE  Inv'
<1>1. CASE Schedule
  BY <1>1, ScheduleKeeps
<1>2. CASE Exit
  BY <1>2, NotifyKeeps, ZombieKeeps, OrphansKeep, TidKeeps, DropKeeps, CollectKeeps DEF Exit
<1>3. ASSUME NEW t \in Tasks, Clone(t)
      PROVE  Inv'
  BY <1>3, CloneKeeps DEF Clone, SingleThreaded
<1>4. ASSUME NEW t \in Tasks, sys_exit(t) \/ sys_exit_group(t) \/ do_signal(t)
      PROVE  Inv'
  <2>1. tgid[t] = t
    BY DEF Inv, OneThread
  <2>2. Resumed(t, "user") /\ \E g \in {NoTask, t} : BeginExit(t, g)
    BY <1>4, <2>1 DEF sys_exit, sys_exit_group, do_signal, InUser
  <2> QED
    BY <2>2, BeginExitKeeps
<1>5. ASSUME NEW t \in Tasks,
             \/ sys_execve(t) \/ Sleep(t) \/ Timeout(t) \/ TimerInterrupt(t) \/ Return(t)
             \/ WaitRound(t) \/ Loop(t) \/ LoopRound(t) \/ sys_setsid(t)
      PROVE  Inv'
  BY <1>5, ExecveKeeps, SleepKeeps, TimeoutKeeps, TimerKeeps, ReturnKeeps, ReapKeeps,
     WaitReturnKeeps, WaitBlockKeeps, LoopKeeps, SetsidKeeps DEF WaitRound
<1>6. ASSUME NEW t \in Tasks, NEW pid \in Range(children[t]) \cup {NoTask}, NEW nohang \in BOOLEAN,
             Wait4(t, pid, nohang)
      PROVE  Inv'
  <2>1. pid \in Tasks \cup {NoTask}
    BY ElementsIn DEF Inv, TypeOK
  <2> QED
    BY <1>6, <2>1, WaitEntryKeeps
<1>7. ASSUME NEW t \in Tasks, NEW u \in Tasks, Join(t, u) \/ sys_kill(t, u)
      PROVE  Inv'
  BY <1>7, NobodyJoins, KillKeeps
<1>8. CASE UNCHANGED vars
  <2>1. UNCHANGED <<status, ready_queue, interruptible_queue, current>> /\ UNCHANGED pvars
    BY <1>8 DEF vars, tmvars
  <2>2. TypeOK' /\ OneThread' /\ Signalled'
    BY <2>1, SMT DEF pvars, Inv, TypeOK, TMTypeOK, OneThread, Signalled
  <2>3. Leaving' = Leaving
    BY <2>1 DEF pvars, Leaving
  <2>4. Queued' /\ Runs' /\ DiesInUser' /\ Rooted'
    BY <2>1, <2>3, SMT DEF pvars, Inv, Queued, HasStatus, Runs, DiesInUser, Rooted, Live
  <2>5. Staged' /\ FamilyTree' /\ ToldFirst'
    BY <2>1, <2>3, SMT DEF pvars, Inv, Staged, Disowned, FamilyTree, ToldFirst, Live
  <2>6. Waits'
    BY <2>1, SMT DEF pvars, Inv, Waits, Matches, Dead
  <2> QED
    BY <2>2, <2>4, <2>5, <2>6 DEF Inv
<1> QED
  BY <1>1, <1>2, <1>3, <1>4, <1>5, <1>6, <1>7, <1>8 DEF Next

LEMMA InvHolds ==
  ASSUME SingleThreaded, OnlyChildrenLeave
  PROVE  Spec => []Inv
<1>1. Init => Inv
  BY InitHolds
<1>2. Inv /\ [Next]_vars => Inv'
  BY StepKeeps
<1> QED
  BY <1>1, <1>2, PTL DEF Spec

\* The two copies of the parent relation (parent and children) agree after every
\* sys_clone, do_exit, wait4 and setsid, for any number of processes: the unwrap()
\* of do_exit (mod.rs:80) and of sys_clone (task.rs:655) finds a living parent.
\* setsid of a process with siblings breaks it and is left out.
THEOREM FamiliesHold ==
  ASSUME SingleThreaded, OnlyChildrenLeave
  PROVE  Spec => []FamilyTree
BY InvHolds, PTL DEF Inv

\* No wake-up of wait4 is lost between the test of the children and the sleep, nor
\* when the children of a dead task are handed to initproc.
THEOREM ExitsAreNoticed ==
  ASSUME SingleThreaded, OnlyChildrenLeave
  PROVE  Spec => []NoMissedExit
<1>1. Inv => NoMissedExit
  BY DEF Inv, Waits, NoMissedExit
<1> QED
  BY <1>1, InvHolds, PTL

\* As long as nobody calls setsid, whoever sleeps in wait4 has a child to wait for.
THEOREM WaitersHaveChildren ==
  ASSUME SingleThreaded, OnlyChildrenLeave, NobodyLeaves
  PROVE  Spec => []WaitsForSomebody
<1>1. Inv => WaitsForSomebody
  BY DEF Inv, Waits, WaitsForSomebody
<1> QED
  BY <1>1, InvHolds, PTL

\* Between two calls the queues and the statuses agree, and the assertion of
\* wait4 (process.rs:741) that a zombie is referenced from nowhere else holds.
THEOREM ReapingIsSafe ==
  ASSUME SingleThreaded, OnlyChildrenLeave
  PROVE  Spec => [](QueuesAgree /\ ReapIsLast)
<1>1. ASSUME Inv
      PROVE  QueuesAgree
  <2>1. ASSUME exiting = Idle
        PROVE  Leaving = {}
    BY <2>1 DEF Leaving, Idle
  <2> QED
    BY <1>1, <2>1 DEF Inv, Queued, Runs, QueuesAgree, StatusMatchesQueues
<1>2. ASSUME Inv, NEW t \in Tasks, Resumed(t, "wait4"), NEW c \in Dead(t)
      PROVE  OtherRefs(c) = {}
  <2>1. c \in Tasks /\ status[c] = "Zombie"
    BY <1>2, ElementsIn DEF Inv, TypeOK, Dead, Matches
  <2>2. c \notin Range(ready_queue) /\ interruptible_queue[c] = 0 /\ current # c /\ pc[c] = "user"
    BY <1>2, <2>1 DEF Inv, Queued, HasStatus, Runs, DiesInUser
  <2>3. {e \in DOMAIN ready_queue : ready_queue[e] = c} = {}
    BY <2>2 DEF Range
  <2> QED
    BY <2>2, <2>3, SMT DEF OtherRefs
<1>3. Inv => QueuesAgree /\ ReapIsLast
  BY <1>1, <1>2 DEF ReapIsLast
<1> QED
  BY <1>3, InvHolds, PTL

\* What a step may do to the status of a dead task.
LEMMA DeadStay ==
  ASSUME Inv, [Next]_vars, NEW z \in Tasks, status[z] = "Zombie"
  PROVE  status'[z] \in {"Zombie", NoTCB}
<1> DEFINE Stays == status'[z] \in {"Zombie", NoTCB}
<1>1. TMTypeOK /\ Queued /\ status \in [Tasks -> TaskStatus \cup {NoTCB}]
  BY DEF Inv, TypeOK, TMTypeOK
<1>2. ASSUME NEW u, NEW s, status[u] # "Zombie" \/ s \in {"Zombie", NoTCB},
             status' = [status EXCEPT ![u] = s]
      PROVE  Stays
  BY <1>1, <1>2
<1>3. ASSUME status' = status
      PROVE  Stays
  BY <1>3
<1>4. ASSUME NEW u, WakeIfAsleep(u) \/ wake(u)
      PROVE  Stays
  BY <1>2, <1>3, <1>4 DEF WakeIfAsleep, wake, tmvars
<1>5. ASSUME UNCHANGED tmvars
      PROVE  Stays
  BY <1>3, <1>5 DEF tmvars
<1> SUFFICES Stays
  OBVIOUS
<1> HIDE DEF Stays
<1>6. CASE Schedule
  <2>1. run_tasks
    BY <1>6 DEF Schedule
  <2>2. current' \in Tasks /\ status[current'] = "Ready" /\ status' = [status EXCEPT ![current'] = "Running"]
    BY <1>1, <2>1, Fetched DEF run_tasks
  <2> QED
    BY <1>2, <2>2
<1>7. CASE Exit
  <2>1. CASE notify_parent
    BY <1>4, <1>5, <2>1 DEF notify_parent
  <2>2. CASE become_zombie
    BY <1>2, <2>2 DEF become_zombie
  <2>3. CASE move_children
    BY <1>4, <1>5, <2>3 DEF move_children
  <2>4. CASE clear_tid
    BY <1>4, <1>5, <2>4 DEF clear_tid
  <2>5. CASE collect_group
    BY <1>3, <2>5 DEF collect_group
  <2>6. CASE drop_task
    BY <1>2, <1>5, <2>6 DEF drop_task, release
  <2> QED
    BY <1>7, <2>1, <2>2, <2>3, <2>4, <2>5, <2>6 DEF Exit
<1>8. ASSUME NEW t \in Tasks, Clone(t)
      PROVE  Stays
  <2>1. PICK c \in Tasks : add_task(c)
    BY <1>8 DEF Clone, sys_clone
  <2> QED
    BY <1>2, <2>1 DEF add_task, NoTCB
<1>9. ASSUME NEW t \in Tasks, suspend_current_and_run_next \/ block_current_and_run_next, NEW c,
             Resumed(t, c)
      PROVE  Stays
  <2>1. current = t /\ status[t] = "Running"
    BY <1>9, RunningTask
  <2> QED
    BY <1>2, <1>9, <2>1 DEF suspend_current_and_run_next, block_current_and_run_next
<1>10. ASSUME NEW t \in Tasks,
              \/ sys_exit(t) \/ sys_exit_group(t) \/ sys_execve(t) \/ Timeout(t)
              \/ do_signal(t) \/ Return(t) \/ Wait4Return(t)
       PROVE  Stays
  BY <1>3, <1>4, <1>5, <1>10
     DEF sys_exit, sys_exit_group, do_signal, BeginExit, sys_execve, Timeout, Return, Wait4Return
<1>11. ASSUME NEW t \in Tasks,
              \/ Sleep(t) \/ TimerInterrupt(t) \/ Wait4Block(t) \/ Loop(t) \/ LoopRound(t)
       PROVE  Stays
  BY <1>5, <1>9, <1>11 DEF Sleep, TimerInterrupt, Wait4Block, Loop, LoopRound, InUser
<1>16. ASSUME NEW t \in Tasks, sys_setsid(t)
       PROVE  Stays
  BY <1>16 DEF sys_setsid, Stays
<1>12. ASSUME NEW t \in Tasks, Wait4Reap(t)
       PROVE  Stays
  <2>1. PICK c : release(c)
    BY <1>12 DEF Wait4Reap
  <2> QED
    BY <1>2, <2>1 DEF release
<1>13. ASSUME NEW t \in Tasks, NEW pid, NEW nohang, Wait4(t, pid, nohang)
       PROVE  Stays
  BY <1>5, <1>13 DEF Wait4
<1>14. ASSUME NEW t \in Tasks, NEW u \in Tasks, Join(t, u) \/ sys_kill(t, u)
       PROVE  Stays
  BY <1>4, <1>14, NobodyJoins DEF sys_kill
<1>15. CASE UNCHANGED vars
  BY <1>5, <1>15 DEF vars
<1> QED
  BY <1>6, <1>7, <1>8, <1>10, <1>11, <1>12, <1>13, <1>14, <1>15, <1>16 DEF Next, WaitRound

\* A process that has exited is never scheduled again: it leaves the Zombie state
\* only when its last reference goes, in wait4, or in do_exit or setsid of a task
\* that is in no children list.
THEOREM ExitedStayDead ==
  ASSUME SingleThreaded, OnlyChildrenLeave
  PROVE  Spec => ZombiesStayDead
<1>1. Inv /\ [Next]_vars =>
        [\A t \in Tasks : status[t] = "Zombie" => status'[t] \in {"Zombie", NoTCB}]_tmvars
  BY DeadStay
<1> QED
  BY <1>1, InvHolds, PTL DEF Spec, ZombiesStayDead
=============================================================================
