------------------------------- MODULE Clocks -------------------------------
(***************************************************************************)
(* Time: the clocks a program reads (timer.rs, sys_clock_gettime,          *)
(* sys_gettimeofday), the processor time charged to a task at the ends of  *)
(* its traps and the interval timers driven by it (task/task.rs,           *)
(* sys_setitimer, sys_times).                                              *)
(*                                                                         *)
(* The counter `now` runs at Freq ticks a second.  A TimeVal is a record   *)
(* [sec, usec] with Usec microseconds in a second, and Freq need not be a  *)
(* multiple of Usec: the board of QEMU has 12.5 ticks a microsecond.  What *)
(* the kernel measures in microseconds the history variables measure by    *)
(* the microseconds the clock passes.  One task has the hart,              *)
(* in user mode or in the kernel; the counter runs on in both.  ru_stime   *)
(* and the profiling timer, which charge a task with the time others had   *)
(* the hart during its timer interrupts, are left out.                     *)
(***************************************************************************)
EXTENDS Integers, FiniteSets

CONSTANTS Tasks, First,
          Freq, Usec, Nsec,     \* get_clock_freq, USEC_PER_SEC, NSEC_PER_SEC
          Word,                 \* 2^64, the range of usize
          Offset,               \* BOOT_TIME_OFFSET, in seconds
          Requests,             \* the pairs <<value, interval>> given to setitimer, in microseconds
          MaxNow, MaxCalls,     \* bounds on the counter and on the calls
          Departures            \* the uses, normally none, that break a property

VARIABLES now,          \* the counter
          mode,         \* of each task: none, new, user, kernel, ready, asleep
          cause,        \* of each task: the trap it is in
          clock,        \* ProcClock: when it last entered user mode
          utime,        \* Rusage: ru_utime
          timer,        \* ITimerVal of the real and the virtual timer
          used,         \* microseconds the clock passed in user mode (history)
          due,          \* when the timers should ring: real time, user time (history)
          early,        \* a timer rang before it was due (history)
          read,         \* the last clock read and the times it lies between (history)
          made          \* calls so far

vars == <<now, mode, cause, clock, utime, timer, used, due, early, read, made>>

MayCall(use) == use \in Departures

Kinds == {"real", "virtual"}

Never == 0 - 1

-----------------------------------------------------------------------------
(* timer.rs *)

Zero == [sec |-> 0, usec |-> 0]

from_tick(k) == [sec |-> k \div Freq, usec |-> ((k % Freq) * Usec) \div Freq]

to_tick(v) == v.sec * Freq + (v.usec * Freq) \div Usec

from_us(k) == [sec |-> k \div Usec, usec |-> k % Usec]

to_us(v) == v.sec * Usec + v.usec

is_zero(v) == v.sec = 0 /\ v.usec = 0

Add(v, w) == [sec |-> v.sec + w.sec + (v.usec + w.usec) \div Usec,
              usec |-> (v.usec + w.usec) % Usec]

Sub(v, w) == IF to_us(v) <= to_us(w) THEN Zero ELSE from_us(to_us(v) - to_us(w))

TimeVal_now == from_tick(now)

get_time_sec(k) == k \div Freq

get_time_us(k) == k \div (Freq \div Usec)

get_time_ns(k) == ((k * Nsec) % Word) \div Freq

current_time(k) == get_time_sec(k) + Offset

uptime(k) == get_time_sec(k)

Init ==
  /\ now = 0 /\ made = 0 /\ early = FALSE /\ read = [lo |-> 0, got |-> 0, hi |-> 0]
  /\ mode = [t \in Tasks |-> IF t = First THEN "user" ELSE "none"]
  /\ cause = [t \in Tasks |-> "none"]
  /\ clock = [t \in Tasks |-> Zero]
  /\ utime = [t \in Tasks |-> Zero]
  /\ timer = [t \in Tasks |-> [k \in Kinds |-> [value |-> Zero, interval |-> Zero]]]
  /\ used = [t \in Tasks |-> 0]
  /\ due = [t \in Tasks |-> [k \in Kinds |-> Never]]

NoRead == read' = [lo |-> 0, got |-> 0, hi |-> 0]

\* The task that has the hart.
Current == {t \in Tasks : mode[t] \in {"user", "kernel"}}

\* The counter may reach k: get_time_ns still holds the product, and a new task
\* has taken the hart at the time it was made.
MayReach(k) ==
  /\ k <= MaxNow
  /\ k * Nsec < Word \/ MayCall("long_run")
  /\ k = now \/ MayCall("late_start") \/ \A t \in Tasks : mode[t] # "new"

\* The counter advances.
Tick ==
  /\ MayReach(now + 1)
  /\ now' = now + 1
  /\ used' = [t \in Tasks |->
                IF mode[t] = "user"
                THEN used[t] + to_us(from_tick(now + 1)) - to_us(TimeVal_now) ELSE used[t]]
  /\ NoRead
  /\ UNCHANGED <<mode, cause, clock, utime, timer, due, early, made>>

-----------------------------------------------------------------------------
(* The ends of a trap *)

\* A timer that is set runs down by diff, and rings and starts again at zero.
RunDown(tm, diff) ==
  IF is_zero(tm.value) THEN tm
  ELSE LET v == Sub(tm.value, diff)
       IN [tm EXCEPT !.value = IF is_zero(v) THEN tm.interval ELSE v]

Rings(tm, diff) == ~is_zero(tm.value) /\ is_zero(Sub(tm.value, diff))

\* When the timer is next due, from at on: an interval after it rang.
NextDue(old, tm, diff, at) ==
  IF ~Rings(tm, diff) THEN old
  ELSE IF is_zero(tm.interval) THEN Never ELSE at + to_us(tm.interval)

update_process_times_enter_trap(t) ==
  LET diff == Sub(TimeVal_now, clock[t])
      virtual == timer[t]["virtual"]
  IN /\ utime' = [utime EXCEPT ![t] = Add(@, diff)]
     /\ timer' = [timer EXCEPT ![t]["virtual"] = RunDown(@, diff)]
     /\ due' = [due EXCEPT ![t]["virtual"] = NextDue(@, virtual, diff, used[t])]
     /\ early' = (early \/ (Rings(virtual, diff) /\ used[t] < due[t]["virtual"]))

\* trap_handler begins.
EnterTrap(t, why) ==
  /\ mode[t] = "user"
  /\ update_process_times_enter_trap(t)
  /\ mode' = [mode EXCEPT ![t] = "kernel"] /\ cause' = [cause EXCEPT ![t] = why]
  /\ NoRead
  /\ UNCHANGED <<now, clock, used, made>>

\* Mutant: the time of the return is not kept.
update_process_times_leave_trapStale(t) ==
  LET real == timer[t]["real"]
      diff == Sub(TimeVal_now, clock[t])
  IN /\ timer' = [timer EXCEPT ![t]["real"] = RunDown(@, diff)]
     /\ due' = [due EXCEPT ![t]["real"] = NextDue(@, real, diff, to_us(TimeVal_now))]
     /\ early' = (early \/ (Rings(real, diff) /\ to_us(TimeVal_now) < due[t]["real"]))
     /\ UNCHANGED clock

update_process_times_leave_trap(t) ==
  LET real == timer[t]["real"]
      diff == Sub(TimeVal_now, clock[t])
  IN /\ timer' = [timer EXCEPT ![t]["real"] = RunDown(@, diff)]
     /\ clock' = [clock EXCEPT ![t] = TimeVal_now]
     /\ due' = [due EXCEPT ![t]["real"] = NextDue(@, real, diff, to_us(TimeVal_now))]
     /\ early' = (early \/ (Rings(real, diff) /\ to_us(TimeVal_now) < due[t]["real"]))

\* trap_handler ends; do_signal may stop the task on its way to user mode.
LeaveTrap(t) ==
  /\ mode[t] = "kernel"
  /\ update_process_times_leave_trap(t)
  /\ \E stop \in {FALSE} \cup {MayCall("stop")} :
       mode' = [mode EXCEPT ![t] = IF stop THEN "stopped" ELSE "user"]
  /\ cause' = [cause EXCEPT ![t] = "none"]
  /\ NoRead
  /\ UNCHANGED <<now, utime, used, made>>

\* suspend_current_and_run_next in the timer interrupt, or a call that blocks.
Suspend(t) ==
  /\ mode[t] = "kernel"
  /\ mode' = [mode EXCEPT ![t] = IF cause[t] = "timer" THEN "ready" ELSE "asleep"]
  /\ NoRead
  /\ UNCHANGED <<now, cause, clock, utime, timer, used, due, early, made>>

\* The idle hart takes a task: one that waits in a trap, a new one, which goes
\* straight to user mode, or one that was stopped on its way there.
Schedule(t) ==
  /\ Current = {} /\ mode[t] \in {"ready", "asleep", "new", "stopped"}
  /\ mode' = [mode EXCEPT ![t] = IF @ \in {"new", "stopped"} THEN "user" ELSE "kernel"]
  /\ NoRead
  /\ UNCHANGED <<now, cause, clock, utime, timer, used, due, early, made>>

-----------------------------------------------------------------------------
(* Calls *)

InCall(t) == mode[t] = "kernel" /\ cause[t] = "call" /\ made < MaxCalls

\* ProcClock::new, Rusage::new and timers that are off.
sys_clone(t, c) ==
  /\ InCall(t) /\ mode[c] = "none"
  /\ mode' = [mode EXCEPT ![c] = "new"]
  /\ clock' = [clock EXCEPT ![c] = TimeVal_now]
  /\ made' = made + 1 /\ NoRead
  /\ UNCHANGED <<now, cause, utime, timer, used, due, early>>

\* The user time since the last return has still to be charged to the real timer
\* when the call sets it.
sys_setitimer(t, k, rq) ==
  /\ InCall(t)
  /\ k = "real" => clock[t] = TimeVal_now \/ MayCall("real_after_use")
  /\ timer' = [timer EXCEPT ![t][k] = [value |-> from_us(rq[1]), interval |-> from_us(rq[2])]]
  /\ due' = [due EXCEPT ![t][k] = IF rq[1] = 0 THEN Never
                                  ELSE rq[1] + IF k = "real" THEN to_us(TimeVal_now)
                                                           ELSE used[t]]
  /\ made' = made + 1 /\ NoRead
  /\ UNCHANGED <<now, mode, cause, clock, utime, used, early>>

\* A clock is read while the counter may go on from now to later, in nanoseconds
\* since 1970 rounded to the unit of the clock; it may be ahead by as much.
UnixTime(k) == (k * Nsec) \div Freq + Offset * Nsec

Shown(ns, unit, ahead, later) ==
  /\ read' = [lo |-> (UnixTime(now) \div unit) * unit, got |-> ns,
              hi |-> UnixTime(later) + ahead]
  /\ now' = later /\ made' = made + 1
  /\ UNCHANGED <<mode, cause, clock, utime, timer, used, due, early>>

\* The counter passes no second between the reads a call makes.
Together(later) ==
  /\ MayReach(later)
  /\ MayCall("second_passes") \/ get_time_sec(later) = get_time_sec(now)

\* Seconds and nanoseconds are read one after the other.
sys_clock_gettime_realtime(t, later) ==
  /\ InCall(t) /\ Together(later)
  /\ Shown(current_time(now) * Nsec + (get_time_ns(later) % Nsec), 1, 0, later)

sys_clock_gettime_coarse(t) ==
  InCall(t) /\ Shown(current_time(now) * Nsec, Nsec, 0, now)

\* CLOCK_MONOTONIC and the clocks treated like it.
sys_clock_gettime_monotonic(t) ==
  LET ns == (now \div Freq) * Nsec + (((now % Freq) * Nsec) \div Freq)
  IN InCall(t) /\ Shown(ns + Offset * Nsec, 1, 0, now)

\* What get_time_us gains on the clock by taking the ticks of a microsecond to be
\* a whole number: less than a tick of each.
Gain(k) == IF Freq % Usec = 0 THEN 0 ELSE ((k * Nsec) \div Freq) \div (Freq \div Usec) + 1

\* The counter is read for the microseconds and twice for the offset.
sys_gettimeofday(t, later) ==
  LET boot_offset == current_time(now) - uptime(later)
  IN /\ InCall(t) /\ Together(later)
     /\ Shown((get_time_us(now) + boot_offset * Usec) * (Nsec \div Usec), Nsec \div Usec,
              Gain(later), later)

\* The processor times of the caller, in ticks.
sys_times(t) ==
  /\ InCall(t)
  /\ LET ticks == (used[t] * Freq) \div Usec
     IN read' = [lo |-> ticks, got |-> to_tick(utime[t]), hi |-> ticks]
  /\ made' = made + 1
  /\ UNCHANGED <<now, mode, cause, clock, utime, timer, used, due, early>>

Next ==
  \/ Tick
  \/ \E t \in Tasks :
       \/ \E why \in {"call", "timer"} : EnterTrap(t, why)
       \/ LeaveTrap(t) \/ Suspend(t) \/ Schedule(t)
       \/ \E c \in Tasks : sys_clone(t, c)
       \/ \E k \in Kinds, rq \in Requests : sys_setitimer(t, k, rq)
       \/ \E later \in {now, now + 1} : sys_clock_gettime_realtime(t, later)
                                        \/ sys_gettimeofday(t, later)
       \/ sys_clock_gettime_coarse(t) \/ sys_clock_gettime_monotonic(t) \/ sys_times(t)

Spec == Init /\ [][Next]_vars

-----------------------------------------------------------------------------
(* Properties *)

\* Time is kept (update_process_times_enter_trap and _leave_trap, the itimers of
\* task.rs, sys_clock_gettime, sys_gettimeofday): whatever a call shows is a time
\* between its start and its end, but that gettimeofday may be ahead by one part in
\* Freq \div Usec of the time since boot; ru_utime counts every microsecond the
\* clock passed while the task was in user mode once, however it was suspended; and
\* the real and the virtual timer ring when the microseconds asked for have passed,
\* by the clock or in user mode, and not before.
TimeIsKept ==
  /\ read.lo <= read.got /\ read.got <= read.hi
  /\ ~early
  /\ \A t \in Tasks :
       /\ mode[t] \in {"kernel", "ready", "asleep"} =>
            /\ to_us(utime[t]) = used[t]
            /\ due[t]["virtual"] # Never => due[t]["virtual"] > used[t]
       /\ mode[t] = "user" /\ due[t]["real"] # Never => due[t]["real"] > to_us(clock[t])
=============================================================================
