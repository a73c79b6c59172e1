-------------------------------- MODULE Poll --------------------------------
(***************************************************************************)
(* ppoll() and pselect() of fs/poll.rs, called by threads that share one   *)
(* table of descriptors, over the files whose readiness changes: the       *)
(* terminal (fs/dev/tty.rs), the two ends of a pipe (fs/dev/pipe.rs) and a *)
(* timer (fs/dev/timerfd.rs).  "null" stands for the files that are ready  *)
(* whenever asked.  A call looks at its descriptors, and gives the         *)
(* processor away when none is ready: between two looks the other threads  *)
(* read, write, close and open what it waits for.                          *)
(*                                                                         *)
(* The kernel is not preemptible: a thread that loops in it without        *)
(* calling the scheduler (hart) stops every other one.                     *)
(***************************************************************************)
EXTENDS Integers, Sequences, FiniteSets

CONSTANTS Tasks,        \* the threads that share the table
          Pollers,      \* those that call ppoll
          Selecters,    \* those that call pselect
          Cap,          \* the pipe's capacity
          MaxTime,      \* bound of the clock
          Input,        \* the bytes that are typed, in order
          Wants,        \* the sets of <<file, event>> that are polled for
          Own,          \* the signal mask of the threads' program
          Masks,        \* the signal masks that calls set
          Departures    \* uses under which the code departs from what it says

VARIABLES open,      \* the files that have a descriptor in the table
          last_char, \* TeletypeInner.last_char
          console,   \* the bytes that wait in the serial port
          pipe,      \* the number of bytes in the pipe
          timer,     \* TimerFdInner
          now,       \* the clock
          mask,      \* the signal mask of each thread
          oldsig,    \* the last word of each thread's trap context page
          call,      \* the call each thread is in
          locked,    \* the thread that sleeps with the table locked, or None
          hart,      \* the thread that spins in the kernel, or None
          typed,     \* how many bytes have been typed
          got,       \* every byte read from the terminal
          answer     \* what the call returned that has just done so

ttyvars == <<last_char, console, typed, got>>
polled == <<mask, oldsig, call>>
vars == <<open, ttyvars, pipe, timer, now, polled, locked, hart, answer>>

MayCall(d) == d \in Departures

None == "none"
NoChar == 255
Files == {"tty", "reader", "writer", "timer", "null"}
NoTime == 0 - 1
NoMask == {None}
Idle == [op |-> None]
NoTimer == [armed |-> FALSE, expirations |-> 0]

Silent == answer' = Idle

FdsOf(pairs) == {p[1] : p \in pairs}

\* A thread may enter the kernel: no other one spins there.
Runs(t) == hart \in {None, t}

\* A thread that takes the lock of the table.  One that sleeps with the lock
\* held is woken by nobody who needs the table: whoever asks for the lock
\* then spins, and no thread moves any more.
Locks(t) == Runs(t) /\ locked = None
-----------------------------------------------------------------------------
(* What the files say of themselves.                                       *)

\* console_getchar: 255 when no byte has arrived.
console_getchar(c) == IF c = <<>> THEN NoChar ELSE Head(c)
Rest(c) == IF c = <<>> THEN <<>> ELSE Tail(c)

\* all_write_ends_closed and all_read_ends_closed, asked from the other end.
hang_up(f) == \/ f = "reader" /\ "writer" \notin open
              \/ f = "writer" /\ "reader" \notin open

\* r_ready of the terminal keeps the byte that it reads to find out.
PeekDrops == UNCHANGED last_char /\ console' = Rest(console)
Peek == IF last_char # NoChar
        THEN UNCHANGED <<last_char, console>>
        ELSE /\ last_char' = console_getchar(console)
             /\ console' = Rest(console)

is_ready == timer.expirations > 0

r_ready(f) == CASE f = "tty"    -> last_char # NoChar \/ console_getchar(console) # NoChar
                [] f \in {"reader", "writer"} -> pipe > 0
                [] f = "timer"  -> is_ready
                [] f = "null"   -> TRUE

w_ready(f) == CASE f \in {"tty", "null"} -> TRUE
                [] f \in {"reader", "writer"} -> pipe < Cap
                [] f = "timer" -> FALSE

Ready(p) == /\ p[1] \in open
            /\ IF p[2] = "in" THEN r_ready(p[1]) ELSE w_ready(p[1])

\* Asking the terminal is what makes it read.
Asks(want) == IF <<"tty", "in">> \in want /\ "tty" \in open
              THEN Peek
              ELSE UNCHANGED <<last_char, console>>
-----------------------------------------------------------------------------
(* The two calls.                                                          *)

\* What a read or a write of the file would do at this moment.
WouldNotBlock(p) ==
    /\ p[1] \in open
    /\ CASE p = <<"reader", "in">>  -> pipe > 0 \/ "writer" \notin open
         [] p = <<"writer", "out">> -> pipe < Cap \/ "reader" \notin open
         [] OTHER -> Ready(p)

\* The signal mask of the call, and the old one on the trap context page.
Swaps(t, m) == IF m = NoMask
               THEN UNCHANGED <<mask, oldsig>>
               ELSE /\ mask' = [mask EXCEPT ![t] = m]
                    /\ oldsig' = [oldsig EXCEPT ![t] = mask[t]]

Restores(t) == /\ mask' = IF call[t].masked THEN [mask EXCEPT ![t] = oldsig[t]] ELSE mask
               /\ oldsig' = [oldsig EXCEPT ![t] = {}]    \* not read again

Enter(t, op, want, tmo, m) ==
    /\ Locks(t) /\ call[t].op = None
    /\ \/ MayCall("closed_fd") \/ FdsOf(want) \subseteq open
    /\ MayCall("select_hup") \/ op = "ppoll" \/ \A f \in FdsOf(want) : ~hang_up(f)
    /\ call' = [call EXCEPT ![t] = [op |-> op, want |-> want, masked |-> m # NoMask,
                                    deadline |-> IF tmo = NoTime THEN NoTime ELSE now + tmo]]
    /\ Swaps(t, m)
    /\ Silent
    /\ UNCHANGED <<open, ttyvars, pipe, timer, now, locked, hart>>

ppoll(t, want, tmo, m) == Enter(t, "ppoll", want, tmo, m)
sys_pselect(t, want, tmo, m) == Enter(t, "pselect", want, tmo, m)

ExpiresLate(c) == c.deadline # NoTime /\ now > c.deadline
Expired(c) == c.deadline # NoTime /\ now >= c.deadline

Returns(t, n, bits) ==
    /\ call' = [call EXCEPT ![t] = Idle]
    /\ Restores(t)
    /\ answer' = [op |-> call[t].op, n |-> n, bits |-> bits,
                  truth |-> {p \in call[t].want : WouldNotBlock(p)},
                  late |-> Expired(call[t])]

\* One turn of the loop: a look at every descriptor, and the processor given
\* away when nothing has happened and there is time left.
ppollLoop(t) ==
    /\ Locks(t) /\ call[t].op = "ppoll"
    /\ LET want == call[t].want
           revents == {p \in want : Ready(p)}
                      \cup {<<f, "hup">> : f \in {g \in FdsOf(want) \cap open : hang_up(g)}}
           done == Cardinality(FdsOf(revents))
       IN IF done > 0 \/ Expired(call[t])
          THEN Returns(t, done, revents)
          ELSE UNCHANGED polled /\ Silent
    /\ Asks(call[t].want)
    /\ UNCHANGED <<open, pipe, timer, now, locked, hart, typed, got>>

\* pselect counts first, and clears the bits in a second pass.  A byte that
\* arrives between the passes is seen by the second only (late).
Cleared(set) == {p \in set : p[1] \in open => Ready(p)}
pselectLoop(t) ==
    /\ Locks(t) /\ call[t].op = "pselect"
    /\ \E late \in IF MayCall("late_byte") THEN BOOLEAN ELSE {FALSE} :
       LET want == call[t].want
           first == {p \in want : Ready(p) /\ ~(late /\ p[1] = "tty")}
           done == Cardinality(first)
       IN IF done # 0 \/ Expired(call[t])
          THEN Returns(t, done, Cleared(want))
          ELSE UNCHANGED polled /\ Silent
    /\ Asks(call[t].want)
    /\ UNCHANGED <<open, pipe, timer, now, locked, hart, typed, got>>
-----------------------------------------------------------------------------
(* What the other threads do meanwhile.                                    *)

\* read_user of the terminal: the bytes that are there, at most n, and a
\* look for the next one.  With none it asks the port again and again, with
\* the processor, until a byte comes.
tty_read(t, n) ==
    /\ Locks(t) /\ call[t].op = None /\ "tty" \in open
    /\ LET ready == (IF last_char = NoChar THEN <<>> ELSE <<last_char>>) \o console
           k == IF n < Len(ready) THEN n ELSE Len(ready)
           rest == SubSeq(ready, k + 1, Len(ready))
       IN IF k > 0
          THEN /\ got' = got \o SubSeq(ready, 1, k)
               /\ last_char' = console_getchar(rest)
               /\ console' = Rest(rest)
               /\ hart' = None
          ELSE /\ MayCall("tty_wait")
               /\ hart' = t
               /\ UNCHANGED <<got, last_char, console>>
    /\ Silent
    /\ UNCHANGED <<open, typed, pipe, timer, now, polled, locked>>

\* A read or a write of the pipe that returns at once; one that must wait
\* sleeps with the table locked.
pipe_read(t) ==
    /\ Locks(t) /\ call[t].op = None /\ "reader" \in open
    /\ IF pipe > 0
       THEN pipe' = pipe - 1 /\ UNCHANGED locked
       ELSE /\ "writer" \in open /\ MayCall("shared_read")
            /\ locked' = t /\ UNCHANGED pipe
    /\ Silent
    /\ UNCHANGED <<open, ttyvars, timer, now, polled, hart>>

pipe_write(t) ==
    /\ Locks(t) /\ call[t].op = None /\ "writer" \in open /\ pipe < Cap
    /\ pipe' = pipe + 1
    /\ Silent
    /\ UNCHANGED <<open, ttyvars, timer, now, polled, locked, hart>>

sys_timerfd_create(t) ==
    /\ Locks(t) /\ call[t].op = None /\ "timer" \notin open
    /\ open' = open \cup {"timer"}
    /\ timer' = NoTimer
    /\ Silent
    /\ UNCHANGED <<ttyvars, pipe, now, polled, locked, hart>>

\* set_time remembers that there is a time, and not which one.
sys_timerfd_settime(t) ==
    /\ Locks(t) /\ call[t].op = None /\ "timer" \in open /\ ~timer.armed
    /\ timer' = [timer EXCEPT !.armed = TRUE]
    /\ Silent
    /\ UNCHANGED <<open, ttyvars, pipe, now, polled, locked, hart>>

\* read_expirations
timer_read(t) ==
    /\ Locks(t) /\ call[t].op = None /\ "timer" \in open
    /\ timer' = [timer EXCEPT !.expirations = 0]
    /\ Silent
    /\ UNCHANGED <<open, ttyvars, pipe, now, polled, locked, hart>>

PolledNow == {u \in Tasks : call[u].op # None}

sys_close(t, f) ==
    /\ Locks(t) /\ call[t].op = None /\ f \in open \ {"tty", "null"}
    /\ MayCall("closed_fd") \/ \A u \in PolledNow : f \notin FdsOf(call[u].want)
    /\ \/ MayCall("select_hup")
       \/ \A u \in PolledNow : call[u].op = "pselect"
                                => FdsOf(call[u].want) \cap {"reader", "writer"} = {}
       \/ f = "timer"
    /\ open' = open \ {f}
    /\ Silent
    /\ UNCHANGED <<ttyvars, pipe, timer, now, polled, locked, hart>>

sys_pipe2(t) ==
    /\ Locks(t) /\ call[t].op = None /\ open \cap {"reader", "writer"} = {}
    /\ open' = open \cup {"reader", "writer"}
    /\ pipe' = 0
    /\ Silent
    /\ UNCHANGED <<ttyvars, timer, now, polled, locked, hart>>
-----------------------------------------------------------------------------
Type == /\ typed < Len(Input)
        /\ typed' = typed + 1
        /\ console' = Append(console, Input[typed + 1])
        /\ Silent
        /\ UNCHANGED <<open, last_char, got, pipe, timer, now, polled, locked, hart>>

Tick == /\ now < MaxTime
        /\ now' = now + 1
        /\ Silent
        /\ UNCHANGED <<open, ttyvars, pipe, timer, polled, locked, hart>>

Init == /\ open = Files
        /\ last_char = NoChar /\ console = <<>> /\ typed = 0 /\ got = <<>>
        /\ pipe = 0 /\ timer = NoTimer /\ now = 0
        /\ mask = [t \in Tasks |-> Own]
        /\ oldsig = [t \in Tasks |-> {}]
        /\ call = [t \in Tasks |-> Idle]
        /\ locked = None /\ hart = None
        /\ answer = Idle

\* None, or up to the bound of the clock: at the bound it is zero.
Timeouts == {NoTime, MaxTime - now}

Polls == \E want \in Wants, tmo \in Timeouts, m \in Masks \cup {NoMask} :
             \/ \E t \in Pollers : ppoll(t, want, tmo, m)
             \/ \E t \in Selecters : sys_pselect(t, want, tmo, m)

FileCalls(t) ==
  \/ \E n \in 1..2 : tty_read(t, n)
  \/ pipe_read(t) \/ pipe_write(t)
  \/ sys_timerfd_create(t) \/ sys_timerfd_settime(t) \/ timer_read(t)
  \/ sys_pipe2(t)
  \/ \E f \in Files : sys_close(t, f)

Loops(t) == ppollLoop(t) \/ pselectLoop(t)

Next == \/ Polls
        \/ \E t \in Tasks : Loops(t)
        \/ \E t \in Tasks \ (Pollers \cup Selecters) : FileCalls(t)
        \/ Type \/ Tick

Spec == Init /\ [][Next]_vars

\* A thread that gives the processor away is put at the end of the ready
\* queue and gets its turn; the clock runs.
FairSpec == Spec /\ WF_vars(Tick) /\ \A t \in Tasks : WF_vars(Loops(t))
-----------------------------------------------------------------------------
\* No byte typed is lost, doubled or reordered, though ppoll and pselect read
\* the port to find out whether there is one (tty.rs, r_ready).
NoByteIsLost ==
    SubSeq(Input, 1, typed) =
        got \o (IF last_char = NoChar THEN <<>> ELSE <<last_char>>) \o console

\* An answer is what a read or a write at that moment would have shown:
\* nothing is reported that would have blocked, everything asked for that
\* would not have is reported, the number is that of what is reported, and
\* nothing reported means that the time is over.
AnswersAreTrue ==
    answer.op # None =>
        LET a == answer
            plain == {p \in a.bits : p[2] # "hup"}
        IN /\ plain \subseteq a.truth
           /\ FdsOf(a.truth) \subseteq FdsOf(a.bits)
           /\ a.n = IF a.op = "ppoll" THEN Cardinality(FdsOf(a.bits)) ELSE Cardinality(a.bits)
           /\ a.n = 0 => a.late

\* A thread outside of the two calls has the signal mask its program set.
MaskIsRestored == \A t \in Tasks : call[t].op = None => mask[t] = Own

\* ppoll and pselect report what is so, lose no input and leave the signal
\* mask as they found it, whatever other threads do while they wait.
PollsAreExact == NoByteIsLost /\ AnswersAreTrue /\ MaskIsRestored

\* A call with a timeout, or one for something that stays ready, returns.
PollsReturn ==
    \A t \in Pollers \cup Selecters :
        /\ (call[t].op # None /\ call[t].deadline # NoTime) ~> (call[t].op = None)
        /\ [](call[t].op # None => <>(call[t].op = None \/ ~\E p \in call[t].want : WouldNotBlock(p)))
=============================================================================
