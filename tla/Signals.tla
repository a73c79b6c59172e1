------------------------------ MODULE Signals ------------------------------
(***************************************************************************)
(* Signals of the tasks of the kernel (task/signal.rs, the kill family of  *)
(* syscall/process.rs and the signal part of trap_handler): sending a      *)
(* signal, the masks, the handler tables, the delivery at the end of a     *)
(* trap, the frame a handler runs on and the return from it.               *)
(*                                                                         *)
(* The kernel is not preemptible and runs on one hart, so a trap is one    *)
(* step: the handler of the trap changes the state and the step ends with  *)
(* Return, which is do_signal followed by the way back to user mode.  A    *)
(* call that blocks ends its step asleep and has a second one.             *)
(*                                                                         *)
(* A register context is [pc, a0, sp]: pc is Main or the number of the     *)
(* signal whose handler runs, a0 the last result.  A task has a stack of   *)
(* its own, cells 0 .. StackSize - 1, growing down from StackSize.         *)
(***************************************************************************)
EXTENDS Integers, Sequences, FiniteSets, FiniteSetsExt

CONSTANTS Tasks,        \* the task control blocks, clone takes them in turn
          First,        \* the one that runs at the start
          Sigs,         \* the signal numbers the model uses
          Sent,         \* those the tasks send
          Acts,         \* the actions given to sigaction: [nodefer, resethand, mask]
          Masks,        \* the sets given to sigprocmask
          StackSize, UC, SI, Align,  \* USER_STACK_SIZE and the sizes of the frame
          Changed,      \* the signals whose action the tasks change
          MaxSends,     \* bound on the signals sent
          MaxCalls,     \* bound on the other calls, returns from handlers apart
          MaxPush,      \* bound on what one activation keeps on its stack
          Departures    \* the uses, normally none, that break a property

VARIABLES task,         \* the task control blocks
          sighand,      \* the handler tables, named by the task that made them
          wish,         \* what the program asked for in each table (history)
          ended,        \* the termination just carried out (history)
          faithful,     \* every return restored what was interrupted (history)
          sends,        \* signals sent so far
          made          \* other calls so far

vars == <<task, sighand, wish, ended, faithful, sends, made>>

MayCall(use) == use \in Departures

SIGILL == 4
SIGBUS == 7
SIGKILL == 9
SIGSEGV == 11
SIGSTOP == 19

Main == 0
Default == [handler |-> FALSE]
EINTR == 0 - 4
Nobody == [sig |-> 0, wanted |-> "dfl"]

CAN_NOT_BE_MASKED == {SIGILL, SIGKILL, SIGSEGV, SIGSTOP}

\* SIGCHLD, SIGCONT, SIGURG and SIGWINCH
IgnoredByDefault == {17, 18, 23, 28}

\* SIGTSTP, SIGTTIN and SIGTTOU
StoppingByDefault == {20, 21, 22}

Floor(a) == a - (a % Align)

Unborn == [status |-> "none", tgid |-> First, hand |-> First, pending |-> {},
           mask |-> {}, cx |-> [pc |-> Main, a0 |-> 0, sp |-> StackSize],
           frames |-> {}, calls |-> <<>>, owed |-> {}]

Dead == [Unborn EXCEPT !.status = "dead"]

Init ==
  /\ task = [t \in Tasks |-> IF t = First THEN [Unborn EXCEPT !.status = "user"]
                                          ELSE Unborn]
  /\ sighand = [h \in Tasks |-> [s \in Sigs |-> Default]]
  /\ wish = [h \in Tasks |-> [s \in Sigs |-> "dfl"]]
  /\ ended = Nobody /\ faithful = TRUE /\ sends = 0 /\ made = 0

InUser(t) == task[t].status = "user"

Alive(t) == task[t].status \notin {"none", "dead"}

-----------------------------------------------------------------------------
(* do_signal *)

\* The signals do_signal finds to act on, in its order the first of them: the
\* default of the others is to be ignored.
peek_front(me, hands) ==
  LET acted == {s \in me.pending \ me.mask :
                  hands[me.hand][s].handler \/ s \notin IgnoredByDefault}
  IN IF acted = {} THEN 0 ELSE Min(acted)

\* The signals taken from the pending set: the one acted on and the ignored
\* ones before it.
Taken(me, s) == {x \in me.pending \ me.mask : s = 0 \/ x <= s}

ucontext_addr(sp) == Floor(sp - UC)

siginfo_addr(sp) == Floor(ucontext_addr(sp) - SI)

\* The frames a frame pushed at sp leaves alone, of those still in use.
Spared(me) ==
  {f \in me.frames : f.at >= me.cx.sp
                     /\ f.at > ucontext_addr(me.cx.sp) + UC - 1}

\* Mutant: the frame keeps the mask the handler runs with.
PushedLate(me, s, act) ==
  Spared(me) \cup {[at |-> ucontext_addr(me.cx.sp), cx |-> me.cx,
                    mask |-> me.mask \cup act.mask \cup {s}]}

\* The frame is written below the stack pointer: the mask and the machine
\* context of what is interrupted.
Pushed(me, s, act) ==
  Spared(me) \cup {[at |-> ucontext_addr(me.cx.sp), cx |-> me.cx, mask |-> me.mask]}

HandlerMask(me, s, act) ==
  me.mask \cup ((IF act.nodefer THEN act.mask ELSE act.mask \cup {s}) \ CAN_NOT_BE_MASKED)

\* The task enters the handler, with the frame below its stack pointer.
Handled(me, s, act) ==
  LET sig_sp == siginfo_addr(me.cx.sp)
  IN [me EXCEPT !.frames = Pushed(me, s, act),
                !.cx = [pc |-> s, a0 |-> s, sp |-> sig_sp],
                !.mask = HandlerMask(me, s, act),
                !.calls = Append(@, [cx |-> me.cx, mask |-> me.mask, sig |-> s,
                                     open |-> act.nodefer, base |-> sig_sp])]

\* exit_group_and_run_next: every task of the group ends.
GroupEnds(tk, g) == [u \in Tasks |-> IF tk[u].status # "none" /\ tk[u].tgid = g
                                        THEN [Dead EXCEPT !.tgid = g] ELSE tk[u]]

\* do_signal for task t, when the trap has left the tasks as tk and the handler
\* tables as hands: one handler at most is entered.
do_signal(t, tk, hands, wishes) ==
  LET me == tk[t]
      s == peek_front(me, hands)
      act == hands[me.hand][s]
      left == [me EXCEPT !.pending = @ \ Taken(me, s), !.owed = @ \ Taken(me, s)]
      caught == s # 0 /\ act.handler
      room == siginfo_addr(me.cx.sp) >= 0
      reset == caught /\ room /\ act.resethand
      killed == s # 0 /\ ~act.handler /\ s \notin StoppingByDefault
  IN /\ task' = IF s = 0 THEN [tk EXCEPT ![t] = left]
                ELSE IF caught
                  THEN [tk EXCEPT ![t] = IF room THEN Handled(left, s, act)
                                                 ELSE [Dead EXCEPT !.tgid = me.tgid]]
                ELSE IF killed THEN GroupEnds(tk, me.tgid)
                ELSE [tk EXCEPT ![t] = [left EXCEPT !.status = "stopped"]]
     /\ sighand' = IF reset THEN [hands EXCEPT ![me.hand][s] = Default] ELSE hands
     /\ wish' = IF reset THEN [wishes EXCEPT ![me.hand][s] = "dfl"] ELSE wishes
     /\ ended' = IF killed THEN [sig |-> s, wanted |-> wishes[me.hand][s]] ELSE Nobody

\* trap_return: the trap ends with do_signal.
trap_return(t, tk, hands, wishes) == do_signal(t, tk, hands, wishes)

\* A system call of t leaves its result in a0.
Result(tk, t, r) == [tk EXCEPT ![t].cx.a0 = r]

SyscallReturn(t, tk, r) == trap_return(t, Result(tk, t, r), sighand, wish)

-----------------------------------------------------------------------------
(* Sending *)

\* add_signal, and the target is made ready if it is in the interruptible queue.
Post(tk, u, s) ==
  [tk EXCEPT ![u].pending = @ \cup {s}, ![u].owed = @ \cup {s},
             ![u].status = CASE @ = "asleep" -> "awake"
                             [] @ = "stopped" -> "resumed"
                             [] OTHER -> @]

\* The tasks find_task_by_tgid can give: the caller if it is of the group, or
\* the first of the ready ones, or of the interruptible ones.
find_task_by_tgid(t, g) ==
  LET group == {u \in Tasks : Alive(u) /\ task[u].tgid = g}
      ready == {u \in group : task[u].status \in {"user", "awake", "resumed"}}
  IN IF task[t].tgid = g THEN {t} ELSE IF ready # {} THEN ready ELSE group

Sending == sends < MaxSends /\ sends' = sends + 1 /\ UNCHANGED <<faithful, made>>

Calling == made < MaxCalls /\ made' = made + 1 /\ UNCHANGED <<faithful, sends>>

sys_kill(t, g, s) ==
  /\ InUser(t) /\ Sending
  /\ \E u \in find_task_by_tgid(t, g) : SyscallReturn(t, Post(task, u, s), 0)

sys_tkill(t, u, s) ==
  /\ InUser(t) /\ Alive(u) /\ Sending
  /\ SyscallReturn(t, Post(task, u, s), 0)

\* The signal reaches the task only if the search by group happens to find it;
\* the call succeeds all the same, so the signal is owed to it.
sys_tgkill(t, u, s) ==
  /\ InUser(t) /\ Alive(u) /\ Sending
  /\ \E f \in find_task_by_tgid(t, task[u].tgid) :
       /\ f = u \/ MayCall("tgkill_other")
       /\ SyscallReturn(t, IF f = u THEN Post(task, u, s)
                           ELSE [task EXCEPT ![u].owed = @ \cup {s}], 0)

-----------------------------------------------------------------------------
(* Handlers, masks and the return from a handler *)

\* A SIG_DFL or SIG_IGN handler empties the entry.
sigaction(t, s, how, act) ==
  /\ InUser(t) /\ task[t].cx.pc = Main /\ s \notin {SIGKILL, SIGSTOP}
  /\ how = "ign" => s \in IgnoredByDefault \/ MayCall("ignore")
  /\ LET h == task[t].hand
         new == IF how = "catch"
                  THEN [handler |-> TRUE, nodefer |-> act.nodefer,
                        resethand |-> act.resethand, mask |-> act.mask \ CAN_NOT_BE_MASKED]
                  ELSE Default
     IN trap_return(t, Result(task, t, 0), [sighand EXCEPT ![h][s] = new],
                    [wish EXCEPT ![h][s] = how])
  /\ Calling

sigprocmask(t, how, set) ==
  /\ InUser(t) /\ task[t].cx.pc = Main
  /\ SyscallReturn(t, [task EXCEPT ![t].mask =
                         (CASE how = "block" -> @ \cup set
                            [] how = "unblock" -> @ \ set
                            [] how = "set" -> set) \ CAN_NOT_BE_MASKED], 0)
  /\ Calling

\* The context is read back from where the stack pointer says the frame is.
FrameAt(sp) == Floor(sp + SI + Align - 1)

\* The handler has returned, with the stack pointer it was given: the mask and
\* the context come from the frame, a0 with them.  A handler may change the mask
\* in its frame.
sys_sigreturn(t) ==
  LET me == task[t]
      n == Len(me.calls)
  IN /\ InUser(t) /\ me.cx.pc # Main /\ me.cx.sp = me.calls[n].base
     /\ \E more \in {{}} \cup {m \in Masks : MayCall("edit_frame")} :
        \E f \in {g \in me.frames : g.at = FrameAt(me.cx.sp)} :
          /\ trap_return(t, [task EXCEPT ![t].mask = f.mask \cup more, ![t].cx = f.cx,
                                         ![t].frames = @ \ {f},
                                         ![t].calls = SubSeq(@, 1, n - 1)], sighand, wish)
          /\ faithful' = (f.mask = me.calls[n].mask /\ f.cx = me.calls[n].cx)
     /\ UNCHANGED <<sends, made>>

-----------------------------------------------------------------------------
(* Other traps, and what the program does with its stack *)

\* A page fault that can not be satisfied raises SIGSEGV, or SIGBUS past the end
\* of a file, and unmasks it.
PageFault(t, s) ==
  /\ InUser(t)
  /\ trap_return(t, [task EXCEPT ![t].mask = @ \ {s}, ![t].pending = @ \cup {s},
                                 ![t].owed = @ \cup {s}], sighand, wish)
  /\ Sending

IllegalInstruction(t) ==
  /\ InUser(t)
  /\ trap_return(t, [task EXCEPT ![t].pending = @ \cup {SIGILL},
                                 ![t].owed = @ \cup {SIGILL}], sighand, wish)
  /\ Sending

\* The timer interrupt: the hart may go to others before the trap ends.
TimerInterrupt(t) ==
  /\ InUser(t) /\ task[t].pending # {}
  /\ trap_return(t, task, sighand, wish)
  /\ UNCHANGED <<faithful, sends, made>>

\* A call that sleeps until its time is over or a signal comes (nanosleep).
sys_nanosleep(t) ==
  /\ InUser(t) /\ task[t].cx.pc = Main
  /\ task' = [task EXCEPT ![t].status = "asleep"]
  /\ ended' = Nobody
  /\ Calling /\ UNCHANGED <<sighand, wish>>

do_wake_expired(t) ==
  /\ task[t].status = "asleep"
  /\ task' = [task EXCEPT ![t].status = "awake"]
  /\ ended' = Nobody
  /\ UNCHANGED <<sighand, wish, faithful, sends, made>>

\* The rest of the call: a pending signal, masked or not, makes it fail.
NanosleepReturns(t) ==
  /\ task[t].status = "awake"
  /\ trap_return(t, [task EXCEPT ![t].status = "user",
                                 ![t].cx.a0 = IF task[t].pending = {} THEN 0 ELSE EINTR],
                 sighand, wish)
  /\ UNCHANGED <<faithful, sends, made>>

\* A stopped task resumes out of the loop of do_signal, whatever signal resumed
\* it, and what is pending waits for its next trap.
StopReturns(t) ==
  /\ task[t].status = "resumed"
  /\ task' = [task EXCEPT ![t].status = "user"]
  /\ ended' = Nobody
  /\ UNCHANGED <<sighand, wish, faithful, sends, made>>

\* The next task control block.
Fresh == LET free == {c \in Tasks : task[c].status = "none"}
         IN IF free = {} THEN {} ELSE {CHOOSE c \in free : TRUE}

\* The pending set is inherited, the mask is not.  A thread shares the handler
\* table, a process has a copy.
sys_clone(t, c, thread) ==
  LET me == task[t]
  IN /\ InUser(t) /\ me.cx.pc = Main
     /\ me.pending = {} \/ MayCall("clone_pending")
     /\ LET child == [Unborn EXCEPT !.status = "user", !.pending = me.pending,
                                    !.tgid = IF thread THEN me.tgid ELSE c,
                                    !.hand = IF thread THEN me.hand ELSE c]
            hands == IF thread THEN sighand ELSE [sighand EXCEPT ![c] = sighand[me.hand]]
            wishes == IF thread THEN wish ELSE [wish EXCEPT ![c] = wish[me.hand]]
        IN trap_return(t, Result([task EXCEPT ![c] = child], t, 0), hands, wishes)
     /\ Calling

\* Where the activation running now started.
Base(me) == IF me.calls = <<>> THEN StackSize ELSE me.calls[Len(me.calls)].base

\* User code writes below its stack pointer and takes it back.
Push(t) ==
  LET me == task[t]
  IN /\ InUser(t) /\ me.cx.sp > 0 /\ Base(me) - me.cx.sp < MaxPush
     /\ task' = [task EXCEPT ![t].cx.sp = @ - 1,
                             ![t].frames = {f \in @ : me.cx.sp - 1 \notin f.at .. (f.at + UC - 1)}]
     /\ ended' = Nobody
     /\ UNCHANGED <<sighand, wish, faithful, sends, made>>

Pop(t) ==
  /\ InUser(t) /\ task[t].cx.sp < Base(task[t])
  /\ task' = [task EXCEPT ![t].cx.sp = @ + 1]
  /\ ended' = Nobody
  /\ UNCHANGED <<sighand, wish, faithful, sends, made>>

Step(t) ==
  \/ \E g \in Tasks, s \in Sent : g \in {task[u].tgid : u \in {v \in Tasks : Alive(v)}}
                                  /\ sys_kill(t, g, s)
  \/ \E u \in Tasks, s \in Sent : sys_tkill(t, u, s) \/ sys_tgkill(t, u, s)
  \/ \E s \in Changed, act \in Acts : sigaction(t, s, "catch", act)
  \/ \E s \in Changed, how \in {"dfl", "ign"} : sigaction(t, s, how, Default)
  \/ \E set \in Masks, how \in {"block", "unblock", "set"} : sigprocmask(t, how, set)
  \/ sys_sigreturn(t)
  \/ \E s \in {SIGBUS, SIGSEGV} \cap Sigs : PageFault(t, s)
  \/ IllegalInstruction(t)
  \/ sys_nanosleep(t) \/ do_wake_expired(t) \/ NanosleepReturns(t) \/ StopReturns(t)
  \/ \E c \in Fresh, thread \in BOOLEAN : sys_clone(t, c, thread)
  \/ Push(t) \/ Pop(t)

Next == \E t \in Tasks : Step(t) \/ TimerInterrupt(t)

Spec == Init /\ [][Next]_vars
-----------------------------------------------------------------------------
(* Properties *)

\* Delivery is exact (do_signal, sys_sigreturn, sigprocmask, the kill family):
\* every handler that is running has its frame intact on the stack, with the
\* context and the mask it interrupted, and its return has restored them; a
\* signal whose handler runs stays masked unless its action or a fault said
\* otherwise; the signals that can not be masked never are; what is pending is
\* what successful calls and faults have raised and do_signal has not taken; and
\* a process ends by a signal only where it asked for the default action.
SignalsAreExact ==
  /\ faithful
  /\ ended.wanted = "dfl"
  /\ \A t \in Tasks :
       LET me == task[t]
       IN /\ me.mask \cap CAN_NOT_BE_MASKED = {}
          /\ me.pending = me.owed
          /\ \A k \in DOMAIN me.calls :
               LET call == me.calls[k]
               IN /\ [at |-> FrameAt(call.base), cx |-> call.cx, mask |-> call.mask] \in me.frames
                  /\ \/ call.sig \in me.mask \/ call.open
                     \/ call.sig \in CAN_NOT_BE_MASKED \cup {SIGBUS}
=============================================================================
