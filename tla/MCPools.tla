------------------------------ MODULE MCPools ------------------------------
(***************************************************************************)
(* What has to end, for TLC.  A behaviour is one of one component: the     *)
(* block cache, a pipe, poll and select, or the exits of a thread group.   *)
(***************************************************************************)
EXTENDS Process

CONSTANT Parts   \* the components this run is about

VARIABLE which   \* the component that runs
VARIABLES arr, head, tail, pipe_status, readers, writers, pipe_pc, buffer, op, delivered   \* Pipe
VARIABLES cache_pool, disk, held, wanted, written   \* BlockCache
VARIABLES open, last_char, console, pipe, timer, now, mask, oldsig, call, locked, hart,
          typed, got, answer   \* Poll

pipe_vars == <<arr, head, tail, pipe_status, readers, writers, pipe_pc, buffer, op, delivered>>
cache_vars == <<cache_pool, disk, held, wanted, written>>
poll_vars == <<open, last_char, console, pipe, timer, now, mask, oldsig, call, locked, hart,
               typed, got, answer>>


Pieces == {<<1>>, <<2, 1>>, <<4>>}
PollWants == {{<<"tty", "in">>, <<"reader", "in">>}, {<<"writer", "out">>, <<"timer", "in">>}}
ThreadCalls == {"fork", "thread", "exit_group", "wait4", "kill", "sleep", "join", "loop"}

Pipe == INSTANCE Pipe WITH
  Tasks <- {1, 2}, NoTask <- 0, Size <- 2, Bytes <- {0}, Buffers <- Pieces,
  status <- pipe_status, pc <- pipe_pc
Cache == INSTANCE BlockCache WITH
  Blocks <- 1..3, Values <- {0}, Unused <- 0, PoolSize <- 2, MaxHeld <- 2
Poll == INSTANCE Poll WITH
  Tasks <- {1, 2, 3}, Pollers <- {1}, Selecters <- {2}, Cap <- 1, MaxTime <- 1,
  Input <- <<1>>, Wants <- PollWants, Own <- {"usr1"}, Masks <- {{}}, Departures <- {}

-----------------------------------------------------------------------------
\* The components that do not run keep still.
MCInit ==
  /\ which \in Parts
  /\ Init
  /\ Pipe!PipeInit
  /\ Cache!Init
  /\ Poll!Init

MCNext ==
  \/ /\ which = "threads" /\ Next
     /\ UNCHANGED <<which, pipe_vars, cache_vars, poll_vars>>
  \/ /\ which = "pipe" /\ Pipe!PipeNext
     /\ UNCHANGED <<which, vars, cache_vars, poll_vars>>
  \/ /\ which = "cache" /\ Cache!Next
     /\ UNCHANGED <<which, vars, pipe_vars, poll_vars>>
  \/ /\ which = "poll" /\ Poll!Next
     /\ UNCHANGED <<which, vars, pipe_vars, cache_vars>>

MCvars == <<which, vars, pipe_vars, cache_vars, poll_vars>>
MCSpec == MCInit /\ [][MCNext]_MCvars


\* The fairness of each component, when it is the one that runs.
MCFairness ==
  /\ WF_cache_vars(which = "cache" /\ Cache!alloc_buffer_cache)
  /\ WF_cache_vars(which = "cache" /\ Cache!oom)
  /\ WF_pipe_vars(which = "pipe" /\ Pipe!Copy)
  /\ \A t \in {1, 2} : /\ WF_pipe_vars(which = "pipe" /\ Pipe!ReadRound(t))
                       /\ WF_pipe_vars(which = "pipe" /\ Pipe!WriteRound(t))
  /\ WF_poll_vars(which = "poll" /\ Poll!Tick)
  /\ \A t \in {1, 2} : WF_poll_vars(which = "poll" /\ Poll!Loops(t))
  /\ WF_vars(which = "threads" /\ Schedule)
  /\ WF_vars(which = "threads" /\ Exit)
  /\ SF_vars(which = "threads" /\ Wait4(INITPROC, NoTask, FALSE))
  /\ \A t \in Tasks :
       /\ WF_vars(which = "threads" /\ do_signal(t))
       /\ WF_vars(which = "threads" /\ Return(t))
       /\ WF_vars(which = "threads" /\ WaitRound(t))
       /\ WF_vars(which = "threads" /\ LoopRound(t))
       /\ SF_vars(which = "threads" /\ TimerInterrupt(t))

MCFairSpec == MCSpec /\ MCFairness

-----------------------------------------------------------------------------

\* Between two calls the queues and the status of every task agree, no exit goes
\* unnoticed in wait4, and a zombie it finds is referenced from nowhere else
\* (the assertion at process.rs:741).
ThreadsAgree ==
  which = "threads" => QueuesAgree /\ NoMissedExit /\ ReapIsLast

\* When exit_group is through no thread of the group is alive or queued; a dead
\* child of initproc is reaped, and a task that is sent a terminating signal
\* terminates; and a task that has exited leaves the Zombie state only by being
\* released (task/mod.rs do_exit and exit_group_and_run_next).
ExitsAreComplete ==
  /\ GroupExitIsComplete
  /\ OrphansAreReaped
  /\ KillTerminates
  /\ ZombiesStayDead

\* Whoever waits in the kernel gets an answer: a request for a block buffer, a
\* reader or writer left alone with a pipe, a ppoll or pselect with a timeout or
\* with something ready (fs/cache.rs, fs/dev/pipe.rs, fs/poll.rs).
CallsReturn ==
  /\ Cache!RequestsAreAnswered
  /\ Pipe!ReadEnds /\ Pipe!WriteEnds
  /\ Poll!PollsReturn
=============================================================================
