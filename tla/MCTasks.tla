------------------------------ MODULE MCTasks ------------------------------
(***************************************************************************)
(* Tasks and what they hold, for TLC.  A behaviour is one of one component:*)
(* an allocator of ids, the areas of an address space, a descriptor table, *)
(* a pipe, poll and select, signals, clocks, or the images of a few tasks. *)
(***************************************************************************)
EXTENDS RecycleAllocator, Pipe, TLC

CONSTANT Parts   \* the components this run is about

CONSTANTS MCFiles,     \* Files of FdTable
          NoSuchFile,  \* None of FdTable
          Departures   \* calls that do not do what they say

VARIABLE which   \* the component that runs
VARIABLES areas, pte, heap_pt, want, calls   \* MapAreas
VARIABLES inner, fds_recycled, soft_limit, forgotten, ret   \* FdTable
VARIABLES open, last_char, console, pipe, timer, now, mask, oldsig, call, locked, hart,
          typed, got, answer   \* Poll
VARIABLES task, sighand, wish, ended, faithful, sends, made   \* Signals
VARIABLES clocks_now, mode, cause, clock, utime, clocks_timer, used, due, early, read,
          clocks_made   \* Clocks
VARIABLES images_task, vm, group, kspace, panicked   \* Images

areas_vars == <<areas, pte, heap_pt, want, calls>>
fds_vars == <<inner, fds_recycled, soft_limit, forgotten, ret>>
poll_vars == <<open, last_char, console, pipe, timer, now, mask, oldsig, call, locked, hart,
               typed, got, answer>>
signals_vars == <<task, sighand, wish, ended, faithful, sends, made>>
clocks_vars == <<clocks_now, mode, cause, clock, utime, clocks_timer, used, due, early, read,
                 clocks_made>>
images_vars == <<images_task, vm, group, kspace, panicked>>


Pieces == {<<1>>, <<2, 1>>, <<4>>}
FdCalls == {"open", "pipe2", "pipe2_half", "dup", "dup_to", "dupfd", "setfd", "close",
            "execve", "setrlimit"}
PollWants == {{<<"tty", "in">>, <<"reader", "in">>}, {<<"writer", "out">>, <<"timer", "in">>}}
\* A plain action, and one that masks another signal, does not defer its own and
\* is reset when it is used.
SignalActs == {[nodefer |-> FALSE, resethand |-> FALSE, mask |-> {}],
               [nodefer |-> TRUE, resethand |-> TRUE, mask |-> {9, 20}]}

MapAreas == INSTANCE MapAreas WITH
  HeapBase <- 1, HeapEnd <- 3, MmapBase <- 3, MmapEnd <- 6, Top <- 6, Part <- 2,
  Prots <- {{"R"}, {"R", "W"}}, FilePages <- 2, Offsets <- {0}, MaxLen <- 2,
  MaxCalls <- 3, MaxOut <- 2, Protected <- {3, 4}, Departures <- Departures
Descriptors == INSTANCE FdTable WITH
  Files <- MCFiles, None <- NoSuchFile, Limits <- {3, 4}, W <- 2, Calls <- FdCalls,
  recycled <- fds_recycled
Poll == INSTANCE Poll WITH
  Tasks <- {1, 2, 3}, Pollers <- {1}, Selecters <- {2}, Cap <- 1, MaxTime <- 1,
  Input <- <<1, 2>>, Wants <- PollWants, Own <- {"usr1"}, Masks <- {{}},
  Departures <- Departures
Signals == INSTANCE Signals WITH
  Tasks <- {1, 2}, First <- 1, Sigs <- {4, 7, 9, 10, 11, 17, 20},
  Sent <- {9, 10, 17, 20}, Acts <- SignalActs, Masks <- {{9, 10}}, StackSize <- 13,
  UC <- 3, SI <- 2, Align <- 2, Changed <- {10, 11}, MaxSends <- 2, MaxCalls <- 2,
  MaxPush <- 1, Departures <- Departures
Clocks == INSTANCE Clocks WITH
  Tasks <- {1, 2}, First <- 1, Freq <- 5, Usec <- 2, Nsec <- 8, Word <- 128, Offset <- 1,
  Requests <- {<<2, 0>>, <<1, 2>>, <<0, 0>>}, MaxNow <- 8, MaxCalls <- 2,
  Departures <- Departures, now <- clocks_now, timer <- clocks_timer,
  made <- clocks_made
Images == INSTANCE Images WITH
  Tasks <- 1..3, TrapFrames <- 1..4, MaxTid <- 1, ArgLists <- {<<>>, <<3>>, <<8, 0>>},
  PageSize <- 4096, Word <- 8, Departures <- Departures, task <- images_task

-----------------------------------------------------------------------------
\* The components that do not run keep still.
MCInit ==
  /\ which \in Parts
  /\ Init
  /\ PipeInit
  /\ IF which = "areas" THEN MapAreas!Init
     ELSE /\ areas = 0 /\ pte = 0 /\ heap_pt = 0 /\ want = 0 /\ calls = 0
  /\ IF which = "fds" THEN Descriptors!Init
     ELSE /\ inner = 0 /\ fds_recycled = 0 /\ soft_limit = 0 /\ forgotten = 0 /\ ret = 0
  /\ IF which = "poll" THEN Poll!Init
     ELSE /\ open = 0 /\ last_char = 0 /\ console = 0 /\ pipe = 0 /\ timer = 0 /\ now = 0
          /\ mask = 0 /\ oldsig = 0 /\ call = 0 /\ locked = 0 /\ hart = 0
          /\ typed = 0 /\ got = 0 /\ answer = 0
  /\ IF which = "signals" THEN Signals!Init
     ELSE /\ task = 0 /\ sighand = 0 /\ wish = 0 /\ ended = 0 /\ faithful = 0 /\ sends = 0
          /\ made = 0
  /\ IF which = "clocks" THEN Clocks!Init
     ELSE /\ clocks_now = 0 /\ mode = 0 /\ cause = 0 /\ clock = 0 /\ utime = 0
          /\ clocks_timer = 0 /\ used = 0 /\ due = 0 /\ early = 0 /\ read = 0
          /\ clocks_made = 0
  /\ IF which = "images" THEN Images!Init
     ELSE /\ images_task = 0 /\ vm = 0 /\ group = 0 /\ kspace = 0 /\ panicked = 0

MCNext ==
  \/ /\ which = "ids" /\ Next
     /\ UNCHANGED <<which, pipe_vars, areas_vars, fds_vars, poll_vars, signals_vars,
                    clocks_vars, images_vars>>
  \/ /\ which = "pipe" /\ PipeNext
     /\ UNCHANGED <<which, vars, areas_vars, fds_vars, poll_vars, signals_vars,
                    clocks_vars, images_vars>>
  \/ /\ which = "areas" /\ MapAreas!Next
     /\ UNCHANGED <<which, vars, pipe_vars, fds_vars, poll_vars, signals_vars,
                    clocks_vars, images_vars>>
  \/ /\ which = "fds" /\ Descriptors!Next
     /\ UNCHANGED <<which, vars, pipe_vars, areas_vars, poll_vars, signals_vars,
                    clocks_vars, images_vars>>
  \/ /\ which = "poll" /\ Poll!Next
     /\ UNCHANGED <<which, vars, pipe_vars, areas_vars, fds_vars, signals_vars,
                    clocks_vars, images_vars>>
  \/ /\ which = "signals" /\ Signals!Next
     /\ UNCHANGED <<which, vars, pipe_vars, areas_vars, fds_vars, poll_vars, clocks_vars,
                    images_vars>>
  \/ /\ which = "clocks" /\ Clocks!Next
     /\ UNCHANGED <<which, vars, pipe_vars, areas_vars, fds_vars, poll_vars, signals_vars,
                    images_vars>>
  \/ /\ which = "images" /\ Images!Next
     /\ UNCHANGED <<which, vars, pipe_vars, areas_vars, fds_vars, poll_vars, signals_vars,
                    clocks_vars>>

MCvars == <<which, vars, pipe_vars, areas_vars, fds_vars, poll_vars, signals_vars,
            clocks_vars, images_vars>>
MCSpec == MCInit /\ [][MCNext]_MCvars

-----------------------------------------------------------------------------

\* The areas of an address space tile what was mapped, and every page gives a
\* fault what its area was last told (memory_set.rs mmap, munmap, mprotect and
\* sbrk, map_area.rs into_two and into_three, memory_set.rs do_page_fault).
MappingsAreExact == which = "areas" => MapAreas!AreasAreExact /\ MapAreas!FaultsAreRight

ASSUME Descriptors!FdAssumption /\ PipeAssumption /\ NoEmptyCalls

\* What execve puts on a new stack lies as create_elf_tables says.
ASSUME Images!ArgumentsAreExact

\* The free list of a descriptor table lists its closed descriptors, each once
\* (fs/file_descriptor.rs).
RecycledAreClosed == which = "fds" => Descriptors!RecycledAreClosed

\* A call that asks for a new descriptor gets the lowest one that is closed, and
\* leaves the open ones alone (fs/file_descriptor.rs insert and try_insert_at).
DescriptorsAreNew ==
  /\ [][which = "fds" => Descriptors!KeepsOpenOnes]_fds_vars
  /\ [][which = "fds" => Descriptors!TakesLowest]_fds_vars

\* ppoll and pselect report what is so, lose no input and restore the signal
\* mask (fs/poll.rs, fs/dev/tty.rs).
PollsAreExact == which = "poll" => Poll!PollsAreExact

\* Signals are delivered to the handlers and with the masks the program asked
\* for, and a return from a handler restores what it interrupted (task/signal.rs).
SignalsAreExact == which = "signals" => Signals!SignalsAreExact

\* The times charged to a task are the times it ran, and its timers ring when
\* they are due (task/task.rs, timer.rs).
TimeIsKept == which = "clocks" => Clocks!TimeIsKept

\* Fork, clone and execve give every task a trap context, a kernel stack and a
\* user stack of its own, and the image it asked for (task/task.rs sys_clone and
\* load_elf, memory_set.rs from_elf and from_existing_user).
ImagesAreExact == which = "images" => Images!ImagesAreExact
=============================================================================
