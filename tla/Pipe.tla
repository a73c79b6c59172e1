-------------------------------- MODULE Pipe --------------------------------
(***************************************************************************)
(* fs/dev/pipe.rs: the ring buffer of one pipe, the tasks that read and    *)
(* write it, and the ends they hold open.                                  *)
(*                                                                         *)
(* A task in read_user() or write_user() finds the ring empty or full,     *)
(* sleeps until the next timer tick and looks again: sleeping is not seeing*)
(* any step.  Once it finds it usable it copies without a schedule(); one  *)
(* step per buffer_read() or buffer_write(), during which `op` says what   *)
(* is left of the user buffer, a sequence of page pieces, and no other     *)
(* task moves.  The content of user buffers is arbitrary.  The kernel's    *)
(* own read() and write() are the same loops over a buffer of one piece.   *)
(***************************************************************************)
EXTENDS Naturals, FiniteSetsExt, Sequences

CONSTANTS Tasks, NoTask,
          Size,      \* RING_DEFAULT_BUFFER_SIZE
          Bytes,     \* values of a byte, 0 among them
          Buffers    \* user buffers: sequences of lengths of page pieces

PipeAssumption ==
  /\ NoTask \notin Tasks /\ Size \in Nat \ {0} /\ 0 \in Bytes
  /\ Buffers \subseteq Seq(Nat \ {0})

\* No call is made with a buffer of no bytes.  The copy of such a call has nothing
\* to do and leaves the status NORMAL, also where head and tail meet.
NoEmptyCalls == <<>> \notin Buffers

VARIABLES arr, head, tail, status,  \* PipeRingBuffer
          readers, writers,         \* tasks with the read, the write end open
          pc,                       \* "user", or the call a task is in
          buffer,                   \* the user buffer of that call
          op,                       \* the copy loop the hart is in
          delivered                 \* what the last buffer_read() copied out

ring == <<arr, head, tail, status>>
pipe_vars == <<ring, readers, writers, pc, buffer, op, delivered>>

NoOp == [kind |-> "none", task |-> NoTask, rest |-> <<>>]

\* make_pipe(), by a task that forked the others before it closed any end.
PipeInit == /\ arr = [i \in 0..(Size - 1) |-> 0]
        /\ head = 0 /\ tail = 0 /\ status = "EMPTY"
        /\ readers = Tasks /\ writers = Tasks
        /\ pc = [t \in Tasks |-> "user"]
        /\ buffer = [t \in Tasks |-> <<>>]
        /\ op = NoOp
        /\ delivered = <<>>

-----------------------------------------------------------------------------
\* The last descriptor a task has for an end is closed.
close_read(t) ==
  /\ op = NoOp /\ pc[t] = "user" /\ t \in readers
  /\ readers' = readers \ {t}
  /\ UNCHANGED <<ring, writers, pc, buffer, op, delivered>>

close_write(t) ==
  /\ op = NoOp /\ pc[t] = "user" /\ t \in writers
  /\ writers' = writers \ {t}
  /\ UNCHANGED <<ring, readers, pc, buffer, op, delivered>>

Call(t, kind, b) ==
  /\ op = NoOp /\ pc[t] = "user"
  /\ pc' = [pc EXCEPT ![t] = kind]
  /\ buffer' = [buffer EXCEPT ![t] = b]
  /\ UNCHANGED <<ring, readers, writers, op, delivered>>

sys_read(t, b) == t \in readers /\ Call(t, "read", b)
sys_write(t, b) == t \in writers /\ Call(t, "write", b)

Start(t) == [kind |-> pc[t], task |-> t, rest |-> buffer[t]]

ReturnFrom(t) ==
  /\ pc' = [pc EXCEPT ![t] = "user"]
  /\ buffer' = [buffer EXCEPT ![t] = <<>>]

\* read_user() mutated: with the ring empty it waits even if nobody can write.
ReadNeverEnds(t) ==
  /\ op = NoOp /\ pc[t] = "read" /\ status # "EMPTY"
  /\ op' = Start(t)
  /\ UNCHANGED <<ring, readers, writers, pc, buffer, delivered>>

\* A round of the loop of read_user() that does not sleep: end of file, or the
\* copy begins.
ReadRound(t) ==
  /\ op = NoOp /\ pc[t] = "read"
  /\ \/ /\ status = "EMPTY" /\ writers = {}
        /\ ReturnFrom(t)
        /\ UNCHANGED op
     \/ /\ status # "EMPTY"
        /\ op' = Start(t)
        /\ UNCHANGED <<pc, buffer>>
  /\ UNCHANGED <<ring, readers, writers, delivered>>

WriteRound(t) ==
  /\ op = NoOp /\ pc[t] = "write"
  /\ \/ /\ status = "FULL" /\ readers = {}
        /\ ReturnFrom(t)
        /\ UNCHANGED op
     \/ /\ status # "FULL"
        /\ op' = Start(t)
        /\ UNCHANGED <<pc, buffer>>
  /\ UNCHANGED <<ring, readers, writers, delivered>>

-----------------------------------------------------------------------------
\* The copy loops.

Least(a, b) == IF a <= b THEN a ELSE b

Wrap(i) == IF i = Size THEN 0 ELSE i

\* n bytes of the first piece are done.
Rest(n) == IF n = Head(op.rest) THEN Tail(op.rest)
           ELSE <<Head(op.rest) - n>> \o Tail(op.rest)

\* The copy goes on with the next piece, or returns because head met tail.
\* s is the status the ring then has.
Proceed(met, n, s) ==
  IF met THEN status' = s /\ op' = NoOp /\ ReturnFrom(op.task)
         ELSE op' = [op EXCEPT !.rest = Rest(n)] /\ UNCHANGED <<status, pc, buffer>>

\* The bytes buffer_read() can copy without wrapping around.
Readable == (IF tail <= head THEN Size ELSE tail) - head

buffer_read ==
  /\ op.kind = "read" /\ op.rest # <<>>
  /\ LET n == Least(Head(op.rest), Readable) IN
       /\ delivered' = [i \in 1..n |-> arr[head + i - 1]]
       /\ head' = Wrap(head + n)
       /\ Proceed(head' = tail, n, "EMPTY")
  /\ UNCHANGED <<arr, tail, readers, writers>>

\* buffer_write() mutated: the free space is taken to end with the array.
WritableToEnd == Size - tail

Writable == (IF tail < head THEN head ELSE Size) - tail

buffer_write ==
  /\ op.kind = "write" /\ op.rest # <<>>
  /\ LET n == Least(Head(op.rest), Writable) IN
       /\ \E s \in [1..n -> Bytes] :
            arr' = [i \in 0..(Size - 1) |->
                      IF i \in tail..(tail + n - 1) THEN s[i - tail + 1] ELSE arr[i]]
       /\ tail' = Wrap(tail + n)
       /\ Proceed(tail' = head, n, "FULL")
  /\ UNCHANGED <<head, readers, writers, delivered>>

\* CopyDone mutated: the status of before the copy is kept.
CopyKeepsStatus ==
  /\ op # NoOp /\ op.rest = <<>>
  /\ op' = NoOp
  /\ ReturnFrom(op.task)
  /\ UNCHANGED <<ring, readers, writers, delivered>>

\* The user buffer is used up before head met tail.
CopyDone ==
  /\ op # NoOp /\ op.rest = <<>>
  /\ status' = "NORMAL"
  /\ op' = NoOp
  /\ ReturnFrom(op.task)
  /\ UNCHANGED <<arr, head, tail, readers, writers, delivered>>

Copy == buffer_read \/ buffer_write \/ CopyDone

PipeNext == \/ Copy
        \/ \E t \in Tasks :
             \/ close_read(t) \/ close_write(t) \/ ReadRound(t) \/ WriteRound(t)
             \/ \E b \in Buffers : sys_read(t, b) \/ sys_write(t, b)

PipeSpec == PipeInit /\ [][PipeNext]_pipe_vars

\* A sleeping task is woken by every timer tick and scheduled in turn.
PipeFairSpec == PipeSpec /\ WF_pipe_vars(Copy)
                 /\ \A t \in Tasks : WF_pipe_vars(ReadRound(t)) /\ WF_pipe_vars(WriteRound(t))

-----------------------------------------------------------------------------
PipeTypeOK ==
  /\ arr \in [0..(Size - 1) -> Bytes]
  /\ head \in 0..(Size - 1) /\ tail \in 0..(Size - 1)
  /\ status \in {"FULL", "EMPTY", "NORMAL"}
  /\ readers \subseteq Tasks /\ writers \subseteq Tasks
  /\ pc \in [Tasks -> {"user", "read", "write"}]
  /\ buffer \in [Tasks -> Seq(Nat \ {0})]
  /\ op = NoOp \/ op \in [kind : {"read", "write"}, task : Tasks, rest : Seq(Nat \ {0})]
  /\ delivered \in Seq(Bytes)

\* Between two calls the status is NORMAL exactly when head and tail differ:
\* the assertion of get_used_size(), and what the comment "we guarantee that
\* this operation will read at least one byte" (pipe.rs:201, 243, 295, 341)
\* rests on.
StatusIsExact == op = NoOp => (status = "NORMAL" <=> head # tail)

\* get_used_size(), of the indices where they differ.
Used == IF head < tail THEN tail - head
        ELSE IF tail < head THEN tail + Size - head
        ELSE IF status = "EMPTY" THEN 0 ELSE Size

Slot(i) == IF head + i - 1 < Size THEN head + i - 1 ELSE head + i - 1 - Size

Content == [i \in 1..Used |-> arr[Slot(i)]]

\* The ring is a queue of bytes: reads deliver what was written, in order,
\* once, however the copies wrap around and whatever pieces the user buffers
\* are made of.
Queue == INSTANCE ByteQueue WITH queue <- Content, delivered <- delivered
ImplementsByteQueue == Queue!Spec

\* A reader left alone with the pipe gets end of file or bytes, a writer left
\* alone does not hang on a full ring.
ReadEnds == \A t \in Tasks : pc[t] = "read" /\ writers = {} ~> pc[t] = "user"
WriteEnds == \A t \in Tasks : pc[t] = "write" /\ readers = {} ~> pc[t] = "user"
=============================================================================
