---------------------------- MODULE VirtioDevices ----------------------------
(***************************************************************************)
(* The virtio drivers that lend buffers to a device and take them back:    *)
(* console, input, network, block and sound (dependency/virtio-drivers/    *)
(* src/device: console.rs, input.rs, net/dev.rs over net/dev_raw.rs,       *)
(* blk.rs, sound.rs), each over one virtqueue.                             *)
(*                                                                         *)
(* The queue is what Virtqueue.tla shows it to be: free descriptors are    *)
(* handed out from the head of a list and the descriptors of a popped      *)
(* request go back to its head; a request is popped with its own token and *)
(* only when it is the oldest used one.  A machine is explored with one    *)
(* device at a time: drivers share no state.  Items (bytes of the console, *)
(* input events, packets) are numbered modulo Serial in the order the      *)
(* device produces them.                                                   *)
(***************************************************************************)
EXTENDS Integers, Sequences, FiniteSets, SequencesExt, TLC

CONSTANTS Size,      \* descriptors of the queue, QUEUE_SIZE
          Serial,    \* item numbers told apart
          MaxFill,   \* bytes a console device writes to a buffer at once
          MaxFrames, \* periods of one pcm_xfer
          Mixed,     \* whether a blocking block request is made while others are outstanding
          Faulty     \* whether a sound device reports errors or reorders

VARIABLES device, indirect,
          q,          \* the queue: free list, lent requests, used ring
          mem,        \* contents of the buffers that hold items
          console,    \* cursor, pending_len, receive_token
          rx_buffers, \* net: the buffer in each slot
          held,       \* net: buffers handed to the caller
          reqs,       \* tokens of non-blocking requests the caller has to complete
          call,       \* token a blocking request waits for
          xfer,       \* locals of pcm_xfer
          next_in, next_out, \* next item the device produces, the caller expects
          panicked
vars == <<device, indirect, q, mem, console, rx_buffers, held, reqs, call, xfer,
          next_in, next_out, panicked>>

Tokens == 0 .. Size - 1
None == -1

(***************************************************************************)
(* The queue.                                                              *)
(***************************************************************************)
available_desc == IF ~indirect THEN Len(q.free) ELSE IF q.free = <<>> THEN 0 ELSE Size

(* add, for n buffers: an indirect request takes one descriptor. *)
Needs(n) == IF indirect THEN 1 ELSE n

CanAdd(qu, n) == Len(qu.free) >= Needs(n)

add(qu, n, b) ==
  [qu EXCEPT !.free = SubSeq(@, Needs(n) + 1, Len(@)),
             !.lent = (Head(qu.free) :> [buf |-> b, descs |-> SubSeq(qu.free, 1, Needs(n))]) @@ @]

can_pop == q.used # <<>>

peek_used == IF can_pop THEN Head(q.used).token ELSE None

pop_used(qu, t) ==
  [free |-> qu.lent[t].descs \o qu.free,
   lent |-> [s \in DOMAIN qu.lent \ {t} |-> qu.lent[s]],
   used |-> SubSeq(qu.used, 2, Len(qu.used))]

Lent(b) == CHOOSE t \in DOMAIN q.lent : q.lent[t].buf = b

AtDevice == DOMAIN q.lent \ {u.token : u \in Range(q.used)}

(***************************************************************************)
(* Initial states: the constructors.  The console has posted its one       *)
(* buffer, input and net have posted every buffer under its own index.     *)
(***************************************************************************)
Posted(kind) ==
  [free |-> <<>>, lent |-> [t \in Tokens |-> [buf |-> <<kind, t>>, descs |-> <<t>>]], used |-> <<>>]

Empty == [free |-> [i \in 1 .. Size |-> i - 1], lent |-> <<>>, used |-> <<>>]

Console == [cursor |-> 0, pending_len |-> 0, receive_token |-> 0]

Idle == [active |-> FALSE, remaining |-> 0, head |-> 0, tail |-> 0, tokens |-> [i \in Tokens |-> None]]

Init ==
  /\ device \in {"console", "input", "net", "blk", "sound"}
  /\ indirect \in BOOLEAN
  /\ q = CASE device = "console" -> add(Empty, 1, <<"rx", 0>>)
           [] device = "input" -> Posted("event")
           [] device = "net" -> Posted("packet")
           [] OTHER -> Empty
  /\ mem = [b \in Tokens |-> <<>>]
  /\ console = Console
  /\ rx_buffers = [t \in Tokens |-> IF device = "net" THEN [buf |-> t, idx |-> t] ELSE [buf |-> None, idx |-> None]]
  /\ held = {} /\ reqs = {} /\ call = None /\ xfer = Idle
  /\ next_in = 0 /\ next_out = 0 /\ panicked = FALSE

(***************************************************************************)
(* Console.                                                                *)
(***************************************************************************)
finish_receive(c) ==
  IF c.receive_token # None /\ c.receive_token = peek_used
  THEN [cursor |-> 0, pending_len |-> Len(mem[0]), receive_token |-> None]
  ELSE c

Popped(c) == IF finish_receive(c) = c THEN q ELSE pop_used(q, c.receive_token)

\* poll_retrieve mutated: the buffer is lent again before its last byte is read.
RetrievesEarly(c) == c.receive_token = None /\ c.cursor + 1 >= c.pending_len

poll_retrieve(c) == c.receive_token = None /\ c.cursor = c.pending_len

(* ack_interrupt, with an interrupt pending. *)
ack_interrupt ==
  /\ device = "console"
  /\ finish_receive(console) # console
  /\ console' = finish_receive(console) /\ q' = Popped(console)
  /\ UNCHANGED <<device, indirect, mem, rx_buffers, held, reqs, call, xfer, next_in, next_out, panicked>>

(* recv(pop): the byte at the cursor; the buffer is lent again once it is used up. *)
recv(pop) ==
  /\ device = "console"
  /\ LET c == finish_receive(console)
         last == [c EXCEPT !.cursor = @ + 1]
         lend == poll_retrieve(last)
     IN /\ c.cursor # c.pending_len
        /\ IF ~pop
           THEN console' = c /\ q' = Popped(console) /\ UNCHANGED next_out
           ELSE /\ next_out' = (next_out + 1) % Serial
                /\ q' = IF lend THEN add(Popped(console), 1, <<"rx", 0>>) ELSE Popped(console)
                /\ console' = IF lend THEN [last EXCEPT !.receive_token = Head(Popped(console).free)] ELSE last
  /\ UNCHANGED <<device, indirect, mem, rx_buffers, held, reqs, call, xfer, next_in, panicked>>

(***************************************************************************)
(* Input: pop_pending_event takes the oldest event and lends its buffer    *)
(* again at once; the assertion relies on the free list's order.           *)
(***************************************************************************)
pop_pending_event ==
  /\ device = "input" /\ can_pop
  /\ LET t == peek_used
         popped == pop_used(q, t)
     IN /\ q' = add(popped, 1, <<"event", t>>)
        /\ panicked' = (Head(popped.free) # t)
        /\ next_out' = (next_out + 1) % Serial
        /\ mem' = [mem EXCEPT ![t] = <<>>]
  /\ UNCHANGED <<device, indirect, console, rx_buffers, held, reqs, call, xfer, next_in>>

(***************************************************************************)
(* Net: receive hands the buffer of the oldest used token to the caller,   *)
(* recycle_rx_buffer takes any of them back under whatever token it gets.  *)
(* A packet shorter than the header is an error that drops its buffer.     *)
(***************************************************************************)
NoBuffer == [buf |-> None, idx |-> None]

receive ==
  /\ device = "net" /\ can_pop
  /\ LET t == peek_used
         rx_buf == rx_buffers[t]
         wrong == rx_buf.buf = None \/ rx_buf.idx # t
     IN /\ rx_buffers' = [rx_buffers EXCEPT ![t] = NoBuffer]
        /\ \/ wrong /\ UNCHANGED <<q, held, mem, next_out>>
           \/ /\ ~wrong
              /\ q' = pop_used(q, t)
              /\ mem' = [mem EXCEPT ![rx_buf.buf] = <<>>]
              /\ IF mem[rx_buf.buf] = <<>>
                 THEN UNCHANGED <<held, next_out>>
                 ELSE held' = held \cup {rx_buf} /\ next_out' = (next_out + 1) % Serial
  /\ UNCHANGED <<device, indirect, console, reqs, call, xfer, next_in, panicked>>

\* Relabelled mutated: the buffer keeps the index it was received under.
KeepsLabel(rx_buf, t) == rx_buf

Relabelled(rx_buf, t) == [rx_buf EXCEPT !.idx = t]

recycle_rx_buffer(rx_buf) ==
  /\ device = "net" /\ rx_buf \in held /\ CanAdd(q, 1)
  /\ LET t == Head(q.free)
     IN /\ q' = add(q, 1, <<"packet", rx_buf.buf>>)
        /\ held' = held \ {rx_buf}
        /\ rx_buffers' = IF rx_buffers[t].buf # None THEN rx_buffers
                         ELSE [rx_buffers EXCEPT ![t] = Relabelled(rx_buf, t)]
  /\ UNCHANGED <<device, indirect, mem, console, reqs, call, xfer, next_in, next_out, panicked>>

(***************************************************************************)
(* Block, and the pcm_xfer_nb of sound: requests the caller completes by   *)
(* token, and blocking ones (add_notify_wait_pop), which return an error   *)
(* when the oldest used request is not theirs.                             *)
(***************************************************************************)
begin_nb(n) ==
  /\ call = None /\ ~xfer.active /\ CanAdd(q, n)
  /\ q' = add(q, n, <<"nb", 0>>) /\ reqs' = reqs \cup {Head(q.free)}
  /\ UNCHANGED <<device, indirect, mem, console, rx_buffers, held, call, xfer, next_in, next_out, panicked>>

read_blocks_nb == device = "blk" /\ begin_nb(3)

pcm_xfer_nb == device = "sound" /\ begin_nb(2)

(* complete_read_blocks, complete_write_blocks and pcm_xfer_ok; any other token is an error. *)
complete(t) ==
  /\ call = None /\ ~xfer.active /\ t \in reqs /\ t = peek_used
  /\ q' = pop_used(q, t) /\ reqs' = reqs \ {t}
  /\ UNCHANGED <<device, indirect, mem, console, rx_buffers, held, call, xfer, next_in, next_out, panicked>>

request ==
  /\ device = "blk" /\ call = None /\ CanAdd(q, 3)
  /\ Mixed \/ reqs = {}
  /\ q' = add(q, 3, <<"call", 0>>) /\ call' = Head(q.free)
  /\ UNCHANGED <<device, indirect, mem, console, rx_buffers, held, reqs, xfer, next_in, next_out, panicked>>

request_returns ==
  /\ call # None /\ can_pop
  /\ q' = IF peek_used = call THEN pop_used(q, call) ELSE q
  /\ call' = None
  /\ UNCHANGED <<device, indirect, mem, console, rx_buffers, held, reqs, xfer, next_in, next_out, panicked>>

(***************************************************************************)
(* Sound: pcm_xfer keeps a ring of the requests it has added, head where   *)
(* the next is put and tail the next to pop.  One iteration of its loop.   *)
(***************************************************************************)
pcm_xfer(periods) ==
  /\ device = "sound" /\ ~xfer.active /\ reqs = {}
  /\ xfer' = [Idle EXCEPT !.active = TRUE, !.remaining = periods]
  /\ UNCHANGED <<device, indirect, q, mem, console, rx_buffers, held, reqs, call, next_in, next_out, panicked>>

Wrapped(i) == IF i + 1 >= Size THEN 0 ELSE i + 1

pcm_xfer_loop ==
  LET room == available_desc >= 3
      send == room /\ xfer.remaining > 0
      done == room /\ xfer.remaining = 0 /\ xfer.head = xfer.tail
      sent == IF send THEN [xfer EXCEPT !.remaining = @ - 1, !.tokens[xfer.head] = Head(q.free),
                                        !.head = Wrapped(@)]
              ELSE xfer
      q1 == IF send THEN add(q, 3, <<"slot", xfer.head>>) ELSE q
      mine == sent.tokens[sent.tail] = peek_used
  IN /\ xfer.active
     /\ send \/ done \/ can_pop
     /\ IF done THEN xfer' = Idle /\ q' = q
        ELSE IF ~can_pop THEN xfer' = sent /\ q' = q1
        ELSE IF ~mine THEN xfer' = Idle /\ q' = q1
        ELSE /\ q' = pop_used(q1, peek_used)
             /\ xfer' = IF Head(q.used).ok THEN [sent EXCEPT !.tail = Wrapped(@)] ELSE Idle
     /\ UNCHANGED <<device, indirect, mem, console, rx_buffers, held, reqs, call, next_in, next_out, panicked>>

(***************************************************************************)
(* The device (external): it fills or serves any request it holds; console *)
(* and sound requests in the order they were lent.                         *)
(***************************************************************************)
Items(n) == [i \in 1 .. n |-> (next_in + i - 1) % Serial]

Fill(t, n) ==
  /\ t \in AtDevice
  /\ device \in {"console", "input", "net"}
  /\ n \in CASE device = "console" -> 1 .. MaxFill [] device = "net" -> 0 .. 1 [] OTHER -> {1}
  /\ mem' = [mem EXCEPT ![q.lent[t].buf[2]] = Items(n)]
  /\ q' = [q EXCEPT !.used = Append(@, [token |-> t, ok |-> TRUE])]
  /\ next_in' = (next_in + n) % Serial
  /\ UNCHANGED <<device, indirect, console, rx_buffers, held, reqs, call, xfer, next_out, panicked>>

Oldest(t) == \A s \in AtDevice :
               (xfer.active /\ q.lent[t].buf[1] = "slot" /\ q.lent[s].buf[1] = "slot") =>
                 (q.lent[t].buf[2] - xfer.tail) % Size <= (q.lent[s].buf[2] - xfer.tail) % Size

Serve(t, ok) ==
  /\ t \in AtDevice
  /\ device \in {"blk", "sound"}
  /\ Faulty \/ (ok /\ Oldest(t))
  /\ q' = [q EXCEPT !.used = Append(@, [token |-> t, ok |-> ok])]
  /\ UNCHANGED <<device, indirect, mem, console, rx_buffers, held, reqs, call, xfer, next_in, next_out, panicked>>

Next ==
  \/ ack_interrupt
  \/ \E pop \in BOOLEAN : recv(pop)
  \/ pop_pending_event
  \/ receive
  \/ \E rx_buf \in held : recycle_rx_buffer(rx_buf)
  \/ read_blocks_nb
  \/ pcm_xfer_nb
  \/ \E t \in reqs : complete(t)
  \/ request
  \/ request_returns
  \/ \E periods \in 1 .. MaxFrames : pcm_xfer(periods)
  \/ pcm_xfer_loop
  \/ \E t \in AtDevice, n \in 0 .. MaxFill : Fill(t, n)
  \/ \E t \in AtDevice, ok \in BOOLEAN : Serve(t, ok)

Spec == Init /\ [][Next]_vars

-----------------------------------------------------------------------------
(* Items produced by the device that the caller has not been given. *)
Unread ==
  (IF device = "console" THEN SubSeq(mem[0], console.cursor + 1, Min({console.pending_len, Len(mem[0])})) ELSE <<>>)
    \o FlattenSeq([i \in 1 .. Len(q.used) |-> mem[q.lent[q.used[i].token].buf[2]]])

(* What console recv, pop_pending_event and receive return: every byte,     *)
(* event and packet the device produced, once and in order, whatever the    *)
(* order in which buffers are used, handed out and recycled.                *)
ItemsArriveInOrder ==
  device \in {"console", "input", "net"} =>
    Unread = [i \in 1 .. ((next_in - next_out) % Serial) |-> (next_out + i - 1) % Serial]

(* A buffer at the device is one the driver holds for it, and the token a   *)
(* request comes back under finds it: the console's only buffer once it is  *)
(* read up, the event buffer of the same index (no assertion of input.rs    *)
(* fails), the slot of rx_buffers with that label, a request the caller     *)
(* still has to complete, or a local of a call that has not returned (the   *)
(* SAFETY comments of queue.rs add_notify_wait_pop and sound.rs pcm_xfer).  *)
Holds(t) ==
  LET b == q.lent[t].buf
  IN CASE b[1] = "rx" -> console.receive_token = t /\ console.cursor = console.pending_len
       [] b[1] = "event" -> b[2] = t
       [] b[1] = "packet" -> rx_buffers[t] = [buf |-> b[2], idx |-> t]
       [] b[1] = "nb" -> t \in reqs
       [] b[1] = "call" -> call = t
       [] b[1] = "slot" -> xfer.active /\ xfer.tokens[b[2]] = t

LentBuffersAreHeld ==
  /\ ~panicked
  /\ \A t \in DOMAIN q.lent : Holds(t)
  /\ \A t \in Tokens : rx_buffers[t].buf # None => t \in DOMAIN q.lent
  /\ Cardinality(DOMAIN q.lent) + Cardinality(held) <= Size

=============================================================================
