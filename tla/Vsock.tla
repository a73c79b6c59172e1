-------------------------------- MODULE Vsock --------------------------------
(***************************************************************************)
(* The vsock connection manager of the virtio drivers (dependency/virtio-  *)
(* drivers/src/device/socket: connectionmanager.rs over vsock.rs), with    *)
(* the peers it talks to through the device's queues.                      *)
(*                                                                         *)
(* A connection is identified by the peer's address and the local port, a  *)
(* key; connect and poll search the list before they push to it, so the    *)
(* list is a function of keys.  Packets are records with the header's op,  *)
(* credit fields and body.  Credit counters are u32 and wrap at Wrap.  The *)
(* bytes a peer sends on a connection are numbered modulo Serial, which    *)
(* tells lost, repeated and reordered bytes apart.                         *)
(***************************************************************************)
EXTENDS Integers, Sequences, FiniteSets, SequencesExt, TLC

CONSTANTS Keys,       \* <<peer, local port>> pairs
          Cap,        \* per_connection_buffer_capacity
          PeerCap,    \* the buffer a peer allocates for a connection
          Wrap,       \* 2^32 in the code
          Serial,     \* numbers told apart among the bytes of a connection
          MaxIn, MaxOut, \* bounds on the packets in flight to us and to the peers
          Reuse,      \* whether a key is reused while packets of it are in flight
          Crossing    \* whether a peer may request a connection that exists

VARIABLES connections,  \* key -> Connection
          listening,    \* the keys whose port is in listening_ports
          to_us, to_peer, \* the packets in the device, oldest first
          peer,         \* key -> the peer's end, for the ends that are open
          next_in,      \* key -> the number of the next byte recv has to return
          dropped       \* poll has returned OutputBufferTooShort
vars == <<connections, listening, to_us, to_peer, peer, next_in, dropped>>

(***************************************************************************)
(* ConnectionInfo and RingBuffer.                                          *)
(***************************************************************************)
Connection ==
  [peer_buf_alloc |-> 0, peer_fwd_cnt |-> 0, tx_cnt |-> 0, buf_alloc |-> Cap, fwd_cnt |-> 0,
   pending |-> FALSE, shutdown |-> FALSE,
   buffer |-> [i \in 0 .. Cap - 1 |-> 0], used |-> 0, start |-> 0]

update_for_event(c, p) ==
  [c EXCEPT !.peer_buf_alloc = p.buf_alloc, !.peer_fwd_cnt = p.fwd_cnt,
            !.pending = @ /\ p.op # "CreditUpdate"]

done_forwarding(c, n) == [c EXCEPT !.fwd_cnt = (@ + n) % Wrap]

\* peer_free mutated: the bytes sent are not counted against the peer's buffer.
ForgetsSent(c) == (c.peer_buf_alloc + c.peer_fwd_cnt) % Wrap

peer_free(c) == (c.peer_buf_alloc - ((c.tx_cnt - c.peer_fwd_cnt) % Wrap)) % Wrap

free(c) == Cap - c.used

(* RingBuffer::add: the part that does not fit before the end goes to the front. *)
add(c, body) ==
  LET first == (c.start + c.used) % Cap
      before == Min({Len(body), Cap - first})
  IN [c EXCEPT !.used = @ + Len(body),
               !.buffer = [i \in 0 .. Cap - 1 |->
                             IF i >= first /\ i < first + before THEN body[i - first + 1]
                             ELSE IF i < Len(body) - before THEN body[before + i + 1]
                             ELSE @[i]]]

(* RingBuffer::drain: the bytes, and what is left; a drained slot is not read before it
   is written again, and holds 0 in the model. *)
Drained(c, n) ==
  LET before == Min({n, Cap - c.start})
  IN [i \in 1 .. n |-> IF i <= before THEN c.buffer[c.start + i - 1]
                       ELSE c.buffer[i - before - 1]]
drain(c, n) ==
  [c EXCEPT !.used = @ - n, !.start = (@ + n) % Cap,
            !.buffer = [i \in 0 .. Cap - 1 |-> IF (i - c.start) % Cap < n THEN 0 ELSE @[i]]]

(***************************************************************************)
(* Packets.                                                                *)
(***************************************************************************)
new_header(k, c, op, len) ==
  [key |-> k, op |-> op, len |-> len, buf_alloc |-> c.buf_alloc, fwd_cnt |-> c.fwd_cnt]

RoomIn == Len(to_us) < MaxIn
RoomOut == Len(to_peer) < MaxOut
InFlight(k) == \E q \in {to_us, to_peer} : \E i \in DOMAIN q : q[i].key = k

send_packet(k, c, op, len) == to_peer' = Append(to_peer, new_header(k, c, op, len))

Without(f, k) == [j \in DOMAIN f \ {k} |-> f[j]]
With(f, k, v) == (k :> v) @@ f

(***************************************************************************)
(* VsockConnectionManager.                                                 *)
(***************************************************************************)
Init ==
  /\ connections = <<>> /\ listening = {}
  /\ to_us = <<>> /\ to_peer = <<>> /\ peer = <<>>
  /\ next_in = [k \in Keys |-> 0] /\ dropped = FALSE

listen(k) ==
  /\ k \notin listening /\ listening' = listening \cup {k}
  /\ UNCHANGED <<connections, to_us, to_peer, peer, next_in, dropped>>

unlisten(k) ==
  /\ k \in listening /\ listening' = listening \ {k}
  /\ UNCHANGED <<connections, to_us, to_peer, peer, next_in, dropped>>

connect(k) ==
  /\ k \notin DOMAIN connections
  /\ Reuse \/ (~InFlight(k) /\ k \notin DOMAIN peer)
  /\ RoomOut
  /\ send_packet(k, Connection, "Request", 0)
  /\ connections' = With(connections, k, Connection)
  /\ next_in' = [next_in EXCEPT ![k] = 0]
  /\ UNCHANGED <<listening, to_us, peer, dropped>>

(* send: a packet, or the refusal of check_peer_buffer_is_sufficient, which asks for
   credit unless an answer is outstanding. *)
send(k, n) ==
  /\ k \in DOMAIN connections /\ RoomOut
  /\ LET c == connections[k] IN
       \/ /\ peer_free(c) >= n
          /\ send_packet(k, c, "Rw", n)
          /\ connections' = [connections EXCEPT ![k].tx_cnt = (@ + n) % Wrap]
       \/ /\ peer_free(c) < n /\ ~c.pending
          /\ send_packet(k, c, "CreditRequest", 0)
          /\ connections' = [connections EXCEPT ![k].pending = TRUE]
  /\ UNCHANGED <<listening, to_us, peer, next_in, dropped>>

(* The callback of poll found or made a connection c for packet p, and poll goes on. *)
Handled(p, c) ==
  LET k == p.key
      keep == With(connections, k, c)
  IN \/ /\ p.op = "Request"
        /\ IF k \in listening
           THEN send_packet(k, c, "Response", 0) /\ connections' = keep
           ELSE send_packet(k, c, "Rst", 0) /\ connections' = Without(connections, k)
     \/ /\ p.op \in {"Rst", "Shutdown"}
        /\ IF c.used # 0
           THEN connections' = With(connections, k, [c EXCEPT !.shutdown = TRUE]) /\ UNCHANGED to_peer
           ELSE /\ connections' = Without(connections, k)
                /\ IF p.op = "Shutdown" THEN send_packet(k, c, "Rst", 0) ELSE UNCHANGED to_peer
     \/ /\ p.op = "CreditRequest"
        /\ send_packet(k, c, "CreditUpdate", 0) /\ connections' = keep
     \/ /\ p.op \in {"Response", "Rw", "CreditUpdate"}
        /\ UNCHANGED to_peer /\ connections' = keep

(* poll: packets of no connection are skipped, unless they request one. *)
poll ==
  /\ to_us # <<>> /\ RoomOut
  /\ to_us' = Tail(to_us)
  /\ LET p == Head(to_us)
         known == p.key \in DOMAIN connections
         c == update_for_event(IF known THEN connections[p.key] ELSE Connection, p)
     IN IF ~known /\ p.op # "Request"
        THEN UNCHANGED <<connections, to_peer, next_in, dropped>>
        ELSE /\ next_in' = IF known THEN next_in ELSE [next_in EXCEPT ![p.key] = 0]
             /\ dropped' = (dropped \/ (p.op = "Rw" /\ Len(p.body) > free(c)))
             /\ IF p.op = "Rw" /\ Len(p.body) > free(c)
                THEN connections' = With(connections, p.key, c) /\ UNCHANGED to_peer
                ELSE Handled(p, IF p.op = "Rw" THEN add(c, p.body) ELSE c)
  /\ UNCHANGED <<listening, peer>>

recv(k, n) ==
  /\ k \in DOMAIN connections /\ RoomOut
  /\ LET c == connections[k]
         bytes_read == Min({n, c.used})
         c1 == done_forwarding(drain(c, bytes_read), bytes_read)
     IN /\ bytes_read # 0 \/ c.shutdown
        /\ next_in' = [next_in EXCEPT ![k] = (@ + bytes_read) % Serial]
        /\ IF c1.shutdown /\ c1.used = 0
           THEN send_packet(k, c1, "Rst", 0) /\ connections' = Without(connections, k)
           ELSE connections' = With(connections, k, c1) /\ UNCHANGED to_peer
  /\ UNCHANGED <<listening, to_us, peer, dropped>>

update_credit(k) ==
  /\ k \in DOMAIN connections /\ RoomOut
  /\ send_packet(k, connections[k], "CreditUpdate", 0)
  /\ UNCHANGED <<connections, listening, to_us, peer, next_in, dropped>>

shutdown(k) ==
  /\ k \in DOMAIN connections /\ RoomOut
  /\ send_packet(k, connections[k], "Shutdown", 0)
  /\ UNCHANGED <<connections, listening, to_us, peer, next_in, dropped>>

force_close(k) ==
  /\ k \in DOMAIN connections /\ RoomOut
  /\ send_packet(k, connections[k], "Rst", 0)
  /\ connections' = Without(connections, k)
  /\ UNCHANGED <<listening, to_us, peer, next_in, dropped>>

(***************************************************************************)
(* The peers, which keep to the credit they are given.                     *)
(***************************************************************************)
Opened(p) == [tx |-> 0, fwd |-> 0, unread |-> 0, alloc |-> p.buf_alloc, heard |-> p.fwd_cnt,
              closing |-> FALSE, next |-> 0]
Requesting == [tx |-> 0, fwd |-> 0, unread |-> 0, alloc |-> 0, heard |-> 0,
               closing |-> FALSE, next |-> 0]
Packet(k, e, op, body) ==
  [key |-> k, op |-> op, body |-> body, buf_alloc |-> PeerCap, fwd_cnt |-> e.fwd]
Reply(k, e, op) == to_us' = Append(to_us, Packet(k, e, op, <<>>))

PeerRequests(k) ==
  /\ k \notin DOMAIN peer /\ RoomIn
  /\ Crossing \/ k \notin DOMAIN connections
  /\ Reuse \/ ~InFlight(k)
  /\ peer' = With(peer, k, Requesting)
  /\ Reply(k, Requesting, "Request")
  /\ UNCHANGED <<connections, listening, to_peer, next_in, dropped>>

PeerReceives ==
  /\ to_peer # <<>> /\ RoomIn
  /\ to_peer' = Tail(to_peer)
  /\ LET p == Head(to_peer)
         k == p.key
     IN \/ /\ p.op = "Request" /\ k \notin DOMAIN peer
           /\ \/ peer' = With(peer, k, Opened(p)) /\ Reply(k, Opened(p), "Response")
              \/ Reply(k, Opened(p), "Rst") /\ UNCHANGED peer
        \/ /\ k \in DOMAIN peer /\ p.op \in {"Rst", "Shutdown"}
           /\ peer' = Without(peer, k)
           /\ IF p.op = "Shutdown" THEN Reply(k, peer[k], "Rst") ELSE UNCHANGED to_us
        \/ /\ k \in DOMAIN peer /\ p.op \notin {"Rst", "Shutdown"}
           /\ LET e == [peer[k] EXCEPT !.alloc = p.buf_alloc, !.heard = p.fwd_cnt,
                                       !.unread = @ + p.len]
              IN /\ peer' = With(peer, k, e)
                 /\ IF p.op = "CreditRequest" THEN Reply(k, e, "CreditUpdate") ELSE UNCHANGED to_us
        \/ /\ k \notin DOMAIN peer /\ p.op # "Request"
           /\ UNCHANGED <<peer, to_us>>
  /\ UNCHANGED <<connections, listening, next_in, dropped>>

PeerSends(k, n) ==
  /\ k \in DOMAIN peer /\ ~peer[k].closing /\ RoomIn
  /\ LET e == peer[k] IN
       /\ (e.alloc - ((e.tx - e.heard) % Wrap)) % Wrap >= n
       /\ to_us' = Append(to_us, Packet(k, e, "Rw", [i \in 1 .. n |-> (e.next + i - 1) % Serial]))
       /\ peer' = [peer EXCEPT ![k].tx = (@ + n) % Wrap, ![k].next = (@ + n) % Serial]
  /\ UNCHANGED <<connections, listening, to_peer, next_in, dropped>>

PeerReads(k) ==
  /\ k \in DOMAIN peer /\ peer[k].unread > 0
  /\ peer' = [peer EXCEPT ![k].unread = 0, ![k].fwd = (@ + peer[k].unread) % Wrap]
  /\ UNCHANGED <<connections, listening, to_us, to_peer, next_in, dropped>>

PeerAsks(k, op) ==
  /\ k \in DOMAIN peer /\ ~peer[k].closing /\ RoomIn
  /\ op \in {"CreditRequest", "CreditUpdate", "Shutdown", "Rst"}
  /\ Reply(k, peer[k], op)
  /\ peer' = IF op = "Rst" THEN Without(peer, k)
             ELSE [peer EXCEPT ![k].closing = (op = "Shutdown")]
  /\ UNCHANGED <<connections, listening, to_peer, next_in, dropped>>

Next ==
  \/ \E k \in Keys :
       \/ listen(k) \/ unlisten(k) \/ connect(k) \/ (\E n \in 1 .. Cap : send(k, n))
       \/ (\E n \in 1 .. Cap : recv(k, n)) \/ update_credit(k) \/ shutdown(k) \/ force_close(k)
       \/ PeerRequests(k) \/ (\E n \in 1 .. Cap : PeerSends(k, n)) \/ PeerReads(k)
       \/ \E op \in {"CreditRequest", "CreditUpdate", "Shutdown", "Rst"} : PeerAsks(k, op)
  \/ poll \/ PeerReceives

Spec == Init /\ [][Next]_vars

(***************************************************************************)
(* Properties.                                                             *)
(***************************************************************************)
(* The credit accounting is sound in both directions although each side acts on the
   counters of the last packet it has seen (vsock.rs 65-86, connectionmanager.rs
   146-253): a peer is never sent more than its buffer has room for, and data of a peer
   that keeps to its credit always fits, so poll never reports OutputBufferTooShort;
   and the ring buffer holds the next bytes of the connection, in order. *)
CreditIsSound ==
  /\ ~dropped
  /\ \A k \in DOMAIN peer : peer[k].unread <= PeerCap
  /\ \A k \in DOMAIN connections :
       LET c == connections[k] IN
       Drained(c, c.used) = [i \in 1 .. c.used |-> (next_in[k] + i - 1) % Serial]

(* "If the requested connection already exists ..., ignore it" (connectionmanager.rs
   160): a request of a peer leaves a connection that exists as it is. *)
RequestsOfExistingIgnored ==
  [][\A k \in DOMAIN connections :
       to_us # <<>> /\ to_us' = Tail(to_us) /\ Head(to_us).op = "Request" /\ Head(to_us).key = k
         => k \in DOMAIN connections' /\ to_peer' = to_peer]_vars
==============================================================================
