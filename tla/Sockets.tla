------------------------------ MODULE Sockets ------------------------------
(***************************************************************************)
(* The sockets: TCP, UDP and ICMP sockets over the loopback interface of   *)
(* smoltcp, AF_UNIX sockets over pipes, and the system calls on them.      *)
(*                                                                         *)
(* A socket is known in two places: the descriptor table of a process,     *)
(* which holds it as a file, and the socket table of a task, which the     *)
(* macro get_socket! looks at.  Nothing keeps the two together: close does *)
(* not touch the socket table, every clone copies it, and accept exchanges *)
(* the listening socket for a new one in the tables of its own task only.  *)
(*                                                                         *)
(* smoltcp is not part of the kernel's source.  A poll is one step that    *)
(* carries everything in flight to its place, in the order of the socket   *)
(* handles: that is what Interface::poll does over the Loopback device.    *)
(* The bytes of a stream are counted, a datagram is its sender's port, and *)
(* taken counts how often accept has returned a client's connection.       *)
(*                                                                         *)
(* All sockets of a behaviour are of one family: families share nothing    *)
(* but the tables.  The calls named in Departures are made only when the   *)
(* constant says so; each leads to a state that the code does not handle.  *)
(***************************************************************************)
EXTENDS Integers, Sequences, FiniteSets, FiniteSetsExt, SequencesExt

CONSTANTS Tasks, First,   \* task slots, and the tasks that exist at the start
          Servers,        \* the tasks that bind and listen; the others connect
          Limits,         \* for each family, how many sockets there may be
          Fds,            \* descriptor numbers
          Ports,          \* ports that programs name; 0 is a port
          Addrs,          \* the addresses that programs bind and connect to
          Cap,            \* MAX_BUFFER_SIZE
          UdpSlots,       \* the packet metadata of a UDP buffer
          MaxRetries,     \* max_retries of connect and accept
          Departures      \* "ipv6", "dup", "fork", "threads", "reuse", "full",
                          \* "unconnected", "reset", "unread", "early",
                          \* "bind_twice", "not_listening", and those that an
                          \* unwrap refuses: "table_full", "no_file", "no_remote"

VARIABLES family,     \* "tcp", "udp", "icmp" or "unix"
          sock,       \* [Socks -> socket]
          live,       \* tasks that exist
          own,        \* [Tasks -> the task whose descriptor table it uses]
          files,      \* [Tasks -> [Fds -> socket, Other or None]]
          table,      \* [Tasks -> [Fds -> socket or None]], socket_table
          pc,         \* [Tasks -> what the task waits for inside a call]
          listening,  \* [Tasks -> the descriptors on which listen was called]
          lies,       \* answers that were not true
          panicked

vars == <<family, sock, live, own, files, table, pc, listening, lies, panicked>>

MayCall(name) == name \in Departures

None == 0
Other == -1      \* in files: a file that is not a socket
Gone == -1       \* as a peer: a socket that was removed

Socks == 1..Max({Limits[f] : f \in DOMAIN Limits})
NoSock == [kind |-> "none"]
Used == {s \in Socks : sock[s].kind # "none"}
Fresh == IF Cardinality(Used) = Limits[family] THEN {} ELSE {Min(Socks \ Used)}
At(call, fd, n) == [at |-> call, fd |-> fd, n |-> n, port |-> 0]
Idle == [at |-> "idle", fd |-> 0, n |-> 0, port |-> 0]

\* The port that RNG.positive_u32() gives to the socket with handle s.
Ephemeral(s) == 100 + s

Files(t) == files[own[t]]
FileOf(t, fd) == Files(t)[fd]
FreeFds(t) == {fd \in Fds : FileOf(t, fd) = None}

\* The descriptors that a call which does not write the socket table may be
\* given: of those that a socket had, only under "reuse".
Clean(t, fds) == MayCall("reuse") \/ \A fd \in fds : table[t][fd] = None

\* get_socket! looks at the socket table only, and so finds the socket of a
\* descriptor that was closed.
get_socket(t, fd) ==
  IF MayCall("reuse") \/ FileOf(t, fd) # None THEN table[t][fd] ELSE None

\* Tasks that may make a call, and tasks that wait inside one.
Ready == IF panicked THEN {} ELSE {t \in live : pc[t] = Idle}
Inside(call) == IF panicked THEN {} ELSE {t \in live : pc[t].at = call}

-----------------------------------------------------------------------------
(* smoltcp: the states of a TCP socket and what a poll does. *)
Open(st) == st \notin {"Closed", "TimeWait"}
may_send(s) == sock[s].st \in {"Established", "CloseWait"}
may_recv(s) == sock[s].st \in {"Established", "FinWait1", "FinWait2"}
               \/ sock[s].rx > 0
can_recv(s) == may_recv(s) /\ sock[s].rx > 0

Tcps(S) == {s \in Socks : S[s].kind = "tcp"}

\* A connection request meets the first socket that listens on its port, which
\* becomes the connection, or is answered by a reset.
Syn(S, s) ==
  LET heard == {l \in Tcps(S) : S[l].st = "Listen" /\ S[l].port = S[s].dest}
  IN IF heard = {} THEN [S EXCEPT ![s].st = "Closed", ![s].dest = None]
     ELSE LET l == Min(heard)
          IN [S EXCEPT ![s].st = "Established", ![s].peer = l, ![s].dest = None,
                       ![l].st = "Established", ![l].peer = s]

Send(S, s) ==
  LET p == S[s].peer
      n == Min({S[s].tx, Cap - S[p].rx})
  IN IF p = Gone
     THEN [S EXCEPT ![s].st = "Closed", ![s].tx = 0, ![s].peer = None]
     ELSE IF S[p].st \in {"Established", "FinWait1", "FinWait2"}
     THEN [S EXCEPT ![s].tx = @ - n, ![p].rx = @ + n] ELSE S

Fin(S, s) ==
  LET p == S[s].peer
      there == IF p = Gone THEN "Gone" ELSE S[p].st
  IN CASE there = "Gone" -> [S EXCEPT ![s].st = "Closed", ![s].peer = None]
       [] S[s].st = "FinWait1" /\ there = "Established" ->
            [S EXCEPT ![s].st = "FinWait2", ![p].st = "CloseWait"]
       [] S[s].st = "FinWait1" /\ there = "FinWait1" /\ S[p].tx = 0 ->
            [S EXCEPT ![s].st = "TimeWait", ![p].st = "TimeWait",
                      ![s].peer = None, ![p].peer = None]
       [] S[s].st = "LastAck" /\ there = "FinWait2" ->
            [S EXCEPT ![s].st = "Closed", ![p].st = "TimeWait",
                      ![s].peer = None, ![p].peer = None]
       [] OTHER -> S

\* Do for each socket that it applies to, in the order of the handles.
Each(Do(_, _), Applies(_, _), S) ==
  LET Turn(T, s) == IF T[s].kind = "tcp" /\ Applies(T, s) THEN Do(T, s) ELSE T
      after[s \in 0..Cardinality(Socks)] == IF s = 0 THEN S ELSE Turn(after[s - 1], s)
  IN after[Cardinality(Socks)]

Asks(S, s) == S[s].st = "SynSent"
Holds(S, s) == S[s].tx > 0
Ends(S, s) == S[s].st \in {"FinWait1", "LastAck"} /\ S[s].tx = 0

poll(S) ==
  IF \E s \in Tcps(S) : Asks(S, s) \/ Holds(S, s) \/ Ends(S, s)
  THEN Each(Fin, Ends, Each(Send, Holds, Each(Syn, Asks, S))) ELSE S

close(S, s) ==
  [S EXCEPT ![s].st = CASE @ \in {"Listen", "SynSent"} -> "Closed"
                        [] @ = "Established" -> "FinWait1"
                        [] @ = "CloseWait" -> "LastAck"
                        [] OTHER -> @,
            ![s].dest = None]

\* The reset reaches the peer with the next poll.
abort(S, s) ==
  [r \in Socks |-> IF r = s \/ (S[r].kind = "tcp" /\ S[r].peer = s)
                   THEN [S[r] EXCEPT !.st = "Closed", !.peer = None, !.tx = 0]
                   ELSE S[r]]

-----------------------------------------------------------------------------
(* Addresses.  A socket address of a program is its family, address and     *)
(* port; an endpoint of smoltcp is an address, with its version, and a port; *)
(* a listening endpoint may have no address.                                 *)
Families == {"inet", "inet6"}
SockAddrs == [family : Families \cup {"unix"}, ip : {"any", "loopback"}, port : Ports]

\* SocketAddrv4 and SocketAddrv6 to IpListenEndpoint: the unspecified address
\* becomes none, and then port 0 becomes a random one.
ListenEndpoint(a, random) ==
  IF a.ip # "any" THEN [addr |-> <<a.family, a.ip>>, port |-> a.port]
  ELSE [addr |-> <<>>, port |-> IF a.port = 0 THEN random ELSE a.port]

listen_endpoint(a, random) ==
  IF a.family \in Families THEN {ListenEndpoint(a, random)} ELSE {}

to_endpoint(e) ==
  [addr |-> IF e.addr = <<>> THEN <<"inet", "loopback">> ELSE e.addr,
   port |-> e.port]

endpoint(a, random) == {to_endpoint(e) : e \in listen_endpoint(a, random)}

\* What fill_with_endpoint writes for the program.
fill_with_endpoint(e) ==
  [family |-> e.addr[1], ip |-> e.addr[2], port |-> e.port]

-----------------------------------------------------------------------------
(* Sockets and their references. *)
NewTcp(s) == [kind |-> "tcp", st |-> "Closed", peer |-> None, dest |-> None,
              port |-> Ephemeral(s), tx |-> 0, rx |-> 0, taken |-> 0]
NewUdp == [kind |-> "udp", port |-> None, remote |-> None, inbox |-> <<>>]
\* An ICMP socket is never bound, and so receives nothing: a read gives 0.
NewIcmp == [kind |-> "icmp"]
\* The other end of a socket that is not one of a pair is dropped at once.
NewUnix == [kind |-> "unix", peer |-> Gone, rx |-> 0,
            shut_rd |-> FALSE, shut_wr |-> FALSE]

New(s) == CASE family = "tcp"  -> NewTcp(s)
            [] family = "udp"  -> NewUdp
            [] family = "icmp" -> NewIcmp
            [] family = "unix" -> NewUnix

Refers(fs, tb, t, fd, s) == s = fs[own[t]][fd] \/ s = tb[t][fd]

\* What is left of the sockets S when the tables are fs and tb: a socket that
\* nothing refers to is dropped, which closes it, polls and removes it.
RECURSIVE Closing(_, _)
Closing(S, dropped) ==
  IF dropped = {} THEN S
  ELSE LET s == Min(dropped)
           T == IF S[s].kind = "tcp" THEN poll(close(S, s)) ELSE S
           Left(r) == IF T[r].kind \in {"tcp", "unix"} /\ T[r].peer = s
                      THEN [T[r] EXCEPT !.peer = Gone] ELSE T[r]
       IN Closing([r \in Socks |-> IF r = s THEN NoSock ELSE Left(r)],
                  dropped \ {s})

Dropped(S, fs, tb) ==
  poll(Closing(S, {s \in Socks : S[s].kind # "none"
                         /\ ~\E t \in live, fd \in Fds : Refers(fs, tb, t, fd, s)}))

\* A call that leaves the tasks, the other ghosts and the machine alone.
Quiet == UNCHANGED <<family, live, own, lies, panicked>>
Answer(kinds) == lies' = lies \cup kinds

\* The call, made in the way the departure names, ends in an unwrap of an error.
Panics(departure) ==
  /\ MayCall(departure) /\ panicked' = TRUE
  /\ UNCHANGED <<family, sock, live, own, files, table, pc, listening, lies>>

\* The table has fewer than n descriptors to give: insert fails with EMFILE.
TableIsFull(t, n) == Cardinality(FreeFds(t)) < n

-----------------------------------------------------------------------------
(* socket, socketpair, bind, listen. *)
alloc(t) ==
  \E s \in Fresh :
    IF TableIsFull(t, 1) THEN Panics("table_full")
    ELSE /\ LET fd == Min(FreeFds(t))
                fs == [files EXCEPT ![own[t]][fd] = s]
                tb == [table EXCEPT ![t][fd] = s]
                S  == [sock EXCEPT ![s] = New(s)]
            IN /\ sock' = Dropped(poll(S), fs, tb)
               /\ files' = fs /\ table' = tb
         /\ UNCHANGED <<pc, listening>>
         /\ Quiet

\* The two sockets of a pair are files and are in no socket table.
InsertPair(t, s, r) ==
  LET fd == Min(FreeFds(t))
      gd == Min(FreeFds(t) \ {fd})
  IN /\ Clean(t, {fd, gd})
     /\ sock' = [sock EXCEPT ![s] = [New(s) EXCEPT !.peer = r],
                             ![r] = [New(r) EXCEPT !.peer = s]]
     /\ files' = [files EXCEPT ![own[t]][fd] = s, ![own[t]][gd] = r]
     /\ UNCHANGED <<table, pc, listening>>
     /\ Quiet

sys_socketpair(t) ==
  /\ family = "unix" /\ Cardinality(Used) + 2 <= Limits[family]
  /\ IF TableIsFull(t, 2) THEN Panics("table_full")
     ELSE \E s \in Fresh : InsertPair(t, s, Min(Socks \ (Used \cup {s})))

\* can_bind: the lowest descriptor with a datagram socket of that endpoint.
can_bind(t, port) ==
  {fd \in Fds : LET s == table[t][fd]
                IN s # None /\ sock[s].kind = "udp" /\ sock[s].port = port}

\* A datagram socket on a port that another socket of the task has: the table
\* is turned to that socket, and the socket is inserted as a new file.
BindAgain(t, fd, port) ==
  LET other == table[t][Min(can_bind(t, port))]
      gd == Min(FreeFds(t))
      fs == [files EXCEPT ![own[t]][gd] = other]
      tb == [table EXCEPT ![t][fd] = other]
  IN /\ MayCall("bind_twice") /\ FreeFds(t) # {}
     /\ files' = fs /\ table' = tb
     /\ sock' = Dropped(sock, fs, tb)

\* ICMP sockets are refused with EINVAL.  bind of an AF_UNIX socket does
\* nothing.  A UDP socket that has a port keeps it, EINVAL.  An address of
\* another family stands for port 0.
sys_bind(t, fd, a) ==
  LET s == get_socket(t, fd)
      eps == listen_endpoint(a, Ephemeral(s))
      port == IF eps = {} THEN 0 ELSE (CHOOSE e \in eps : TRUE).port
  IN /\ s # None /\ sock[s].kind \in {"tcp", "udp"}
     /\ IF sock[s].kind = "udp" /\ can_bind(t, port) # {}
        THEN BindAgain(t, fd, port)
        ELSE /\ sock' = [sock EXCEPT ![s].port =
                           IF sock[s].kind = "tcp" \/ @ = None THEN port ELSE @]
             /\ UNCHANGED <<files, table>>
     /\ UNCHANGED <<pc, listening>>
     /\ Quiet

Listens(S, s) ==
  IF Open(S[s].st) THEN S
  ELSE [S EXCEPT ![s].st = "Listen", ![s].peer = None, ![s].tx = 0, ![s].rx = 0]

sys_listen(t, fd) ==
  LET s == get_socket(t, fd)
  IN /\ s # None /\ sock[s].kind = "tcp" /\ ~Open(sock[s].st)
     /\ sock[s].port # 0
     /\ MayCall("fork") \/ \A u \in live, gd \in Fds :
                              Refers(files, table, u, gd, s) <=> u = t /\ gd = fd
     /\ sock' = Listens(sock, s)
     /\ listening' = [listening EXCEPT ![own[t]] = @ \cup {fd}]
     /\ UNCHANGED <<files, table, pc>>
     /\ Quiet

-----------------------------------------------------------------------------
(* connect and accept. *)
Connects(S, s, port) ==
  [S EXCEPT ![s].st = "SynSent", ![s].dest = port, ![s].peer = None,
            ![s].tx = 0, ![s].rx = 0, ![s].taken = 0]

\* The loop of connect, from the look at the state to the next suspension.  It
\* does not poll: the request leaves when another call does.
ConnectLoop(t, s, port, n, S) ==
  LET T == IF S[s].st = "Closed" THEN Connects(S, s, port) ELSE S
  IN /\ sock' = T
     /\ pc' = [pc EXCEPT ![t] =
                 IF S[s].st = "Established" \/ n + 1 >= MaxRetries THEN Idle
                 ELSE [at |-> "connect", fd |-> s, n |-> n + 1, port |-> port]]

sys_connect(t, fd, a) ==
  LET s == get_socket(t, fd)
      port == (CHOOSE e \in endpoint(a, Ephemeral(s)) : TRUE).port
  IN /\ s # None /\ a.family \in Families /\ sock[s].kind = "tcp" /\ ~Open(sock[s].st)
     /\ ConnectLoop(t, s, port, 0, Connects(sock, s, port))
     /\ UNCHANGED <<files, table, listening>>
     /\ Quiet

ConnectAgain(t) ==
  /\ ConnectLoop(t, pc[t].fd, pc[t].port, pc[t].n, sock)
  /\ UNCHANGED <<files, table, listening>>
  /\ Quiet

\* The old socket, which has become the connection, moves to a new descriptor
\* and a new socket listens in its place.
AcceptKeepsTable(t, fd, s, new, S) ==
  LET gd == Min(FreeFds(t))
  IN [files |-> [files EXCEPT ![own[t]][fd] = new, ![own[t]][gd] = FileOf(t, fd)],
      table |-> [table EXCEPT ![t][gd] = s],
      sock  |-> Listens([S EXCEPT ![new] = [New(new) EXCEPT !.port = S[s].port]],
                        new)]
accept(t, fd, s, new, S) ==
  LET gd == Min(FreeFds(t))
  IN [files |-> [files EXCEPT ![own[t]][fd] = new, ![own[t]][gd] = FileOf(t, fd)],
      table |-> [table EXCEPT ![t][fd] = new, ![t][gd] = s],
      sock  |-> Listens([S EXCEPT ![new] = [New(new) EXCEPT !.port = S[s].port]],
                        new)]

\* One turn of the loop of _accept and, when a client is there, the rest of
\* the call.  The task keeps the locks of both its tables while it waits.
AcceptLoop(t, fd, n, tries) ==
  LET s == table[t][fd]
      S == poll(sock)
  IN IF ~Open(S[s].st) THEN
       /\ sock' = S /\ pc' = [pc EXCEPT ![t] = Idle]
       /\ UNCHANGED <<files, table, listening>> /\ Quiet
     ELSE IF S[s].st # "Established" THEN
       /\ sock' = S
       /\ pc' = [pc EXCEPT ![t] = IF n + 1 >= tries THEN Idle
                                  ELSE At("accept", fd, n + 1)]
       /\ UNCHANGED <<files, table, listening>> /\ Quiet
     ELSE IF TableIsFull(t, 1) THEN Panics("table_full")
     ELSE
       /\ \E new \in Fresh :
            LET c == S[s].peer
                T == IF c = Gone THEN S
                     ELSE [S EXCEPT ![c].taken = Min({@ + 1, 2})]
                after == accept(t, fd, s, new, T)
            IN /\ files' = after.files /\ table' = after.table
               /\ sock' = Dropped(after.sock, after.files, after.table)
       /\ pc' = [pc EXCEPT ![t] = Idle]
       /\ UNCHANGED listening /\ Quiet

sys_accept(t, fd, nonblock) ==
  /\ table[t][fd] # None /\ sock[table[t][fd]].kind = "tcp"
  /\ IF FileOf(t, fd) = None THEN Panics("no_file")
     ELSE /\ MayCall("not_listening") \/ fd \in listening[own[t]]
          /\ AcceptLoop(t, fd, 0, IF nonblock THEN 1 ELSE MaxRetries)

AcceptAgain(t) == AcceptLoop(t, pc[t].fd, pc[t].n, MaxRetries)

\* The request of s is on its way, or waits for a descriptor that accepts it.
Waiting(s) ==
  /\ s > 0 /\ sock[s].kind = "tcp"
  /\ \/ sock[s].st = "SynSent"
     \/ \E t \in live : \E fd \in listening[t] :
          files[t][fd] > 0 /\ sock[s].peer = files[t][fd]

-----------------------------------------------------------------------------
(* Reading and writing a stream. *)
\* _read gives the end of the stream by the state alone.
AtEnd(st, rx) == st \in {"CloseWait", "TimeWait", "FinWait2"}

\* One turn of _read.  Its error is unwrapped by both callers.
ReadLoop(t, s) ==
  LET S == poll(sock)
      end == AtEnd(S[s].st, S[s].rx)
      waits == ~end /\ S[s].st \in {"Established", "FinWait1"} /\ S[s].rx = 0
      error == ~end /\ S[s].st \notin {"Established", "FinWait1"} /\ S[s].rx = 0
  IN /\ MayCall("reset") \/ ~error
     /\ MayCall("unread") \/ ~(end /\ S[s].rx > 0)
     /\ Answer(IF end /\ S[s].rx > 0 THEN {"end"} ELSE {})
     /\ panicked' = error
     /\ \E n \in 0..S[s].rx :
          /\ n = 0 <=> (end \/ waits \/ error)
          /\ sock' = poll([S EXCEPT ![s].rx = @ - n])
     /\ pc' = [pc EXCEPT ![t] = IF waits THEN At("read", s, 0)
                                ELSE Idle]

read(t, fd) ==
  LET s == FileOf(t, fd)
  IN /\ s > 0 /\ sock[s].kind = "tcp"
     /\ ReadLoop(t, s)
     /\ UNCHANGED <<files, table, listening, family, live, own>>

ReadAgain(t) ==
  /\ ReadLoop(t, pc[t].fd)
  /\ UNCHANGED <<files, table, listening, family, live, own>>

\* A write of one byte.  The error numbers are returned as a count: 107 for
\* ENOTCONN.  With no room the task suspends inside the closure that holds the
\* lock of NET_INTERFACE.
write(t, fd) ==
  LET s == FileOf(t, fd)
      S == poll(sock)
      may == S[s].st \in {"Established", "CloseWait"}
      room == S[s].tx < Cap
  IN /\ s > 0 /\ sock[s].kind = "tcp"
     /\ MayCall("unconnected") \/ may
     /\ MayCall("full") \/ room
     /\ sock' = IF may /\ room THEN poll([S EXCEPT ![s].tx = @ + 1]) ELSE S
     /\ Answer(IF may THEN {} ELSE {"count"})
     /\ pc' = [pc EXCEPT ![t] = IF may /\ ~room
                                THEN At("stuck", s, 0) ELSE Idle]
     /\ UNCHANGED <<files, table, listening, family, live, own, panicked>>

\* shutdown(SHUT_WR) closes, any other aborts.
shutdown(t, fd, how) ==
  LET s == get_socket(t, fd)
  IN /\ s # None /\ sock[s].kind = "tcp"
     /\ MayCall("early") \/ ~Waiting(s)
     /\ sock' = poll(IF how = "wr" THEN close(sock, s) ELSE abort(sock, s))
     /\ listening' = [u \in Tasks |-> {gd \in listening[u] : files[u][gd] # s}]
     /\ UNCHANGED <<files, table, pc>>
     /\ Quiet

\* The timer of TIME-WAIT, ten seconds: no read is that late.
Expire(s) ==
  /\ sock[s].kind = "tcp" /\ sock[s].st = "TimeWait"
  /\ \A t \in Inside("read") : pc[t].fd # s
  /\ sock' = [sock EXCEPT ![s].st = "Closed", ![s].peer = None]
  /\ UNCHANGED <<files, table, pc, listening>>
  /\ Quiet

-----------------------------------------------------------------------------
(* Datagrams. *)
Bound(S, s) == [S EXCEPT ![s].port = IF @ = None THEN Ephemeral(s) ELSE @]

\* UdpSocket::connect, and the bind that it makes for an unbound socket.
UdpConnect(S, s, port) == [Bound(S, s) EXCEPT ![s].remote = port]

sys_connect_udp(t, fd, a) ==
  LET s == get_socket(t, fd)
      port == (CHOOSE e \in endpoint(a, Ephemeral(s)) : TRUE).port
  IN /\ s # None /\ a.family \in Families /\ sock[s].kind = "udp"
     /\ sock' = UdpConnect(sock, s, port)
     /\ UNCHANGED <<files, table, pc, listening>>
     /\ Quiet

\* UdpSocket::write and the poll that carries the datagram.  A full receive
\* buffer drops it.
UdpDeliver(S, s) ==
  LET there == {r \in Socks : S[r].kind = "udp" /\ S[r].port = S[s].remote}
      r == Min(there)
  IN IF there = {} \/ Len(S[Min(there)].inbox) = UdpSlots THEN S
     ELSE [S EXCEPT ![r].inbox = Append(@, S[s].port)]

\* sendto connects the socket of the socket table and writes to the file.
sys_sendto(t, fd, a) ==
  LET s == get_socket(t, fd)
      port == (CHOOSE e \in endpoint(a, Ephemeral(s)) : TRUE).port
      f == FileOf(t, fd)
      S == UdpConnect(Bound(sock, s), s, port)
  IN /\ s # None /\ f > 0 /\ sock[s].kind = "udp" /\ a.family \in Families
     /\ panicked' = (S[f].remote = None)
     /\ sock' = IF S[f].remote = None \/ S[f].port = None THEN S
                ELSE UdpDeliver(S, f)
     /\ Answer((IF S[f].port = None THEN {"count"} ELSE {})
               \cup (IF S[f].remote # port THEN {"destination"} ELSE {}))
     /\ UNCHANGED <<files, table, pc, listening, family, live, own>>

\* write on the descriptor: the remote endpoint is that of the last connect,
\* sendto or datagram.
UdpWrite(t, fd) ==
  LET f == FileOf(t, fd)
  IN /\ f > 0 /\ sock[f].kind = "udp"
     /\ IF sock[f].remote = None THEN Panics("no_remote")
        ELSE /\ sock' = UdpDeliver(sock, f)
             /\ UNCHANGED <<files, table, pc, listening>>
             /\ Quiet

\* A datagram becomes the remote endpoint of the socket it is read from; the
\* address that is given out is the remote endpoint of the socket table's.
UdpRead(S, f) == [S EXCEPT ![f].inbox = Tail(@), ![f].remote = Head(S[f].inbox)]

RecvLoop(t, fd) ==
  LET f == FileOf(t, fd)
      S == UdpRead(sock, f)
  IN IF sock[f].inbox = <<>> THEN
       /\ pc' = [pc EXCEPT ![t] = At("recv", fd, 0)]
       /\ UNCHANGED <<sock, lies>>
     ELSE
       /\ sock' = S
       /\ pc' = [pc EXCEPT ![t] = Idle]
       /\ Answer(IF S[table[t][fd]].remote # Head(sock[f].inbox)
                 THEN {"source"} ELSE {})

\* The file is unwrapped before get_socket! looks for the socket.
sys_recvfrom(t, fd) ==
  IF FileOf(t, fd) = None THEN Panics("no_file")
  ELSE /\ table[t][fd] # None /\ FileOf(t, fd) > 0
       /\ sock[FileOf(t, fd)].kind = "udp"
       /\ RecvLoop(t, fd)
       /\ UNCHANGED <<files, table, listening, family, live, own, panicked>>

RecvAgain(t) ==
  /\ RecvLoop(t, pc[t].fd)
  /\ UNCHANGED <<files, table, listening, family, live, own, panicked>>

-----------------------------------------------------------------------------
(* AF_UNIX sockets: the two directions of a pair are two pipes. *)
UnixWrite(t, fd) ==
  LET s == FileOf(t, fd)
  IN /\ s > 0 /\ sock[s].kind = "unix"
     /\ ~sock[s].shut_wr /\ sock[s].peer # Gone /\ sock[sock[s].peer].rx < Cap
     /\ sock' = [sock EXCEPT ![sock[s].peer].rx = @ + 1]
     /\ UNCHANGED <<files, table, pc, listening>>
     /\ Quiet

UnixRead(t, fd) ==
  LET s == FileOf(t, fd)
  IN /\ s > 0 /\ sock[s].kind = "unix"
     /\ ~sock[s].shut_rd /\ sock[s].rx > 0
     /\ sock' = [sock EXCEPT ![s].rx = @ - 1]
     /\ UNCHANGED <<files, table, pc, listening>>
     /\ Quiet

UnixShutdown(t, fd, how) ==
  LET s == get_socket(t, fd)
  IN /\ s # None /\ sock[s].kind = "unix"
     /\ sock' = [sock EXCEPT ![s].shut_rd = @ \/ how \in {"rd", "rdwr"},
                             ![s].shut_wr = @ \/ how \in {"wr", "rdwr"}]
     /\ UNCHANGED <<files, table, pc, listening>>
     /\ Quiet

-----------------------------------------------------------------------------
(* Descriptors and tasks. *)
sys_dup(t, fd) ==
  /\ FileOf(t, fd) > 0 /\ FreeFds(t) # {} /\ Clean(t, {Min(FreeFds(t))})
  /\ MayCall("dup") \/ family # "tcp"
  /\ files' = [files EXCEPT ![own[t]][Min(FreeFds(t))] = FileOf(t, fd)]
  /\ listening' = IF fd \in listening[own[t]]
                  THEN [listening EXCEPT ![own[t]] = @ \cup {Min(FreeFds(t))}]
                  ELSE listening
  /\ UNCHANGED <<sock, table, pc>>
  /\ Quiet

\* close leaves the socket table alone, so the socket outlives its descriptor
\* until the number is used again or the task is gone.
sys_close(t, fd) ==
  LET fs == [files EXCEPT ![own[t]][fd] = None]
  IN /\ FileOf(t, fd) # None
     /\ MayCall("early") \/ ~Waiting(FileOf(t, fd))
     /\ files' = fs
     /\ sock' = Dropped(sock, fs, table)
     /\ listening' = [listening EXCEPT ![own[t]] = @ \ {fd}]
     /\ UNCHANGED <<table, pc>>
     /\ Quiet

\* A file that is not a socket takes the lowest number.  One family is enough
\* to show what that does to the tables.
open(t) ==
  /\ family = "icmp" /\ FreeFds(t) # {} /\ Clean(t, {Min(FreeFds(t))})
  /\ files' = [files EXCEPT ![own[t]][Min(FreeFds(t))] = Other]
  /\ UNCHANGED <<sock, table, pc, listening>>
  /\ Quiet

\* The child has a copy of the socket table; a thread shares the descriptors.
sys_clone(t, u, thread) ==
  /\ u \notin live
  /\ IF thread THEN MayCall("threads")
     ELSE MayCall("fork") \/ family # "tcp"
  /\ live' = live \cup {u}
  /\ own' = [own EXCEPT ![u] = IF thread THEN own[t] ELSE u]
  /\ files' = IF thread THEN files ELSE [files EXCEPT ![u] = Files(t)]
  /\ listening' = IF thread THEN listening
                  ELSE [listening EXCEPT ![u] = listening[own[t]]]
  /\ table' = [table EXCEPT ![u] = table[t]]
  /\ UNCHANGED <<family, sock, pc, lies, panicked>>

\* The task is reaped, and what its tables held is dropped with them.
Reap(t) ==
  LET fs == IF \E u \in live \ {t} : own[u] = own[t] THEN files
            ELSE [files EXCEPT ![own[t]] = [fd \in Fds |-> None]]
      tb == [table EXCEPT ![t] = [fd \in Fds |-> None]]
  IN /\ live' = live \ {t}
     /\ MayCall("early") \/ \A fd \in Fds : ~Waiting(table[t][fd])
     /\ files' = fs /\ table' = tb
     /\ sock' = Dropped(sock, fs, tb)
     /\ listening' = [listening EXCEPT ![t] = IF fs[t] = files[t] THEN @ ELSE {}]
     /\ UNCHANGED <<family, own, pc, lies, panicked>>

-----------------------------------------------------------------------------
Init ==
  /\ family \in DOMAIN Limits
  /\ sock = [s \in Socks |-> NoSock]
  /\ live = First
  /\ own = [t \in Tasks |-> t]
  /\ files = [t \in Tasks |-> [fd \in Fds |-> None]]
  /\ table = [t \in Tasks |-> [fd \in Fds |-> None]]
  /\ pc = [t \in Tasks |-> Idle]
  /\ listening = [t \in Tasks |-> {}]
  /\ lies = {}
  /\ panicked = FALSE

Next ==
  \/ \E t \in Ready : \/ alloc(t) \/ sys_socketpair(t) \/ open(t) \/ Reap(t)
                       \/ \E u \in Tasks, thread \in BOOLEAN : sys_clone(t, u, thread)
  \/ \E t \in Ready, fd \in Fds :
       \/ t \in Servers /\ sys_listen(t, fd)
       \/ \E nonblock \in BOOLEAN : sys_accept(t, fd, nonblock)
       \/ read(t, fd) \/ write(t, fd)
       \/ UdpWrite(t, fd) \/ sys_recvfrom(t, fd)
       \/ UnixWrite(t, fd) \/ UnixRead(t, fd)
       \/ sys_dup(t, fd) \/ sys_close(t, fd)
       \/ \E how \in {"wr", "rdwr"} : shutdown(t, fd, how)
       \/ \E how \in {"rd", "wr", "rdwr"} : UnixShutdown(t, fd, how)
  \/ \E t \in Ready, fd \in Fds, a \in Addrs :
       \/ t \in Servers /\ sys_bind(t, fd, a)
       \/ t \notin Servers /\ sys_connect(t, fd, a)
       \/ sys_connect_udp(t, fd, a) \/ sys_sendto(t, fd, a)
  \/ \E t \in Inside("connect") : ConnectAgain(t)
  \/ \E t \in Inside("accept") : AcceptAgain(t)
  \/ \E t \in Inside("read") : ReadAgain(t)
  \/ \E t \in Inside("recv") : RecvAgain(t)
  \/ \E s \in Socks : Expire(s)

Spec == Init /\ [][Next]_vars

\* Values of Limits and Addrs for TLC: three TCP sockets for a listener, its
\* client and the connection accepted, and two of the others.
FewSockets == [tcp |-> 3, udp |-> 2, icmp |-> 2, unix |-> 2]
OneAddress == {[family |-> "inet", ip |-> "any", port |-> 7]}

-----------------------------------------------------------------------------
(* Properties. *)

\* Where a descriptor and an entry of a socket table meet they are the same
\* socket: get_socket! finds the socket that the file table holds.
TablesAgree ==
  \A t \in live, fd \in Fds :
    (table[t][fd] # None /\ FileOf(t, fd) # None) => table[t][fd] = FileOf(t, fd)

\* A descriptor on which listen was called still accepts: it listens, or has a
\* client that no accept has returned.
ListenersListen ==
  \A t \in live : \A fd \in listening[t] :
    files[t][fd] > 0 =>
      \/ sock[files[t][fd]].st = "Listen"
      \/ /\ sock[files[t][fd]].st = "Established"
         /\ sock[sock[files[t][fd]].peer].taken = 0

\* No client is accepted twice.
AcceptedOnce == \A s \in Tcps(sock) : sock[s].taken < 2

\* A task that waits inside a call holds no lock that another task takes: the
\* descriptor table's, which accept holds, and NET_INTERFACE's.  The locks are
\* spin locks on a kernel that is not preempted.
LocksAreFree ==
  /\ Inside("stuck") = {}
  /\ \A t \in Inside("accept") : \A u \in live : own[u] = own[t] => u = t

\* The address that getsockname gives for a socket bound to a is one from which
\* connect reaches it: of its family, and with the port that was bound.
NamesLeadBack ==
  \A a \in SockAddrs : \A e \in listen_endpoint(a, 99) :
    LET name == fill_with_endpoint(to_endpoint(e))
    IN a.family = "inet" \/ MayCall("ipv6") =>
         /\ name.family = a.family
         /\ endpoint(name, 98) = {to_endpoint(e)}

\* What the calls did to sockets is what they answered, no descriptor is turned
\* to another's socket, no connection is lost or given out twice, nobody waits
\* with a lock held, and no unwrap meets an error (those of the descriptor table
\* at its limit, of a closed descriptor and of a missing remote endpoint do, and
\* are departures).
SocketsAreExact ==
  /\ TablesAgree /\ ListenersListen /\ AcceptedOnce /\ LocksAreFree
  /\ NamesLeadBack
  /\ lies = {} /\ ~panicked

\* What r_ready promises to poll and select: "Check if there's actually a
\* pending connection (for listen sockets) or data available (for connected
\* sockets)".
r_ready(s) == sock[s].st = "Established" \/ can_recv(s)
ReadyMeansReadable ==
  \A t \in live, fd \in Fds :
    LET s == FileOf(t, fd)
    IN s > 0 /\ sock[s].kind = "tcp" /\ r_ready(s) =>
         fd \in listening[own[t]] \/ can_recv(s)
=============================================================================
