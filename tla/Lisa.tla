-------------------------------- MODULE Lisa --------------------------------
(***************************************************************************)
(* The life of one lisa (lisa.c of cross_injector): opened, set up for TCP *)
(* or UDP, connected or listening, used, closed.  One thread, the owner,   *)
(* does that, as main does in cross_injector and the listener in bcaster;  *)
(* the others send and receive.  The calls that wait release the lock      *)
(* around select: what is before it and what is after it are two steps.    *)
(* The calls that take no lock are made while no other call is under way.  *)
(*                                                                         *)
(* A descriptor is the lowest number that is free.  What the operating     *)
(* system answers, and whether there is data, is arbitrary.                *)
(***************************************************************************)
EXTENDS Integers, SequencesExt

CONSTANTS
  Threads, Owner,
  MaxFd,        \* descriptors this process may have besides 0
  MaxClients,   \* how many clients are accepted (a bound)
  NULL

ASSUME LisaAssumption ==
  Owner \in Threads /\ NULL \notin Threads /\ MaxFd \in Nat \ {0} /\ MaxClients \in Nat

ERROR         == -1
UNINITIALIZED == 1
CREATED       == 2
BOUND         == 3
LISTENING     == 4
CONNECTED     == 5
TIMEOUT       == 6
ACCEPTED      == 7
GOT_DATA      == 9
SENT_DATA     == 10
CLOSED        == 11

VARIABLES
  l,        \* the fields of the lisa
  sockets,  \* what each descriptor is: "closed", or "tcp" or "udp"
  lock,     \* who holds l->lock between two steps
  pc,       \* per thread: the call it waits in
  fds,      \* per thread: the descriptors it waits for
  opened,   \* history: lisa_open was called, and lisa_close has not closed since
  late,     \* history: the owner's call made the socket after it had read l->fd
  mishaps   \* history: calls after which something of the below does not hold

vars == <<l, sockets, lock, pc, fds, opened, late, mishaps>>

Fds    == 1..MaxFd
IsOpen(f) == f \in Fds /\ sockets[f] # "closed"
Alone  == \A t \in Threads : pc[t] = "idle"

\* A lisa in memory that was never written, and lisa_open.
Init ==
  /\ l = [state |-> 0, client_state |-> 0, clsvr |-> "unknown", type |-> "none", vsock |-> FALSE,
          fd |-> 0, client_fd |-> 0, client_fds |-> <<>>]
  /\ sockets = [f \in Fds |-> "closed"]
  /\ lock = NULL /\ pc = [t \in Threads |-> "idle"] /\ fds = [t \in Threads |-> {}]
  /\ opened = FALSE /\ late = FALSE /\ mishaps = {}

\* The outcomes of a function of lisa.c that is called by others are a set of
\* records of the lisa and the descriptors.
Now == [l |-> l, s |-> sockets]
Becomes(w) == l' = w.l /\ sockets' = w.s
Failed(w) == [w EXCEPT !.l.state = ERROR]

Waits(t, call, set) == pc' = [pc EXCEPT ![t] = call] /\ fds' = [fds EXCEPT ![t] = set]
Returns(t) == Waits(t, "idle", {})

-----------------------------------------------------------------------------
(* Opening, setting up and closing.                                        *)

\* lisa_open, and lisa_set_to_vsock or not; the descriptors an error left open
\* would be lost, and no caller opens a lisa again then.
lisa_open ==
  /\ Alone /\ lock = NULL /\ \A f \in Fds : ~IsOpen(f)
  /\ \E v \in BOOLEAN : l' = [l EXCEPT !.state = UNINITIALIZED, !.client_state = UNINITIALIZED,
                                       !.clsvr = "unknown", !.vsock = v, !.client_fds = <<>>]
  /\ opened' = TRUE
  /\ UNCHANGED <<sockets, lock, pc, fds, late, mishaps>>

\* socket
Socket(w, type) ==
  LET free == {f \in Fds : w.s[f] = "closed"}
  IN  {[w EXCEPT !.l.fd = -1, !.l.state = ERROR]} \cup
      IF free = {} THEN {}
      ELSE {[w EXCEPT !.s[Min(free)] = type, !.l.fd = Min(free), !.l.type = type, !.l.state = CREATED]}

\* lisa_set_nonblocking
Nonblocking(w) == {w, Failed(w)}

lisa_setup_tcp(w) ==
  IF w.l.state < 0 THEN {w}
  ELSE UNION {IF x.l.state < 0 THEN {x} ELSE Nonblocking([x EXCEPT !.l.client_state = UNINITIALIZED])
                : x \in Socket(w, "tcp")}

lisa_setup_udp(w) == IF w.l.state < 0 THEN {w} ELSE Socket(w, "udp")

\* The two called by themselves: once, before anything else.
SetUp ==
  /\ opened /\ Alone /\ l.state = UNINITIALIZED
  /\ \E w \in lisa_setup_tcp(Now) \cup lisa_setup_udp(Now) : Becomes(w)
  /\ UNCHANGED <<lock, pc, fds, opened, late, mishaps>>

\* Mutant: the clients stay open.
CloseKeepsClients ==
  /\ opened /\ Alone /\ l.state >= CONNECTED
  /\ sockets' = [f \in Fds |-> IF f = l.fd THEN "closed" ELSE sockets[f]]
  /\ l' = [l EXCEPT !.state = UNINITIALIZED]
  /\ opened' = FALSE
  /\ UNCHANGED <<lock, pc, fds, late, mishaps>>

\* Nothing is closed after an error, or before a connection was made.
lisa_close ==
  /\ opened /\ Alone /\ l.state >= CONNECTED
  /\ sockets' = [f \in Fds |-> IF f \in {l.fd} \cup ToSet(l.client_fds) THEN "closed" ELSE sockets[f]]
  /\ l' = [l EXCEPT !.state = UNINITIALIZED]
  /\ opened' = FALSE
  /\ UNCHANGED <<lock, pc, fds, late, mishaps>>

\* Mutant: num_clients is not counted down.
ClientStays(seq, k) == [j \in DOMAIN seq |-> IF j <= k \/ j = Len(seq) THEN seq[j] ELSE seq[j + 1]]

\* The entries after the one behind the client are moved up by one, so that
\* the list is right only when the client was the last.
Shifted(seq, k) == [j \in 1..(Len(seq) - 1) |-> IF j <= k THEN seq[j] ELSE seq[j + 1]]

\* The server closes the client it has received from last; no caller does it
\* without one.
lisa_close_client ==
  /\ opened /\ Alone /\ l.client_state >= CONNECTED /\ l.state >= 0
  /\ l.client_fd \in ToSet(l.client_fds) /\ IsOpen(l.client_fd)
  /\ sockets' = [sockets EXCEPT ![l.client_fd] = "closed"]
  /\ LET k == Min({j \in DOMAIN l.client_fds : l.client_fds[j] = l.client_fd}) IN
     /\ l' = [l EXCEPT !.client_fds = Shifted(@, k), !.client_state = UNINITIALIZED, !.state = LISTENING]
     /\ mishaps' = mishaps \cup IF k < Len(l.client_fds) THEN {"not_last"} ELSE {}
  /\ UNCHANGED <<lock, pc, fds, opened, late>>

-----------------------------------------------------------------------------
(* Connecting.                                                             *)

\* lisa_connect_by_name up to lisa_connect, which it calls unless the name is
\* not found
lisa_connect_by_name ==
  /\ opened /\ Alone /\ l.state >= 0 /\ lock = NULL
  /\ \E w \in LET client == [Now EXCEPT !.l.clsvr = "client"]
              IN  IF l.state < CREATED THEN lisa_setup_tcp(client) ELSE {client} :
       \/ w.l.state >= 0 /\ Becomes(w) /\ pc' = [pc EXCEPT ![Owner] = "named"]
       \/ (w.l.state < 0 \/ ~w.l.vsock) /\ Becomes(Failed(w)) /\ UNCHANGED pc
  /\ UNCHANGED <<lock, fds, opened, late, mishaps>>

\* Mutant: no check for an error of before.
ConnectUnchecked ==
  /\ opened /\ pc[Owner] \in {"idle", "named"} /\ lock = NULL
  /\ late' = (l.state < CREATED)
  /\ \E w \in LET client == [Now EXCEPT !.l.clsvr = "client"]
              IN  IF l.state < CREATED THEN lisa_setup_tcp([client EXCEPT !.l.state = UNINITIALIZED])
                                       ELSE {client} :
       /\ Becomes(w)
       /\ IF w.l.state < 0 THEN Returns(Owner) ELSE Waits(Owner, "connecting", {l.fd})
       /\ UNCHANGED <<lock, mishaps>>
  /\ UNCHANGED opened

\* lisa_connect up to select.  l->fd is read before it is set up, and the lock
\* is kept when the address is not one.
ConnectPreSelect ==
  /\ opened /\ pc[Owner] \in {"idle", "named"} /\ lock = NULL
  /\ late' = (l.state \in 0..(CREATED - 1))
  /\ \E w \in LET client == [Now EXCEPT !.l.clsvr = "client"]
              IN  IF l.state < 0 THEN {Now}
                  ELSE IF l.state < CREATED THEN lisa_setup_tcp(client) ELSE {client} :
       \/ w.l.state < 0 /\ Becomes(w) /\ Returns(Owner) /\ UNCHANGED <<lock, mishaps>>
       \/ /\ w.l.state >= 0 /\ (pc[Owner] = "named" => w.l.vsock)
          /\ Becomes(Failed(w)) /\ Returns(Owner)
          /\ lock' = Owner /\ mishaps' = mishaps \cup {"address"}
       \/ w.l.state >= 0 /\ Becomes(Failed(w)) /\ Returns(Owner) /\ UNCHANGED <<lock, mishaps>>
       \/ w.l.state >= 0 /\ Becomes(w) /\ Waits(Owner, "connecting", {l.fd}) /\ UNCHANGED <<lock, mishaps>>
  /\ UNCHANGED opened

\* The connection counts as made when the socket can be written, which it also
\* can when it was refused.
ConnectPostSelect ==
  /\ pc[Owner] = "connecting" /\ lock = NULL
  /\ \E state \in {CONNECTED, ERROR} : l' = [l EXCEPT !.state = state]
  /\ Returns(Owner)
  /\ UNCHANGED <<sockets, lock, opened, late, mishaps>>

-----------------------------------------------------------------------------
(* Listening and accepting.                                                *)

Bind(w) == {Failed(w), [w EXCEPT !.l.state = BOUND]}

\* listen itself always fails for a UDP socket
lisa_listen(w) ==
  LET server == [w EXCEPT !.l.clsvr = "server"]
      created == IF w.l.state >= CREATED THEN {server}
                 ELSE IF w.l.type = "udp" THEN lisa_setup_udp(server) ELSE lisa_setup_tcp(server)
      bound(x) == IF x.l.state \in 0..(BOUND - 1) THEN Bind(x) ELSE {x}
      listens(x) == IF x.l.state < 0 THEN {x}
                    ELSE IF x.s[x.l.fd] = "udp" THEN {Failed(x)} ELSE {x, Failed(x)}
  IN  IF w.l.state < 0 THEN {w} ELSE UNION {UNION {listens(y) : y \in bound(x)} : x \in created}

\* lisa_listen called by itself
Listen ==
  /\ opened /\ Alone /\ l.state < CONNECTED
  /\ \E w \in lisa_listen(Now) : Becomes(w)
  /\ UNCHANGED <<lock, pc, fds, opened, late, mishaps>>

\* lisa_accept up to select; l->fd is read before lisa_listen
AcceptPreSelect ==
  /\ opened /\ pc[Owner] = "idle" /\ lock = NULL /\ l.clsvr # "client"
  /\ Len(l.client_fds) < MaxClients
  /\ late' = (l.state \in 0..(CREATED - 1))
  /\ \E w \in IF l.state \in 0..(LISTENING - 1)
              THEN {IF x.l.state < 0 THEN x ELSE [x EXCEPT !.l.state = LISTENING] : x \in lisa_listen(Now)}
              ELSE {Now} :
       /\ Becomes(w)
       /\ IF w.l.state < 0 THEN Returns(Owner) ELSE Waits(Owner, "accepting", {l.fd})
  /\ UNCHANGED <<lock, opened, mishaps>>

\* select fails, or nobody connects in the wait time
AcceptNobody ==
  /\ pc[Owner] = "accepting" /\ lock = NULL
  /\ \E state \in {ERROR, TIMEOUT} : l' = [l EXCEPT !.state = state]
  /\ Returns(Owner)
  /\ UNCHANGED <<sockets, lock, opened, late, mishaps>>

Accept ==
  /\ pc[Owner] = "accepting" /\ lock = NULL
  /\ LET free == {f \in Fds : ~IsOpen(f)} IN
     /\ free # {}
     /\ sockets' = [sockets EXCEPT ![Min(free)] = "tcp"]
     /\ l' = [l EXCEPT !.state = ACCEPTED, !.client_state = CONNECTED, !.client_fd = Min(free),
                       !.client_fds = Append(@, Min(free))]
  /\ Returns(Owner)
  /\ UNCHANGED <<lock, opened, late, mishaps>>

\* accept itself fails: without vsock the client is -1 and counted
AcceptFails ==
  /\ pc[Owner] = "accepting" /\ lock = NULL
  /\ l' = IF l.vsock THEN [l EXCEPT !.state = ACCEPTED]
          ELSE [l EXCEPT !.state = ACCEPTED, !.client_state = CONNECTED, !.client_fd = -1,
                         !.client_fds = Append(@, -1)]
  /\ mishaps' = mishaps \cup IF l.vsock THEN {} ELSE {"no_client"}
  /\ Returns(Owner)
  /\ UNCHANGED <<sockets, lock, opened, late>>

-----------------------------------------------------------------------------
(* Sending and receiving on a connection.                                  *)

SendPreSelect(t) ==
  /\ opened /\ pc[t] = "idle" /\ lock = NULL /\ l.state >= CONNECTED
  /\ Waits(t, "sending", {IF l.clsvr = "client" THEN l.fd ELSE l.client_fd})
  /\ UNCHANGED <<l, sockets, lock, opened, late, mishaps>>

\* There is something to send.  Over TCP a timeout never gets here, and a
\* datagram is sent without waiting.
SendPostSelect(t) ==
  /\ pc[t] = "sending" /\ lock = NULL
  /\ \E state \in {SENT_DATA, ERROR} :
       l' = IF l.state # ACCEPTED THEN [l EXCEPT !.state = state] ELSE [l EXCEPT !.client_state = state]
  /\ Returns(t)
  /\ UNCHANGED <<sockets, lock, opened, late, mishaps>>

RecvPreSelect(t) ==
  /\ opened /\ pc[t] = "idle" /\ lock = NULL /\ l.state >= CONNECTED /\ l.clsvr # "unknown"
  /\ Waits(t, "receiving", IF l.clsvr = "client" THEN {l.fd} ELSE ToSet(l.client_fds))
  /\ UNCHANGED <<l, sockets, lock, opened, late, mishaps>>

\* An empty datagram and a failure count as data.
Received == IF l.type = "udp" THEN {GOT_DATA} ELSE {GOT_DATA, CLOSED, ERROR}

RecvPostSelect(t) ==
  /\ pc[t] = "receiving" /\ lock = NULL
  /\ \/ \E state \in {TIMEOUT, ERROR} :
          l' = IF l.clsvr = "client" THEN [l EXCEPT !.state = state] ELSE [l EXCEPT !.client_state = state]
     \/ /\ l.clsvr = "client"
        /\ \E state \in Received : l' = [l EXCEPT !.state = state]
     \/ /\ l.clsvr = "server"
        /\ \E f \in fds[t] \cap ToSet(l.client_fds), state \in Received :
             l' = [l EXCEPT !.client_fd = f, !.client_state = state]
  /\ Returns(t)
  /\ UNCHANGED <<sockets, lock, opened, late, mishaps>>

-----------------------------------------------------------------------------
(* Datagrams.                                                              *)

lisa_send_from ==
  /\ opened /\ Alone /\ l.state \in 0..(CONNECTED - 1)
  /\ \E w \in IF l.state < CREATED THEN {Failed(Now)} ELSE Bind(Now) : Becomes(w)
  /\ UNCHANGED <<lock, pc, fds, opened, late, mishaps>>

\* Mutant: the return for a bad address forgets the lock, as lisa_connect does.
SendToKeepsLock ==
  /\ opened /\ pc[Owner] = "idle" /\ lock = NULL
  /\ l.state \in 0..(CREATED - 1) \/ (l.state >= 0 /\ l.type = "udp")
  /\ \E w \in IF l.state < CREATED THEN lisa_setup_udp(Now) ELSE {Now} :
       \/ Becomes(Failed(w)) /\ lock' = Owner
       \/ w.l.state >= 0 /\ Becomes([w EXCEPT !.l.state = CONNECTED]) /\ UNCHANGED lock
  /\ UNCHANGED <<pc, fds, opened, late, mishaps>>

\* the address is not a number, sendto fails, or not
lisa_send_to ==
  /\ opened /\ pc[Owner] = "idle" /\ lock = NULL
  /\ l.state \in 0..(CREATED - 1) \/ (l.state >= 0 /\ l.type = "udp")
  /\ \E w \in IF l.state < CREATED THEN lisa_setup_udp(Now) ELSE {Now} :
       \/ Becomes(Failed(w))
       \/ w.l.state >= 0 /\ Becomes([w EXCEPT !.l.state = CONNECTED])
  /\ UNCHANGED <<lock, pc, fds, opened, late, mishaps>>

\* lisa_recv_from up to select, whose set of descriptors may hold others, as
\* it is never cleared
RecvFromPreSelect ==
  /\ opened /\ pc[Owner] = "idle" /\ lock = NULL /\ l.state >= CREATED /\ l.type = "udp"
  /\ \E w \in IF l.state < BOUND THEN Bind(Now) ELSE {Now} :
       /\ Becomes(w)
       /\ IF w.l.state < 0 THEN Returns(Owner) ELSE Waits(Owner, "receiving_from", {l.fd})
  /\ UNCHANGED <<lock, opened, late, mishaps>>

\* nothing arrived, or something did; recvfrom may fail, which a blocking lisa
\* notices
RecvFromPostSelect ==
  /\ pc[Owner] = "receiving_from" /\ lock = NULL
  /\ \E state \in {l.state, GOT_DATA, ERROR} : l' = [l EXCEPT !.state = state]
  /\ Returns(Owner)
  /\ UNCHANGED <<sockets, lock, opened, late, mishaps>>

Next ==
  \/ lisa_open \/ SetUp \/ lisa_close \/ lisa_close_client
  \/ lisa_connect_by_name \/ ConnectPreSelect \/ ConnectPostSelect
  \/ Listen \/ AcceptPreSelect \/ AcceptNobody \/ Accept \/ AcceptFails
  \/ \E t \in Threads : \/ SendPreSelect(t) \/ SendPostSelect(t)
                        \/ RecvPreSelect(t) \/ RecvPostSelect(t)
  \/ lisa_send_from \/ lisa_send_to \/ RecvFromPreSelect \/ RecvFromPostSelect

Spec == Init /\ [][Next]_vars

-----------------------------------------------------------------------------
(* Properties.                                                             *)

\* No call returns with the lock held, which would stop every other thread at
\* its next call, except lisa_connect when the address is not a number.
LockReturned == lock # NULL => "address" \in mishaps

\* Who waits for the lisa to be connected, to be connected to or to receive,
\* waits for descriptors it has, although l->fd and l->client_fds were read
\* before the lock was released; unless the call has made the socket by itself
\* ("Note that you generally don't have to call this", lisa.h:184), when it
\* waits for the descriptor of before.
WaitsOnOwnSockets ==
  \A t \in Threads :
    /\ pc[t] \in {"connecting", "accepting"} /\ ~late => fds[t] = {l.fd} /\ IsOpen(l.fd)
    /\ pc[t] \in {"receiving", "receiving_from"} /\ "not_last" \notin mishaps =>
          \A f \in fds[t] \ {-1} : IsOpen(f) /\ f \in {l.fd} \cup ToSet(l.client_fds)

\* The descriptors that are open are the socket and the clients, each once, in
\* every sequence of calls: none is lost, and none is closed that is in use;
\* unless a client that is not the last was closed.
DescriptorsKept ==
  "not_last" \notin mishaps =>
    LET own  == ({l.fd} \cup ToSet(l.client_fds)) \ {-1}
        open == {f \in Fds : IsOpen(f)} IN
    /\ l.state \in {0, UNINITIALIZED} => open = {}
    /\ l.state >= CREATED =>
         /\ own = open
         /\ l.fd \notin ToSet(l.client_fds)
         /\ \A j, k \in DOMAIN l.client_fds :
              l.client_fds[j] = l.client_fds[k] => j = k \/ l.client_fds[j] = -1
    /\ l.state < 0 => open \subseteq own

\* "used to short circuit if tube is in a bad state" (lisa.h:121): an error is
\* forgotten only by lisa_open, unless a call of another thread was under way,
\* which overwrites it when it ends.
ErrorSticks ==
  [][l.state = ERROR /\ (\A t \in Threads : pc[t] = "idle") /\ l'.state # ERROR
       => ~opened \/ l'.state = UNINITIALIZED]_vars
=============================================================================
