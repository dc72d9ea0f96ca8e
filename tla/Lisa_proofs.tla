---------------------------- MODULE Lisa_proofs ----------------------------
(***************************************************************************)
(* What the calls of lisa.c keep true of the descriptors, of the lock and  *)
(* of the lisa's state, for any number of descriptors and of threads that  *)
(* send and receive, and any sequence of calls of the owner.               *)
(***************************************************************************)
EXTENDS Lisa, SequenceTheorems, WellFoundedInduction, TLAPS

(***************************************************************************)
(* What the functions that one call is made of return, which is a lisa     *)
(* with the sockets of the process: a world.                               *)
(***************************************************************************)
Kinds   == {"closed", "tcp", "udp"}
Handles == Fds \cup {-1, 0}
Lists   == Seq(Fds \cup {-1})
Lisas   == [state : Int, client_state : Int, clsvr : {"unknown", "client", "server"},
            type : {"none", "tcp", "udp"}, vsock : BOOLEAN, fd : Handles, client_fd : Handles,
            client_fds : Lists]
Worlds  == [l : Lisas, s : [Fds -> Kinds]]

AllClosed(w) == \A f \in Fds : w.s[f] = "closed"

\* The socket was made, or that failed.
Decided(w) == w.l.state >= CREATED \/ w.l.state = ERROR

\* x is w, where everything was closed, with a socket of its own or a failure.
NewSocket(w, x) ==
  /\ x \in Worlds /\ Decided(x)
  /\ x.l.client_fds = w.l.client_fds
  /\ \A f \in Fds : x.s[f] # "closed" => f = x.l.fd
  /\ x.l.state >= CREATED => x.l.fd \in Fds /\ x.s[x.l.fd] # "closed"

\* x has the descriptors of w.
SameSockets(w, x) ==
  /\ x \in Worlds /\ Decided(x)
  /\ x.s = w.s /\ x.l.fd = w.l.fd /\ x.l.client_fds = w.l.client_fds

\* Descriptors are positive numbers.
LEMMA FdsAre == Fds \subseteq Nat \ {0}
  BY LisaAssumption DEF Fds

\* A set of numbers that is not empty has its least element.
LEMMA LeastIn ==
  ASSUME NEW T \in SUBSET Nat, T # {}
  PROVE  Min(T) \in T
<1> DEFINE Less == {ss \in Nat \X Nat : ss[1] < ss[2]}
<1>1. IsWellFoundedOn(Less, Nat)
  BY NatLessThanWellFounded DEF OpToRel
<1> HIDE DEF Less
<1>2. \E x \in T : \A y \in T : <<y, x>> \notin Less
  BY <1>1, WFMin
<1>3. \E x \in T : \A y \in T : ~(y < x)
  BY <1>2 DEF Less
<1>4. \E x \in T : \A y \in T : x <= y
  BY <1>3
<1> QED
  BY <1>4 DEF Min

\* The kernel gives the lowest descriptor that is free.
LEMMA LowestFree ==
  ASSUME NEW T \in SUBSET Fds, T # {}
  PROVE  Min(T) \in T
  BY FdsAre, LeastIn

\* An error changes the state and nothing else.
LEMMA FailedTyped ==
  ASSUME NEW w \in Worlds
  PROVE  /\ Failed(w) \in Worlds /\ Failed(w).s = w.s /\ Failed(w).l.state = ERROR
         /\ Failed(w).l.fd = w.l.fd /\ Failed(w).l.client_fds = w.l.client_fds
  BY DEF Failed, Worlds, Lisas, ERROR

\* So what is known of the descriptors stays true.
LEMMA FailedKeeps ==
  ASSUME NEW w, NEW x
  PROVE  /\ NewSocket(w, x) => NewSocket(w, Failed(x))
         /\ SameSockets(w, x) => SameSockets(w, Failed(x))
  BY FailedTyped DEF NewSocket, SameSockets, Decided, ERROR, CREATED

\* socket() where every descriptor is closed.
LEMMA SocketMakes ==
  ASSUME NEW w \in Worlds, AllClosed(w), NEW type \in {"tcp", "udp"}, NEW x \in Socket(w, type)
  PROVE  NewSocket(w, x)
<1> DEFINE free == {f \in Fds : w.s[f] = "closed"}
<1>1. CASE x = [w EXCEPT !.l.fd = -1, !.l.state = ERROR]
  <2>0. w.s \in [Fds -> Kinds] /\ w.l \in Lisas /\ -1 \in Handles /\ ERROR \in Int
    BY DEF Worlds, Handles, ERROR
  <2>1. x.s = w.s /\ x.l = [w.l EXCEPT !.fd = -1, !.state = ERROR] /\ x = [l |-> x.l, s |-> x.s]
    BY <1>1 DEF Worlds
  <2>2. x.l \in Lisas /\ x.l.state = ERROR /\ x.l.client_fds = w.l.client_fds
    BY <2>0, <2>1 DEF Lisas
  <2>3. x \in Worlds
    BY <2>0, <2>1, <2>2 DEF Worlds
  <2> QED
    BY <2>1, <2>2, <2>3 DEF NewSocket, AllClosed, Decided, ERROR, CREATED
<1>2. CASE /\ free # {}
           /\ x = [w EXCEPT !.s[Min(free)] = type, !.l.fd = Min(free), !.l.type = type,
                            !.l.state = CREATED]
  <2>1. PICK f : f = Min(free) /\ f \in Fds
    BY <1>2, LowestFree
  <2>2. x = [w EXCEPT !.s[f] = type, !.l.fd = f, !.l.type = type, !.l.state = CREATED]
    BY <1>2, <2>1
  <2>3. w.s \in [Fds -> Kinds] /\ w.l \in Lisas
    BY DEF Worlds
  <2>4. /\ x.s = [w.s EXCEPT ![f] = type]
        /\ x.l = [w.l EXCEPT !.fd = f, !.type = type, !.state = CREATED]
        /\ x = [l |-> x.l, s |-> x.s]
    BY <2>2 DEF Worlds
  <2>5. x.s \in [Fds -> Kinds]
    BY <2>1, <2>3, <2>4 DEF Kinds
  <2>6. /\ x.l \in Lisas /\ x.l.state = CREATED /\ x.l.client_fds = w.l.client_fds /\ x.l.fd = f
    <3>1. f \in Handles /\ CREATED \in Int /\ type \in {"none", "tcp", "udp"}
      BY <2>1 DEF Handles, CREATED
    <3> QED
      BY <2>3, <2>4, <3>1 DEF Lisas
  <2>7. x \in Worlds
    BY <2>4, <2>5, <2>6 DEF Worlds
  <2>8. \A g \in Fds : x.s[g] # "closed" <=> g = f
    BY <2>1, <2>3, <2>4 DEF AllClosed
  <2> QED
    BY <2>1, <2>6, <2>7, <2>8 DEF NewSocket, Decided, CREATED
<1> QED
  BY <1>1, <1>2 DEF Socket

\* lisa_setup_tcp and lisa_setup_udp.
LEMMA SetUpMakes ==
  ASSUME NEW w \in Worlds, AllClosed(w), w.l.state >= 0,
         NEW x \in lisa_setup_tcp(w) \cup lisa_setup_udp(w)
  PROVE  NewSocket(w, x)
<1>0. w.l.state \in Int
  BY DEF Worlds, Lisas
<1>1. CASE x \in lisa_setup_udp(w)
  BY <1>0, <1>1, SocketMakes DEF lisa_setup_udp
<1>2. CASE x \in lisa_setup_tcp(w)
  <2> DEFINE after(y) == IF y.l.state < 0 THEN {y}
                         ELSE Nonblocking([y EXCEPT !.l.client_state = UNINITIALIZED])
  <2>0. lisa_setup_tcp(w) = UNION {after(y) : y \in Socket(w, "tcp")}
    <3>1. ~(w.l.state < 0)
      BY <1>0
    <3> QED
      BY <3>1, Zenon DEF lisa_setup_tcp
  <2> HIDE DEF after
  <2>1. PICK y \in Socket(w, "tcp") : x \in after(y)
    BY <2>0, <1>2
  <2>2. NewSocket(w, y)
    BY SocketMakes
  <2> DEFINE z == [y EXCEPT !.l.client_state = UNINITIALIZED]
  <2>3. /\ z \in Worlds /\ z.s = y.s /\ z.l.state = y.l.state /\ z.l.fd = y.l.fd
        /\ z.l.client_fds = y.l.client_fds
    BY <2>2 DEF NewSocket, Worlds, Lisas, UNINITIALIZED
  <2>4. NewSocket(w, z)
    BY <2>2, <2>3 DEF NewSocket, Decided
  <2> QED
    BY <2>1, <2>2, <2>4, FailedKeeps DEF after, Nonblocking
<1> QED
  BY <1>1, <1>2

\* Another field than those of the descriptors changes nothing of that.
LEMMA BindKeeps ==
  ASSUME NEW w, NEW x, NEW y \in Bind(x)
  PROVE  /\ NewSocket(w, x) /\ x.l.state >= 0 => NewSocket(w, y)
         /\ SameSockets(w, x) => SameSockets(w, y)
<1> DEFINE z == [x EXCEPT !.l.state = BOUND]
<1>1. x \in Worlds => /\ z \in Worlds /\ z.s = x.s /\ z.l.state = BOUND /\ z.l.fd = x.l.fd
                      /\ z.l.client_fds = x.l.client_fds
  BY DEF Worlds, Lisas, BOUND
<1>2. NewSocket(w, x) /\ x.l.state >= 0 => NewSocket(w, z)
  BY <1>1 DEF NewSocket, Decided, ERROR, CREATED, BOUND
<1>3. SameSockets(w, x) => SameSockets(w, z)
  BY <1>1 DEF SameSockets, Decided, ERROR, CREATED, BOUND
<1> HIDE DEF z
<1>4. y = Failed(x) \/ y = z
  BY DEF Bind, z
<1> QED
  BY <1>2, <1>3, <1>4, FailedKeeps

\* Noting whether the lisa is a client or a server.
LEMMA RoleKeeps ==
  ASSUME NEW w \in Worlds, NEW role \in {"client", "server"}
  PROVE  LET x == [w EXCEPT !.l.clsvr = role]
         IN  /\ x \in Worlds /\ x.s = w.s /\ x.l.state = w.l.state /\ x.l.type = w.l.type
             /\ x.l.fd = w.l.fd /\ x.l.client_fds = w.l.client_fds
  BY DEF Worlds, Lisas

\* lisa_listen, which makes the socket and binds it where that was not done.
LEMMA ListenMakes ==
  ASSUME NEW w \in Worlds, w.l.state >= 0, NEW x \in lisa_listen(w)
  PROVE  /\ AllClosed(w) /\ w.l.state < CREATED => NewSocket(w, x)
         /\ w.l.state >= CREATED => SameSockets(w, x)
<1> DEFINE server == [w EXCEPT !.l.clsvr = "server"]
           created == IF w.l.state >= CREATED THEN {server}
                      ELSE IF w.l.type = "udp" THEN lisa_setup_udp(server) ELSE lisa_setup_tcp(server)
           bound(y) == IF y.l.state \in 0..(BOUND - 1) THEN Bind(y) ELSE {y}
           listens(y) == IF y.l.state < 0 THEN {y}
                         ELSE IF y.s[y.l.fd] = "udp" THEN {Failed(y)} ELSE {y, Failed(y)}
           Fine(y) == /\ AllClosed(w) /\ w.l.state < CREATED => NewSocket(w, y)
                      /\ w.l.state >= CREATED => SameSockets(w, y)
<1>0. w.l.state \in Int
  BY DEF Worlds, Lisas
<1>1. /\ server \in Worlds /\ server.s = w.s /\ server.l.state = w.l.state
      /\ server.l.fd = w.l.fd /\ server.l.client_fds = w.l.client_fds
  BY RoleKeeps
<1>2. lisa_listen(w) = UNION {UNION {listens(y) : y \in bound(u)} : u \in created}
  BY <1>0 DEF lisa_listen
<1> HIDE DEF server
<1>3. ASSUME NEW u \in created PROVE Fine(u)
  <2>1. CASE w.l.state >= CREATED
    BY <1>1, <2>1, <1>0 DEF SameSockets, Decided, CREATED
  <2>2. CASE w.l.state < CREATED /\ AllClosed(w)
    <3>1. AllClosed(server)
      BY <2>2, <1>1 DEF AllClosed
    <3>2. u \in lisa_setup_udp(server) \cup lisa_setup_tcp(server)
      BY <2>2, <1>0 DEF CREATED
    <3>3. NewSocket(server, u)
      BY <3>1, <3>2, <1>1, SetUpMakes
    <3> QED
      BY <3>3, <2>2, <1>0, <1>1 DEF NewSocket, CREATED
  <2> QED
    BY <2>1, <2>2, <1>0 DEF CREATED
<1> HIDE DEF created
<1>4. ASSUME NEW u, Fine(u), NEW y \in bound(u) PROVE Fine(y)
  BY <1>4, BindKeeps DEF BOUND
<1>5. ASSUME NEW y, Fine(y), NEW z \in listens(y) PROVE Fine(z)
  BY <1>5, FailedKeeps
<1> HIDE DEF bound, listens, Fine
<1>6. PICK u \in created : x \in UNION {listens(y) : y \in bound(u)}
  BY <1>2
<1>7. PICK y \in bound(u) : x \in listens(y)
  BY <1>6
<1>8. Fine(x)
  BY <1>3, <1>4, <1>5, <1>7
<1> QED
  BY <1>8 DEF Fine

(***************************************************************************)
(* The inductive invariant.  Descriptors says which descriptors are open   *)
(* in every state of the lisa, not only where DescriptorsKept looks;       *)
(* UnusedWhenFresh that no call waits while the lisa has no socket, which  *)
(* is why a call in progress has one; Waiters is WaitsOnOwnSockets with    *)
(* the descriptors of the calls named one by one.                          *)
(***************************************************************************)
Calls == {"idle", "named", "connecting", "accepting", "sending", "receiving", "receiving_from"}

Types ==
  /\ l \in Lisas /\ sockets \in [Fds -> Kinds]
  /\ pc \in [Threads -> Calls] /\ fds \in [Threads -> SUBSET Handles]
  /\ opened \in BOOLEAN /\ late \in BOOLEAN
  /\ mishaps \in SUBSET {"address", "not_last", "no_client"}

\* The threads besides the owner only send and receive.
OwnerOnly == \A t \in Threads : pc[t] \notin {"idle", "sending", "receiving"} => t = Owner

\* Initialised and without a socket; with one that a call may use.
Fresh   == l.state \in {0, UNINITIALIZED}
Usable  == l.state >= CREATED \/ ~Alone
Clients == ToSet(l.client_fds) \ {-1}

UnusedWhenFresh ==
  /\ Fresh => Alone
  /\ Fresh /\ opened => l.client_fds = <<>> /\ \A f \in Fds : ~IsOpen(f)
  /\ ~opened => Fresh
  /\ Fresh \/ Decided(Now)

SocketInUse == Usable => IsOpen(l.fd) /\ l.fd \notin Clients

Kept ==
  "not_last" \notin mishaps =>
    /\ Fresh => \A f \in Fds : ~IsOpen(f)
    /\ ~Fresh => \A f \in Fds : IsOpen(f) => f = l.fd \/ f \in Clients
    /\ Usable => \A f \in Clients : IsOpen(f)
    /\ \A j, k \in DOMAIN l.client_fds :
         l.client_fds[j] = l.client_fds[k] => j = k \/ l.client_fds[j] = -1

Descriptors == UnusedWhenFresh /\ SocketInUse /\ Kept

\* What thread t waits for.
WaitsOf(t) ==
  /\ pc[t] \in {"connecting", "accepting"} /\ ~late => fds[t] = {l.fd} /\ IsOpen(l.fd)
  /\ pc[t] \in {"receiving", "receiving_from"} /\ "not_last" \notin mishaps =>
        \A f \in fds[t] \ {-1} : IsOpen(f) /\ f \in {l.fd} \cup ToSet(l.client_fds)

Waiters == \A t \in Threads : WaitsOf(t)

LisaInv == Types /\ OwnerOnly /\ Descriptors /\ Waiters /\ LockReturned

(***************************************************************************)
(* What a call may make of the lisa, and that it keeps the invariant.      *)
(***************************************************************************)
Outcome(w) == IF Fresh THEN NewSocket(Now, w) ELSE SameSockets(Now, w)

\* The present world is one.
LEMMA NowIs == Types => Now \in Worlds
  BY DEF Types, Now, Worlds

\* Such an outcome keeps which descriptors are open.
LEMMA OutcomeKeeps ==
  ASSUME Types, Descriptors, opened, NEW w, Outcome(w), Becomes(w),
         opened' = opened, "not_last" \in mishaps' <=> "not_last" \in mishaps,
         ~Fresh /\ (l'.state >= CREATED \/ ~Alone') => Usable,
         Fresh /\ ~Alone' => l'.state >= CREATED
  PROVE  Descriptors'
<1>1. l' = w.l /\ sockets' = w.s
  BY DEF Becomes
<1>2. w \in Worlds /\ Decided(w) /\ w.l.client_fds = l.client_fds
  BY DEF Outcome, NewSocket, SameSockets, Now
<1>3. ~Fresh' /\ Decided(Now)'
  BY <1>1, <1>2 DEF Fresh, Decided, Now, UNINITIALIZED, CREATED, ERROR
<1>4. CASE Fresh
  <2>1. /\ l'.client_fds = <<>>
        /\ \A f \in Fds : w.s[f] # "closed" => f = w.l.fd
        /\ w.l.state >= CREATED => w.l.fd \in Fds /\ w.s[w.l.fd] # "closed"
    BY <1>1, <1>2, <1>4 DEF Outcome, NewSocket, Descriptors, UnusedWhenFresh
  <2>2. Clients' = {}
    BY <2>1 DEF Clients, ToSet
  <2>3. UnusedWhenFresh'
    BY <1>3 DEF UnusedWhenFresh
  <2>4. Usable' => l'.state >= CREATED
    BY <1>4 DEF Usable
  <2>5. SocketInUse'
    BY <1>1, <2>1, <2>2, <2>4 DEF SocketInUse, IsOpen
  <2>6. Kept'
    BY <1>1, <1>3, <2>1, <2>2 DEF Kept, IsOpen
  <2> QED
    BY <2>3, <2>5, <2>6 DEF Descriptors
<1>5. CASE ~Fresh
  <2>1. sockets' = sockets /\ l'.fd = l.fd /\ l'.client_fds = l.client_fds
    BY <1>1, <1>5 DEF Outcome, SameSockets, Now
  <2>2. Clients' = Clients /\ (Usable' => Usable)
    BY <2>1, <1>5 DEF Clients, Usable
  <2>3. UnusedWhenFresh'
    BY <1>3 DEF UnusedWhenFresh
  <2>4. SocketInUse'
    BY <2>1, <2>2 DEF Descriptors, SocketInUse, IsOpen
  <2>5. Kept'
    BY <1>3, <1>5, <2>1, <2>2 DEF Descriptors, Kept, IsOpen
  <2> QED
    BY <2>3, <2>4, <2>5 DEF Descriptors
<1> QED
  BY <1>4, <1>5

\* Who goes on waiting goes on waiting for what the lisa has.
LEMMA WaiterKeeps ==
  ASSUME NEW t, WaitsOf(t), pc'[t] = pc[t], fds'[t] = fds[t],
         pc[t] \in {"connecting", "accepting"} => late' = late,
         "not_last" \in mishaps' <=> "not_last" \in mishaps,
         l'.fd = l.fd, \A f \in Fds : IsOpen(f) => IsOpen(f)',
         ToSet(l.client_fds) \subseteq ToSet(l'.client_fds)
  PROVE  WaitsOf(t)'
<1>1. \A f : IsOpen(f) => IsOpen(f)'
  BY DEF IsOpen
<1> QED
  BY <1>1 DEF WaitsOf

\* So does a call of thread t that ends so, or waits for what the lisa has.
LEMMA CallKeeps ==
  ASSUME LisaInv, opened, NEW w, Outcome(w), Becomes(w), NEW t \in Threads,
         pc' \in [Threads -> Calls], fds' \in [Threads -> SUBSET Handles],
         \A s \in Threads \ {t} : pc'[s] = pc[s] /\ fds'[s] = fds[s],
         t = Owner \/ pc'[t] \in {"idle", "sending", "receiving"},
         WaitsOf(t)', pc'[t] # "idle" => l'.state >= CREATED,
         ~Fresh /\ l'.state >= CREATED => Usable,
         late' \in BOOLEAN, t # Owner => late' = late,
         opened' = opened, mishaps' \in SUBSET {"address", "not_last", "no_client"},
         "not_last" \in mishaps' <=> "not_last" \in mishaps, LockReturned'
  PROVE  LisaInv'
<1>0. Types /\ Descriptors /\ OwnerOnly /\ Waiters
  BY DEF LisaInv
<1>1. ~Alone' => ~Alone \/ l'.state >= CREATED
  BY DEF Alone
<1>2. Descriptors'
  <2>1. ~Fresh /\ (l'.state >= CREATED \/ ~Alone') => Usable
    BY <1>1 DEF Usable
  <2>2. Fresh /\ ~Alone' => l'.state >= CREATED
    BY <1>0, <1>1 DEF Descriptors, UnusedWhenFresh
  <2> QED
    BY <1>0, <2>1, <2>2, OutcomeKeeps
<1>3. Types'
  <2>1. w \in Worlds
    BY DEF Outcome, NewSocket, SameSockets
  <2>2. w.l \in Lisas /\ w.s \in [Fds -> Kinds]
    BY <2>1 DEF Worlds
  <2> QED
    BY <1>0, <2>2 DEF Types, Becomes
<1>4. OwnerOnly'
  BY <1>0 DEF OwnerOnly
<1>5. ASSUME NEW s \in Threads \ {t} PROVE WaitsOf(s)'
  <2>1. CASE pc[s] = "idle"
    BY <2>1 DEF WaitsOf
  <2>2. CASE pc[s] # "idle"
    <3>1. ~Fresh
      BY <1>0, <2>2 DEF Alone, Descriptors, UnusedWhenFresh
    <3>2. sockets' = sockets /\ l'.fd = l.fd /\ l'.client_fds = l.client_fds
      BY <3>1 DEF Outcome, SameSockets, Now, Becomes
    <3>3. /\ \A f \in Fds : IsOpen(f) => IsOpen(f)'
          /\ ToSet(l.client_fds) \subseteq ToSet(l'.client_fds)
      BY <3>2 DEF IsOpen
    <3>4. pc[s] \in {"connecting", "accepting"} => late' = late
      BY <1>0 DEF OwnerOnly
    <3> QED
      BY <1>0, <3>2, <3>3, <3>4, WaiterKeeps DEF Waiters
  <2> QED
    BY <2>1, <2>2
<1>6. Waiters'
  BY <1>5 DEF Waiters
<1> QED
  BY <1>2, <1>3, <1>4, <1>6 DEF LisaInv

\* A lisa that was opened and has no socket has nothing open.
LEMMA FreshIs ==
  ASSUME Types, Descriptors, opened
  PROVE  /\ l.state \in Int
         /\ l.state \in 0..(CREATED - 1) <=> Fresh
         /\ Fresh <=> (l.state >= 0 /\ l.state < CREATED)
         /\ Fresh => AllClosed(Now) /\ l.client_fds = <<>>
         /\ ~Fresh => Decided(Now)
<1>1. l.state \in Int
  BY DEF Types, Lisas
<1>2. Fresh => AllClosed(Now)
  BY DEF Descriptors, UnusedWhenFresh, AllClosed, IsOpen, Now
<1> QED
  BY <1>1, <1>2 DEF Fresh, CREATED, UNINITIALIZED, Descriptors, UnusedWhenFresh

\* A call that changes nothing.
LEMMA NowOutcome ==
  ASSUME Types, Descriptors, ~Fresh
  PROVE  Outcome(Now)
  BY NowIs DEF Descriptors, UnusedWhenFresh, Outcome, SameSockets

\* A call that fails after all.
LEMMA FailedOutcome ==
  ASSUME NEW w, Outcome(w)
  PROVE  Outcome(Failed(w)) /\ Failed(w).l.state = ERROR
  BY FailedKeeps, FailedTyped DEF Outcome, NewSocket, SameSockets

\* A call that fails at once.
LEMMA FailedNow ==
  ASSUME Types, Descriptors, opened
  PROVE  Outcome(Failed(Now)) /\ Failed(Now).l.state = ERROR
<1>1. CASE ~Fresh
  BY <1>1, NowOutcome, FailedOutcome
<1>2. CASE Fresh
  <2>1. AllClosed(Now) /\ Now \in Worlds
    BY <1>2, FreshIs, NowIs
  <2>2. NewSocket(Now, Failed(Now)) /\ Failed(Now).l.state = ERROR
    BY <2>1, FailedTyped DEF NewSocket, AllClosed, Decided, ERROR, CREATED
  <2> QED
    BY <1>2, <2>2 DEF Outcome
<1> QED
  BY <1>1, <1>2

\* lisa_bind.
LEMMA BindOutcome ==
  ASSUME Types, Descriptors, ~Fresh, NEW w \in Bind(Now)
  PROVE  Outcome(w)
<1>1. SameSockets(Now, Now)
  BY NowOutcome DEF Outcome
<1> QED
  BY <1>1, BindKeeps DEF Outcome

\* Set up by itself, or by a call that has noted the role of the lisa.
LEMMA SetUpOutcome ==
  ASSUME Types, Descriptors, opened, Fresh,
         NEW v \in Worlds, v.s = sockets, v.l.state = l.state, v.l.client_fds = l.client_fds,
         NEW w \in lisa_setup_tcp(v) \cup lisa_setup_udp(v)
  PROVE  Outcome(w)
<1>1. AllClosed(v) /\ v.l.state >= 0
  BY FreshIs DEF AllClosed, Now
<1>2. NewSocket(v, w)
  BY <1>1, SetUpMakes
<1> QED
  BY <1>2 DEF Outcome, NewSocket, Now

\* lisa_listen; after an error it does nothing.
LEMMA ListenOutcome ==
  ASSUME Types, Descriptors, opened, NEW w \in lisa_listen(Now)
  PROVE  Outcome(w) /\ (l.state < 0 => w = Now)
<1>1. Now \in Worlds /\ Now.l = l /\ l.state \in Int
  BY NowIs, FreshIs DEF Now
<1>2. CASE l.state < 0
  <2>1. w = Now /\ ~Fresh
    BY <1>1, <1>2, FreshIs DEF lisa_listen
  <2> QED
    BY <2>1, NowOutcome
<1>3. CASE l.state >= 0
  BY <1>1, <1>3, FreshIs, ListenMakes DEF Outcome, CREATED
<1> QED
  BY <1>1, <1>2, <1>3

\* A client.
LEMMA ClientIs ==
  ASSUME Types
  PROVE  LET client == [Now EXCEPT !.l.clsvr = "client"]
         IN  /\ client \in Worlds /\ client.s = sockets /\ client.l.state = l.state
             /\ client.l.fd = l.fd /\ client.l.client_fds = l.client_fds
<1>1. Now \in Worlds /\ Now.l = l /\ Now.s = sockets
  BY NowIs DEF Now
<1> QED
  BY <1>1, RoleKeeps

\* The first part of lisa_connect; after an error it does nothing.
LEMMA ConnectOutcome ==
  ASSUME Types, Descriptors, opened, NEW w,
         w \in LET client == [Now EXCEPT !.l.clsvr = "client"]
               IN  IF l.state < 0 THEN {Now}
                   ELSE IF l.state < CREATED THEN lisa_setup_tcp(client) ELSE {client}
  PROVE  Outcome(w) /\ (l.state < 0 => w = Now)
<1> DEFINE client == [Now EXCEPT !.l.clsvr = "client"]
<1>1. /\ client \in Worlds /\ client.s = sockets /\ client.l.state = l.state
      /\ client.l.fd = l.fd /\ client.l.client_fds = l.client_fds
  BY ClientIs
<1> HIDE DEF client
<1>2. w \in IF l.state < 0 THEN {Now}
            ELSE IF l.state < CREATED THEN lisa_setup_tcp(client) ELSE {client}
  BY DEF client
<1>3. CASE l.state < 0
  BY <1>2, <1>3, NowOutcome, FreshIs
<1>4. CASE Fresh
  BY <1>1, <1>2, <1>4, FreshIs, SetUpOutcome
<1>5. CASE ~Fresh /\ ~(l.state < 0)
  <2>1. w = client /\ Decided(w)
    BY <1>1, <1>2, <1>5, FreshIs DEF Decided, Now
  <2> QED
    BY <1>1, <1>5, <2>1 DEF Outcome, SameSockets, Now
<1> QED
  BY <1>3, <1>4, <1>5, FreshIs

\* A call that leaves the descriptors alone.
LEMMA QuietOutcome ==
  ASSUME Types, ~Fresh, l' \in Lisas, sockets' = sockets,
         l'.fd = l.fd, l'.client_fds = l.client_fds, l'.state >= CREATED \/ l'.state = ERROR
  PROVE  \E w : Outcome(w) /\ Becomes(w)
<1>1. PICK w : w = [l |-> l', s |-> sockets']
  OBVIOUS
<1>2. w.l = l' /\ w.s = sockets' /\ w \in Worlds
  BY <1>1 DEF Worlds, Types
<1>3. Outcome(w) /\ Becomes(w)
  BY <1>2 DEF Outcome, SameSockets, Now, Decided, Becomes
<1> QED
  BY <1>3

\* A call that waited returns.
LEMMA ReturnKeeps ==
  ASSUME LisaInv, NEW t \in Threads, pc[t] # "idle", Returns(t),
         l' \in Lisas, sockets' = sockets, l'.fd = l.fd, l'.client_fds = l.client_fds,
         l'.state >= CREATED \/ l'.state = ERROR,
         UNCHANGED <<lock, opened, late, mishaps>>
  PROVE  LisaInv'
<1>0. Types /\ Descriptors /\ LockReturned
  BY DEF LisaInv
<1>1. ~Alone /\ ~Fresh /\ opened /\ Usable
  BY <1>0 DEF Alone, Descriptors, UnusedWhenFresh, Usable
<1>2. PICK w : Outcome(w) /\ Becomes(w)
  BY <1>0, <1>1, QuietOutcome
<1>3. /\ pc' \in [Threads -> Calls] /\ fds' \in [Threads -> SUBSET Handles]
      /\ \A s \in Threads \ {t} : pc'[s] = pc[s] /\ fds'[s] = fds[s]
      /\ pc'[t] = "idle"
  BY <1>0 DEF Types, Returns, Waits, Calls
<1>4. WaitsOf(t)'
  BY <1>3 DEF WaitsOf
<1>5. LockReturned' /\ late' \in BOOLEAN /\ mishaps' \in SUBSET {"address", "not_last", "no_client"}
  BY <1>0 DEF LockReturned, Types
<1> QED
  BY <1>1, <1>2, <1>3, <1>4, <1>5, CallKeeps

\* A call that goes on to listen, or is connected.
LEMMA StateOutcome ==
  ASSUME NEW w, Outcome(w), w.l.state >= 0, NEW state \in {LISTENING, CONNECTED}
  PROVE  LET x == [w EXCEPT !.l.state = state]
         IN  /\ Outcome(x) /\ x.l.state = state
             /\ x.s = w.s /\ x.l.fd = w.l.fd /\ x.l.client_fds = w.l.client_fds
<1> DEFINE x == [w EXCEPT !.l.state = state]
<1>1. w \in Worlds /\ Decided(w)
  BY DEF Outcome, NewSocket, SameSockets
<1>2. state \in Int /\ state >= CREATED
  BY DEF LISTENING, CONNECTED, CREATED
<1>3. /\ x \in Worlds /\ x.s = w.s /\ x.l.state = state /\ x.l.fd = w.l.fd
      /\ x.l.client_fds = w.l.client_fds
  BY <1>1, <1>2 DEF Worlds, Lisas
<1>4. w.l.state >= CREATED
  BY <1>1 DEF Decided, ERROR
<1> HIDE DEF x
<1>5. Outcome(x)
  BY <1>2, <1>3, <1>4 DEF Outcome, NewSocket, SameSockets, Decided
<1> QED
  BY <1>3, <1>5 DEF x

\* A call during which nobody waits, and which does not wait.
LEMMA ImmediateKeeps ==
  ASSUME LisaInv, opened, pc[Owner] = "idle" \/ Alone, NEW w, Outcome(w), Becomes(w),
         ~Fresh => l.state >= CREATED \/ w.l.state < 0,
         UNCHANGED <<lock, pc, fds, opened, late, mishaps>>
  PROVE  LisaInv'
<1>0. Types /\ Descriptors /\ LockReturned /\ Owner \in Threads /\ Waiters
  BY LisaAssumption DEF LisaInv
<1>1. pc' \in [Threads -> Calls] /\ fds' \in [Threads -> SUBSET Handles] /\ pc'[Owner] = "idle"
  BY <1>0 DEF Types, Alone
<1>2. WaitsOf(Owner)'
  BY <1>1 DEF WaitsOf
<1>3. l'.state = w.l.state /\ w.l.state \in Int
  BY DEF Becomes, Outcome, NewSocket, SameSockets, Worlds, Lisas
<1>4. ~Fresh /\ l'.state >= CREATED => Usable
  BY <1>3 DEF Usable, CREATED
<1>5. LockReturned' /\ late' \in BOOLEAN /\ mishaps' \in SUBSET {"address", "not_last", "no_client"}
  BY <1>0 DEF LockReturned, Types
<1> QED
  BY <1>0, <1>1, <1>2, <1>4, <1>5, CallKeeps

\* lisa_open: a lisa that starts anew.
LEMMA OpenKeeps == LisaInv /\ lisa_open => LisaInv'
<1> SUFFICES ASSUME LisaInv, lisa_open PROVE LisaInv'
  OBVIOUS
<1>0. Types /\ OwnerOnly /\ LockReturned
  BY DEF LisaInv
<1>1. PICK v \in BOOLEAN :
        l' = [l EXCEPT !.state = UNINITIALIZED, !.client_state = UNINITIALIZED,
                       !.clsvr = "unknown", !.vsock = v, !.client_fds = <<>>]
  BY DEF lisa_open
<1>2. /\ Alone /\ (\A f \in Fds : ~IsOpen(f)) /\ opened'
      /\ UNCHANGED <<sockets, lock, pc, fds, late, mishaps>>
  BY DEF lisa_open
<1>3. l' \in Lisas /\ l'.state = UNINITIALIZED /\ l'.client_fds = <<>>
  <2>1. <<>> \in Lists /\ UNINITIALIZED \in Int
    BY EmptySeq DEF Lists, UNINITIALIZED
  <2> QED
    BY <1>0, <1>1, <2>1 DEF Types, Lisas
<1>4. Types' /\ opened' = TRUE
  BY <1>0, <1>2, <1>3 DEF Types, lisa_open
<1>5. Alone' /\ Fresh' /\ ~Usable' /\ Clients' = {} /\ \A f \in Fds : ~IsOpen(f)'
  BY <1>2, <1>3 DEF Alone, Fresh, Usable, Clients, ToSet, IsOpen, UNINITIALIZED, CREATED
<1>6. Descriptors'
  BY <1>3, <1>4, <1>5 DEF Descriptors, UnusedWhenFresh, SocketInUse, Kept
<1>7. Waiters'
  BY <1>5 DEF Waiters, WaitsOf, Alone
<1>8. OwnerOnly' /\ LockReturned'
  BY <1>0, <1>2 DEF OwnerOnly, LockReturned
<1> QED
  BY <1>4, <1>6, <1>7, <1>8 DEF LisaInv

\* lisa_close closes the socket and the clients' ones.
LEMMA CloseKeeps == LisaInv /\ lisa_close => LisaInv'
<1> SUFFICES ASSUME LisaInv, lisa_close PROVE LisaInv'
  OBVIOUS
<1>0. Types /\ OwnerOnly /\ LockReturned /\ Descriptors
  BY DEF LisaInv
<1>1. /\ sockets' = [f \in Fds |-> IF f \in {l.fd} \cup ToSet(l.client_fds) THEN "closed"
                                                                         ELSE sockets[f]]
      /\ l' = [l EXCEPT !.state = UNINITIALIZED] /\ opened' = FALSE
      /\ opened /\ Alone /\ l.state >= CONNECTED
      /\ UNCHANGED <<lock, pc, fds, late, mishaps>>
  BY DEF lisa_close
<1>2. l.state \in Int /\ ~Fresh
  BY <1>0, <1>1 DEF Types, Lisas, Fresh, CONNECTED, UNINITIALIZED
<1>3. /\ l' \in Lisas /\ l'.state = UNINITIALIZED /\ l'.fd = l.fd
      /\ l'.client_fds = l.client_fds
  BY <1>0, <1>1 DEF Types, Lisas, UNINITIALIZED
<1>4. Types'
  <2>1. \A f \in Fds : sockets[f] \in Kinds
    BY <1>0 DEF Types
  <2>2. sockets' \in [Fds -> Kinds]
    BY <1>1, <2>1 DEF Kinds
  <2> QED
    BY <1>0, <1>1, <1>3, <2>2 DEF Types
<1>5. Alone' /\ Fresh' /\ ~Usable' /\ Clients' = Clients
  BY <1>1, <1>3 DEF Alone, Fresh, Usable, Clients, UNINITIALIZED, CREATED
<1>6. ASSUME "not_last" \notin mishaps' PROVE \A f \in Fds : ~IsOpen(f)'
  <2>1. \A f \in Fds : IsOpen(f) => f = l.fd \/ f \in ToSet(l.client_fds)
    BY <1>0, <1>1, <1>2, <1>6 DEF Descriptors, Kept, Clients
  <2> QED
    BY <1>1, <2>1 DEF IsOpen
<1>7. Kept'
  <2>1. ASSUME "not_last" \notin mishaps'
        PROVE  \A j, k \in DOMAIN l'.client_fds :
                 l'.client_fds[j] = l'.client_fds[k] => j = k \/ l'.client_fds[j] = -1
    BY <1>0, <1>1, <1>3, <2>1 DEF Descriptors, Kept
  <2> QED
    BY <1>5, <1>6, <2>1 DEF Kept
<1>8. Descriptors'
  BY <1>1, <1>5, <1>7 DEF Descriptors, UnusedWhenFresh, SocketInUse
<1>9. Waiters'
  BY <1>5 DEF Waiters, WaitsOf, Alone
<1>10. OwnerOnly' /\ LockReturned'
  BY <1>0, <1>1 DEF OwnerOnly, LockReturned
<1> QED
  BY <1>4, <1>8, <1>9, <1>10 DEF LisaInv

\* The list of the clients' descriptors.
LEMMA ListIs ==
  ASSUME Types
  PROVE  /\ Len(l.client_fds) \in Nat /\ DOMAIN l.client_fds = 1..Len(l.client_fds)
         /\ l.client_fds \in Lists /\ Clients \subseteq Fds
         /\ \A j \in 1..Len(l.client_fds) : l.client_fds[j] \in Fds \cup {-1}
<1>1. l.client_fds \in Seq(Fds \cup {-1})
  BY DEF Types, Lisas, Lists
<1>2. /\ Len(l.client_fds) \in Nat /\ DOMAIN l.client_fds = 1..Len(l.client_fds)
      /\ \A j \in 1..Len(l.client_fds) : l.client_fds[j] \in Fds \cup {-1}
  BY <1>1, LenProperties, ElementOfSeq
<1> QED
  BY <1>1, <1>2 DEF Lists, Clients, ToSet

\* The entries of a list without the last of them are those before it.
LEMMA ShiftedIs ==
  ASSUME Types, NEW k \in 1..Len(l.client_fds)
  PROVE  LET seq == l.client_fds
             new == Shifted(seq, k)
         IN  /\ new \in Lists /\ DOMAIN new = 1..(Len(seq) - 1)
             /\ \A j \in DOMAIN new : new[j] = IF j <= k THEN seq[j] ELSE seq[j + 1]
             /\ ToSet(new) \subseteq ToSet(seq)
<1> DEFINE seq == l.client_fds
           new == Shifted(seq, k)
<1>1. /\ Len(seq) \in Nat /\ DOMAIN seq = 1..Len(seq)
      /\ \A j \in 1..Len(seq) : seq[j] \in Fds \cup {-1}
  BY ListIs
<1> HIDE DEF seq
<1>2. /\ DOMAIN new = 1..(Len(seq) - 1)
      /\ \A j \in 1..(Len(seq) - 1) : new[j] = IF j <= k THEN seq[j] ELSE seq[j + 1]
  BY DEF Shifted
<1>3. \A j \in 1..(Len(seq) - 1) : new[j] \in Fds \cup {-1} /\ \E i_ \in DOMAIN seq : new[j] = seq[i_]
  <2> TAKE j \in 1..(Len(seq) - 1)
  <2>1. j \in 1..Len(seq) /\ j + 1 \in 1..Len(seq)
    BY <1>1
  <2>2. new[j] = seq[j] \/ new[j] = seq[j + 1]
    BY <1>2
  <2> QED
    BY <1>1, <2>1, <2>2
<1>4. Len(seq) - 1 \in Nat
  BY <1>1 DEF seq
<1>5. new = [j \in 1..(Len(seq) - 1) |-> new[j]]
  BY DEF Shifted
<1>6. new \in Lists
  BY <1>3, <1>4, <1>5, IsASeq DEF Lists
<1>7. ToSet(new) \subseteq ToSet(seq)
  BY <1>2, <1>3 DEF ToSet
<1> QED
  BY <1>2, <1>6, <1>7 DEF seq

\* lisa_close_client closes the client's descriptor and shifts the others. Unless
\* it was the last entry, this leaves one twice, which mishaps notes.
LEMMA CloseClientKeeps == LisaInv /\ lisa_close_client => LisaInv'
<1> SUFFICES ASSUME LisaInv, lisa_close_client PROVE LisaInv'
  OBVIOUS
<1>0. Types /\ OwnerOnly /\ LockReturned /\ Descriptors
  BY DEF LisaInv
<1> DEFINE seq == l.client_fds
           T == {j \in DOMAIN seq : seq[j] = l.client_fd}
<1>1. PICK k : k = Min(T)
  OBVIOUS
<1>2. /\ opened /\ Alone /\ l.state >= 0
      /\ l.client_fd \in ToSet(seq) /\ IsOpen(l.client_fd)
      /\ sockets' = [sockets EXCEPT ![l.client_fd] = "closed"]
      /\ l' = [l EXCEPT !.client_fds = Shifted(@, k), !.client_state = UNINITIALIZED,
                        !.state = LISTENING]
      /\ mishaps' = mishaps \cup IF k < Len(seq) THEN {"not_last"} ELSE {}
      /\ UNCHANGED <<lock, pc, fds, opened, late>>
  BY <1>1 DEF lisa_close_client
<1> HIDE DEF seq, T
<1>3. /\ Len(seq) \in Nat /\ DOMAIN seq = 1..Len(seq) /\ Clients \subseteq Fds
  BY <1>0, ListIs DEF seq
<1>4. k \in DOMAIN seq /\ seq[k] = l.client_fd
  <2>1. T # {} /\ T \subseteq Nat
    BY <1>2, <1>3 DEF T, ToSet
  <2>2. k \in T
    BY <1>1, <2>1, LeastIn
  <2> QED
    BY <2>2 DEF T
<1>5. ~Fresh /\ l.state \in Int
  <2>1. seq # <<>>
    BY <1>3, <1>4, EmptySeq
  <2>2. l.state \in Int
    BY <1>0 DEF Types, Lisas
  <2> QED
    BY <2>1, <2>2, <1>0, <1>2 DEF seq, Descriptors, UnusedWhenFresh
<1>6. Usable /\ l.client_fd \in Fds /\ l.client_fd \in Clients
  <2>1. -1 \notin Fds
    BY FdsAre
  <2>2. Usable
    BY <1>0, <1>2, <1>5, FreshIs DEF Usable, CREATED
  <2> QED
    BY <2>1, <2>2, <1>2 DEF IsOpen, Clients, seq
<1>7. IsOpen(l.fd) /\ l.fd \notin Clients /\ l.fd # l.client_fd
  BY <1>0, <1>6 DEF Descriptors, SocketInUse
<1> DEFINE new == Shifted(seq, k)
<1>8. /\ new \in Lists /\ DOMAIN new = 1..(Len(seq) - 1)
      /\ \A j \in DOMAIN new : new[j] = IF j <= k THEN seq[j] ELSE seq[j + 1]
      /\ ToSet(new) \subseteq ToSet(seq)
  BY <1>0, <1>3, <1>4, ShiftedIs DEF seq
<1> HIDE DEF new
<1>9. /\ l' \in Lisas /\ l'.state = LISTENING /\ l'.fd = l.fd /\ l'.client_fds = new
  <2>1. l' = [l EXCEPT !.client_fds = new, !.client_state = UNINITIALIZED, !.state = LISTENING]
    BY <1>2 DEF new, seq
  <2>2. LISTENING \in Int /\ UNINITIALIZED \in Int
    BY DEF LISTENING, UNINITIALIZED
  <2> QED
    BY <1>0, <1>8, <2>1, <2>2 DEF Types, Lisas
<1>10. Types'
  <2>1. sockets' \in [Fds -> Kinds]
    BY <1>0, <1>2 DEF Types, Kinds
  <2>2. mishaps' \in SUBSET {"address", "not_last", "no_client"}
    BY <1>0, <1>2 DEF Types
  <2> QED
    BY <1>0, <1>2, <1>9, <2>1, <2>2 DEF Types
<1>11. ~Fresh' /\ Alone' /\ Decided(Now)' /\ Clients' \subseteq Clients
  <2>1. Clients' \subseteq Clients
    BY <1>8, <1>9 DEF Clients, seq
  <2>2. l'.state = 4 /\ pc' = pc /\ Alone
    BY <1>2, <1>9 DEF LISTENING
  <2>3. ~Fresh' /\ Decided(Now)'
    BY <2>2 DEF Fresh, Decided, Now, UNINITIALIZED, CREATED
  <2>4. Alone'
    BY <2>2 DEF Alone
  <2> QED
    BY <2>1, <2>3, <2>4
<1>12. \A f \in Fds : IsOpen(f)' <=> IsOpen(f) /\ f # l.client_fd
  BY <1>0, <1>2 DEF IsOpen, Types
<1>13. UnusedWhenFresh'
  BY <1>2, <1>11 DEF UnusedWhenFresh
<1>14. SocketInUse'
  BY <1>7, <1>9, <1>11, <1>12 DEF SocketInUse, IsOpen
<1>15. Kept'
  <2> SUFFICES ASSUME "not_last" \notin mishaps' PROVE Kept'
    BY DEF Kept
  <2>1. "not_last" \notin mishaps /\ k = Len(seq)
    BY <1>2, <1>3, <1>4
  <2>2. /\ \A f \in Fds : IsOpen(f) => f = l.fd \/ f \in Clients
        /\ \A f \in Clients : IsOpen(f)
        /\ \A j, n \in DOMAIN seq : seq[j] = seq[n] => j = n \/ seq[j] = -1
    BY <1>0, <1>5, <1>6, <2>1 DEF Descriptors, Kept, seq
  <2>3. \A j \in DOMAIN new : j \in DOMAIN seq /\ new[j] = seq[j] /\ j # k
    BY <1>3, <1>8, <2>1
  <2>4. \A j, n \in DOMAIN new : new[j] = new[n] => j = n \/ new[j] = -1
    BY <2>2, <2>3
  <2>5. \A f \in Clients : f # l.client_fd => f \in Clients'
    <3> TAKE f \in Clients
    <3>1. PICK j \in DOMAIN seq : seq[j] = f
      BY DEF Clients, ToSet, seq
    <3>2. f # l.client_fd => j \in DOMAIN new
      BY <1>3, <1>4, <1>8, <2>1, <3>1
    <3> QED
      BY <1>9, <2>3, <3>1, <3>2 DEF Clients, ToSet
  <2>6. l.client_fd \notin Clients'
    <3> SUFFICES ASSUME l.client_fd \in Clients' PROVE FALSE
      OBVIOUS
    <3>1. PICK j \in DOMAIN new : new[j] = l.client_fd /\ l.client_fd # -1
      BY <1>9 DEF Clients, ToSet
    <3> QED
      BY <1>4, <2>2, <2>3, <3>1
  <2>7. \A f \in Clients' : IsOpen(f)'
    BY <1>3, <1>11, <1>12, <2>2, <2>6
  <2>8. \A f \in Fds : IsOpen(f)' => f = l'.fd \/ f \in Clients'
    BY <1>9, <1>12, <2>2, <2>5
  <2> QED
    BY <1>9, <1>11, <2>4, <2>7, <2>8 DEF Kept
<1>16. Descriptors'
  BY <1>13, <1>14, <1>15 DEF Descriptors
<1>17. Waiters'
  BY <1>11 DEF Waiters, WaitsOf, Alone
<1>18. OwnerOnly' /\ LockReturned'
  BY <1>0, <1>2 DEF OwnerOnly, LockReturned
<1> QED
  BY <1>10, <1>16, <1>17, <1>18 DEF LisaInv

\* The list of the clients' descriptors with one more.
LEMMA AppendIs ==
  ASSUME Types, NEW f \in Fds \cup {-1}
  PROVE  LET seq == l.client_fds
             new == Append(seq, f)
         IN  /\ new \in Lists /\ DOMAIN new = 1..(Len(seq) + 1)
             /\ new[Len(seq) + 1] = f /\ \A j \in 1..Len(seq) : new[j] = seq[j]
             /\ ToSet(new) = ToSet(seq) \cup {f}
<1> DEFINE seq == l.client_fds
           new == Append(seq, f)
<1>1. seq \in Seq(Fds \cup {-1}) /\ Len(seq) \in Nat /\ DOMAIN seq = 1..Len(seq)
  BY ListIs DEF Lists
<1> HIDE DEF seq
<1>2. /\ new \in Seq(Fds \cup {-1}) /\ Len(new) = Len(seq) + 1
      /\ \A j \in 1..Len(seq) : new[j] = seq[j]
      /\ new[Len(seq) + 1] = f
  BY <1>1, AppendProperties
<1> HIDE DEF new
<1>3. DOMAIN new = 1..(Len(seq) + 1)
  BY <1>2, LenProperties
<1>4. ToSet(new) = ToSet(seq) \cup {f}
  <2>1. \A j \in DOMAIN seq : j \in DOMAIN new /\ new[j] = seq[j]
    BY <1>1, <1>2, <1>3
  <2>2. Len(seq) + 1 \in DOMAIN new /\ new[Len(seq) + 1] = f
    BY <1>1, <1>2, <1>3
  <2>3. \A j \in DOMAIN new : j \in DOMAIN seq \/ j = Len(seq) + 1
    BY <1>1, <1>3
  <2>4. ToSet(seq) \cup {f} \subseteq ToSet(new)
    BY <2>1, <2>2 DEF ToSet
  <2>5. ToSet(new) \subseteq ToSet(seq) \cup {f}
    BY <2>1, <2>2, <2>3 DEF ToSet
  <2> QED
    BY <2>4, <2>5
<1> QED
  BY <1>2, <1>3, <1>4 DEF seq, new, Lists

\* Another client, or what accept returned instead of one.
LEMMA ClientAdded ==
  ASSUME LisaInv, pc[Owner] = "accepting", Returns(Owner),
         NEW f \in Fds \cup {-1}, l' \in Lisas, l'.state = ACCEPTED, l'.fd = l.fd,
         l'.client_fds = Append(l.client_fds, f), sockets' \in [Fds -> Kinds],
         \A g \in Fds : sockets'[g] # "closed" <=> IsOpen(g) \/ g = f,
         ~IsOpen(f),
         UNCHANGED <<lock, opened, late>>, mishaps' \in SUBSET {"address", "not_last", "no_client"},
         "not_last" \in mishaps' <=> "not_last" \in mishaps, mishaps \subseteq mishaps'
  PROVE  LisaInv'
<1>0. Types /\ OwnerOnly /\ LockReturned /\ Descriptors /\ Waiters /\ Owner \in Threads
  BY LisaAssumption DEF LisaInv
<1>1. ~Alone /\ ~Fresh /\ opened /\ Usable
  BY <1>0 DEF Alone, Descriptors, UnusedWhenFresh, Usable
<1> DEFINE seq == l.client_fds
           new == Append(seq, f)
<1>2. /\ new \in Lists /\ DOMAIN new = 1..(Len(seq) + 1)
      /\ new[Len(seq) + 1] = f /\ \A j \in 1..Len(seq) : new[j] = seq[j]
      /\ ToSet(new) = ToSet(seq) \cup {f}
  BY <1>0, AppendIs
<1>3. Len(seq) \in Nat /\ DOMAIN seq = 1..Len(seq) /\ Clients \subseteq Fds
  BY <1>0, ListIs
<1>4. l'.client_fds = new
  OBVIOUS
<1> HIDE DEF new, seq
<1>5. Clients' = Clients \cup ({f} \ {-1})
  BY <1>2, <1>4 DEF Clients, seq
<1>6. ~Fresh' /\ Decided(Now)'
  BY DEF Fresh, Decided, Now, ACCEPTED, UNINITIALIZED, CREATED
<1>7. IsOpen(l.fd) /\ l.fd \notin Clients
  BY <1>0, <1>1 DEF Descriptors, SocketInUse
<1>8. UnusedWhenFresh'
  BY <1>1, <1>6 DEF UnusedWhenFresh
<1>9. SocketInUse'
  <2>1. l.fd # f /\ l.fd \in Fds
    BY <1>7 DEF IsOpen
  <2> QED
    BY <1>5, <1>7, <2>1 DEF SocketInUse, IsOpen
<1>10. Kept'
  <2> SUFFICES ASSUME "not_last" \notin mishaps' PROVE Kept'
    BY DEF Kept
  <2>1. /\ \A g \in Fds : IsOpen(g) => g = l.fd \/ g \in Clients
        /\ \A g \in Clients : IsOpen(g)
        /\ \A j, n \in DOMAIN seq : seq[j] = seq[n] => j = n \/ seq[j] = -1
    BY <1>0, <1>1 DEF Descriptors, Kept, seq
  <2>2. \A g \in Fds : IsOpen(g)' => g = l'.fd \/ g \in Clients'
    BY <1>5, <2>1, FdsAre DEF IsOpen
  <2>3. \A g \in Clients' : IsOpen(g)'
    BY <1>3, <1>5, <2>1 DEF IsOpen
  <2>4. \A j \in 1..Len(seq) : seq[j] = f => f = -1
    <3> SUFFICES ASSUME NEW j \in 1..Len(seq), seq[j] = f, f # -1 PROVE FALSE
      OBVIOUS
    <3>1. f \in Clients
      BY <1>3 DEF Clients, ToSet, seq
    <3> QED
      BY <2>1, <3>1
  <2>5. \A j, n \in DOMAIN new : new[j] = new[n] => j = n \/ new[j] = -1
    <3> TAKE j, n \in DOMAIN new
    <3>1. CASE j \in 1..Len(seq) /\ n \in 1..Len(seq)
      BY <1>2, <1>3, <2>1, <3>1
    <3>2. CASE j = Len(seq) + 1 /\ n = Len(seq) + 1
      BY <3>2
    <3>3. CASE j \in 1..Len(seq) /\ n = Len(seq) + 1
      BY <1>2, <2>4, <3>3
    <3>4. CASE j = Len(seq) + 1 /\ n \in 1..Len(seq)
      BY <1>2, <2>4, <3>4
    <3> QED
      BY <1>2, <1>3, <3>1, <3>2, <3>3, <3>4
  <2> QED
    BY <1>4, <1>6, <2>2, <2>3, <2>5 DEF Kept
<1>11. /\ pc' \in [Threads -> Calls] /\ fds' \in [Threads -> SUBSET Handles]
       /\ \A s \in Threads \ {Owner} : pc'[s] = pc[s] /\ fds'[s] = fds[s]
       /\ pc'[Owner] = "idle"
  BY <1>0 DEF Types, Returns, Waits, Calls
<1>12. Types'
  BY <1>0, <1>11 DEF Types
<1>13. Waiters'
  <2>1. ASSUME NEW t \in Threads \ {Owner} PROVE WaitsOf(t)'
    <3>1. \A g \in Fds : IsOpen(g) => IsOpen(g)'
      BY DEF IsOpen
    <3>2. ToSet(l.client_fds) \subseteq ToSet(l'.client_fds)
      BY <1>2, <1>4 DEF seq
    <3> QED
      BY <1>0, <1>11, <3>1, <3>2, WaiterKeeps DEF Waiters
  <2>2. WaitsOf(Owner)'
    BY <1>11 DEF WaitsOf
  <2> QED
    BY <2>1, <2>2 DEF Waiters
<1>14. OwnerOnly' /\ LockReturned'
  BY <1>0, <1>11 DEF OwnerOnly, LockReturned
<1> QED
  BY <1>8, <1>9, <1>10, <1>12, <1>13, <1>14 DEF LisaInv, Descriptors

\* accept gives a new descriptor.
LEMMA AcceptKeeps == LisaInv /\ Accept => LisaInv'
<1> SUFFICES ASSUME LisaInv, Accept PROVE LisaInv'
  OBVIOUS
<1>0. Types
  BY DEF LisaInv
<1> DEFINE free == {f \in Fds : ~IsOpen(f)}
<1>1. /\ pc[Owner] = "accepting" /\ free # {} /\ Returns(Owner)
      /\ sockets' = [sockets EXCEPT ![Min(free)] = "tcp"]
      /\ l' = [l EXCEPT !.state = ACCEPTED, !.client_state = CONNECTED, !.client_fd = Min(free),
                        !.client_fds = Append(l.client_fds, Min(free))]
      /\ UNCHANGED <<lock, opened, late, mishaps>>
  BY DEF Accept
<1>2. PICK f : f = Min(free) /\ f \in free
  BY <1>1, LowestFree
<1>3. /\ sockets' = [sockets EXCEPT ![f] = "tcp"]
      /\ l' = [l EXCEPT !.state = ACCEPTED, !.client_state = CONNECTED, !.client_fd = f,
                        !.client_fds = Append(l.client_fds, f)]
  BY <1>1, <1>2
<1>4. f \in Fds /\ ~IsOpen(f)
  BY <1>2
<1>5. sockets' \in [Fds -> Kinds] /\ \A g \in Fds : sockets'[g] # "closed" <=> IsOpen(g) \/ g = f
  BY <1>0, <1>3, <1>4 DEF Types, Kinds, IsOpen
<1>6. /\ l' \in Lisas /\ l'.state = ACCEPTED /\ l'.fd = l.fd
      /\ l'.client_fds = Append(l.client_fds, f)
  <2>1. Append(l.client_fds, f) \in Lists
    BY <1>0, <1>4, AppendIs
  <2>2. f \in Handles /\ ACCEPTED \in Int /\ CONNECTED \in Int
    BY <1>4 DEF Handles, ACCEPTED, CONNECTED
  <2> QED
    BY <1>0, <1>3, <2>1, <2>2 DEF Types, Lisas
<1>7. mishaps' \in SUBSET {"address", "not_last", "no_client"} /\ mishaps' = mishaps
  BY <1>0, <1>1 DEF Types
<1> QED
  BY <1>1, <1>4, <1>5, <1>6, <1>7, ClientAdded

\* accept fails, and -1 becomes an entry of the list.
LEMMA AcceptFailsKeeps == LisaInv /\ AcceptFails => LisaInv'
<1> SUFFICES ASSUME LisaInv, AcceptFails PROVE LisaInv'
  OBVIOUS
<1>0. Types /\ Owner \in Threads
  BY LisaAssumption DEF LisaInv
<1>1. /\ pc[Owner] = "accepting" /\ Returns(Owner)
      /\ UNCHANGED <<sockets, lock, opened, late>>
  BY DEF AcceptFails
<1>2. ACCEPTED \in Int /\ CONNECTED \in Int /\ -1 \in Handles /\ ACCEPTED >= CREATED
  BY DEF ACCEPTED, CONNECTED, CREATED, Handles
<1>3. CASE l.vsock
  <2>1. l' = [l EXCEPT !.state = ACCEPTED] /\ mishaps' = mishaps
    BY <1>3 DEF AcceptFails
  <2>2. /\ l' \in Lisas /\ l'.state = ACCEPTED /\ l'.fd = l.fd /\ l'.client_fds = l.client_fds
    BY <1>0, <1>2, <2>1 DEF Types, Lisas
  <2> QED
    BY <1>0, <1>1, <1>2, <2>1, <2>2, ReturnKeeps
<1>4. CASE ~l.vsock
  <2>1. /\ l' = [l EXCEPT !.state = ACCEPTED, !.client_state = CONNECTED, !.client_fd = -1,
                          !.client_fds = Append(l.client_fds, -1)]
        /\ mishaps' = mishaps \cup {"no_client"}
    BY <1>4 DEF AcceptFails
  <2>2. /\ l' \in Lisas /\ l'.state = ACCEPTED /\ l'.fd = l.fd
        /\ l'.client_fds = Append(l.client_fds, -1)
    <3>1. Append(l.client_fds, -1) \in Lists
      BY <1>0, AppendIs
    <3> QED
      BY <1>0, <1>2, <2>1, <3>1 DEF Types, Lisas
  <2>3. -1 \notin Fds
    BY FdsAre
  <2>4. /\ sockets' \in [Fds -> Kinds] /\ ~IsOpen(-1)
        /\ \A g \in Fds : sockets'[g] # "closed" <=> IsOpen(g) \/ g = -1
    BY <1>0, <1>1, <2>3 DEF Types, IsOpen
  <2>5. /\ mishaps' \in SUBSET {"address", "not_last", "no_client"} /\ mishaps \subseteq mishaps'
        /\ "not_last" \in mishaps' <=> "not_last" \in mishaps
    BY <1>0, <2>1 DEF Types
  <2> QED
    BY <1>1, <2>2, <2>4, <2>5, ClientAdded
<1> QED
  BY <1>3, <1>4

\* What every outcome has in common.
LEMMA OutcomeIs ==
  ASSUME NEW w, Outcome(w), Becomes(w)
  PROVE  /\ l' = w.l /\ l'.state = w.l.state /\ l'.state \in Int /\ l' \in Lisas
         /\ l'.state >= 0 => l'.state >= CREATED
         /\ ~Fresh => sockets' = sockets /\ l'.fd = l.fd /\ l'.client_fds = l.client_fds
<1>1. w \in Worlds /\ Decided(w)
  BY DEF Outcome, NewSocket, SameSockets
<1> QED
  BY <1>1 DEF Outcome, SameSockets, Worlds, Lisas, Becomes, Decided, Now, ERROR

\* A call of a thread that did not wait, which waits now or returns.
LEMMA WaitBegins ==
  ASSUME LisaInv, opened, NEW w, Outcome(w), Becomes(w),
         NEW t \in Threads, NEW call \in Calls, NEW set \in SUBSET Handles, Waits(t, call, set),
         call \in {"idle", "sending", "receiving"} \/ t = Owner,
         WaitsOf(t)', call # "idle" => w.l.state >= 0,
         l.state < 0 => w.l.state < 0,
         late' \in BOOLEAN, t # Owner => late' = late,
         UNCHANGED opened, mishaps' \in SUBSET {"address", "not_last", "no_client"},
         "not_last" \in mishaps' <=> "not_last" \in mishaps, LockReturned'
  PROVE  LisaInv'
<1>0. Types /\ Descriptors
  BY DEF LisaInv
<1>1. /\ pc' \in [Threads -> Calls] /\ fds' \in [Threads -> SUBSET Handles]
      /\ \A s \in Threads \ {t} : pc'[s] = pc[s] /\ fds'[s] = fds[s]
      /\ pc'[t] = call
  BY <1>0 DEF Types, Waits
<1>2. pc'[t] # "idle" => l'.state >= CREATED
  BY <1>1, OutcomeIs
<1>3. ~Fresh /\ l'.state >= CREATED => Usable
  BY <1>0, FreshIs, OutcomeIs DEF Usable, CREATED
<1> QED
  BY <1>1, <1>2, <1>3, CallKeeps

\* lisa_setup_tcp or lisa_setup_udp, called by itself.
LEMMA SetUpKeeps == LisaInv /\ SetUp => LisaInv'
<1> SUFFICES ASSUME LisaInv, SetUp PROVE LisaInv'
  OBVIOUS
<1>0. Types /\ Descriptors
  BY DEF LisaInv
<1>1. /\ opened /\ Alone /\ Fresh /\ UNCHANGED <<lock, pc, fds, opened, late, mishaps>>
  BY DEF SetUp, Fresh
<1>2. PICK w \in lisa_setup_tcp(Now) \cup lisa_setup_udp(Now) : Becomes(w)
  BY DEF SetUp
<1>3. Now \in Worlds /\ Now.s = sockets /\ Now.l = l
  BY <1>0, NowIs DEF Now
<1>4. Outcome(w)
  BY <1>0, <1>1, <1>3, SetUpOutcome
<1> QED
  BY <1>1, <1>2, <1>4, ImmediateKeeps

\* lisa_connect_by_name.
LEMMA NamedKeeps == LisaInv /\ lisa_connect_by_name => LisaInv'
<1> SUFFICES ASSUME LisaInv, lisa_connect_by_name PROVE LisaInv'
  OBVIOUS
<1>0. Types /\ Descriptors /\ LockReturned /\ Owner \in Threads
  BY LisaAssumption DEF LisaInv
<1>1. /\ opened /\ Alone /\ l.state >= 0 /\ UNCHANGED <<lock, fds, opened, late, mishaps>>
  BY DEF lisa_connect_by_name
<1> DEFINE client == [Now EXCEPT !.l.clsvr = "client"]
<1>2. PICK w \in IF l.state < CREATED THEN lisa_setup_tcp(client) ELSE {client} :
        \/ w.l.state >= 0 /\ Becomes(w) /\ pc' = [pc EXCEPT ![Owner] = "named"]
        \/ Becomes(Failed(w)) /\ UNCHANGED pc
  BY DEF lisa_connect_by_name
<1>3. l.state \in Int /\ ~(l.state < 0)
  BY <1>0, <1>1, FreshIs
<1>4. Outcome(w)
  <2>1. w \in IF l.state < 0 THEN {Now}
              ELSE IF l.state < CREATED THEN lisa_setup_tcp(client) ELSE {client}
    BY <1>2, <1>3
  <2> QED
    BY <1>0, <1>1, <2>1, ConnectOutcome
<1>5. CASE w.l.state >= 0 /\ Becomes(w) /\ pc' = [pc EXCEPT ![Owner] = "named"]
  <2>1. "named" \in Calls /\ fds[Owner] \in SUBSET Handles
    BY <1>0 DEF Types, Calls
  <2>2. Waits(Owner, "named", fds[Owner])
    BY <1>0, <1>1, <1>5 DEF Waits, Types
  <2>3. WaitsOf(Owner)'
    <3>1. pc'[Owner] = "named"
      BY <1>0, <1>5 DEF Types
    <3> QED
      BY <3>1 DEF WaitsOf
  <2>4. LockReturned' /\ late' \in BOOLEAN /\ mishaps' \in SUBSET {"address", "not_last", "no_client"}
    BY <1>0, <1>1 DEF LockReturned, Types
  <2> QED
    BY <1>0, <1>1, <1>3, <1>4, <1>5, <2>1, <2>2, <2>3, <2>4, WaitBegins
<1>6. CASE Becomes(Failed(w)) /\ UNCHANGED pc
  <2>1. Outcome(Failed(w)) /\ Failed(w).l.state < 0
    BY <1>4, FailedOutcome DEF ERROR
  <2> QED
    BY <1>1, <1>6, <2>1, ImmediateKeeps
<1> QED
  BY <1>2, <1>5, <1>6

\* lisa_connect up to its select.
LEMMA ConnectKeeps == LisaInv /\ ConnectPreSelect => LisaInv'
<1> SUFFICES ASSUME LisaInv, ConnectPreSelect PROVE LisaInv'
  OBVIOUS
<1>0. Types /\ Descriptors /\ LockReturned /\ Owner \in Threads
  BY LisaAssumption DEF LisaInv
<1>1. opened /\ lock = NULL /\ late' = (l.state \in 0..(CREATED - 1)) /\ UNCHANGED opened
  BY DEF ConnectPreSelect
<1> DEFINE client == [Now EXCEPT !.l.clsvr = "client"]
<1>2. PICK w \in IF l.state < 0 THEN {Now}
                 ELSE IF l.state < CREATED THEN lisa_setup_tcp(client) ELSE {client} :
        \/ w.l.state < 0 /\ Becomes(w) /\ Returns(Owner) /\ UNCHANGED <<lock, mishaps>>
        \/ /\ w.l.state >= 0 /\ Becomes(Failed(w)) /\ Returns(Owner)
           /\ lock' = Owner /\ mishaps' = mishaps \cup {"address"}
        \/ w.l.state >= 0 /\ Becomes(Failed(w)) /\ Returns(Owner) /\ UNCHANGED <<lock, mishaps>>
        \/ w.l.state >= 0 /\ Becomes(w) /\ Waits(Owner, "connecting", {l.fd})
           /\ UNCHANGED <<lock, mishaps>>
  BY DEF ConnectPreSelect
<1>3. Outcome(w) /\ (l.state < 0 => w = Now)
  BY <1>0, <1>1, <1>2, ConnectOutcome
<1>4. l.state < 0 => w.l.state < 0
  BY <1>3 DEF Now
<1>5. /\ "idle" \in Calls /\ "connecting" \in Calls /\ {} \in SUBSET Handles
      /\ {l.fd} \in SUBSET Handles /\ late' \in BOOLEAN /\ l.state \in Int
  BY <1>0, <1>1 DEF Calls, Types, Lisas
<1>6. mishaps' \in SUBSET {"address", "not_last", "no_client"} /\ LockReturned'
      /\ ("not_last" \in mishaps' <=> "not_last" \in mishaps)
  BY <1>0, <1>2 DEF Types, LockReturned
<1>7. ASSUME Returns(Owner) PROVE WaitsOf(Owner)' /\ Waits(Owner, "idle", {})
  BY <1>0, <1>7 DEF Types, Returns, Waits, WaitsOf
<1>8. CASE w.l.state < 0 /\ Becomes(w) /\ Returns(Owner)
  BY <1>0, <1>1, <1>3, <1>4, <1>5, <1>6, <1>7, <1>8, WaitBegins
<1>9. CASE Becomes(Failed(w)) /\ Returns(Owner)
  <2>1. Outcome(Failed(w)) /\ Failed(w).l.state < 0
    BY <1>3, FailedOutcome DEF ERROR
  <2> QED
    BY <1>0, <1>1, <1>5, <1>6, <1>7, <1>9, <2>1, WaitBegins
<1>10. CASE w.l.state >= 0 /\ Becomes(w) /\ Waits(Owner, "connecting", {l.fd})
  <2>1. pc'[Owner] = "connecting" /\ fds'[Owner] = {l.fd}
    BY <1>0, <1>10 DEF Types, Waits
  <2>2. ASSUME ~late' PROVE l'.fd = l.fd /\ IsOpen(l.fd) /\ sockets' = sockets
    <3>1. ~Fresh /\ ~(l.state < 0)
      <4>1. l.state \notin 0..(CREATED - 1)
        BY <1>1, <2>2, Zenon
      <4>2. ~Fresh
        BY <1>0, <1>1, <4>1, FreshIs
      <4>3. w.l.state \in Int
        BY <1>3, <1>10, OutcomeIs
      <4>4. ~(l.state < 0)
        BY <1>4, <1>10, <4>3
      <4> QED
        BY <4>2, <4>4
    <3>2. Usable
      BY <1>0, <1>1, <1>5, <3>1, FreshIs DEF Usable, CREATED
    <3> QED
      BY <1>0, <1>3, <1>10, <3>1, <3>2, OutcomeIs DEF Descriptors, SocketInUse
  <2>3. WaitsOf(Owner)'
    BY <2>1, <2>2 DEF WaitsOf, IsOpen
  <2> QED
    BY <1>0, <1>1, <1>3, <1>4, <1>5, <1>6, <1>10, <2>3, WaitBegins
<1> QED
  BY <1>2, <1>8, <1>9, <1>10

\* lisa_listen.
LEMMA ListenKeeps == LisaInv /\ Listen => LisaInv'
<1> SUFFICES ASSUME LisaInv, Listen PROVE LisaInv'
  OBVIOUS
<1>0. Types /\ Descriptors
  BY DEF LisaInv
<1>1. opened /\ Alone /\ UNCHANGED <<lock, pc, fds, opened, late, mishaps>>
  BY DEF Listen
<1>2. PICK w \in lisa_listen(Now) : Becomes(w)
  BY DEF Listen
<1>3. Outcome(w) /\ (l.state < 0 => w = Now)
  BY <1>0, <1>1, ListenOutcome
<1>4. ~Fresh => l.state >= CREATED \/ w.l.state < 0
  BY <1>0, <1>1, <1>3, FreshIs DEF Now, CREATED
<1> QED
  BY <1>1, <1>2, <1>3, <1>4, ImmediateKeeps

\* lisa_accept up to its select.
LEMMA AcceptPreKeeps == LisaInv /\ AcceptPreSelect => LisaInv'
<1> SUFFICES ASSUME LisaInv, AcceptPreSelect PROVE LisaInv'
  OBVIOUS
<1>0. Types /\ Descriptors /\ LockReturned /\ Owner \in Threads
  BY LisaAssumption DEF LisaInv
<1>1. /\ opened /\ late' = (l.state \in 0..(CREATED - 1))
      /\ UNCHANGED <<lock, opened, mishaps>>
  BY DEF AcceptPreSelect
<1> DEFINE after(x) == IF x.l.state < 0 THEN x ELSE [x EXCEPT !.l.state = LISTENING]
<1>2. PICK w \in IF l.state \in 0..(LISTENING - 1)
                 THEN {after(x) : x \in lisa_listen(Now)} ELSE {Now} :
        /\ Becomes(w)
        /\ IF w.l.state < 0 THEN Returns(Owner) ELSE Waits(Owner, "accepting", {l.fd})
  BY DEF AcceptPreSelect
<1>3. l.state \in Int
  BY <1>0 DEF Types, Lisas
<1>4. Outcome(w) /\ (l.state < 0 => w.l.state < 0)
  <2>1. CASE l.state \in 0..(LISTENING - 1)
    <3>1. PICK x \in lisa_listen(Now) : w = after(x)
      BY <1>2, <2>1
    <3>2. Outcome(x)
      BY <1>0, <1>1, ListenOutcome
    <3>3. CASE x.l.state < 0
      BY <2>1, <3>1, <3>2, <3>3
    <3>4. CASE ~(x.l.state < 0)
      <4>1. x.l.state \in Int
        BY <3>2 DEF Outcome, NewSocket, SameSockets, Worlds, Lisas
      <4>2. x.l.state >= 0
        BY <3>4, <4>1
      <4>3. w = [x EXCEPT !.l.state = LISTENING]
        BY <3>1, <3>4
      <4>4. Outcome(w)
        BY <3>2, <4>2, <4>3, StateOutcome
      <4> QED
        BY <2>1, <4>4 DEF LISTENING
    <3> QED
      BY <3>3, <3>4
  <2>2. CASE l.state \notin 0..(LISTENING - 1)
    <3>1. w = Now /\ ~Fresh
      BY <1>2, <2>2 DEF Fresh, LISTENING, UNINITIALIZED
    <3> QED
      BY <1>0, <3>1, NowOutcome DEF Now
  <2> QED
    BY <2>1, <2>2
<1> HIDE DEF after
<1>5. /\ "idle" \in Calls /\ "accepting" \in Calls /\ {} \in SUBSET Handles
      /\ {l.fd} \in SUBSET Handles /\ late' \in BOOLEAN
  BY <1>0, <1>1 DEF Calls, Types, Lisas
<1>6. mishaps' \in SUBSET {"address", "not_last", "no_client"} /\ LockReturned'
  BY <1>0, <1>1 DEF Types, LockReturned
<1>7. ASSUME Returns(Owner) PROVE WaitsOf(Owner)' /\ Waits(Owner, "idle", {})
  BY <1>0, <1>7 DEF Types, Returns, Waits, WaitsOf
<1>8. CASE w.l.state < 0
  BY <1>0, <1>1, <1>2, <1>4, <1>5, <1>6, <1>7, <1>8, WaitBegins
<1>9. CASE ~(w.l.state < 0)
  <2>0. w.l.state \in Int
    BY <1>2, <1>4, OutcomeIs
  <2>1. w.l.state >= 0 /\ l.state >= 0 /\ Waits(Owner, "accepting", {l.fd})
    BY <1>2, <1>3, <1>4, <1>9, <2>0
  <2>2. pc'[Owner] = "accepting" /\ fds'[Owner] = {l.fd}
    BY <1>0, <2>1 DEF Types, Waits
  <2>3. ASSUME ~late' PROVE l'.fd = l.fd /\ IsOpen(l.fd) /\ sockets' = sockets
    <3>1. l.state \notin 0..(CREATED - 1)
      BY <1>1, <2>3, Zenon
    <3>2. ~Fresh
      BY <1>0, <1>1, <3>1, FreshIs
    <3>3. Usable
      BY <1>0, <1>1, <1>3, <2>1, <3>2, FreshIs DEF Usable, CREATED
    <3> QED
      BY <1>0, <1>2, <1>4, <3>2, <3>3, OutcomeIs DEF Descriptors, SocketInUse
  <2>4. WaitsOf(Owner)'
    BY <2>2, <2>3 DEF WaitsOf, IsOpen
  <2> QED
    BY <1>0, <1>1, <1>2, <1>4, <1>5, <1>6, <2>1, <2>4, WaitBegins
<1> QED
  BY <1>8, <1>9

\* lisa_send_from.
LEMMA SendFromKeeps == LisaInv /\ lisa_send_from => LisaInv'
<1> SUFFICES ASSUME LisaInv, lisa_send_from PROVE LisaInv'
  OBVIOUS
<1>0. Types /\ Descriptors
  BY DEF LisaInv
<1>1. /\ opened /\ Alone /\ l.state \in 0..(CONNECTED - 1)
      /\ UNCHANGED <<lock, pc, fds, opened, late, mishaps>>
  BY DEF lisa_send_from
<1>2. PICK w \in IF l.state < CREATED THEN {Failed(Now)} ELSE Bind(Now) : Becomes(w)
  BY DEF lisa_send_from
<1>3. CASE l.state < CREATED
  <2>1. w = Failed(Now)
    BY <1>2, <1>3
  <2>2. Outcome(w) /\ w.l.state < 0
    BY <1>0, <1>1, <2>1, FailedNow DEF ERROR
  <2> QED
    BY <1>1, <1>2, <2>2, ImmediateKeeps
<1>4. CASE ~(l.state < CREATED)
  <2>1. ~Fresh /\ l.state >= CREATED
    BY <1>0, <1>1, <1>4, FreshIs DEF CREATED
  <2>2. Outcome(w)
    BY <1>0, <1>2, <1>4, <2>1, BindOutcome
  <2> QED
    BY <1>1, <1>2, <2>1, <2>2, ImmediateKeeps
<1> QED
  BY <1>3, <1>4

\* lisa_send_to.
LEMMA SendToKeeps == LisaInv /\ lisa_send_to => LisaInv'
<1> SUFFICES ASSUME LisaInv, lisa_send_to PROVE LisaInv'
  OBVIOUS
<1>0. Types /\ Descriptors
  BY DEF LisaInv
<1>1. /\ opened /\ pc[Owner] = "idle"
      /\ l.state \in 0..(CREATED - 1) \/ l.state >= 0
      /\ UNCHANGED <<lock, pc, fds, opened, late, mishaps>>
  BY DEF lisa_send_to
<1>2. PICK w \in IF l.state < CREATED THEN lisa_setup_udp(Now) ELSE {Now} :
        \/ Becomes(Failed(w))
        \/ w.l.state >= 0 /\ Becomes([w EXCEPT !.l.state = CONNECTED])
  BY DEF lisa_send_to
<1>3. l.state \in Int /\ l.state >= 0
  BY <1>0, <1>1 DEF Types, Lisas, CREATED
<1>4. Outcome(w)
  <2>1. CASE l.state < CREATED
    <3>1. Fresh /\ w \in lisa_setup_udp(Now)
      BY <1>0, <1>1, <1>2, <1>3, <2>1, FreshIs
    <3>2. Now \in Worlds /\ Now.s = sockets /\ Now.l = l
      BY <1>0, NowIs DEF Now
    <3> QED
      BY <1>0, <1>1, <3>1, <3>2, SetUpOutcome
  <2>2. CASE ~(l.state < CREATED)
    <3>1. ~Fresh /\ w = Now
      BY <1>0, <1>1, <1>2, <2>2, FreshIs
    <3> QED
      BY <1>0, <3>1, NowOutcome
  <2> QED
    BY <2>1, <2>2
<1>5. ~Fresh => l.state >= CREATED
  BY <1>0, <1>1, <1>3, FreshIs DEF CREATED
<1>6. CASE Becomes(Failed(w))
  <2>1. Outcome(Failed(w))
    BY <1>4, FailedOutcome
  <2> QED
    BY <1>1, <1>5, <1>6, <2>1, ImmediateKeeps
<1>7. CASE w.l.state >= 0 /\ Becomes([w EXCEPT !.l.state = CONNECTED])
  <2>1. Outcome([w EXCEPT !.l.state = CONNECTED])
    BY <1>4, <1>7, StateOutcome
  <2> QED
    BY <1>1, <1>5, <1>7, <2>1, ImmediateKeeps
<1> QED
  BY <1>2, <1>6, <1>7

\* lisa_recv_from up to its select.
LEMMA RecvFromKeeps == LisaInv /\ RecvFromPreSelect => LisaInv'
<1> SUFFICES ASSUME LisaInv, RecvFromPreSelect PROVE LisaInv'
  OBVIOUS
<1>0. Types /\ Descriptors /\ LockReturned /\ Owner \in Threads
  BY LisaAssumption DEF LisaInv
<1>1. opened /\ l.state >= CREATED /\ UNCHANGED <<lock, opened, late, mishaps>>
  BY DEF RecvFromPreSelect
<1>2. PICK w \in IF l.state < BOUND THEN Bind(Now) ELSE {Now} :
        /\ Becomes(w)
        /\ IF w.l.state < 0 THEN Returns(Owner) ELSE Waits(Owner, "receiving_from", {l.fd})
  BY DEF RecvFromPreSelect
<1>3. l.state \in Int /\ ~Fresh /\ Usable /\ ~(l.state < 0)
  BY <1>0, <1>1, FreshIs DEF Usable, CREATED
<1>4. Outcome(w)
  BY <1>0, <1>2, <1>3, NowOutcome, BindOutcome
<1>5. /\ "idle" \in Calls /\ "receiving_from" \in Calls /\ {} \in SUBSET Handles
      /\ {l.fd} \in SUBSET Handles /\ late' \in BOOLEAN
  BY <1>0, <1>1 DEF Calls, Types, Lisas
<1>6. mishaps' \in SUBSET {"address", "not_last", "no_client"} /\ LockReturned'
  BY <1>0, <1>1 DEF Types, LockReturned
<1>7. ASSUME Returns(Owner) PROVE WaitsOf(Owner)' /\ Waits(Owner, "idle", {})
  BY <1>0, <1>7 DEF Types, Returns, Waits, WaitsOf
<1>8. CASE w.l.state < 0
  BY <1>0, <1>1, <1>2, <1>3, <1>4, <1>5, <1>6, <1>7, <1>8, WaitBegins
<1>9. CASE ~(w.l.state < 0)
  <2>0. w.l.state \in Int
    BY <1>2, <1>4, OutcomeIs
  <2>1. w.l.state >= 0 /\ Waits(Owner, "receiving_from", {l.fd})
    BY <1>2, <1>9, <2>0
  <2>2. pc'[Owner] = "receiving_from" /\ fds'[Owner] = {l.fd}
    BY <1>0, <2>1 DEF Types, Waits
  <2>3. l'.fd = l.fd /\ IsOpen(l.fd) /\ sockets' = sockets
    BY <1>0, <1>2, <1>3, <1>4, OutcomeIs DEF Descriptors, SocketInUse
  <2>4. WaitsOf(Owner)'
    BY <2>2, <2>3 DEF WaitsOf, IsOpen
  <2> QED
    BY <1>0, <1>1, <1>2, <1>3, <1>4, <1>5, <1>6, <2>1, <2>4, WaitBegins
<1> QED
  BY <1>8, <1>9

\* lisa_send and lisa_recv up to their select.
LEMMA PreSelectKeeps ==
  ASSUME LisaInv, NEW t \in Threads, SendPreSelect(t) \/ RecvPreSelect(t)
  PROVE  LisaInv'
<1>0. Types /\ Descriptors /\ LockReturned
  BY DEF LisaInv
<1>1. opened /\ l.state >= CONNECTED /\ UNCHANGED <<l, sockets, lock, opened, late, mishaps>>
  BY DEF SendPreSelect, RecvPreSelect
<1>2. ~Fresh /\ Usable /\ l.state \in Int /\ l.state >= 0
  BY <1>0, <1>1, FreshIs DEF CONNECTED, CREATED, Usable
<1>3. Outcome(Now) /\ Becomes(Now) /\ Now.l = l
  BY <1>0, <1>1, <1>2, NowOutcome DEF Becomes, Now
<1>4. /\ late' \in BOOLEAN /\ late' = late /\ LockReturned'
      /\ mishaps' \in SUBSET {"address", "not_last", "no_client"} /\ mishaps' = mishaps
  BY <1>0, <1>1 DEF Types, LockReturned
<1>5. /\ l.fd \in Handles /\ l.client_fd \in Handles /\ ToSet(l.client_fds) \subseteq Handles
      /\ "sending" \in Calls /\ "receiving" \in Calls
  <2>1. ToSet(l.client_fds) \subseteq Fds \cup {-1}
    BY <1>0, ListIs DEF ToSet
  <2> QED
    BY <1>0, <2>1 DEF Types, Lisas, Handles, Calls
<1>6. CASE SendPreSelect(t)
  <2>1. PICK set \in SUBSET Handles : Waits(t, "sending", set)
    BY <1>5, <1>6 DEF SendPreSelect
  <2>2. pc'[t] = "sending"
    BY <1>0, <2>1 DEF Types, Waits
  <2>3. WaitsOf(t)'
    BY <2>2 DEF WaitsOf
  <2> QED
    BY <1>1, <1>2, <1>3, <1>4, <1>5, <2>1, <2>3, WaitBegins
<1>7. CASE RecvPreSelect(t)
  <2>1. PICK set : /\ set = IF l.clsvr = "client" THEN {l.fd} ELSE ToSet(l.client_fds)
                   /\ Waits(t, "receiving", set)
    BY <1>7 DEF RecvPreSelect
  <2>2. pc'[t] = "receiving" /\ fds'[t] = set /\ set \in SUBSET Handles
    BY <1>0, <1>5, <2>1 DEF Types, Waits
  <2>3. ASSUME "not_last" \notin mishaps, NEW f \in set \ {-1}
        PROVE  IsOpen(f) /\ f \in {l.fd} \cup ToSet(l.client_fds)
    <3>1. IsOpen(l.fd) /\ \A g \in Clients : IsOpen(g)
      BY <1>0, <1>2, <2>3 DEF Descriptors, SocketInUse, Kept
    <3> QED
      BY <2>1, <3>1 DEF Clients
  <2>4. WaitsOf(t)'
    BY <1>1, <2>2, <2>3 DEF WaitsOf, IsOpen
  <2> QED
    BY <1>1, <1>2, <1>3, <1>4, <1>5, <2>1, <2>2, <2>4, WaitBegins
<1> QED
  BY <1>6, <1>7

\* What the calls that waited make of the lisa's state.
LEMMA OwnerReturns ==
  LisaInv /\ (ConnectPostSelect \/ AcceptNobody \/ RecvFromPostSelect) => LisaInv'
<1> SUFFICES ASSUME LisaInv, ConnectPostSelect \/ AcceptNobody \/ RecvFromPostSelect
             PROVE  LisaInv'
  OBVIOUS
<1>0. Types /\ Descriptors /\ Owner \in Threads
  BY LisaAssumption DEF LisaInv
<1>1. /\ pc[Owner] # "idle" /\ Returns(Owner)
      /\ UNCHANGED <<sockets, lock, opened, late, mishaps>>
  BY DEF ConnectPostSelect, AcceptNobody, RecvFromPostSelect
<1>2. PICK state \in {CONNECTED, ERROR, TIMEOUT, GOT_DATA, l.state} : l' = [l EXCEPT !.state = state]
  BY DEF ConnectPostSelect, AcceptNobody, RecvFromPostSelect
<1>3. l.state \in Int /\ (l.state >= CREATED \/ l.state = ERROR)
  <2>1. ~Alone
    BY <1>0, <1>1 DEF Alone
  <2> QED
    BY <1>0, <2>1 DEF Descriptors, UnusedWhenFresh, Decided, Now, Types, Lisas
<1>4. state \in Int /\ (state >= CREATED \/ state = ERROR)
  BY <1>3 DEF CONNECTED, ERROR, TIMEOUT, GOT_DATA, CREATED
<1>5. /\ l' \in Lisas /\ l'.state = state /\ l'.fd = l.fd /\ l'.client_fds = l.client_fds
  BY <1>0, <1>2, <1>4 DEF Types, Lisas
<1> QED
  BY <1>0, <1>1, <1>4, <1>5, ReturnKeeps

\* lisa_send and lisa_recv after it.
LEMMA PostSelectKeeps ==
  ASSUME LisaInv, NEW t \in Threads, SendPostSelect(t) \/ RecvPostSelect(t)
  PROVE  LisaInv'
<1>0. Types /\ Descriptors
  BY DEF LisaInv
<1>1. /\ pc[t] # "idle" /\ Returns(t)
      /\ UNCHANGED <<sockets, lock, opened, late, mishaps>>
  BY DEF SendPostSelect, RecvPostSelect
<1>2. l.state \in Int /\ (l.state >= CREATED \/ l.state = ERROR)
  <2>1. ~Alone
    BY <1>0, <1>1 DEF Alone
  <2> QED
    BY <1>0, <2>1 DEF Descriptors, UnusedWhenFresh, Decided, Now, Types, Lisas
<1> DEFINE States == {SENT_DATA, ERROR, TIMEOUT, GOT_DATA, CLOSED}
<1>3. \A state \in States : state \in Int /\ (state >= CREATED \/ state = ERROR)
  BY DEF SENT_DATA, ERROR, TIMEOUT, GOT_DATA, CLOSED, CREATED
<1>4. \E state \in States :
        \/ l' = [l EXCEPT !.state = state]
        \/ l' = [l EXCEPT !.client_state = state]
        \/ \E f \in fds[t] : l' = [l EXCEPT !.client_fd = f, !.client_state = state]
  <2>1. CASE SendPostSelect(t)
    BY <2>1 DEF SendPostSelect
  <2>2. CASE RecvPostSelect(t)
    <3>1. Received \subseteq States
      BY DEF Received
    <3>2. CASE \E state \in {TIMEOUT, ERROR} :
                 l' = IF l.clsvr = "client" THEN [l EXCEPT !.state = state]
                                            ELSE [l EXCEPT !.client_state = state]
      BY <3>2
    <3>3. CASE \E state \in Received : l' = [l EXCEPT !.state = state]
      BY <3>1, <3>3
    <3>4. CASE \E f \in fds[t] \cap ToSet(l.client_fds), state \in Received :
                 l' = [l EXCEPT !.client_fd = f, !.client_state = state]
      BY <3>1, <3>4
    <3> QED
      BY <2>2, <3>2, <3>3, <3>4 DEF RecvPostSelect
  <2> QED
    BY <2>1, <2>2
<1>5. PICK state \in States :
        \/ l' = [l EXCEPT !.state = state]
        \/ l' = [l EXCEPT !.client_state = state]
        \/ \E f \in fds[t] : l' = [l EXCEPT !.client_fd = f, !.client_state = state]
  BY <1>4
<1>6. state \in Int /\ (state >= CREATED \/ state = ERROR)
  BY <1>3, <1>5
<1> HIDE DEF States
<1>7. /\ l' \in Lisas /\ (l'.state = state \/ l'.state = l.state)
      /\ l'.fd = l.fd /\ l'.client_fds = l.client_fds
  <2>1. CASE l' = [l EXCEPT !.state = state]
    BY <1>0, <1>6, <2>1 DEF Types, Lisas
  <2>2. CASE l' = [l EXCEPT !.client_state = state]
    BY <1>0, <1>6, <2>2 DEF Types, Lisas
  <2>3. ASSUME NEW f \in fds[t], l' = [l EXCEPT !.client_fd = f, !.client_state = state]
        PROVE  /\ l' \in Lisas /\ l'.state = l.state
               /\ l'.fd = l.fd /\ l'.client_fds = l.client_fds
    <3>1. f \in Handles
      BY <1>0 DEF Types
    <3> QED
      BY <1>0, <1>6, <2>3, <3>1 DEF Types, Lisas
  <2> QED
    BY <1>5, <2>1, <2>2, <2>3
<1> QED
  BY <1>1, <1>2, <1>6, <1>7, ReturnKeeps

\* The program starts without a lisa that was opened.
LEMMA LisaStarts == Init => LisaInv
<1> SUFFICES ASSUME Init PROVE LisaInv
  OBVIOUS
<1>1. /\ l \in Lisas /\ l.state = 0 /\ l.client_fds = <<>>
  BY EmptySeq DEF Init, Lisas, Lists, Handles
<1>2. Types
  BY <1>1 DEF Init, Types, Kinds, Calls, Handles
<1>3. Alone /\ Fresh /\ ~Usable /\ Clients = {} /\ \A f \in Fds : ~IsOpen(f)
  BY <1>1 DEF Init, Alone, Fresh, Usable, Clients, ToSet, IsOpen, CREATED
<1>4. Descriptors
  BY <1>1, <1>3 DEF Descriptors, UnusedWhenFresh, SocketInUse, Kept
<1>5. Waiters /\ OwnerOnly /\ LockReturned
  BY DEF Init, Waiters, WaitsOf, OwnerOnly, LockReturned
<1> QED
  BY <1>2, <1>4, <1>5 DEF LisaInv

\* Whatever the owner calls and whenever the other threads send and receive,
\* LisaInv holds: which descriptors are open, who waits for which, and who has
\* the lock (every function of lisa.c).
THEOREM LisaSafe == Spec => []LisaInv
<1>1. LisaInv /\ [Next]_vars => LisaInv'
  <2> SUFFICES ASSUME LisaInv, [Next]_vars PROVE LisaInv'
    OBVIOUS
  <2>1. CASE lisa_open \/ SetUp \/ lisa_close \/ lisa_close_client
    BY <2>1, OpenKeeps, SetUpKeeps, CloseKeeps, CloseClientKeeps
  <2>2. CASE lisa_connect_by_name \/ ConnectPreSelect \/ ConnectPostSelect
    BY <2>2, NamedKeeps, ConnectKeeps, OwnerReturns
  <2>3. CASE Listen \/ AcceptPreSelect \/ AcceptNobody \/ Accept \/ AcceptFails
    BY <2>3, ListenKeeps, AcceptPreKeeps, OwnerReturns, AcceptKeeps, AcceptFailsKeeps
  <2>4. ASSUME NEW t \in Threads,
               SendPreSelect(t) \/ SendPostSelect(t) \/ RecvPreSelect(t) \/ RecvPostSelect(t)
        PROVE  LisaInv'
    BY <2>4, PreSelectKeeps, PostSelectKeeps
  <2>5. CASE lisa_send_from \/ lisa_send_to \/ RecvFromPreSelect \/ RecvFromPostSelect
    BY <2>5, SendFromKeeps, SendToKeeps, RecvFromKeeps, OwnerReturns
  <2>6. CASE UNCHANGED vars
    BY <2>6 DEF vars, LisaInv, Types, OwnerOnly, LockReturned, Descriptors, UnusedWhenFresh,
                SocketInUse, Kept, Waiters, WaitsOf, Fresh, Usable, Alone, Clients, IsOpen,
                Decided, Now
  <2> QED
    BY <2>1, <2>2, <2>3, <2>4, <2>5, <2>6 DEF Next
<1> QED
  BY <1>1, LisaStarts, PTL DEF Spec

\* No call keeps the lock, whether it returns or waits in select, on any path of
\* lisa.c, error paths included, except lisa_connect when the address is not a
\* number.
THEOREM LockIsReturned == Spec => []LockReturned
<1>1. LisaInv => LockReturned
  BY DEF LisaInv
<1> QED
  BY <1>1, LisaSafe, PTL

\* Who waits in select waits for open descriptors that the lisa has, as long as
\* no call made the socket after it had read l->fd, and no client but the last
\* was closed (lisa_connect, lisa_accept, lisa_recv, lisa_recv_from).
THEOREM WaitsOnItsSockets == Spec => []WaitsOnOwnSockets
<1>1. LisaInv => WaitsOnOwnSockets
  BY DEF LisaInv, Waiters, WaitsOf, WaitsOnOwnSockets
<1> QED
  BY <1>1, LisaSafe, PTL

\* No descriptor is lost and none is closed behind the back of the lisa: open are
\* the lisa's socket and its clients' ones and no others, each in the list once,
\* as long as lisa_close_client took out the last client only.
THEOREM DescriptorsAreKept == Spec => []DescriptorsKept
<1>1. LisaInv => DescriptorsKept
  <2> SUFFICES ASSUME LisaInv, "not_last" \notin mishaps PROVE DescriptorsKept
    BY DEF DescriptorsKept
  <2>1. Types /\ Descriptors /\ l.state \in Int
    BY DEF LisaInv, Types, Lisas
  <2>2. /\ Clients \subseteq Fds /\ -1 \notin Fds
    BY <2>1, ListIs, FdsAre
  <2> DEFINE own == ({l.fd} \cup ToSet(l.client_fds)) \ {-1}
             open == {f \in Fds : IsOpen(f)}
  <2>3. l.state \in {0, UNINITIALIZED} => open = {}
    BY <2>1 DEF Descriptors, Kept, Fresh
  <2>4. ASSUME l.state >= CREATED
        PROVE  /\ own = open /\ l.fd \notin ToSet(l.client_fds)
               /\ \A j, k \in DOMAIN l.client_fds :
                    l.client_fds[j] = l.client_fds[k] => j = k \/ l.client_fds[j] = -1
    <3>1. ~Fresh /\ Usable
      BY <2>1, <2>4 DEF Fresh, Usable, CREATED, UNINITIALIZED
    <3>2. /\ IsOpen(l.fd) /\ l.fd \notin Clients
          /\ \A f \in Fds : IsOpen(f) => f = l.fd \/ f \in Clients
          /\ \A f \in Clients : IsOpen(f)
          /\ \A j, k \in DOMAIN l.client_fds :
               l.client_fds[j] = l.client_fds[k] => j = k \/ l.client_fds[j] = -1
      BY <2>1, <3>1 DEF Descriptors, SocketInUse, Kept
    <3>3. l.fd \in Fds /\ l.fd # -1
      BY <2>2, <3>2 DEF IsOpen
    <3> QED
      BY <2>2, <3>2, <3>3 DEF Clients
  <2>5. l.state < 0 => open \subseteq own
    <3> SUFFICES ASSUME l.state < 0 PROVE open \subseteq own
      OBVIOUS
    <3>1. ~Fresh
      BY <2>1 DEF Fresh, UNINITIALIZED
    <3> QED
      BY <2>1, <2>2, <3>1 DEF Descriptors, Kept, Clients
  <2> QED
    BY <2>3, <2>4, <2>5 DEF DescriptorsKept
<1> QED
  BY <1>1, LisaSafe, PTL

\* While no call is in progress, a lisa in error leaves that state by lisa_open
\* alone: every other call returns without touching it (every function of lisa.c).
THEOREM ErrorsStick == Spec => ErrorSticks
<1> DEFINE Sticks == l.state = ERROR /\ (\A t \in Threads : pc[t] = "idle") /\ l'.state # ERROR
                       => ~opened \/ l'.state = UNINITIALIZED
<1>1. LisaInv /\ [Next]_vars => [Sticks]_vars
  <2> SUFFICES ASSUME LisaInv, Next, l.state = ERROR, Alone, l'.state # ERROR
               PROVE  ~opened \/ l'.state = UNINITIALIZED
    BY DEF Alone
  <2>0. Types /\ Descriptors /\ l \in Lisas /\ Owner \in Threads /\ l.state < 0
    BY LisaAssumption DEF LisaInv, Types, ERROR
  <2>1. l' # l
    OBVIOUS
  <2>2. CASE lisa_open
    <3>1. l'.state = UNINITIALIZED
      BY <2>0, <2>2 DEF lisa_open, Lisas
    <3> QED
      BY <3>1
  <2>3. CASE SetUp \/ lisa_close \/ lisa_close_client \/ lisa_connect_by_name
             \/ lisa_send_from \/ lisa_send_to \/ RecvFromPreSelect
    BY <2>3 DEF SetUp, lisa_close, lisa_close_client, lisa_connect_by_name, lisa_send_from,
                lisa_send_to, RecvFromPreSelect, ERROR, UNINITIALIZED, CREATED, CONNECTED
  <2>4. CASE ConnectPostSelect \/ AcceptNobody \/ Accept \/ AcceptFails \/ RecvFromPostSelect
    BY <2>0, <2>4 DEF Alone, ConnectPostSelect, AcceptNobody, Accept, AcceptFails, RecvFromPostSelect
  <2>5. ASSUME NEW t \in Threads, SendPostSelect(t) \/ RecvPostSelect(t) PROVE FALSE
    BY <2>5 DEF Alone, SendPostSelect, RecvPostSelect
  <2>6. ASSUME NEW t \in Threads, SendPreSelect(t) \/ RecvPreSelect(t) PROVE FALSE
    BY <2>1, <2>6 DEF SendPreSelect, RecvPreSelect
  <2>7. CASE ConnectPreSelect
    <3>1. \E w \in {Now} : Becomes(w) \/ w.l.state >= 0
      BY <2>0, <2>7 DEF ConnectPreSelect
    <3> QED
      BY <2>0, <2>1, <3>1 DEF Now, Becomes, Lisas
  <2>8. CASE Listen
    <3>1. ASSUME opened PROVE FALSE
      <4>1. PICK w \in lisa_listen(Now) : Becomes(w)
        BY <2>8 DEF Listen
      <4>2. w = Now
        BY <2>0, <3>1, <4>1, ListenOutcome
      <4> QED
        BY <2>1, <4>1, <4>2 DEF Now, Becomes
    <3> QED
      BY <3>1
  <2>9. CASE AcceptPreSelect
    <3>1. l.state \notin 0..(LISTENING - 1)
      BY <2>0
    <3>2. \E w \in {Now} : Becomes(w)
      BY <2>9, <3>1 DEF AcceptPreSelect
    <3> QED
      BY <2>1, <3>2 DEF Now, Becomes
  <2> QED
    BY <2>2, <2>3, <2>4, <2>5, <2>6, <2>7, <2>8, <2>9 DEF Next
<1> QED
  BY <1>1, LisaSafe, PTL DEF Spec, ErrorSticks
=============================================================================
