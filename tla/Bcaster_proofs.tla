--------------------------- MODULE Bcaster_proofs ---------------------------
(***************************************************************************)
(* What bcaster forwards, for any clients, any number of packets, and any  *)
(* order of connections, sends, failures and departures; then how it cuts  *)
(* what it reads into packets.                                             *)
(***************************************************************************)
EXTENDS Bcaster, Framing, SequenceTheorems, TLAPS

(***************************************************************************)
(* Types, with what the receiver has in hand where it needs it.            *)
(***************************************************************************)
Casting == rpc \in {"process", "send", "sending", "next"}

Counted ==
  /\ sent \in [Clients -> Nat] /\ \A c \in Clients : sent[c] <= MaxPackets[c]
  /\ read \in [Clients -> Nat] /\ \A c \in Clients : read[c] <= sent[c]

Types ==
  /\ client_fds \in Seq(Clients) /\ IsInjective(client_fds)
  /\ ToSet(Early) \subseteq ToSet(client_fds)
  /\ buffers \in Seq(Clients \cup {NULL})
  /\ {client_fd, last_client, this_socket} \subseteq Clients \cup {NULL}
  /\ state \in {"accepted", "timeout", "sent_data", "error"}
  /\ client_state \in {"connected", "timeout", "got_data", "sent_data", "closed", "error"}
  /\ lpc \in {"idle", "select", "register"}
  /\ rpc \in {"idle", "part1", "select", "pick", "lookup", "process", "send", "sending", "next",
              "stuck", "undefined"}
  /\ fdset \subseteq ToSet(client_fds) /\ left \subseteq Clients
  /\ inbox \in [Clients -> Seq(Packets)] /\ pkts \in Seq(Packets)
  /\ Counted
  /\ next \in 1..(Len(client_fds) + 1) /\ raced \in BOOLEAN
  /\ rpc = "pick" => fdset # {}
  /\ rpc = "lookup" => client_fd \in ToSet(client_fds)
  /\ Casting => pkts # <<>>

LEMMA PacketIs ==
  /\ \A c \in Clients : \A k \in 1..MaxPackets[c] : <<c, k>> \in Packets
  /\ \A p \in Packets : /\ p[1] \in Clients /\ p[2] \in 1..MaxPackets[p[1]]
                        /\ p = <<p[1], p[2]>> /\ p[2] \in Nat
<1>1. ASSUME NEW c \in Clients, NEW k \in 1..MaxPackets[c] PROVE <<c, k>> \in Packets
  <2>1. <<c, k>> \in {c} \X (1..MaxPackets[c])
    OBVIOUS
  <2> QED
    BY <2>1 DEF Packets
<1>2. ASSUME NEW p \in Packets
      PROVE  /\ p[1] \in Clients /\ p[2] \in 1..MaxPackets[p[1]]
             /\ p = <<p[1], p[2]>> /\ p[2] \in Nat
  <2>1. PICK c \in Clients : p \in {c} \X (1..MaxPackets[c])
    BY DEF Packets
  <2> QED
    BY <2>1, BoundsAssumption
<1> QED
  BY <1>1, <1>2

(* A client more, at the end.                                              *)
LEMMA OneMore ==
  ASSUME NEW S, NEW q \in Seq(S), NEW x \in S
  PROVE  /\ Append(q, x) \in Seq(S) /\ ToSet(Append(q, x)) = ToSet(q) \cup {x}
         /\ Len(Append(q, x)) = Len(q) + 1
         /\ IsInjective(q) /\ x \notin ToSet(q) => IsInjective(Append(q, x))
<1> DEFINE t == Append(q, x)
<1>1. /\ t \in Seq(S) /\ DOMAIN t = 1..(Len(q) + 1) /\ DOMAIN q = 1..Len(q) /\ Len(q) \in Nat
      /\ Len(t) = Len(q) + 1
      /\ \A j \in 1..Len(q) : t[j] = q[j]
      /\ t[Len(q) + 1] = x
  BY AppendProperties
<1> HIDE DEF t
<1>2. ToSet(t) = ToSet(q) \cup {x}
  BY <1>1 DEF ToSet
<1>3. ASSUME IsInjective(q), x \notin ToSet(q) PROVE IsInjective(t)
  BY <1>1, <1>3 DEF IsInjective, ToSet
<1> QED
  BY <1>1, <1>2, <1>3 DEF t

(* The first client that is ready.                                         *)
LEMMA CastFromDoes ==
  ASSUME Types, Casting, NEW i \in 1..(Len(client_fds) + 1), NEW last, CastFrom(i, last),
         UNCHANGED client_fds
  PROVE  /\ pkts' \in Seq(Packets) /\ client_fd' \in Clients \cup {NULL}
         /\ next' \in 1..(Len(client_fds) + 1)
         /\ rpc' \in {"idle", "process", "send"}
         /\ Casting' => pkts' # <<>>
<1>1. pkts \in Seq(Packets) /\ pkts # <<>> /\ client_fds \in Seq(Clients) /\ Len(client_fds) \in Nat
  BY DEF Types
<1>2. CASE /\ pkts' = Tail(pkts) /\ rpc' = IF pkts' = <<>> THEN "idle" ELSE "process"
           /\ UNCHANGED <<client_fd, next>>
  BY <1>1, <1>2, HeadTailProperties DEF Types, Casting
<1>3. ASSUME NEW j \in i..Len(client_fds), client_fd' = client_fds[j], next' = j + 1, rpc' = "send",
             UNCHANGED pkts
      PROVE  /\ pkts' \in Seq(Packets) /\ client_fd' \in Clients \cup {NULL}
             /\ next' \in 1..(Len(client_fds) + 1)
             /\ rpc' \in {"idle", "process", "send"} /\ pkts' # <<>>
  BY <1>1, <1>3
<1> QED
  BY <1>2, <1>3 DEF CastFrom

LEMMA ClientsAre ==
  ASSUME Types
  PROVE  /\ Len(client_fds) \in Nat /\ DOMAIN client_fds = 1..Len(client_fds)
         /\ \A i \in 1..Len(client_fds) : client_fds[i] \in Clients /\ client_fds[i] \in ToSet(client_fds)
         /\ ToSet(client_fds) \subseteq Clients /\ fdset \subseteq Clients
<1>1. client_fds \in Seq(Clients) /\ fdset \subseteq ToSet(client_fds)
  BY DEF Types
<1>2. Len(client_fds) \in Nat /\ DOMAIN client_fds = 1..Len(client_fds)
      /\ \A i \in 1..Len(client_fds) : client_fds[i] \in Clients
  BY <1>1
<1> QED
  BY <1>1, <1>2 DEF ToSet

LEMMA InitTypes == Init => Types
<1> SUFFICES ASSUME Init PROVE Types
  OBVIOUS
<1>1. Early \in Seq(Clients) /\ Early # <<>> /\ IsInjective(Early)
  BY ClientsAssumption
<1>2. Last(Early) \in Clients /\ Len(Early) \in Nat /\ Early \in Seq(Clients \cup {NULL})
  BY <1>1 DEF Last
<1>3. \A c \in Clients : MaxPackets[c] \in Nat
  BY BoundsAssumption
<1>4. <<>> \in Seq(Packets)
  BY EmptySeq
<1>5. Len(Early) >= 1
  BY <1>1, <1>2
<1>6. /\ Counted
      /\ inbox \in [Clients -> Seq(Packets)] /\ pkts \in Seq(Packets)
  BY <1>3, <1>4 DEF Init, Counted
<1>7. /\ client_fds = Early /\ buffers = Early /\ client_fd = Last(Early)
      /\ last_client = NULL /\ this_socket = NULL /\ fdset = {} /\ left = {} /\ next = 1
      /\ rpc = "idle" /\ lpc = "idle" /\ raced = FALSE
      /\ state \in {"accepted", "timeout"} /\ client_state = "connected"
  BY DEF Init
<1> QED
  <2>1. {client_fd, last_client, this_socket} \subseteq Clients \cup {NULL}
    BY <1>2, <1>7
  <2>2. next \in 1..(Len(client_fds) + 1)
    BY <1>2, <1>5, <1>7
  <2>5. raced \in BOOLEAN
    BY <1>7
  <2>3. fdset \subseteq ToSet(client_fds) /\ left \subseteq Clients
    BY <1>7
  <2>4. ~Casting
    BY <1>7 DEF Casting
  <2> QED
    BY <1>1, <1>2, <1>6, <1>7, <2>1, <2>2, <2>3, <2>4, <2>5 DEF Types

LEMMA ListenerTypes == Types /\ Listener => Types'
<1> SUFFICES ASSUME Types, Listener PROVE Types'
  OBVIOUS
<1> USE DEF receiverVars, readVars, castVars, stateVars, clientVars
<1>1. CASE AcceptPreSelect
  BY SMTT(30), <1>1 DEF AcceptPreSelect, Types, Casting, Counted
<1>2. CASE AcceptTimeout
  BY <1>2 DEF AcceptTimeout, Types, Casting, Counted
<1>3. CASE Register
  <2>1. buffers' \in Seq(Clients \cup {NULL})
    BY <1>3, OneMore DEF Register, Types
  <2> QED
    BY SMTT(30), <1>3, <2>1 DEF Register, Types, Casting, Counted
<1>4. ASSUME NEW c \in Late, Accept(c) PROVE Types'
  <2>1. c \in Clients /\ c \notin ToSet(client_fds)
    BY <1>4 DEF Accept, Clients
  <2>2. /\ client_fds' \in Seq(Clients) /\ ToSet(client_fds') = ToSet(client_fds) \cup {c}
        /\ Len(client_fds') = Len(client_fds) + 1
        /\ IsInjective(client_fds')
    BY <1>4, <2>1, OneMore DEF Accept, Types
  <2>3. rpc' = rpc /\ rpc \notin {"pick", "lookup"} /\ next' = next /\ next \in 1..(Len(client_fds') + 1)
    BY <1>4, <2>2 DEF Accept, Types, LisaFree
  <2> QED
    BY <1>4, <2>1, <2>2, <2>3 DEF Accept, Types, Casting, Counted
<1> QED
  BY <1>1, <1>2, <1>3, <1>4 DEF Listener

LEMMA ReceiverTypes == Types /\ Receiver => Types'
<1> SUFFICES ASSUME Types, Receiver PROVE Types'
  OBVIOUS
<1> USE DEF listenerVars, receiverVars, readVars, castVars, stateVars, clientVars, others
<1>1. CASE RecvStart
  BY <1>1 DEF RecvStart, Types, Casting, Counted
<1>2. CASE RecvPreSelect
  BY <1>2 DEF RecvPreSelect, Types, Casting, Counted
<1>3. CASE RecvTimeout
  BY <1>3 DEF RecvTimeout, Types, Casting, Counted
<1>4. CASE RecvReady
  BY <1>4 DEF RecvReady, Types, Casting, Counted
<1>5. CASE RecvPick
  <2>1. client_fd' \in Clients /\ client_fd' \in ToSet(client_fds)
    BY <1>5, ClientsAre DEF RecvPick
  <2> QED
    BY <1>5, <2>1 DEF RecvPick, Types, Casting, Counted
<1>6. CASE RecvUnregistered
  BY <1>6 DEF RecvUnregistered, Types, Casting, Counted
<1>7. ASSUME NEW n \in 0..MaxPerRead, RecvPackets(n) PROVE Types'
  <2> DEFINE c == client_fd
  <2>1. c \in Clients /\ n \in Nat
    BY <1>7, ClientsAre, BoundsAssumption DEF RecvPackets, Types
  <2>5. /\ read[c] + n <= sent[c] /\ pkts' = [i \in 1..n |-> <<c, read[c] + i>>]
        /\ read' = [read EXCEPT ![c] = read[c] + n]
        /\ rpc' = IF n = 0 THEN "idle" ELSE "process"
    BY <1>7 DEF RecvPackets
  <2>6. read[c] \in Nat /\ sent[c] \in Nat /\ sent[c] <= MaxPackets[c] /\ MaxPackets[c] \in Nat
    BY <2>1, BoundsAssumption DEF Types, Counted
  <2>7. \A i \in 1..n : read[c] + i \in 1..MaxPackets[c]
    BY <2>1, <2>5, <2>6
  <2> HIDE DEF c
  <2>2. \A i \in 1..n : <<c, read[c] + i>> \in Packets
    BY <2>1, <2>7, PacketIs
  <2>3. pkts' \in Seq(Packets) /\ (n # 0 => pkts' # <<>>)
    <3>1. pkts' \in Seq(Packets)
      BY <2>1, <2>2, <2>5
    <3>2. n # 0 => 1 \in DOMAIN pkts'
      BY <2>1, <2>5
    <3> QED
      BY <3>1, <3>2
  <2>4. read' \in [Clients -> Nat] /\ \A d \in Clients : read'[d] <= sent[d]
    <3>1. read \in [Clients -> Nat] /\ \A d \in Clients : read[d] <= sent[d]
      BY DEF Types, Counted
    <3>2. read[c] + n \in Nat
      BY <2>1, <2>6
    <3>3. \A d \in Clients : read'[d] = IF d = c THEN read[c] + n ELSE read[d]
      BY <2>5, <3>1
    <3>4. read' \in [Clients -> Nat]
      BY <2>5, <3>1, <3>2
    <3> QED
      BY <2>5, <3>1, <3>3, <3>4
  <2> QED
    BY <1>7, <2>3, <2>4, <2>5 DEF RecvPackets, Types, Casting, Counted
<1>8. CASE CastBegin
  <2>1. Casting /\ CastFrom(1, client_fd) /\ UNCHANGED client_fds /\ 1 \in 1..(Len(client_fds) + 1)
    BY <1>8 DEF CastBegin, Casting, Types
  <2>2. /\ pkts' \in Seq(Packets) /\ client_fd' \in Clients \cup {NULL}
        /\ next' \in 1..(Len(client_fds) + 1)
        /\ rpc' \in {"idle", "process", "send"} /\ (Casting' => pkts' # <<>>)
    BY <2>1, CastFromDoes
  <2> QED
    BY <1>8, <2>2 DEF CastBegin, Types, Counted
<1>9. CASE CastNext
  <2>1. Casting /\ CastFrom(next, last_client) /\ UNCHANGED client_fds /\ next \in 1..(Len(client_fds) + 1)
    BY <1>9 DEF CastNext, Casting, Types
  <2>2. /\ pkts' \in Seq(Packets) /\ client_fd' \in Clients \cup {NULL}
        /\ next' \in 1..(Len(client_fds) + 1)
        /\ rpc' \in {"idle", "process", "send"} /\ (Casting' => pkts' # <<>>)
    BY <2>1, CastFromDoes
  <2> QED
    BY <1>9, <2>2 DEF CastNext, Types, Counted
<1>10. CASE SendPreSelect
  BY <1>10 DEF SendPreSelect, Types, Casting, Counted
<1>11. CASE SendPostSelect
  <2>1. pkts # <<>> /\ pkts[1] \in Packets
    BY <1>11 DEF SendPostSelect, Types, Casting, Counted
  <2>2. inbox' \in [Clients -> Seq(Packets)]
    <3>1. inbox' = [inbox EXCEPT ![this_socket] = Append(inbox[this_socket], pkts[1])]
      BY <1>11 DEF SendPostSelect
    <3>2. inbox \in [Clients -> Seq(Packets)]
      BY DEF Types
    <3>3. this_socket \in Clients => Append(inbox[this_socket], pkts[1]) \in Seq(Packets)
      BY <2>1, <3>2
    <3> QED
      BY <3>1, <3>2, <3>3
  <2> QED
    BY <1>11, <2>2 DEF SendPostSelect, SetState, Types, Casting, Counted
<1> QED
  BY <1>1, <1>2, <1>3, <1>4, <1>5, <1>6, <1>7, <1>8, <1>9, <1>10, <1>11 DEF Receiver

LEMMA KeepsTypes == Types /\ [Next]_vars => Types'
<1> SUFFICES ASSUME Types, [Next]_vars PROVE Types'
  OBVIOUS
<1> USE DEF vars, listenerVars, receiverVars, readVars, castVars, stateVars, clientVars, others
<1>1. CASE UNCHANGED vars
  BY SMTT(30), <1>1 DEF Types, Casting, Counted
<1>2. CASE RecvReset
  BY <1>2 DEF RecvReset, Types, Casting, Counted
<1>3. CASE SendFails
  BY <1>3 DEF SendFails, SetState, Types, Casting, Counted
<1>4. CASE SendTimesOut
  BY <1>4 DEF SendTimesOut, Types, Casting, Counted
<1>5. ASSUME NEW c \in Clients, ClientSends(c) PROVE Types'
  <2>1. sent' = [sent EXCEPT ![c] = sent[c] + 1] /\ sent[c] < MaxPackets[c]
    BY <1>5 DEF ClientSends
  <2>2. /\ sent \in [Clients -> Nat] /\ read \in [Clients -> Nat] /\ MaxPackets \in [Clients -> Nat]
        /\ \A d \in Clients : sent[d] <= MaxPackets[d] /\ read[d] <= sent[d]
    BY BoundsAssumption DEF Types, Counted
  <2>3. sent' \in [Clients -> Nat]
        /\ \A d \in Clients : sent'[d] <= MaxPackets[d] /\ read[d] <= sent'[d]
    BY <2>1, <2>2
  <2> QED
    <3>1. UNCHANGED <<client_fd, listenerVars, receiverVars, stateVars, left, raced>>
      BY <1>5 DEF ClientSends
    <3>2. Counted'
      BY <2>2, <2>3, <3>1 DEF Counted
    <3> QED
      BY <3>1, <3>2 DEF Types, Casting
<1>6. ASSUME NEW c \in Clients, ClientLeaves(c) PROVE Types'
  <2>1. left' \subseteq Clients
    BY <1>6 DEF ClientLeaves, Types
  <2>2. UNCHANGED <<client_fd, listenerVars, receiverVars, stateVars, sent, raced>>
    BY <1>6 DEF ClientLeaves
  <2>3. Counted'
    BY <2>2 DEF Types, Counted
  <2> QED
    BY <2>1, <2>2, <2>3 DEF Types, Casting
<1> QED
  BY <1>1, <1>2, <1>3, <1>4, <1>5, <1>6, ListenerTypes, ReceiverTypes DEF Next, Spins

LEMMA TypesHold == Spec => []Types
  BY InitTypes, KeepsTypes, PTL DEF Spec

----------------------------------------------------------------------------
(***************************************************************************)
(* The two arrays of clients.  As long as nobody was accepted while the    *)
(* receiver was at work, a client that is not in the buffers yet is the    *)
(* last one, and the receiver is waiting.                                  *)
(***************************************************************************)
Agree ==
  /\ ~raced => IF lpc = "register" THEN ~AtWork /\ Append(buffers, client_fd) = client_fds
               ELSE buffers = client_fds
  /\ rpc = "undefined" => raced \/ left # {}

LEMMA KeepsAgree == Types /\ Agree /\ [Next]_vars => Agree'
<1> SUFFICES ASSUME Types, Agree, [Next]_vars PROVE Agree'
  OBVIOUS
<1> USE DEF vars, listenerVars, receiverVars, readVars, castVars, stateVars, clientVars, others, AtWork
<1>1. CASE UNCHANGED vars
  BY <1>1 DEF Agree
<1>2. CASE AcceptPreSelect
  BY <1>2 DEF AcceptPreSelect, Agree
<1>3. CASE AcceptTimeout
  BY <1>3 DEF AcceptTimeout, Agree
<1>4. CASE Register
  BY <1>4 DEF Register, Agree
<1>5. ASSUME NEW c \in Late, Accept(c) PROVE Agree'
  BY <1>5 DEF Accept, Agree
<1>6. CASE RecvStart
  BY <1>6 DEF RecvStart, Agree
<1>7. CASE RecvPreSelect
  BY <1>7 DEF RecvPreSelect, Agree
<1>8. CASE RecvTimeout
  BY <1>8 DEF RecvTimeout, Agree
<1>9. CASE RecvReady
  BY <1>9 DEF RecvReady, Agree
<1>10. CASE RecvPick
  BY <1>10 DEF RecvPick, Agree
<1>11. CASE RecvUnregistered
  <2>1. client_fd \in ToSet(client_fds) /\ client_fd \notin ToSet(buffers)
    BY <1>11 DEF RecvUnregistered, Types
  <2> QED
    BY <1>11, <2>1 DEF RecvUnregistered, Agree
<1>12. ASSUME NEW n \in 0..MaxPerRead, RecvPackets(n) PROVE Agree'
  BY <1>12 DEF RecvPackets, Agree
<1>13. CASE CastBegin
  BY <1>13 DEF CastBegin, CastFrom, Agree
<1>14. CASE CastNext
  BY <1>14 DEF CastNext, CastFrom, Agree
<1>15. CASE SendPreSelect
  BY <1>15 DEF SendPreSelect, Agree
<1>16. CASE SendPostSelect
  BY <1>16 DEF SendPostSelect, SetState, Agree
<1>17. CASE RecvReset
  BY <1>17 DEF RecvReset, Agree
<1>18. CASE SendFails
  BY <1>18 DEF SendFails, SetState, Agree
<1>19. CASE SendTimesOut
  BY <1>19 DEF SendTimesOut, Agree
<1>20. ASSUME NEW c \in Clients, ClientSends(c) PROVE Agree'
  BY <1>20 DEF ClientSends, Agree
<1>21. ASSUME NEW c \in Clients, ClientLeaves(c) PROVE Agree'
  BY <1>21 DEF ClientLeaves, Agree
<1> QED
  BY <1>1, <1>2, <1>3, <1>4, <1>5, <1>6, <1>7, <1>8, <1>9, <1>10, <1>11, <1>12, <1>13, <1>14,
     <1>15, <1>16, <1>17, <1>18, <1>19, <1>20, <1>21 DEF Next, Listener, Receiver, Spins

(* The buffer of the client that was read from is found, unless somebody   *)
(* was accepted while the receiver was at work, or left.                   *)
THEOREM BuffersMatch == Spec => []BuffersAgree
<1>1. Init => Types /\ Agree
  BY InitTypes DEF Init, Agree, AtWork
<1>2. Types /\ Agree /\ [Next]_vars => (Types /\ Agree)'
  BY KeepsTypes, KeepsAgree
<1>3. Agree => BuffersAgree
  BY DEF Agree, BuffersAgree
<1> QED
  BY <1>1, <1>2, <1>3, PTL DEF Spec

----------------------------------------------------------------------------
(***************************************************************************)
(* A packet being sent.  Who is still due to get it are the clients from   *)
(* First on; the packets in hand are the last ones read, in order.  When a *)
(* read returns one packet only, who is left out is its sender.            *)
(***************************************************************************)
First == IF rpc = "process" THEN 1 ELSE IF rpc = "next" THEN next ELSE next - 1

Due == {client_fds[j] : j \in First..Len(client_fds)}

LeftOut == IF rpc = "process" THEN client_fd ELSE last_client

InHand ==
  Casting => \A i \in DOMAIN pkts :
    pkts[i] = <<pkts[1][1], read[pkts[1][1]] + i - Len(pkts)>>

Aimed ==
  ~raced =>
    /\ rpc \in {"send", "sending"} =>
         next > 1 /\ client_fd = client_fds[next - 1] /\ client_fd # last_client
    /\ rpc = "sending" => this_socket = client_fd

OneByOne ==
  MaxPerRead = 1 /\ ~raced /\ Casting => Len(pkts) = 1 /\ LeftOut = pkts[1][1]

(* No send has failed as long as everybody is there.                       *)
NoError == left = {} => state # "error" /\ client_state # "error" /\ rpc # "stuck"

CastInv == InHand /\ Aimed /\ OneByOne /\ NoError

LEMMA PacketsInHand ==
  ASSUME Types, Casting, InHand, Tail(pkts) # <<>>
  PROVE  \A i \in DOMAIN Tail(pkts) :
           Tail(pkts)[i] = <<Tail(pkts)[1][1], read[Tail(pkts)[1][1]] + i - Len(Tail(pkts))>>
<1> DEFINE t == Tail(pkts)
           s == pkts[1][1]
<1>1. /\ pkts \in Seq(Packets) /\ Len(pkts) \in Nat /\ Len(pkts) >= 1 /\ DOMAIN pkts = 1..Len(pkts)
      /\ t \in Seq(Packets) /\ Len(t) = Len(pkts) - 1 /\ DOMAIN t = 1..Len(t)
      /\ \A i \in 1..Len(t) : t[i] = pkts[i + 1]
  BY HeadTailProperties DEF Types
<1>2. \A i \in 1..Len(pkts) : pkts[i] = <<s, read[s] + i - Len(pkts)>>
  BY <1>1 DEF InHand
<1>3. s \in Clients /\ read[s] \in Nat
  BY <1>1, PacketIs DEF Types, Counted
<1>4. t # <<>>
  OBVIOUS
<1> HIDE DEF t, s
<1>5. Len(t) >= 1
  BY <1>1, <1>4
<1>6. ASSUME NEW i \in 1..Len(t) PROVE t[i] = <<s, read[s] + i - Len(t)>>
  <2>1. i + 1 \in 1..Len(pkts) /\ t[i] = pkts[i + 1]
    BY <1>1
  <2>2. read[s] + (i + 1) - Len(pkts) = read[s] + i - Len(t)
    BY <1>1, <1>3
  <2> QED
    BY <1>2, <2>1, <2>2
<1>7. t[1][1] = s
  BY <1>5, <1>6
<1> QED
  BY <1>1, <1>6, <1>7 DEF t

LEMMA InitCast == Init => CastInv
<1>1. Init => ~Casting /\ rpc = "idle" /\ state # "error" /\ client_state # "error"
  BY DEF Init, Casting
<1> QED
  BY <1>1 DEF CastInv, InHand, Aimed, OneByOne, NoError

(* lisa_cast goes on with the next client, or with the next packet.        *)
LEMMA CastFromKeeps ==
  ASSUME Types, CastInv, Casting, NEW i \in 1..(Len(client_fds) + 1), NEW last,
         CastFrom(i, last), UNCHANGED <<client_fds, read, raced, left, state, client_state>>,
         last_client' = last, last = LeftOut
  PROVE  CastInv'
<1>1. CASE /\ pkts' = Tail(pkts) /\ rpc' = IF pkts' = <<>> THEN "idle" ELSE "process"
           /\ UNCHANGED <<client_fd, next>>
  <2>1. pkts \in Seq(Packets) /\ pkts # <<>> /\ InHand
    BY DEF Types, CastInv
  <2>2. InHand'
    <3> SUFFICES ASSUME Casting' PROVE InHand'
      BY DEF InHand
    <3>1. Tail(pkts) # <<>>
      BY <1>1 DEF Casting
    <3>2. \A j \in DOMAIN Tail(pkts) :
            Tail(pkts)[j] = <<Tail(pkts)[1][1], read[Tail(pkts)[1][1]] + j - Len(Tail(pkts))>>
      BY <2>1, <3>1, PacketsInHand
    <3> QED
      BY <1>1, <3>2 DEF InHand
  <2>3. Aimed' /\ NoError'
    BY <1>1 DEF Aimed, NoError, CastInv
  <2>4. OneByOne'
    <3> SUFFICES ASSUME MaxPerRead = 1, ~raced, Casting' PROVE FALSE
      BY DEF OneByOne
    <3>1. Len(pkts) = 1
      BY DEF OneByOne, CastInv
    <3>2. Len(Tail(pkts)) = 0 /\ Tail(pkts) \in Seq(Packets)
      BY <2>1, <3>1, HeadTailProperties
    <3>3. pkts' = <<>>
      BY <1>1, <3>2, EmptySeq
    <3> QED
      BY <1>1, <3>3 DEF Casting
  <2> QED
    BY <2>2, <2>3, <2>4 DEF CastInv
<1>2. ASSUME NEW j \in i..Len(client_fds), client_fds[j] # last,
             client_fd' = client_fds[j], next' = j + 1, rpc' = "send", UNCHANGED pkts
      PROVE  CastInv'
  <2>1. Len(client_fds) \in Nat /\ next' - 1 = j /\ next' > 1
    BY <1>2 DEF Types
  <2>2. Aimed' /\ NoError'
    BY <1>2, <2>1 DEF Aimed, NoError, CastInv
  <2>3. InHand' /\ OneByOne'
    BY <1>2 DEF InHand, OneByOne, CastInv, Casting, LeftOut
  <2> QED
    BY <2>2, <2>3 DEF CastInv
<1> QED
  BY <1>1, <1>2 DEF CastFrom

LEMMA KeepsCast == Types /\ CastInv /\ [Next]_vars => CastInv'
<1> SUFFICES ASSUME Types, CastInv, [Next]_vars PROVE CastInv'
  OBVIOUS
<1> USE DEF vars, listenerVars, receiverVars, readVars, castVars, stateVars, clientVars, others,
            CastInv, InHand, Aimed, OneByOne, NoError, Casting, LeftOut
<1>1. CASE UNCHANGED vars
  BY <1>1
<1>2. CASE AcceptPreSelect
  BY <1>2 DEF AcceptPreSelect
<1>3. CASE AcceptTimeout
  BY <1>3 DEF AcceptTimeout
<1>4. CASE Register
  BY <1>4 DEF Register
<1>5. ASSUME NEW c \in Late, Accept(c) PROVE CastInv'
  <2>1. Casting => raced'
    BY <1>5 DEF Accept, AtWork
  <2> QED
    BY <1>5, <2>1 DEF Accept
<1>6. CASE RecvStart \/ RecvPreSelect \/ RecvTimeout \/ RecvReady \/ RecvPick \/ RecvUnregistered
  BY <1>6 DEF RecvStart, RecvPreSelect, RecvTimeout, RecvReady, RecvPick, RecvUnregistered
<1>7. ASSUME NEW n \in 0..MaxPerRead, RecvPackets(n) PROVE CastInv'
  <2> DEFINE c == client_fd
  <2>1. n \in Nat /\ c \in Clients /\ read[c] \in Nat /\ read \in [Clients -> Nat]
    BY <1>7, ClientsAre, BoundsAssumption DEF RecvPackets, Types, Counted
  <2>2. /\ pkts' = [i \in 1..n |-> <<c, read[c] + i>>]
        /\ read' = [read EXCEPT ![c] = read[c] + n]
        /\ rpc' = IF n = 0 THEN "idle" ELSE "process"
        /\ UNCHANGED <<client_fd, left, raced, state>> /\ client_state' # "error"
    BY <1>7 DEF RecvPackets
  <2> HIDE DEF c
  <2>3. read'[c] = read[c] + n /\ DOMAIN pkts' = 1..n /\ Len(pkts') = n
        /\ \A i \in 1..n : pkts'[i] = <<c, read[c] + i>>
    BY <2>1, <2>2
  <2>4. n > 0 => pkts'[1][1] = c
    BY <2>1, <2>3
  <2>5. \A i \in 1..n : pkts'[i] = <<c, read'[c] + i - n>>
    BY <2>1, <2>3
  <2>6. InHand'
    BY <2>1, <2>2, <2>3, <2>4, <2>5
  <2>7. OneByOne'
    BY <1>7, <2>1, <2>2, <2>3, <2>4 DEF c
  <2> QED
    BY <2>2, <2>6, <2>7
<1>8. CASE CastBegin
  <2>1. CastFrom(1, client_fd) /\ 1 \in 1..(Len(client_fds) + 1) /\ last_client' = client_fd
        /\ UNCHANGED <<client_fds, read, raced, left, state, client_state>>
    BY <1>8 DEF CastBegin, Types
  <2>2. Casting /\ client_fd = LeftOut
    BY <1>8 DEF CastBegin
  <2> HIDE DEF CastInv, Casting, LeftOut
  <2> QED
    BY <2>1, <2>2, CastFromKeeps
<1>9. CASE CastNext
  <2>1. CastFrom(next, last_client) /\ next \in 1..(Len(client_fds) + 1) /\ last_client' = last_client
        /\ UNCHANGED <<client_fds, read, raced, left, state, client_state>>
    BY <1>9 DEF CastNext, Types
  <2>2. Casting /\ last_client = LeftOut
    BY <1>9 DEF CastNext
  <2> HIDE DEF CastInv, Casting, LeftOut
  <2> QED
    BY <2>1, <2>2, CastFromKeeps
<1>10. CASE SendPreSelect
  BY <1>10 DEF SendPreSelect
<1>11. CASE SendPostSelect
  BY <1>11 DEF SendPostSelect, SetState
<1>12. CASE RecvReset
  BY <1>12 DEF RecvReset
<1>13. CASE SendFails
  BY <1>13 DEF SendFails, SetState
<1>14. CASE SendTimesOut
  BY <1>14 DEF SendTimesOut
<1>15. ASSUME NEW c \in Clients, ClientSends(c) \/ ClientLeaves(c) PROVE CastInv'
  BY <1>15 DEF ClientSends, ClientLeaves
<1> HIDE DEF vars, listenerVars, receiverVars, readVars, castVars, stateVars, clientVars, others,
            CastInv, InHand, Aimed, OneByOne, NoError, Casting, LeftOut
<1> QED
  BY <1>1, <1>2, <1>3, <1>4, <1>5, <1>6, <1>7, <1>8, <1>9, <1>10, <1>11, <1>12, <1>13, <1>14,
     <1>15 DEF Next, Listener, Receiver, Spins

----------------------------------------------------------------------------
(***************************************************************************)
(* What a step does to what was read and what the clients have got, unless *)
(* somebody is accepted at the wrong moment.                               *)
(***************************************************************************)
Rests == ~Casting /\ ~Casting' /\ UNCHANGED <<read, inbox>>

Reads(c, n) ==
  /\ ~Casting /\ rpc' = "process" /\ n # 0 /\ n <= MaxPerRead
  /\ pkts' = [i \in 1..n |-> <<c, read[c] + i>>]
  /\ read' = [read EXCEPT ![c] = read[c] + n]
  /\ ToSet(Early) \subseteq Due' /\ UNCHANGED inbox

Keeps ==
  /\ Casting /\ Casting' /\ UNCHANGED <<read, inbox, pkts>>
  /\ Due' \subseteq Due /\ (Due \subseteq Due' \cup {LeftOut} \/ left # {})

Ends ==
  /\ Casting /\ UNCHANGED <<read, inbox>>
  /\ Casting' => rpc' = "process" /\ pkts' = Tail(pkts)
  /\ Due \subseteq {LeftOut} \/ left # {}

Sends ==
  /\ Casting /\ Casting' /\ UNCHANGED <<read, pkts>>
  /\ this_socket \in Clients /\ this_socket \in Due \ {LeftOut} /\ Due' = Due \ {this_socket}
  /\ inbox' = [inbox EXCEPT ![this_socket] = Append(inbox[this_socket], pkts[1])]

Step == Rests \/ Keeps \/ Ends \/ Sends \/ \E c \in Clients, n \in Nat : Reads(c, n)

LEMMA CastFromStep ==
  ASSUME Types, Casting, NEW last, last = LeftOut, CastFrom(First, last), rpc \in {"process", "next"},
         UNCHANGED <<client_fds, read, inbox>>
  PROVE  Step
<1>1. Len(client_fds) \in Nat /\ First \in 1..(Len(client_fds) + 1)
  BY DEF Types, First
<1>2. CASE /\ \A j \in First..Len(client_fds) : client_fds[j] = last
           /\ pkts' = Tail(pkts) /\ rpc' = IF pkts' = <<>> THEN "idle" ELSE "process"
  <2>1. Due \subseteq {LeftOut}
    BY <1>2 DEF Due
  <2> QED
    BY <1>2, <2>1 DEF Step, Ends, Casting
<1>3. ASSUME NEW j \in First..Len(client_fds),
             \A k \in First..(j - 1) : client_fds[k] = last,
             next' = j + 1, rpc' = "send", UNCHANGED pkts
      PROVE  Step
  <2>1. First' = j
    BY <1>1, <1>3 DEF First
  <2>2. Due' = {client_fds[k] : k \in j..Len(client_fds)}
    BY <2>1 DEF Due
  <2>5. \A k \in j..Len(client_fds) : k \in First..Len(client_fds)
    BY <1>1, <1>3
  <2>3. Due' \subseteq Due
    BY <2>2, <2>5 DEF Due
  <2>4. Due \subseteq Due' \cup {LeftOut}
    <3> SUFFICES ASSUME NEW k \in First..Len(client_fds), client_fds[k] # LeftOut
                 PROVE  client_fds[k] \in Due'
      BY DEF Due
    <3>1. k \in j..Len(client_fds)
      BY <1>1, <1>3
    <3> QED
      BY <2>2, <3>1
  <2> QED
    BY <1>3, <2>3, <2>4 DEF Step, Keeps, Casting
<1> QED
  BY <1>2, <1>3 DEF CastFrom

(* From the client that is sent to, on to the one after it.                *)
LEMMA PastOne ==
  ASSUME Types, Aimed, ~raced, rpc \in {"send", "sending"}, rpc' = "next", UNCHANGED <<client_fds, next>>
  PROVE  client_fd \in Clients /\ client_fd \in Due \ {LeftOut} /\ Due' = Due \ {client_fd}
<1>1. /\ next > 1 /\ client_fd = client_fds[next - 1] /\ client_fd # LeftOut
      /\ next \in 1..(Len(client_fds) + 1) /\ Len(client_fds) \in Nat
      /\ DOMAIN client_fds = 1..Len(client_fds)
  BY ClientsAre DEF Aimed, LeftOut, Types
<1>2. First = next - 1 /\ First' = next
  BY DEF First
<1>3. \A i, j \in 1..Len(client_fds) : client_fds[i] = client_fds[j] => i = j
  BY <1>1 DEF Types, IsInjective
<1>4. client_fd \in Due
  BY <1>1, <1>2 DEF Due
<1>5. Due' = {client_fds[j] : j \in next..Len(client_fds)}
  BY <1>2 DEF Due
<1>6. \A j \in (next - 1)..Len(client_fds) : (client_fds[j] = client_fd) = (j = next - 1)
  BY <1>1, <1>3
<1>7. Due' = Due \ {client_fd}
  BY <1>1, <1>2, <1>5, <1>6 DEF Due
<1>8. client_fd \in Clients
  BY <1>1, ClientsAre
<1> QED
  BY <1>1, <1>4, <1>7, <1>8

LEMMA Steps == Types /\ CastInv /\ [Next]_vars /\ ~raced' => Step
<1> SUFFICES ASSUME Types, CastInv, [Next]_vars, ~raced' PROVE Step
  OBVIOUS
<1> USE DEF vars, listenerVars, receiverVars, readVars, castVars, stateVars, clientVars, others
<1>1. ASSUME UNCHANGED <<rpc, next, read, inbox, pkts>>, UNCHANGED client_fds \/ ~Casting PROVE Step
  <2>1. Casting' = Casting
    BY <1>1 DEF Casting
  <2>2. Casting => Due' = Due
    BY <1>1 DEF Due, First
  <2> QED
    BY <1>1, <2>1, <2>2 DEF Step, Rests, Keeps
<1>2. CASE Listener \/ UNCHANGED vars
  <2>1. UNCHANGED <<rpc, next, read, inbox, pkts>>
    BY <1>2 DEF Listener, AcceptPreSelect, AcceptTimeout, Accept, Register
  <2>2. UNCHANGED client_fds \/ ~Casting
    BY <1>2 DEF Listener, AcceptPreSelect, AcceptTimeout, Accept, Register, AtWork, Casting
  <2> QED
    BY <1>1, <2>1, <2>2
<1>3. CASE RecvStart \/ RecvPreSelect \/ RecvTimeout \/ RecvReady \/ RecvPick \/ RecvUnregistered \/ RecvReset
  <2>1. ~Casting /\ ~Casting' /\ UNCHANGED <<read, inbox>>
    BY <1>3 DEF RecvStart, RecvPreSelect, RecvTimeout, RecvReady, RecvPick, RecvUnregistered,
                RecvReset, Casting
  <2> QED
    BY <2>1 DEF Step, Rests
<1>4. ASSUME NEW n \in 0..MaxPerRead, RecvPackets(n) PROVE Step
  <2> DEFINE c == client_fd
  <2>1. n \in Nat /\ n <= MaxPerRead /\ c \in Clients /\ read[c] \in Nat /\ read \in [Clients -> Nat]
    BY <1>4, ClientsAre, BoundsAssumption DEF RecvPackets, Types, Counted
  <2>2. /\ pkts' = [i \in 1..n |-> <<c, read[c] + i>>]
        /\ read' = [read EXCEPT ![c] = read[c] + n]
        /\ rpc' = (IF n = 0 THEN "idle" ELSE "process") /\ inbox' = inbox /\ rpc = "lookup"
        /\ client_fds' = client_fds
    BY <1>4 DEF RecvPackets
  <2> HIDE DEF c
  <2>3. CASE n = 0
    <3>1. read' = read
      BY <2>1, <2>2, <2>3
    <3> QED
      BY <2>2, <2>3, <3>1 DEF Step, Rests, Casting
  <2>4. CASE n # 0
    <3>2. Due' = {client_fds[j] : j \in 1..Len(client_fds)}
      BY <2>2, <2>4 DEF Due, First
    <3>3. ToSet(Early) \subseteq Due'
      BY <3>2, ClientsAre DEF Types, ToSet
    <3>1. Reads(c, n)
      BY <2>1, <2>2, <2>4, <3>3 DEF Reads, Casting
    <3> QED
      BY <2>1, <3>1 DEF Step
  <2> QED
    BY <2>3, <2>4
<1>5. CASE CastBegin
  <2>1. Casting /\ client_fd = LeftOut /\ First = 1 /\ rpc = "process"
    BY <1>5 DEF CastBegin, Casting, LeftOut, First
  <2>2. CastFrom(First, client_fd) /\ UNCHANGED <<client_fds, read, inbox>>
    BY <1>5, <2>1 DEF CastBegin
  <2> QED
    BY <2>1, <2>2, CastFromStep
<1>6. CASE CastNext
  <2>1. Casting /\ last_client = LeftOut /\ First = next /\ rpc = "next"
    BY <1>6 DEF CastNext, Casting, LeftOut, First
  <2>2. CastFrom(First, last_client) /\ UNCHANGED <<client_fds, read, inbox>>
    BY <1>6, <2>1 DEF CastNext
  <2> QED
    BY <2>1, <2>2, CastFromStep
<1>7. CASE SendPreSelect
  <2>1. /\ UNCHANGED <<client_fds, next, read, inbox, pkts, raced>> /\ rpc = "send"
        /\ rpc' = "sending" \/ (rpc' = "next" /\ left # {})
    BY <1>7 DEF SendPreSelect, CastInv, NoError
  <2>2. CASE rpc' = "sending"
    BY <2>1, <2>2 DEF Step, Keeps, Casting, Due, First
  <2>3. CASE rpc' = "next" /\ left # {}
    <3>1. Due' \subseteq Due
      BY <2>1, <2>3, PastOne DEF CastInv
    <3> QED
      BY <2>1, <2>3, <3>1 DEF Step, Keeps, Casting
  <2> QED
    BY <2>1, <2>2, <2>3
<1>8. CASE SendPostSelect
  <2>1. /\ UNCHANGED <<client_fds, next, read, pkts, raced>> /\ rpc = "sending" /\ rpc' = "next"
        /\ inbox' = [inbox EXCEPT ![this_socket] = Append(inbox[this_socket], pkts[1])]
    BY <1>8 DEF SendPostSelect
  <2>2. this_socket \in Clients /\ this_socket \in Due \ {LeftOut} /\ Due' = Due \ {this_socket}
    BY <2>1, PastOne DEF CastInv, Aimed
  <2> QED
    BY <2>1, <2>2 DEF Step, Sends, Casting
<1>9. CASE SendFails
  <2>1. /\ UNCHANGED <<client_fds, next, read, inbox, pkts, raced>> /\ rpc = "sending"
        /\ rpc' = "next" /\ left # {}
    BY <1>9 DEF SendFails
  <2>2. Due' \subseteq Due
    BY <2>1, PastOne DEF CastInv
  <2> QED
    BY <2>1, <2>2 DEF Step, Keeps, Casting
<1>10. CASE SendTimesOut
  BY <1>10 DEF SendTimesOut, Step, Ends, Casting
<1>11. ASSUME NEW c \in Clients, ClientSends(c) \/ ClientLeaves(c) PROVE Step
  <2>1. UNCHANGED <<client_fds, rpc, next, read, inbox, pkts>>
    BY <1>11 DEF ClientSends, ClientLeaves
  <2> QED
    BY <1>1, <2>1
<1> HIDE DEF vars, listenerVars, receiverVars, readVars, castVars, stateVars, clientVars, others
<1> QED
  BY <1>2, <1>3, <1>4, <1>5, <1>6, <1>7, <1>8, <1>9, <1>10, <1>11 DEF Next, Receiver, Spins

LEMMA Grows == Types /\ [Next]_vars => left \subseteq left' /\ (~raced' => ~raced)
<1> SUFFICES ASSUME raced \in BOOLEAN, [Next]_vars PROVE left \subseteq left' /\ (~raced' => ~raced)
  BY DEF Types
<1> USE DEF vars, listenerVars, receiverVars, readVars, castVars, stateVars, clientVars, others
<1>5. ASSUME UNCHANGED vars PROVE left' = left /\ raced' = raced
  BY <1>5
<1>1. ASSUME Listener PROVE left' = left /\ (~raced' => ~raced)
  <2>1. ASSUME NEW c \in Late, Accept(c) PROVE left' = left /\ (~raced' => ~raced)
    BY <2>1 DEF Accept
  <2> QED
    BY <1>1, <2>1 DEF Listener, AcceptPreSelect, AcceptTimeout, Register
<1>2. ASSUME Receiver PROVE left' = left /\ (~raced' => ~raced)
  <2>1. ASSUME RecvReady PROVE left' = left /\ (~raced' => ~raced)
    BY <2>1 DEF RecvReady
  <2> QED
    BY <1>2, <2>1 DEF Receiver, RecvStart, RecvPreSelect, RecvTimeout, RecvPick, RecvUnregistered,
                RecvPackets, CastBegin, CastNext, SendPreSelect, SendPostSelect
<1>3. ASSUME RecvReset \/ SendFails \/ SendTimesOut PROVE left' = left /\ raced' = raced
  BY <1>3 DEF RecvReset, SendFails, SendTimesOut
<1>4. ASSUME NEW c \in Clients, ClientSends(c) \/ ClientLeaves(c)
      PROVE  left \subseteq left' /\ raced' = raced
  BY <1>4 DEF ClientSends, ClientLeaves
<1> HIDE DEF vars, listenerVars, receiverVars, readVars, castVars, stateVars, clientVars, others
<1>6. ASSUME Next PROVE left \subseteq left' /\ (~raced' => ~raced)
  BY <1>1, <1>2, <1>3, <1>4, <1>5, <1>6 DEF Next, Spins
<1> QED
  BY <1>5, <1>6

(* The packet that is being sent, and the client it is appended for.       *)
LEMMA FirstInHand ==
  ASSUME Types, InHand, Casting
  PROVE  /\ pkts[1] \in Packets /\ pkts[1][1] \in Clients /\ pkts[1][2] \in Nat \ {0}
         /\ pkts[1] = <<pkts[1][1], pkts[1][2]>>
         /\ read[pkts[1][1]] \in Nat
         /\ pkts[1][2] <= read[pkts[1][1]]
         /\ Len(pkts) = 1 => pkts[1][2] = read[pkts[1][1]]
<1>1. /\ pkts \in Seq(Packets) /\ pkts # <<>> /\ Len(pkts) \in Nat /\ Len(pkts) >= 1
      /\ 1 \in DOMAIN pkts
  BY DEF Types
<1>2. pkts[1] \in Packets
  BY <1>1
<1>3. pkts[1][1] \in Clients /\ pkts[1][2] \in 1..MaxPackets[pkts[1][1]] /\ pkts[1][2] \in Nat
      /\ pkts[1] = <<pkts[1][1], pkts[1][2]>>
  BY <1>2, PacketIs
<1>4. read[pkts[1][1]] \in Nat /\ MaxPackets[pkts[1][1]] \in Nat
  BY <1>3, BoundsAssumption DEF Types, Counted
<1>5. pkts[1][2] = read[pkts[1][1]] + 1 - Len(pkts)
  BY <1>1, <1>3 DEF InHand
<1> QED
  BY <1>1, <1>2, <1>3, <1>4, <1>5

LEMMA InboxesAre ==
  ASSUME Types, NEW c \in Clients
  PROVE  /\ inbox[c] \in Seq(Packets) /\ Len(inbox[c]) \in Nat /\ DOMAIN inbox[c] = 1..Len(inbox[c])
         /\ \A i \in 1..Len(inbox[c]) : inbox[c][i] \in ToSet(inbox[c])
         /\ \A p \in ToSet(inbox[c]) : p \in Packets /\ p[1] \in Clients /\ p[2] \in Nat
<1>1. inbox[c] \in Seq(Packets)
  BY DEF Types
<1>2. \A p \in ToSet(inbox[c]) : p \in Packets
  BY <1>1 DEF ToSet
<1> QED
  BY <1>1, <1>2, PacketIs DEF ToSet

LEMMA InboxGrows ==
  ASSUME Types, InHand, Sends, NEW c \in Clients
  PROVE  /\ c # this_socket => inbox'[c] = inbox[c]
         /\ c = this_socket =>
              /\ DOMAIN inbox'[c] = 1..(Len(inbox[c]) + 1)
              /\ \A i \in 1..Len(inbox[c]) : inbox'[c][i] = inbox[c][i]
              /\ inbox'[c][Len(inbox[c]) + 1] = pkts[1]
              /\ ToSet(inbox'[c]) = ToSet(inbox[c]) \cup {pkts[1]}
<1>1. inbox[c] \in Seq(Packets) /\ pkts[1] \in Packets
  BY InboxesAre, FirstInHand DEF Sends
<1>2. inbox \in [Clients -> Seq(Packets)]
  BY DEF Types
<1>3. inbox'[c] = IF c = this_socket THEN Append(inbox[c], pkts[1]) ELSE inbox[c]
  BY <1>2 DEF Sends
<1>4. ToSet(Append(inbox[c], pkts[1])) = ToSet(inbox[c]) \cup {pkts[1]}
  BY <1>1, OneMore
<1> QED
  BY <1>1, <1>3, <1>4, AppendProperties

----------------------------------------------------------------------------
(***************************************************************************)
(* What the clients have got.                                              *)
(***************************************************************************)
Behind ==
  ~raced => \A c \in Clients : \A p \in ToSet(inbox[c]) :
    IF Casting /\ p[1] = pkts[1][1]
    THEN p[2] <= pkts[1][2] /\ (c \in Due => p[2] # pkts[1][2])
    ELSE p[2] <= read[p[1]]

LEMMA KeepsBehind == Types /\ Types' /\ CastInv /\ CastInv' /\ Behind /\ [Next]_vars => Behind'
<1> SUFFICES ASSUME Types, Types', CastInv, CastInv', Behind, [Next]_vars, ~raced', ~raced, Step
             PROVE  Behind'
  BY Steps, Grows DEF Behind
<1>1. InHand /\ InHand'
  BY DEF CastInv
<1> DEFINE s == pkts[1][1]
           k == pkts[1][2]
<1>2. Casting => s \in Clients /\ k \in Nat /\ k <= read[s] /\ read[s] \in Nat
  BY <1>1, FirstInHand
<1> SUFFICES ASSUME NEW c \in Clients, NEW p \in ToSet(inbox'[c])
             PROVE  IF Casting' /\ p[1] = pkts'[1][1]
                    THEN p[2] <= pkts'[1][2] /\ (c \in Due' => p[2] # pkts'[1][2])
                    ELSE p[2] <= read'[p[1]]
  BY DEF Behind
<1> DEFINE Here == IF Casting /\ p[1] = s THEN p[2] <= k /\ (c \in Due => p[2] # k)
                   ELSE p[2] <= read[p[1]]
<1>3. ASSUME p \in ToSet(inbox[c]) PROVE Here /\ p[1] \in Clients /\ p[2] \in Nat
  <2>1. p[1] \in Clients /\ p[2] \in Nat
    BY <1>3, InboxesAre
  <2>2. Here
    BY <1>3 DEF Behind
  <2> QED
    BY <2>1, <2>2
<1>4. CASE Rests
  BY <1>3, <1>4 DEF Rests
<1>5. ASSUME NEW d \in Clients, NEW n \in Nat, Reads(d, n) PROVE
        IF Casting' /\ p[1] = pkts'[1][1]
        THEN p[2] <= pkts'[1][2] /\ (c \in Due' => p[2] # pkts'[1][2]) ELSE p[2] <= read'[p[1]]
  <2>1. Here /\ p[1] \in Clients /\ p[2] \in Nat /\ ~Casting
    BY <1>3, <1>5 DEF Reads
  <2>2. read[d] \in Nat /\ read \in [Clients -> Nat] /\ 1 \in 1..n
    BY <1>5 DEF Types, Counted, Reads
  <2>3. pkts'[1] = <<d, read[d] + 1>>
    BY <1>5, <2>2 DEF Reads
  <2>4. \A e \in Clients : read'[e] = IF e = d THEN read[d] + n ELSE read[e]
    BY <1>5, <2>2 DEF Reads
  <2> QED
    BY <2>1, <2>2, <2>3, <2>4
<1>6. CASE Keeps
  BY <1>3, <1>6 DEF Keeps
<1>7. CASE Ends
  <2>1. Here /\ p[1] \in Clients /\ p[2] \in Nat /\ read' = read /\ Casting
    BY <1>3, <1>7 DEF Ends
  <2>2. p[2] <= read[p[1]]
    BY <1>2, <2>1
  <2>3. ASSUME Casting' PROVE pkts'[1] = <<s, k + 1>>
    <3>1. pkts' = Tail(pkts) /\ pkts' # <<>> /\ pkts \in Seq(Packets) /\ pkts # <<>>
      BY <1>7, <2>3 DEF Ends, Types
    <3>2. 2 \in DOMAIN pkts /\ pkts'[1] = pkts[2] /\ 1 \in DOMAIN pkts /\ Len(pkts) \in Nat
      BY <3>1, HeadTailProperties
    <3>3. pkts[2] = <<s, read[s] + 2 - Len(pkts)>> /\ pkts[1] = <<s, read[s] + 1 - Len(pkts)>>
      BY <1>1, <2>1, <3>2 DEF InHand
    <3>4. k = read[s] + 1 - Len(pkts)
      BY <3>3
    <3> QED
      BY <1>2, <2>1, <3>2, <3>3, <3>4
  <2> HIDE DEF s, k
  <2> QED
    BY <1>2, <2>1, <2>2, <2>3
<1>8. CASE Sends
  <2>1. Casting /\ Casting' /\ read' = read /\ pkts' = pkts /\ Due' = Due \ {this_socket}
    BY <1>8 DEF Sends
  <2>2. CASE p \in ToSet(inbox[c])
    BY <1>3, <2>1, <2>2
  <2>3. CASE c = this_socket /\ p = pkts[1]
    BY <1>2, <2>1, <2>3
  <2> QED
    BY <1>1, <1>8, <2>2, <2>3, InboxGrows
<1> QED
  BY <1>4, <1>5, <1>6, <1>7, <1>8 DEF Step

LEMMA StrictlyBelow ==
  ASSUME NEW a \in Nat, NEW b \in Nat, a <= b, a # b
  PROVE  a < b
  OBVIOUS

LEMMA KeepsOrder == Types /\ CastInv /\ Behind /\ InOrder /\ [Next]_vars => InOrder'
<1> SUFFICES ASSUME Types, CastInv, Behind, InOrder, [Next]_vars, ~raced', ~raced, Step
             PROVE  InOrder'
  BY Steps, Grows DEF InOrder
<1>1. CASE inbox' = inbox
  BY <1>1 DEF InOrder
<1>2. CASE Sends
  <2> SUFFICES ASSUME NEW c \in Clients, NEW i \in DOMAIN inbox'[c], NEW j \in DOMAIN inbox'[c],
                      i < j, inbox'[c][i][1] = inbox'[c][j][1]
               PROVE  inbox'[c][i][2] < inbox'[c][j][2]
    BY DEF InOrder
  <2>1. InHand /\ Casting
    BY <1>2 DEF CastInv, Sends
  <2>2. CASE c # this_socket
    <3>1. inbox'[c] = inbox[c]
      BY <1>2, <2>1, <2>2, InboxGrows
    <3> QED
      BY <3>1 DEF InOrder
  <2>3. CASE c = this_socket
    <3> DEFINE L == Len(inbox[c])
    <3>1. /\ DOMAIN inbox'[c] = 1..(L + 1) /\ inbox'[c][L + 1] = pkts[1]
          /\ \A x \in 1..L : inbox'[c][x] = inbox[c][x]
      BY <1>2, <2>1, <2>3, InboxGrows
    <3>2. L \in Nat /\ DOMAIN inbox[c] = 1..L
          /\ \A x \in 1..L : inbox[c][x] \in ToSet(inbox[c])
          /\ \A p \in ToSet(inbox[c]) : p[2] \in Nat
      BY InboxesAre
    <3>3. \A p \in ToSet(inbox[c]) : p[1] = pkts[1][1] => p[2] < pkts[1][2]
      <4>1. c \in Due /\ pkts[1][2] \in Nat
        BY <1>2, <2>1, <2>3, FirstInHand DEF Sends
      <4>2. ASSUME NEW p \in ToSet(inbox[c]), p[1] = pkts[1][1] PROVE p[2] < pkts[1][2]
        <5>1. p[2] <= pkts[1][2] /\ p[2] # pkts[1][2]
          BY <2>1, <4>1, <4>2 DEF Behind
        <5>2. p[2] \in Nat
          BY <4>2, InboxesAre
        <5>3. pkts[1][2] \in Nat
          BY <4>1
        <5> QED
          BY <5>1, <5>2, <5>3, StrictlyBelow
      <4> QED
        BY <4>2
    <3> HIDE DEF L
    <3>4. CASE j = L + 1
      <4>1. i \in 1..L
        BY <3>1, <3>2, <3>4
      <4> QED
        BY <3>1, <3>2, <3>3, <3>4, <4>1
    <3>5. CASE j \in 1..L
      <4>1. i \in 1..L
        BY <3>1, <3>2, <3>5
      <4> QED
        BY <3>1, <3>2, <3>5, <4>1 DEF InOrder
    <3> QED
      BY <3>1, <3>2, <3>4, <3>5
  <2> QED
    BY <2>2, <2>3
<1> QED
  BY <1>1, <1>2 DEF Step, Rests, Reads, Keeps, Ends

(* Each client gets what another sent in order and none of it twice, if    *)
(* nobody is accepted while the receiver is at work.                       *)
THEOREM PacketsInOrder == Spec => []InOrder
<1>1. Init => Types /\ CastInv /\ Behind /\ InOrder
  <2>1. ASSUME Init PROVE \A c \in Clients : DOMAIN inbox[c] = {}
    BY <2>1 DEF Init
  <2> QED
    BY <2>1, InitTypes, InitCast DEF Behind, InOrder, ToSet
<1>2. Types /\ CastInv /\ Behind /\ InOrder /\ [Next]_vars => (Types /\ CastInv /\ Behind /\ InOrder)'
  BY KeepsTypes, KeepsCast, KeepsBehind, KeepsOrder
<1> QED
  BY <1>1, <1>2, PTL DEF Spec

(***************************************************************************)
(* With one packet for a read, its sender is left out, and every other     *)
(* client that was there from the beginning gets it.                       *)
(***************************************************************************)
LEMMA KeepsSilent ==
  MaxPerRead = 1 /\ Types /\ CastInv /\ NoEcho /\ [Next]_vars => NoEcho'
<1> SUFFICES ASSUME MaxPerRead = 1, Types, CastInv, NoEcho, [Next]_vars, ~raced', ~raced, Step
             PROVE  NoEcho'
  BY Steps, Grows DEF NoEcho
<1>1. CASE inbox' = inbox
  BY <1>1 DEF NoEcho
<1>2. CASE Sends
  <2> SUFFICES ASSUME NEW c \in Clients, NEW i \in DOMAIN inbox'[c] PROVE inbox'[c][i][1] # c
    BY DEF NoEcho
  <2>1. InHand /\ LeftOut = pkts[1][1]
    BY <1>2 DEF CastInv, OneByOne, Sends
  <2>2. CASE c # this_socket
    <3>1. inbox'[c] = inbox[c]
      BY <1>2, <2>1, <2>2, InboxGrows
    <3> QED
      BY <3>1 DEF NoEcho
  <2>3. CASE c = this_socket
    <3>1. /\ DOMAIN inbox'[c] = 1..(Len(inbox[c]) + 1) /\ inbox'[c][Len(inbox[c]) + 1] = pkts[1]
          /\ \A x \in 1..Len(inbox[c]) : inbox'[c][x] = inbox[c][x]
      BY <1>2, <2>1, <2>3, InboxGrows
    <3>2. Len(inbox[c]) \in Nat /\ DOMAIN inbox[c] = 1..Len(inbox[c])
      BY InboxesAre
    <3>3. pkts[1][1] # c
      BY <1>2, <2>1, <2>3 DEF Sends
    <3>4. CASE i \in 1..Len(inbox[c])
      BY <3>1, <3>2, <3>4 DEF NoEcho
    <3>5. CASE i = Len(inbox[c]) + 1
      BY <3>1, <3>3, <3>5
    <3> QED
      BY <3>1, <3>2, <3>4, <3>5
  <2> QED
    BY <2>2, <2>3
<1> QED
  BY <1>1, <1>2 DEF Step, Rests, Reads, Keeps, Ends

(* Nobody gets back what it sent.  The hypothesis is that a read returns   *)
(* one packet, without which it is not so (MCBcasterBatch).                *)
THEOREM NothingComesBack == MaxPerRead = 1 /\ Spec => []NoEcho
<1> SUFFICES ASSUME MaxPerRead = 1 PROVE Spec => []NoEcho
  OBVIOUS
<1>1. Init => Types /\ CastInv /\ NoEcho
  <2>1. ASSUME Init PROVE \A c \in Clients : DOMAIN inbox[c] = {}
    BY <2>1 DEF Init
  <2> QED
    BY <2>1, InitTypes, InitCast DEF NoEcho
<1>2. Types /\ CastInv /\ NoEcho /\ [Next]_vars => (Types /\ CastInv /\ NoEcho)'
  BY KeepsTypes, KeepsCast, KeepsSilent
<1> QED
  BY <1>1, <1>2, PTL DEF Spec

(* How many packets of s are to be with c by now.                          *)
Upto(s, c) == IF Casting /\ s = pkts[1][1] /\ c \in Due THEN read[s] - 1 ELSE read[s]

Delivered ==
  ~raced /\ left = {} =>
    \A s \in Clients, c \in ToSet(Early) : s # c => Got(s, c) = {s} \X (1..Upto(s, c))

LEMMA KeepsDelivered ==
  MaxPerRead = 1 /\ Types /\ Types' /\ CastInv /\ CastInv' /\ Delivered /\ [Next]_vars => Delivered'
<1> SUFFICES ASSUME MaxPerRead = 1, Types, Types', CastInv, CastInv', Delivered, [Next]_vars,
                    ~raced', ~raced, left' = {}, left = {}, Step,
                    NEW s \in Clients, NEW c \in ToSet(Early), s # c
             PROVE  Got(s, c)' = {s} \X (1..Upto(s, c)')
  <2>1. Types /\ CastInv /\ [Next]_vars /\ ~raced' /\ left' = {} => ~raced /\ left = {} /\ Step
    BY Steps, Grows
  <2> QED
    BY <2>1 DEF Delivered
<1>1. Got(s, c) = {s} \X (1..Upto(s, c)) /\ c \in Clients
  BY DEF Delivered, Clients
<1>2. read[s] \in Nat /\ read \in [Clients -> Nat]
  BY DEF Types, Counted
<1>3. Casting => /\ Len(pkts) = 1 /\ LeftOut = pkts[1][1]
                 /\ pkts[1] = <<pkts[1][1], read[pkts[1][1]]>>
                 /\ read[pkts[1][1]] \in Nat \ {0}
  <2> SUFFICES ASSUME Casting
               PROVE  /\ Len(pkts) = 1 /\ LeftOut = pkts[1][1]
                      /\ pkts[1] = <<pkts[1][1], read[pkts[1][1]]>>
                      /\ read[pkts[1][1]] \in Nat \ {0}
    OBVIOUS
  <2>1. Len(pkts) = 1 /\ LeftOut = pkts[1][1] /\ InHand
    BY DEF CastInv, OneByOne
  <2>2. /\ pkts[1][2] \in Nat \ {0} /\ pkts[1] = <<pkts[1][1], pkts[1][2]>>
        /\ pkts[1][2] = read[pkts[1][1]]
    BY <2>1, FirstInHand
  <2> QED
    BY <2>1, <2>2
<1>4. UNCHANGED inbox => Got(s, c)' = Got(s, c)
  BY DEF Got
<1>5. CASE Rests
  <2>1. Upto(s, c)' = Upto(s, c)
    BY <1>5 DEF Rests, Upto
  <2> QED
    BY <1>1, <1>4, <1>5, <2>1 DEF Rests
<1>6. ASSUME NEW d \in Clients, NEW n \in Nat, Reads(d, n) PROVE Got(s, c)' = {s} \X (1..Upto(s, c)')
  <2>1. n = 1 /\ c \in Due' /\ Casting' /\ ~Casting
    BY <1>6, BoundsAssumption DEF Reads, Casting
  <2>2. pkts' = [i \in 1..1 |-> <<d, read[d] + i>>] /\ read' = [read EXCEPT ![d] = read[d] + 1]
    BY <1>6, <2>1 DEF Reads
  <2>3. pkts'[1] = <<d, read[d] + 1>> /\ pkts'[1][1] = d
    BY <2>2
  <2>4. read'[s] = IF s = d THEN read[s] + 1 ELSE read[s]
    BY <1>2, <2>2
  <2>5. Upto(s, c)' = read[s] /\ Upto(s, c) = read[s]
    BY <1>2, <2>1, <2>3, <2>4 DEF Upto
  <2> QED
    BY <1>1, <1>4, <1>6, <2>5 DEF Reads
<1>7. CASE Keeps
  <2>1. Casting /\ Casting' /\ UNCHANGED <<read, inbox, pkts>>
        /\ Due' \subseteq Due /\ Due \subseteq Due' \cup {LeftOut}
    BY <1>7 DEF Keeps
  <2>2. s = pkts[1][1] => (c \in Due' <=> c \in Due)
    BY <1>3, <2>1
  <2>3. Upto(s, c)' = Upto(s, c)
    BY <2>1, <2>2 DEF Upto
  <2> QED
    BY <1>1, <1>4, <2>1, <2>3
<1>8. CASE Ends
  <2>1. Casting /\ UNCHANGED <<read, inbox>> /\ Due \subseteq {LeftOut}
        /\ (Casting' => pkts' = Tail(pkts))
    BY <1>8 DEF Ends
  <2>2. ~Casting'
    <3> SUFFICES ASSUME Casting' PROVE FALSE
      OBVIOUS
    <3>1. pkts \in Seq(Packets) /\ pkts # <<>> /\ pkts' # <<>> /\ pkts' = Tail(pkts)
      BY <2>1 DEF Types
    <3>2. Tail(pkts) \in Seq(Packets) /\ Len(Tail(pkts)) = 0
      BY <1>3, <2>1, <3>1, HeadTailProperties
    <3> QED
      BY <3>1, <3>2, EmptySeq
  <2>3. Upto(s, c)' = read[s]
    BY <2>1, <2>2 DEF Upto
  <2>4. Upto(s, c) = read[s]
    BY <1>3, <2>1 DEF Upto
  <2> QED
    BY <1>1, <1>4, <2>1, <2>3, <2>4
<1>9. CASE Sends
  <2>1. /\ Casting /\ Casting' /\ read' = read /\ pkts' = pkts
        /\ this_socket \in Due \ {LeftOut} /\ Due' = Due \ {this_socket} /\ InHand
    BY <1>9 DEF Sends, CastInv
  <2>2. CASE c = this_socket /\ s = pkts[1][1]
    <3>1. Upto(s, c)' = read[s] /\ Upto(s, c) = read[s] - 1 /\ read[s] \in Nat \ {0}
      BY <1>3, <2>1, <2>2 DEF Upto
    <3>2. ToSet(inbox'[c]) = ToSet(inbox[c]) \cup {<<s, read[s]>>}
      BY <1>1, <1>3, <1>9, <2>1, <2>2, InboxGrows
    <3>3. Got(s, c)' = Got(s, c) \cup {<<s, read[s]>>}
      BY <3>2 DEF Got
    <3>4. 1..read[s] = (1..(read[s] - 1)) \cup {read[s]}
      BY <3>1
    <3> QED
      BY <1>1, <3>1, <3>3, <3>4
  <2>3. CASE c = this_socket /\ s # pkts[1][1]
    <3>1. Upto(s, c)' = Upto(s, c)
      BY <2>1, <2>3 DEF Upto
    <3>2. ToSet(inbox'[c]) = ToSet(inbox[c]) \cup {pkts[1]}
      BY <1>1, <1>9, <2>1, <2>3, InboxGrows
    <3>3. Got(s, c)' = Got(s, c)
      BY <2>3, <3>2 DEF Got
    <3> QED
      BY <1>1, <3>1, <3>3
  <2>4. CASE c # this_socket
    <3>1. inbox'[c] = inbox[c]
      BY <1>1, <1>9, <2>1, <2>4, InboxGrows
    <3>2. Got(s, c)' = Got(s, c)
      BY <3>1 DEF Got
    <3>3. Upto(s, c)' = Upto(s, c)
      BY <2>1, <2>4 DEF Upto
    <3> QED
      BY <1>1, <3>2, <3>3
  <2> QED
    BY <2>2, <2>3, <2>4
<1> QED
  BY <1>5, <1>6, <1>7, <1>8, <1>9 DEF Step

(* Between two iterations every packet that was read is with every other   *)
(* client there was from the beginning, as long as nobody leaves.          *)
THEOREM EachToEveryOther == MaxPerRead = 1 /\ Spec => []DeliveredToOthers
<1> SUFFICES ASSUME MaxPerRead = 1 PROVE Spec => []DeliveredToOthers
  OBVIOUS
<1>1. Init => Types /\ CastInv /\ Delivered
  <2>1. ASSUME Init, NEW s \in Clients, NEW c \in ToSet(Early)
        PROVE  Got(s, c) = {s} \X (1..Upto(s, c))
    <3>1. c \in Clients
      BY DEF Clients
    <3>2. inbox[c] = <<>> /\ Upto(s, c) = 0
      BY <2>1, <3>1 DEF Init, Upto, Casting
    <3> QED
      BY <3>2 DEF Got, ToSet
  <2> QED
    BY <2>1, InitTypes, InitCast DEF Delivered
<1>2. Types /\ CastInv /\ Delivered /\ [Next]_vars => (Types /\ CastInv /\ Delivered)'
  BY KeepsTypes, KeepsCast, KeepsDelivered
<1>3. Delivered => DeliveredToOthers
  BY DEF Delivered, DeliveredToOthers, Upto, Casting
<1> QED
  BY <1>1, <1>2, <1>3, PTL DEF Spec

(* The variables keep to their types.                                      *)
THEOREM BcasterTypes == Spec => []TypeOK
<1>1. Types => TypeOK
  <2> SUFFICES ASSUME Types PROVE TypeOK
    OBVIOUS
  <2>1. ToSet(client_fds) \subseteq Clients /\ fdset \subseteq Clients
    BY ClientsAre
  <2>2. ToSet(buffers) \subseteq Clients \cup {NULL} /\ ToSet(pkts) \subseteq Packets
    BY DEF Types, ToSet
  <2>3. \A c \in Clients : ToSet(inbox[c]) \subseteq Packets /\ read[c] <= sent[c]
    BY InboxesAre DEF Types, Counted
  <2> QED
    BY <2>1, <2>2, <2>3 DEF Types, TypeOK
<1> QED
  BY <1>1, TypesHold, PTL

(***************************************************************************)
(* How the stream of one client is cut into packets (module Framing), for  *)
(* any packets, however recv cuts the stream, and any size of the buffer.  *)
(* CutInv says that the loop is in step with the stream: the byte at       *)
(* next_pkt is the one behind the packets processed, and what is expected  *)
(* there is the length of the packet that starts there.                    *)
(***************************************************************************)
done == Len(processed)

CutTypes ==
  /\ Starts \in StartChoices /\ pos \in Nat /\ next_pkt \in Nat \ {0} /\ bytes_expected \in Nat
  /\ buffer \in Seq(Nat) /\ processed \in Seq(Seq(Nat))

\* What is between the packets processed and the end of what was received is
\* in the buffer from next_pkt on.
InStep ==
  /\ Len(buffer) <= pos /\ pos <= Total /\ next_pkt <= Len(buffer) + 1
  /\ \A k \in 1..Len(buffer) : buffer[k] = pos - Len(buffer) + k
  /\ pos - Len(buffer) + next_pkt - 1 = Starts[done + 1]

\* The length that is expected is that of the next packet.
ExpectsNext ==
  /\ bytes_expected # 0 => bytes_expected = Starts[done + 2] - Starts[done + 1]
  /\ ~looping => /\ next_pkt = 1
                 /\ buffer # <<>> => Len(buffer) < Starts[done + 2] - Starts[done + 1]

CutInv ==
  ~mixed => CutTypes /\ PacketsWhole /\ InStep /\ ExpectsNext

\* Packets start where the ones before them end, and none is shorter than a
\* header.
LEMMA StartsAre ==
  ASSUME CutTypes
  PROVE  /\ Starts \in Seq(Nat) /\ Len(Starts) \in Nat \ {0} /\ DOMAIN Starts = 1..Len(Starts)
         /\ Starts[1] = 0 /\ \A j \in 1..Len(Starts) : Starts[j] \in Nat
         /\ \A j, k \in 1..Len(Starts) : j < k => Starts[j] + HEADER_BYTES <= Starts[k]
         /\ \A m \in PacketNumbers : /\ m \in 1..Len(Starts) /\ m + 1 \in 1..Len(Starts)
                                   /\ Starts[m] \in Nat /\ Starts[m + 1] \in Nat
                                   /\ Starts[m + 1] - Starts[m] >= HEADER_BYTES
<1>1. /\ Starts \in Seq(Nat) /\ Len(Starts) > 0 /\ Starts[1] = 0
      /\ \A j, k \in DOMAIN Starts : j < k => Starts[j] + HEADER_BYTES <= Starts[k]
  BY FramingAssumption DEF CutTypes
<1>2. Len(Starts) \in Nat /\ DOMAIN Starts = 1..Len(Starts)
  BY <1>1, LenProperties
<1>3. \A j \in 1..Len(Starts) : Starts[j] \in Nat
  BY <1>1, ElementOfSeq
<1>4. \A j, k \in 1..Len(Starts) : j < k => Starts[j] + HEADER_BYTES <= Starts[k]
  BY <1>1, <1>2
<1>5. ASSUME NEW m \in PacketNumbers
      PROVE  /\ m \in 1..Len(Starts) /\ m + 1 \in 1..Len(Starts)
             /\ Starts[m] \in Nat /\ Starts[m + 1] \in Nat
             /\ Starts[m + 1] - Starts[m] >= HEADER_BYTES
  <2>1. m \in 1..Len(Starts) /\ m + 1 \in 1..Len(Starts) /\ m < m + 1
    BY <1>2 DEF PacketNumbers
  <2>2. Starts[m] \in Nat /\ Starts[m + 1] \in Nat /\ Starts[m] + HEADER_BYTES <= Starts[m + 1]
    BY <1>3, <1>4, <2>1
  <2> QED
    BY <2>1, <2>2, FramingAssumption
<1> QED
  BY <1>1, <1>2, <1>3, <1>4, <1>5

\* Where the stream goes on there is another packet.
LEMMA AnotherPacket ==
  ASSUME CutTypes, PacketsWhole, pos <= Total,
         Starts[done + 1] < pos
  PROVE  done + 1 \in PacketNumbers /\ done \in Nat
<1>1. done \in 0..(Len(Starts) - 1)
  BY DEF PacketsWhole, done
<1>2. Len(Starts) \in Nat \ {0} /\ Starts[Len(Starts)] \in Nat
  BY StartsAre
<1>3. done + 1 # Len(Starts)
  <2> SUFFICES ASSUME done + 1 = Len(Starts) PROVE FALSE
    OBVIOUS
  <2>1. pos <= Starts[Len(Starts)] /\ Starts[Len(Starts)] < pos /\ pos \in Nat
    BY DEF Total, CutTypes
  <2> QED
    BY <1>2, <2>1
<1> QED
  BY <1>1, <1>2, <1>3 DEF PacketNumbers

\* The header at the start of a packet has the length of that packet.
LEMMA LengthOfPacket ==
  ASSUME CutTypes, NEW m \in PacketNumbers
  PROVE  pkt_get_length(Starts[m] + 1) = {Starts[m + 1] - Starts[m] - HEADER_BYTES}
<1>1. ASSUME NEW k \in PacketNumbers, Starts[m] + 1 = Starts[k] + 1 PROVE k = m
  <2>1. /\ k \in 1..Len(Starts) /\ m \in 1..Len(Starts) /\ Len(Starts) \in Nat
        /\ Starts[k] \in Nat /\ Starts[m] \in Nat
    BY StartsAre
  <2>2. Starts[k] = Starts[m]
    BY <1>1, <2>1
  <2>3. /\ k < m => Starts[k] + HEADER_BYTES <= Starts[m]
        /\ m < k => Starts[m] + HEADER_BYTES <= Starts[k]
    BY <2>1, StartsAre
  <2>4. HEADER_BYTES \in Nat /\ HEADER_BYTES > 0
    BY FramingAssumption
  <2>5. ~(k < m) /\ ~(m < k)
    BY <2>1, <2>2, <2>3, <2>4
  <2> QED
    BY <2>1, <2>5
<1>2. {k \in PacketNumbers : Starts[m] + 1 = Starts[k] + 1} = {m}
  BY <1>1
<1> QED
  BY <1>2 DEF pkt_get_length, Size

\* A client just accepted: its buffer is empty.
LEMMA CutStarts ==
  FramingInit => CutInv
<1> SUFFICES ASSUME FramingInit PROVE CutInv
  OBVIOUS
<1>1. /\ buffer \in Seq(Nat) /\ Len(buffer) = 0 /\ processed \in Seq(Seq(Nat)) /\ Len(processed) = 0
      /\ DOMAIN processed = 1..0
  BY EmptySeq, LenProperties DEF FramingInit
<1>2. CutTypes
  BY <1>1 DEF FramingInit, CutTypes
<1>3. Len(Starts) \in Nat \ {0} /\ Starts[1] = 0 /\ Starts[Len(Starts)] \in Nat
  BY <1>2, StartsAre
<1>4. PacketsWhole
  BY <1>1, <1>3 DEF PacketsWhole
<1>5. InStep
  BY <1>1, <1>3 DEF FramingInit, InStep, done, Total
<1>6. ExpectsNext
  BY DEF FramingInit, ExpectsNext
<1> QED
  BY <1>2, <1>4, <1>5, <1>6 DEF CutInv, FramingInit

\* recv appends the next bytes of the stream.
LEMMA RecvKeepsCut ==
  ASSUME CutInv, NEW n \in 1..MAX_SIZE, Recv(n)
  PROVE  CutInv'
<1>1. CASE mixed
  BY <1>1 DEF CutInv, Recv
<1>2. CASE ~mixed
  <2>0. CutTypes /\ PacketsWhole /\ InStep /\ ExpectsNext
    BY <1>2 DEF CutInv
  <2>1. /\ ~looping /\ pos + n <= Total
        /\ buffer' = buffer \o Bytes(pos, n) /\ pos' = pos + n /\ looping' = TRUE
        /\ UNCHANGED <<Starts, next_pkt, bytes_expected, processed, mixed>>
    BY DEF Recv
  <2> DEFINE more == Bytes(pos, n)
  <2>2. n \in Nat \ {0} /\ pos \in Nat /\ Len(buffer) \in Nat /\ buffer \in Seq(Nat)
    BY <2>0, LenProperties DEF CutTypes
  <2>3. more \in Seq(Nat) /\ Len(more) = n /\ \A k \in 1..n : more[k] = pos + k
    <3>1. \A k \in 1..n : pos + k \in Nat
      BY <2>2
    <3>2. more = [k \in 1..n |-> pos + k] /\ \A k \in 1..n : more[k] = pos + k
      BY DEF Bytes
    <3>3. more \in Seq(Nat)
      BY <2>2, <3>1, <3>2, IsASeq
    <3>4. DOMAIN more = 1..n /\ DOMAIN more = 1..Len(more) /\ Len(more) \in Nat
      BY <3>2, <3>3, LenProperties
    <3> QED
      BY <2>2, <3>2, <3>3, <3>4
  <2> HIDE DEF more
  <2>4. /\ buffer' \in Seq(Nat) /\ Len(buffer') = Len(buffer) + n
        /\ \A k \in 1..(Len(buffer) + n) :
             buffer'[k] = IF k <= Len(buffer) THEN buffer[k] ELSE more[k - Len(buffer)]
    <3>1. buffer' = buffer \o more
      BY <2>1 DEF more
    <3> HIDE DEF more
    <3>2. /\ buffer \o more \in Seq(Nat) /\ Len(buffer \o more) = Len(buffer) + Len(more)
          /\ \A k \in 1..(Len(buffer) + Len(more)) :
               (buffer \o more)[k] = IF k <= Len(buffer) THEN buffer[k] ELSE more[k - Len(buffer)]
      BY <2>2, <2>3, ConcatProperties
    <3> QED
      BY <2>3, <3>1, <3>2
  <2>5. CutTypes'
    BY <2>0, <2>1, <2>2, <2>4 DEF CutTypes
  <2>6. PacketsWhole'
    BY <2>0, <2>1 DEF PacketsWhole, Packet, Bytes, Size
  <2>7. InStep'
    <3>1. pos' - Len(buffer') = pos - Len(buffer) /\ done' = done /\ Len(buffer') <= pos'
      BY <2>0, <2>1, <2>2, <2>4 DEF InStep, done
    <3>2. ASSUME NEW k \in 1..Len(buffer') PROVE buffer'[k] = pos' - Len(buffer') + k
      <4>0. k \in 1..(Len(buffer) + n) /\ k \in Nat
        BY <2>2, <2>4
      <4>1. CASE k <= Len(buffer)
        <5>1. k \in 1..Len(buffer) /\ buffer'[k] = buffer[k]
          BY <2>2, <2>4, <4>0, <4>1
        <5>2. buffer[k] = pos - Len(buffer) + k
          BY <2>0, <5>1 DEF InStep
        <5> QED
          BY <3>1, <5>1, <5>2
      <4>2. CASE ~(k <= Len(buffer))
        <5>1. k - Len(buffer) \in 1..n
          BY <2>2, <4>0, <4>2
        <5>2. buffer'[k] = pos + (k - Len(buffer))
          BY <2>3, <2>4, <4>0, <4>2, <5>1
        <5> QED
          BY <2>2, <3>1, <4>0, <5>2
      <4> QED
        BY <4>1, <4>2
    <3>3. pos' <= Total' /\ next_pkt' <= Len(buffer') + 1
      BY <2>0, <2>1, <2>2, <2>4 DEF InStep, Total, CutTypes
    <3>4. pos' - Len(buffer') + next_pkt' - 1 = Starts'[done' + 1]
      BY <2>0, <2>1, <3>1 DEF InStep
    <3> QED
      BY <3>1, <3>2, <3>3, <3>4 DEF InStep
  <2>8. ExpectsNext'
    BY <2>0, <2>1 DEF ExpectsNext, done
  <2> QED
    BY <2>1, <2>5, <2>6, <2>7, <2>8 DEF CutInv
<1> QED
  BY <1>1, <1>2 DEF CutInv

\* The loop learns the length of the packet at next_pkt, or passes by it.
LEMMA ProcessKeepsCut ==
  ASSUME CutInv, Process
  PROVE  CutInv'
<1>1. CASE mixed
  BY <1>1 DEF CutInv, Process
<1>2. CASE ~mixed /\ mixed'
  BY <1>2 DEF CutInv
<1>3. CASE ~mixed /\ ~mixed'
  <2>0. CutTypes /\ PacketsWhole /\ InStep /\ ExpectsNext
    BY <1>3 DEF CutInv
  <2>1. /\ looping /\ LoopGoesOn /\ UNCHANGED <<Starts, pos, buffer, looping>>
    BY DEF Process
  <2>2. bytes_expected = 0 => pkt_get_length(buffer[next_pkt]) = pkt_get_length(buffer[1])
    BY <1>3 DEF Process
  <2>3. PICK expected \in Expect :
          IF expected <= bytes_received
          THEN /\ processed' = Append(processed, SubSeq(buffer, next_pkt, next_pkt + expected - 1))
               /\ next_pkt' = next_pkt + expected /\ bytes_expected' = 0
          ELSE bytes_expected' = expected /\ UNCHANGED <<processed, next_pkt>>
    BY DEF Process
  <2>4. /\ Len(buffer) \in Nat /\ pos \in Nat /\ next_pkt \in Nat \ {0} /\ bytes_expected \in Nat
        /\ HEADER_BYTES \in Nat \ {0} /\ LEN_BYTES \in Nat \ {0} /\ done \in Nat
    BY <2>0, LenProperties, FramingAssumption DEF CutTypes, done
  <2>5. next_pkt \in 1..Len(buffer) /\ bytes_received = Len(buffer) - next_pkt + 1
    BY <2>0, <2>1, <2>4 DEF InStep, LoopGoesOn, bytes_received
  <2> DEFINE m == done + 1
             size == Starts[m + 1] - Starts[m]
  <2>6. m \in PacketNumbers
    BY <2>0, <2>4, <2>5, AnotherPacket DEF InStep
  <2>7. /\ m \in 1..Len(Starts) /\ m + 1 \in 1..Len(Starts) /\ Starts[m] \in Nat
        /\ Starts[m + 1] \in Nat /\ size \in Nat /\ size >= HEADER_BYTES
        /\ Len(Starts) \in Nat
    <3> HIDE DEF m
    <3>1. /\ m \in 1..Len(Starts) /\ m + 1 \in 1..Len(Starts) /\ Starts[m] \in Nat
          /\ Starts[m + 1] \in Nat /\ Starts[m + 1] - Starts[m] >= HEADER_BYTES
          /\ Len(Starts) \in Nat
      BY <2>0, <2>6, StartsAre
    <3> QED
      BY <2>4, <3>1
  <2>8. buffer[next_pkt] = Starts[m] + 1
    BY <2>0, <2>4, <2>5, <2>7 DEF InStep
  <2>9. expected = size
    <3>1. CASE bytes_expected = 0
      <4>1. pkt_get_length(buffer[1]) = {size - HEADER_BYTES}
        BY <2>0, <2>2, <2>6, <2>8, <3>1, LengthOfPacket
      <4>2. PICK len \in pkt_get_length(buffer[1]) : expected = HEADER_BYTES + len
        BY <2>3, <3>1 DEF Expect
      <4>3. expected = HEADER_BYTES + (size - HEADER_BYTES)
        BY <4>1, <4>2
      <4> HIDE DEF size
      <4> QED
        BY <4>3, <2>4, <2>7
    <3>2. CASE bytes_expected # 0
      <4>1. expected = bytes_expected /\ m + 1 = done + 2
        BY <2>3, <2>4, <3>2 DEF Expect
      <4> QED
        BY <2>0, <3>2, <4>1 DEF ExpectsNext
    <3> QED
      BY <3>1, <3>2
  <2> HIDE DEF size
  <2>10. CASE ~(expected <= bytes_received)
    <3>1. bytes_expected' = size /\ UNCHANGED <<processed, next_pkt>>
      BY <2>3, <2>9, <2>10
    <3>2. CutTypes'
      BY <2>0, <2>1, <2>7, <3>1 DEF CutTypes
    <3>3. PacketsWhole'
      BY <2>0, <2>1, <3>1 DEF PacketsWhole, Packet, Bytes, Size
    <3>4. InStep'
      BY <2>0, <2>1, <3>1 DEF InStep, Total, done
    <3>5. ExpectsNext'
      <4>1. done' = done /\ m + 1 = done + 2
        BY <2>4, <3>1 DEF done
      <4> QED
        BY <2>1, <3>1, <4>1 DEF ExpectsNext, size
    <3> QED
      BY <1>3, <3>2, <3>3, <3>4, <3>5 DEF CutInv
  <2>11. CASE expected <= bytes_received
    <3> DEFINE pkt == SubSeq(buffer, next_pkt, next_pkt + size - 1)
    <3>1. processed' = Append(processed, pkt) /\ next_pkt' = next_pkt + size /\ bytes_expected' = 0
      BY <2>3, <2>9, <2>11
    <3>2. next_pkt + size - 1 \in next_pkt..Len(buffer) /\ size \in Nat \ {0}
      BY <2>4, <2>5, <2>7, <2>9, <2>11
    <3>3. pkt \in Seq(Nat) /\ Len(pkt) = size /\ \A k \in 1..size : pkt[k] = buffer[next_pkt + k - 1]
      <4>1. /\ buffer \in Seq(Nat) /\ next_pkt \in 1..Len(buffer)
            /\ next_pkt + size - 1 \in next_pkt..Len(buffer)
        BY <2>0, <2>5, <3>2 DEF CutTypes
      <4>2. \A k \in next_pkt..(next_pkt + size - 1) : buffer[k] \in Nat
        BY <2>0, <2>4, <4>1, ElementOfSeq DEF CutTypes
      <4>3. /\ pkt \in Seq(Nat)
            /\ Len(pkt) = IF next_pkt <= next_pkt + size - 1
                          THEN (next_pkt + size - 1) - next_pkt + 1 ELSE 0
            /\ \A k \in 1..((next_pkt + size - 1) - next_pkt + 1) : pkt[k] = buffer[next_pkt + k - 1]
        <5>1. next_pkt \in Int /\ next_pkt + size - 1 \in Int
          BY <2>4, <3>2
        <5> QED
          BY <4>2, <5>1, SubSeqProperties
      <4>4. (next_pkt + size - 1) - next_pkt + 1 = size /\ next_pkt <= next_pkt + size - 1
        BY <2>4, <3>2
      <4> QED
        BY <4>3, <4>4
    <3>4. \A k \in 1..size : pkt[k] = Starts[m] + k
      <4> TAKE k \in 1..size
      <4>1. next_pkt + k - 1 \in 1..Len(buffer)
        BY <2>4, <2>5, <3>2
      <4>2. buffer[next_pkt + k - 1] = pos - Len(buffer) + (next_pkt + k - 1)
        BY <2>0, <4>1 DEF InStep
      <4>3. pos - Len(buffer) + next_pkt - 1 = Starts[m]
        BY <2>0 DEF InStep
      <4>4. pos - Len(buffer) + (next_pkt + k - 1) = Starts[m] + k
        BY <2>4, <2>7, <3>2, <4>3
      <4> QED
        BY <3>3, <4>2, <4>4
    <3>5. pkt = Packet(m)
      <4>1. DOMAIN pkt = 1..size /\ pkt = [k \in 1..size |-> pkt[k]]
        BY <3>3, <2>7, LenProperties
      <4>2. Packet(m) = [k \in 1..size |-> Starts[m] + k]
        <5>1. HEADER_BYTES + (Starts[m + 1] - Starts[m] - HEADER_BYTES) = size
          BY <2>4, <2>7 DEF size
        <5> QED
          BY <5>1 DEF Packet, Size, Bytes
      <4> QED
        BY <3>4, <4>1, <4>2
    <3> HIDE DEF pkt
    <3>6. /\ processed' \in Seq(Seq(Nat)) /\ Len(processed') = Len(processed) + 1
          /\ \A k \in 1..Len(processed) : processed'[k] = processed[k]
          /\ processed'[Len(processed) + 1] = pkt
      BY <2>0, <3>1, <3>3, AppendProperties DEF CutTypes
    <3>7. DOMAIN processed = 1..Len(processed) /\ DOMAIN processed' = 1..(Len(processed) + 1)
      BY <2>0, <3>6, LenProperties DEF CutTypes
    <3>8. done' = m
      BY <3>6 DEF done
    <3>9. CutTypes'
      BY <2>0, <2>1, <2>4, <3>1, <3>2, <3>6 DEF CutTypes
    <3>10. PacketsWhole'
      <4>1. \A k : Packet(k)' = Packet(k)
        BY <2>1 DEF Packet, Bytes, Size
      <4>2. \A k \in DOMAIN processed' : processed'[k] = Packet(k)
        <5>1. \A k \in DOMAIN processed : processed[k] = Packet(k)
          BY <2>0 DEF PacketsWhole
        <5>2. processed'[m] = Packet(m)
          BY <3>5, <3>6 DEF done
        <5>3. \A k \in DOMAIN processed' : k \in DOMAIN processed \/ k = m
          BY <2>4, <3>7 DEF done
        <5> QED
          BY <3>6, <3>7, <5>1, <5>2, <5>3
      <4>3. Len(processed') \in 0..(Len(Starts) - 1)
        BY <2>4, <2>7, <3>6 DEF done
      <4> QED
        BY <2>1, <4>1, <4>2, <4>3 DEF PacketsWhole
    <3>11. InStep'
      <4>1. next_pkt' <= Len(buffer) + 1
        BY <2>4, <3>1, <3>2
      <4>2. pos - Len(buffer) + next_pkt' - 1 = Starts[m + 1]
        <5>1. pos - Len(buffer) + next_pkt - 1 = Starts[m]
          BY <2>0 DEF InStep
        <5>2. Starts[m] + size = Starts[m + 1]
          BY <2>7 DEF size
        <5> QED
          BY <2>4, <2>7, <3>1, <5>1, <5>2
      <4> QED
        BY <2>0, <2>1, <3>8, <4>1, <4>2 DEF InStep, Total
    <3>12. ExpectsNext'
      BY <2>1, <3>1 DEF ExpectsNext
    <3> QED
      BY <1>3, <3>9, <3>10, <3>11, <3>12 DEF CutInv
  <2> QED
    BY <2>10, <2>11
<1> QED
  BY <1>1, <1>2, <1>3 DEF CutInv

\* What is left is moved to the front, and is less than a packet.
LEMMA RelocateKeepsCut ==
  ASSUME CutInv, Relocate
  PROVE  CutInv'
<1>1. CASE mixed
  BY <1>1 DEF CutInv, Relocate
<1>2. CASE ~mixed
  <2>0. CutTypes /\ PacketsWhole /\ InStep /\ ExpectsNext
    BY <1>2 DEF CutInv
  <2>1. /\ ~LoopGoesOn /\ buffer' = SubSeq(buffer, next_pkt, Len(buffer)) /\ next_pkt' = 1
        /\ looping' = FALSE /\ UNCHANGED <<Starts, pos, bytes_expected, processed, mixed>>
    BY DEF Relocate
  <2>2. /\ Len(buffer) \in Nat /\ pos \in Nat /\ next_pkt \in Nat \ {0} /\ bytes_expected \in Nat
        /\ HEADER_BYTES \in Nat \ {0} /\ LEN_BYTES \in Nat \ {0} /\ done \in Nat
        /\ buffer \in Seq(Nat) /\ next_pkt <= Len(buffer) + 1
    BY <2>0, LenProperties, FramingAssumption DEF CutTypes, done, InStep
  <2> DEFINE kept == Len(buffer) - next_pkt + 1
  <2>3. kept \in Nat
    BY <2>2
  <2>4. /\ buffer' \in Seq(Nat) /\ Len(buffer') = kept
        /\ \A k \in 1..kept : buffer'[k] = buffer[next_pkt + k - 1]
    <3>1. \A k \in next_pkt..Len(buffer) : buffer[k] \in Nat
      BY <2>2, ElementOfSeq
    <3>2. /\ buffer' \in Seq(Nat)
          /\ Len(buffer') = IF next_pkt <= Len(buffer) THEN Len(buffer) - next_pkt + 1 ELSE 0
          /\ \A k \in 1..(Len(buffer) - next_pkt + 1) : buffer'[k] = buffer[next_pkt + k - 1]
      BY <2>1, <2>2, <3>1, SubSeqProperties
    <3> QED
      BY <2>2, <3>2
  <2>5. pos - kept = Starts[done + 1]
    BY <2>0, <2>2 DEF InStep
  <2> HIDE DEF kept
  <2>6. done' = done
    BY <2>1 DEF done
  <2>7. CutTypes'
    BY <2>0, <2>1, <2>4 DEF CutTypes
  <2>8. PacketsWhole'
    BY <2>0, <2>1 DEF PacketsWhole, Packet, Bytes, Size
  <2>9. InStep'
    <3>1. \A k \in 1..kept : buffer'[k] = pos - kept + k
      <4> TAKE k \in 1..kept
      <4>1. next_pkt + k - 1 \in 1..Len(buffer)
        BY <2>2, <2>3 DEF kept
      <4>2. buffer[next_pkt + k - 1] = pos - Len(buffer) + (next_pkt + k - 1)
        BY <2>0, <4>1 DEF InStep
      <4>3. pos - Len(buffer) + (next_pkt + k - 1) = pos - kept + k
        BY <2>2, <2>3 DEF kept
      <4> QED
        BY <2>4, <4>2, <4>3
    <3>2. kept <= pos
      BY <2>0, <2>2 DEF kept, InStep
    <3>3. pos - kept + 1 - 1 = Starts[done + 1] /\ 1 <= kept + 1
      BY <2>2, <2>3, <2>5
    <3> QED
      BY <2>0, <2>1, <2>4, <2>6, <3>1, <3>2, <3>3 DEF InStep, Total
  <2>10. buffer' # <<>> => kept < Starts[done + 2] - Starts[done + 1]
    <3> SUFFICES ASSUME buffer' # <<>> PROVE kept < Starts[done + 2] - Starts[done + 1]
      OBVIOUS
    <3>1. kept > 0
      BY <2>3, <2>4, EmptySeq
    <3>2. Starts[done + 1] < pos
      BY <2>2, <2>3, <2>5, <3>1
    <3>3. done + 1 \in PacketNumbers
      BY <2>0, <3>2, AnotherPacket DEF InStep
    <3>4. /\ Starts[done + 2] - Starts[done + 1] >= HEADER_BYTES
          /\ Starts[done + 2] \in Nat /\ Starts[done + 1] \in Nat
      <4>1. (done + 1) + 1 = done + 2
        BY <2>2
      <4> QED
        BY <2>0, <3>3, <4>1, StartsAre
    <3>5. CASE kept < LEN_BYTES
      BY <2>2, <2>3, <3>4, <3>5, FramingAssumption
    <3>6. CASE bytes_expected > kept
      BY <2>0, <2>2, <2>3, <3>6 DEF ExpectsNext
    <3>7. ~(kept >= LEN_BYTES /\ bytes_expected <= kept)
      BY <2>1 DEF kept, LoopGoesOn, bytes_received
    <3> QED
      BY <2>2, <2>3, <3>5, <3>6, <3>7
  <2>11. ExpectsNext'
    BY <2>0, <2>1, <2>4, <2>6, <2>10 DEF ExpectsNext
  <2> QED
    BY <1>2, <2>1, <2>7, <2>8, <2>9, <2>11 DEF CutInv
<1> QED
  BY <1>1, <1>2 DEF CutInv

LEMMA CutKept ==
  CutInv /\ [FramingNext]_framingVars => CutInv'
<1> SUFFICES ASSUME CutInv, [FramingNext]_framingVars PROVE CutInv'
  OBVIOUS
<1>1. CASE Process
  BY <1>1, ProcessKeepsCut
<1>2. CASE Relocate
  BY <1>2, RelocateKeepsCut
<1>3. ASSUME NEW n \in 1..MAX_SIZE, Recv(n) PROVE CutInv'
  BY <1>3, RecvKeepsCut
<1>4. CASE UNCHANGED framingVars
  BY <1>4 DEF framingVars, CutInv, CutTypes, InStep, ExpectsNext, done, PacketsWhole, Packet,
              Bytes, Size, Total
<1> QED
  BY <1>1, <1>2, <1>3, <1>4 DEF FramingNext

\* However recv cuts the stream of a client, process_pkt is given its packets,
\* one by one and whole, as long as no packet was read together with a complete
\* one of another size before it (repeat_receiving_function).
THEOREM PacketsAreCut ==
  FramingSpec => []WholeUnlessMixed
<1>1. CutInv => WholeUnlessMixed
  BY DEF CutInv, WholeUnlessMixed
<1>2. FramingInit => CutInv
  BY CutStarts
<1>3. CutInv /\ [FramingNext]_framingVars => CutInv'
  BY CutKept
<1> QED
  BY <1>1, <1>2, <1>3, PTL DEF FramingSpec

\* And when the loop has ended the buffer holds exactly what was received and
\* not processed, which is less than a packet: none waits for the next read.
THEOREM NoByteIsLost ==
  FramingSpec => []NothingLostOrHeldBack
<1>1. CutInv => NothingLostOrHeldBack
  <2> SUFFICES ASSUME CutInv, ~mixed, ~looping
               PROVE  /\ buffer = Bytes(Starts[done + 1], pos - Starts[done + 1])
                      /\ buffer # <<>> => Len(buffer) < Len(Packet(done + 1))
    BY DEF NothingLostOrHeldBack, done
  <2>1. CutTypes /\ PacketsWhole /\ InStep /\ ExpectsNext
    BY DEF CutInv
  <2>2. Len(buffer) \in Nat /\ pos \in Nat /\ DOMAIN buffer = 1..Len(buffer) /\ next_pkt = 1
        /\ HEADER_BYTES \in Nat /\ done \in Nat
    BY <2>1, LenProperties, FramingAssumption DEF CutTypes, ExpectsNext, done
  <2>3. pos - Len(buffer) = Starts[done + 1]
    BY <2>1, <2>2 DEF InStep
  <2>4. pos - Starts[done + 1] = Len(buffer)
    BY <2>2, <2>3
  <2>5. buffer = [k \in 1..Len(buffer) |-> Starts[done + 1] + k]
    <3>1. \A k \in 1..Len(buffer) : buffer[k] = Starts[done + 1] + k
      BY <2>1, <2>3 DEF InStep
    <3>2. buffer = [k \in 1..Len(buffer) |-> buffer[k]]
      BY <2>1, <2>2 DEF CutTypes
    <3> QED
      BY <3>1, <3>2
  <2>6. ASSUME buffer # <<>> PROVE Len(buffer) < Len(Packet(done + 1))
    <3>1. Len(buffer) > 0
      BY <2>1, <2>2, <2>6, EmptySeq DEF CutTypes
    <3>2. done + 1 \in PacketNumbers
      BY <2>1, <2>2, <2>3, <3>1, AnotherPacket DEF InStep
    <3> DEFINE size == Starts[done + 2] - Starts[done + 1]
    <3>3. /\ size \in Nat /\ Starts[done + 1] \in Nat
          /\ HEADER_BYTES + (Starts[done + 2] - Starts[done + 1] - HEADER_BYTES) = size
          /\ (done + 1) + 1 = done + 2
      <4>1. (done + 1) + 1 = done + 2
        BY <2>2
      <4>2. /\ Starts[done + 2] \in Nat /\ Starts[done + 1] \in Nat
            /\ Starts[done + 2] - Starts[done + 1] >= HEADER_BYTES
        BY <2>1, <3>2, <4>1, StartsAre
      <4> QED
        BY <2>2, <4>1, <4>2
    <3> HIDE DEF size
    <3>4. Packet(done + 1) = [k \in 1..size |-> Starts[done + 1] + k]
      BY <3>3 DEF Packet, Size, Bytes
    <3>5. \A k \in 1..size : Starts[done + 1] + k \in Nat
      BY <3>3
    <3>6. Packet(done + 1) \in Seq(Nat)
      BY <3>3, <3>4, <3>5, IsASeq
    <3>7. Len(Packet(done + 1)) = size
      BY <3>3, <3>4, <3>6, LenProperties
    <3> QED
      BY <2>1, <2>6, <3>7 DEF ExpectsNext, size
  <2> QED
    BY <2>4, <2>5, <2>6 DEF Bytes
<1>2. FramingInit => CutInv
  BY CutStarts
<1>3. CutInv /\ [FramingNext]_framingVars => CutInv'
  BY CutKept
<1> QED
  BY <1>1, <1>2, <1>3, PTL DEF FramingSpec
=============================================================================
