------------------------------ MODULE Bcaster ------------------------------
(***************************************************************************)
(* bcaster, the program on the host that forwards the packets of each VM   *)
(* to all the others: the listener thread and the receiver thread of       *)
(* main.c and what they share, the lisa (under its lock) and the buffers   *)
(* (under theirs).  The receiver returns from the first part of lisa_recv  *)
(* with the lisa's lock held and releases it in the second part; it holds  *)
(* the buffers' lock from there to the end of the iteration, and lisa_cast *)
(* releases and takes the lisa's lock around every single send.            *)
(*                                                                         *)
(* A client stands for its file descriptor, and <<c, k>> for the k-th      *)
(* packet of client c.  A read returns whole packets; how packets are cut  *)
(* out of a read is the subject of module Framing.                         *)
(***************************************************************************)
EXTENDS Naturals, SequencesExt

CONSTANTS
  Early,       \* clients connected and registered at the beginning, in order
  Late,        \* clients that connect later
  MayLeave,    \* clients that may close their connection or stop reading
  MaxPackets,  \* how many packets each client sends (a bound)
  MaxPerRead,  \* packets one recv may return: the buffer has room for 3000 bytes
  NULL         \* no descriptor

Clients == ToSet(Early) \cup Late

ASSUME ClientsAssumption ==
  /\ Early \in Seq(Clients) /\ IsInjective(Early) /\ Early # <<>>
  /\ ToSet(Early) \cap Late = {} /\ MayLeave \subseteq Clients /\ NULL \notin Clients
ASSUME BoundsAssumption == MaxPackets \in [Clients -> Nat] /\ MaxPerRead \in Nat \ {0}

VARIABLES
  client_fds,   \* l->client_fds[0..num_clients-1]
  client_fd,    \* l->client_fd
  state,        \* l->state
  client_state, \* l->client_state
  buffers,      \* buffers.client[i].client_fd, i below buffers.num_clients
  lpc,          \* the listener
  rpc,          \* the receiver
  fdset,        \* its set of descriptors, before and after select
  pkts,         \* the packets in the buffer of the client it has read from
  last_client,  \* lisa_cast: who not to send to
  next,         \* lisa_cast: i
  this_socket,  \* lisa_send: who to send to
  sent,         \* how many packets each client has sent ...
  read,         \* ... and how many of them recv has returned
  inbox,        \* the packets sent to each client
  left,         \* clients that are gone
  raced         \* history: a client was accepted while the receiver was at work

listenerVars == <<client_fds, buffers, lpc>>
readVars     == <<fdset, pkts, read>>
castVars     == <<last_client, next, this_socket, inbox>>
receiverVars == <<rpc, readVars, castVars>>
stateVars    == <<state, client_state>>
clientVars   == <<sent, left>>
others       == <<listenerVars, clientVars, raced>>   \* than the receiver's
vars == <<client_fd, listenerVars, receiverVars, stateVars, clientVars, raced>>

Packets == UNION {{c} \X (1..MaxPackets[c]) : c \in Clients}

\* l->state is at least LISA_CONNECTED here; what matters is whether it is
\* LISA_ACCEPTED, which directs errors to client_state, and LISA_ERROR.
Init ==
  /\ client_fds = Early /\ buffers = Early /\ client_fd = Last(Early)
  /\ state \in {"accepted", "timeout"} /\ client_state = "connected"
  /\ lpc = "idle"
  /\ rpc = "idle" /\ fdset = {} /\ pkts = <<>>
  /\ last_client = NULL /\ next = 1 /\ this_socket = NULL
  /\ sent = [c \in Clients |-> 0] /\ read = [c \in Clients |-> 0]
  /\ inbox = [c \in Clients |-> <<>>]
  /\ left = {} /\ raced = FALSE

\* Where the receiver holds the two locks.
LisaFree    == rpc \notin {"pick", "lookup"}
BuffersFree == rpc \notin {"process", "send", "sending", "next", "stuck"}
AtWork      == rpc \notin {"idle", "part1", "select"}

-----------------------------------------------------------------------------
(* repeat_listening_function                                               *)

\* lisa_accept up to select; after an error it returns at once
AcceptPreSelect ==
  /\ lpc = "idle" /\ LisaFree
  /\ lpc' = IF state = "error" THEN "idle" ELSE "select"
  /\ UNCHANGED <<client_fd, client_fds, buffers, receiverVars, stateVars, clientVars, raced>>

AcceptTimeout ==
  /\ lpc = "select" /\ LisaFree
  /\ state' = "timeout"
  /\ lpc' = "idle"
  /\ UNCHANGED <<client_fd, client_fds, buffers, receiverVars, client_state, clientVars, raced>>

\* Mutant: client_fd is not set to the new client.
AcceptKeepsClientFd(c) ==
  /\ lpc = "select" /\ LisaFree
  /\ c \in Late \ ToSet(client_fds)
  /\ state' = "accepted" /\ client_state' = "connected"
  /\ client_fds' = Append(client_fds, c)
  /\ lpc' = "register"
  /\ raced' = (raced \/ AtWork)
  /\ UNCHANGED <<client_fd, buffers, receiverVars, clientVars>>

Accept(c) ==
  /\ lpc = "select" /\ LisaFree
  /\ c \in Late \ ToSet(client_fds)
  /\ state' = "accepted" /\ client_state' = "connected"
  /\ client_fd' = c /\ client_fds' = Append(client_fds, c)
  /\ lpc' = "register"
  /\ raced' = (raced \/ AtWork)
  /\ UNCHANGED <<buffers, receiverVars, clientVars>>

\* The new client is registered in the buffers under the number lisa->client_fd,
\* which is read without the lisa's lock.
Register ==
  /\ lpc = "register" /\ BuffersFree
  /\ buffers' = Append(buffers, client_fd)
  /\ lpc' = "idle"
  /\ UNCHANGED <<client_fd, client_fds, receiverVars, stateVars, clientVars, raced>>

Listener == AcceptPreSelect \/ AcceptTimeout \/ Register \/ \E c \in Late : Accept(c)

-----------------------------------------------------------------------------
(* repeat_receiving_function: which client to read from                    *)

RecvStart ==
  /\ rpc = "idle" /\ buffers # <<>>
  /\ rpc' = "part1"
  /\ UNCHANGED <<client_fd, readVars, castVars, others, stateVars>>

\* lisa_recv_part1 up to select
RecvPreSelect ==
  /\ rpc = "part1"
  /\ IF state = "error" THEN rpc' = "idle" /\ UNCHANGED fdset
                        ELSE rpc' = "select" /\ fdset' = ToSet(client_fds)
  /\ UNCHANGED <<client_fd, pkts, castVars, read, others, stateVars>>

Readable(c) == read[c] < sent[c] \/ c \in left

RecvTimeout ==
  /\ rpc = "select" /\ \A c \in fdset : ~Readable(c)
  /\ client_state' = "timeout"
  /\ rpc' = "idle"
  /\ UNCHANGED <<client_fd, readVars, castVars, state, others>>

\* client_fd is zero until the descriptor is found
RecvReady ==
  /\ rpc = "select" /\ \E c \in fdset : Readable(c)
  /\ fdset' = {c \in fdset : Readable(c)}
  /\ client_fd' = NULL
  /\ raced' = (raced \/ lpc = "register")
  /\ rpc' = "pick"
  /\ UNCHANGED <<pkts, castVars, read, listenerVars, stateVars, clientVars>>

\* the first ready client in the order of their connections
RecvPick ==
  /\ rpc = "pick"
  /\ \E i \in DOMAIN client_fds :
       /\ client_fds[i] \in fdset /\ \A j \in 1..(i - 1) : client_fds[j] \notin fdset
       /\ client_fd' = client_fds[i]
  /\ rpc' = "lookup"
  /\ UNCHANGED <<readVars, castVars, others, stateVars>>

\* client_for_fd finds no buffer: the memory before the array is used as one
RecvUnregistered ==
  /\ rpc = "lookup" /\ client_fd \notin ToSet(buffers)
  /\ rpc' = "undefined"
  /\ UNCHANGED <<client_fd, readVars, castVars, others, stateVars>>

\* lisa_recv_part2: n packets, or the end of the stream
RecvPackets(n) ==
  /\ rpc = "lookup" /\ client_fd \in ToSet(buffers)
  /\ LET c == client_fd IN
     /\ read[c] + n <= sent[c] /\ (n = 0 => read[c] = sent[c])
     /\ pkts' = [i \in 1..n |-> <<c, read[c] + i>>]
     /\ read' = [read EXCEPT ![c] = @ + n]
  /\ client_state' = IF n = 0 THEN "closed" ELSE "got_data"
  /\ rpc' = IF n = 0 THEN "idle" ELSE "process"
  /\ UNCHANGED <<client_fd, fdset, castVars, state, others>>

\* recv fails: -1 is added to the unsigned count of bytes, and memory behind
\* the buffer is processed as packets
RecvReset ==
  /\ rpc = "lookup" /\ client_fd \in ToSet(buffers) \cap left
  /\ rpc' = "undefined"
  /\ UNCHANGED <<client_fd, readVars, castVars, others, stateVars>>

-----------------------------------------------------------------------------
(* process_pkt: lisa_cast and lisa_send.  The comparison with the stop     *)
(* message never succeeds, as its length includes the final zero.          *)

\* Mutant: the index is not advanced.
CastFromRepeats(i, last) ==
  \/ /\ \A j \in i..Len(client_fds) : client_fds[j] = last
     /\ pkts' = Tail(pkts) /\ rpc' = "idle"
     /\ UNCHANGED <<client_fd, next>>
  \/ \E j \in i..Len(client_fds) :
       /\ client_fds[j] # last /\ \A k \in i..(j - 1) : client_fds[k] = last
       /\ client_fd' = client_fds[j] /\ next' = j /\ rpc' = "send"
       /\ UNCHANGED pkts

\* lisa_cast, with the lock held: the next client after i other than last
CastFrom(i, last) ==
  \/ /\ \A j \in i..Len(client_fds) : client_fds[j] = last
     /\ pkts' = Tail(pkts)
     /\ rpc' = IF pkts' = <<>> THEN "idle" ELSE "process"
     /\ UNCHANGED <<client_fd, next>>
  \/ \E j \in i..Len(client_fds) :
       /\ client_fds[j] # last /\ \A k \in i..(j - 1) : client_fds[k] = last
       /\ client_fd' = client_fds[j] /\ next' = j + 1 /\ rpc' = "send"
       /\ UNCHANGED pkts

\* Mutants: lisa_cast sends to everybody; lisa_cast begins with the second.
CastToAll ==
  /\ rpc = "process"
  /\ last_client' = NULL
  /\ CastFrom(1, NULL)
  /\ UNCHANGED <<fdset, this_socket, read, inbox, stateVars, others>>
CastSkipsFirst ==
  /\ rpc = "process"
  /\ last_client' = client_fd
  /\ CastFrom(2, client_fd)
  /\ UNCHANGED <<fdset, this_socket, read, inbox, stateVars, others>>

\* The client not to send to is the last one the lisa has dealt with.
CastBegin ==
  /\ rpc = "process"
  /\ last_client' = client_fd
  /\ CastFrom(1, client_fd)
  /\ UNCHANGED <<fdset, this_socket, read, inbox, others, stateVars>>

CastNext ==
  /\ rpc = "next"
  /\ CastFrom(next, last_client)
  /\ UNCHANGED <<fdset, last_client, this_socket, read, inbox, others, stateVars>>

\* lisa_send up to select: the state of the lisa, and the state of the last
\* client when the lisa is LISA_ACCEPTED, keep it from sending
SendPreSelect ==
  /\ rpc = "send"
  /\ this_socket' = client_fd
  /\ rpc' = IF state = "error" \/ (state = "accepted" /\ client_state = "error")
            THEN "next" ELSE "sending"
  /\ UNCHANGED <<client_fd, readVars, last_client, next, inbox, others, stateVars>>

\* the last assignment of lisa_send
SetState(s) == IF state = "accepted" THEN client_state' = s /\ UNCHANGED state
                                     ELSE state' = s /\ UNCHANGED client_state

SendPostSelect ==
  /\ rpc = "sending"
  /\ inbox' = [inbox EXCEPT ![this_socket] = Append(@, pkts[1])]
  /\ SetState("sent_data")
  /\ rpc' = "next"
  /\ UNCHANGED <<client_fd, readVars, last_client, next, this_socket, others>>

SendFails ==
  /\ rpc = "sending" /\ this_socket \in left
  /\ SetState("error")
  /\ rpc' = "next"
  /\ UNCHANGED <<client_fd, readVars, castVars, others>>

\* the client does not read: once select has timed out the loop in lisa_send
\* is never left, with the buffers locked
SendTimesOut ==
  /\ rpc = "sending" /\ this_socket \in left
  /\ rpc' = "stuck"
  /\ UNCHANGED <<client_fd, readVars, castVars, others, stateVars>>

Spins == rpc = "stuck" /\ UNCHANGED vars

Receiver ==
  \/ RecvStart \/ RecvPreSelect \/ RecvTimeout \/ RecvReady \/ RecvPick
  \/ RecvUnregistered \/ \E n \in 0..MaxPerRead : RecvPackets(n)
  \/ CastBegin \/ CastNext \/ SendPreSelect \/ SendPostSelect

-----------------------------------------------------------------------------
(* The clients.                                                            *)

ClientSends(c) ==
  /\ c \in ToSet(client_fds) \ left /\ sent[c] < MaxPackets[c]
  /\ sent' = [sent EXCEPT ![c] = @ + 1]
  /\ UNCHANGED <<client_fd, listenerVars, receiverVars, stateVars, left, raced>>

ClientLeaves(c) ==
  /\ c \in (ToSet(client_fds) \cap MayLeave) \ left
  /\ left' = left \cup {c}
  /\ UNCHANGED <<client_fd, listenerVars, receiverVars, stateVars, sent, raced>>

Next ==
  \/ Listener \/ Receiver
  \/ RecvReset \/ SendFails \/ SendTimesOut \/ Spins
  \/ \E c \in Clients : ClientSends(c) \/ ClientLeaves(c)

\* The two looper threads get on, and a mutex is eventually given to the
\* listener that waits for it; clients need not do anything.
Fairness == WF_vars(Receiver) /\ SF_vars(Listener)

Spec == Init /\ [][Next]_vars /\ Fairness

-----------------------------------------------------------------------------
(* Properties.                                                             *)

TypeOK ==
  /\ ToSet(client_fds) \subseteq Clients /\ IsInjective(client_fds)
  /\ ToSet(buffers) \cup {client_fd, last_client, this_socket} \subseteq Clients \cup {NULL}
  /\ state \in {"accepted", "timeout", "sent_data", "error"}
  /\ client_state \in {"connected", "timeout", "got_data", "sent_data", "closed", "error"}
  /\ lpc \in {"idle", "select", "register"}
  /\ rpc \in {"idle", "part1", "select", "pick", "lookup", "process", "send", "sending", "next",
              "stuck", "undefined"}
  /\ fdset \subseteq Clients /\ left \subseteq Clients
  /\ ToSet(pkts) \subseteq Packets /\ next \in 1..(Len(client_fds) + 1)
  /\ \A c \in Clients : ToSet(inbox[c]) \subseteq Packets /\ read[c] <= sent[c]

\* bcaster "forwards them to all other VM's connected to it" (README.md:103):
\* nobody gets back what it sent, unless a client was accepted while the
\* receiver was at work, which moves the client_fd that lisa_cast goes by.
NoEcho == ~raced => \A c \in Clients : \A i \in DOMAIN inbox[c] : inbox[c][i][1] # c

\* Each client gets the packets of another in the order that one sent them,
\* none twice, even if other clients have left and sends to them have failed.
InOrder ==
  ~raced => \A c \in Clients : \A i, j \in DOMAIN inbox[c] :
               i < j /\ inbox[c][i][1] = inbox[c][j][1] => inbox[c][i][2] < inbox[c][j][2]

\* What c has got from s.
Got(s, c) == {p \in ToSet(inbox[c]) : p[1] = s}

\* Between two iterations of the receiver every packet it has read is with
\* every other client that was connected from the beginning; and while one is
\* being sent the clients before next have it already.
DeliveredToOthers ==
  ~raced /\ left = {} /\ rpc \in {"idle", "part1", "select", "pick", "lookup"} =>
     \A s \in Clients, c \in ToSet(Early) : s # c => Got(s, c) = {s} \X (1..read[s])

\* Without such a race the two arrays of clients agree, so that the buffer of
\* the client that was read from is found.
BuffersAgree ==
  ~raced => /\ buffers = client_fds \/ (lpc = "register" /\ Append(buffers, client_fd) = client_fds)
            /\ rpc # "undefined" \/ left # {}

\* Every packet sent gets to every client there is, if no client leaves and
\* none is accepted while a packet is cast.
EverybodyGetsIt ==
  <>[](left # {} \/ raced \/ \A s, c \in ToSet(Early) : s # c => Got(s, c) = {s} \X (1..sent[s]))
=============================================================================
