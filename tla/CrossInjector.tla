--------------------------- MODULE CrossInjector ---------------------------
(***************************************************************************)
(* cross_injector on one VM: the four looping threads of ci_queues.c,      *)
(* connected in pairs by two rings of aq_type.c, and the one connection to *)
(* bcaster that the sender and the receiver share.                         *)
(*                                                                         *)
(*   hwsim0 -> capture -> capture_send_q   -> send    -> connection        *)
(*   hwsim0 <- inject  <- receive_inject_q <- receive <- connection        *)
(*                                                                         *)
(* A message is a header of HEADER_BYTES, whose first LEN_BYTES are the    *)
(* length of the frame and the rest its time of capture, and the frame.    *)
(* What the host will have written is the byte sequence Stream, the bytes  *)
(* of message m being <<m, 1>>, <<m, 2>>, ...; recv takes any part of it.  *)
(* The connection's one state field is written by both threads, last       *)
(* writer wins, and is what makes them depend on each other.               *)
(***************************************************************************)
EXTENDS AqType, SequencesExt

CONSTANTS
  LEN_BYTES, HEADER_BYTES,  \* 4 and 20 in the code
  Frames,                   \* how many frames hwsim0 captures (a bound)
  Acks,                     \* those of them that are acknowledgements
  BUFFER_SIZE,              \* how much an item can hold
  Sizes,                    \* the sizes of the frames the host sends
  Stream,                   \* what it sends, byte by byte
  MayFail,                  \* calls on the connection may fail
  MaxRounds                 \* how often the sender is followed after a failure (a bound)

ASSUME HeaderAssumption == LEN_BYTES \in Nat \ {0} /\ HEADER_BYTES \in Nat /\ HEADER_BYTES > LEN_BYTES
ASSUME FramesAssumption == Frames \in Nat /\ Acks \subseteq 1..Frames
ASSUME SizesAssumption  == BUFFER_SIZE \in Nat /\ Sizes \in Seq(1..BUFFER_SIZE)

\* The host sends whole messages, one after the other, and all of them.
Length(m)  == HEADER_BYTES + Sizes[m]
Message(m) == [i \in 1..Length(m) |-> <<m, i>>]

NextByte(x, y) ==
  \/ x[2] < Length(x[1]) /\ y = <<x[1], x[2] + 1>>
  \/ x[2] = Length(x[1]) /\ y = <<x[1] + 1, 1>> /\ x[1] + 1 \in DOMAIN Sizes

ASSUME StreamAssumption ==
  /\ Stream \in Seq(Nat \X Nat)
  /\ \A p \in DOMAIN Stream : IF p = 1 THEN Stream[1] = <<1, 1>> /\ Sizes # <<>>
                                      ELSE NextByte(Stream[p - 1], Stream[p])
  /\ Sizes # <<>> => Stream # <<>> /\ Last(Stream) = <<Len(Sizes), Length(Len(Sizes))>>

VARIABLES
  captured,   \* packets_captured: the last frame pcap_next_ex has given
  sendq,      \* capture_send_q ...
  sendItems,  \* ... and its item memory: time of capture and frame of each slot
  new_item,   \* the capturing thread's slot
  cpc,        \* the capturing thread
  item,       \* sd->item, never reset
  spc,        \* the sending thread
  part,       \* which of the three lisa_cast calls it is at
  wire,       \* the parts given to send() without error
  rounds,     \* how many items the sender has taken since the first failure
  recvq,      \* receive_inject_q ...
  recvItems,  \* ... and its item memory
  rpc,        \* the receiving thread
  header,     \* the bytes in rd->len and rd->timestamp; len_received of them
  bytes_received,
  rd_item,    \* rd->item
  pos,        \* how much of Stream recv has returned
  ipc,        \* the injecting thread
  inj_item,   \* its slot
  injected,   \* what pcap_inject was given
  state,      \* l->state of the connection
  failed      \* history: which sides have had a call that failed or never returns

captureVars == <<captured, new_item, cpc>>
sendVars    == <<item, spc, part, wire, rounds>>
recvVars    == <<rpc, header, bytes_received, rd_item, pos>>
injectVars  == <<ipc, inj_item, injected>>
sendRing    == <<sendq, sendItems>>
recvRing    == <<recvq, recvItems>>
notCapturing == <<sendVars, recvVars, injectVars, recvRing>>
notSending   == <<captureVars, recvVars, injectVars, recvRing>>
notReceiving == <<captureVars, sendVars, injectVars, sendRing>>
notInjecting == <<captureVars, sendVars, recvVars, sendRing>>
vars == <<captureVars, sendVars, recvVars, injectVars, sendRing, recvRing, state, failed>>

NoByte == <<0, 0>>

\* Mutant: a timeout makes the connection unusable.
UsableButTimeout == {"connected", "got_data", "sent_data", "closed"}

\* LISA_CONNECTED and the states above it.  Only LISA_ERROR is below zero.
Usable == {"connected", "timeout", "got_data", "sent_data", "closed"}
LisaStates == Usable \cup {"created", "error"}

\* ciqs_init_queues, ciqs_start of the four queues; the connection is made
\* after they have been started
Init ==
  /\ captured = 0 /\ new_item = NULL /\ cpc = "idle"
  /\ sendq = aq_new /\ sendItems = [s \in Slots |-> [ts |-> 0, frame |-> 0]]
  /\ item = NULL /\ spc = "idle" /\ part = "len" /\ wire = <<>> /\ rounds = 0
  /\ recvq = aq_new
  /\ recvItems = [s \in Slots |-> [ts |-> <<>>, size |-> 0,
                                   buffer |-> [i \in 1..BUFFER_SIZE |-> NoByte]]]
  /\ rpc = "idle" /\ header = <<>> /\ bytes_received = 0 /\ rd_item = NULL /\ pos = 0
  /\ ipc = "idle" /\ inj_item = NULL /\ injected = <<>>
  /\ state = "created" /\ failed = {}

\* lisa_connect in the main thread
Connect ==
  /\ state = "created"
  /\ \/ state' = "connected" /\ UNCHANGED failed
     \/ MayFail /\ state' = "error" /\ failed' = {"connect"}
  /\ UNCHANGED <<captureVars, sendVars, recvVars, injectVars, sendRing, recvRing>>

-----------------------------------------------------------------------------
(* repeat_capturing_function                                               *)

CaptureGetTail ==
  /\ cpc = "idle"
  /\ new_item' = aq_get_tail(sendq)
  /\ cpc' = IF new_item' = NULL THEN "idle" ELSE "capturing"
  /\ UNCHANGED <<captured, sendRing, state, failed, notCapturing>>

\* pcap_next_ex has no frame
CaptureNothing ==
  /\ cpc = "capturing"
  /\ cpc' = "idle"
  /\ UNCHANGED <<captured, new_item, sendRing, state, failed, notCapturing>>

\* Mutant: acknowledgements are not skipped.
CaptureAckNotSkipped ==
  /\ cpc = "capturing" /\ captured + 1 \in Acks
  /\ captured' = captured + 1
  /\ sendItems' = [sendItems EXCEPT ![new_item] = [ts |-> captured + 1, frame |-> captured + 1]]
  /\ cpc' = "put"
  /\ UNCHANGED <<new_item, sendq, state, failed, notCapturing>>

\* an acknowledgement is dropped after its time was written
CaptureAck ==
  /\ cpc = "capturing" /\ captured + 1 \in Acks
  /\ captured' = captured + 1
  /\ sendItems' = [sendItems EXCEPT ![new_item].ts = captured + 1]
  /\ cpc' = "idle"
  /\ UNCHANGED <<new_item, sendq, state, failed, notCapturing>>

CaptureFrame ==
  /\ cpc = "capturing" /\ captured + 1 \in (1..Frames) \ Acks
  /\ captured' = captured + 1
  /\ sendItems' = [sendItems EXCEPT ![new_item] = [ts |-> captured + 1, frame |-> captured + 1]]
  /\ cpc' = "put"
  /\ UNCHANGED <<new_item, sendq, state, failed, notCapturing>>

CapturePutTail ==
  /\ cpc = "put"
  /\ sendq' = aq_put_tail(sendq)
  /\ cpc' = "idle"
  /\ UNCHANGED <<captured, new_item, sendItems, state, failed, notCapturing>>

Capture == CaptureGetTail \/ CaptureNothing \/ CaptureAck \/ CaptureFrame \/ CapturePutTail

-----------------------------------------------------------------------------
(* repeat_sending_function.  lisa_cast returns the length it was given     *)
(* whatever lisa_send did, so the three parts are one after the other.     *)

\* Without a usable connection the item of the last time is taken again.
SendGetHead ==
  /\ spc = "idle"
  /\ item' = IF state \in Usable THEN aq_get_head(sendq) ELSE item
  /\ spc' = IF item' = NULL THEN "idle" ELSE "cast"
  /\ part' = "len"
  /\ IF failed # {} /\ item' # NULL
     THEN rounds < MaxRounds /\ rounds' = rounds + 1
     ELSE UNCHANGED rounds
  /\ UNCHANGED <<wire, sendRing, state, failed, notSending>>

\* the cast has returned
NextPart ==
  /\ spc' = IF part = "frame" THEN "used" ELSE "cast"
  /\ part' = CASE part = "len" -> "ts" [] part = "ts" -> "frame" [] OTHER -> part

\* lisa_send up to select
SendPreSelect ==
  /\ spc = "cast"
  /\ IF state \in Usable THEN spc' = "select" /\ UNCHANGED part ELSE NextPart
  /\ UNCHANGED <<item, wire, rounds, sendRing, state, failed, notSending>>

\* What the three parts hold: the size is the frame's, the time is the slot's.
PartValue == IF part = "ts" THEN sendItems[item].ts ELSE sendItems[item].frame

\* select, send and the assignment to the state
SendPostSelect ==
  /\ spc = "select"
  /\ wire' = Append(wire, <<part, PartValue>>)
  /\ state' = "sent_data"
  /\ NextPart
  /\ UNCHANGED <<item, rounds, sendRing, failed, notSending>>

\* send fails: the part is not sent
SendFails ==
  /\ MayFail /\ spc = "select"
  /\ state' = "error" /\ failed' = failed \cup {"send"}
  /\ NextPart
  /\ UNCHANGED <<item, wire, rounds, sendRing, notSending>>

\* select times out, which clears the set of descriptors: the loop around it
\* is never left
SendTimesOut ==
  /\ MayFail /\ spc = "select"
  /\ spc' = "stuck" /\ failed' = failed \cup {"send"}
  /\ UNCHANGED <<item, part, wire, rounds, sendRing, state, notSending>>

SendUsedHead ==
  /\ spc = "used"
  /\ sendq' = aq_used_head(sendq)
  /\ spc' = "idle"
  /\ UNCHANGED <<item, part, wire, rounds, sendItems, state, failed, notSending>>

Send == SendGetHead \/ SendPreSelect \/ SendPostSelect \/ SendUsedHead

-----------------------------------------------------------------------------
(* repeat_receiving_function                                               *)

len_received     == Len(header)
get_length(h)    == Sizes[h[1][1]]      \* which frame's length the bytes are
get_timestamp(h) == SubSeq(h, LEN_BYTES + 1, HEADER_BYTES)
bytes_to_receive == get_length(header)

\* An iteration begins, if the connection is usable, where the last one left
\* off.  "tail" is the call of aq_get_tail, "recv" that of lisa_recv.
Resume(h) == rpc' = IF Len(h) = HEADER_BYTES THEN "tail" ELSE "recv"

RecvBegin ==
  /\ rpc = "idle" /\ state \in Usable
  /\ Resume(header)
  /\ UNCHANGED <<header, bytes_received, rd_item, pos, recvRing, state, failed, notReceiving>>

\* The slot is asked for, and the time written into it, in each iteration
\* until the frame is complete.
RecvGetTail ==
  /\ rpc = "tail"
  /\ rd_item' = aq_get_tail(recvq)
  /\ IF rd_item' = NULL
     THEN rpc' = "idle" /\ UNCHANGED recvItems
     ELSE /\ rpc' = "recv"
          /\ recvItems' = [recvItems EXCEPT
                             ![rd_item'].ts = get_timestamp(header),
                             ![rd_item'].size = bytes_to_receive]
  /\ UNCHANGED <<header, bytes_received, pos, recvq, state, failed, notReceiving>>

\* lisa_recv up to select.  An error found here is returned as -1, which the
\* caller adds to its count; the connection is not used again.
RecvPreSelect ==
  /\ rpc = "recv"
  /\ rpc' = IF state = "error" THEN "derailed" ELSE "select"
  /\ UNCHANGED <<header, bytes_received, rd_item, pos, recvRing, state, failed, notReceiving>>

\* The third argument of the three calls of lisa_recv.
Wanted ==
  CASE len_received < LEN_BYTES    -> LEN_BYTES - len_received
    [] len_received \in LEN_BYTES..(HEADER_BYTES - 1) -> HEADER_BYTES - len_received
    [] OTHER                       -> bytes_to_receive - bytes_received

\* select and recv return n bytes of the header; the function goes on in the
\* same iteration when it has the length, and when it has the time.
RecvHeader(n) ==
  /\ rpc = "select" /\ len_received < HEADER_BYTES
  /\ n <= Wanted /\ pos + n <= Len(Stream)
  /\ header' = header \o SubSeq(Stream, pos + 1, pos + n)
  /\ pos' = pos + n
  /\ state' = "got_data"
  /\ IF Len(header') \in {LEN_BYTES, HEADER_BYTES} THEN Resume(header') ELSE rpc' = "idle"
  /\ UNCHANGED <<bytes_received, rd_item, recvRing, failed, notReceiving>>

\* select and recv return n bytes of the frame
RecvFrame(n) ==
  /\ rpc = "select" /\ len_received = HEADER_BYTES
  /\ n <= Wanted /\ pos + n <= Len(Stream)
  /\ recvItems' = [recvItems EXCEPT ![rd_item].buffer =
        [i \in 1..BUFFER_SIZE |-> IF i \in (bytes_received + 1)..(bytes_received + n)
                                  THEN Stream[pos + i - bytes_received] ELSE @[i]]]
  /\ pos' = pos + n
  /\ state' = "got_data"
  /\ bytes_received' = bytes_received + n
  /\ rpc' = IF bytes_received' = bytes_to_receive THEN "put" ELSE "idle"
  /\ UNCHANGED <<header, rd_item, recvq, failed, notReceiving>>

\* no data in the wait time, or the end of the stream
RecvNothing ==
  /\ rpc = "select"
  /\ \/ state' = "timeout"
     \/ state' = "closed" /\ pos = Len(Stream)
  /\ rpc' = "idle"
  /\ UNCHANGED <<header, bytes_received, rd_item, pos, recvRing, failed, notReceiving>>

\* select or recv fails: -1 is added to a count of bytes, and if the sender
\* overwrites the state, the next bytes go to the wrong place.  What the
\* thread does from there is not followed.
RecvFails ==
  /\ MayFail /\ rpc = "select"
  /\ state' = "error" /\ failed' = failed \cup {"recv"}
  /\ rpc' = "derailed"
  /\ UNCHANGED <<header, bytes_received, rd_item, pos, recvRing, notReceiving>>

RecvPutTail ==
  /\ rpc = "put"
  /\ recvq' = aq_put_tail(recvq)
  /\ header' = <<>> /\ bytes_received' = 0 /\ rd_item' = NULL
  /\ rpc' = "idle"
  /\ UNCHANGED <<pos, recvItems, state, failed, notReceiving>>

RecvData == \E n \in 1..(HEADER_BYTES + BUFFER_SIZE) : RecvHeader(n) \/ RecvFrame(n)
Recv == RecvBegin \/ RecvGetTail \/ RecvPreSelect \/ RecvData \/ RecvNothing \/ RecvPutTail

-----------------------------------------------------------------------------
(* repeat_injecting_function                                               *)

InjectGetHead ==
  /\ ipc = "idle"
  /\ inj_item' = aq_get_head(recvq)
  /\ ipc' = IF inj_item' = NULL THEN "idle" ELSE "inject"
  /\ UNCHANGED <<injected, recvRing, state, failed, notInjecting>>

\* Mutant: the whole buffer is injected.
InjectWholeBuffer ==
  /\ ipc = "inject"
  /\ injected' = Append(injected, recvItems[inj_item].ts \o recvItems[inj_item].buffer)
  /\ ipc' = "used"
  /\ UNCHANGED <<inj_item, recvRing, state, failed, notInjecting>>

\* pcap_inject; the item is used up whether it succeeds or not
InjectFrame ==
  /\ ipc = "inject"
  /\ LET slot == recvItems[inj_item]
     IN  injected' = Append(injected, slot.ts \o SubSeq(slot.buffer, 1, slot.size))
  /\ ipc' = "used"
  /\ UNCHANGED <<inj_item, recvRing, state, failed, notInjecting>>

InjectUsedHead ==
  /\ ipc = "used"
  /\ recvq' = aq_used_head(recvq)
  /\ ipc' = "idle"
  /\ UNCHANGED <<inj_item, injected, recvItems, state, failed, notInjecting>>

Inject == InjectGetHead \/ InjectFrame \/ InjectUsedHead

Next ==
  \/ Connect \/ Capture \/ Send \/ Recv \/ Inject
  \/ SendFails \/ SendTimesOut \/ RecvFails

\* Each looper thread gets on.  Frames that were captured and bytes that were
\* written by the host do arrive, although pcap_next_ex and select may find
\* nothing any finite number of times.
Fairness ==
  /\ WF_vars(Connect)
  /\ WF_vars(Capture) /\ SF_vars(CaptureAck \/ CaptureFrame)
  /\ WF_vars(Send)
  /\ WF_vars(Recv) /\ SF_vars(RecvData)
  /\ WF_vars(Inject)

Spec == Init /\ [][Next]_vars /\ Fairness

-----------------------------------------------------------------------------
(* Properties.                                                             *)

Parts == {"len", "ts", "frame"}
Bytes == ToSet(Stream) \cup {NoByte}

TypeOK ==
  /\ captured \in 0..Frames /\ cpc \in {"idle", "capturing", "put"}
  /\ sendq \in AqRings /\ recvq \in AqRings
  /\ sendItems \in [Slots -> [ts : 0..Frames, frame : 0..Frames]]
  /\ {new_item, item, rd_item, inj_item} \subseteq Slots \cup {NULL}
  /\ spc \in {"idle", "cast", "select", "used", "stuck"} /\ part \in Parts
  /\ rpc \in {"idle", "recv", "tail", "select", "put", "derailed"}
  /\ bytes_received \in 0..BUFFER_SIZE /\ len_received \in 0..HEADER_BYTES
  /\ pos \in 0..Len(Stream) /\ ToSet(header) \subseteq Bytes
  /\ ipc \in {"idle", "inject", "used"}
  /\ state \in LisaStates
  /\ failed \subseteq {"connect", "send", "recv"}

\* What aq_type.h:4-7 asks of the sender: it calls aq_used_head for the item
\* that aq_get_head gave it last, and the ring still has it.
UsedHeadFollowsGetHead == spc = "used" => ~sendq.empty /\ item = sendq.head

\* As long as the connection works the sender keeps to it, and no slot of
\* capture_send_q is written while it is read; the threads of the other ring
\* keep to it whatever happens to the connection.
SlotsExclusive ==
  /\ failed = {} =>
       /\ UsedHeadFollowsGetHead
       /\ spc \in {"cast", "select", "used"} /\ cpc # "idle" => item # new_item
  /\ rpc = "put" => ~recvq.full /\ rd_item = recvq.tail
  /\ ipc = "used" => ~recvq.empty /\ inj_item = recvq.head
  /\ ipc # "idle" /\ rd_item # NULL => inj_item # rd_item

\* g is the first frame after f that is no acknowledgement.
NextFrame(f, g) == f < g /\ g \in (1..Frames) \ Acks /\ (f + 1)..(g - 1) \subseteq Acks

\* What comes after one part of a message.
Follows(x, y) ==
  \/ x[1] = "len" /\ y = <<"ts", x[2]>>
  \/ x[1] = "ts" /\ y = <<"frame", x[2]>>
  \/ x[1] = "frame" /\ y[1] = "len" /\ NextFrame(x[2], y[2])

\* Until a call fails, what is on the connection is the frames captured from
\* hwsim0 in their order, each with its own length and time, without any of
\* the acknowledgements, and with no frame lost, repeated or interleaved.
OutboundInOrder ==
  failed = {} => \A i \in DOMAIN wire :
                   Follows(IF i = 1 THEN <<"frame", 0>> ELSE wire[i - 1], wire[i])

\* All that is to be on the connection in the end.
Forwarded == SelectSeq([f \in 1..Frames |-> f], LAMBDA f : f \notin Acks)
OutStream == FlattenSeq([k \in DOMAIN Forwarded |->
                <<<<"len", Forwarded[k]>>, <<"ts", Forwarded[k]>>, <<"frame", Forwarded[k]>>>>])

\* What is injected into hwsim0 is the frames of the stream, whole, in order
\* and with their own times, however recv splits them, however full the ring
\* is and whatever becomes of the connection; no byte is received past the
\* length of its frame.
InStream == [m \in DOMAIN Sizes |-> SubSeq(Message(m), LEN_BYTES + 1, Length(m))]

InboundInOrder ==
  /\ IsPrefix(injected, InStream)
  /\ len_received = HEADER_BYTES => bytes_received <= bytes_to_receive

\* Every frame gets to the other side, in both directions, if no call fails.
EverythingDelivered == <>(failed # {} \/ (wire = OutStream /\ injected = InStream))
=============================================================================
