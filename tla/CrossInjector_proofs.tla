------------------------ MODULE CrossInjector_proofs ------------------------
(***************************************************************************)
(* What the four threads of cross_injector do with their two rings and     *)
(* their connection, for any sizes of the rings and of the frames, however *)
(* many frames there are; then the loopers that run these threads, and the *)
(* registry of those that run.                                             *)
(***************************************************************************)
EXTENDS CrossInjector, Looper, QueueRegistry, SequenceTheorems, WellFoundedInduction, TLAPS

(***************************************************************************)
(* The rings.  (ArrayQueue_proofs has what two threads make of one; here   *)
(* four of them share two.)                                                *)
(***************************************************************************)

(* A ring that its two threads use as they should.                         *)
Sound(r) == r \in AqRings /\ FlagsAgree(r)

LEMMA NewRing == Sound(aq_new) /\ aq_new.empty /\ ~aq_new.full
  BY NumItemsAssumption DEF Sound, FlagsAgree, AqRings, aq_new, Slots

LEMMA SlotOrNull == NULL \notin Slots
  BY NullAssumption, NumItemsAssumption DEF Slots

LEMMA AdvanceType ==
  ASSUME NEW i \in Slots
  PROVE  Advance(i) \in Slots
  BY NumItemsAssumption DEF Advance, Slots

(* What is said of the flags needs the ring to be sound; the rest holds of *)
(* any ring, and a sender that has failed may use up an item there is not. *)
LEMMA UsedHead ==
  ASSUME NEW r \in AqRings
  PROVE  /\ aq_used_head(r) \in AqRings
         /\ ~aq_used_head(r).full /\ aq_used_head(r).tail = r.tail
         /\ Sound(r) /\ ~r.empty => Sound(aq_used_head(r))
<1> DEFINE s == aq_used_head(r)
           h == Advance(r.head)
<1>0. r.head \in Slots
  BY DEF AqRings
<1>1. h \in Slots
  BY <1>0, AdvanceType
<1>2. /\ s \in AqRings /\ s.head = h /\ s.tail = r.tail /\ s.full = FALSE
      /\ s.empty = (r.empty \/ h = r.tail)
  BY <1>1 DEF aq_used_head, AqRings
<1>3. Sound(r) /\ ~r.empty => Sound(s)
  BY <1>2 DEF Sound, FlagsAgree, AqRings
<1> QED
  BY <1>2, <1>3

LEMMA PutTail ==
  ASSUME NEW r \in AqRings
  PROVE  /\ aq_put_tail(r) \in AqRings
         /\ ~aq_put_tail(r).empty /\ aq_put_tail(r).head = r.head
         /\ Sound(r) /\ ~r.full => Sound(aq_put_tail(r))
<1> DEFINE s == aq_put_tail(r)
           t == Advance(r.tail)
<1>0. r.tail \in Slots
  BY DEF AqRings
<1>1. t \in Slots
  BY <1>0, AdvanceType
<1>2. /\ s \in AqRings /\ s.tail = t /\ s.head = r.head /\ s.empty = FALSE
      /\ s.full = (r.full \/ t = r.head)
  BY <1>1 DEF aq_put_tail, AqRings
<1>3. Sound(r) /\ ~r.full => Sound(s)
  BY <1>2 DEF Sound, FlagsAgree, AqRings
<1> QED
  BY <1>2, <1>3

----------------------------------------------------------------------------
(***************************************************************************)
(* Types, of what the threads and the rings are made of.                   *)
(***************************************************************************)
SendTypes ==
  /\ captured \in 0..Frames /\ cpc \in {"idle", "capturing", "put"}
  /\ sendq \in AqRings
  /\ sendItems \in [Slots -> [ts : 0..Frames, frame : 0..Frames]]
  /\ {new_item, item} \subseteq Slots \cup {NULL}
  /\ spc \in {"idle", "cast", "select", "used", "stuck"} /\ part \in Parts
  /\ spc # "idle" => item \in Slots
  /\ wire \in Seq(Parts \X (0..Frames))
  /\ state \in LisaStates /\ failed \subseteq {"connect", "send", "recv"}

(* The capturing thread has the slot at the tail, and the sending thread,  *)
(* until a call fails, the one at the head.  A connection is not usable    *)
(* before there is one, when there is no item yet, or after a failure.     *)
CaptureHolds == cpc # "idle" => ~sendq.full /\ new_item = sendq.tail

SendHolds ==
  failed = {} => /\ Sound(sendq) /\ state # "error" /\ spc # "stuck"
                 /\ state = "created" => item = NULL
                 /\ spc # "idle" => ~sendq.empty /\ item = sendq.head

(* The receiving thread has the slot at the tail once it has the time of a *)
(* frame, and keeps it over many iterations; the injecting thread has the  *)
(* one at the head.                                                        *)
RecvHolds ==
  /\ rd_item # NULL => ~recvq.full /\ rd_item = recvq.tail
  /\ rpc = "put" \/ (rpc \in {"recv", "select"} /\ len_received = HEADER_BYTES) => rd_item # NULL

InjectHolds == ipc # "idle" => ~recvq.empty /\ inj_item = recvq.head

SlotInv ==
  /\ SendTypes /\ CaptureHolds /\ SendHolds
  /\ Sound(recvq) /\ RecvHolds /\ InjectHolds

LEMMA InitSlots == Init => SlotInv
<1> SUFFICES ASSUME Init PROVE SlotInv
  OBVIOUS
<1>1. sendItems \in [Slots -> [ts : 0..Frames, frame : 0..Frames]] /\ captured \in 0..Frames
  BY FramesAssumption DEF Init
<1>2. wire \in Seq(Parts \X (0..Frames))
  BY EmptySeq DEF Init
<1>3. Sound(sendq) /\ Sound(recvq)
  BY NewRing DEF Init
<1>4. SendTypes
  BY <1>1, <1>2, <1>3 DEF Init, SendTypes, Sound, Parts, LisaStates, Usable
<1> QED
  BY <1>3, <1>4 DEF Init, SlotInv, CaptureHolds, SendHolds, RecvHolds, InjectHolds

(* What the other threads leave alone.                                     *)
LEMMA KeepsSend ==
  ASSUME SendTypes, CaptureHolds, SendHolds, UNCHANGED <<captureVars, sendVars, sendRing>>,
         state' \in LisaStates, state' # "created" \/ UNCHANGED state,
         failed' \subseteq {"connect", "send", "recv"}, failed \subseteq failed',
         failed' = {} => state' # "error"
  PROVE  (SendTypes /\ CaptureHolds /\ SendHolds)'
<1> USE DEF captureVars, sendVars, sendRing
<1>1. SendTypes'
  BY DEF SendTypes
<1>2. CaptureHolds'
  BY DEF CaptureHolds
<1>3. SendHolds'
  BY DEF SendHolds, Sound
<1> QED
  BY <1>1, <1>2, <1>3

LEMMA KeepsRecv ==
  ASSUME Sound(recvq), RecvHolds, InjectHolds, UNCHANGED <<recvVars, injectVars, recvq>>
  PROVE  (Sound(recvq) /\ RecvHolds /\ InjectHolds)'
  BY DEF recvVars, injectVars, Sound, RecvHolds, InjectHolds, len_received

(* The sending side in the steps of its two threads.                       *)
OfSending == Capture \/ Send \/ SendFails \/ SendTimesOut

LEMMA SendingTypes == SendTypes /\ OfSending => SendTypes'
<1> SUFFICES ASSUME SendTypes, OfSending PROVE SendTypes'
  OBVIOUS
<1> USE DEF notCapturing, notSending, captureVars, sendVars, sendRing, recvVars, injectVars, recvRing
<1> DEFINE Items == [ts : 0..Frames, frame : 0..Frames]
<1>0. /\ sendq \in AqRings /\ sendq.head \in Slots /\ sendq.tail \in Slots
      /\ sendItems \in [Slots -> Items] /\ NULL \notin Slots
      /\ {new_item, item} \subseteq Slots \cup {NULL}
  BY SlotOrNull DEF SendTypes, AqRings
<1>1. CASE CaptureGetTail
  <2>1. new_item' \in Slots \cup {NULL} /\ cpc' \in {"idle", "capturing"}
    BY <1>0, <1>1 DEF CaptureGetTail, aq_get_tail
  <2> QED
    BY <1>1, <2>1 DEF CaptureGetTail, SendTypes
<1>2. CASE CaptureNothing
  BY <1>2 DEF CaptureNothing, SendTypes
<1>3. CASE CaptureAck \/ CaptureFrame
  <2> DEFINE f == captured + 1
  <2>1. f \in 0..Frames
    BY <1>3, FramesAssumption DEF CaptureAck, CaptureFrame
  <2>2. \/ sendItems' = [sendItems EXCEPT ![new_item].ts = f]
        \/ sendItems' = [sendItems EXCEPT ![new_item] = [ts |-> f, frame |-> f]]
    BY <1>3 DEF CaptureAck, CaptureFrame
  <2>3. captured' = f /\ cpc' \in {"idle", "put"}
        /\ UNCHANGED <<new_item, sendq, state, failed, notCapturing>>
    BY <1>3 DEF CaptureAck, CaptureFrame
  <2> HIDE DEF f
  <2>4. sendItems' \in [Slots -> Items]
    BY <1>0, <2>1, <2>2
  <2> QED
    BY <2>1, <2>3, <2>4 DEF SendTypes
<1>4. CASE CapturePutTail
  <2>1. sendq' \in AqRings
    BY <1>0, <1>4, PutTail DEF CapturePutTail
  <2> QED
    BY <1>4, <2>1 DEF CapturePutTail, SendTypes
<1>5. CASE SendGetHead
  <2>1. item' \in Slots \cup {NULL}
    BY <1>0, <1>5 DEF SendGetHead, aq_get_head
  <2> QED
    BY <1>5, <2>1 DEF SendGetHead, SendTypes, Parts
<1>6. CASE SendPreSelect
  BY <1>6 DEF SendPreSelect, NextPart, SendTypes, Parts
<1>7. CASE SendPostSelect
  <2>0. item \in Slots
    BY <1>7 DEF SendPostSelect, SendTypes
  <2>1. sendItems[item] \in Items /\ part \in Parts /\ wire \in Seq(Parts \X (0..Frames))
    BY <1>0, <2>0 DEF SendTypes
  <2>2. <<part, PartValue>> \in Parts \X (0..Frames)
    BY <2>1 DEF PartValue
  <2>3. wire' \in Seq(Parts \X (0..Frames))
    BY <1>7, <2>1, <2>2, AppendProperties DEF SendPostSelect
  <2>4. part' \in Parts /\ spc' \in {"used", "cast"}
    BY <1>7, <2>1 DEF SendPostSelect, NextPart, Parts
  <2> QED
    BY <1>7, <2>3, <2>4 DEF SendPostSelect, SendTypes, LisaStates, Usable
<1>8. CASE SendFails
  BY <1>8 DEF SendFails, NextPart, SendTypes, LisaStates, Parts
<1>9. CASE SendTimesOut
  BY <1>9 DEF SendTimesOut, SendTypes
<1>10. CASE SendUsedHead
  <2>1. sendq' \in AqRings
    BY <1>0, <1>10, UsedHead DEF SendUsedHead
  <2> QED
    BY <1>10, <2>1 DEF SendUsedHead, SendTypes
<1> QED
  BY <1>1, <1>2, <1>3, <1>4, <1>5, <1>6, <1>7, <1>8, <1>9, <1>10 DEF OfSending, Capture, Send

LEMMA SendingHolds ==
  SendTypes /\ CaptureHolds /\ SendHolds /\ OfSending => (CaptureHolds /\ SendHolds)'
<1> SUFFICES ASSUME SendTypes, CaptureHolds, SendHolds, OfSending
             PROVE  CaptureHolds' /\ SendHolds'
  OBVIOUS
<1> USE DEF notCapturing, notSending, captureVars, sendVars, sendRing
<1>0. sendq \in AqRings /\ NULL \notin Slots /\ sendq.head \in Slots
  BY SlotOrNull DEF SendTypes, AqRings
<1>1. CASE CaptureGetTail \/ CaptureNothing \/ CaptureAck \/ CaptureFrame
  <2>1. UNCHANGED <<sendq, sendVars, state, failed>>
    BY <1>1 DEF CaptureGetTail, CaptureNothing, CaptureAck, CaptureFrame
  <2>2. cpc' # "idle" => \/ cpc # "idle" /\ new_item' = new_item
                         \/ new_item' = aq_get_tail(sendq) /\ new_item' # NULL
    BY <1>1 DEF CaptureGetTail, CaptureNothing, CaptureAck, CaptureFrame
  <2>3. CaptureHolds'
    BY <2>1, <2>2 DEF CaptureHolds, aq_get_tail
  <2>4. SendHolds'
    BY <2>1 DEF SendHolds, Sound
  <2> QED
    BY <2>3, <2>4
<1>2. CASE CapturePutTail
  <2>1. /\ sendq' = aq_put_tail(sendq) /\ cpc' = "idle" /\ ~sendq.full
        /\ UNCHANGED <<sendVars, state, failed>>
    BY <1>2 DEF CapturePutTail, CaptureHolds
  <2>2. ~sendq'.empty /\ sendq'.head = sendq.head /\ (Sound(sendq) => Sound(sendq'))
    BY <1>0, <2>1, PutTail
  <2>3. SendHolds'
    BY <2>1, <2>2 DEF SendHolds, Sound
  <2> QED
    BY <2>1, <2>3 DEF CaptureHolds
<1>3. CASE SendGetHead
  <2>1. /\ UNCHANGED <<sendq, captureVars, state, failed>> /\ spc = "idle"
        /\ item' = IF state \in Usable THEN aq_get_head(sendq) ELSE item
        /\ spc' = IF item' = NULL THEN "idle" ELSE "cast"
    BY <1>3 DEF SendGetHead
  <2>2. CaptureHolds'
    BY <2>1 DEF CaptureHolds
  <2>3. state \in Usable => state # "created"
    BY DEF Usable
  <2>4. state \in Usable \/ state \in {"created", "error"}
    BY DEF SendTypes, LisaStates
  <2>5. SendHolds'
    BY <1>0, <2>1, <2>3, <2>4 DEF SendHolds, aq_get_head, Sound
  <2> QED
    BY <2>2, <2>5
<1>4. CASE SendPreSelect \/ SendPostSelect
  <2>1. /\ UNCHANGED <<sendq, captureVars, item, failed>> /\ spc # "idle"
        /\ spc' \in {"cast", "select", "used"} /\ state' \in {state, "sent_data"}
    BY <1>4 DEF SendPreSelect, SendPostSelect, NextPart
  <2> QED
    BY <2>1 DEF CaptureHolds, SendHolds, Sound
<1>5. CASE SendFails \/ SendTimesOut
  <2>1. UNCHANGED <<sendq, captureVars>> /\ failed' # {}
    BY <1>5 DEF SendFails, SendTimesOut
  <2> QED
    BY <2>1 DEF CaptureHolds, SendHolds
<1>6. CASE SendUsedHead
  <2>1. /\ sendq' = aq_used_head(sendq) /\ spc' = "idle" /\ spc # "idle"
        /\ UNCHANGED <<captureVars, item, state, failed>>
    BY <1>6 DEF SendUsedHead
  <2>2. ~sendq'.full /\ sendq'.tail = sendq.tail /\ (Sound(sendq) /\ ~sendq.empty => Sound(sendq'))
    BY <1>0, <2>1, UsedHead
  <2>3. CaptureHolds'
    BY <2>1, <2>2 DEF CaptureHolds
  <2>4. SendHolds'
    BY <2>1, <2>2 DEF SendHolds
  <2> QED
    BY <2>3, <2>4
<1> QED
  BY <1>1, <1>2, <1>3, <1>4, <1>5, <1>6 DEF OfSending, Capture, Send

(* The receiving side in the steps of its two threads.                     *)
OfReceiving == Recv \/ RecvFails \/ Inject

LEMMA ReceivingHolds ==
  Sound(recvq) /\ RecvHolds /\ InjectHolds /\ OfReceiving => (Sound(recvq) /\ RecvHolds /\ InjectHolds)'
<1> SUFFICES ASSUME Sound(recvq), RecvHolds, InjectHolds, OfReceiving
             PROVE  Sound(recvq)' /\ RecvHolds' /\ InjectHolds'
  OBVIOUS
<1> USE DEF notReceiving, notInjecting, recvVars, injectVars, recvRing
<1>0. recvq \in AqRings /\ NULL \notin Slots /\ recvq.head \in Slots /\ recvq.tail \in Slots
  BY SlotOrNull DEF Sound, AqRings
<1>1. ASSUME UNCHANGED <<recvq, injectVars>> PROVE Sound(recvq)' /\ InjectHolds'
  BY <1>1 DEF Sound, InjectHolds
<1>2. CASE RecvBegin \/ RecvNothing \/ RecvFails \/ RecvPreSelect
  <2>1. UNCHANGED <<recvq, injectVars, rd_item, header>>
    BY <1>2 DEF RecvBegin, RecvNothing, RecvFails, RecvPreSelect
  <2>2. \/ rpc' \in {"idle", "tail", "derailed"}
        \/ rpc' = "recv" /\ Len(header) # HEADER_BYTES
        \/ rpc' = "select" /\ rpc = "recv"
    <3>1. RecvBegin => rpc' = "tail" \/ (rpc' = "recv" /\ Len(header) # HEADER_BYTES)
      BY DEF RecvBegin, Resume
    <3>2. RecvNothing \/ RecvFails => rpc' \in {"idle", "derailed"}
      BY DEF RecvNothing, RecvFails
    <3>3. RecvPreSelect => rpc' = "derailed" \/ (rpc' = "select" /\ rpc = "recv")
      BY DEF RecvPreSelect
    <3> QED
      BY <1>2, <3>1, <3>2, <3>3
  <2>3. RecvHolds'
    BY <2>1, <2>2 DEF RecvHolds, len_received
  <2> QED
    BY <1>1, <2>1, <2>3
<1>3. CASE RecvGetTail
  <2>1. UNCHANGED <<recvq, injectVars, header>> /\ rd_item' = aq_get_tail(recvq)
        /\ rpc' = IF rd_item' = NULL THEN "idle" ELSE "recv"
    BY <1>3 DEF RecvGetTail
  <2>2. RecvHolds'
    BY <2>1 DEF RecvHolds, aq_get_tail
  <2> QED
    BY <1>1, <2>1, <2>2
<1>4. ASSUME NEW n \in 1..(HEADER_BYTES + BUFFER_SIZE), RecvHeader(n) PROVE RecvHolds'
  <2>1. UNCHANGED <<recvq, rd_item>>
        /\ IF Len(header') \in {LEN_BYTES, HEADER_BYTES} THEN Resume(header') ELSE rpc' = "idle"
    BY <1>4 DEF RecvHeader
  <2> QED
    BY <2>1 DEF RecvHolds, Resume, len_received
<1>5. ASSUME NEW n \in 1..(HEADER_BYTES + BUFFER_SIZE), RecvFrame(n) PROVE RecvHolds'
  <2>1. UNCHANGED <<recvq, rd_item, header>> /\ rpc = "select" /\ len_received = HEADER_BYTES
        /\ rpc' \in {"put", "idle"}
    BY <1>5 DEF RecvFrame
  <2> QED
    BY <2>1 DEF RecvHolds
<1>6. CASE RecvPutTail
  <2>1. /\ recvq' = aq_put_tail(recvq) /\ rd_item' = NULL /\ rpc' = "idle" /\ ~recvq.full
        /\ UNCHANGED injectVars
    BY <1>6 DEF RecvPutTail, RecvHolds
  <2>2. ~recvq'.empty /\ recvq'.head = recvq.head /\ Sound(recvq')
    BY <1>0, <2>1, PutTail
  <2> QED
    BY <2>1, <2>2 DEF RecvHolds, InjectHolds
<1>7. CASE InjectGetHead \/ InjectFrame
  <2>1. /\ UNCHANGED <<recvq, recvVars>>
        /\ ipc' # "idle" => \/ ipc # "idle" /\ inj_item' = inj_item
                            \/ inj_item' = aq_get_head(recvq) /\ inj_item' # NULL
    BY <1>7 DEF InjectGetHead, InjectFrame
  <2>2. InjectHolds'
    BY <2>1 DEF InjectHolds, aq_get_head
  <2>3. RecvHolds'
    BY <2>1 DEF RecvHolds, len_received
  <2> QED
    BY <2>1, <2>2, <2>3 DEF Sound
<1>8. CASE InjectUsedHead
  <2>1. recvq' = aq_used_head(recvq) /\ ipc' = "idle" /\ ~recvq.empty /\ UNCHANGED recvVars
    BY <1>8 DEF InjectUsedHead, InjectHolds
  <2>2. ~recvq'.full /\ recvq'.tail = recvq.tail /\ Sound(recvq')
    BY <1>0, <2>1, UsedHead
  <2>3. RecvHolds'
    BY <2>1, <2>2 DEF RecvHolds, len_received
  <2> QED
    BY <2>1, <2>2, <2>3 DEF InjectHolds
<1>9. RecvData => UNCHANGED <<recvq, injectVars>>
  BY DEF RecvData, RecvHeader, RecvFrame
<1> QED
  BY <1>1, <1>2, <1>3, <1>4, <1>5, <1>6, <1>7, <1>8, <1>9 DEF OfReceiving, Recv, RecvData, Inject

LEMMA KeepsSlots == SlotInv /\ [Next]_vars => SlotInv'
<1> SUFFICES ASSUME SlotInv, [Next]_vars PROVE SlotInv'
  OBVIOUS
<1>0. SendTypes /\ CaptureHolds /\ SendHolds /\ Sound(recvq) /\ RecvHolds /\ InjectHolds
  BY DEF SlotInv
<1>1. CASE OfSending
  <2>1. UNCHANGED <<recvVars, injectVars, recvq>>
    BY <1>1 DEF OfSending, Capture, CaptureGetTail, CaptureNothing, CaptureAck, CaptureFrame,
                CapturePutTail, Send, SendGetHead, SendPreSelect, SendPostSelect, SendUsedHead,
                SendFails, SendTimesOut, notCapturing, notSending, recvRing
  <2>2. (Sound(recvq) /\ RecvHolds /\ InjectHolds)'
    BY <1>0, <2>1, KeepsRecv
  <2>3. (SendTypes /\ CaptureHolds /\ SendHolds)'
    BY <1>0, <1>1, SendingTypes, SendingHolds
  <2> QED
    BY <2>2, <2>3 DEF SlotInv
<1>2. CASE OfReceiving
  <2>1. (Sound(recvq) /\ RecvHolds /\ InjectHolds)'
    BY <1>0, <1>2, ReceivingHolds
  <2>2. UNCHANGED <<captureVars, sendVars, sendRing>>
        /\ \/ UNCHANGED failed /\ state' \in {state, "timeout", "closed", "got_data"}
           \/ failed' = failed \cup {"recv"} /\ state' = "error"
    BY <1>2 DEF OfReceiving, Recv, RecvBegin, RecvGetTail, RecvPreSelect, RecvData, RecvHeader,
                RecvFrame, RecvNothing, RecvFails, RecvPutTail, Inject, InjectGetHead, InjectFrame,
                InjectUsedHead, notReceiving, notInjecting
  <2>3. state' \in LisaStates /\ (state' # "created" \/ UNCHANGED state)
    BY <1>0, <2>2 DEF SendTypes, LisaStates, Usable
  <2>4. /\ failed' \subseteq {"connect", "send", "recv"} /\ failed \subseteq failed'
        /\ failed' = {} => state' # "error"
    BY <1>0, <2>2 DEF SendTypes, SendHolds
  <2>5. (SendTypes /\ CaptureHolds /\ SendHolds)'
    BY <1>0, <2>2, <2>3, <2>4, KeepsSend
  <2> QED
    BY <2>1, <2>5 DEF SlotInv
<1>3. CASE Connect
  <2>1. /\ UNCHANGED <<captureVars, sendVars, sendRing, recvVars, injectVars, recvq>>
        /\ \/ UNCHANGED failed /\ state' = "connected"
           \/ failed' = {"connect"} /\ state' = "error"
        /\ state = "created"
    BY <1>3 DEF Connect, recvRing
  <2>2. (Sound(recvq) /\ RecvHolds /\ InjectHolds)'
    BY <1>0, <2>1, KeepsRecv
  <2>3. state' \in LisaStates
    BY <2>1 DEF LisaStates, Usable
  <2>4. SendTypes'
    BY <1>0, <2>1, <2>3 DEF SendTypes, captureVars, sendVars, sendRing
  <2>5. CaptureHolds' /\ SendHolds'
    BY <1>0, <2>1 DEF CaptureHolds, SendHolds, Sound, captureVars, sendVars, sendRing
  <2> QED
    BY <2>2, <2>4, <2>5 DEF SlotInv
<1>4. CASE UNCHANGED vars
  <2>1. SendTypes' /\ CaptureHolds' /\ SendHolds'
    BY <1>0, <1>4 DEF vars, captureVars, sendVars, sendRing, SendTypes, CaptureHolds, SendHolds, Sound
  <2>2. (Sound(recvq) /\ RecvHolds /\ InjectHolds)'
    BY <1>0, <1>4, KeepsRecv DEF vars, recvRing
  <2> QED
    BY <2>1, <2>2 DEF SlotInv
<1> QED
  BY <1>1, <1>2, <1>3, <1>4 DEF Next, OfSending, OfReceiving

(* No slot of either ring is written while it is read.                     *)
THEOREM SlotsKeptApart == Spec => []SlotsExclusive
<1>1. SlotInv => SlotsExclusive
  <2> SUFFICES ASSUME SlotInv PROVE SlotsExclusive
    OBVIOUS
  <2>1. CaptureHolds /\ SendHolds /\ Sound(recvq) /\ RecvHolds /\ InjectHolds
    BY DEF SlotInv
  <2>2. ASSUME NEW r, Sound(r), ~r.empty, ~r.full PROVE r.head # r.tail
    BY <2>2 DEF Sound, FlagsAgree
  <2>3. failed = {} =>
          /\ UsedHeadFollowsGetHead
          /\ spc \in {"cast", "select", "used"} /\ cpc # "idle" => item # new_item
    BY <2>1, <2>2 DEF CaptureHolds, SendHolds, UsedHeadFollowsGetHead
  <2>4. (rpc = "put" => ~recvq.full /\ rd_item = recvq.tail)
        /\ (ipc = "used" => ~recvq.empty /\ inj_item = recvq.head)
    BY <2>1 DEF RecvHolds, InjectHolds
  <2>5. ipc # "idle" /\ rd_item # NULL => inj_item # rd_item
    BY <2>1, <2>2 DEF RecvHolds, InjectHolds
  <2> QED
    BY <2>3, <2>4, <2>5 DEF SlotsExclusive
<1> QED
  BY <1>1, InitSlots, KeepsSlots, PTL DEF Spec

----------------------------------------------------------------------------
(***************************************************************************)
(* Where the items of a ring are.                                          *)
(***************************************************************************)
LEMMA SlotsOf ==
  ASSUME NEW r, Sound(r)
  PROVE  /\ Count(r) \in 0..NumItems /\ Count(r) \in Nat /\ (r.empty <=> Count(r) = 0)
         /\ SlotAt(r, 1) = r.head
         /\ \A i \in 1..Count(r) : SlotAt(r, i) \in Slots /\ (~r.full => SlotAt(r, i) # r.tail)
         /\ ~r.full => SlotAt(r, Count(r) + 1) = r.tail
<1> DEFINE h == r.head
           t == r.tail
<1>1. /\ h \in Slots /\ t \in Slots /\ r.full \in BOOLEAN /\ r.empty \in BOOLEAN
      /\ r.full => h = t /\ ~r.empty
      /\ r.empty => h = t
      /\ h = t => r.full \/ r.empty
  BY DEF Sound, FlagsAgree, AqRings
<1>2. Count(r) = IF r.full THEN NumItems ELSE IF t >= h THEN t - h ELSE t + NumItems - h
  BY DEF Count
<1>3. \A i : SlotAt(r, i) = IF h + i - 1 < NumItems THEN h + i - 1 ELSE h + i - 1 - NumItems
  BY DEF SlotAt
<1> HIDE DEF h, t
<1>4. Count(r) \in 0..NumItems /\ Count(r) \in Nat /\ (r.empty <=> Count(r) = 0)
  BY <1>1, <1>2, NumItemsAssumption DEF Slots
<1>5. SlotAt(r, 1) = h
  BY <1>1, <1>3, NumItemsAssumption DEF Slots
<1>6. ASSUME NEW i \in 1..Count(r) PROVE SlotAt(r, i) \in Slots /\ (~r.full => SlotAt(r, i) # t)
  <2>1. i \in 1..NumItems
    BY <1>4, NumItemsAssumption
  <2>4. SlotAt(r, i) = IF h + i - 1 < NumItems THEN h + i - 1 ELSE h + i - 1 - NumItems
    BY <1>3
  <2>5. h \in 0..(NumItems - 1) /\ t \in 0..(NumItems - 1)
    BY <1>1 DEF Slots
  <2>2. SlotAt(r, i) \in Slots
    BY <2>1, <2>4, <2>5, NumItemsAssumption DEF Slots
  <2>3. ASSUME ~r.full PROVE SlotAt(r, i) # t
    <3>1. i <= IF t >= h THEN t - h ELSE t + NumItems - h
      BY <1>2, <2>3
    <3> QED
      BY <2>1, <2>4, <2>5, <3>1, NumItemsAssumption
  <2> QED
    BY <2>2, <2>3
<1>7. ~r.full => SlotAt(r, Count(r) + 1) = t
  BY <1>1, <1>2, <1>3, NumItemsAssumption DEF Slots
<1> QED
  BY <1>4, <1>5, <1>6, <1>7 DEF h, t

LEMMA UsedHeadSlots ==
  ASSUME NEW r, Sound(r), ~r.empty
  PROVE  /\ Count(aq_used_head(r)) = Count(r) - 1
         /\ \A i \in 1..Count(r) : SlotAt(aq_used_head(r), i) = SlotAt(r, i + 1)
<1> DEFINE s == aq_used_head(r)
           h == r.head
           t == r.tail
           g == s.head
<1>1. /\ h \in Slots /\ t \in Slots /\ r.full \in BOOLEAN
      /\ r.full => h = t
      /\ h = t => r.full
  BY DEF Sound, FlagsAgree, AqRings
<1>2. g = (IF h + 1 = NumItems THEN 0 ELSE h + 1) /\ s.tail = t /\ s.full = FALSE
  BY DEF aq_used_head, Advance, Sound, AqRings
<1>3. /\ Count(r) = IF r.full THEN NumItems ELSE IF t >= h THEN t - h ELSE t + NumItems - h
      /\ Count(s) = IF t >= g THEN t - g ELSE t + NumItems - g
  BY <1>2 DEF Count
<1>4. \A i : /\ SlotAt(r, i) = IF h + i - 1 < NumItems THEN h + i - 1 ELSE h + i - 1 - NumItems
             /\ SlotAt(s, i) = IF g + i - 1 < NumItems THEN g + i - 1 ELSE g + i - 1 - NumItems
  BY DEF SlotAt
<1>5. Count(r) \in 1..NumItems
  BY SlotsOf, NumItemsAssumption
<1> HIDE DEF s, h, t, g
<1>6. Count(s) = Count(r) - 1
  BY <1>1, <1>2, <1>3, NumItemsAssumption DEF Slots
<1>7. ASSUME NEW i \in 1..Count(r) PROVE SlotAt(s, i) = SlotAt(r, i + 1)
  BY <1>1, <1>2, <1>4, <1>5, NumItemsAssumption DEF Slots
<1> QED
  BY <1>6, <1>7 DEF s

LEMMA PutTailSlots ==
  ASSUME NEW r, Sound(r), ~r.full
  PROVE  /\ Count(aq_put_tail(r)) = Count(r) + 1
         /\ \A i : SlotAt(aq_put_tail(r), i) = SlotAt(r, i)
<1> DEFINE s == aq_put_tail(r)
           h == r.head
           t == r.tail
           u == s.tail
<1>1. /\ h \in Slots /\ t \in Slots /\ r.full = FALSE
  BY DEF Sound, FlagsAgree, AqRings
<1>2. u = (IF t + 1 = NumItems THEN 0 ELSE t + 1) /\ s.head = h /\ (s.full <=> u = h)
  <2>1. s.tail = Advance(t) /\ s.head = h
    BY DEF aq_put_tail, Sound, AqRings
  <2>2. s.full <=> Advance(t) = h
    BY <1>1 DEF aq_put_tail, Sound, AqRings
  <2> QED
    BY <2>1, <2>2 DEF Advance
<1>3. /\ Count(r) = IF t >= h THEN t - h ELSE t + NumItems - h
      /\ Count(s) = IF s.full THEN NumItems ELSE IF u >= h THEN u - h ELSE u + NumItems - h
  BY <1>1, <1>2 DEF Count
<1>4. \A i : SlotAt(s, i) = SlotAt(r, i)
  BY <1>2 DEF SlotAt
<1> HIDE DEF s, h, t, u
<1>5. Count(s) = Count(r) + 1
  BY <1>1, <1>2, <1>3, NumItemsAssumption DEF Slots
<1> QED
  BY <1>4, <1>5 DEF s

----------------------------------------------------------------------------
(***************************************************************************)
(* From hwsim0 to the connection.  The frames in the ring, with the one    *)
(* about to be put, follow each other and what is on the connection; only  *)
(* acknowledgements came after the last of them.                           *)
(***************************************************************************)
Queued(k) == sendItems[SlotAt(sendq, k)]

Ahead == Count(sendq) + (IF cpc = "put" THEN 1 ELSE 0)

LastPart == IF wire = <<>> THEN <<"frame", 0>> ELSE wire[Len(wire)]

Newest == IF Ahead = 0 THEN LastPart[2] ELSE Queued(Ahead).frame

FramesAhead ==
  /\ \A k \in 1..Ahead : Queued(k).ts = Queued(k).frame
  /\ \A k \in 1..(Ahead - 1) : NextFrame(Queued(k).frame, Queued(k + 1).frame)
  /\ Newest <= captured /\ (Newest + 1)..captured \subseteq Acks

AtHead ==
  /\ spc = "idle" => LastPart[1] = "frame" /\ (Ahead > 0 => NextFrame(LastPart[2], Queued(1).frame))
  /\ spc \in {"cast", "select"} => Follows(LastPart, <<part, Queued(1).frame>>)
  /\ spc = "used" => LastPart = <<"frame", Queued(1).frame>>

OutInv == failed = {} => FramesAhead /\ AtHead /\ OutboundInOrder

LEMMA Here ==
  ASSUME SlotInv, failed = {}
  PROVE  /\ Sound(sendq) /\ Count(sendq) \in Nat /\ Ahead \in Nat
         /\ (cpc = "put" => Ahead = Count(sendq) + 1) /\ (cpc # "put" => Ahead = Count(sendq))
         /\ \A k \in 1..Ahead : /\ SlotAt(sendq, k) \in Slots
                               /\ Queued(k) \in [ts : 0..Frames, frame : 0..Frames]
         /\ captured \in 0..Frames /\ Frames \in Nat
         /\ LastPart \in Parts \X (0..Frames)
         /\ spc # "idle" => Count(sendq) >= 1 /\ SlotAt(sendq, 1) = item
<1>1. SendTypes /\ CaptureHolds /\ SendHolds
  BY DEF SlotInv
<1>2. Sound(sendq)
  BY <1>1 DEF SendHolds
<1>3. /\ Count(sendq) \in Nat /\ (sendq.empty <=> Count(sendq) = 0)
      /\ SlotAt(sendq, 1) = sendq.head
      /\ \A i \in 1..Count(sendq) : SlotAt(sendq, i) \in Slots
      /\ ~sendq.full => SlotAt(sendq, Count(sendq) + 1) = sendq.tail
  BY <1>2, SlotsOf
<1>4. Ahead \in Nat /\ (cpc = "put" => Ahead = Count(sendq) + 1) /\ (cpc # "put" => Ahead = Count(sendq))
  BY <1>3 DEF Ahead
<1>5. ASSUME NEW k \in 1..Ahead
      PROVE  SlotAt(sendq, k) \in Slots /\ Queued(k) \in [ts : 0..Frames, frame : 0..Frames]
  <2>1. k \in 1..Count(sendq) \/ (cpc = "put" /\ k = Count(sendq) + 1)
    BY <1>3, <1>4
  <2>2. SlotAt(sendq, k) \in Slots
    BY <1>1, <1>2, <1>3, <2>1 DEF CaptureHolds, Sound, AqRings
  <2>3. sendItems \in [Slots -> [ts : 0..Frames, frame : 0..Frames]]
    BY <1>1 DEF SendTypes
  <2> QED
    BY <2>2, <2>3 DEF Queued
<1>6. captured \in 0..Frames /\ Frames \in Nat
  BY <1>1, FramesAssumption DEF SendTypes
<1>7. LastPart \in Parts \X (0..Frames)
  <2>1. wire \in Seq(Parts \X (0..Frames))
    BY <1>1 DEF SendTypes
  <2>2. wire # <<>> => wire[Len(wire)] \in Parts \X (0..Frames)
    BY <2>1
  <2>3. <<"frame", 0>> \in Parts \X (0..Frames)
    BY <1>6 DEF Parts
  <2> QED
    BY <2>2, <2>3 DEF LastPart
<1>8. spc # "idle" => Count(sendq) >= 1 /\ SlotAt(sendq, 1) = item
  BY <1>1, <1>3 DEF SendHolds
<1> QED
  BY <1>2, <1>3, <1>4, <1>5, <1>6, <1>7, <1>8

(* What keeps the frames and the connection keeps the invariant, if the    *)
(* sender goes no further than it may.                                     *)
LEMMA SameOut ==
  ASSUME OutInv, UNCHANGED <<wire, captured, spc, part>>, Ahead' = Ahead,
         \A k : sendItems'[SlotAt(sendq', k)] = sendItems[SlotAt(sendq, k)],
         failed' = {} => failed = {}
  PROVE  OutInv'
<1> SUFFICES ASSUME failed' = {}, failed = {} PROVE (FramesAhead /\ AtHead /\ OutboundInOrder)'
  BY DEF OutInv
<1>1. FramesAhead /\ AtHead /\ OutboundInOrder
  BY DEF OutInv
<1>2. \A k : Queued(k)' = Queued(k)
  BY DEF Queued
<1>3. LastPart' = LastPart
  BY DEF LastPart
<1>4. Newest' = Newest
  BY <1>3 DEF Newest, Queued
<1>5. FramesAhead'
  BY <1>1, <1>2, <1>4 DEF FramesAhead
<1>6. AtHead'
  BY <1>1, <1>2, <1>3 DEF AtHead
<1> QED
  BY <1>1, <1>5, <1>6 DEF OutboundInOrder

(* A frame is captured: it follows the newest one, or is passed over.      *)
LEMMA CapturedOut ==
  ASSUME SlotInv, OutInv, CaptureAck \/ CaptureFrame
  PROVE  OutInv'
<1> USE DEF notCapturing, sendVars
<1> SUFFICES ASSUME failed = {} PROVE (FramesAhead /\ AtHead /\ OutboundInOrder)'
  BY DEF OutInv, CaptureAck, CaptureFrame
<1> DEFINE n == Count(sendq)
           f == captured + 1
<1>1. FramesAhead /\ AtHead /\ OutboundInOrder
  BY DEF OutInv
<1>2. /\ UNCHANGED <<new_item, sendq, wire, spc, part, failed>> /\ captured' = f
      /\ cpc = "capturing" /\ new_item = sendq.tail /\ ~sendq.full
      /\ \/ /\ f \in Acks /\ cpc' = "idle"
            /\ sendItems' = [sendItems EXCEPT ![new_item].ts = f]
         \/ /\ f \in (1..Frames) \ Acks /\ cpc' = "put"
            /\ sendItems' = [sendItems EXCEPT ![new_item] = [ts |-> f, frame |-> f]]
  BY DEF CaptureAck, CaptureFrame, SlotInv, CaptureHolds
<1>3. /\ Sound(sendq) /\ n \in Nat /\ Ahead = n
      /\ \A k \in 1..n : SlotAt(sendq, k) \in Slots
      /\ \A k \in 1..n : Queued(k).frame \in Nat
      /\ captured \in Nat /\ LastPart[2] \in Nat
      /\ spc # "idle" => n >= 1
  BY <1>2, Here
<1>4. /\ SlotAt(sendq, n + 1) = sendq.tail
      /\ \A k \in 1..n : SlotAt(sendq, k) # sendq.tail
  BY <1>2, <1>3, SlotsOf
<1>5. sendItems \in [Slots -> [ts : 0..Frames, frame : 0..Frames]] /\ sendq.tail \in Slots
  BY <1>3 DEF SlotInv, SendTypes, Sound, AqRings
<1>6. \A k \in 1..n : Queued(k)' = Queued(k)
  BY <1>2, <1>3, <1>4, <1>5 DEF Queued
<1>7. LastPart' = LastPart /\ n' = n
  BY <1>2 DEF LastPart
<1>8. Newest \in Nat /\ Newest <= captured /\ (Newest + 1)..captured \subseteq Acks
  BY <1>1, <1>3 DEF Newest, FramesAhead
<1>9. CASE f \in Acks /\ cpc' = "idle"
  <2>1. Ahead' = n
    BY <1>3, <1>7, <1>9 DEF Ahead
  <2>2. Newest' = Newest
    BY <1>3, <1>6, <1>7, <2>1 DEF Newest
  <2>3. (Newest + 1)..f \subseteq Acks /\ Newest <= f
    BY <1>3, <1>8, <1>9
  <2>4. FramesAhead'
    BY <1>1, <1>2, <1>3, <1>6, <2>1, <2>2, <2>3 DEF FramesAhead
  <2>5. AtHead'
    BY <1>1, <1>2, <1>3, <1>6, <1>7, <2>1 DEF AtHead
  <2> QED
    BY <1>1, <1>2, <2>4, <2>5 DEF OutboundInOrder
<1>10. CASE /\ f \in (1..Frames) \ Acks /\ cpc' = "put"
            /\ sendItems' = [sendItems EXCEPT ![new_item] = [ts |-> f, frame |-> f]]
  <2>1. Ahead' = n + 1
    BY <1>3, <1>7, <1>10 DEF Ahead
  <2>2. Queued(n + 1)' = [ts |-> f, frame |-> f]
    BY <1>2, <1>4, <1>5, <1>7, <1>10 DEF Queued
  <2>3. NextFrame(Newest, f)
    BY <1>3, <1>8, <1>10 DEF NextFrame
  <2>4. Newest' = f
    BY <1>3, <1>7, <2>1, <2>2 DEF Newest
  <2>5. ASSUME NEW k \in 1..Ahead' PROVE Queued(k)'.ts = Queued(k)'.frame
    <3>1. CASE k \in 1..n
      BY <1>1, <1>3, <1>6, <3>1 DEF FramesAhead
    <3>2. CASE k = n + 1
      BY <2>2, <3>2, <1>7 DEF Queued
    <3> QED
      BY <1>3, <2>1, <3>1, <3>2
  <2>6. ASSUME NEW k \in 1..n PROVE NextFrame(Queued(k)'.frame, Queued(k + 1)'.frame)
    <3>1. CASE k = n
      <4>1. Newest = Queued(n).frame
        BY <1>3, <3>1 DEF Newest
      <4> QED
        BY <1>6, <1>7, <2>2, <2>3, <3>1, <4>1 DEF Queued
    <3>2. CASE k \in 1..(n - 1)
      <4>1. k + 1 \in 1..n
        BY <1>3, <3>2
      <4> QED
        BY <1>1, <1>3, <1>6, <3>2, <4>1 DEF FramesAhead
    <3> QED
      BY <1>3, <3>1, <3>2
  <2>7. FramesAhead'
    <3>1. (f + 1)..f \subseteq Acks /\ f <= f
      BY <1>3
    <3>2. (n + 1) - 1 = n
      BY <1>3
    <3>3. \A k \in 1..(Ahead' - 1) : NextFrame(Queued(k)'.frame, Queued(k + 1)'.frame)
      BY <2>1, <2>6, <3>2
    <3> QED
      BY <1>2, <2>4, <2>5, <3>1, <3>3 DEF FramesAhead
  <2>8. AtHead'
    <3>1. CASE n = 0
      <4>1. spc = "idle" /\ LastPart[1] = "frame" /\ Newest = LastPart[2]
        BY <1>1, <1>3, <3>1 DEF AtHead, Newest
      <4> QED
        BY <1>2, <1>7, <2>2, <2>3, <3>1, <4>1 DEF AtHead
    <3>2. CASE n > 0
      BY <1>1, <1>2, <1>3, <1>6, <1>7, <3>2 DEF AtHead
    <3> QED
      BY <1>3, <3>1, <3>2
  <2> QED
    BY <1>1, <1>2, <2>7, <2>8 DEF OutboundInOrder
<1> QED
  BY <1>2, <1>9, <1>10

(* A part is given to send().                                              *)
LEMMA SentOut ==
  ASSUME SlotInv, OutInv, SendPostSelect
  PROVE  OutInv'
<1> USE DEF notSending, captureVars
<1> SUFFICES ASSUME failed = {} PROVE (FramesAhead /\ AtHead /\ OutboundInOrder)'
  BY DEF OutInv, SendPostSelect
<1>1. FramesAhead /\ AtHead /\ OutboundInOrder
  BY DEF OutInv
<1>2. /\ UNCHANGED <<sendq, sendItems, captured, cpc, failed>> /\ spc = "select"
      /\ wire' = Append(wire, <<part, PartValue>>)
      /\ spc' = (IF part = "frame" THEN "used" ELSE "cast")
      /\ part' = CASE part = "len" -> "ts" [] part = "ts" -> "frame" [] OTHER -> part
      /\ part \in Parts
  BY DEF SendPostSelect, NextPart, sendRing, SlotInv, SendTypes
<1>3. /\ Ahead >= 1 /\ Ahead \in Nat /\ SlotAt(sendq, 1) = item /\ Count(sendq) \in Nat
      /\ Queued(1).ts = Queued(1).frame
  <2>1. Ahead >= 1 /\ Ahead \in Nat /\ SlotAt(sendq, 1) = item /\ Count(sendq) \in Nat
    BY <1>2, Here DEF Ahead
  <2> QED
    BY <1>1, <2>1 DEF FramesAhead
<1> DEFINE g == Queued(1).frame
<1>4. PartValue = g
  BY <1>3 DEF PartValue, Queued
<1>5. wire \in Seq(Parts \X (0..Frames)) /\ Len(wire) \in Nat
  BY DEF SlotInv, SendTypes
<1>6. /\ DOMAIN wire' = 1..(Len(wire) + 1) /\ Len(wire') = Len(wire) + 1
      /\ DOMAIN wire = 1..Len(wire)
      /\ \A i \in 1..Len(wire) : wire'[i] = wire[i]
      /\ wire'[Len(wire) + 1] = <<part, g>>
  <2>1. PartValue \in 0..Frames
    <3>1. 1 \in 1..Ahead
      BY <1>3
    <3>2. Queued(1) \in [ts : 0..Frames, frame : 0..Frames]
      BY <3>1, Here
    <3> QED
      BY <1>4, <3>2
  <2>2. <<part, PartValue>> \in Parts \X (0..Frames)
    BY <1>2, <2>1
  <2> QED
    BY <1>2, <1>4, <1>5, <2>2, AppendProperties
<1>7. LastPart' = <<part, g>>
  <2>1. wire' # <<>>
    BY <1>5, <1>6
  <2> QED
    BY <1>6, <2>1 DEF LastPart
<1>8. \A k : Queued(k)' = Queued(k)
  BY <1>2 DEF Queued
<1>9. Ahead' = Ahead
  BY <1>2 DEF Ahead
<1>10. Follows(LastPart, <<part, g>>)
  BY <1>1, <1>2 DEF AtHead
<1> HIDE DEF g
<1>11. OutboundInOrder'
  <2> SUFFICES ASSUME NEW i \in DOMAIN wire'
               PROVE  Follows(IF i = 1 THEN <<"frame", 0>> ELSE wire'[i - 1], wire'[i])
    BY DEF OutboundInOrder
  <2>1. CASE i \in 1..Len(wire)
    <3>1. i # 1 => i - 1 \in 1..Len(wire)
      BY <1>5, <2>1
    <3>2. Follows(IF i = 1 THEN <<"frame", 0>> ELSE wire[i - 1], wire[i])
      BY <1>1, <1>6, <2>1 DEF OutboundInOrder
    <3> QED
      BY <1>6, <2>1, <3>1, <3>2
  <2>2. CASE i = Len(wire) + 1
    <3>1. (IF i = 1 THEN <<"frame", 0>> ELSE wire'[i - 1]) = LastPart
      <4>1. CASE Len(wire) = 0
        <5>1. wire = <<>>
          BY <1>5, <4>1, EmptySeq
        <5> QED
          BY <2>2, <4>1, <5>1 DEF LastPart
      <4>2. CASE Len(wire) # 0
        <5>1. wire # <<>> /\ i - 1 = Len(wire) /\ Len(wire) \in 1..Len(wire) /\ i # 1
          BY <1>5, <2>2, <4>2
        <5> QED
          BY <1>6, <5>1 DEF LastPart
      <4> QED
        BY <4>1, <4>2
    <3> QED
      BY <1>6, <1>10, <2>2, <3>1
  <2> QED
    BY <1>5, <1>6, <2>1, <2>2
<1>12. FramesAhead'
  <2>1. Newest' = Newest
    BY <1>3, <1>8, <1>9 DEF Newest
  <2> QED
    BY <1>1, <1>2, <1>8, <1>9, <2>1 DEF FramesAhead
<1>13. AtHead'
  <2>1. spc' = "used" => LastPart' = <<"frame", g>>
    BY <1>2, <1>7
  <2>2. spc' = "cast" => Follows(LastPart', <<part', g>>)
    BY <1>2, <1>7 DEF Follows, Parts
  <2>3. spc' \in {"cast", "used"} /\ Queued(1)'.frame = g
    BY <1>2, <1>8 DEF g
  <2> QED
    BY <2>1, <2>2, <2>3 DEF AtHead
<1> QED
  BY <1>11, <1>12, <1>13

(* The sender is through with an item.                                     *)
LEMMA UsedOut ==
  ASSUME SlotInv, OutInv, SendUsedHead
  PROVE  OutInv'
<1> USE DEF notSending, captureVars
<1> SUFFICES ASSUME failed = {} PROVE (FramesAhead /\ AtHead /\ OutboundInOrder)'
  BY DEF OutInv, SendUsedHead
<1> DEFINE n == Count(sendq)
<1>1. FramesAhead /\ AtHead /\ OutboundInOrder
  BY DEF OutInv
<1>2. /\ UNCHANGED <<sendItems, wire, captured, cpc, failed>> /\ spc = "used" /\ spc' = "idle"
      /\ sendq' = aq_used_head(sendq)
  BY DEF SendUsedHead
<1>3. Sound(sendq) /\ n \in Nat /\ n >= 1 /\ Ahead = n + (IF cpc = "put" THEN 1 ELSE 0) /\ Ahead \in Nat
  BY <1>2, Here DEF Ahead
<1>4. ~sendq.empty
  BY <1>3, SlotsOf
<1>5. Count(sendq') = n - 1 /\ \A k \in 1..n : SlotAt(sendq', k) = SlotAt(sendq, k + 1)
  BY <1>2, <1>3, <1>4, UsedHeadSlots
<1>6. Ahead' = Ahead - 1 /\ Ahead \in {n, n + 1}
  BY <1>2, <1>3, <1>5 DEF Ahead
<1>7. \A k \in 1..(Ahead - 1) : Queued(k)' = Queued(k + 1)
  BY <1>2, <1>3, <1>5, <1>6 DEF Queued
<1>8. LastPart' = LastPart /\ LastPart = <<"frame", Queued(1).frame>>
  BY <1>1, <1>2 DEF LastPart, AtHead
<1> HIDE DEF n
<1>9. Newest' = Newest
  <2>1. CASE Ahead = 1
    BY <1>3, <1>6, <1>8, <2>1 DEF Newest
  <2>2. CASE Ahead # 1
    <3>1. Ahead - 1 \in 1..(Ahead - 1) /\ (Ahead - 1) + 1 = Ahead /\ Ahead # 0 /\ Ahead - 1 # 0
      BY <1>3, <1>6, <2>2
    <3>2. sendItems'[SlotAt(sendq', Ahead')] = Queued(Ahead)
      BY <1>6, <1>7, <3>1 DEF Queued
    <3> QED
      BY <1>6, <3>1, <3>2 DEF Newest, Queued
  <2> QED
    BY <2>1, <2>2
<1>10. FramesAhead'
  <2>1. ASSUME NEW k \in 1..Ahead' PROVE Queued(k)'.ts = Queued(k)'.frame
    <3>1. k + 1 \in 1..Ahead /\ k \in 1..(Ahead - 1)
      BY <1>3, <1>6
    <3> QED
      BY <1>1, <1>7, <3>1 DEF FramesAhead
  <2>2. ASSUME NEW k \in 1..(Ahead' - 1) PROVE NextFrame(Queued(k)'.frame, Queued(k + 1)'.frame)
    <3>1. k + 1 \in 1..(Ahead - 1) /\ k \in 1..(Ahead - 1)
      BY <1>3, <1>6
    <3> QED
      BY <1>1, <1>7, <3>1 DEF FramesAhead
  <2> QED
    BY <1>1, <1>2, <1>9, <2>1, <2>2 DEF FramesAhead
<1>11. AtHead'
  <2>1. ASSUME Ahead' > 0 PROVE NextFrame(Queued(1).frame, Queued(1)'.frame)
    <3>1. 1 \in 1..(Ahead - 1)
      BY <1>3, <1>6, <2>1
    <3> QED
      BY <1>1, <1>7, <3>1 DEF FramesAhead
  <2> QED
    BY <1>2, <1>8, <2>1 DEF AtHead
<1> QED
  BY <1>1, <1>2, <1>10, <1>11 DEF OutboundInOrder

(* The sender takes the item at the head, or finds the connection usable.  *)
LEMMA TakenOut ==
  ASSUME SlotInv, OutInv, SendGetHead \/ SendPreSelect
  PROVE  OutInv'
<1> USE DEF notSending, captureVars, sendRing
<1> SUFFICES ASSUME failed = {} PROVE (FramesAhead /\ AtHead /\ OutboundInOrder)'
  BY DEF OutInv, SendGetHead, SendPreSelect
<1>1. FramesAhead /\ AtHead /\ OutboundInOrder
  BY DEF OutInv
<1>2. UNCHANGED <<sendq, sendItems, captured, cpc, failed, state, wire>>
  BY DEF SendGetHead, SendPreSelect
<1>3. /\ \A k : Queued(k)' = Queued(k)
      /\ LastPart' = LastPart /\ Ahead' = Ahead
      /\ Newest' = Newest
  BY <1>2 DEF Queued, LastPart, Ahead, Newest
<1>4. Ahead \in Nat /\ Count(sendq) \in Nat /\ Ahead >= Count(sendq) /\ Sound(sendq)
  BY Here DEF Ahead
<1>5. SendHolds /\ state \in Usable \cup {"created", "error"} /\ "created" \notin Usable
      /\ NULL \notin Slots /\ sendq.head \in Slots
  BY <1>4, SlotOrNull DEF SlotInv, SendTypes, LisaStates, Usable, Sound, AqRings
<1>6. AtHead'
  <2>1. CASE SendGetHead /\ item' = NULL
    BY <1>1, <1>3, <2>1 DEF SendGetHead, AtHead
  <2>2. CASE SendGetHead /\ item' # NULL
    <3>1. state \in Usable /\ ~sendq.empty
      BY <1>5, <2>2 DEF SendGetHead, SendHolds, aq_get_head
    <3>2. Ahead > 0
      BY <1>4, <3>1, SlotsOf
    <3>3. spc = "idle" /\ spc' = "cast" /\ part' = "len"
      BY <2>2 DEF SendGetHead
    <3>4. Follows(LastPart, <<"len", Queued(1).frame>>)
      BY <1>1, <3>2, <3>3 DEF AtHead, Follows
    <3> QED
      BY <1>3, <3>3, <3>4 DEF AtHead
  <2>3. CASE SendPreSelect
    <3>1. spc = "cast" /\ state \in Usable
      BY <1>5, <2>3 DEF SendPreSelect, SendHolds
    <3>2. spc' = "select" /\ part' = part
      BY <2>3, <3>1 DEF SendPreSelect
    <3> QED
      BY <1>1, <1>3, <3>1, <3>2 DEF AtHead
  <2> QED
    BY <2>1, <2>2, <2>3
<1>7. FramesAhead'
  BY <1>1, <1>2, <1>3 DEF FramesAhead
<1> QED
  BY <1>1, <1>2, <1>6, <1>7 DEF OutboundInOrder

LEMMA KeepsOut == SlotInv /\ OutInv /\ [Next]_vars => OutInv'
<1> SUFFICES ASSUME SlotInv, OutInv, [Next]_vars PROVE OutInv'
  OBVIOUS
<1>1. ASSUME UNCHANGED <<sendq, sendItems, wire, captured, spc, part, cpc>>, failed' = {} => failed = {}
      PROVE  OutInv'
  BY <1>1, SameOut DEF Ahead
<1>2. CASE CaptureGetTail \/ CaptureNothing
  <2>1. UNCHANGED <<sendq, sendItems, wire, captured, spc, part, failed>> /\ cpc # "put" /\ cpc' # "put"
    BY <1>2 DEF CaptureGetTail, CaptureNothing, sendRing, notCapturing, sendVars
  <2> QED
    BY <2>1, SameOut DEF Ahead
<1>3. CASE CapturePutTail
  <2>1. /\ UNCHANGED <<sendItems, wire, captured, spc, part, failed>> /\ cpc = "put" /\ cpc' = "idle"
        /\ sendq' = aq_put_tail(sendq) /\ ~sendq.full
    BY <1>3 DEF CapturePutTail, notCapturing, sendVars, SlotInv, CaptureHolds
  <2>2. CASE failed = {}
    <3>1. Sound(sendq) /\ Count(sendq) \in Nat
      BY <2>2, Here
    <3>2. Count(sendq') = Count(sendq) + 1 /\ \A k : SlotAt(sendq', k) = SlotAt(sendq, k)
      BY <2>1, <3>1, PutTailSlots
    <3>3. Ahead' = Ahead
      BY <2>1, <3>1, <3>2 DEF Ahead
    <3> QED
      BY <2>1, <3>2, <3>3, SameOut
  <2>3. CASE failed # {}
    BY <2>1, <2>3 DEF OutInv
  <2> QED
    BY <2>2, <2>3
<1>4. CASE SendFails \/ SendTimesOut
  BY <1>4 DEF SendFails, SendTimesOut, OutInv
<1>5. CASE OfReceiving
  <2>1. UNCHANGED <<captureVars, sendVars, sendRing>> /\ failed \subseteq failed'
    BY <1>5 DEF OfReceiving, Recv, RecvBegin, RecvGetTail, RecvPreSelect, RecvData, RecvHeader,
                RecvFrame, RecvNothing, RecvFails, RecvPutTail, Inject, InjectGetHead, InjectFrame,
                InjectUsedHead, notReceiving, notInjecting
  <2> QED
    BY <1>1, <2>1 DEF captureVars, sendVars, sendRing
<1>6. CASE Connect
  <2>1. UNCHANGED <<captureVars, sendVars, sendRing>> /\ (failed' = {} => failed = {})
    BY <1>6 DEF Connect
  <2> QED
    BY <1>1, <2>1 DEF captureVars, sendVars, sendRing
<1>7. CASE UNCHANGED vars
  BY <1>1, <1>7 DEF vars, captureVars, sendVars, sendRing
<1> QED
  BY <1>2, <1>3, <1>4, <1>5, <1>6, <1>7, CapturedOut, SentOut, UsedOut, TakenOut
     DEF Next, Capture, Send, OfReceiving

(* Until a call fails, the connection carries the captured frames in their *)
(* order, each whole and once, and no acknowledgement.                     *)
THEOREM FramesSentInOrder == Spec => []OutboundInOrder
<1>1. Init => SlotInv /\ OutInv
  <2> SUFFICES ASSUME Init PROVE OutInv
    BY InitSlots
  <2>1. Sound(sendq) /\ Ahead = 0
    <3>1. Sound(sendq) /\ sendq.empty /\ cpc = "idle"
      BY NewRing DEF Init
    <3> QED
      BY <3>1, SlotsOf DEF Ahead
  <2>2. LastPart = <<"frame", 0>> /\ Newest = 0 /\ captured = 0 /\ spc = "idle" /\ DOMAIN wire = {}
    BY <2>1 DEF Init, LastPart, Newest
  <2>3. FramesAhead
    BY <2>1, <2>2 DEF FramesAhead
  <2> QED
    BY <2>1, <2>2, <2>3 DEF OutInv, AtHead, OutboundInOrder
<1>2. SlotInv /\ OutInv /\ [Next]_vars => (SlotInv /\ OutInv)'
  BY KeepsSlots, KeepsOut
<1>3. OutInv => OutboundInOrder
  BY DEF OutInv, OutboundInOrder
<1> QED
  BY <1>1, <1>2, <1>3, PTL DEF Spec

----------------------------------------------------------------------------
(***************************************************************************)
(* The bytes of a message follow each other in the stream.                 *)
(***************************************************************************)
LEMMA LeastOf ==
  ASSUME NEW T \in SUBSET Nat, T # {}
  PROVE  \E x \in T : \A y \in T : ~(y < x)
<1> DEFINE Less == {ss \in Nat \X Nat : ss[1] < ss[2]}
<1>1. IsWellFoundedOn(Less, Nat)
  BY NatLessThanWellFounded DEF OpToRel
<1> HIDE DEF Less
<1>2. \E x \in T : \A y \in T : <<y, x>> \notin Less
  BY <1>1, WFMin
<1> QED
  BY <1>2 DEF Less

LEMMA LengthIs ==
  ASSUME NEW m \in DOMAIN Sizes
  PROVE  /\ Sizes[m] \in 1..BUFFER_SIZE /\ Sizes[m] \in Nat /\ Length(m) \in Nat
         /\ Length(m) = HEADER_BYTES + Sizes[m] /\ Length(m) > HEADER_BYTES /\ m \in Nat
         /\ HEADER_BYTES \in Nat
  BY SizesAssumption, HeaderAssumption DEF Length

LEMMA StreamIs ==
  /\ Stream \in Seq(Nat \X Nat)
  /\ Len(Stream) \in Nat
  /\ DOMAIN Stream = 1..Len(Stream)
<1>1. Stream \in Seq(Nat \X Nat)
  BY StreamAssumption
<1> QED
  BY <1>1

LEMMA ByteAfter ==
  ASSUME NEW p \in Nat \ {0}, p + 1 <= Len(Stream)
  PROVE  NextByte(Stream[p], Stream[p + 1])
<1>1. p + 1 \in DOMAIN Stream /\ p + 1 # 1 /\ (p + 1) - 1 = p
  BY StreamIs
<1>2. NextByte(Stream[(p + 1) - 1], Stream[p + 1])
  BY <1>1, StreamAssumption
<1> QED
  BY <1>1, <1>2

LEMMA InMessage ==
  ASSUME NEW p \in Nat \ {0}, NEW m \in DOMAIN Sizes, NEW i \in Nat, Stream[p] = <<m, i>>,
         NEW n \in Nat, p + n <= Len(Stream), i + n <= Length(m)
  PROVE  Stream[p + n] = <<m, i + n>>
<1> DEFINE T == {k \in 0..n : Stream[p + k] # <<m, i + k>>}
<1>0. /\ T \in SUBSET Nat
      /\ \A k \in T : k \in 0..n /\ Stream[p + k] # <<m, i + k>>
      /\ \A k \in 0..n : k \notin T => Stream[p + k] = <<m, i + k>>
  OBVIOUS
<1> HIDE DEF T
<1> SUFFICES ASSUME T # {} PROVE FALSE
  <2>1. n \in 0..n
    OBVIOUS
  <2> QED
    BY <1>0, <2>1
<1>2. PICK k \in T : \A y \in T : ~(y < k)
  BY <1>0, LeastOf
<1>3. k \in 0..n /\ Stream[p + k] # <<m, i + k>> /\ k \in Nat
  BY <1>0, <1>2
<1>4. k # 0
  <2> SUFFICES ASSUME k = 0 PROVE FALSE
    OBVIOUS
  <2>1. p + k = p /\ i + k = i
    OBVIOUS
  <2> QED
    BY <1>3, <2>1
<1>5. k - 1 \in 0..n /\ k - 1 < k
  BY <1>3, <1>4
<1>6. Stream[p + (k - 1)] = <<m, i + (k - 1)>>
  BY <1>0, <1>2, <1>5
<1>7. /\ p + (k - 1) \in Nat \ {0}
      /\ (p + (k - 1)) + 1 = p + k
      /\ p + k <= Len(Stream)
  BY <1>3, <1>4, StreamIs
<1>8. NextByte(Stream[p + (k - 1)], Stream[p + k])
  BY <1>7, ByteAfter
<1>9. Length(m) \in Nat /\ i + (k - 1) < Length(m) /\ i + (k - 1) + 1 = i + k
  BY <1>3, <1>4, LengthIs
<1>10. Stream[p + k] = <<m, i + k>>
  BY <1>6, <1>8, <1>9 DEF NextByte
<1> QED
  BY <1>3, <1>10

(* What is read next, when in bytes of the message m were read before.     *)
ReadUpTo(m, in) ==
  IF in = 0 THEN \/ pos = 0 /\ m = 1
                 \/ pos > 0 /\ m - 1 \in DOMAIN Sizes /\ Stream[pos] = <<m - 1, Length(m - 1)>>
  ELSE pos > 0 /\ m \in DOMAIN Sizes /\ Stream[pos] = <<m, in>>

LEMMA NextBytes ==
  ASSUME pos \in 0..Len(Stream), NEW m \in Nat \ {0}, NEW in \in Nat, ReadUpTo(m, in),
         NEW n \in Nat \ {0}, pos + n <= Len(Stream), m \in DOMAIN Sizes => in + n <= Length(m)
  PROVE  m \in DOMAIN Sizes /\ \A k \in 1..n : Stream[pos + k] = <<m, in + k>>
<1>1. pos \in Nat /\ pos + 1 <= Len(Stream)
  BY StreamIs
<1>2. m \in DOMAIN Sizes /\ (in = 0 => Stream[pos + 1] = <<m, 1>>)
  <2>1. CASE in # 0
    BY <2>1 DEF ReadUpTo
  <2>2. CASE in = 0 /\ pos = 0 /\ m = 1
    <3>1. 1 \in DOMAIN Stream
      BY <1>1, <2>2, StreamIs
    <3>2. Stream[1] = <<1, 1>> /\ Sizes # <<>>
      BY <3>1, StreamAssumption
    <3>3. Sizes \in Seq(1..BUFFER_SIZE)
      BY SizesAssumption
    <3>4. 1 \in DOMAIN Sizes
      BY <3>2, <3>3
    <3> QED
      BY <2>2, <3>2, <3>4
  <2>3. CASE in = 0 /\ pos > 0 /\ m - 1 \in DOMAIN Sizes /\ Stream[pos] = <<m - 1, Length(m - 1)>>
    <3>0. pos \in Nat \ {0}
      BY <1>1, <2>3
    <3>1. NextByte(Stream[pos], Stream[pos + 1])
      BY <1>1, <3>0, ByteAfter
    <3>2. Length(m - 1) \in Nat /\ ~(Length(m - 1) < Length(m - 1)) /\ (m - 1) + 1 = m
      BY <2>3, LengthIs
    <3>3. Stream[pos][1] = m - 1 /\ Stream[pos][2] = Length(m - 1)
      BY <2>3
    <3> QED
      BY <2>3, <3>1, <3>2, <3>3 DEF NextByte
  <2> QED
    BY <2>1, <2>2, <2>3 DEF ReadUpTo
<1>3. ASSUME NEW k \in 1..n PROVE Stream[pos + k] = <<m, in + k>>
  <2>0. k \in Nat /\ in + k <= Length(m) /\ pos + k <= Len(Stream)
    <3>1. in + n <= Length(m) /\ Length(m) \in Nat
      BY <1>2, LengthIs
    <3>2. Len(Stream) \in Nat
      BY StreamIs
    <3> QED
      BY <1>1, <3>1, <3>2
  <2>1. CASE in = 0
    <3> DEFINE p == pos + 1
               j == k - 1
    <3>1. p \in Nat \ {0} /\ j \in Nat /\ p + j = pos + k /\ 1 + j = k /\ in + k = k
      BY <1>1, <2>0, <2>1
    <3>2. p + j <= Len(Stream) /\ 1 + j <= Length(m)
      <4>1. k <= Length(m)
        BY <2>0, <3>1
      <4> QED
        BY <2>0, <3>1, <4>1
    <3>3. Stream[p] = <<m, 1>>
      BY <1>2, <2>1
    <3> HIDE DEF p, j
    <3>4. Stream[p + j] = <<m, 1 + j>>
      BY SMTT(30), <1>2, <3>1, <3>2, <3>3, InMessage
    <3> QED
      BY <3>1, <3>4
  <2>2. CASE in # 0
    <3>1. pos \in Nat \ {0} /\ Stream[pos] = <<m, in>>
      BY <1>1, <2>2 DEF ReadUpTo
    <3> QED
      BY ZenonT(40), <1>2, <2>0, <3>1, InMessage
  <2> QED
    BY <2>1, <2>2
<1> QED
  BY <1>2, <1>3

----------------------------------------------------------------------------
(***************************************************************************)
(* From the connection to hwsim0.  Message First is the one whose slot is  *)
(* the last that was used up; those after it are in the ring, in their     *)
(* order and whole, and Current is the one that is being received.         *)
(***************************************************************************)
First == IF ipc = "used" THEN Len(injected) - 1 ELSE Len(injected)

Current == First + Count(recvq) + 1

(* A slot has the time and the size of message m and b bytes of its frame. *)
HasUpTo(slot, m, b) ==
  /\ m \in DOMAIN Sizes
  /\ slot.ts = get_timestamp(Message(m))
  /\ slot.size = Sizes[m]
  /\ \A i \in 1..b : slot.buffer[i] = <<m, HEADER_BYTES + i>>

Pairs == Nat \X Nat

RecvTypes ==
  /\ header \in Seq(Pairs) /\ Len(header) <= HEADER_BYTES
  /\ bytes_received \in Nat /\ pos \in 0..Len(Stream)
  /\ recvItems \in [Slots -> [ts : Seq(Pairs), size : Nat, buffer : [1..BUFFER_SIZE -> Pairs]]]
  /\ injected \in Seq(Seq(Pairs))
  /\ ipc = "used" => injected # <<>>

(* What has been read since the last message was complete is the beginning *)
(* of the current one, and the receiving thread has put it where it is to  *)
(* be.                                                                     *)
Reading ==
  /\ \A i \in 1..Len(header) : header[i] = <<Current, i>>
  /\ header # <<>> => Current \in DOMAIN Sizes /\ bytes_received <= Sizes[Current]
  /\ bytes_received > 0 => rd_item # NULL
  /\ rd_item # NULL => /\ Len(header) = HEADER_BYTES
                       /\ HasUpTo(recvItems[rd_item], Current, bytes_received)
  /\ rpc = "tail" => Len(header) = HEADER_BYTES
  /\ rpc = "put" => bytes_received = Sizes[Current]
  /\ ReadUpTo(Current, Len(header) + bytes_received)

Filled ==
  \A k \in 1..Count(recvq) :
    HasUpTo(recvItems[SlotAt(recvq, k)], First + k, Sizes[First + k])

Given == \A m \in 1..Len(injected) : m \in DOMAIN Sizes /\ injected[m] = InStream[m]

InInv == RecvTypes /\ Reading /\ Filled /\ Given

LEMMA MessageIs ==
  ASSUME NEW m \in DOMAIN Sizes
  PROVE  /\ Length(m) \in Nat
         /\ \A i \in 1..Length(m) : Message(m)[i] = <<m, i>> /\ Message(m)[i] \in Pairs
<1>1. Length(m) \in Nat /\ m \in Nat
  BY LengthIs
<1> QED
  BY <1>1 DEF Message, Pairs

LEMMA BoundsAre ==
  /\ LEN_BYTES \in Nat \ {0} /\ HEADER_BYTES \in Nat /\ HEADER_BYTES > LEN_BYTES
  /\ BUFFER_SIZE \in Nat
  BY HeaderAssumption, SizesAssumption

(* The header that was read is that of the message.                        *)
LEMMA TimeOf ==
  ASSUME NEW m \in DOMAIN Sizes, NEW h,
         \A i \in 1..HEADER_BYTES : h[i] = <<m, i>>
  PROVE  /\ get_timestamp(h) \in Seq(Pairs)
         /\ Len(get_timestamp(h)) = HEADER_BYTES - LEN_BYTES
         /\ \A i \in 1..(HEADER_BYTES - LEN_BYTES) : get_timestamp(h)[i] = <<m, LEN_BYTES + i>>
         /\ get_length(h) = Sizes[m]
<1> DEFINE a == LEN_BYTES + 1
           b == HEADER_BYTES
<1>1. m \in Nat
  BY LengthIs
<1>2. a \in Int /\ b \in Int /\ a <= b /\ b - a + 1 = HEADER_BYTES - LEN_BYTES
  BY BoundsAre
<1>3. \A i \in a..b : h[i] = <<m, i>> /\ h[i] \in Pairs
  BY <1>1, BoundsAre DEF Pairs
<1> HIDE DEF a, b
<1>4. /\ SubSeq(h, a, b) \in Seq(Pairs)
      /\ Len(SubSeq(h, a, b)) = HEADER_BYTES - LEN_BYTES
      /\ \A i \in 1..(HEADER_BYTES - LEN_BYTES) : SubSeq(h, a, b)[i] = h[a + i - 1]
  <2>1. /\ SubSeq(h, a, b) \in Seq(Pairs)
        /\ Len(SubSeq(h, a, b)) = IF a <= b THEN b - a + 1 ELSE 0
        /\ \A i \in 1..(b - a + 1) : SubSeq(h, a, b)[i] = h[a + i - 1]
    BY <1>2, <1>3, SubSeqProperties
  <2> QED
    BY <1>2, <2>1
<1>5. ASSUME NEW i \in 1..(HEADER_BYTES - LEN_BYTES)
      PROVE  a + i - 1 \in a..b /\ a + i - 1 = LEN_BYTES + i
  BY <1>2, BoundsAre DEF a
<1>6. get_timestamp(h) = SubSeq(h, a, b)
  BY DEF get_timestamp, a, b
<1>7. get_length(h) = Sizes[m]
  <2>1. 1 \in 1..HEADER_BYTES
    BY BoundsAre
  <2>2. h[1][1] = m
    BY <2>1
  <2> QED
    BY <2>2 DEF get_length
<1> QED
  BY <1>3, <1>4, <1>5, <1>6, <1>7

LEMMA SameTime ==
  ASSUME NEW m \in DOMAIN Sizes, NEW h,
         \A i \in 1..HEADER_BYTES : h[i] = <<m, i>>
  PROVE  get_timestamp(h) = get_timestamp(Message(m))
<1>1. \A i \in 1..HEADER_BYTES : Message(m)[i] = <<m, i>>
  BY MessageIs, LengthIs
<1> DEFINE s == get_timestamp(h)
           t == get_timestamp(Message(m))
<1>2. /\ s \in Seq(Pairs) /\ t \in Seq(Pairs) /\ Len(s) = Len(t)
      /\ Len(s) = HEADER_BYTES - LEN_BYTES
      /\ \A i \in 1..(HEADER_BYTES - LEN_BYTES) : s[i] = t[i]
  BY <1>1, TimeOf
<1> HIDE DEF s, t
<1>3. s = t
  BY <1>2, SeqEqual
<1> QED
  BY <1>3 DEF s, t

(* What is injected from a complete slot is the frame, after its time.     *)
LEMMA WholeFrame ==
  ASSUME NEW m, NEW slot, HasUpTo(slot, m, Sizes[m])
  PROVE  /\ m \in DOMAIN Sizes
         /\ slot.ts \o SubSeq(slot.buffer, 1, slot.size) = InStream[m]
         /\ InStream[m] \in Seq(Pairs)
<1> DEFINE s == get_timestamp(Message(m))
           t == SubSeq(slot.buffer, 1, Sizes[m])
           u == SubSeq(Message(m), LEN_BYTES + 1, Length(m))
           n == HEADER_BYTES - LEN_BYTES
<1>1. /\ m \in DOMAIN Sizes /\ slot.ts = s /\ slot.size = Sizes[m]
      /\ \A i \in 1..Sizes[m] : slot.buffer[i] = <<m, HEADER_BYTES + i>>
  BY DEF HasUpTo
<1>2. /\ Sizes[m] \in Nat /\ Length(m) = HEADER_BYTES + Sizes[m] /\ m \in Nat /\ Length(m) \in Nat
      /\ HEADER_BYTES \in Nat /\ LEN_BYTES \in Nat /\ HEADER_BYTES > LEN_BYTES
  BY <1>1, LengthIs, BoundsAre
<1>3. n \in Nat /\ n + Sizes[m] = Length(m) - LEN_BYTES /\ LEN_BYTES + 1 <= Length(m)
  BY <1>2
<1>4. \A i \in 1..Length(m) : Message(m)[i] = <<m, i>> /\ Message(m)[i] \in Pairs
  BY <1>1, MessageIs
<1>5. s \in Seq(Pairs) /\ Len(s) = n /\ \A i \in 1..n : s[i] = <<m, LEN_BYTES + i>>
  <2>1. \A i \in 1..HEADER_BYTES : Message(m)[i] = <<m, i>>
    BY <1>2, <1>4
  <2> QED
    BY <1>1, <2>1, TimeOf
<1>6. t \in Seq(Pairs) /\ Len(t) = Sizes[m] /\ \A i \in 1..Sizes[m] : t[i] = <<m, HEADER_BYTES + i>>
  <2>1. ASSUME NEW i \in 1..Sizes[m] PROVE slot.buffer[i] \in Pairs
    <3>1. m \in Nat /\ HEADER_BYTES + i \in Nat
      BY <1>2
    <3>2. slot.buffer[i] = <<m, HEADER_BYTES + i>>
      BY <1>1
    <3> QED
      BY <3>1, <3>2 DEF Pairs
  <2>2. /\ t \in Seq(Pairs)
        /\ Len(t) = IF 1 <= Sizes[m] THEN Sizes[m] - 1 + 1 ELSE 0
        /\ \A i \in 1..(Sizes[m] - 1 + 1) : t[i] = slot.buffer[1 + i - 1]
    BY <1>2, <2>1, SubSeqProperties
  <2>3. Len(t) = Sizes[m]
    BY <1>2, <2>2
  <2>4. ASSUME NEW i \in 1..Sizes[m] PROVE t[i] = slot.buffer[i]
    <3>1. i \in 1..(Sizes[m] - 1 + 1) /\ 1 + i - 1 = i
      BY <1>2
    <3> QED
      BY <2>2, <3>1
  <2> QED
    BY <1>1, <2>2, <2>3, <2>4
<1>7. u \in Seq(Pairs) /\ Len(u) = n + Sizes[m] /\ \A i \in 1..(n + Sizes[m]) : u[i] = <<m, LEN_BYTES + i>>
  <2> DEFINE a == LEN_BYTES + 1
  <2>1. a \in Int /\ Length(m) \in Int /\ \A i \in a..Length(m) : Message(m)[i] \in Pairs
    BY <1>2, <1>4
  <2>2. /\ a <= Length(m) /\ Length(m) - a + 1 = n + Sizes[m]
        /\ \A i \in 1..(n + Sizes[m]) : a + i - 1 \in 1..Length(m) /\ a + i - 1 = LEN_BYTES + i
    BY <1>2, <1>3
  <2>3. u = SubSeq(Message(m), a, Length(m))
    OBVIOUS
  <2> HIDE DEF a, u, n
  <2>4. /\ u \in Seq(Pairs)
        /\ Len(u) = IF a <= Length(m) THEN Length(m) - a + 1 ELSE 0
        /\ \A i \in 1..(Length(m) - a + 1) : u[i] = Message(m)[a + i - 1]
    BY <2>1, <2>3, SubSeqProperties
  <2> QED
    BY <1>4, <2>2, <2>4
<1> HIDE DEF s, t, u, n
<1>8. /\ s \o t \in Seq(Pairs) /\ Len(s \o t) = n + Sizes[m]
      /\ \A i \in 1..(n + Sizes[m]) : (s \o t)[i] = IF i <= n THEN s[i] ELSE t[i - n]
  <2>1. /\ s \o t \in Seq(Pairs) /\ Len(s \o t) = Len(s) + Len(t)
        /\ \A i \in 1..(Len(s) + Len(t)) : (s \o t)[i] = IF i <= Len(s) THEN s[i] ELSE t[i - Len(s)]
    BY <1>5, <1>6, ConcatProperties
  <2>2. Len(s) = n /\ Len(t) = Sizes[m]
    BY <1>5, <1>6
  <2> QED
    BY <2>1, <2>2
<1>9. ASSUME NEW i \in 1..(n + Sizes[m]) PROVE (s \o t)[i] = u[i]
  <2>1. CASE i <= n
    <3>1. i \in 1..n
      BY <2>1, <1>2, <1>3
    <3> QED
      BY <1>5, <1>7, <1>8, <2>1, <3>1
  <2>2. CASE ~(i <= n)
    <3>1. i - n \in 1..Sizes[m] /\ HEADER_BYTES + (i - n) = LEN_BYTES + i
      BY <2>2, <1>2, <1>3 DEF n
    <3>2. t[i - n] = <<m, LEN_BYTES + i>>
      BY <1>6, <3>1
    <3> QED
      BY <1>7, <1>8, <2>2, <3>2
  <2> QED
    BY <2>1, <2>2
<1>10. s \o t = u
  BY <1>7, <1>8, <1>9, SeqEqual
<1>11. InStream[m] = u
  BY <1>1 DEF InStream, u
<1> QED
  BY <1>1, <1>7, <1>10, <1>11 DEF t

----------------------------------------------------------------------------
LEMMA InitIn == Init => InInv
<1> SUFFICES ASSUME Init PROVE InInv
  OBVIOUS
<1>1. /\ header = <<>> /\ bytes_received = 0 /\ rd_item = NULL /\ pos = 0 /\ rpc = "idle"
      /\ ipc = "idle" /\ injected = <<>> /\ recvq = aq_new
      /\ recvItems = [s \in Slots |-> [ts |-> <<>>, size |-> 0,
                                       buffer |-> [i \in 1..BUFFER_SIZE |-> NoByte]]]
  BY DEF Init
<1>2. Len(header) = 0 /\ Len(injected) = 0 /\ \A S : <<>> \in Seq(S)
  BY <1>1, EmptySeq
<1>3. Count(recvq) = 0
  BY <1>1, NewRing, SlotsOf
<1>4. First = 0 /\ Current = 1
  BY <1>1, <1>2, <1>3 DEF First, Current
<1>5. RecvTypes
  <2>1. NoByte \in Pairs
    BY DEF NoByte, Pairs
  <2>2. recvItems \in [Slots -> [ts : Seq(Pairs), size : Nat, buffer : [1..BUFFER_SIZE -> Pairs]]]
    BY <1>1, <1>2, <2>1
  <2>3. header \in Seq(Pairs) /\ injected \in Seq(Seq(Pairs))
    BY <1>1, <1>2
  <2> QED
    BY <1>1, <1>2, <2>2, <2>3, StreamIs, BoundsAre DEF RecvTypes
<1>6. ReadUpTo(Current, Len(header) + bytes_received)
  BY <1>1, <1>2, <1>4 DEF ReadUpTo
<1>7. Reading
  BY <1>1, <1>2, <1>6 DEF Reading
<1>8. Filled /\ Given
  BY <1>2, <1>3 DEF Filled, Given
<1> QED
  BY <1>5, <1>7, <1>8 DEF InInv

LEMMA AtPresent ==
  ASSUME SlotInv, RecvTypes
  PROVE  /\ Sound(recvq) /\ Count(recvq) \in Nat
         /\ SlotAt(recvq, 1) = recvq.head
         /\ \A i \in 1..Count(recvq) : SlotAt(recvq, i) \in Slots
         /\ \A i \in 1..Count(recvq) : ~recvq.full => SlotAt(recvq, i) # recvq.tail
         /\ ~recvq.full => SlotAt(recvq, Count(recvq) + 1) = recvq.tail
         /\ recvq.head \in Slots /\ recvq.tail \in Slots
         /\ ipc # "idle" => Count(recvq) > 0 /\ inj_item = recvq.head
         /\ Len(injected) \in Nat
         /\ First \in Nat /\ Current \in Nat \ {0} /\ Current = First + Count(recvq) + 1
<1>1. Sound(recvq) /\ InjectHolds
  BY DEF SlotInv
<1>2. /\ Count(recvq) \in Nat /\ (recvq.empty <=> Count(recvq) = 0)
      /\ SlotAt(recvq, 1) = recvq.head
      /\ \A i \in 1..Count(recvq) : SlotAt(recvq, i) \in Slots /\ (~recvq.full => SlotAt(recvq, i) # recvq.tail)
      /\ ~recvq.full => SlotAt(recvq, Count(recvq) + 1) = recvq.tail
  BY <1>1, SlotsOf
<1>3. recvq.head \in Slots /\ recvq.tail \in Slots
  BY <1>1 DEF Sound, AqRings
<1>4. ipc # "idle" => Count(recvq) > 0 /\ inj_item = recvq.head
  BY <1>1, <1>2 DEF InjectHolds
<1>5. injected \in Seq(Seq(Pairs)) /\ (ipc = "used" => injected # <<>>)
  BY DEF RecvTypes
<1>6. Len(injected) \in Nat /\ (injected # <<>> => Len(injected) \in Nat \ {0})
  BY <1>5, EmptySeq, LenProperties
<1>7. First \in Nat
  BY <1>5, <1>6 DEF First
<1>8. Current \in Nat \ {0} /\ Current = First + Count(recvq) + 1
  BY <1>2, <1>7 DEF Current
<1> QED
  BY <1>1, <1>2, <1>3, <1>4, <1>6, <1>7, <1>8

(* The steps that keep what was received and injected.                     *)
LEMMA SameIn ==
  ASSUME InInv, UNCHANGED <<header, bytes_received, rd_item, pos, recvItems, recvq, injected>>,
         ipc' = "used" <=> ipc = "used",
         rpc' = "tail" => rpc = "tail" \/ Len(header) = HEADER_BYTES,
         rpc' = "put" => rpc = "put"
  PROVE  InInv'
<1>1. RecvTypes /\ Reading /\ Filled /\ Given
  BY DEF InInv
<1>2. First' = First /\ Current' = Current
  <2>1. First' = First
    BY DEF First
  <2> QED
    BY <2>1 DEF Current
<1>3. RecvTypes'
  BY <1>1 DEF RecvTypes
<1>4. ReadUpTo(Current, Len(header) + bytes_received)'
  BY <1>1, <1>2 DEF ReadUpTo, Reading
<1>5. Reading'
  BY <1>1, <1>2, <1>4 DEF Reading
<1>6. Filled' /\ Given'
  BY <1>1, <1>2 DEF Filled, Given
<1> QED
  BY <1>3, <1>5, <1>6 DEF InInv

(* The time and the size are written into the slot, again each time.       *)
LEMMA SlotIn ==
  ASSUME SlotInv, InInv, RecvGetTail, rd_item' # NULL
  PROVE  InInv'
<1>1. RecvTypes /\ Reading /\ Filled /\ Given
  BY DEF InInv
<1>2. /\ UNCHANGED <<header, bytes_received, pos, recvq, ipc, injected>>
      /\ rpc = "tail" /\ rpc' = "recv"
      /\ ~recvq.full /\ rd_item' = recvq.tail
      /\ recvItems' = [recvItems EXCEPT ![rd_item'].ts = get_timestamp(header),
                                        ![rd_item'].size = bytes_to_receive]
  BY DEF RecvGetTail, aq_get_tail, notReceiving, injectVars
<1>3. Len(header) = HEADER_BYTES /\ \A i \in 1..HEADER_BYTES : header[i] = <<Current, i>>
  BY <1>1, <1>2 DEF Reading
<1>4. Current \in DOMAIN Sizes /\ bytes_received <= Sizes[Current]
  <2>1. header # <<>>
    BY <1>3, BoundsAre, EmptySeq
  <2> QED
    BY <1>1, <2>1 DEF Reading
<1>5. /\ get_timestamp(header) \in Seq(Pairs) /\ get_length(header) = Sizes[Current]
      /\ get_timestamp(header) = get_timestamp(Message(Current))
      /\ Sizes[Current] \in Nat
  BY <1>3, <1>4, TimeOf, SameTime, LengthIs
<1>6. First' = First /\ Current' = Current
  <2>1. First' = First
    BY <1>2 DEF First
  <2> QED
    BY <1>2, <2>1 DEF Current
<1>7. /\ recvq.tail \in Slots
      /\ \A i \in 1..Count(recvq) : SlotAt(recvq, i) \in Slots /\ SlotAt(recvq, i) # recvq.tail
  BY <1>1, <1>2, AtPresent
<1> DEFINE t == recvq.tail
<1>8. recvItems \in [Slots -> [ts : Seq(Pairs), size : Nat, buffer : [1..BUFFER_SIZE -> Pairs]]]
  BY <1>1 DEF RecvTypes
<1>9. /\ recvItems' = [recvItems EXCEPT ![t] =
                         [ts |-> get_timestamp(header), size |-> Sizes[Current],
                          buffer |-> recvItems[t].buffer]]
      /\ recvItems[t].buffer \in [1..BUFFER_SIZE -> Pairs]
  <2> DEFINE a == get_timestamp(header)
             z == Sizes[Current]
  <2>1. recvItems' = [recvItems EXCEPT ![t].ts = a, ![t].size = z]
    BY <1>2, <1>5 DEF bytes_to_receive
  <2> DEFINE T == Seq(Pairs)
             B == [1..BUFFER_SIZE -> Pairs]
  <2>2. t \in Slots /\ a \in T /\ z \in Nat /\ recvItems \in [Slots -> [ts : T, size : Nat, buffer : B]]
    BY <1>5, <1>7, <1>8
  <2> HIDE DEF a, z, t, T, B
  <2>3. /\ recvItems' = [recvItems EXCEPT ![t] = [ts |-> a, size |-> z, buffer |-> recvItems[t].buffer]]
        /\ recvItems[t].buffer \in B
    <3>1. PICK x \in T, y \in Nat, w \in B : recvItems[t] = [ts |-> x, size |-> y, buffer |-> w]
      BY <2>2
    <3>2. [recvItems[t] EXCEPT !.ts = a] = [ts |-> a, size |-> y, buffer |-> w]
      BY <3>1
    <3>3. [[ts |-> a, size |-> y, buffer |-> w] EXCEPT !.size = z] = [ts |-> a, size |-> z, buffer |-> w]
      OBVIOUS
    <3>4. [[recvItems[t] EXCEPT !.ts = a] EXCEPT !.size = z] = [ts |-> a, size |-> z, buffer |-> w]
      BY <3>2, <3>3
    <3>5. recvItems' = [recvItems EXCEPT ![t] = [[recvItems[t] EXCEPT !.ts = a] EXCEPT !.size = z]]
      BY <2>1, <2>2
    <3> QED
      BY <3>1, <3>4, <3>5
  <2> QED
    BY <2>3 DEF a, z, t, B
<1>10. recvItems' \in [Slots -> [ts : Seq(Pairs), size : Nat, buffer : [1..BUFFER_SIZE -> Pairs]]]
  BY <1>5, <1>7, <1>8, <1>9
<1>11. RecvTypes'
  BY <1>1, <1>2, <1>10 DEF RecvTypes
<1>12. HasUpTo(recvItems'[t], Current, bytes_received)
  <2>1. ASSUME NEW i \in 1..bytes_received PROVE recvItems[t].buffer[i] = <<Current, HEADER_BYTES + i>>
    <3>1. rd_item # NULL
      BY <1>1, <2>1 DEF Reading, RecvTypes
    <3>2. rd_item = t
      BY <3>1 DEF SlotInv, RecvHolds
    <3>3. HasUpTo(recvItems[rd_item], Current, bytes_received)
      BY <1>1, <3>1 DEF Reading
    <3> QED
      BY <2>1, <3>2, <3>3 DEF HasUpTo
  <2>2. recvItems'[t] = [ts |-> get_timestamp(header), size |-> Sizes[Current],
                         buffer |-> recvItems[t].buffer]
    BY <1>7, <1>8, <1>9
  <2> QED
    BY <1>4, <1>5, <2>1, <2>2 DEF HasUpTo
<1>13. ReadUpTo(Current, Len(header) + bytes_received)'
  BY <1>1, <1>2, <1>6 DEF ReadUpTo, Reading
<1>14. Reading'
  BY <1>1, <1>2, <1>3, <1>4, <1>6, <1>12, <1>13 DEF Reading
<1>15. Filled'
  <2>1. ASSUME NEW k \in 1..Count(recvq)
        PROVE  recvItems'[SlotAt(recvq, k)] = recvItems[SlotAt(recvq, k)]
    BY <1>7, <1>8, <1>9
  <2> QED
    BY <1>1, <1>2, <1>6, <2>1 DEF Filled
<1>16. Given'
  BY <1>1, <1>2 DEF Given
<1> QED
  BY <1>11, <1>14, <1>15, <1>16 DEF InInv

(* Bytes of the header, as many as recv gives.                             *)
LEMMA HeaderIn ==
  ASSUME SlotInv, InInv, NEW n \in Nat \ {0}, RecvHeader(n)
  PROVE  InInv'
<1>1. RecvTypes /\ Reading /\ Filled /\ Given
  BY DEF InInv
<1>2. /\ UNCHANGED <<bytes_received, rd_item, recvItems, recvq, ipc, injected>>
      /\ Len(header) < HEADER_BYTES /\ n <= Wanted /\ pos + n <= Len(Stream)
      /\ header' = header \o SubSeq(Stream, pos + 1, pos + n)
      /\ pos' = pos + n
      /\ rpc' \in {"idle", "tail", "recv"} /\ (rpc' = "tail" => Len(header') = HEADER_BYTES)
  BY DEF RecvHeader, Resume, len_received, notReceiving, injectVars, recvRing
<1>3. header \in Seq(Pairs) /\ Len(header) \in Nat /\ pos \in Nat /\ bytes_received \in Nat
      /\ pos \in 0..Len(Stream)
  BY <1>1, LenProperties, StreamIs DEF RecvTypes
<1> DEFINE k == Len(header)
           S == SubSeq(Stream, pos + 1, pos + n)
<1>4. k + n <= HEADER_BYTES
  <2>0. k \in Nat /\ k < HEADER_BYTES /\ n <= Wanted
    BY <1>2, <1>3
  <2>1. CASE k < LEN_BYTES
    <3>0. k \notin LEN_BYTES..(HEADER_BYTES - 1)
      BY <2>0, <2>1, BoundsAre
    <3>1. Wanted = LEN_BYTES - k
      BY <2>1, <3>0 DEF Wanted, len_received
    <3> QED
      BY <2>0, <2>1, <3>1, BoundsAre
  <2>2. CASE ~(k < LEN_BYTES)
    <3>1. k \in LEN_BYTES..(HEADER_BYTES - 1)
      BY <2>0, <2>2, BoundsAre
    <3>2. Wanted = HEADER_BYTES - k
      BY <2>2, <3>1 DEF Wanted, len_received
    <3> QED
      BY <2>0, <3>2, BoundsAre
  <2> QED
    BY <2>1, <2>2
<1>5. bytes_received = 0 /\ rd_item = NULL
  <2>1. rd_item = NULL
    BY <1>1, <1>2, <1>3, BoundsAre DEF Reading
  <2> QED
    BY <1>1, <1>3, <2>1 DEF Reading
<1>6. ReadUpTo(Current, k)
  <2>1. k + bytes_received = k
    BY <1>3, <1>5
  <2>2. ReadUpTo(Current, k + bytes_received)
    BY <1>1 DEF Reading
  <2> QED
    BY <2>1, <2>2
<1>7. Current \in Nat \ {0} /\ First' = First /\ Current' = Current
  <2>1. First' = First
    BY <1>2 DEF First
  <2> QED
    BY <1>1, <1>2, <2>1, AtPresent DEF Current
<1>8. Current \in DOMAIN Sizes => k + n <= Length(Current)
  BY <1>3, <1>4, LengthIs
<1>9. Current \in DOMAIN Sizes /\ \A j \in 1..n : Stream[pos + j] = <<Current, k + j>>
  BY <1>2, <1>3, <1>6, <1>7, <1>8, NextBytes
<1>10. S \in Seq(Pairs) /\ Len(S) = n /\ \A j \in 1..n : S[j] = Stream[pos + j]
  <2> DEFINE a == pos + 1
             b == pos + n
  <2>1. /\ a \in Int /\ b \in Int /\ a <= b /\ b - a + 1 = n
        /\ \A i \in a..b : i \in 1..Len(Stream)
        /\ \A j \in 1..n : a + j - 1 = pos + j
    BY <1>2, <1>3
  <2>2. \A i \in 1..Len(Stream) : Stream[i] \in Pairs
    BY StreamIs DEF Pairs
  <2> HIDE DEF a, b
  <2>3. /\ SubSeq(Stream, a, b) \in Seq(Pairs)
        /\ Len(SubSeq(Stream, a, b)) = IF a <= b THEN b - a + 1 ELSE 0
        /\ \A j \in 1..(b - a + 1) : SubSeq(Stream, a, b)[j] = Stream[a + j - 1]
    BY <2>1, <2>2, SubSeqProperties
  <2> QED
    BY <2>1, <2>3 DEF a, b
<1> HIDE DEF S
<1>11. header' = header \o S
  BY <1>2 DEF S
<1>12. /\ header' \in Seq(Pairs) /\ Len(header') = k + n
       /\ \A j \in 1..(k + n) : header'[j] = IF j <= k THEN header[j] ELSE S[j - k]
  BY <1>3, <1>10, <1>11, ConcatProperties
<1>13. ASSUME NEW j \in 1..(k + n) PROVE header'[j] = <<Current, j>>
  <2>1. CASE j <= k
    <3>1. j \in 1..k
      BY <1>3, <2>1
    <3>2. header[j] = <<Current, j>>
      BY <1>1, <3>1 DEF Reading
    <3> QED
      BY <1>12, <2>1, <3>2
  <2>2. CASE ~(j <= k)
    <3>1. j - k \in 1..n /\ k + (j - k) = j
      BY <1>3, <2>2
    <3>2. S[j - k] = <<Current, k + (j - k)>>
      BY <1>9, <1>10, <3>1
    <3> QED
      BY <1>12, <2>2, <3>1, <3>2
  <2> QED
    BY <2>1, <2>2
<1>14. RecvTypes'
  <2>1. pos' \in 0..Len(Stream)
    BY <1>2, <1>3, StreamIs
  <2> QED
    BY <1>1, <1>2, <1>4, <1>12, <2>1 DEF RecvTypes
<1>15. ReadUpTo(Current, Len(header) + bytes_received)'
  <2>1. Len(header') + bytes_received' = k + n /\ k + n # 0 /\ pos' > 0
    BY <1>2, <1>3, <1>5, <1>12
  <2>2. Stream[pos'] = <<Current, k + n>>
    BY <1>2, <1>9
  <2> QED
    BY <1>7, <1>9, <2>1, <2>2 DEF ReadUpTo
<1>16. Reading'
  <2>1. Sizes[Current] \in Nat
    BY <1>9, LengthIs
  <2>2. \A j \in 1..Len(header') : header'[j] = <<Current', j>>
    BY <1>7, <1>12, <1>13
  <2>3. Current' \in DOMAIN Sizes /\ bytes_received' <= Sizes[Current']
    BY <1>2, <1>5, <1>7, <1>9, <2>1
  <2>4. ~(bytes_received' > 0) /\ rd_item' = NULL
    BY <1>2, <1>5
  <2>5. (rpc' = "tail" => Len(header') = HEADER_BYTES) /\ rpc' # "put"
    BY <1>2
  <2> QED
    BY <1>15, <2>2, <2>3, <2>4, <2>5 DEF Reading
<1>17. Filled' /\ Given'
  BY <1>1, <1>2, <1>7 DEF Filled, Given
<1> QED
  BY <1>14, <1>16, <1>17 DEF InInv

(* Bytes of the frame: no more than there are, each at its place.          *)
LEMMA FrameIn ==
  ASSUME SlotInv, InInv, NEW n \in Nat \ {0}, RecvFrame(n)
  PROVE  InInv'
<1>1. RecvTypes /\ Reading /\ Filled /\ Given
  BY DEF InInv
<1> DEFINE b == bytes_received
           t == recvq.tail
           Written == [i \in 1..BUFFER_SIZE |-> IF i \in (b + 1)..(b + n) THEN Stream[pos + i - b]
                                                ELSE recvItems[t].buffer[i]]
<1>2. /\ UNCHANGED <<header, rd_item, recvq, ipc, injected>>
      /\ rpc = "select" /\ Len(header) = HEADER_BYTES
      /\ n <= Wanted /\ pos + n <= Len(Stream)
      /\ pos' = pos + n /\ b' = b + n
      /\ rpc' = IF b + n = bytes_to_receive THEN "put" ELSE "idle"
  BY DEF RecvFrame, len_received, notReceiving, injectVars
<1>3. rd_item # NULL /\ ~recvq.full /\ rd_item = t
  BY <1>2 DEF SlotInv, RecvHolds, len_received
<1>4. /\ header \in Seq(Pairs) /\ b \in Nat /\ pos \in Nat /\ pos \in 0..Len(Stream)
      /\ \A i \in 1..HEADER_BYTES : header[i] = <<Current, i>>
  BY <1>1, <1>2, StreamIs DEF RecvTypes, Reading
<1>5. HasUpTo(recvItems[t], Current, b)
  BY <1>1, <1>3 DEF Reading
<1>6. Current \in DOMAIN Sizes
  BY <1>5 DEF HasUpTo
<1>7. bytes_to_receive = Sizes[Current]
  BY <1>4, <1>6, TimeOf DEF bytes_to_receive
<1>8. Sizes[Current] \in 1..BUFFER_SIZE /\ Sizes[Current] \in Nat /\ Length(Current) = HEADER_BYTES + Sizes[Current]
  BY <1>6, LengthIs
<1>9. b + n <= Sizes[Current] /\ b + n <= BUFFER_SIZE /\ BUFFER_SIZE \in Nat /\ HEADER_BYTES \in Nat \ {0}
  <2>1. ~(HEADER_BYTES < LEN_BYTES) /\ HEADER_BYTES \notin LEN_BYTES..(HEADER_BYTES - 1)
    BY BoundsAre
  <2>2. Wanted = Sizes[Current] - b
    BY <1>2, <1>7, <2>1 DEF Wanted, len_received
  <2> QED
    BY <1>2, <1>4, <1>8, <2>2, BoundsAre
<1>10. Current \in Nat \ {0} /\ First' = First /\ Current' = Current
  <2>1. First' = First
    BY <1>2 DEF First
  <2> QED
    BY <1>1, <1>2, <2>1, AtPresent DEF Current
<1>11. \A j \in 1..n : Stream[pos + j] = <<Current, (HEADER_BYTES + b) + j>>
  <2>1. ReadUpTo(Current, HEADER_BYTES + b)
    BY <1>1, <1>2 DEF Reading
  <2>2. HEADER_BYTES + b \in Nat /\ (HEADER_BYTES + b) + n <= Length(Current)
    BY <1>4, <1>8, <1>9
  <2> QED
    BY <1>2, <1>4, <1>10, <2>1, <2>2, NextBytes
<1>12. /\ t \in Slots
       /\ \A i \in 1..Count(recvq) : SlotAt(recvq, i) \in Slots /\ SlotAt(recvq, i) # t
  BY <1>1, <1>3, AtPresent
<1>13. recvItems \in [Slots -> [ts : Seq(Pairs), size : Nat, buffer : [1..BUFFER_SIZE -> Pairs]]]
  BY <1>1 DEF RecvTypes
<1>14. Written \in [1..BUFFER_SIZE -> Pairs]
  <2>1. ASSUME NEW i \in 1..BUFFER_SIZE, i \in (b + 1)..(b + n) PROVE Stream[pos + i - b] \in Pairs
    <3>1. pos + i - b \in 1..Len(Stream)
      BY <1>2, <1>4, <2>1, StreamIs
    <3> QED
      BY <3>1, StreamIs DEF Pairs
  <2> QED
    BY <1>12, <1>13, <2>1
<1>15. recvItems' = [recvItems EXCEPT ![t] = [recvItems[t] EXCEPT !.buffer = Written]]
  BY <1>3, <1>12, <1>13 DEF RecvFrame
<1> HIDE DEF Written
<1>16. /\ recvItems' \in [Slots -> [ts : Seq(Pairs), size : Nat, buffer : [1..BUFFER_SIZE -> Pairs]]]
       /\ recvItems'[t] = [recvItems[t] EXCEPT !.buffer = Written]
       /\ \A s \in Slots : s # t => recvItems'[s] = recvItems[s]
  BY <1>12, <1>13, <1>14, <1>15
<1>17. /\ recvItems'[t].ts = recvItems[t].ts /\ recvItems'[t].size = recvItems[t].size
       /\ recvItems'[t].buffer = Written
  BY <1>12, <1>13, <1>16
<1>18. HasUpTo(recvItems'[t], Current, b + n)
  <2>1. ASSUME NEW i \in 1..(b + n) PROVE Written[i] = <<Current, HEADER_BYTES + i>>
    <3>0. i \in 1..BUFFER_SIZE
      BY <1>4, <1>9
    <3>1. CASE i \in 1..b
      <4>1. i \notin (b + 1)..(b + n)
        BY <1>4, <3>1
      <4>2. recvItems[t].buffer[i] = <<Current, HEADER_BYTES + i>>
        BY <1>5, <3>1 DEF HasUpTo
      <4> QED
        BY <3>0, <4>1, <4>2 DEF Written
    <3>2. CASE i \notin 1..b
      <4>1. /\ i \in (b + 1)..(b + n) /\ i - b \in 1..n /\ pos + (i - b) = pos + i - b
            /\ (HEADER_BYTES + b) + (i - b) = HEADER_BYTES + i
        BY <1>4, <1>9, <3>2
      <4>2. Stream[pos + (i - b)] = <<Current, (HEADER_BYTES + b) + (i - b)>>
        BY <1>11, <4>1
      <4> QED
        BY <3>0, <4>1, <4>2 DEF Written
    <3> QED
      BY <3>1, <3>2
  <2> QED
    BY <1>5, <1>17, <2>1 DEF HasUpTo
<1>19. RecvTypes'
  <2>1. pos' \in 0..Len(Stream) /\ b' \in Nat
    BY <1>2, <1>4, StreamIs
  <2> QED
    BY <1>1, <1>2, <1>16, <2>1 DEF RecvTypes
<1>20. ReadUpTo(Current, Len(header) + bytes_received)'
  <2>1. /\ Len(header') + b' = (HEADER_BYTES + b) + n /\ (HEADER_BYTES + b) + n # 0 /\ pos' > 0
        /\ n \in 1..n
    BY <1>2, <1>4, <1>9
  <2>2. Stream[pos'] = <<Current, (HEADER_BYTES + b) + n>>
    BY <1>2, <1>11, <2>1
  <2> QED
    BY <1>6, <1>10, <2>1, <2>2 DEF ReadUpTo
<1>21. Reading'
  BY <1>2, <1>3, <1>4, <1>6, <1>7, <1>9, <1>10, <1>18, <1>20 DEF Reading
<1>22. Filled' /\ Given'
  BY <1>1, <1>2, <1>10, <1>12, <1>16 DEF Filled, Given
<1> QED
  BY <1>19, <1>21, <1>22 DEF InInv

(* The frame is complete: its slot joins the ring.                         *)
LEMMA PutIn ==
  ASSUME SlotInv, InInv, RecvPutTail
  PROVE  InInv'
<1>1. RecvTypes /\ Reading /\ Filled /\ Given
  BY DEF InInv
<1> DEFINE t == recvq.tail
           c == Count(recvq)
<1>2. /\ UNCHANGED <<pos, recvItems, ipc, injected>>
      /\ rpc = "put" /\ rpc' = "idle" /\ recvq' = aq_put_tail(recvq)
      /\ header' = <<>> /\ bytes_received' = 0 /\ rd_item' = NULL
  BY DEF RecvPutTail, notReceiving, injectVars
<1>3. rd_item # NULL /\ ~recvq.full /\ rd_item = t
  BY <1>2 DEF SlotInv, RecvHolds
<1>4. bytes_received = Sizes[Current] /\ Len(header) = HEADER_BYTES /\ HasUpTo(recvItems[t], Current, Sizes[Current])
  BY <1>1, <1>2, <1>3 DEF Reading
<1>5. Current \in DOMAIN Sizes
  BY <1>4 DEF HasUpTo
<1>6. /\ c \in Nat /\ Current \in Nat \ {0} /\ First \in Nat /\ Current = First + c + 1
      /\ SlotAt(recvq, c + 1) = t /\ Sound(recvq)
  BY <1>1, <1>3, AtPresent
<1>7. Count(recvq') = c + 1 /\ \A i : SlotAt(recvq', i) = SlotAt(recvq, i)
  BY <1>2, <1>3, <1>6, PutTailSlots
<1>8. First' = First /\ Current' = Current + 1
  <2>1. First' = First
    BY <1>2 DEF First
  <2>2. Current' = First + (c + 1) + 1
    BY <1>7, <2>1 DEF Current
  <2> QED
    BY <1>6, <2>1, <2>2
<1>9. RecvTypes'
  BY <1>1, <1>2, BoundsAre, EmptySeq DEF RecvTypes
<1>10. ReadUpTo(Current, Len(header) + bytes_received)'
  <2>1. /\ Length(Current) = HEADER_BYTES + Sizes[Current] /\ Length(Current) # 0
        /\ Length(Current) \in Nat
    BY <1>5, LengthIs, BoundsAre
  <2>2. ReadUpTo(Current, Length(Current))
    BY <1>1, <1>4, <2>1 DEF Reading
  <2>3. pos > 0 /\ Stream[pos] = <<Current, Length(Current)>>
    BY <2>1, <2>2 DEF ReadUpTo
  <2>4. Len(header') + bytes_received' = 0 /\ (Current + 1) - 1 = Current
    BY <1>2, <1>6, EmptySeq
  <2> QED
    BY <1>2, <1>5, <1>8, <2>3, <2>4 DEF ReadUpTo
<1>11. Reading'
  <2>1. Len(header') = 0
    BY <1>2, EmptySeq
  <2> QED
    BY <1>2, <1>10, <2>1 DEF Reading
<1>12. Filled'
  <2>1. ASSUME NEW k \in 1..(c + 1)
        PROVE  HasUpTo(recvItems[SlotAt(recvq, k)], First + k, Sizes[First + k])
    <3>1. CASE k = c + 1
      <4>1. First + k = Current /\ SlotAt(recvq, k) = t
        BY <1>6, <3>1
      <4> QED
        BY <1>4, <4>1
    <3>2. CASE k # c + 1
      <4>1. k \in 1..c
        BY <1>6, <3>2
      <4> QED
        BY <1>1, <4>1 DEF Filled
    <3> QED
      BY <3>1, <3>2
  <2> QED
    BY <1>2, <1>7, <1>8, <2>1 DEF Filled
<1>13. Given'
  BY <1>1, <1>2 DEF Given
<1> QED
  BY <1>9, <1>11, <1>12, <1>13 DEF InInv

(* The frame at the head goes to hwsim0.                                   *)
LEMMA InjectIn ==
  ASSUME SlotInv, InInv, InjectFrame
  PROVE  InInv'
<1>1. RecvTypes /\ Reading /\ Filled /\ Given
  BY DEF InInv
<1> DEFINE slot == recvItems[inj_item]
           new  == slot.ts \o SubSeq(slot.buffer, 1, slot.size)
           m    == Len(injected) + 1
<1>2. /\ UNCHANGED <<header, bytes_received, rd_item, pos, rpc, recvItems, recvq>>
      /\ ipc = "inject" /\ ipc' = "used" /\ injected' = Append(injected, new)
  BY DEF InjectFrame, recvRing, notInjecting, recvVars
<1>3. Count(recvq) \in Nat /\ 1 \in 1..Count(recvq) /\ SlotAt(recvq, 1) = inj_item /\ Len(injected) \in Nat
  BY <1>1, <1>2, AtPresent
<1>4. First = Len(injected) /\ First + 1 = m
  BY <1>2 DEF First
<1>5. HasUpTo(slot, m, Sizes[m])
  BY <1>1, <1>3, <1>4 DEF Filled
<1>6. m \in DOMAIN Sizes /\ new = InStream[m] /\ InStream[m] \in Seq(Pairs)
  BY <1>5, WholeFrame
<1>7. injected \in Seq(Seq(Pairs))
  BY <1>1 DEF RecvTypes
<1> HIDE DEF new
<1>8. /\ injected' \in Seq(Seq(Pairs)) /\ injected' # <<>> /\ Len(injected') = m
      /\ \A i \in 1..Len(injected) : injected'[i] = injected[i]
      /\ injected'[m] = new
  BY <1>2, <1>6, <1>7, AppendProperties
<1>9. First' = First /\ Current' = Current
  <2>1. First' = First
    BY <1>2, <1>3, <1>4, <1>8 DEF First
  <2> QED
    BY <1>2, <2>1 DEF Current
<1>10. RecvTypes'
  BY <1>1, <1>2, <1>8 DEF RecvTypes
<1>11. ReadUpTo(Current, Len(header) + bytes_received)'
  BY <1>1, <1>2, <1>9 DEF ReadUpTo, Reading
<1>12. Reading'
  BY <1>1, <1>2, <1>9, <1>11 DEF Reading
<1>13. Filled'
  BY <1>1, <1>2, <1>9 DEF Filled
<1>14. Given'
  <2>1. ASSUME NEW i \in 1..m PROVE i \in DOMAIN Sizes /\ injected'[i] = InStream[i]
    <3>1. CASE i = m
      BY <1>6, <1>8, <3>1
    <3>2. CASE i # m
      <4>1. i \in 1..Len(injected)
        BY <1>3, <3>2
      <4> QED
        BY <1>1, <1>8, <4>1 DEF Given
    <3> QED
      BY <3>1, <3>2
  <2>2. Len(injected') = m
    BY <1>8
  <2> HIDE DEF m
  <2> QED
    BY <2>1, <2>2 DEF Given
<1> QED
  BY <1>10, <1>12, <1>13, <1>14 DEF InInv

(* Its slot is given back.                                                 *)
LEMMA UsedIn ==
  ASSUME SlotInv, InInv, InjectUsedHead
  PROVE  InInv'
<1>1. RecvTypes /\ Reading /\ Filled /\ Given
  BY DEF InInv
<1> DEFINE c == Count(recvq)
<1>2. /\ UNCHANGED <<header, bytes_received, rd_item, pos, rpc, recvItems, injected>>
      /\ ipc = "used" /\ ipc' = "idle" /\ recvq' = aq_used_head(recvq)
  BY DEF InjectUsedHead, notInjecting, recvVars
<1>3. /\ c \in Nat /\ c > 0 /\ Sound(recvq) /\ First \in Nat /\ Current = First + c + 1
      /\ Len(injected) \in Nat
  BY <1>1, <1>2, AtPresent
<1>4. ~recvq.empty
  BY <1>2 DEF SlotInv, InjectHolds
<1>5. Count(recvq') = c - 1 /\ \A i \in 1..c : SlotAt(recvq', i) = SlotAt(recvq, i + 1)
  BY <1>2, <1>3, <1>4, UsedHeadSlots
<1>6. First' = First + 1 /\ Current' = Current
  <2>1. First' = First + 1
    BY <1>2, <1>3 DEF First
  <2>2. Current' = First + 1 + (c - 1) + 1
    BY <1>5, <2>1 DEF Current
  <2> QED
    BY <1>3, <2>1, <2>2
<1>7. RecvTypes'
  BY <1>1, <1>2 DEF RecvTypes
<1>8. ReadUpTo(Current, Len(header) + bytes_received)'
  BY <1>1, <1>2, <1>6 DEF ReadUpTo, Reading
<1>9. Reading'
  BY <1>1, <1>2, <1>6, <1>8 DEF Reading
<1>10. Filled'
  <2>1. ASSUME NEW k \in 1..(c - 1)
        PROVE  HasUpTo(recvItems[SlotAt(recvq', k)], (First + 1) + k, Sizes[(First + 1) + k])
    <3>1. k + 1 \in 1..c /\ k \in 1..c /\ First + (k + 1) = (First + 1) + k
      BY <1>3
    <3>2. HasUpTo(recvItems[SlotAt(recvq, k + 1)], First + (k + 1), Sizes[First + (k + 1)])
      BY <1>1, <3>1 DEF Filled
    <3> QED
      BY <1>5, <3>1, <3>2
  <2> QED
    BY <1>2, <1>5, <1>6, <2>1 DEF Filled
<1>11. Given'
  BY <1>1, <1>2 DEF Given
<1> QED
  BY <1>7, <1>9, <1>10, <1>11 DEF InInv

----------------------------------------------------------------------------
LEMMA KeepsIn == SlotInv /\ InInv /\ [Next]_vars => InInv'
<1> SUFFICES ASSUME SlotInv, InInv, [Next]_vars PROVE InInv'
  OBVIOUS
<1>1. CASE Connect \/ Capture \/ Send \/ SendFails \/ SendTimesOut \/ UNCHANGED vars
  <2>1. UNCHANGED <<recvVars, injectVars, recvq, recvItems>>
    BY <1>1 DEF Connect, Capture, CaptureGetTail, CaptureNothing, CaptureAck, CaptureFrame,
                CapturePutTail, Send, SendGetHead, SendPreSelect, SendPostSelect, SendUsedHead,
                SendFails, SendTimesOut, notCapturing, notSending, vars, recvRing
  <2> QED
    BY <2>1, SameIn DEF recvVars, injectVars
<1>2. CASE RecvBegin
  <2>1. /\ UNCHANGED <<header, bytes_received, rd_item, pos, recvq, recvItems, injected, ipc>>
        /\ rpc' \in {"tail", "recv"} /\ (rpc' = "tail" => Len(header) = HEADER_BYTES)
    BY <1>2 DEF RecvBegin, Resume, recvRing, notReceiving, injectVars
  <2> QED
    BY <2>1, SameIn
<1>3. CASE RecvGetTail /\ rd_item' = NULL
  <2>1. /\ UNCHANGED <<header, bytes_received, pos, recvq, recvItems, injected, ipc>>
        /\ rpc' = "idle" /\ aq_get_tail(recvq) = NULL
    BY <1>3 DEF RecvGetTail, recvRing, notReceiving, injectVars
  <2>2. rd_item = NULL
    <3>1. recvq.tail \in Slots /\ RecvHolds
      BY DEF SlotInv, Sound, AqRings
    <3>2. recvq.full
      BY <2>1, <3>1, SlotOrNull DEF aq_get_tail
    <3> QED
      BY <3>1, <3>2 DEF RecvHolds
  <2> QED
    BY <1>3, <2>1, <2>2, SameIn
<1>4. CASE RecvGetTail /\ rd_item' # NULL
  BY <1>4, SlotIn
<1>5. CASE RecvPreSelect \/ RecvNothing \/ RecvFails
  <2>1. /\ UNCHANGED <<header, bytes_received, rd_item, pos, recvq, recvItems, injected, ipc>>
        /\ rpc' \in {"derailed", "select", "idle"}
    BY <1>5 DEF RecvPreSelect, RecvNothing, RecvFails, recvRing, notReceiving, injectVars
  <2> QED
    BY <2>1, SameIn
<1>6. CASE RecvData
  <2>1. PICK n \in 1..(HEADER_BYTES + BUFFER_SIZE) : RecvHeader(n) \/ RecvFrame(n)
    BY <1>6 DEF RecvData
  <2>2. n \in Nat \ {0}
    BY BoundsAre
  <2> QED
    BY <2>1, <2>2, HeaderIn, FrameIn
<1>7. CASE RecvPutTail
  BY <1>7, PutIn
<1>8. CASE InjectGetHead
  <2>1. /\ UNCHANGED <<header, bytes_received, rd_item, pos, rpc, recvq, recvItems, injected>>
        /\ ipc = "idle" /\ ipc' \in {"idle", "inject"}
    BY <1>8 DEF InjectGetHead, recvRing, notInjecting, recvVars
  <2> QED
    BY <2>1, SameIn
<1>9. CASE InjectFrame
  BY <1>9, InjectIn
<1>10. CASE InjectUsedHead
  BY <1>10, UsedIn
<1> QED
  BY <1>1, <1>2, <1>3, <1>4, <1>5, <1>6, <1>7, <1>8, <1>9, <1>10 DEF Next, Recv, Inject

(* What hwsim0 is given is the frames of the host, whole and in order.     *)
THEOREM FramesInjectedInOrder == Spec => []InboundInOrder
<1>1. SlotInv /\ InInv => InboundInOrder
  <2> SUFFICES ASSUME SlotInv, InInv PROVE InboundInOrder
    OBVIOUS
  <2>1. RecvTypes /\ Reading /\ Given
    BY DEF InInv
  <2> DEFINE n == Len(injected)
             s == SubSeq(InStream, 1, n)
             M == Seq(Pairs)
  <2>2. injected \in Seq(M) /\ n \in Nat
    BY <2>1, LenProperties DEF RecvTypes
  <2>3. \A i \in 1..n : injected[i] = InStream[i] /\ InStream[i] \in M
    BY <2>1, <2>2 DEF Given
  <2> HIDE DEF M
  <2>4. s \in Seq(M) /\ Len(s) = n /\ \A i \in 1..n : s[i] = InStream[i]
    <3>1. /\ s \in Seq(M)
          /\ Len(s) = IF 1 <= n THEN n - 1 + 1 ELSE 0
          /\ \A i \in 1..(n - 1 + 1) : s[i] = InStream[1 + i - 1]
      BY <2>2, <2>3, SubSeqProperties
    <3>2. n - 1 + 1 = n /\ (~(1 <= n) => n = 0) /\ \A i \in 1..n : 1 + i - 1 = i
      BY <2>2
    <3> QED
      BY <3>1, <3>2
  <2> HIDE DEF s
  <2>5. injected = s
    BY <2>2, <2>3, <2>4, SeqEqual
  <2>6. Len(injected) <= Len(InStream)
    <3>1. Sizes \in Seq(1..BUFFER_SIZE)
      BY SizesAssumption
    <3>2. Len(Sizes) \in Nat /\ DOMAIN Sizes = 1..Len(Sizes)
      BY <3>1
    <3>3. Len(InStream) = Len(Sizes)
      BY <3>2 DEF InStream
    <3>4. n > 0 => n \in DOMAIN Sizes
      BY <2>1, <2>2 DEF Given
    <3> QED
      BY <2>2, <3>2, <3>3, <3>4
  <2>7. IsPrefix(injected, InStream)
    BY <2>5, <2>6 DEF IsPrefix, s
  <2>8. ASSUME len_received = HEADER_BYTES PROVE bytes_received <= bytes_to_receive
    <3>1. Len(header) = HEADER_BYTES /\ header # <<>>
      BY <2>8, BoundsAre, EmptySeq DEF len_received
    <3>2. Current \in DOMAIN Sizes /\ bytes_received <= Sizes[Current]
      BY <2>1, <3>1 DEF Reading
    <3>3. \A i \in 1..HEADER_BYTES : header[i] = <<Current, i>>
      BY <2>1, <3>1 DEF Reading
    <3> QED
      BY <3>2, <3>3, TimeOf DEF bytes_to_receive
  <2> QED
    BY <2>7, <2>8 DEF InboundInOrder
<1> QED
  BY <1>1, InitSlots, KeepsSlots, InitIn, KeepsIn, PTL DEF Spec

(***************************************************************************)
(* The loopers that run the four threads (looper.c), for every set of data *)
(* pointers and wherever the run counter saturates.  LooperInv is          *)
(* inductive: CallsSettle ties what a call that has returned was told      *)
(* (desired_state) to where the thread is and to its stale local copy, and *)
(* that is what the safety properties need.                                *)
(***************************************************************************)
\* looper_init establishes the invariant.
LEMMA InitLooperInv == looper_init => LooperInv
  BY RunsAssumption
     DEF looper_init, LooperInv, LooperTypeOK, CallsSettle, ThreadConsistent, DataStableInFunction,
         Settled, States

\* Each line of looper_function keeps it.
LEMMA ThreadKeepsLooperInv == LooperInv /\ ThreadStep => LooperInv'
<1> SUFFICES ASSUME LooperInv, ThreadStep PROVE LooperInv'
  OBVIOUS
<1> USE RunsAssumption
     DEF LooperInv, LooperTypeOK, CallsSettle, ThreadConsistent, DataStableInFunction, Settled, States
<1>1. CASE RunFunction
  BY <1>1 DEF RunFunction
<1>2. CASE FunctionReturns
  BY <1>2 DEF FunctionReturns
<1>3. CASE StayPaused
  BY <1>3 DEF StayPaused
<1>4. CASE LeaveLoop
  BY <1>4 DEF LeaveLoop
<1>5. CASE UpdateState
  BY <1>5 DEF UpdateState
<1> QED
  BY <1>1, <1>2, <1>3, <1>4, <1>5 DEF ThreadStep

\* Each step of the controlling thread keeps it.
LEMMA ControllerKeepsLooperInv ==
  LooperInv /\ (CallBegins \/ ThreadCreated \/ WaitEnds \/ Joined \/ LastFunctionReturns)
    => LooperInv'
<1> SUFFICES ASSUME LooperInv,
                    CallBegins \/ ThreadCreated \/ WaitEnds \/ Joined \/ LastFunctionReturns
             PROVE  LooperInv'
  OBVIOUS
<1> USE RunsAssumption
     DEF LooperInv, LooperTypeOK, CallsSettle, ThreadConsistent, DataStableInFunction, Settled, States,
         thread
<1>1. CASE StartCalled
  BY <1>1 DEF StartCalled
<1>2. CASE looper_pause
  BY <1>2 DEF looper_pause, SetDesired, LockFree
<1>3. CASE looper_resume
  BY <1>3 DEF looper_resume, SetDesired, LockFree
<1>4. CASE looper_stop
  BY <1>4 DEF looper_stop, SetDesired, LockFree
<1>5. ASSUME NEW d \in Datas, looper_update_data(d) PROVE LooperInv'
  BY <1>5 DEF looper_update_data, LockFree
<1>6. CASE ThreadCreated
  BY <1>6 DEF ThreadCreated
<1>7. CASE WaitEnds
  BY <1>7 DEF WaitEnds, LockFree
<1>8. CASE Joined
  BY <1>8 DEF Joined
<1>9. CASE LastFunctionReturns
  BY <1>9 DEF LastFunctionReturns
<1> QED
  BY <1>1, <1>2, <1>3, <1>4, <1>5, <1>6, <1>7, <1>8, <1>9 DEF CallBegins

\* In every execution, whatever is called and wherever the thread is, the
\* thread, its local copies and the published states agree as LooperInv says.
THEOREM LooperSafe == LooperSpec => []LooperInv
<1>1. LooperInv /\ [LooperNext]_looperVars => LooperInv'
  <2> SUFFICES ASSUME LooperInv, [LooperNext]_looperVars PROVE LooperInv'
    OBVIOUS
  <2>1. CASE LooperNext
    BY <2>1, ThreadKeepsLooperInv, ControllerKeepsLooperInv DEF LooperNext
  <2>2. CASE UNCHANGED looperVars
    BY <2>2 DEF looperVars, thread, LooperInv, LooperTypeOK, CallsSettle, ThreadConsistent,
                DataStableInFunction, Settled
  <2> QED
    BY <2>1, <2>2
<1> QED
  BY <1>1, InitLooperInv, PTL DEF LooperSpec

\* When looper_pause has returned the function is quiet until looper_resume.
THEOREM PauseIsQuiet == LooperSpec => []QuietWhenPaused
<1>1. LooperInv => QuietWhenPaused
  BY DEF LooperInv, CallsSettle, ThreadConsistent, LooperTypeOK, Settled, QuietWhenPaused
<1> QED
  BY <1>1, LooperSafe, PTL

\* After a request to pause or stop the function runs at most once more.
THEOREM RequestTakesEffect == LooperSpec => []AtMostOneMoreRun
<1>1. LooperInv => AtMostOneMoreRun
  BY DEF LooperInv, AtMostOneMoreRun
<1> QED
  BY <1>1, LooperSafe, PTL

\* The function never overlaps the functions that run first and last, and no
\* thread is left when looper_stop has returned.
THEOREM FirstAndLastBracket == LooperSpec => []BracketedByFirstAndLast
<1>1. LooperInv => BracketedByFirstAndLast
  BY DEF LooperInv, LooperTypeOK, CallsSettle, ThreadConsistent, BracketedByFirstAndLast
<1> QED
  BY <1>1, LooperSafe, PTL

(***************************************************************************)
(* The registry of the queues that run, for any set of queues.  What makes *)
(* the invariant inductive is that no queue runs twice: ciqs_stop takes    *)
(* the first entry of a queue out, which then was the only one.            *)
(***************************************************************************)
RegistryTypes ==
  /\ queues_running \in [0..3 -> Queues \cup {naq}]
  /\ running \in Seq(Queues) /\ Len(running) <= 4

\* No queue runs twice, so that taking the first entry out takes all of them.
RunsOnce == \A j, k \in 1..Len(running) : running[j] = running[k] => j = k

\* What the four entries are, in their terms.
EntriesAre ==
  /\ last_queue = Len(running)
  /\ \A k \in 0..3 : queues_running[k] = IF k < last_queue THEN running[k + 1] ELSE naq

RegistryInv == ~overrun => RegistryTypes /\ RunsOnce /\ EntriesAre

\* ciqs_init_queues
LEMMA RegistryStarts == ciqs_init_queues => RegistryInv
<1> SUFFICES ASSUME ciqs_init_queues PROVE RegistryInv
  OBVIOUS
<1>1. running \in Seq(Queues) /\ Len(running) = 0
  BY EmptySeq DEF ciqs_init_queues
<1>2. queues_running = [k \in 0..3 |-> naq] /\ last_queue = 0
  BY DEF ciqs_init_queues, NUM_QUEUES
<1>3. RegistryTypes /\ EntriesAre
  BY <1>1, <1>2 DEF RegistryTypes, EntriesAre
<1>4. RunsOnce
  BY <1>1 DEF RunsOnce
<1> QED
  BY <1>3, <1>4 DEF RegistryInv

\* Taking the first of its kind out of a sequence leaves the entries before it
\* and moves the ones behind it up.
LEMMA RemovedAt ==
  ASSUME NEW S, NEW s \in Seq(S), NEW k \in 1..Len(s), \A j \in 1..(k - 1) : s[j] # s[k]
  PROVE  /\ RemoveFirst(s, s[k]) \in Seq(S)
         /\ Len(RemoveFirst(s, s[k])) = Len(s) - 1
         /\ \A j \in 1..(Len(s) - 1) :
              RemoveFirst(s, s[k])[j] = IF j < k THEN s[j] ELSE s[j + 1]
<1> DEFINE I == {j \in 1..Len(s) : s[j] = s[k]}
<1>0. Len(s) \in Nat
  BY LenProperties
<1>1. I # {} /\ Min(I) = k
  <2>1. k \in I /\ \A y \in I : k <= y
    BY <1>0
  <2>2. \A x \in I : (\A y \in I : x <= y) => x = k
    BY <2>1, <1>0
  <2> QED
    BY <2>1, <2>2 DEF Min
<1>2. SelectInSeq(s, LAMBDA v : v = s[k]) = k
  BY <1>1 DEF SelectInSeq
<1> DEFINE front == SubSeq(s, 1, k - 1)
           back  == SubSeq(s, k + 1, Len(s))
<1>3. RemoveFirst(s, s[k]) = front \o back
  BY <1>2, <1>0 DEF RemoveFirst, RemoveAt
<1>4. /\ front \in Seq(S) /\ Len(front) = k - 1
      /\ \A j \in 1..(k - 1) : front[j] = s[j]
  BY <1>0, SubSeqProperties, ElementOfSeq
<1>5. /\ back \in Seq(S) /\ Len(back) = Len(s) - k
      /\ \A j \in 1..(Len(s) - k) : back[j] = s[k + j]
  BY <1>0, SubSeqProperties, ElementOfSeq
<1> HIDE DEF front, back
<1>6. /\ front \o back \in Seq(S) /\ Len(front \o back) = Len(front) + Len(back)
      /\ \A j \in 1..(Len(front) + Len(back)) :
           (front \o back)[j] = IF j <= Len(front) THEN front[j] ELSE back[j - Len(front)]
  BY <1>4, <1>5, ConcatProperties
<1>7. ASSUME NEW j \in 1..(Len(s) - 1)
      PROVE  (front \o back)[j] = IF j < k THEN s[j] ELSE s[j + 1]
  <2>1. CASE j < k
    BY <1>0, <1>4, <1>5, <1>6, <2>1
  <2>2. CASE j >= k
    <3>1. j + 1 - k \in 1..(Len(s) - k) /\ k + (j + 1 - k) = j + 1 /\ j - Len(front) = j + 1 - k
      BY <1>0, <1>4, <2>2
    <3> QED
      BY <1>0, <1>4, <1>5, <1>6, <2>2, <3>1
  <2>3. j < k \/ j >= k
    BY <1>0
  <2> QED
    BY <2>1, <2>2, <2>3
<1>8. Len(front) + Len(back) = Len(s) - 1
  BY <1>0, <1>4, <1>5
<1> HIDE DEF I
<1> QED
  BY <1>3, <1>6, <1>7, <1>8, SMTT(30)

\* ciqs_start
LEMMA StartKeepsRegistry ==
  ASSUME RegistryInv, NEW q \in Queues, ciqs_start(q)
  PROVE  RegistryInv'
<1>1. CASE overrun
  BY <1>1 DEF RegistryInv, ciqs_start
<1>2. CASE ~overrun
  <2>1. RegistryTypes /\ RunsOnce /\ EntriesAre
    BY <1>2 DEF RegistryInv
  <2>2. /\ Len(running) \in 0..3 /\ Len(running) \in Nat
        /\ \A k \in 1..Len(running) : running[k] # q
    <3>1. Len(running) < 4 /\ q \notin ToSet(running)
      BY DEF ciqs_start, NUM_QUEUES
    <3>2. Len(running) \in Nat /\ DOMAIN running = 1..Len(running)
      BY <2>1, LenProperties DEF RegistryTypes
    <3>3. \A k \in DOMAIN running : running[k] # q
      BY <3>1 DEF ToSet
    <3> QED
      BY <3>1, <3>2, <3>3
  <2>3. /\ running' \in Seq(Queues) /\ Len(running') = Len(running) + 1
        /\ \A k \in 1..Len(running) : running'[k] = running[k]
        /\ running'[Len(running) + 1] = q
    BY <2>1, AppendProperties DEF RegistryTypes, ciqs_start
  <2>4. RegistryTypes'
    BY <2>1, <2>2, <2>3 DEF RegistryTypes, ciqs_start
  <2>5. RunsOnce'
    BY <2>1, <2>2, <2>3 DEF RunsOnce
  <2>6. EntriesAre'
    BY <2>1, <2>2, <2>3 DEF RegistryTypes, EntriesAre, ciqs_start
  <2> QED
    BY <2>4, <2>5, <2>6, <1>2 DEF RegistryInv, ciqs_start
<1> QED
  BY <1>1, <1>2 DEF RegistryInv

\* looper_stop and del_running_queue of a queue that runs
LEMMA StopKeepsRegistry ==
  ASSUME RegistryInv, NEW q, ~overrun => q \in ToSet(running), Stop(q)
  PROVE  RegistryInv'
<1>1. CASE overrun
  BY <1>1 DEF RegistryInv, Stop, del_running_queue
<1>2. CASE ~overrun
  <2>1. RegistryTypes /\ RunsOnce /\ EntriesAre
    BY <1>2 DEF RegistryInv
  <2>2. Len(running) \in Nat /\ Len(running) <= 4 /\ DOMAIN running = 1..Len(running)
    BY <2>1, LenProperties DEF RegistryTypes
  <2>3. PICK n \in 1..Len(running) : running[n] = q
    BY <1>2, <2>2 DEF ToSet
  <2>4. /\ n - 1 \in 0..3 /\ queues_running[n - 1] = q
        /\ \A k \in 0..3 : queues_running[k] = q => k = n - 1
    <3>1. q \in Queues
      BY <2>1, <2>3, ElementOfSeq DEF RegistryTypes
    <3> QED
      BY <2>1, <2>2, <2>3, <3>1, QueuesAssumption DEF RegistryTypes, RunsOnce, EntriesAre
  <2>5. DOMAIN queues_running = 0..3
    BY <2>1 DEF RegistryTypes
  <2> DEFINE first == CHOOSE k \in DOMAIN queues_running :
                        queues_running[k] = q /\ \A j \in 0..(k - 1) : queues_running[j] # q
             moved == [k \in DOMAIN queues_running |->
                         IF k \in first..2 THEN queues_running[k + 1] ELSE queues_running[k]]
  <2>6. first = n - 1
    <3>1. queues_running[n - 1] = q /\ \A j \in 0..((n - 1) - 1) : queues_running[j] # q
      BY <2>4
    <3>2. \A k \in 0..3 : (queues_running[k] = q /\ \A j \in 0..(k - 1) : queues_running[j] # q)
                             => k = n - 1
      BY <2>4
    <3> QED
      BY <2>4, <2>5, <3>1, <3>2
  <2>7. CASE last_queue >= 4
    <3>1. last_queue \in Int
      BY <2>1, <2>2 DEF EntriesAre
    <3>2. overrun'
      BY <2>4, <2>5, <2>7, <3>1 DEF Stop, del_running_queue, NUM_QUEUES
    <3> QED
      BY <3>2 DEF RegistryInv
  <2>8. CASE last_queue < 4
    <3>1. /\ queues_running' = [moved EXCEPT ![last_queue] = naq]
          /\ last_queue' = last_queue - 1 /\ UNCHANGED overrun
      BY <2>4, <2>5, <2>8 DEF Stop, del_running_queue, NUM_QUEUES
    <3>2. \A k \in 0..3 : queues_running'[k] = IF k = last_queue THEN naq
                                               ELSE IF k \in (n - 1)..2 THEN queues_running[k + 1]
                                               ELSE queues_running[k]
      BY <3>1, <2>5, <2>6
    <3>3. queues_running' \in [0..3 -> Queues \cup {naq}]
      <4>1. \A k \in 0..3 : queues_running[k] \in Queues \cup {naq}
        BY <2>1 DEF RegistryTypes
      <4>2. \A k \in 0..3 : queues_running'[k] \in Queues \cup {naq}
        BY <3>2, <4>1, <2>3, <2>2
      <4>3. queues_running' = [k \in 0..3 |-> queues_running'[k]]
        BY <3>1, <2>5
      <4> QED
        BY <4>2, <4>3
    <3>4. /\ running' \in Seq(Queues) /\ Len(running') = Len(running) - 1
          /\ \A j \in 1..(Len(running) - 1) :
               running'[j] = IF j < n THEN running[j] ELSE running[j + 1]
      <4>1. \A j \in 1..(n - 1) : running[j] # running[n]
        BY <2>1, <2>2 DEF RunsOnce
      <4>2. running' = RemoveFirst(running, running[n])
        BY <2>3 DEF Stop
      <4> QED
        BY <4>1, <4>2, <2>1, RemovedAt DEF RegistryTypes
    <3>5. RegistryTypes'
      BY <3>3, <3>4, <2>2, <2>3 DEF RegistryTypes
    <3>6. RunsOnce'
      BY <3>4, <2>1, <2>2, <2>3 DEF RunsOnce
    <3>7. EntriesAre'
      <4>1. last_queue' = Len(running')
        BY <3>1, <3>4, <2>1 DEF EntriesAre
      <4>2. ASSUME NEW k \in 0..3
            PROVE  queues_running'[k] = IF k < last_queue' THEN running'[k + 1] ELSE naq
        <5>1. last_queue = Len(running) /\ last_queue \in 1..3
          BY <2>1, <2>2, <2>3, <2>8 DEF EntriesAre
        <5>2. CASE k < last_queue - 1
          <6>1. /\ \A j \in 0..3 : j < last_queue => queues_running[j] = running[j + 1]
                /\ last_queue' = last_queue - 1
            BY <3>1, <2>1 DEF EntriesAre
          <6>2. CASE k \in (n - 1)..2
            <7>1. /\ k + 1 \in 1..(Len(running) - 1) /\ ~(k + 1 < n) /\ k # last_queue
                  /\ k + 1 \in 0..3 /\ k + 1 < last_queue
              BY <2>3, <5>1, <5>2, <6>2
            <7>2. running'[k + 1] = running[(k + 1) + 1]
              BY <3>4, <7>1
            <7>3. queues_running[k + 1] = running[(k + 1) + 1]
              BY <6>1, <7>1
            <7> QED
              BY <3>2, <5>1, <5>2, <6>1, <6>2, <7>1, <7>2, <7>3
          <6>3. CASE k \notin (n - 1)..2
            <7>1. k + 1 \in 1..(Len(running) - 1) /\ k + 1 < n /\ k < last_queue /\ k # last_queue
              BY <2>3, <5>1, <5>2, <6>3
            <7>2. running'[k + 1] = running[k + 1] /\ queues_running[k] = running[k + 1]
              BY <3>4, <6>1, <7>1
            <7> QED
              BY <3>2, <5>2, <6>1, <6>3, <7>1, <7>2
          <6> QED
            BY <6>2, <6>3
        <5>3. CASE k >= last_queue - 1
          <6>1. last_queue' = last_queue - 1 /\ ~(k < last_queue')
            BY <3>1, <5>1, <5>3
          <6>2. \A j \in 0..3 : ~(j < last_queue) => queues_running[j] = naq
            BY <2>1 DEF EntriesAre
          <6>3. CASE k = last_queue
            BY <3>2, <6>1, <6>3
          <6>4. CASE k # last_queue
            <7>1. k \in (n - 1)..2 => k + 1 \in 0..3 /\ ~(k + 1 < last_queue)
              BY <5>1, <5>3
            <7>2. k \notin (n - 1)..2 => ~(k < last_queue)
              BY <2>3, <5>1, <5>3, <6>4
            <7> QED
              BY <3>2, <6>1, <6>2, <6>4, <7>1, <7>2
          <6> QED
            BY <6>3, <6>4
        <5> QED
          BY <5>1, <5>2, <5>3
      <4> QED
        BY <4>1, <4>2 DEF EntriesAre
    <3> QED
      BY <3>1, <3>5, <3>6, <3>7, <1>2 DEF RegistryInv
  <2> QED
    BY <2>1, <2>2, <2>7, <2>8 DEF EntriesAre
<1> QED
  BY <1>1, <1>2 DEF RegistryInv

\* In every sequence of starts and stops, of one queue or of all, the registry
\* lists the queues that run in the order they were started, until a queue was
\* stopped when all four ran.
THEOREM RegistryLists ==
  RegistrySpec => []RegistryIsRunning
<1>1. RegistryInv /\ [RegistryNext]_registryVars => RegistryInv'
  <2> SUFFICES ASSUME RegistryInv, [RegistryNext]_registryVars PROVE RegistryInv'
    OBVIOUS
  <2>1. ASSUME NEW q \in Queues, ciqs_start(q) PROVE RegistryInv'
    BY <2>1, StartKeepsRegistry
  <2>2. ASSUME NEW q \in Queues, ciqs_stop(q) PROVE RegistryInv'
    BY <2>2, StopKeepsRegistry DEF ciqs_stop
  <2>3. CASE StopAllStep
    <3>1. CASE queues_running[entry] # naq
      <4>1. ~overrun => queues_running[entry] \in ToSet(running)
        <5> SUFFICES ASSUME ~overrun PROVE queues_running[entry] \in ToSet(running)
          OBVIOUS
        <5>1. RegistryTypes /\ EntriesAre
          BY DEF RegistryInv
        <5>2. entry \in 0..3 /\ entry < Len(running) /\ queues_running[entry] = running[entry + 1]
          BY <5>1, <3>1, <2>3 DEF RegistryTypes, EntriesAre, StopAllStep
        <5>3. Len(running) \in Nat /\ DOMAIN running = 1..Len(running)
          BY <5>1, LenProperties DEF RegistryTypes
        <5> QED
          BY <5>2, <5>3 DEF ToSet
      <4> QED
        BY <4>1, <3>1, <2>3, StopKeepsRegistry DEF StopAllStep
    <3>2. CASE queues_running[entry] = naq
      BY <3>2, <2>3 DEF StopAllStep, RegistryInv, RegistryTypes, RunsOnce, EntriesAre
    <3> QED
      BY <3>1, <3>2
  <2>4. CASE StopAllBegins
    BY <2>4 DEF StopAllBegins, RegistryInv, RegistryTypes, RunsOnce, EntriesAre
  <2>5. CASE StopAllReturns
    BY <2>5 DEF StopAllReturns, RegistryInv, RegistryTypes, RunsOnce, EntriesAre
  <2>6. CASE UNCHANGED registryVars
    BY <2>6 DEF registryVars, RegistryInv, RegistryTypes, RunsOnce, EntriesAre
  <2> QED
    BY <2>1, <2>2, <2>3, <2>4, <2>5, <2>6 DEF RegistryNext
<1>2. RegistryInv => RegistryIsRunning
  BY DEF RegistryInv, RegistryTypes, EntriesAre, RegistryIsRunning
<1> QED
  BY <1>1, <1>2, RegistryStarts, PTL DEF RegistrySpec
=============================================================================
