---------------------------- MODULE Hwsim_proofs ----------------------------
(***************************************************************************)
(* The beacon timer of every radio, for any number of VMs, radios, frames  *)
(* and calls.  The property speaks of the moments between two calls; what  *)
(* is inductive is what a call that waits for the callback may find there  *)
(* when it ends.                                                           *)
(***************************************************************************)
EXTENDS Hwsim, FiniteSetTheorems, SequenceTheorems, TLAPS

(* A record with the fields of mac80211_hwsim_data; nothing is said of the *)
(* frames that wait.                                                       *)
Typed(rec) ==
  rec \in [started: BOOLEAN, idle: BOOLEAN, channel: Channels, wmediumd: BOOLEAN,
           pending: {rec.pending}, armed: BOOLEAN, callback: BOOLEAN, overlap: BOOLEAN,
           bcn_en: BOOLEAN, beacon_int: BOOLEAN, call: {"none", "stop", "disable", "config"}]

(* Between calls as the property says; during a call nothing is armed or   *)
(* running but what the call overlapped with, and the call is one that     *)
(* leaves a radio without interval or stopped.                             *)
TimerOK(rec) ==
  /\ rec.call = "none" =>
       /\ rec.started /\ rec.beacon_int => rec.armed \/ rec.callback
       /\ rec.armed \/ rec.callback => rec.overlap \/ (rec.started /\ rec.beacon_int)
  /\ rec.call # "none" => (rec.armed \/ rec.callback => rec.overlap)
  /\ rec.call = "stop" => ~rec.started
  /\ rec.call = "config" => ~(rec.started /\ rec.beacon_int)

TimerInv ==
  /\ radio = [r \in Radios |-> radio[r]]
  /\ \A r \in Radios : Typed(radio[r]) /\ TimerOK(radio[r])

(* A step that gives one radio a record that is right keeps the others.    *)
LEMMA OneRadio ==
  ASSUME TimerInv, NEW r \in Radios, NEW rec, Set(r, rec), Typed(rec), TimerOK(rec)
  PROVE  TimerInv'
  BY DEF TimerInv, Set

(* Registering and unregistering leave timers alone.                       *)
LEMMA RegisterKeepsTimers ==
  ASSUME TimerInv, NEW v, NEW on \in BOOLEAN, register_wmediumd(v, on)
  PROVE  TimerInv'
<1> DEFINE new(r) == IF VM(r) = v THEN [radio[r] EXCEPT !.wmediumd = on] ELSE radio[r]
<1>1. radio' = [r \in Radios |-> new(r)]
  BY DEF register_wmediumd
<1>2. ASSUME NEW r \in Radios PROVE Typed(new(r)) /\ TimerOK(new(r))
  BY DEF TimerInv, Typed, TimerOK
<1> QED
  BY <1>1, <1>2 DEF TimerInv

(* tasklet_hrtimer_cancel, for a call that is entitled to it.              *)
LEMMA CancelRight ==
  ASSUME NEW rec, Typed(rec), NEW call \in {"stop", "disable", "config"},
         call = "stop" => ~rec.started,
         call = "config" => ~(rec.started /\ rec.beacon_int)
  PROVE  Typed(cancel(rec, call)) /\ TimerOK(cancel(rec, call))
  BY DEF Typed, TimerOK, cancel

(* mac80211_hwsim_config, between calls or right after start.              *)
LEMMA ConfigRight ==
  ASSUME NEW rec, Typed(rec), rec.call = "none", NEW idle \in BOOLEAN, NEW c \in Channels
  PROVE  Typed(config(rec, idle, c)) /\ TimerOK(config(rec, idle, c))
<1> DEFINE tuned == [rec EXCEPT !.idle = idle, !.channel = c]
<1>1. Typed(tuned) /\ tuned.started = rec.started /\ tuned.beacon_int = rec.beacon_int
      /\ tuned.call = "none"
  BY DEF Typed
<1>2. CASE ~rec.started \/ ~rec.beacon_int
  <2>1. config(rec, idle, c) = cancel(tuned, "config")
    BY <1>2 DEF config
  <2> HIDE DEF tuned
  <2> QED
    BY <1>1, <1>2, <2>1, CancelRight
<1>3. CASE rec.started /\ rec.beacon_int
  <2>1. config(rec, idle, c) = [tuned EXCEPT !.armed = TRUE]
    BY <1>3 DEF config
  <2> HIDE DEF tuned
  <2> QED
    BY <1>1, <1>3, <2>1 DEF Typed, TimerOK
<1> QED
  BY <1>2, <1>3 DEF Typed

(* The two ways of BSS_CHANGED_BEACON_ENABLED.                             *)
LEMMA BeaconEnabledRight ==
  ASSUME NEW rec, Typed(rec), TimerOK(rec), rec.call = "none", rec.started,
         NEW enable \in BOOLEAN
  PROVE  Typed(BeaconEnabled(rec, enable)) /\ TimerOK(BeaconEnabled(rec, enable))
<1>1. CASE enable
  BY <1>1 DEF BeaconEnabled, Typed, TimerOK
<1>2. CASE ~enable
  <2> DEFINE off == [rec EXCEPT !.bcn_en = FALSE]
  <2>1. Typed(off)
    BY DEF Typed
  <2>2. BeaconEnabled(rec, enable) = cancel(off, "disable")
    BY <1>2 DEF BeaconEnabled
  <2> HIDE DEF off
  <2> QED
    BY <2>1, <2>2, CancelRight
<1> QED
  BY <1>1, <1>2

(* Every step keeps every timer right.                                     *)
LEMMA StepKeepsTimers == TimerInv /\ [Next]_vars => TimerInv'
<1> SUFFICES ASSUME TimerInv, [Next]_vars PROVE TimerInv'
  OBVIOUS
<1>0. ASSUME NEW r \in Radios PROVE Typed(radio[r]) /\ TimerOK(radio[r])
  BY DEF TimerInv
<1>1. ASSUME UNCHANGED radio PROVE TimerInv'
  BY <1>1 DEF TimerInv
<1>2. ASSUME NEW r \in Radios, NEW to \in Addrs, mac80211_hwsim_tx(r, to) PROVE TimerInv'
  BY <1>1, <1>2 DEF mac80211_hwsim_tx
<1>3. ASSUME NEW r \in Tunable, mac80211_hwsim_start(r) PROVE TimerInv'
  <2> DEFINE up == [radio[r] EXCEPT !.started = TRUE]
  <2>1. r \in Radios /\ Typed(radio[r])
    BY <1>0, HwsimAssumption
  <2>2. Typed(up) /\ up.call = "none" /\ radio[r].channel \in Channels
    BY <2>1, <1>3 DEF mac80211_hwsim_start, Typed
  <2>3. Set(r, config(up, TRUE, radio[r].channel))
    BY <1>3 DEF mac80211_hwsim_start
  <2> HIDE DEF up
  <2>4. Typed(config(up, TRUE, radio[r].channel)) /\ TimerOK(config(up, TRUE, radio[r].channel))
    BY <2>2, ConfigRight
  <2> QED
    BY <2>1, <2>3, <2>4, OneRadio
<1>4. ASSUME NEW r \in Tunable, mac80211_hwsim_stop(r) PROVE TimerInv'
  <2> DEFINE down == [radio[r] EXCEPT !.started = FALSE]
  <2>1. r \in Radios /\ Typed(radio[r])
    BY <1>0, HwsimAssumption
  <2>2. Typed(down) /\ ~down.started
    BY <2>1 DEF Typed
  <2>3. Set(r, cancel(down, "stop"))
    BY <1>4 DEF mac80211_hwsim_stop
  <2> HIDE DEF down
  <2>4. Typed(cancel(down, "stop")) /\ TimerOK(cancel(down, "stop"))
    BY <2>2, CancelRight
  <2> QED
    BY <2>1, <2>3, <2>4, OneRadio
<1>5. ASSUME NEW r \in Tunable, mac80211_hwsim_config(r) PROVE TimerInv'
  <2>1. r \in Radios /\ Typed(radio[r]) /\ radio[r].call = "none"
    BY <1>0, <1>5, HwsimAssumption DEF mac80211_hwsim_config
  <2>2. PICK idle \in BOOLEAN, c \in Channels : Set(r, config(radio[r], idle, c))
    BY <1>5 DEF mac80211_hwsim_config
  <2>3. Typed(config(radio[r], idle, c)) /\ TimerOK(config(radio[r], idle, c))
    BY <2>1, ConfigRight
  <2> QED
    BY <2>1, <2>2, <2>3, OneRadio
<1>6. ASSUME NEW r \in Tunable, mac80211_hwsim_bss_info_changed(r) PROVE TimerInv'
  <2>1. /\ r \in Radios /\ Typed(radio[r]) /\ TimerOK(radio[r])
        /\ radio[r].call = "none" /\ radio[r].started
    BY <1>0, <1>6, HwsimAssumption DEF mac80211_hwsim_bss_info_changed
  <2> DEFINE new == BeaconEnabled(radio[r], ~radio[r].bcn_en)
  <2>2. Set(r, new)
    BY <1>6 DEF mac80211_hwsim_bss_info_changed
  <2>3. (~radio[r].bcn_en) \in BOOLEAN
    OBVIOUS
  <2>4. Typed(new) /\ TimerOK(new)
    BY <2>1, <2>3, BeaconEnabledRight
  <2> HIDE DEF new
  <2> QED
    BY <2>1, <2>2, <2>4, OneRadio
<1>7. ASSUME NEW r \in Tunable, CallEnds(r) PROVE TimerInv'
  <2> DEFINE new == [radio[r] EXCEPT !.call = "none",
                                     !.beacon_int = @ /\ radio[r].call # "disable"]
  <2>1. r \in Radios /\ Typed(radio[r]) /\ TimerOK(radio[r]) /\ Set(r, new)
    BY <1>0, <1>7, HwsimAssumption DEF CallEnds
  <2>2. Typed(new) /\ TimerOK(new)
    BY <2>1, <1>7 DEF CallEnds, Typed, TimerOK
  <2> HIDE DEF new
  <2> QED
    BY <2>1, <2>2, OneRadio
<1>8. ASSUME NEW r \in Tunable, BeaconDue(r) PROVE TimerInv'
  <2> DEFINE new == [radio[r] EXCEPT !.armed = FALSE, !.callback = radio[r].started]
  <2>1. r \in Radios /\ Typed(radio[r]) /\ TimerOK(radio[r]) /\ Set(r, new)
    BY <1>0, <1>8, HwsimAssumption DEF BeaconDue
  <2>2. Typed(new) /\ TimerOK(new)
    BY <2>1, <1>8 DEF BeaconDue, Typed, TimerOK
  <2> HIDE DEF new
  <2> QED
    BY <2>1, <2>2, OneRadio
<1>9. ASSUME NEW r \in Tunable, BeaconDone(r) PROVE TimerInv'
  <2> DEFINE new == [radio[r] EXCEPT !.callback = FALSE, !.armed = TRUE]
  <2>1. r \in Radios /\ Typed(radio[r]) /\ TimerOK(radio[r]) /\ Set(r, new)
    BY <1>0, <1>9, HwsimAssumption DEF BeaconDone
  <2>2. Typed(new) /\ TimerOK(new)
    BY <2>1, <1>9 DEF BeaconDone, Typed, TimerOK
  <2> HIDE DEF new
  <2> QED
    BY <2>1, <2>2, OneRadio
<1>10. ASSUME NEW id \in Ids, tx_frame_nl(id) PROVE TimerInv'
  <2>1. ASSUME NEW r, NEW q, radio' = [radio EXCEPT ![r].pending = q] PROVE TimerInv'
    <3>1. CASE r \in Radios
      <4> DEFINE new == [radio[r] EXCEPT !.pending = q]
      <4>1. Typed(new) /\ TimerOK(new)
        BY <1>0, <3>1 DEF Typed, TimerOK
      <4>2. Set(r, new)
        BY <2>1 DEF Set
      <4> HIDE DEF new
      <4> QED
        BY <3>1, <4>1, <4>2, OneRadio
    <3>2. CASE r \notin Radios
      BY <2>1, <3>2, <1>1 DEF TimerInv
    <3> QED
      BY <3>1, <3>2
  <2> QED
    BY <1>10, <2>1 DEF tx_frame_nl
<1>11. ASSUME NEW id \in Ids, cap_frame_nl(id) \/ OnAir(id) PROVE TimerInv'
  BY <1>1, <1>11 DEF cap_frame_nl, OnAir
<1>12. ASSUME NEW v \in VMs, hwsim_mon_xmit(v) \/ MonitorToggles(v) \/ ProgramEnds(v)
       PROVE  TimerInv'
  BY <1>1, <1>12 DEF hwsim_mon_xmit, MonitorToggles, ProgramEnds
<1>13. ASSUME NEW v \in VMs, register_received(v) \/ netlink_notify(v) PROVE TimerInv'
  BY <1>13, RegisterKeepsTimers DEF register_received, netlink_notify
<1>14. ASSUME NEW v \in VMs, NEW id \in Ids, NEW acked \in BOOLEAN,
              tx_info_received(v, id, acked)
       PROVE  TimerInv'
  <2> DEFINE r == skb[id].radio
  <2>1. PICK i : radio' = [radio EXCEPT ![r].pending = RemoveAt(@, i)]
    BY <1>14 DEF tx_info_received
  <2> DEFINE q == RemoveAt(radio[r].pending, i)
  <2>0. radio' = [radio EXCEPT ![r].pending = q]
    BY <2>1
  <2> HIDE DEF q
  <2>2. CASE r \in Radios
    <3> DEFINE new == [radio[r] EXCEPT !.pending = q]
    <3>1. Typed(new) /\ TimerOK(new)
      BY <1>0, <2>2 DEF Typed, TimerOK
    <3>2. Set(r, new)
      BY <2>0 DEF Set
    <3> HIDE DEF new, r
    <3> QED
      BY <2>2, <3>1, <3>2, OneRadio
  <2>3. CASE r \notin Radios
    BY <2>0, <2>3, <1>1 DEF TimerInv
  <2> QED
    BY <2>2, <2>3
<1>15. ASSUME NEW v \in VMs, NEW id \in Ids, NEW r \in Radios, cloned_frame_received(v, id, r)
       PROVE  TimerInv'
  BY <1>1, <1>15 DEF cloned_frame_received
<1>16. CASE UNCHANGED vars
  BY <1>1, <1>16 DEF vars
<1> QED
  BY <1>2, <1>3, <1>4, <1>5, <1>6, <1>7, <1>8, <1>9, <1>10, <1>11, <1>12, <1>13, <1>14, <1>15,
     <1>16
  DEF Next

LEMMA InitTimers == Init => TimerInv
  BY DEF Init, TimerInv, Typed, TimerOK

(* The timer of a radio follows its interval, for any number of radios and *)
(* any order of calls, timer interrupts and callbacks.                     *)
THEOREM BeaconTimers == Spec => []BeaconTimerFollowsInterval
<1>1. TimerInv => BeaconTimerFollowsInterval
  BY DEF TimerInv, TimerOK, Typed, BeaconTimerFollowsInterval
<1> QED
  BY InitTimers, StepKeepsTimers, <1>1, PTL DEF Spec

----------------------------------------------------------------------------
(***************************************************************************)
(* The frames.  What a step does is stated once, frame by frame            *)
(* (Became, Changed) and queue by queue; the invariants follow from that.  *)
(***************************************************************************)
Frame ==
  [radio: Radios, beacon: BOOLEAN, to: Addrs \cup {None}, chan: Channels,
   portid: BOOLEAN, at: {"tx", "air", "left"},
   back: Nat, failed: Nat, acks: Nat, heard: [Radios -> Nat]]

(* The types, where a number in a queue is that of a frame.                *)
Message == [id: Ids, ack: BOOLEAN]

Types ==
  /\ TimerInv
  /\ \A r \in Radios : radio[r].pending \in Seq(Ids)
  /\ skb \in Seq(Frame) /\ Len(skb) <= MaxTx
  /\ mon \subseteq VMs
  /\ wire \in [VMs -> Seq(Message)]
  /\ net \in [VMs -> [wmediumd: BOOLEAN, runs: BOOLEAN, has: SUBSET Ids]]
  /\ calls \in 0..MaxCalls

(* A frame and what it becomes: where it is, how much more often it was    *)
(* given back, failed and acknowledged, and who else heard it.             *)
Became(s, t, at, back, failed, acks, rs) ==
  /\ t \in Frame
  /\ t.radio = s.radio /\ t.beacon = s.beacon /\ t.to = s.to /\ t.at = at
  /\ t.back = s.back + back /\ t.failed = s.failed + failed /\ t.acks = s.acks + acks
  /\ \A r \in Radios : t.heard[r] = s.heard[r] + IF r \in rs THEN 1 ELSE 0

Changed(id, at, back, failed, acks, rs) ==
  /\ skb' \in Seq(Frame) /\ Len(skb') = Len(skb)
  /\ Became(skb[id], skb'[id], at, back, failed, acks, rs)
  /\ \A j \in Ids \ {id} : skb'[j] = skb[j]

PendingSame == \A r \in Radios : radio'[r].pending = radio[r].pending

(* What a monitor shows reaches the end of the other queues.               *)
Shows(w, v, m, n) ==
  /\ wire' = [u \in VMs |-> wire'[u]]
  /\ \A u \in VMs : \/ wire'[u] = w[u]
                    \/ n = 1 /\ u # v /\ wire'[u] = Append(w[u], m)

Ack(id) == [id |-> id, ack |-> TRUE]

LEMMA FramesAre ==
  ASSUME Types
  PROVE  /\ Ids = 1..Len(skb) /\ Len(skb) \in Nat
         /\ \A id \in Ids : skb[id] \in Frame /\ skb[id].radio \in Radios /\ VM(skb[id].radio) \in VMs
<1>1. Ids = 1..Len(skb) /\ Len(skb) \in Nat /\ \A id \in Ids : skb[id] \in Frame
  BY DEF Types, Ids
<1>2. ASSUME NEW s \in Frame PROVE s.radio \in Radios /\ VM(s.radio) \in VMs
  BY HwsimAssumption DEF Frame
<1> QED
  BY <1>1, <1>2

LEMMA MoreMessages ==
  ASSUME NEW S, NEW T, S \subseteq T
  PROVE  /\ \A s \in Seq(S) : s \in Seq(T)
         /\ \A w \in [VMs -> Seq(S)] : w \in [VMs -> Seq(T)]
<1>1. ASSUME NEW s \in Seq(S) PROVE s \in Seq(T)
  OBVIOUS
<1> QED
  BY <1>1

LEMMA ShownIs ==
  ASSUME NEW M, NEW w \in [VMs -> Seq(M)], NEW v \in VMs, NEW m \in M, NEW n \in {0, 1},
         wire' = Shown(w, v, m, n)
  PROVE  wire' \in [VMs -> Seq(M)] /\ Shows(w, v, m, n)
<1>1. CASE v \notin mon
  BY <1>1 DEF Shown, Shows
<1>2. CASE v \in mon
  <2> DEFINE tail == [i \in 1..n |-> m]
             new(u) == IF u = v THEN w[u] ELSE w[u] \o tail
  <2>1. wire' = [u \in VMs |-> new(u)]
    BY <1>2 DEF Shown
  <2>2. ASSUME NEW u \in VMs
        PROVE  /\ new(u) \in Seq(M)
               /\ new(u) = w[u] \/ (n = 1 /\ u # v /\ new(u) = Append(w[u], m))
    <3>1. w[u] \in Seq(M)
      OBVIOUS
    <3>2. CASE n = 0
      <4>1. tail = <<>>
        BY <3>2
      <4> QED
        BY <3>1, <4>1
    <3>3. CASE n = 1
      <4>1. tail = <<m>>
        BY <3>3
      <4> QED
        BY <3>1, <3>3, <4>1
    <3> QED
      BY <3>2, <3>3
  <2> HIDE DEF new
  <2> QED
    BY <2>1, <2>2 DEF Shows
<1> QED
  BY <1>1, <1>2

(* One frame of the list is replaced.                                      *)
LEMMA OneFrame ==
  ASSUME Types, NEW id \in Ids, NEW t, skb' = [skb EXCEPT ![id] = t],
         NEW at, NEW back, NEW failed, NEW acks, NEW rs,
         Became(skb[id], t, at, back, failed, acks, rs)
  PROVE  Changed(id, at, back, failed, acks, rs)
<1>1. t \in Frame
  BY DEF Became
<1>2. skb \in Seq(Frame) /\ id \in 1..Len(skb)
  BY FramesAre DEF Types
<1>3. /\ skb' \in Seq(Frame) /\ Len(skb') = Len(skb) /\ skb'[id] = t
      /\ \A j \in Ids \ {id} : skb'[j] = skb[j]
  BY <1>1, <1>2 DEF Ids
<1> QED
  BY <1>3 DEF Changed

(* At most one radio of a VM answers to an address.                        *)
LEMMA OneAnswers ==
  ASSUME NEW v, NEW a
  PROVE  \/ addr_match(v, a) = {} /\ Cardinality(addr_match(v, a)) = 0
         \/ \E r \in Radios : /\ VM(r) = v /\ AddrOf(r) = a
                             /\ addr_match(v, a) = {r} /\ Cardinality(addr_match(v, a)) = 1
<1>1. CASE addr_match(v, a) = {}
  BY <1>1, FS_EmptySet
<1>2. CASE addr_match(v, a) # {}
  <2>1. PICK r : r \in addr_match(v, a)
    BY <1>2
  <2>2. r \in Radios /\ VM(r) = v /\ AddrOf(r) = a
    BY <2>1 DEF addr_match, RadiosOf
  <2>3. addr_match(v, a) = {r}
    BY <2>1, <2>2, HwsimAssumption DEF addr_match, RadiosOf
  <2>4. Cardinality({r}) = 1
    BY FS_Singleton
  <2> QED
    BY <2>2, <2>3, <2>4
<1> QED
  BY <1>1, <1>2

----------------------------------------------------------------------------
(***************************************************************************)
(* What the steps do to frames and queues.                                 *)
(***************************************************************************)
HasSame  == \A v \in VMs : net'[v].has \subseteq net[v].has
HasGets(id) ==
  \A v \in VMs : \A j \in net'[v].has :
    j \in net[v].has \/ (j = id /\ v = VM(skb[id].radio))

Quiet ==
  /\ skb' = skb /\ PendingSame /\ HasSame
  /\ wire' = [v \in VMs |-> wire'[v]]
  /\ \A v \in VMs : wire'[v] = wire[v] \/ (wire[v] # <<>> /\ wire'[v] = Tail(wire[v]))

New(s) ==
  /\ s \in Frame /\ skb' = Append(skb, s) /\ NextId <= MaxTx
  /\ s.acks = 0 /\ s.failed = 0 /\ \A r \in Radios : s.heard[r] = 0
  /\ PendingSame /\ HasSame
  /\ \/ s.at = "left" /\ s.back = 1 /\ wire' = wire
     \/ s.at = "tx" /\ s.back = 0 /\ Shows(wire, VM(s.radio), [id |-> NextId, ack |-> FALSE], 1)

Captured(id) ==
  /\ skb[id].at = "tx" /\ VM(skb[id].radio) \notin Diverting
  /\ \E n \in {0, 1} : Changed(id, "air", n, n, 0, {})
  /\ PendingSame /\ HasGets(id) /\ wire' = wire

Aired(id) ==
  /\ skb[id].at # "left"
  /\ \E n \in {0, 1}, rs \in SUBSET RadiosOf(VM(skb[id].radio)) :
       /\ skb[id].radio \notin rs
       /\ Changed(id, "left", 1, 0, n, rs)
       /\ Shows(wire, VM(skb[id].radio), Ack(id), n)
  /\ PendingSame /\ HasSame

Injected(v) ==
  LET m == Head(wire[v])
      n == Cardinality(addr_match(v, skb[m.id].to))
  IN  /\ wire[v] # <<>> /\ ~m.ack
      /\ Changed(m.id, skb[m.id].at, 0, 0, n, RadiosOf(v))
      /\ Shows([wire EXCEPT ![v] = Tail(@)], v, Ack(m.id), n)
      /\ PendingSame /\ HasSame

Cloned(id, r) ==
  /\ VM(r) \in Diverting /\ id \in net[VM(r)].has
  /\ r # skb[id].radio /\ skb[id].heard[r] = 0
  /\ Changed(id, skb[id].at, 0, 0, 0, {r})
  /\ PendingSame /\ HasSame /\ wire' = wire

(* The frames that wait at r, q of them left, of which the answered one or *)
(* the dropped ones are gone.                                              *)
Waiting(r) == ToSet(radio[r].pending)

Answers(v, id) ==
  /\ \E n \in {0, 1} : /\ Changed(id, skb[id].at, 1, 0, n, {})
                      /\ Shows(wire, v, Ack(id), n)
  /\ \A r \in Radios \ {skb[id].radio} : radio'[r].pending = radio[r].pending
  /\ \E i \in DOMAIN radio[skb[id].radio].pending :
       /\ radio[skb[id].radio].pending[i] = id
       /\ radio'[skb[id].radio].pending = RemoveAt(radio[skb[id].radio].pending, i)
  /\ HasSame

Queued(id) ==
  LET r == skb[id].radio
      p == radio[r].pending
  IN  \E k \in 0..Len(p) :
        LET old == ToSet(SubSeq(p, 1, k))
            kept == SubSeq(p, k + 1, Len(p))
        IN  /\ skb[id].at = "tx" /\ skb' \in Seq(Frame) /\ Len(skb') = Len(skb)
            /\ \A j \in Ids \ {id} :
                 IF j \in old THEN Became(skb[j], skb'[j], skb[j].at, 1, 0, 0, {})
                 ELSE skb'[j] = skb[j]
            /\ \/ /\ Became(skb[id], skb'[id], "left", 0, 0, 0, {})
                  /\ radio'[r].pending = Append(kept, id)
               \/ /\ Became(skb[id], skb'[id], "left", 1, 0, 0, {})
                  /\ radio'[r].pending = kept
            /\ \A q \in Radios \ {r} : radio'[q].pending = radio[q].pending
            /\ HasGets(id) /\ wire' = wire

(* A step that gives a radio a record with the same frames waiting.        *)
LEMMA SetKeepsPending ==
  ASSUME TimerInv, NEW r \in Radios, NEW rec, Set(r, rec), rec.pending = radio[r].pending
  PROVE  PendingSame
  BY DEF TimerInv, Set, PendingSame

LEMMA RegisterKeepsPending ==
  ASSUME TimerInv, NEW v, NEW on, register_wmediumd(v, on)
  PROVE  PendingSame
<1>1. ASSUME NEW r \in Radios
      PROVE  radio'[r].pending = radio[r].pending
  <2>1. radio'[r] = IF VM(r) = v THEN [radio[r] EXCEPT !.wmediumd = on] ELSE radio[r]
    BY DEF register_wmediumd
  <2> QED
    BY <2>1 DEF TimerInv, Typed
<1> QED
  BY <1>1 DEF PendingSame

LEMMA PendingReplaced ==
  ASSUME TimerInv, NEW r \in Radios, NEW p, radio' = [radio EXCEPT ![r].pending = p]
  PROVE  radio'[r].pending = p /\ \A q \in Radios \ {r} : radio'[q].pending = radio[q].pending
  BY DEF TimerInv, Typed

(* What the code does to one frame, in the terms of Became.                *)
LEMMA FrameAt ==
  ASSUME NEW s \in Frame, NEW at \in {"tx", "air", "left"}
  PROVE  Became(s, [s EXCEPT !.at = at], at, 0, 0, 0, {})
  BY DEF Frame, Became

LEMMA FrameBack ==
  ASSUME NEW s \in Frame, NEW at \in {"tx", "air", "left"}, NEW back \in Nat, NEW failed \in Nat
  PROVE  Became(s, [s EXCEPT !.at = at, !.back = @ + back, !.failed = @ + failed],
                at, back, failed, 0, {})
<1> DEFINE b == s.back + back
           f == s.failed + failed
           t == [s EXCEPT !.at = at, !.back = b, !.failed = f]
<1>1. b \in Nat /\ f \in Nat
  BY DEF Frame
<1> HIDE DEF b, f
<1>2. t \in Frame
  BY <1>1 DEF Frame
<1>3. /\ t.radio = s.radio /\ t.beacon = s.beacon /\ t.to = s.to /\ t.at = at
      /\ t.back = b /\ t.failed = f /\ t.acks = s.acks + 0 /\ t.heard = s.heard
  BY <1>1 DEF Frame
<1> HIDE DEF t
<1>4. \A r \in Radios : t.heard[r] = s.heard[r] + IF r \in {} THEN 1 ELSE 0
  BY <1>3 DEF Frame
<1>5. Became(s, t, at, back, failed, 0, {})
  BY <1>2, <1>3, <1>4 DEF Became, b, f
<1> QED
  BY <1>5 DEF t, b, f

LEMMA FrameHeard ==
  ASSUME NEW s \in Frame, NEW at \in {"tx", "air", "left"}, NEW back \in Nat, NEW acks \in Nat,
         NEW rs
  PROVE  Became(s, [Heard([s EXCEPT !.at = at, !.back = @ + back], rs) EXCEPT !.acks = @ + acks],
                at, back, 0, acks, rs)
<1> DEFINE h == [r \in Radios |-> s.heard[r] + IF r \in rs THEN 1 ELSE 0]
           b == s.back + back
           a == s.acks + acks
           u == [s EXCEPT !.at = at, !.back = b]
           t == [u EXCEPT !.heard = h, !.acks = a]
<1>1. h \in [Radios -> Nat] /\ b \in Nat /\ a \in Nat
  BY DEF Frame
<1>2. \A r \in Radios : h[r] = s.heard[r] + IF r \in rs THEN 1 ELSE 0
  OBVIOUS
<1>3. u.heard = s.heard /\ u.acks = s.acks
  BY DEF Frame
<1> HIDE DEF u
<1>4. Heard(u, rs) = [u EXCEPT !.heard = h]
  BY <1>3 DEF Heard
<1>5. [Heard(u, rs) EXCEPT !.acks = @ + acks] = t
  BY <1>3, <1>4
<1> USE DEF u
<1> HIDE DEF h, b, a
<1>6. t \in Frame
  BY <1>1 DEF Frame
<1>7. /\ t.radio = s.radio /\ t.beacon = s.beacon /\ t.to = s.to /\ t.at = at
      /\ t.back = b /\ t.failed = s.failed + 0 /\ t.acks = a /\ t.heard = h
  BY DEF Frame
<1> HIDE DEF t, u
<1>8. Became(s, t, at, back, 0, acks, rs)
  BY <1>2, <1>6, <1>7 DEF Became, a, b
<1> QED
  BY <1>5, <1>8 DEF u, b

LEMMA FrameHears ==
  ASSUME NEW s \in Frame, NEW acks \in Nat, NEW rs
  PROVE  /\ Became(s, [Heard(s, rs) EXCEPT !.acks = @ + acks], s.at, 0, 0, acks, rs)
         /\ Became(s, Heard(s, rs), s.at, 0, 0, 0, rs)
<1> DEFINE h == [r \in Radios |-> s.heard[r] + IF r \in rs THEN 1 ELSE 0]
           a == s.acks + acks
           u == [s EXCEPT !.heard = h]
           t == [u EXCEPT !.acks = a]
<1>1. h \in [Radios -> Nat] /\ a \in Nat
  BY DEF Frame
<1>2. \A r \in Radios : h[r] = s.heard[r] + IF r \in rs THEN 1 ELSE 0
  OBVIOUS
<1>3. Heard(s, rs) = u
  BY DEF Heard
<1> HIDE DEF h, a
<1>4. u \in Frame /\ t \in Frame
  BY <1>1 DEF Frame
<1>5. /\ t.radio = s.radio /\ t.beacon = s.beacon /\ t.to = s.to /\ t.at = s.at
      /\ t.back = s.back + 0 /\ t.failed = s.failed + 0 /\ t.acks = a /\ t.heard = h
  BY DEF Frame
<1>6. /\ u.radio = s.radio /\ u.beacon = s.beacon /\ u.to = s.to /\ u.at = s.at
      /\ u.back = s.back + 0 /\ u.failed = s.failed + 0 /\ u.acks = s.acks + 0 /\ u.heard = h
  BY DEF Frame
<1>7. [Heard(s, rs) EXCEPT !.acks = @ + acks] = t
  BY <1>3 DEF Frame, a
<1> HIDE DEF t, u
<1>8. Became(s, t, s.at, 0, 0, acks, rs)
  BY <1>2, <1>4, <1>5 DEF Became, a
<1>9. Became(s, u, s.at, 0, 0, 0, rs)
  BY <1>2, <1>4, <1>6 DEF Became
<1> QED
  BY <1>3, <1>7, <1>8, <1>9

LEMMA FrameAnswered ==
  ASSUME NEW s \in Frame, NEW acks \in Nat
  PROVE  /\ Became(s, [s EXCEPT !.back = @ + 1, !.acks = @ + acks], s.at, 1, 0, acks, {})
         /\ Became(s, [s EXCEPT !.back = @ + 1], s.at, 1, 0, 0, {})
         /\ Became(s, GivenBack(s), "left", 1, 0, 0, {})
<1> DEFINE b == s.back + 1
           a == s.acks + acks
           t == [s EXCEPT !.back = b, !.acks = a]
           u == [s EXCEPT !.back = b]
           g == [s EXCEPT !.at = "left", !.back = b]
<1>1. a \in Nat /\ b \in Nat
  BY DEF Frame
<1> HIDE DEF a, b
<1>2. t \in Frame /\ u \in Frame /\ g \in Frame
  BY <1>1 DEF Frame
<1>3. \A r \in Radios : s.heard[r] = s.heard[r] + IF r \in {} THEN 1 ELSE 0
  BY DEF Frame
<1>4. /\ t.radio = s.radio /\ t.beacon = s.beacon /\ t.to = s.to /\ t.at = s.at
      /\ t.back = b /\ t.failed = s.failed + 0 /\ t.acks = a /\ t.heard = s.heard
  BY DEF Frame
<1>5. /\ u.radio = s.radio /\ u.beacon = s.beacon /\ u.to = s.to /\ u.at = s.at
      /\ u.back = b /\ u.failed = s.failed + 0 /\ u.acks = s.acks + 0 /\ u.heard = s.heard
  BY DEF Frame
<1>6. /\ g.radio = s.radio /\ g.beacon = s.beacon /\ g.to = s.to /\ g.at = "left"
      /\ g.back = b /\ g.failed = s.failed + 0 /\ g.acks = s.acks + 0 /\ g.heard = s.heard
  BY DEF Frame
<1>7. GivenBack(s) = g
  BY DEF GivenBack, b
<1> HIDE DEF t, u, g
<1>8. Became(s, t, s.at, 1, 0, acks, {})
  BY <1>2, <1>3, <1>4 DEF Became, a, b
<1>9. Became(s, u, s.at, 1, 0, 0, {})
  BY <1>2, <1>3, <1>5 DEF Became, b
<1>10. Became(s, g, "left", 1, 0, 0, {})
  BY <1>2, <1>3, <1>6 DEF Became, b
<1> QED
  BY <1>7, <1>8, <1>9, <1>10 DEF t, u, a, b

(* Every step is one of those.                                             *)
LEMMA EntersDoes ==
  ASSUME Types, NEW r \in Radios, NEW beacon \in BOOLEAN, NEW to \in Addrs \cup {None},
         Enters(r, beacon, to), PendingSame, HasSame
  PROVE  \E s : New(s)
<1> DEFINE s == NewSkb(r, beacon, to, "tx", 0)
           M == [id: Nat, ack: BOOLEAN]
           m == [id |-> NextId, ack |-> FALSE]
<1>1. s \in Frame /\ s.acks = 0 /\ s.failed = 0 /\ s.at = "tx" /\ s.back = 0 /\ s.radio = r
      /\ \A q \in Radios : s.heard[q] = 0
  BY DEF NewSkb, Frame, Typed, Types, TimerInv
<1>2. skb' = Append(skb, s) /\ wire' = Shown(wire, VM(r), m, 1) /\ NextId <= MaxTx
  BY DEF Enters
<1>3. m \in M /\ VM(r) \in VMs
  BY FramesAre, HwsimAssumption DEF NextId
<1>4. Message \subseteq M
  BY FramesAre DEF Message
<1>5. wire \in [VMs -> Seq(M)]
  BY ZenonT(40), <1>4, MoreMessages DEF Types
<1> HIDE DEF s, M, m
<1>6. Shows(wire, VM(r), m, 1)
  BY <1>2, <1>3, <1>5, ShownIs
<1> QED
  BY <1>1, <1>2, <1>6 DEF New, m

LEMMA TxDoes ==
  ASSUME Types, NEW r \in Radios, NEW to \in Addrs, mac80211_hwsim_tx(r, to)
  PROVE  \E s : New(s)
<1>1. PendingSame /\ HasSame
  BY DEF mac80211_hwsim_tx, PendingSame, HasSame
<1>2. CASE radio[r].idle
  <2> DEFINE s == NewSkb(r, FALSE, to, "left", 1)
  <2>1. s \in Frame /\ s.acks = 0 /\ s.failed = 0 /\ s.at = "left" /\ s.back = 1
        /\ \A q \in Radios : s.heard[q] = 0
    BY DEF NewSkb, Frame, Typed, Types, TimerInv
  <2>2. skb' = Append(skb, s) /\ wire' = wire /\ NextId <= MaxTx
    BY <1>2 DEF mac80211_hwsim_tx
  <2> HIDE DEF s
  <2> QED
    BY <1>1, <2>1, <2>2 DEF New
<1>3. CASE ~radio[r].idle
  BY <1>1, <1>3, EntersDoes DEF mac80211_hwsim_tx
<1> QED
  BY <1>2, <1>3

LEMMA BeaconDoes ==
  ASSUME Types, NEW r \in Radios, BeaconDue(r)
  PROVE  Quiet \/ \E s : New(s)
<1>1. PendingSame
  <2> DEFINE rec == [radio[r] EXCEPT !.armed = FALSE, !.callback = radio[r].started]
  <2>1. Set(r, rec) /\ rec.pending = radio[r].pending
    BY DEF BeaconDue, Types, TimerInv, Typed
  <2> HIDE DEF rec
  <2> QED
    BY <2>1, SetKeepsPending DEF Types
<1>2. HasSame
  BY DEF BeaconDue, HasSame
<1>3. CASE radio[r].started /\ radio[r].bcn_en
  BY <1>1, <1>2, <1>3, EntersDoes DEF BeaconDue
<1>4. CASE ~(radio[r].started /\ radio[r].bcn_en)
  BY <1>1, <1>2, <1>4 DEF BeaconDue, Quiet, Types
<1> QED
  BY <1>3, <1>4

LEMMA CapDoes ==
  ASSUME Types, NEW id \in Ids, cap_frame_nl(id)
  PROVE  Captured(id)
<1> DEFINE v == VM(skb[id].radio)
<1>1. skb[id] \in Frame /\ v \in VMs
  BY FramesAre
<1>2. skb[id].at = "tx" /\ v \notin Diverting /\ PendingSame /\ wire' = wire
  BY DEF cap_frame_nl, Registered, TakenOver, PendingSame
<1>3. HasGets(id)
  BY <1>1 DEF cap_frame_nl, HasGets, Types
<1>4. \E n \in {0, 1} : Changed(id, "air", n, n, 0, {})
  <2>1. CASE skb' = [skb EXCEPT ![id].at = "air"]
    <3> DEFINE t == [skb[id] EXCEPT !.at = "air"]
    <3>1. Became(skb[id], t, "air", 0, 0, 0, {}) /\ skb' = [skb EXCEPT ![id] = t]
      BY <1>1, <2>1, FrameAt
    <3> HIDE DEF t
    <3> QED
      BY <3>1, OneFrame
  <2>2. CASE skb' = [skb EXCEPT ![id].at = "air", ![id].back = @ + 1, ![id].failed = @ + 1]
    <3> DEFINE t == [skb[id] EXCEPT !.at = "air", !.back = @ + 1, !.failed = @ + 1]
    <3>1. Became(skb[id], t, "air", 1, 1, 0, {}) /\ skb' = [skb EXCEPT ![id] = t]
      BY <1>1, <2>2, FrameBack
    <3> HIDE DEF t
    <3> QED
      BY <3>1, OneFrame
  <2> QED
    BY <2>1, <2>2 DEF cap_frame_nl
<1> QED
  BY <1>2, <1>3, <1>4 DEF Captured

LEMMA OnAirDoes ==
  ASSUME Types, NEW id \in Ids, OnAir(id)
  PROVE  Aired(id)
<1> DEFINE s == skb[id]
           n == IF s.beacon THEN 0 ELSE 1
           rs == Tuned(s)
           t == [Heard(GivenBack(s), Tuned(s)) EXCEPT !.acks = @ + n]
<1>1. s \in Frame /\ VM(s.radio) \in VMs /\ n \in {0, 1}
  BY FramesAre
<1>2. rs \in SUBSET RadiosOf(VM(s.radio)) /\ s.radio \notin rs
  BY DEF Tuned
<1>3. Became(s, t, "left", 1, 0, n, rs)
  <2> HIDE DEF n, rs
  <2>1. n \in Nat
    BY <1>1
  <2>2. t = [Heard([s EXCEPT !.at = "left", !.back = @ + 1], rs) EXCEPT !.acks = @ + n]
    BY DEF rs, GivenBack
  <2> QED
    BY <1>1, <2>1, <2>2, FrameHeard
<1>4. /\ s.at # "left" /\ PendingSame /\ HasSame /\ wire' = Shown(wire, VM(s.radio), Ack(id), n)
      /\ skb' = [skb EXCEPT ![id] = t]
  BY DEF OnAir, PendingSame, HasSame, Acks, Ack
<1>5. Ack(id) \in Message
  BY DEF Ack, Message
<1> HIDE DEF n, rs, t
<1>6. Changed(id, "left", 1, 0, n, rs)
  BY <1>3, <1>4, OneFrame
<1>7. Shows(wire, VM(s.radio), Ack(id), n)
  BY <1>1, <1>4, <1>5, ShownIs DEF Types
<1> QED
  BY <1>1, <1>2, <1>4, <1>6, <1>7 DEF Aired

LEMMA XmitDoes ==
  ASSUME Types, NEW v \in VMs, hwsim_mon_xmit(v)
  PROVE  Quiet \/ Injected(v)
<1> DEFINE m == Head(wire[v])
           s == skb[m.id]
           n == Cardinality(addr_match(v, s.to))
           w == [wire EXCEPT ![v] = Tail(@)]
<1>1. wire[v] # <<>> /\ PendingSame /\ HasSame
  BY DEF hwsim_mon_xmit, PendingSame, HasSame
<1>2. m \in Message /\ w \in [VMs -> Seq(Message)]
  BY <1>1 DEF Types
<1>3. CASE m.ack \/ v \notin mon
  <2>1. wire' = w /\ skb' = skb
    BY <1>3 DEF hwsim_mon_xmit
  <2> QED
    BY <1>1, <2>1 DEF Quiet, Types
<1>4. CASE ~(m.ack \/ v \notin mon)
  <2> DEFINE t == [Heard(s, RadiosOf(v)) EXCEPT !.acks = @ + n]
  <2>1. m.id \in Ids /\ s \in Frame
    BY <1>2, FramesAre DEF Message
  <2>2. n \in {0, 1}
    <3> HIDE DEF s
    <3> QED
      BY OneAnswers
  <2>3. skb' = [skb EXCEPT ![m.id] = t] /\ wire' = Shown(w, v, Ack(m.id), n)
    BY <1>4 DEF hwsim_mon_xmit, Acks, Ack
  <2>4. Ack(m.id) \in Message
    BY <2>1 DEF Ack, Message
  <2> HIDE DEF n, w
  <2>5. Became(s, t, s.at, 0, 0, n, RadiosOf(v))
    BY <2>1, <2>2, FrameHears
  <2> HIDE DEF t
  <2>6. Changed(m.id, s.at, 0, 0, n, RadiosOf(v))
    BY <2>1, <2>3, <2>5, OneFrame
  <2>7. Shows(w, v, Ack(m.id), n)
    BY <1>2, <2>2, <2>3, <2>4, ShownIs
  <2> QED
    BY <1>1, <1>4, <2>6, <2>7 DEF Injected, n, w
<1> QED
  BY <1>3, <1>4

LEMMA ClonedDoes ==
  ASSUME Types, NEW v \in VMs, NEW id \in Ids, NEW r \in Radios, cloned_frame_received(v, id, r)
  PROVE  Cloned(id, r)
<1> DEFINE t == Heard(skb[id], {r})
<1>1. Became(skb[id], t, skb[id].at, 0, 0, 0, {r})
  BY FramesAre, FrameHears
<1>2. skb' = [skb EXCEPT ![id] = t]
  BY DEF cloned_frame_received
<1> HIDE DEF t
<1>3. Changed(id, skb[id].at, 0, 0, 0, {r})
  BY <1>1, <1>2, OneFrame
<1> QED
  BY <1>3 DEF cloned_frame_received, Cloned, PendingSame, HasSame

LEMMA AnswerDoes ==
  ASSUME Types, NEW v \in VMs, NEW id \in Ids, NEW acked \in BOOLEAN,
         tx_info_received(v, id, acked)
  PROVE  Answers(v, id)
<1> DEFINE s == skb[id]
           n == IF acked THEN 1 ELSE 0
           t == [s EXCEPT !.back = @ + 1, !.acks = @ + n]
<1>1. s \in Frame /\ s.radio \in Radios /\ n \in {0, 1}
  BY FramesAre
<1>2. Became(s, t, s.at, 1, 0, n, {})
  BY <1>1, FrameAnswered
<1>3. skb' = [skb EXCEPT ![id] = t] /\ wire' = Shown(wire, v, Ack(id), n)
  BY DEF tx_info_received, Acks, Ack
<1>4. Ack(id) \in Message
  BY DEF Ack, Message
<1>5. PICK i \in DOMAIN radio[s.radio].pending :
        /\ radio[s.radio].pending[i] = id
        /\ radio' = [radio EXCEPT ![s.radio].pending = RemoveAt(@, i)]
  BY DEF tx_info_received
<1>6. radio'[s.radio].pending = RemoveAt(radio[s.radio].pending, i)
      /\ \A q \in Radios \ {s.radio} : radio'[q].pending = radio[q].pending
  BY <1>1, <1>5, PendingReplaced DEF Types
<1>7. HasSame
  BY DEF tx_info_received, HasSame
<1> HIDE DEF t, n
<1>8. Changed(id, s.at, 1, 0, n, {})
  BY <1>2, <1>3, OneFrame
<1>9. Shows(wire, v, Ack(id), n)
  BY <1>1, <1>3, <1>4, ShownIs DEF Types
<1> QED
  BY <1>1, <1>5, <1>6, <1>7, <1>8, <1>9 DEF Answers

(* The frame is not among those that wait, so that it is not dropped.      *)
LEMMA QueuedDoes ==
  ASSUME Types, NEW id \in Ids, id \notin Waiting(skb[id].radio), tx_frame_nl(id)
  PROVE  Queued(id)
<1> DEFINE s == skb[id]
           r == s.radio
           p == radio[r].pending
           old == Dropped(r)
           kept == SubSeq(p, Len(old) + 1, Len(p))
           base == Cleared(old)
<1>1. s \in Frame /\ r \in Radios /\ Ids = 1..Len(skb) /\ Len(skb) \in Nat
  BY FramesAre
<1>2. p \in Seq(Ids)
  BY <1>1 DEF Types
<1>3. PICK k \in 0..Len(p) : old = SubSeq(p, 1, k) /\ Len(old) = k
  <2>1. CASE Len(p) < MAX_QUEUE
    <3>1. old = <<>> /\ SubSeq(p, 1, 0) = <<>>
      BY <1>2, <2>1 DEF Dropped
    <3> QED
      BY <3>1, <1>2
  <2>2. CASE ~(Len(p) < MAX_QUEUE)
    <3> DEFINE k == Len(p) + 1 - WARN_QUEUE
    <3>1. k \in 0..Len(p) /\ Len(p) \in Nat
      BY SMTT(30), <1>2, <2>2, HwsimAssumption
    <3>2. old = SubSeq(p, 1, k)
      BY <2>2 DEF Dropped
    <3> HIDE DEF k, old, p
    <3> QED
      BY <1>2, <3>1, <3>2
  <2> QED
    BY <2>1, <2>2
<1> DEFINE dropped == ToSet(old)
<1>4. id \notin dropped
  <2> HIDE DEF old
  <2>1. ASSUME NEW i \in 1..k PROVE old[i] = p[i] /\ i \in DOMAIN p
    BY <1>2, <1>3
  <2>2. DOMAIN old = 1..k
    BY <1>2, <1>3
  <2> QED
    BY <2>1, <2>2 DEF ToSet, Waiting
<1>5. s.at = "tx" /\ wire' = wire
  BY DEF tx_frame_nl, Registered
<1>6. HasGets(id)
  BY <1>1, HwsimAssumption DEF tx_frame_nl, HasGets, Types
<1>7. /\ base[id] = s /\ base = [j \in Ids |-> base[j]]
      /\ \A j \in Ids \ dropped : base[j] = skb[j]
      /\ \A j \in Ids \cap dropped : base[j] = [skb[j] EXCEPT !.back = @ + 1]
  BY <1>4 DEF Cleared
<1>8. ASSUME NEW j \in Ids, j \in dropped PROVE Became(skb[j], base[j], skb[j].at, 1, 0, 0, {})
  BY <1>7, <1>8, FramesAre, FrameAnswered
<1>9. ASSUME NEW t, t \in Frame, skb' = [base EXCEPT ![id] = t]
      PROVE  /\ skb' \in Seq(Frame) /\ Len(skb') = Len(skb) /\ skb'[id] = t
             /\ \A j \in Ids \ {id} : skb'[j] = base[j]
  <2>1. \A j \in Ids : base[j] \in Frame
    BY <1>7, <1>8, FramesAre DEF Became
  <2> HIDE DEF base
  <2>2. base \in Seq(Frame) /\ Len(base) = Len(skb)
    BY <1>1, <1>7, <2>1
  <2> QED
    BY <2>2, <1>9, <1>1
<1>10. \/ /\ skb' = [base EXCEPT ![id].at = "left"]
          /\ radio' = [radio EXCEPT ![r].pending = Append(kept, id)]
       \/ /\ skb' = [base EXCEPT ![id] = GivenBack(@)]
          /\ radio' = [radio EXCEPT ![r].pending = kept]
  BY DEF tx_frame_nl
<1>11. kept = SubSeq(p, k + 1, Len(p))
  BY <1>3
<1> HIDE DEF old
<1>12. dropped = ToSet(SubSeq(p, 1, k))
  BY <1>3
<1>17. base[id] = s
  BY <1>7
<1> HIDE DEF base, kept, dropped, s
<1>13. PICK t : /\ skb' = [base EXCEPT ![id] = t] /\ t \in Frame
                /\ \/ /\ Became(s, t, "left", 0, 0, 0, {})
                      /\ radio' = [radio EXCEPT ![r].pending = Append(kept, id)]
                   \/ /\ Became(s, t, "left", 1, 0, 0, {})
                      /\ radio' = [radio EXCEPT ![r].pending = kept]
  <2>1. CASE /\ skb' = [base EXCEPT ![id].at = "left"]
             /\ radio' = [radio EXCEPT ![r].pending = Append(kept, id)]
    <3> DEFINE t == [s EXCEPT !.at = "left"]
    <3>1. skb' = [base EXCEPT ![id] = t]
      BY <2>1, <1>17
    <3>2. Became(s, t, "left", 0, 0, 0, {})
      BY <1>1, FrameAt
    <3> HIDE DEF t
    <3> QED
      BY <2>1, <3>1, <3>2 DEF Became
  <2>2. CASE /\ skb' = [base EXCEPT ![id] = GivenBack(@)]
             /\ radio' = [radio EXCEPT ![r].pending = kept]
    <3>1. skb' = [base EXCEPT ![id] = GivenBack(s)]
      BY <2>2, <1>17
    <3>2. Became(s, GivenBack(s), "left", 1, 0, 0, {})
      BY <1>1, FrameAnswered
    <3> QED
      BY <2>2, <3>1, <3>2 DEF Became
  <2> QED
    BY <1>10, <2>1, <2>2
<1>14. /\ skb' \in Seq(Frame) /\ Len(skb') = Len(skb) /\ skb'[id] = t
       /\ \A j \in Ids \ {id} : skb'[j] = base[j]
  BY <1>9, <1>13
<1>15. \A j \in Ids \ {id} : IF j \in dropped THEN Became(skb[j], skb'[j], skb[j].at, 1, 0, 0, {})
                            ELSE skb'[j] = skb[j]
  BY <1>7, <1>8, <1>14
<1>16. /\ \/ Became(s, skb'[id], "left", 0, 0, 0, {}) /\ radio'[r].pending = Append(kept, id)
          \/ Became(s, skb'[id], "left", 1, 0, 0, {}) /\ radio'[r].pending = kept
       /\ \A q \in Radios \ {r} : radio'[q].pending = radio[q].pending
  BY ZenonT(40), <1>1, <1>13, <1>14, PendingReplaced DEF Types
<1> QED
  BY <1>5, <1>6, <1>11, <1>12, <1>14, <1>15, <1>16 DEF Queued, s

(* A call, a timer, a monitor or a program: frames stay where they are.    *)
LEMMA OthersDo ==
  ASSUME Types, UNCHANGED <<skb, wire>>, HasSame,
         \/ \E r \in Radios : \E rec : Set(r, rec) /\ rec.pending = radio[r].pending
         \/ \E v \in VMs, on \in BOOLEAN : register_wmediumd(v, on)
         \/ UNCHANGED radio
  PROVE  Quiet
<1>1. TimerInv /\ wire = [v \in VMs |-> wire[v]]
  BY DEF Types
<1>2. CASE \E r \in Radios : \E rec : Set(r, rec) /\ rec.pending = radio[r].pending
  BY <1>1, <1>2, SetKeepsPending DEF Quiet
<1>3. CASE \E v \in VMs, on \in BOOLEAN : register_wmediumd(v, on)
  BY <1>1, <1>3, RegisterKeepsPending DEF Quiet
<1>4. CASE UNCHANGED radio
  BY <1>1, <1>4 DEF Quiet, PendingSame
<1> QED
  BY <1>2, <1>3, <1>4

Step ==
  \/ Quiet
  \/ \E s : New(s)
  \/ \E id \in Ids : Captured(id) \/ Aired(id) \/ Queued(id)
  \/ \E v \in VMs : Injected(v) \/ \E id \in Ids : Answers(v, id)
  \/ \E id \in Ids, r \in Radios : Cloned(id, r)

(* The inductive invariant of the frames, first part: a frame waits at     *)
(* most once, at its own radio, when it has left the others' hands, and    *)
(* was given back if it has left and does not wait.                        *)
Out(id) == skb[id].at = "left" /\ id \notin Waiting(skb[id].radio)

Held ==
  /\ \A r \in Radios : IsInjective(radio[r].pending)
  /\ \A r \in Radios : \A id \in Waiting(r) : skb[id].radio = r /\ skb[id].at = "left"
  /\ \A id \in Ids : skb[id].back = skb[id].failed + IF Out(id) THEN 1 ELSE 0

LEMMA Steps == Types /\ Held /\ [Next]_vars => Step
<1> SUFFICES ASSUME Types, Held, [Next]_vars PROVE Step
  OBVIOUS
<1>0. TimerInv /\ \A r \in Radios : Typed(radio[r])
  BY DEF Types, TimerInv
<1>1. ASSUME NEW r \in Radios, NEW rec, Set(r, rec), rec.pending = radio[r].pending,
             UNCHANGED <<skb, wire, net>>
      PROVE  Step
  BY <1>1, OthersDo DEF Step, HasSame
<1>2. ASSUME NEW r \in Radios, NEW to \in Addrs, mac80211_hwsim_tx(r, to) PROVE Step
  BY <1>2, TxDoes DEF Step
<1>3. ASSUME NEW r \in Tunable, mac80211_hwsim_start(r) PROVE Step
  <2> DEFINE up == [radio[r] EXCEPT !.started = TRUE]
             rec == config(up, TRUE, radio[r].channel)
  <2>1. r \in Radios /\ Set(r, rec) /\ UNCHANGED <<skb, wire, net>>
    BY <1>3, HwsimAssumption DEF mac80211_hwsim_start
  <2>2. rec.pending = radio[r].pending
    BY <2>1, <1>0 DEF Typed, config, cancel
  <2> HIDE DEF rec
  <2> QED
    BY <2>1, <2>2, <1>1
<1>4. ASSUME NEW r \in Tunable, mac80211_hwsim_stop(r) PROVE Step
  <2> DEFINE rec == cancel([radio[r] EXCEPT !.started = FALSE], "stop")
  <2>1. r \in Radios /\ Set(r, rec) /\ UNCHANGED <<skb, wire, net>>
    BY <1>4, HwsimAssumption DEF mac80211_hwsim_stop
  <2>2. rec.pending = radio[r].pending
    BY <2>1, <1>0 DEF Typed, cancel
  <2> HIDE DEF rec
  <2> QED
    BY <2>1, <2>2, <1>1
<1>5. ASSUME NEW r \in Tunable, mac80211_hwsim_config(r) PROVE Step
  <2>1. PICK idle \in BOOLEAN, c \in Channels : Set(r, config(radio[r], idle, c))
    BY <1>5 DEF mac80211_hwsim_config
  <2> DEFINE rec == config(radio[r], idle, c)
  <2>2. r \in Radios /\ Set(r, rec) /\ UNCHANGED <<skb, wire, net>>
    BY <1>5, <2>1, HwsimAssumption DEF mac80211_hwsim_config
  <2>3. rec.pending = radio[r].pending
    BY <2>2, <1>0 DEF Typed, config, cancel
  <2> HIDE DEF rec
  <2> QED
    BY <2>2, <2>3, <1>1
<1>6. ASSUME NEW r \in Tunable, mac80211_hwsim_bss_info_changed(r) PROVE Step
  <2> DEFINE rec == BeaconEnabled(radio[r], ~radio[r].bcn_en)
  <2>1. r \in Radios /\ Set(r, rec) /\ UNCHANGED <<skb, wire, net>>
    BY <1>6, HwsimAssumption DEF mac80211_hwsim_bss_info_changed
  <2>2. rec.pending = radio[r].pending
    BY <2>1, <1>0 DEF Typed, BeaconEnabled, cancel
  <2> HIDE DEF rec
  <2> QED
    BY <2>1, <2>2, <1>1
<1>7. ASSUME NEW r \in Tunable, CallEnds(r) PROVE Step
  <2> DEFINE rec == [radio[r] EXCEPT !.call = "none",
                                     !.beacon_int = @ /\ radio[r].call # "disable"]
  <2>1. r \in Radios /\ Set(r, rec) /\ UNCHANGED <<skb, wire, net>>
    BY <1>7, HwsimAssumption DEF CallEnds
  <2>2. rec.pending = radio[r].pending
    BY <2>1, <1>0 DEF Typed
  <2> HIDE DEF rec
  <2> QED
    BY <2>1, <2>2, <1>1
<1>8. ASSUME NEW r \in Tunable, BeaconDue(r) PROVE Step
  BY <1>8, BeaconDoes, HwsimAssumption DEF Step
<1>9. ASSUME NEW r \in Tunable, BeaconDone(r) PROVE Step
  <2> DEFINE rec == [radio[r] EXCEPT !.callback = FALSE, !.armed = TRUE]
  <2>1. r \in Radios /\ Set(r, rec) /\ UNCHANGED <<skb, wire, net>>
    BY <1>9, HwsimAssumption DEF BeaconDone
  <2>2. rec.pending = radio[r].pending
    BY <2>1, <1>0 DEF Typed
  <2> HIDE DEF rec
  <2> QED
    BY <2>1, <2>2, <1>1
<1>10. ASSUME NEW id \in Ids, tx_frame_nl(id) PROVE Step
  <2>1. skb[id].radio \in Radios /\ skb[id].at = "tx"
    BY <1>10, FramesAre DEF tx_frame_nl, Registered
  <2>2. id \notin Waiting(skb[id].radio)
    BY <2>1 DEF Held
  <2> QED
    BY <1>10, <2>2, QueuedDoes DEF Step
<1>11. ASSUME NEW id \in Ids, cap_frame_nl(id) \/ OnAir(id) PROVE Step
  BY <1>11, CapDoes, OnAirDoes DEF Step
<1>12. ASSUME NEW v \in VMs, hwsim_mon_xmit(v) PROVE Step
  BY <1>12, XmitDoes DEF Step
<1>13. ASSUME UNCHANGED <<skb, wire, radio>>, HasSame PROVE Step
  BY <1>13, OthersDo DEF Step
<1>14. ASSUME NEW v \in VMs, MonitorToggles(v) \/ ProgramEnds(v) PROVE Step
  <2>1. UNCHANGED <<skb, wire, radio>>
    BY <1>14 DEF MonitorToggles, ProgramEnds
  <2>2. HasSame
    BY <1>14 DEF MonitorToggles, ProgramEnds, HasSame, Types
  <2> QED
    BY <2>1, <2>2, <1>13
<1>15. ASSUME NEW v \in VMs, register_received(v) \/ netlink_notify(v) PROVE Step
  <2>1. UNCHANGED <<skb, wire>> /\ \E on \in BOOLEAN : register_wmediumd(v, on)
    BY <1>15 DEF register_received, netlink_notify
  <2>2. HasSame
    <3>1. CASE register_received(v)
      BY <3>1 DEF register_received, HasSame, Types
    <3>2. CASE netlink_notify(v)
      BY <3>2 DEF netlink_notify, HasSame, Types
    <3> QED
      BY <1>15, <3>1, <3>2
  <2> QED
    BY <2>1, <2>2, OthersDo DEF Step
<1>16. ASSUME NEW v \in VMs, NEW id \in Ids, NEW acked \in BOOLEAN,
              tx_info_received(v, id, acked)
       PROVE  Step
  BY <1>16, AnswerDoes DEF Step
<1>17. ASSUME NEW v \in VMs, NEW id \in Ids, NEW r \in Radios, cloned_frame_received(v, id, r)
       PROVE  Step
  BY <1>17, ClonedDoes DEF Step
<1>18. CASE UNCHANGED vars
  BY <1>18, <1>13 DEF vars, HasSame
<1> QED
  BY <1>2, <1>3, <1>4, <1>5, <1>6, <1>7, <1>8, <1>9, <1>10, <1>11, <1>12, <1>14, <1>15, <1>16,
     <1>17, <1>18
  DEF Next

----------------------------------------------------------------------------
(***************************************************************************)
(* The types and the first part of the invariant.                          *)
(***************************************************************************)
NetTypes == [VMs -> [wmediumd: BOOLEAN, runs: BOOLEAN, has: SUBSET Ids]]

LEMMA OthersTyped ==
  ASSUME Types, [Next]_vars
  PROVE  mon' \subseteq VMs /\ calls' \in 0..MaxCalls /\ net' \in NetTypes
<1>0. /\ mon \subseteq VMs /\ calls \in 0..MaxCalls /\ net \in NetTypes
      /\ MaxCalls \in Nat /\ Tunable \subseteq Radios
  BY HwsimAssumption DEF Types, NetTypes
<1>1. ASSUME UNCHANGED <<mon, net>>, Call \/ UNCHANGED calls
      PROVE  mon' \subseteq VMs /\ calls' \in 0..MaxCalls /\ net' \in NetTypes
  BY <1>0, <1>1 DEF Call, NetTypes
<1>2. ASSUME NEW r \in Radios, NEW to \in Addrs, mac80211_hwsim_tx(r, to)
      PROVE  UNCHANGED <<mon, net, calls>>
  BY <1>2 DEF mac80211_hwsim_tx
<1>3. ASSUME NEW r \in Tunable,
             \/ mac80211_hwsim_start(r) \/ mac80211_hwsim_stop(r)
             \/ mac80211_hwsim_config(r) \/ mac80211_hwsim_bss_info_changed(r)
      PROVE  Call /\ UNCHANGED <<mon, net>>
  BY <1>3 DEF mac80211_hwsim_start, mac80211_hwsim_stop, mac80211_hwsim_config,
              mac80211_hwsim_bss_info_changed
<1>4. ASSUME NEW r \in Tunable, CallEnds(r) \/ BeaconDue(r) \/ BeaconDone(r)
      PROVE  UNCHANGED <<mon, net, calls>>
  BY <1>4 DEF CallEnds, BeaconDue, BeaconDone
<1>5. ASSUME NEW id \in Ids, cap_frame_nl(id) \/ tx_frame_nl(id)
      PROVE  mon' \subseteq VMs /\ calls' \in 0..MaxCalls /\ net' \in NetTypes
  <2>1. UNCHANGED <<mon, calls>>
    BY <1>5 DEF cap_frame_nl, tx_frame_nl
  <2>2. net' = net \/ \E v : net' = [net EXCEPT ![v].has = @ \cup {id}]
    BY <1>5 DEF cap_frame_nl, tx_frame_nl
  <2>3. net' \in NetTypes
    BY <1>0, <2>2 DEF NetTypes
  <2> QED
    BY <1>0, <2>1, <2>3
<1>6. ASSUME NEW id \in Ids, OnAir(id) PROVE UNCHANGED <<mon, net, calls>>
  BY <1>6 DEF OnAir
<1>7. ASSUME NEW v \in VMs, hwsim_mon_xmit(v) PROVE UNCHANGED <<mon, net, calls>>
  BY <1>7 DEF hwsim_mon_xmit
<1>8. ASSUME NEW v \in VMs, MonitorToggles(v)
      PROVE  mon' \subseteq VMs /\ calls' \in 0..MaxCalls /\ net' \in NetTypes
  BY <1>0, <1>8 DEF MonitorToggles, Call, NetTypes
<1>9. ASSUME NEW v \in VMs, register_received(v)
      PROVE  mon' \subseteq VMs /\ calls' \in 0..MaxCalls /\ net' \in NetTypes
  BY <1>0, <1>9 DEF register_received, Call, NetTypes
<1>10. ASSUME NEW v \in VMs, ProgramEnds(v)
       PROVE  mon' \subseteq VMs /\ calls' \in 0..MaxCalls /\ net' \in NetTypes
  BY <1>0, <1>10 DEF ProgramEnds, NetTypes
<1>11. ASSUME NEW v \in VMs, netlink_notify(v)
       PROVE  mon' \subseteq VMs /\ calls' \in 0..MaxCalls /\ net' \in NetTypes
  BY <1>0, <1>11 DEF netlink_notify, NetTypes
<1>12. ASSUME NEW v \in VMs, NEW id \in Ids, NEW acked \in BOOLEAN, tx_info_received(v, id, acked)
       PROVE  UNCHANGED <<mon, net, calls>>
  BY <1>12 DEF tx_info_received
<1>13. ASSUME NEW v \in VMs, NEW id \in Ids, NEW r \in Radios, cloned_frame_received(v, id, r)
       PROVE  UNCHANGED <<mon, net, calls>>
  BY <1>13 DEF cloned_frame_received
<1>14. CASE UNCHANGED vars
  BY <1>1, <1>14 DEF vars
<1> QED
  BY <1>1, <1>2, <1>3, <1>4, <1>5, <1>6, <1>7, <1>8, <1>9, <1>10, <1>11, <1>12, <1>13, <1>14
  DEF Next

(* A frame list that grows or changes in place.                            *)
LEMMA FramesKept ==
  ASSUME Types, Step
  PROVE  /\ skb' \in Seq(Frame) /\ Len(skb') <= MaxTx
         /\ Ids \subseteq Ids'
<1>1. ASSUME skb' \in Seq(Frame), Len(skb') = Len(skb)
      PROVE  Len(skb') <= MaxTx /\ Ids \subseteq Ids'
  BY <1>1 DEF Types, Ids
<1>2. CASE Quiet
  BY <1>1, <1>2 DEF Quiet, Types
<1>3. ASSUME NEW s, New(s)
      PROVE  skb' \in Seq(Frame) /\ Len(skb') <= MaxTx /\ Ids \subseteq Ids'
  BY <1>3 DEF New, Types, Ids, NextId
<1>4. ASSUME NEW id \in Ids, NEW at, NEW b, NEW f, NEW a, NEW rs, Changed(id, at, b, f, a, rs)
      PROVE  skb' \in Seq(Frame) /\ Len(skb') = Len(skb)
  BY <1>4 DEF Changed
<1>5. ASSUME NEW id \in Ids, Captured(id) \/ Aired(id) \/ Queued(id)
      PROVE  skb' \in Seq(Frame) /\ Len(skb') = Len(skb)
  BY <1>4, <1>5 DEF Captured, Aired, Queued
<1>6. ASSUME NEW v \in VMs, Injected(v)
      PROVE  skb' \in Seq(Frame) /\ Len(skb') = Len(skb)
  BY <1>6 DEF Injected, Changed
<1>7. ASSUME NEW v \in VMs, NEW id \in Ids, Answers(v, id)
      PROVE  skb' \in Seq(Frame) /\ Len(skb') = Len(skb)
  BY <1>7 DEF Answers, Changed
<1>8. ASSUME NEW id \in Ids, NEW r \in Radios, Cloned(id, r)
      PROVE  skb' \in Seq(Frame) /\ Len(skb') = Len(skb)
  BY <1>8 DEF Cloned, Changed
<1> QED
  BY <1>1, <1>2, <1>3, <1>5, <1>6, <1>7, <1>8 DEF Step

(* Queues without duplicates that lose one entry, are cut, or grow.        *)
LEMMA QueueLosesOne ==
  ASSUME NEW S, NEW s \in Seq(S), IsInjective(s), NEW i \in DOMAIN s
  PROVE  /\ RemoveAt(s, i) \in Seq(S) /\ IsInjective(RemoveAt(s, i))
         /\ ToSet(RemoveAt(s, i)) = ToSet(s) \ {s[i]}
<1> DEFINE t == RemoveAt(s, i)
<1>1. i \in 1..Len(s) /\ Len(s) \in Nat
  OBVIOUS
<1>2. /\ t \in Seq(S) /\ Len(t) = Len(s) - 1
      /\ \A j \in 1..(Len(s) - 1) : t[j] = IF j < i THEN s[j] ELSE s[j + 1]
  <2> DEFINE a == SubSeq(s, 1, i - 1)
             b == SubSeq(s, i + 1, Len(s))
  <2>1. /\ a \in Seq(S) /\ Len(a) = i - 1
        /\ \A j \in 1..(i - 1) : a[j] = s[j]
    <3>1. \A j \in 1..(i - 1) : s[j] \in S
      BY <1>1
    <3> QED
      BY <1>1, <3>1, SubSeqProperties
  <2>2. /\ b \in Seq(S) /\ Len(b) = Len(s) - i
        /\ \A j \in 1..(Len(s) - i) : b[j] = s[i + j]
    <3>1. \A j \in (i + 1)..Len(s) : s[j] \in S
      BY <1>1
    <3>2. \A j \in 1..(Len(s) - i) : i + 1 + j - 1 = i + j
      BY <1>1
    <3> HIDE DEF b
    <3> QED
      BY <1>1, <3>1, <3>2, SubSeqProperties DEF b
  <2>3. t = a \o b
    BY DEF RemoveAt
  <2> HIDE DEF a, b
  <2>4. /\ t \in Seq(S) /\ Len(t) = Len(s) - 1
        /\ \A j \in 1..(Len(s) - 1) : t[j] = IF j <= i - 1 THEN a[j] ELSE b[j - (i - 1)]
    BY SMTT(30), <1>1, <2>1, <2>2, <2>3, ConcatProperties
  <2>5. ASSUME NEW j \in 1..(Len(s) - 1) PROVE t[j] = IF j < i THEN s[j] ELSE s[j + 1]
    <3>1. CASE j < i
      BY <1>1, <2>1, <2>4, <3>1
    <3>2. CASE ~(j < i)
      <4>1. j - (i - 1) \in 1..(Len(s) - i) /\ i + (j - (i - 1)) = j + 1 /\ ~(j <= i - 1)
        BY <1>1, <3>2
      <4> QED
        BY <2>2, <2>4, <3>2, <4>1
    <3> QED
      BY <3>1, <3>2
  <2> QED
    BY <2>4, <2>5
<1> HIDE DEF t
<1>3. IsInjective(t)
  BY <1>1, <1>2 DEF IsInjective
<1>4. ASSUME NEW x \in ToSet(t) PROVE x \in ToSet(s) /\ x # s[i]
  <2>1. PICK j \in 1..(Len(s) - 1) : x = t[j]
    BY <1>1, <1>2 DEF ToSet
  <2>2. PICK k \in DOMAIN s : x = s[k] /\ k # i
    BY SMTT(30), <1>1, <1>2, <2>1
  <2> QED
    BY <2>2, <1>1 DEF ToSet, IsInjective
<1>5. ASSUME NEW x \in ToSet(s), x # s[i] PROVE x \in ToSet(t)
  <2>1. PICK k \in 1..Len(s) : x = s[k] /\ k # i
    BY <1>1, <1>5 DEF ToSet
  <2>2. \E j \in 1..(Len(s) - 1) : t[j] = x
    <3>1. CASE k < i
      BY <1>1, <1>2, <2>1, <3>1
    <3>2. CASE k > i
      <4>1. k - 1 \in 1..(Len(s) - 1) /\ ~(k - 1 < i) /\ (k - 1) + 1 = k
        BY <1>1, <3>2
      <4> QED
        BY <1>2, <2>1, <4>1
    <3> QED
      BY <1>1, <2>1, <3>1, <3>2
  <2> QED
    BY <1>1, <1>2, <2>2 DEF ToSet
<1> QED
  BY <1>2, <1>3, <1>4, <1>5 DEF t

LEMMA QueueCut ==
  ASSUME NEW S, NEW s \in Seq(S), IsInjective(s), NEW k \in 0..Len(s)
  PROVE  LET old  == SubSeq(s, 1, k)
             kept == SubSeq(s, k + 1, Len(s))
         IN  /\ kept \in Seq(S) /\ IsInjective(kept)
             /\ ToSet(old) \subseteq ToSet(s)
             /\ ToSet(kept) = ToSet(s) \ ToSet(old)
<1> DEFINE old  == SubSeq(s, 1, k)
           kept == SubSeq(s, k + 1, Len(s))
<1>1. Len(s) \in Nat /\ DOMAIN s = 1..Len(s)
  OBVIOUS
<1>2. /\ old \in Seq(S) /\ Len(old) = k /\ DOMAIN old = 1..k
      /\ \A j \in 1..k : old[j] = s[j]
  <2>1. \A j \in 1..k : s[j] \in S
    BY <1>1
  <2> QED
    BY <1>1, <2>1, SubSeqProperties
<1>3. /\ kept \in Seq(S) /\ Len(kept) = Len(s) - k /\ DOMAIN kept = 1..(Len(s) - k)
      /\ \A j \in 1..(Len(s) - k) : kept[j] = s[k + j]
  <2>1. \A j \in (k + 1)..Len(s) : s[j] \in S
    BY <1>1
  <2> DEFINE n == Len(s)
             b == k + 1
  <2>2. n \in Nat /\ k \in Nat /\ k <= n /\ \A j \in b..n : s[j] \in S
    BY <1>1, <2>1
  <2> HIDE DEF n
  <2>3. b \in Int /\ n - b + 1 = n - k /\ (b <= n \/ n - k = 0)
    BY <2>2
  <2>4. \A j \in 1..(n - k) : b + j - 1 = k + j
    BY <2>2
  <2> HIDE DEF b
  <2>5. /\ SubSeq(s, b, n) \in Seq(S)
        /\ Len(SubSeq(s, b, n)) = IF b <= n THEN n - b + 1 ELSE 0
        /\ \A j \in 1..(n - b + 1) : SubSeq(s, b, n)[j] = s[b + j - 1]
    BY <2>2, <2>3, SubSeqProperties
  <2>6. SubSeq(s, b, n) \in Seq(S) /\ Len(SubSeq(s, b, n)) = n - k
    BY <2>2, <2>3, <2>5
  <2>7. \A j \in 1..(n - k) : SubSeq(s, b, n)[j] = s[k + j]
    BY <2>3, <2>4, <2>5
  <2>8. kept = SubSeq(s, b, n)
    BY DEF b, n
  <2> HIDE DEF kept
  <2> QED
    BY <2>6, <2>7, <2>8 DEF n
<1> HIDE DEF old, kept
<1>4. IsInjective(kept)
  <2>1. ASSUME NEW i \in 1..(Len(s) - k), NEW j \in 1..(Len(s) - k), kept[i] = kept[j]
        PROVE  i = j
    <3>1. k + i \in DOMAIN s /\ k + j \in DOMAIN s /\ s[k + i] = s[k + j]
      BY <1>1, <1>3, <2>1
    <3>2. k + i = k + j
      BY <3>1 DEF IsInjective
    <3> QED
      BY <1>1, <3>2
  <2> QED
    BY <1>3, <2>1 DEF IsInjective
<1>5. ToSet(old) \subseteq ToSet(s)
  BY <1>1, <1>2 DEF ToSet
<1>6. ASSUME NEW x \in ToSet(kept) PROVE x \in ToSet(s) /\ x \notin ToSet(old)
  <2>1. PICK j \in 1..(Len(s) - k) : x = s[k + j]
    BY <1>3 DEF ToSet
  <2>2. k + j \in 1..Len(s) /\ k + j > k
    BY <1>1
  <2>3. ASSUME NEW i \in 1..k PROVE old[i] # x
    BY <1>1, <1>2, <2>1, <2>2 DEF IsInjective
  <2> QED
    BY <1>1, <1>2, <2>1, <2>2, <2>3 DEF ToSet
<1>7. ASSUME NEW x \in ToSet(s), x \notin ToSet(old) PROVE x \in ToSet(kept)
  <2>1. PICK j \in 1..Len(s) : x = s[j]
    BY <1>1 DEF ToSet
  <2>2. j > k
    BY <1>2, <1>7, <2>1 DEF ToSet
  <2>3. j - k \in 1..(Len(s) - k) /\ k + (j - k) = j
    BY <1>1, <2>2
  <2> QED
    BY <1>3, <2>1, <2>3 DEF ToSet
<1> QED
  BY <1>3, <1>4, <1>5, <1>6, <1>7 DEF old, kept

LEMMA QueueGrows ==
  ASSUME NEW S, NEW s \in Seq(S), IsInjective(s), NEW x \in S, x \notin ToSet(s)
  PROVE  /\ Append(s, x) \in Seq(S) /\ IsInjective(Append(s, x))
         /\ ToSet(Append(s, x)) = ToSet(s) \cup {x}
<1> DEFINE t == Append(s, x)
<1>1. /\ t \in Seq(S) /\ DOMAIN t = 1..(Len(s) + 1) /\ DOMAIN s = 1..Len(s) /\ Len(s) \in Nat
      /\ \A j \in 1..Len(s) : t[j] = s[j]
      /\ t[Len(s) + 1] = x
  BY AppendProperties
<1> HIDE DEF t
<1>2. IsInjective(t)
  BY <1>1 DEF IsInjective, ToSet
<1>3. ToSet(t) = ToSet(s) \cup {x}
  BY <1>1 DEF ToSet
<1> QED
  BY <1>1, <1>2, <1>3 DEF t

LEMMA PendingKept ==
  ASSUME Types, Held, Step
  PROVE  \A r \in Radios : radio'[r].pending \in Seq(Ids')
<1>1. Ids \subseteq Ids' /\ \A r \in Radios : radio[r].pending \in Seq(Ids)
  BY FramesKept DEF Types
<1>2. \A q \in Seq(Ids) : q \in Seq(Ids')
  BY <1>1, MoreMessages
<1>3. CASE PendingSame
  BY <1>1, <1>2, <1>3 DEF PendingSame
<1>4. ASSUME NEW id \in Ids, Queued(id) PROVE \A r \in Radios : radio'[r].pending \in Seq(Ids')
  <2> DEFINE r == skb[id].radio
             p == radio[r].pending
  <2>1. r \in Radios /\ p \in Seq(Ids) /\ IsInjective(p)
    BY <1>1, FramesAre DEF Held
  <2>2. PICK k \in 0..Len(p) :
          /\ \/ radio'[r].pending = Append(SubSeq(p, k + 1, Len(p)), id)
             \/ radio'[r].pending = SubSeq(p, k + 1, Len(p))
          /\ \A q \in Radios \ {r} : radio'[q].pending = radio[q].pending
    BY <1>4 DEF Queued
  <2> HIDE DEF p
  <2>3. SubSeq(p, k + 1, Len(p)) \in Seq(Ids)
    BY <2>1, QueueCut
  <2>4. radio'[r].pending \in Seq(Ids)
    BY ZenonT(40), <2>2, <2>3, AppendProperties
  <2> QED
    BY <1>1, <1>2, <2>2, <2>4
<1>5. ASSUME NEW v \in VMs, NEW id \in Ids, Answers(v, id)
      PROVE  \A r \in Radios : radio'[r].pending \in Seq(Ids')
  <2> DEFINE r == skb[id].radio
             p == radio[r].pending
  <2>1. r \in Radios /\ p \in Seq(Ids) /\ IsInjective(p)
    BY <1>1, FramesAre DEF Held
  <2>2. PICK i \in DOMAIN p : radio'[r].pending = RemoveAt(p, i)
    BY <1>5 DEF Answers
  <2>3. \A q \in Radios \ {r} : radio'[q].pending = radio[q].pending
    BY <1>5 DEF Answers
  <2> HIDE DEF p
  <2>4. radio'[r].pending \in Seq(Ids)
    BY <2>1, <2>2, QueueLosesOne
  <2> QED
    BY <1>1, <1>2, <2>3, <2>4
<1>6. PendingSame \/ (\E id \in Ids : Queued(id)) \/ (\E v \in VMs, id \in Ids : Answers(v, id))
  BY DEF Step, Quiet, New, Captured, Aired, Injected, Cloned
<1> QED
  BY <1>3, <1>4, <1>5, <1>6

LEMMA WireTyped ==
  ASSUME Types, Step
  PROVE  wire' \in [VMs -> Seq(Message')]
<1>1. Ids \subseteq Ids' /\ wire \in [VMs -> Seq(Message)]
  BY FramesKept DEF Types
<1>2. (\A id \in Ids : Ack(id) \in Message') /\ Message \subseteq Message'
  BY <1>1 DEF Ack, Message
<1>3. CASE wire' = wire
  BY <1>1, <1>2, <1>3, MoreMessages
<1>4. CASE Quiet
  <2>1. ASSUME NEW v \in VMs PROVE wire'[v] \in Seq(Message)
    <3>1. wire[v] \in Seq(Message)
      BY <1>1
    <3>2. wire'[v] = wire[v] \/ (wire[v] # <<>> /\ wire'[v] = Tail(wire[v]))
      BY <1>4 DEF Quiet
    <3>3. \A q \in Seq(Message) : q # <<>> => Tail(q) \in Seq(Message)
      OBVIOUS
    <3> QED
      BY <3>1, <3>2, <3>3
  <2>2. wire' = [v \in VMs |-> wire'[v]]
    BY <1>4 DEF Quiet
  <2>3. wire' \in [VMs -> Seq(Message)]
    BY <2>1, <2>2
  <2> QED
    BY <1>2, <2>3, MoreMessages
<1>5. ASSUME NEW w \in [VMs -> Seq(Message)], NEW v, NEW n, NEW m, m \in Message',
             Shows(w, v, m, n)
      PROVE  wire' \in [VMs -> Seq(Message')]
  <2>1. ASSUME NEW u \in VMs PROVE wire'[u] \in Seq(Message')
    <3>1. w[u] \in Seq(Message')
      BY <1>2, MoreMessages
    <3>2. wire'[u] = w[u] \/ wire'[u] = Append(w[u], m)
      BY <1>5 DEF Shows
    <3>3. \A q \in Seq(Message') : Append(q, m) \in Seq(Message')
      BY <1>5, AppendProperties
    <3> QED
      BY <3>1, <3>2, <3>3
  <2>2. wire' = [u \in VMs |-> wire'[u]]
    BY <1>5 DEF Shows
  <2> QED
    BY <2>1, <2>2
<1>6. ASSUME NEW s, New(s) PROVE wire' \in [VMs -> Seq(Message')]
  <2>1. CASE Shows(wire, VM(s.radio), [id |-> NextId, ack |-> FALSE], 1)
    <3>1. NextId \in Ids'
      BY <1>6, FramesAre DEF New, Ids, NextId, Types
    <3>2. [id |-> NextId, ack |-> FALSE] \in Message'
      BY <3>1 DEF Message
    <3> QED
      BY <1>1, <1>5, <2>1, <3>2
  <2> QED
    BY <1>3, <1>6, <2>1 DEF New
<1>7. ASSUME NEW id \in Ids, NEW v, NEW n, Shows(wire, v, Ack(id), n)
      PROVE  wire' \in [VMs -> Seq(Message')]
  BY <1>1, <1>2, <1>5, <1>7
<1>8. ASSUME NEW v \in VMs, Injected(v) PROVE wire' \in [VMs -> Seq(Message')]
  <2> DEFINE m == Head(wire[v])
             w == [wire EXCEPT ![v] = Tail(@)]
  <2>1. wire[v] # <<>> /\ wire[v] \in Seq(Message)
    BY <1>1, <1>8 DEF Injected
  <2>2. m \in Message /\ Tail(wire[v]) \in Seq(Message)
    BY <2>1
  <2>3. m.id \in Ids
    BY <2>2 DEF Message
  <2>4. PICK n : Shows(w, v, Ack(m.id), n)
    BY <1>8 DEF Injected
  <2>5. w \in [VMs -> Seq(Message)]
    BY <1>1, <2>2
  <2> HIDE DEF m, w
  <2> QED
    BY <1>2, <1>5, <2>3, <2>4, <2>5
<1> QED
  BY <1>3, <1>4, <1>6, <1>7, <1>8 DEF Step, Captured, Aired, Queued, Answers, Cloned

LEMMA KeepsTypes == Types /\ Held /\ [Next]_vars => Types'
<1> SUFFICES ASSUME Types, Held, [Next]_vars PROVE Types'
  OBVIOUS
<1>1. Step
  BY Steps
<1>2. TimerInv'
  BY StepKeepsTimers DEF Types
<1>3. /\ skb' \in Seq(Frame) /\ Len(skb') <= MaxTx /\ Ids \subseteq Ids'
      /\ wire' \in [VMs -> Seq(Message')]
      /\ \A r \in Radios : radio'[r].pending \in Seq(Ids')
  BY <1>1, FramesKept, WireTyped, PendingKept
<1>4. mon' \subseteq VMs /\ calls' \in 0..MaxCalls /\ net' \in NetTypes
  BY OthersTyped
<1>5. net' \in [VMs -> [wmediumd: BOOLEAN, runs: BOOLEAN, has: SUBSET Ids']]
  BY <1>3, <1>4 DEF NetTypes
<1> QED
  BY <1>2, <1>3, <1>4, <1>5 DEF Types

Balanced(s) == s.back = s.failed + IF s.at = "left" THEN 1 ELSE 0

(* Steps that leave the frames that wait alone: a frame stays where it is, *)
(* or was elsewhere before and is balanced now.                            *)
LEMMA HeldWhenPendingSame ==
  ASSUME Types, Types', Held, PendingSame,
         \A j \in Ids :
           /\ skb'[j].radio = skb[j].radio
           /\ \/ /\ skb'[j].at = skb[j].at /\ skb'[j].back = skb[j].back
                 /\ skb'[j].failed = skb[j].failed
              \/ skb[j].at # "left" /\ Balanced(skb'[j]),
         \A j \in Ids' \ Ids : Balanced(skb'[j])
  PROVE  Held'
<1>1. \A r \in Radios : /\ radio'[r].pending = radio[r].pending
                       /\ Waiting(r)' = Waiting(r)
                       /\ ToSet(radio'[r].pending) = Waiting(r)
  BY DEF PendingSame, Waiting
<1>2. \A r \in Radios : Waiting(r) \subseteq Ids
  <2>1. ASSUME NEW r \in Radios PROVE Waiting(r) \subseteq Ids
    <3>1. radio[r].pending \in Seq(Ids)
      BY DEF Types
    <3> QED
      BY <3>1 DEF Waiting, ToSet
  <2> QED
    BY <2>1
<1>3. \A j \in Ids' : skb'[j].radio \in Radios
  <2>1. skb' \in Seq(Frame) /\ Ids' = DOMAIN skb'
    BY DEF Types, Ids
  <2>2. \A s \in Frame : s.radio \in Radios
    BY DEF Frame
  <2> QED
    BY <2>1, <2>2
<1>4. \A r \in Radios : IsInjective(radio'[r].pending)
  BY <1>1 DEF Held
<1>5. ASSUME NEW r \in Radios, NEW id \in Waiting(r)'
      PROVE  skb'[id].radio = r /\ skb'[id].at = "left"
  <2>1. id \in Waiting(r) /\ id \in Ids
    BY <1>1, <1>2, <1>5
  <2>2. skb[id].radio = r /\ skb[id].at = "left"
    BY <2>1 DEF Held
  <2> QED
    BY <2>1, <2>2
<1>6. ASSUME NEW id \in Ids'
      PROVE  skb'[id].back = skb'[id].failed + IF Out(id)' THEN 1 ELSE 0
  <2>1. CASE id \in Ids
    <3>1. Out(id)' = (skb'[id].at = "left" /\ id \notin Waiting(skb[id].radio))
      BY <1>1, <1>3, <1>6, <2>1 DEF Out, Waiting
    <3>2. skb[id].at # "left" => id \notin Waiting(skb[id].radio)
      BY <2>1, FramesAre DEF Held
    <3>3. skb[id].back = skb[id].failed + IF Out(id) THEN 1 ELSE 0
      BY <2>1 DEF Held
    <3> QED
      BY <2>1, <3>1, <3>2, <3>3 DEF Out, Balanced
  <2>2. CASE id \notin Ids
    <3>1. id \notin ToSet(radio'[skb'[id].radio].pending)
      BY <1>1, <1>2, <1>3, <1>6, <2>2
    <3> QED
      BY <1>6, <2>2, <3>1 DEF Out, Balanced, Waiting
  <2> QED
    BY <2>1, <2>2
<1> QED
  BY <1>4, <1>5, <1>6 DEF Held

(* Steps that change what waits at one radio r.                            *)
LEMMA HeldWhenOneRadio ==
  ASSUME Types, Types', Held, NEW r \in Radios,
         \A q \in Radios \ {r} : radio'[q].pending = radio[q].pending,
         IsInjective(radio'[r].pending), Ids' = Ids,
         \A j \in Ids : skb'[j].radio = skb[j].radio,
         \A j \in ToSet(radio'[r].pending) : skb[j].radio = r /\ skb'[j].at = "left",
         \A j \in Ids : skb[j].radio # r =>
           skb'[j].at = skb[j].at /\ skb'[j].back = skb[j].back /\ skb'[j].failed = skb[j].failed,
         \A j \in Ids : skb[j].radio = r =>
           skb'[j].back = skb'[j].failed
             + IF skb'[j].at = "left" /\ j \notin ToSet(radio'[r].pending) THEN 1 ELSE 0
  PROVE  Held'
<1>1. \A q \in Radios : ToSet(radio'[q].pending) = Waiting(q)' /\ ToSet(radio[q].pending) = Waiting(q)
  BY DEF Waiting
<1>2. ASSUME NEW q \in Radios PROVE Waiting(q)' \subseteq Ids
  <2>1. radio'[q].pending \in Seq(Ids)
    BY DEF Types
  <2> QED
    BY <1>1, <2>1 DEF ToSet
<1>3. \A q \in Radios : IsInjective(radio'[q].pending)
  BY DEF Held
<1>4. ASSUME NEW q \in Radios, NEW id \in Waiting(q)'
      PROVE  skb'[id].radio = q /\ skb'[id].at = "left"
  <2>1. id \in Ids
    BY <1>2, <1>4
  <2>2. CASE q = r
    BY <1>1, <1>4, <2>1, <2>2
  <2>3. CASE q # r
    <3>1. id \in Waiting(q)
      BY <1>1, <1>4, <2>3
    <3>2. skb[id].radio = q /\ skb[id].at = "left"
      BY <3>1 DEF Held
    <3> QED
      BY <2>1, <2>3, <3>2
  <2> QED
    BY <2>2, <2>3
<1>5. ASSUME NEW id \in Ids
      PROVE  skb'[id].back = skb'[id].failed + IF Out(id)' THEN 1 ELSE 0
  <2>1. skb[id].radio \in Radios
    BY FramesAre
  <2>2. Out(id)' = (skb'[id].at = "left" /\ id \notin ToSet(radio'[skb[id].radio].pending))
    BY <1>5 DEF Out, Waiting
  <2>3. CASE skb[id].radio = r
    BY <2>2, <2>3
  <2>4. CASE skb[id].radio # r
    <3>1. skb[id].back = skb[id].failed + IF Out(id) THEN 1 ELSE 0
      BY <1>5 DEF Held
    <3>2. Out(id)' = Out(id)
      BY <2>1, <2>2, <2>4 DEF Out, Waiting
    <3> QED
      BY <2>4, <3>1, <3>2
  <2> QED
    BY <2>3, <2>4
<1> QED
  BY <1>3, <1>4, <1>5 DEF Held

LEMMA HeldWhenAnswered ==
  ASSUME Types, Types', Held, NEW v, NEW id \in Ids, Answers(v, id)
  PROVE  Held'
<1> DEFINE r == skb[id].radio
           p == radio[r].pending
           q == radio'[r].pending
<1>1. r \in Radios /\ p \in Seq(Ids) /\ IsInjective(p)
  BY FramesAre DEF Held, Types
<1>2. PICK n : Changed(id, skb[id].at, 1, 0, n, {})
  BY DEF Answers
<1>3. PICK i \in DOMAIN p : p[i] = id /\ q = RemoveAt(p, i)
  BY DEF Answers
<1>4. IsInjective(q) /\ ToSet(q) = ToSet(p) \ {id} /\ id \in ToSet(p)
  <2> HIDE DEF p, q
  <2>1. id \in ToSet(p)
    BY <1>3 DEF ToSet
  <2> QED
    BY <1>1, <1>3, <2>1, QueueLosesOne
<1>5. Waiting(r) = ToSet(p)
  BY DEF Waiting
<1>6. \A j \in ToSet(p) : skb[j].radio = r /\ skb[j].at = "left"
  BY <1>1, <1>5 DEF Held
<1>7. /\ Ids' = Ids /\ skb'[id].radio = r /\ skb'[id].at = skb[id].at
      /\ skb'[id].back = skb[id].back + 1 /\ skb'[id].failed = skb[id].failed
      /\ \A j \in Ids \ {id} : skb'[j] = skb[j]
  <2>1. skb' \in Seq(Frame) /\ Len(skb') = Len(skb) /\ Ids = 1..Len(skb) /\ skb[id] \in Frame
    BY <1>2, FramesAre DEF Changed
  <2>2. Ids' = Ids
    BY <2>1 DEF Ids
  <2> QED
    BY <1>2, <2>1, <2>2 DEF Changed, Became, Frame
<1>8. \A s \in Radios \ {r} : radio'[s].pending = radio[s].pending
  BY DEF Answers
<1> HIDE DEF p, q
<1>9. ASSUME NEW j \in Ids, skb[j].radio = r
      PROVE  skb'[j].back = skb'[j].failed + IF skb'[j].at = "left" /\ j \notin ToSet(q) THEN 1 ELSE 0
  <2>1. skb[j].back = skb[j].failed + IF skb[j].at = "left" /\ j \notin ToSet(p) THEN 1 ELSE 0
    BY <1>5, <1>9 DEF Held, Out
  <2>2. skb[j].failed \in Nat
    BY FramesAre DEF Frame
  <2> QED
    BY <1>4, <1>6, <1>7, <2>1, <2>2
<1>10. \A j \in ToSet(q) : skb[j].radio = r /\ skb'[j].at = "left"
  <2>1. ASSUME NEW j \in ToSet(p) PROVE j \in Ids
    BY <1>1, <2>1 DEF ToSet
  <2> QED
    BY <1>4, <1>6, <1>7, <2>1
<1>11. \A j \in Ids : skb'[j].radio = skb[j].radio
  BY <1>7
<1>12. \A j \in Ids : skb[j].radio # r =>
         skb'[j].at = skb[j].at /\ skb'[j].back = skb[j].back /\ skb'[j].failed = skb[j].failed
  BY <1>7
<1>13. IsInjective(radio'[r].pending)
  BY <1>4 DEF q
<1> HIDE DEF r
<1> QED
  BY <1>1, <1>7, <1>8, <1>9, <1>10, <1>11, <1>12, <1>13, HeldWhenOneRadio DEF q

LEMMA HeldWhenQueued ==
  ASSUME Types, Types', Held, NEW id \in Ids, Queued(id)
  PROVE  Held'
<1> DEFINE r == skb[id].radio
           p == radio[r].pending
           q == radio'[r].pending
<1>1. r \in Radios /\ p \in Seq(Ids) /\ IsInjective(p)
  BY FramesAre DEF Held, Types
<1>2. PICK k \in 0..Len(p) :
        LET old == ToSet(SubSeq(p, 1, k))
            kept == SubSeq(p, k + 1, Len(p))
        IN  /\ skb[id].at = "tx" /\ skb' \in Seq(Frame) /\ Len(skb') = Len(skb)
            /\ \A j \in Ids \ {id} :
                 IF j \in old THEN Became(skb[j], skb'[j], skb[j].at, 1, 0, 0, {})
                 ELSE skb'[j] = skb[j]
            /\ \/ Became(skb[id], skb'[id], "left", 0, 0, 0, {}) /\ q = Append(kept, id)
               \/ Became(skb[id], skb'[id], "left", 1, 0, 0, {}) /\ q = kept
            /\ \A s \in Radios \ {r} : radio'[s].pending = radio[s].pending
  BY DEF Queued
<1> DEFINE old == ToSet(SubSeq(p, 1, k))
           kept == SubSeq(p, k + 1, Len(p))
<1>3. /\ kept \in Seq(Ids) /\ IsInjective(kept)
      /\ old \subseteq ToSet(p) /\ ToSet(kept) = ToSet(p) \ old
  <2> HIDE DEF p
  <2> QED
    BY <1>1, QueueCut
<1>4. \A j \in ToSet(p) : skb[j].radio = r /\ skb[j].at = "left" /\ j \in Ids
  <2>1. \A j \in ToSet(p) : skb[j].radio = r /\ skb[j].at = "left"
    BY <1>1 DEF Held, Waiting
  <2> HIDE DEF p
  <2>2. \A j \in ToSet(p) : j \in Ids
    BY <1>1 DEF ToSet
  <2> QED
    BY <2>1, <2>2
<1>5. skb[id].at = "tx" /\ Ids' = Ids
  <2>1. skb' \in Seq(Frame) /\ Len(skb') = Len(skb) /\ skb[id].at = "tx"
    BY <1>2
  <2>2. Ids = 1..Len(skb)
    BY FramesAre
  <2> QED
    BY <2>1, <2>2 DEF Ids
<1>6. ASSUME NEW j \in Ids \ {id}
      PROVE  /\ skb'[j].radio = skb[j].radio /\ skb'[j].at = skb[j].at
             /\ skb'[j].failed = skb[j].failed
             /\ skb'[j].back = skb[j].back + IF j \in old THEN 1 ELSE 0
  <2>1. skb[j] \in Frame
    BY FramesAre
  <2>2. skb[j].back = skb[j].back + 0 /\ skb[j].failed = skb[j].failed + 0
    BY <2>1 DEF Frame
  <2> HIDE DEF old
  <2>3. IF j \in old THEN Became(skb[j], skb'[j], skb[j].at, 1, 0, 0, {}) ELSE skb'[j] = skb[j]
    BY <1>2 DEF old
  <2> QED
    BY <2>2, <2>3 DEF Became
<1>7. \A s \in Radios \ {r} : radio'[s].pending = radio[s].pending
  BY <1>2
<1>8. /\ skb'[id].radio = r /\ skb'[id].at = "left" /\ skb'[id].failed = skb[id].failed
      /\ \/ skb'[id].back = skb[id].back /\ q = Append(kept, id)
         \/ skb'[id].back = skb[id].back + 1 /\ q = kept
  <2>1. skb[id].back = skb[id].back + 0 /\ skb[id].failed = skb[id].failed + 0
    BY FramesAre DEF Frame
  <2>2. \/ Became(skb[id], skb'[id], "left", 0, 0, 0, {}) /\ q = Append(kept, id)
        \/ Became(skb[id], skb'[id], "left", 1, 0, 0, {}) /\ q = kept
    BY <1>2
  <2> HIDE DEF q, kept
  <2> QED
    BY <2>1, <2>2 DEF Became
<1> HIDE DEF old, kept, q
<1>9. id \notin ToSet(p)
  BY <1>4, <1>5
<1> HIDE DEF p
<1>10. /\ IsInjective(q)
       /\ \/ skb'[id].back = skb[id].back /\ ToSet(q) = (ToSet(p) \ old) \cup {id}
          \/ skb'[id].back = skb[id].back + 1 /\ ToSet(q) = ToSet(p) \ old
  <2>1. CASE skb'[id].back = skb[id].back /\ q = Append(kept, id)
    <3>1. id \notin ToSet(kept)
      BY <1>3, <1>9
    <3>2. IsInjective(q) /\ ToSet(q) = ToSet(kept) \cup {id}
      BY <1>3, <2>1, <3>1, QueueGrows
    <3> QED
      BY <1>3, <2>1, <3>2
  <2>2. CASE skb'[id].back = skb[id].back + 1 /\ q = kept
    BY <1>3, <2>2
  <2> QED
    BY <1>8, <2>1, <2>2
<1>11. Waiting(r) = ToSet(p)
  BY DEF Waiting, p
<1>12. ASSUME NEW j \in Ids, skb[j].radio = r
       PROVE  skb'[j].back = skb'[j].failed + IF skb'[j].at = "left" /\ j \notin ToSet(q) THEN 1 ELSE 0
  <2>1. skb[j].back = skb[j].failed + IF skb[j].at = "left" /\ j \notin ToSet(p) THEN 1 ELSE 0
    BY <1>11, <1>12 DEF Held, Out
  <2>2. skb[j].failed \in Nat
    BY FramesAre DEF Frame
  <2>3. CASE j = id
    BY <1>5, <1>8, <1>9, <1>10, <2>1, <2>2, <2>3
  <2>4. CASE j # id
    BY <1>3, <1>4, <1>6, <1>10, <2>1, <2>2, <2>4
  <2> QED
    BY <2>3, <2>4
<1>13. \A j \in ToSet(q) : skb[j].radio = r /\ skb'[j].at = "left"
  BY <1>4, <1>6, <1>8, <1>10
<1>14. \A j \in Ids : skb'[j].radio = skb[j].radio
  BY <1>6, <1>8
<1>15. ASSUME NEW j \in Ids, skb[j].radio # r
       PROVE  skb'[j].at = skb[j].at /\ skb'[j].back = skb[j].back /\ skb'[j].failed = skb[j].failed
  <2>1. j # id /\ j \notin old /\ skb[j].back = skb[j].back + 0
    BY <1>3, <1>4, <1>15, FramesAre DEF Frame
  <2> QED
    BY <1>6, <2>1
<1>16. IsInjective(radio'[r].pending)
  BY <1>10 DEF q
<1> HIDE DEF r
<1> QED
  BY <1>1, <1>5, <1>7, <1>12, <1>13, <1>14, <1>15, <1>16, HeldWhenOneRadio DEF q

(* A frame that was elsewhere and leaves, or that only is heard.           *)
LEMMA HeldWhenChanged ==
  ASSUME Types, Types', Held, PendingSame, NEW id \in Ids, NEW at, NEW back, NEW failed,
         NEW acks, NEW rs, Changed(id, at, back, failed, acks, rs),
         \/ at = skb[id].at /\ back = 0 /\ failed = 0
         \/ skb[id].at # "left" /\ at = "left" /\ back = 1 /\ failed = 0
         \/ skb[id].at # "left" /\ at # "left" /\ back = failed /\ failed \in Nat
  PROVE  Held'
<1>1. skb[id] \in Frame /\ Ids = 1..Len(skb)
  BY FramesAre
<1>2. Ids' = Ids
  BY <1>1 DEF Changed, Ids
<1>3. /\ skb'[id].radio = skb[id].radio /\ skb'[id].at = at
      /\ skb'[id].back = skb[id].back + back /\ skb'[id].failed = skb[id].failed + failed
      /\ \A j \in Ids \ {id} : skb'[j] = skb[j]
  BY DEF Changed, Became
<1>4. skb[id].at # "left" => skb[id].back = skb[id].failed
  BY <1>1 DEF Held, Out, Frame
<1>5. skb[id].back \in Nat /\ skb[id].failed \in Nat
  BY <1>1 DEF Frame
<1>6. \/ /\ skb'[id].at = skb[id].at /\ skb'[id].back = skb[id].back
         /\ skb'[id].failed = skb[id].failed
      \/ skb[id].at # "left" /\ Balanced(skb'[id])
  BY <1>3, <1>4, <1>5 DEF Balanced
<1>7. \A j \in Ids :
        /\ skb'[j].radio = skb[j].radio
        /\ \/ /\ skb'[j].at = skb[j].at /\ skb'[j].back = skb[j].back
              /\ skb'[j].failed = skb[j].failed
           \/ skb[j].at # "left" /\ Balanced(skb'[j])
  BY <1>3, <1>6
<1> QED
  BY <1>2, <1>7, HeldWhenPendingSame

LEMMA KeepsHeld == Types /\ Types' /\ Held /\ Step => Held'
<1> SUFFICES ASSUME Types, Types', Held, Step PROVE Held'
  OBVIOUS
<1>1. CASE Quiet
  <2>1. PendingSame /\ skb' = skb /\ Ids' = Ids
    BY <1>1 DEF Quiet, Ids
  <2> QED
    BY <2>1, HeldWhenPendingSame
<1>2. ASSUME NEW s, New(s) PROVE Held'
  <2>1. PendingSame /\ Balanced(s)
    BY <1>2 DEF New, Balanced
  <2>2. /\ \A j \in Ids : skb'[j] = skb[j]
        /\ \A j \in Ids' \ Ids : skb'[j] = s
    BY <1>2, FramesAre DEF New, Ids, Types
  <2> QED
    BY <2>1, <2>2, HeldWhenPendingSame
<1>3. ASSUME NEW id \in Ids, Captured(id) PROVE Held'
  <2>1. PICK n \in {0, 1} : Changed(id, "air", n, n, 0, {})
    BY <1>3 DEF Captured
  <2>2. PendingSame /\ skb[id].at # "left" /\ n \in Nat
    BY <1>3 DEF Captured
  <2> QED
    BY <2>1, <2>2, HeldWhenChanged
<1>4. ASSUME NEW id \in Ids, Aired(id) PROVE Held'
  <2>1. PICK n \in {0, 1}, rs \in SUBSET RadiosOf(VM(skb[id].radio)) :
          Changed(id, "left", 1, 0, n, rs)
    BY <1>4 DEF Aired
  <2>2. PendingSame /\ skb[id].at # "left"
    BY <1>4 DEF Aired
  <2> QED
    BY <2>1, <2>2, HeldWhenChanged
<1>5. ASSUME NEW v \in VMs, Injected(v) PROVE Held'
  <2> DEFINE id == Head(wire[v]).id
  <2>1. id \in Ids
    <3>1. wire[v] # <<>> /\ wire[v] \in Seq(Message)
      BY <1>5 DEF Injected, Types
    <3>2. Head(wire[v]) \in Message
      BY <3>1
    <3> QED
      BY <3>2 DEF Message
  <2>2. PICK n : Changed(id, skb[id].at, 0, 0, n, RadiosOf(v))
    BY <1>5 DEF Injected
  <2>3. PendingSame
    BY <1>5 DEF Injected
  <2> HIDE DEF id
  <2> QED
    BY <2>1, <2>2, <2>3, HeldWhenChanged
<1>6. ASSUME NEW id \in Ids, NEW r \in Radios, Cloned(id, r) PROVE Held'
  <2>1. Changed(id, skb[id].at, 0, 0, 0, {r}) /\ PendingSame
    BY <1>6 DEF Cloned
  <2> QED
    BY <2>1, HeldWhenChanged
<1> QED
  BY <1>1, <1>2, <1>3, <1>4, <1>5, <1>6, HeldWhenAnswered, HeldWhenQueued DEF Step

Accounted == Types /\ Held

LEMMA InitAccounted == Init => Accounted
<1> SUFFICES ASSUME Init PROVE Accounted
  OBVIOUS
<1>1. skb = <<>> /\ Ids = {} /\ calls = 0 /\ MaxCalls \in Nat /\ MaxTx \in Nat
  BY HwsimAssumption DEF Init, Ids
<1>2. \A r \in Radios : radio[r].pending = <<>>
  BY DEF Init
<1>3. TimerInv
  BY InitTimers
<1>4. /\ skb \in Seq(Frame) /\ Len(skb) <= MaxTx /\ calls \in 0..MaxCalls
      /\ \A r \in Radios : radio[r].pending \in Seq(Ids)
  <2>1. Len(<<>>) <= MaxTx /\ 0 \in 0..MaxCalls
    BY <1>1
  <2>2. <<>> \in Seq(Frame) /\ <<>> \in Seq(Ids)
    BY EmptySeq
  <2> QED
    BY <1>1, <1>2, <2>1, <2>2
<1>5. wire \in [VMs -> Seq(Message)] /\ mon \subseteq VMs
      /\ net \in [VMs -> [wmediumd: BOOLEAN, runs: BOOLEAN, has: SUBSET Ids]]
  BY DEF Init
<1>6. Types
  BY <1>3, <1>4, <1>5 DEF Types
<1>7. Held
  BY <1>1, <1>2 DEF Held, IsInjective, Waiting, ToSet
<1> QED
  BY <1>6, <1>7 DEF Accounted

LEMMA StepKeepsAccounted == Accounted /\ [Next]_vars => Accounted'
  BY Steps, KeepsTypes, KeepsHeld DEF Accounted

LEMMA AccountedHolds == Spec => []Accounted
  BY InitAccounted, StepKeepsAccounted, PTL DEF Spec

(* The types of the state, which say that every number in a queue is that  *)
(* of a frame that was transmitted.                                        *)
THEOREM HwsimTypes == Spec => []TypeOK
<1>1. Types => TypeOK
  <2> SUFFICES ASSUME Types PROVE TypeOK
    OBVIOUS
  <2>6. Ids = 1..Len(skb) /\ Len(skb) \in Nat /\ Len(skb) <= MaxTx /\ MaxTx \in Nat
    BY FramesAre, HwsimAssumption DEF Types
  <2>7. Ids \subseteq 1..MaxTx
    BY <2>6
  <2>1. Ids \subseteq 1..MaxTx /\ Message \subseteq [id: 1..MaxTx, ack: BOOLEAN]
    BY <2>7 DEF Message
  <2>8. \A q \in Seq(Ids) : q \in Seq(1..MaxTx)
    BY <2>1, MoreMessages
  <2>2. \A r \in Radios : radio[r].pending \in Seq(1..MaxTx)
    BY <2>8 DEF Types
  <2>3. radio \in [Radios -> [started: BOOLEAN, idle: BOOLEAN, channel: Channels,
                             wmediumd: BOOLEAN, pending: Seq(1..MaxTx),
                             armed: BOOLEAN, callback: BOOLEAN, overlap: BOOLEAN,
                             bcn_en: BOOLEAN, beacon_int: BOOLEAN,
                             call: {"none", "stop", "disable", "config"}]]
    BY <2>2 DEF Types, TimerInv, Typed
  <2>4. wire \in [VMs -> Seq([id: 1..MaxTx, ack: BOOLEAN])]
    BY ZenonT(40), <2>1, MoreMessages DEF Types
  <2>5. net \in [VMs -> [wmediumd: BOOLEAN, runs: BOOLEAN, has: SUBSET (1..MaxTx)]]
    BY <2>1 DEF Types
  <2> QED
    BY <2>3, <2>4, <2>5 DEF Types, TypeOK, Frame
<1> QED
  BY AccountedHolds, <1>1, PTL DEF Accounted

(* Every frame is given back exactly once, or held in exactly one place,   *)
(* for any number of VMs, radios, frames, calls and sizes of the queue.    *)
THEOREM FramesGivenBack == Spec => []SkbAccounted
<1>1. Accounted => SkbAccounted
  <2> SUFFICES ASSUME Accounted, NEW id \in Ids
               PROVE  LET holders == {r \in Radios : id \in ToSet(radio[r].pending)}
                      IN  /\ holders \subseteq {skb[id].radio}
                          /\ holders # {} => skb[id].at = "left"
                          /\ skb[id].back = skb[id].failed
                                + IF skb[id].at = "left" /\ holders = {} THEN 1 ELSE 0
    BY DEF SkbAccounted
  <2> DEFINE holders == {r \in Radios : id \in ToSet(radio[r].pending)}
  <2>1. Types /\ Held /\ skb[id].radio \in Radios
    BY FramesAre DEF Accounted
  <2>2. \A r \in holders : r = skb[id].radio /\ skb[id].at = "left"
    BY <2>1 DEF Held, Waiting
  <2>3. (holders = {}) = (id \notin Waiting(skb[id].radio))
    BY <2>1, <2>2 DEF Waiting
  <2>4. skb[id].back = skb[id].failed + IF Out(id) THEN 1 ELSE 0
    BY <2>1 DEF Held
  <2> HIDE DEF holders
  <2>5. skb[id].back = skb[id].failed + IF skb[id].at = "left" /\ holders = {} THEN 1 ELSE 0
    BY <2>3, <2>4 DEF Out
  <2> QED
    BY <2>2, <2>5 DEF holders
<1> QED
  BY AccountedHolds, <1>1, PTL

----------------------------------------------------------------------------
(***************************************************************************)
(* Who hears a frame.  A message that waits to be injected in a VM is the  *)
(* only one there for its frame, which comes from another VM and which no  *)
(* radio of this VM has heard; a frame still in its sender's hands was not *)
(* heard in the sender's VM; a medium that has a frame is in the sender's  *)
(* VM, and has the only copy if it took the frame over.                    *)
(***************************************************************************)
Once(q) ==
  \A i, j \in DOMAIN q : ~q[i].ack /\ ~q[j].ack /\ q[i].id = q[j].id => i = j

Unheard(v, m) ==
  VM(skb[m.id].radio) # v /\ \A r \in RadiosOf(v) : skb[m.id].heard[r] = 0

Crossing ==
  /\ \A v \in VMs : Once(wire[v]) /\ \A m \in ToSet(wire[v]) : ~m.ack => Unheard(v, m)
  /\ \A id \in Ids, r \in Radios :
       skb[id].at # "left" /\ VM(r) = VM(skb[id].radio) => skb[id].heard[r] = 0
  /\ \A v \in VMs : \A id \in net[v].has :
       VM(skb[id].radio) = v /\ (v \in Diverting => skb[id].at = "left")
  /\ HeardOnce

(* A frame is heard by rs: by none a second time, not by its sender, and   *)
(* in the sender's VM only when it has left.                               *)
Spreads(s, t, rs) ==
  /\ rs \subseteq Radios
  /\ t.radio = s.radio /\ (s.at = "left" => t.at = "left")
  /\ \A r \in Radios : t.heard[r] = s.heard[r] + IF r \in rs THEN 1 ELSE 0
  /\ \A r \in rs : r # s.radio /\ s.heard[r] = 0 /\ (VM(r) = VM(s.radio) => t.at = "left")

LEMMA OnWire ==
  ASSUME Types, NEW v \in VMs, NEW m \in ToSet(wire[v])
  PROVE  m \in Message /\ m.id \in Ids
<1>1. wire[v] \in Seq(Message)
  BY DEF Types
<1>2. m \in Message
  BY <1>1 DEF ToSet
<1> QED
  BY <1>2 DEF Message

(* Queues that lose their head or get another message.                     *)
LEMMA OnceTail ==
  ASSUME NEW S, NEW q \in Seq(S), q # <<>>, Once(q)
  PROVE  /\ Once(Tail(q)) /\ ToSet(Tail(q)) \subseteq ToSet(q) /\ Head(q) \in ToSet(q)
         /\ \A m \in ToSet(Tail(q)) : ~m.ack /\ ~Head(q).ack => m.id # Head(q).id
<1> DEFINE t == Tail(q)
<1>1. /\ Len(q) \in Nat /\ Len(q) >= 1 /\ DOMAIN q = 1..Len(q) /\ Head(q) = q[1]
      /\ t \in Seq(S) /\ DOMAIN t = 1..(Len(q) - 1) /\ \A i \in DOMAIN t : t[i] = q[i + 1]
  BY HeadTailProperties
<1> HIDE DEF t
<1>2. Once(t)
  <2> SUFFICES ASSUME NEW i \in DOMAIN t, NEW j \in DOMAIN t, ~t[i].ack, ~t[j].ack, t[i].id = t[j].id
               PROVE  i = j
    BY DEF Once
  <2>1. i + 1 \in DOMAIN q /\ j + 1 \in DOMAIN q
    BY <1>1
  <2>2. i + 1 = j + 1
    BY <1>1, <2>1 DEF Once
  <2> QED
    BY <1>1, <2>2
<1>3. ASSUME NEW m \in ToSet(t) PROVE \E i \in 2..Len(q) : m = q[i]
  <2>1. PICK i \in DOMAIN t : m = t[i]
    BY <1>3 DEF ToSet
  <2>2. i + 1 \in 2..Len(q) /\ m = q[i + 1]
    BY <1>1, <2>1
  <2> QED
    BY <2>2
<1>4. ToSet(t) \subseteq ToSet(q) /\ Head(q) \in ToSet(q)
  BY <1>1, <1>3 DEF ToSet
<1>5. ASSUME NEW m \in ToSet(t), ~m.ack, ~Head(q).ack PROVE m.id # Head(q).id
  <2>1. PICK i \in 2..Len(q) : m = q[i]
    BY <1>3
  <2>2. 1 \in DOMAIN q /\ i \in DOMAIN q /\ i # 1
    BY <1>1
  <2> QED
    BY <1>1, <1>5, <2>1, <2>2 DEF Once
<1> QED
  BY <1>2, <1>4, <1>5 DEF t

LEMMA OnceGrows ==
  ASSUME NEW S, NEW q \in Seq(S), Once(q), NEW m \in S,
         m.ack \/ \A x \in ToSet(q) : ~x.ack => x.id # m.id
  PROVE  Once(Append(q, m)) /\ ToSet(Append(q, m)) = ToSet(q) \cup {m}
<1> DEFINE t == Append(q, m)
<1>1. /\ DOMAIN t = 1..(Len(q) + 1) /\ DOMAIN q = 1..Len(q) /\ Len(q) \in Nat
      /\ \A j \in 1..Len(q) : t[j] = q[j]
      /\ t[Len(q) + 1] = m
  BY AppendProperties
<1> HIDE DEF t
<1>2. \A i \in DOMAIN t : i = Len(q) + 1 \/ (i \in DOMAIN q /\ t[i] = q[i] /\ q[i] \in ToSet(q))
  BY <1>1 DEF ToSet
<1>3. Once(t)
  BY <1>1, <1>2 DEF Once
<1>4. ToSet(t) = ToSet(q) \cup {m}
  BY <1>1 DEF ToSet
<1> QED
  BY <1>3, <1>4 DEF t

(* What keeps Crossing, in terms of who hears each frame (R) and of what   *)
(* is new on the wires and with the media.                                 *)
LEMMA CrossingKept ==
  ASSUME Types, Types', Crossing, Ids \subseteq Ids',
         NEW R, \A j \in Ids : Spreads(skb[j], skb'[j], R[j]),
         \A j \in Ids' \ Ids, r \in Radios : skb'[j].heard[r] = 0,
         \A v \in VMs : Once(wire'[v]),
         \A v \in VMs : \A m \in ToSet(wire'[v]) : ~m.ack =>
           \/ m \in ToSet(wire[v]) /\ \A r \in R[m.id] : VM(r) # v
           \/ m.id \in Ids' \ Ids /\ VM(skb'[m.id].radio) # v,
         \A v \in VMs : \A j \in net'[v].has :
           \/ j \in net[v].has
           \/ j \in Ids /\ v = VM(skb[j].radio) /\ (v \in Diverting => skb'[j].at = "left")
  PROVE  Crossing'
<1>1. \A v \in VMs : \A m \in ToSet(wire[v]) : m.id \in Ids
  BY OnWire
<1>2. \A v \in VMs : \A j \in net[v].has : j \in Ids
  BY DEF Types
<1>3. ASSUME NEW v \in VMs, NEW m \in ToSet(wire'[v]), ~m.ack
      PROVE  VM(skb'[m.id].radio) # v /\ \A r \in RadiosOf(v) : skb'[m.id].heard[r] = 0
  <2>1. CASE m \in ToSet(wire[v]) /\ \A r \in R[m.id] : VM(r) # v
    <3>1. m.id \in Ids /\ Unheard(v, m)
      BY <1>1, <1>3, <2>1 DEF Crossing
    <3>2. skb'[m.id].radio = skb[m.id].radio
          /\ \A r \in RadiosOf(v) : skb'[m.id].heard[r] = skb[m.id].heard[r] + 0
      BY <2>1, <3>1 DEF Spreads, RadiosOf
    <3> QED
      BY <3>1, <3>2 DEF Unheard
  <2>2. CASE m.id \in Ids' \ Ids /\ VM(skb'[m.id].radio) # v
    BY <2>2 DEF RadiosOf
  <2> QED
    BY <1>3, <2>1, <2>2
<1>4. ASSUME NEW id \in Ids', NEW r \in Radios, skb'[id].at # "left", VM(r) = VM(skb'[id].radio)
      PROVE  skb'[id].heard[r] = 0
  <2>1. CASE id \in Ids
    <3>1. skb[id].at # "left" /\ VM(r) = VM(skb[id].radio) /\ r \notin R[id]
      BY <1>4, <2>1 DEF Spreads
    <3>2. skb'[id].heard[r] = skb[id].heard[r] + 0
      BY <2>1, <3>1 DEF Spreads
    <3> QED
      BY <2>1, <3>1, <3>2 DEF Crossing
  <2> QED
    BY <1>4, <2>1
<1>5. ASSUME NEW v \in VMs, NEW id \in net'[v].has
      PROVE  VM(skb'[id].radio) = v /\ (v \in Diverting => skb'[id].at = "left")
  <2>1. CASE id \in net[v].has
    BY <1>2, <2>1 DEF Crossing, Spreads
  <2>2. CASE /\ id \in Ids /\ v = VM(skb[id].radio)
             /\ (v \in Diverting => skb'[id].at = "left")
    BY <2>2 DEF Spreads
  <2> QED
    BY <1>5, <2>1, <2>2
<1>6. ASSUME NEW id \in Ids', NEW r \in Radios
      PROVE  skb'[id].heard[r] <= IF r = skb'[id].radio THEN 0 ELSE 1
  <2>1. CASE id \in Ids
    <3>1. skb[id].heard[r] \in Nat /\ skb[id].heard[r] <= IF r = skb[id].radio THEN 0 ELSE 1
      BY <2>1, FramesAre DEF Crossing, HeardOnce, Frame
    <3>2. /\ skb'[id].heard[r] = skb[id].heard[r] + IF r \in R[id] THEN 1 ELSE 0
          /\ r \in R[id] => r # skb[id].radio /\ skb[id].heard[r] = 0
          /\ skb'[id].radio = skb[id].radio
      BY <2>1 DEF Spreads
    <3> QED
      BY <3>1, <3>2
  <2>2. CASE id \notin Ids
    BY <1>6, <2>2
  <2> QED
    BY <2>1, <2>2
<1>7. (\A v \in VMs : Once(wire[v]))'
  BY DEF Once
<1>8. (\A v \in VMs : \A m \in ToSet(wire[v]) : ~m.ack => Unheard(v, m))'
  BY <1>3 DEF Unheard
<1> QED
  BY <1>4, <1>5, <1>6, <1>7, <1>8 DEF Crossing, HeardOnce

LEMMA SpreadsNot ==
  ASSUME NEW s \in Frame
  PROVE  Spreads(s, s, {})
  BY DEF Spreads, Frame

Only(id, rs) == [j \in Ids |-> IF j = id THEN rs ELSE {}]

LEMMA SpreadsOne ==
  ASSUME Types, NEW id \in Ids, NEW at, NEW back, NEW failed, NEW n, NEW rs \in SUBSET Radios,
         Changed(id, at, back, failed, n, rs), skb[id].at = "left" => at = "left",
         \A r \in rs : /\ r # skb[id].radio /\ skb[id].heard[r] = 0
                       /\ VM(r) = VM(skb[id].radio) => at = "left"
  PROVE  Ids' = Ids /\ \A j \in Ids : Spreads(skb[j], skb'[j], Only(id, rs)[j])
<1>1. Ids' = Ids
  BY FramesAre DEF Changed, Ids
<1>2. Spreads(skb[id], skb'[id], rs)
  <2>1. skb'[id].radio = skb[id].radio /\ skb'[id].at = at
        /\ \A r \in Radios : skb'[id].heard[r] = skb[id].heard[r] + IF r \in rs THEN 1 ELSE 0
    BY DEF Changed, Became
  <2> QED
    BY <2>1 DEF Spreads
<1>3. \A j \in Ids \ {id} : Spreads(skb[j], skb'[j], {})
  BY FramesAre, SpreadsNot DEF Changed
<1> QED
  BY <1>1, <1>2, <1>3 DEF Only

(* Acknowledgements on the wires.                                          *)
LEMMA AcksShown ==
  ASSUME Types, NEW w \in [VMs -> Seq(Message)], \A v \in VMs : Once(w[v]),
         NEW id \in Ids, NEW u, NEW n, Shows(w, u, Ack(id), n)
  PROVE  \A v \in VMs : Once(wire'[v]) /\ \A m \in ToSet(wire'[v]) : ~m.ack => m \in ToSet(w[v])
<1> SUFFICES ASSUME NEW v \in VMs
             PROVE  Once(wire'[v]) /\ \A m \in ToSet(wire'[v]) : ~m.ack => m \in ToSet(w[v])
  OBVIOUS
<1>1. w[v] \in Seq(Message) /\ Ack(id) \in Message /\ Ack(id).ack
  BY DEF Ack, Message
<1>2. CASE wire'[v] = w[v]
  BY <1>2
<1>3. CASE wire'[v] = Append(w[v], Ack(id))
  <2>1. Once(wire'[v]) /\ ToSet(wire'[v]) = ToSet(w[v]) \cup {Ack(id)}
    BY <1>1, <1>3, OnceGrows
  <2> QED
    BY <1>1, <2>1
<1> QED
  BY <1>2, <1>3 DEF Shows

LEMMA HeadOnWire ==
  ASSUME Types, NEW v \in VMs, wire[v] # <<>>
  PROVE  Head(wire[v]) \in Message /\ Head(wire[v]).id \in Ids /\ wire[v] \in Seq(Message)
<1>1. wire[v] \in Seq(Message)
  BY DEF Types
<1>2. Head(wire[v]) \in Message
  BY <1>1
<1> QED
  BY <1>1, <1>2 DEF Message

LEMMA CrossingWhenInjected ==
  ASSUME Types, Types', Crossing, NEW v \in VMs, Injected(v)
  PROVE  Crossing'
<1> DEFINE m == Head(wire[v])
           id == m.id
           w == [wire EXCEPT ![v] = Tail(@)]
<1>1. /\ m \in Message /\ id \in Ids /\ wire[v] \in Seq(Message) /\ wire[v] # <<>> /\ ~m.ack
      /\ wire \in [VMs -> Seq(Message)]
  BY HeadOnWire DEF Injected, Types
<1>2. PICK n : Changed(id, skb[id].at, 0, 0, n, RadiosOf(v)) /\ Shows(w, v, Ack(id), n)
  BY DEF Injected
<1>3. HasSame
  BY DEF Injected
<1>4. /\ Once(Tail(wire[v])) /\ ToSet(Tail(wire[v])) \subseteq ToSet(wire[v]) /\ m \in ToSet(wire[v])
      /\ \A x \in ToSet(Tail(wire[v])) : ~x.ack => x.id # id
  BY <1>1, OnceTail DEF Crossing
<1>5. w \in [VMs -> Seq(Message)] /\ w[v] = Tail(wire[v]) /\ \A u \in VMs \ {v} : w[u] = wire[u]
  BY <1>1
<1>6. VM(skb[id].radio) # v /\ \A r \in RadiosOf(v) : skb[id].heard[r] = 0
  BY <1>1, <1>4 DEF Crossing, Unheard
<1> HIDE DEF m, id, w
<1>7. \A u \in VMs : Once(w[u]) /\ ToSet(w[u]) \subseteq ToSet(wire[u])
  BY <1>4, <1>5 DEF Crossing
<1>8. \A u \in VMs : Once(wire'[u]) /\ \A x \in ToSet(wire'[u]) : ~x.ack => x \in ToSet(w[u])
  BY <1>1, <1>2, <1>5, <1>7, AcksShown
<1> DEFINE R == Only(id, RadiosOf(v))
<1>9. Ids' = Ids /\ \A j \in Ids : Spreads(skb[j], skb'[j], R[j])
  <2>1. RadiosOf(v) \in SUBSET Radios /\ \A r \in RadiosOf(v) : VM(r) = v
    BY DEF RadiosOf
  <2>2. /\ Changed(id, skb[id].at, 0, 0, n, RadiosOf(v)) /\ id \in Ids
        /\ \A r \in RadiosOf(v) :
             /\ r # skb[id].radio /\ skb[id].heard[r] = 0
             /\ VM(r) = VM(skb[id].radio) => skb[id].at = "left"
    BY <1>1, <1>2, <1>6, <2>1
  <2> QED
    BY <2>1, <2>2, SpreadsOne
<1>10. \A u \in VMs : \A x \in ToSet(wire'[u]) : ~x.ack =>
         x \in ToSet(wire[u]) /\ \A r \in R[x.id] : VM(r) # u
  <2> SUFFICES ASSUME NEW u \in VMs, NEW x \in ToSet(wire'[u]), ~x.ack
               PROVE  x \in ToSet(wire[u]) /\ \A r \in R[x.id] : VM(r) # u
    OBVIOUS
  <2>1. x \in ToSet(w[u]) /\ x \in ToSet(wire[u])
    BY <1>7, <1>8
  <2>2. x.id \in Ids
    BY <2>1, OnWire
  <2>3. x.id = id => u # v
    BY <1>4, <1>5, <2>1
  <2> QED
    BY <2>1, <2>2, <2>3 DEF Only, RadiosOf
<1> HIDE DEF R
<1> QED
  BY <1>3, <1>8, <1>9, <1>10, CrossingKept DEF HasSame

(* One frame changes, acknowledgements may show, nothing else.             *)
LEMMA CrossingWhenChanged ==
  ASSUME Types, Types', Crossing, NEW id \in Ids, NEW at, NEW back, NEW failed, NEW n,
         NEW rs \in SUBSET RadiosOf(VM(skb[id].radio)),
         Changed(id, at, back, failed, n, rs), skb[id].at = "left" => at = "left",
         rs # {} => at = "left",
         \A r \in rs : r # skb[id].radio /\ skb[id].heard[r] = 0,
         wire' = wire \/ \E u, k : Shows(wire, u, Ack(id), k),
         \A v \in VMs : \A j \in net'[v].has :
           \/ j \in net[v].has
           \/ j = id /\ v = VM(skb[j].radio) /\ (v \in Diverting => at = "left")
  PROVE  Crossing'
<1> DEFINE R == Only(id, rs)
<1>1. Ids' = Ids /\ \A j \in Ids : Spreads(skb[j], skb'[j], R[j])
  BY SpreadsOne DEF RadiosOf
<1>2. wire \in [VMs -> Seq(Message)] /\ \A v \in VMs : Once(wire[v])
  BY DEF Types, Crossing
<1>3. \A v \in VMs : Once(wire'[v]) /\ \A m \in ToSet(wire'[v]) : ~m.ack => m \in ToSet(wire[v])
  BY <1>2, AcksShown
<1>4. \A v \in VMs : \A m \in ToSet(wire'[v]) : ~m.ack =>
         m \in ToSet(wire[v]) /\ \A r \in R[m.id] : VM(r) # v
  <2> SUFFICES ASSUME NEW v \in VMs, NEW m \in ToSet(wire'[v]), ~m.ack
               PROVE  m \in ToSet(wire[v]) /\ \A r \in R[m.id] : VM(r) # v
    OBVIOUS
  <2>1. m \in ToSet(wire[v])
    BY <1>3
  <2>2. m.id \in Ids
    BY <2>1, OnWire
  <2>3. VM(skb[m.id].radio) # v
    BY <2>1 DEF Crossing, Unheard
  <2> QED
    BY <2>1, <2>2, <2>3 DEF Only, RadiosOf
<1>5. skb'[id].at = at
  BY DEF Changed, Became
<1>6. \A v \in VMs : \A j \in net'[v].has :
        \/ j \in net[v].has
        \/ j \in Ids /\ v = VM(skb[j].radio) /\ (v \in Diverting => skb'[j].at = "left")
  BY <1>5
<1> HIDE DEF R
<1> QED
  BY <1>1, <1>3, <1>4, <1>6, CrossingKept

LEMMA SpreadsNone ==
  ASSUME NEW s, NEW t, NEW at, NEW back, NEW failed, NEW acks,
         Became(s, t, at, back, failed, acks, {}), s.at = "left" => at = "left"
  PROVE  Spreads(s, t, {})
<1>1. t.radio = s.radio /\ t.at = at
      /\ \A r \in Radios : t.heard[r] = s.heard[r] + IF r \in {} THEN 1 ELSE 0
  BY DEF Became
<1> QED
  BY <1>1 DEF Spreads

(* The dropped frames were given back, nobody heard anything.              *)
LEMMA CrossingWhenQueued ==
  ASSUME Types, Types', Crossing, Held, NEW id \in Ids, Queued(id)
  PROVE  Crossing'
<1> DEFINE R == [j \in Ids |-> {}]
<1>1. wire' = wire /\ HasGets(id) /\ skb'[id].at = "left"
  BY DEF Queued, Became
<1>2. Ids' = Ids
  BY FramesAre DEF Queued, Ids
<1>3. ASSUME NEW j \in Ids PROVE Spreads(skb[j], skb'[j], R[j])
  <2>1. CASE j = id
    <3>1. \/ Became(skb[j], skb'[j], "left", 0, 0, 0, {})
          \/ Became(skb[j], skb'[j], "left", 1, 0, 0, {})
      BY <2>1 DEF Queued
    <3> QED
      BY <3>1, SpreadsNone
  <2>2. CASE j # id
    <3>1. skb'[j] = skb[j] \/ Became(skb[j], skb'[j], skb[j].at, 1, 0, 0, {})
      BY <2>2 DEF Queued
    <3> QED
      BY <3>1, SpreadsNone, SpreadsNot, FramesAre
  <2> QED
    BY <2>1, <2>2
<1>4. \A v \in VMs : Once(wire'[v])
  BY <1>1 DEF Crossing
<1>5. ASSUME NEW v \in VMs, NEW m \in ToSet(wire'[v])
      PROVE  m \in ToSet(wire[v]) /\ \A r \in R[m.id] : VM(r) # v
  <2>1. m \in ToSet(wire[v])
    BY <1>1
  <2>2. m.id \in Ids
    BY <2>1, OnWire
  <2> QED
    BY <2>1, <2>2
<1>6. \A v \in VMs : \A j \in net'[v].has :
        \/ j \in net[v].has
        \/ j \in Ids /\ v = VM(skb[j].radio) /\ (v \in Diverting => skb'[j].at = "left")
  BY <1>1 DEF HasGets
<1> HIDE DEF R
<1> QED
  BY <1>2, <1>3, <1>4, <1>5, <1>6, CrossingKept

LEMMA CrossingWhenQuiet ==
  ASSUME Types, Types', Crossing, Quiet
  PROVE  Crossing'
<1> DEFINE R == [j \in Ids |-> {}]
<1>1. Ids' = Ids /\ HasSame
  BY DEF Quiet, Ids
<1>2. \A j \in Ids : Spreads(skb[j], skb'[j], R[j])
  BY SpreadsNot, FramesAre DEF Quiet
<1>3. ASSUME NEW v \in VMs
      PROVE  Once(wire'[v]) /\ ToSet(wire'[v]) \subseteq ToSet(wire[v])
  <2>1. wire[v] \in Seq(Message) /\ Once(wire[v])
    BY DEF Types, Crossing
  <2>2. CASE wire'[v] = wire[v]
    BY <2>1, <2>2
  <2>3. CASE wire[v] # <<>> /\ wire'[v] = Tail(wire[v])
    BY <2>1, <2>3, OnceTail
  <2> QED
    BY <2>2, <2>3 DEF Quiet
<1>4. ASSUME NEW v \in VMs, NEW m \in ToSet(wire'[v])
      PROVE  m \in ToSet(wire[v]) /\ \A r \in R[m.id] : VM(r) # v
  <2>1. m \in ToSet(wire[v])
    BY <1>3, <1>4
  <2>2. m.id \in Ids
    BY <2>1, OnWire
  <2> QED
    BY <2>1, <2>2
<1>5. \A v \in VMs : \A j \in net'[v].has : j \in net[v].has
  BY <1>1 DEF HasSame
<1> HIDE DEF R
<1> QED
  BY <1>1, <1>2, <1>3, <1>4, <1>5, CrossingKept

(* What is new on the wires is the new frame, which was on none of them.   *)
LEMMA CrossingWhenNew ==
  ASSUME Types, Types', Crossing, NEW s, New(s)
  PROVE  Crossing'
<1> DEFINE R == [j \in Ids |-> {}]
           new == [id |-> NextId, ack |-> FALSE]
           M == [id: Nat, ack: BOOLEAN]
<1>1. Ids = 1..Len(skb) /\ Len(skb) \in Nat /\ NextId = Len(skb) + 1 /\ skb \in Seq(Frame)
  BY FramesAre DEF NextId, Types
<1>2. /\ Ids' = Ids \cup {NextId} /\ NextId \notin Ids
      /\ \A j \in Ids : skb'[j] = skb[j]
      /\ skb'[NextId] = s
  BY <1>1 DEF New, Ids
<1>3. \A j \in Ids : Spreads(skb[j], skb'[j], R[j])
  BY <1>2, SpreadsNot, FramesAre
<1>4. \A j \in Ids' \ Ids, r \in Radios : skb'[j].heard[r] = 0
  BY <1>2 DEF New
<1>5. ASSUME NEW v \in VMs
      PROVE  /\ wire[v] \in Seq(M) /\ Once(wire[v])
             /\ \A m \in ToSet(wire[v]) : m.id \in Ids
  <2>1. wire[v] \in Seq(Message) /\ Once(wire[v])
    BY DEF Types, Crossing
  <2>2. Message \subseteq M
    BY <1>1 DEF Message
  <2> HIDE DEF M
  <2>3. wire[v] \in Seq(M)
    BY <2>1, <2>2, MoreMessages
  <2>4. \A m \in ToSet(wire[v]) : m.id \in Ids
    BY OnWire
  <2> QED
    BY <2>1, <2>3, <2>4
<1>6. new \in M /\ new.id = NextId
  BY <1>1
<1>7. ASSUME NEW v \in VMs
      PROVE  /\ Once(wire'[v])
             /\ \A m \in ToSet(wire'[v]) : m \in ToSet(wire[v]) \/ (m = new /\ VM(s.radio) # v)
  <2>1. CASE wire'[v] = wire[v]
    BY <1>5, <2>1
  <2>2. CASE v # VM(s.radio) /\ wire'[v] = Append(wire[v], new)
    <3>1. \A x \in ToSet(wire[v]) : ~x.ack => x.id # new.id
      BY <1>2, <1>5, <1>6
    <3> HIDE DEF new, M
    <3>2. Once(wire'[v]) /\ ToSet(wire'[v]) = ToSet(wire[v]) \cup {new}
      BY <1>5, <1>6, <2>2, <3>1, OnceGrows
    <3> QED
      BY <2>2, <3>2
  <2> QED
    BY <2>1, <2>2 DEF New, Shows
<1> HIDE DEF new, M
<1>8. \A v \in VMs : \A m \in ToSet(wire'[v]) :
        \/ m \in ToSet(wire[v]) /\ \A r \in R[m.id] : VM(r) # v
        \/ m.id \in Ids' \ Ids /\ VM(skb'[m.id].radio) # v
  BY <1>2, <1>5, <1>6, <1>7
<1>9. \A v \in VMs : \A j \in net'[v].has : j \in net[v].has
  BY DEF New, HasSame
<1> HIDE DEF R
<1> QED
  BY <1>2, <1>3, <1>4, <1>7, <1>8, <1>9, CrossingKept

LEMMA KeepsCrossing == Types /\ Types' /\ Held /\ Crossing /\ Step => Crossing'
<1> SUFFICES ASSUME Types, Types', Held, Crossing, Step PROVE Crossing'
  OBVIOUS
<1>1. ASSUME NEW id \in Ids, Captured(id) PROVE Crossing'
  <2>1. PICK n \in {0, 1} : Changed(id, "air", n, n, 0, {})
    BY <1>1 DEF Captured
  <2>2. /\ skb[id].at = "tx" /\ wire' = wire
        /\ \A v \in VMs : \A j \in net'[v].has :
             j \in net[v].has \/ (j = id /\ v = VM(skb[j].radio) /\ v \notin Diverting)
    BY <1>1 DEF Captured, HasGets
  <2> QED
    BY <2>1, <2>2, CrossingWhenChanged
<1>2. ASSUME NEW id \in Ids, Aired(id) PROVE Crossing'
  <2>1. PICK n \in {0, 1}, rs \in SUBSET RadiosOf(VM(skb[id].radio)) :
          /\ skb[id].radio \notin rs
          /\ Changed(id, "left", 1, 0, n, rs)
          /\ Shows(wire, VM(skb[id].radio), Ack(id), n)
    BY <1>2 DEF Aired
  <2>2. \A r \in rs : r # skb[id].radio /\ skb[id].heard[r] = 0
    BY <1>2, <2>1 DEF Aired, Crossing, RadiosOf
  <2>3. \A v \in VMs : \A j \in net'[v].has : j \in net[v].has
    BY <1>2 DEF Aired, HasSame
  <2> QED
    BY <2>1, <2>2, <2>3, CrossingWhenChanged
<1>3. ASSUME NEW v \in VMs, NEW id \in Ids, Answers(v, id) PROVE Crossing'
  <2>1. PICK n \in {0, 1} : Changed(id, skb[id].at, 1, 0, n, {}) /\ Shows(wire, v, Ack(id), n)
    BY <1>3 DEF Answers
  <2>2. \A u \in VMs : \A j \in net'[u].has : j \in net[u].has
    BY <1>3 DEF Answers, HasSame
  <2> QED
    BY <2>1, <2>2, CrossingWhenChanged
<1>4. ASSUME NEW id \in Ids, NEW r \in Radios, Cloned(id, r) PROVE Crossing'
  <2>1. VM(r) \in VMs /\ VM(skb[id].radio) = VM(r) /\ skb[id].at = "left"
    BY <1>4, HwsimAssumption DEF Cloned, Crossing
  <2>2. {r} \in SUBSET RadiosOf(VM(skb[id].radio))
    BY <2>1 DEF RadiosOf
  <2>3. /\ Changed(id, skb[id].at, 0, 0, 0, {r}) /\ wire' = wire
        /\ \A x \in {r} : x # skb[id].radio /\ skb[id].heard[x] = 0
        /\ \A u \in VMs : \A j \in net'[u].has : j \in net[u].has
    BY <1>4 DEF Cloned, HasSame
  <2> QED
    BY <2>1, <2>2, <2>3, CrossingWhenChanged
<1> QED
  BY <1>1, <1>2, <1>3, <1>4, CrossingWhenQuiet, CrossingWhenNew, CrossingWhenQueued,
     CrossingWhenInjected DEF Step

LEMMA InitCrossing == Init => Crossing
<1> SUFFICES ASSUME Init PROVE Crossing
  OBVIOUS
<1>1. Ids = {} /\ \A v \in VMs : net[v].has = {} /\ wire[v] = <<>>
  BY DEF Init, Ids
<1> QED
  BY <1>1 DEF Crossing, Once, HeardOnce, ToSet

(* No radio hears a frame a second time, and none its own.                 *)
THEOREM FramesHeardOnce == Spec => []HeardOnce
<1>1. Init => Accounted /\ Crossing
  BY InitAccounted, InitCrossing
<1>2. (Accounted /\ Crossing) /\ [Next]_vars => (Accounted /\ Crossing)'
  BY StepKeepsAccounted, KeepsCrossing, Steps DEF Accounted
<1>3. Crossing => HeardOnce
  BY DEF Crossing
<1> QED
  BY <1>1, <1>2, <1>3, PTL DEF Spec

----------------------------------------------------------------------------
(***************************************************************************)
(* Acknowledgements.  A frame has one from each radio elsewhere that has   *)
(* its address and heard it, and one of its own VM for having been given   *)
(* back: counted this way, they only grow together.                        *)
(***************************************************************************)
Elsewhere(s) == {r \in Radios : VM(r) # VM(s.radio) /\ AddrOf(r) = s.to}
Answered(s)  == {r \in Elsewhere(s) : s.heard[r] > 0}

Earned(s) == s.acks + s.failed <= Cardinality(Answered(s)) + s.back
AckInv    == \A id \in Ids : Earned(skb[id])

LEMMA AnsweredFinite ==
  ASSUME NEW s
  PROVE  /\ IsFiniteSet(Answered(s)) /\ Cardinality(Answered(s)) \in Nat
         /\ IsFiniteSet(Elsewhere(s)) /\ Cardinality(Elsewhere(s)) \in Nat
         /\ Cardinality(Answered(s)) <= Cardinality(Elsewhere(s))
<1>1. IsFiniteSet(Elsewhere(s)) /\ Answered(s) \subseteq Elsewhere(s)
  BY HwsimAssumption, FS_Subset DEF Elsewhere, Answered
<1> QED
  BY <1>1, FS_Subset, FS_CardinalityType

(* Who answered stays so, and a radio elsewhere that is addressed and      *)
(* hears the frame for the first time is one more.                         *)
LEMMA AnsweredGrows ==
  ASSUME NEW s \in Frame, NEW t \in Frame, t.radio = s.radio, t.to = s.to,
         \A r \in Radios : t.heard[r] >= s.heard[r]
  PROVE  /\ Cardinality(Answered(s)) <= Cardinality(Answered(t))
         /\ \A r \in Elsewhere(s) : s.heard[r] = 0 /\ t.heard[r] > 0
              => Cardinality(Answered(s)) + 1 <= Cardinality(Answered(t))
<1>1. Elsewhere(t) = Elsewhere(s)
  BY DEF Elsewhere
<1>2. \A r \in Radios : s.heard[r] \in Nat /\ t.heard[r] \in Nat
  BY DEF Frame
<1>3. Answered(s) \in SUBSET Answered(t)
  BY <1>1, <1>2 DEF Answered, Elsewhere
<1>4. Cardinality(Answered(s)) <= Cardinality(Answered(t))
  BY <1>3, AnsweredFinite, FS_Subset
<1>5. ASSUME NEW r \in Elsewhere(s), s.heard[r] = 0, t.heard[r] > 0
      PROVE  Cardinality(Answered(s)) + 1 <= Cardinality(Answered(t))
  <2>1. r \notin Answered(s) /\ Answered(s) \cup {r} \in SUBSET Answered(t)
    BY <1>1, <1>3, <1>5 DEF Answered
  <2>2. Cardinality(Answered(s) \cup {r}) = Cardinality(Answered(s)) + 1
    BY <2>1, AnsweredFinite, FS_AddElement
  <2> QED
    BY <2>1, <2>2, AnsweredFinite, FS_Subset
<1> QED
  BY <1>4, <1>5

LEMMA EarnedKept ==
  ASSUME NEW s \in Frame, NEW t, NEW at, NEW back \in Nat, NEW failed \in Nat, NEW n \in Nat, NEW rs,
         Became(s, t, at, back, failed, n, rs), Earned(s),
         \/ n + failed <= back
         \/ /\ n = 1 /\ back = 0 /\ failed = 0
            /\ \E r \in Elsewhere(s) : r \in rs /\ s.heard[r] = 0
  PROVE  Earned(t)
<1>1. /\ t \in Frame /\ t.radio = s.radio /\ t.to = s.to
      /\ t.back = s.back + back /\ t.failed = s.failed + failed /\ t.acks = s.acks + n
  BY DEF Became
<1>2. \A r \in Radios : s.heard[r] \in Nat /\ t.heard[r] = s.heard[r] + IF r \in rs THEN 1 ELSE 0
  BY DEF Became, Frame
<1>3. \A r \in Radios : t.heard[r] >= s.heard[r] /\ (r \in rs => t.heard[r] > 0)
  BY <1>2
<1> DEFINE a == Cardinality(Answered(s))
           b == Cardinality(Answered(t))
<1>4. a \in Nat /\ b \in Nat /\ a <= b
  BY <1>1, <1>3, AnsweredFinite, AnsweredGrows
<1>5. s.acks \in Nat /\ s.failed \in Nat /\ s.back \in Nat /\ s.acks + s.failed <= a + s.back
  BY DEF Frame, Earned
<1>6. n + failed <= back \/ (n = 1 /\ back = 0 /\ failed = 0 /\ a + 1 <= b)
  <2>1. ASSUME NEW r \in Elsewhere(s), r \in rs, s.heard[r] = 0 PROVE a + 1 <= b
    <3>1. r \in Radios
      BY DEF Elsewhere
    <3>2. t.heard[r] > 0
      BY <1>3, <2>1, <3>1
    <3> QED
      BY <1>1, <1>3, <2>1, <3>2, AnsweredGrows
  <2> QED
    BY <2>1
<1>7. t.acks + t.failed <= b + t.back
  <2> HIDE DEF a, b
  <2>1. s.acks + n + (s.failed + failed) <= b + (s.back + back)
    BY <1>4, <1>5, <1>6
  <2> QED
    BY <1>1, <2>1
<1> QED
  BY <1>7 DEF Earned

LEMMA AcksWhenChanged ==
  ASSUME Types, AckInv, NEW id \in Ids, NEW at, NEW back \in Nat, NEW failed \in Nat, NEW n \in Nat,
         NEW rs, Changed(id, at, back, failed, n, rs),
         \/ n + failed <= back
         \/ /\ n = 1 /\ back = 0 /\ failed = 0
            /\ \E r \in Elsewhere(skb[id]) : r \in rs /\ skb[id].heard[r] = 0
  PROVE  AckInv'
<1>1. Ids' = Ids /\ skb[id] \in Frame
  BY FramesAre DEF Changed, Ids
<1>2. Became(skb[id], skb'[id], at, back, failed, n, rs) /\ Earned(skb[id])
  BY DEF Changed, AckInv
<1>3. Earned(skb'[id])
  BY <1>1, <1>2, EarnedKept
<1>4. \A j \in Ids \ {id} : Earned(skb'[j])
  BY DEF Changed, AckInv
<1> QED
  BY <1>1, <1>3, <1>4 DEF AckInv

LEMMA AcksWhenQueued ==
  ASSUME Types, AckInv, NEW id \in Ids, Queued(id)
  PROVE  AckInv'
<1>1. Ids' = Ids
  BY FramesAre DEF Queued, Ids
<1>2. ASSUME NEW j \in Ids PROVE Earned(skb'[j])
  <2>1. skb[j] \in Frame /\ Earned(skb[j])
    BY FramesAre DEF AckInv
  <2>2. \/ skb'[j] = skb[j]
        \/ \E at : \E back \in {0, 1} : Became(skb[j], skb'[j], at, back, 0, 0, {})
    BY DEF Queued
  <2> QED
    BY <2>1, <2>2, EarnedKept
<1> QED
  BY <1>1, <1>2 DEF AckInv

(* The radio that acknowledges an injected frame had not heard it.         *)
LEMMA AcksWhenInjected ==
  ASSUME Types, Crossing, AckInv, NEW v \in VMs, Injected(v)
  PROVE  AckInv'
<1> DEFINE m == Head(wire[v])
           n == Cardinality(addr_match(v, skb[m.id].to))
<1>1. m \in Message /\ m.id \in Ids /\ wire[v] \in Seq(Message) /\ wire[v] # <<>> /\ ~m.ack
  BY HeadOnWire DEF Injected
<1>2. Changed(m.id, skb[m.id].at, 0, 0, n, RadiosOf(v))
  BY DEF Injected
<1>3. Unheard(v, m)
  BY <1>1, OnceTail DEF Crossing
<1>4. \/ n = 0
      \/ n = 1 /\ \E r \in Radios : VM(r) = v /\ AddrOf(r) = skb[m.id].to
  BY OneAnswers
<1> HIDE DEF m, n
<1>5. ASSUME NEW r \in Radios, VM(r) = v, AddrOf(r) = skb[m.id].to
      PROVE  r \in Elsewhere(skb[m.id]) /\ r \in RadiosOf(v) /\ skb[m.id].heard[r] = 0
  BY <1>3, <1>5 DEF Unheard, Elsewhere, RadiosOf
<1>6. \/ n + 0 <= 0
      \/ /\ n = 1 /\ 0 = 0 /\ 0 = 0
         /\ \E r \in Elsewhere(skb[m.id]) : r \in RadiosOf(v) /\ skb[m.id].heard[r] = 0
  BY <1>4, <1>5
<1>7. n \in Nat
  BY <1>4
<1> QED
  BY <1>1, <1>2, <1>6, <1>7, AcksWhenChanged

LEMMA KeepsAcks == Types /\ Types' /\ Crossing /\ AckInv /\ Step => AckInv'
<1> SUFFICES ASSUME Types, Types', Crossing, AckInv, Step PROVE AckInv'
  OBVIOUS
<1>1. CASE Quiet
  BY <1>1 DEF Quiet, AckInv, Ids
<1>2. ASSUME NEW s, New(s) PROVE AckInv'
  <2>1. /\ \A j \in Ids : skb'[j] = skb[j]
        /\ \A j \in Ids' \ Ids : skb'[j] = s
    BY <1>2, FramesAre DEF New, Ids, Types
  <2>2. s.acks = 0 /\ s.failed = 0 /\ s.back \in Nat
    BY <1>2 DEF New, Frame
  <2>3. Earned(s)
    BY <2>2, AnsweredFinite DEF Earned
  <2> QED
    BY <2>1, <2>3 DEF AckInv
<1>3. ASSUME NEW id \in Ids, Captured(id) PROVE AckInv'
  <2>1. PICK n \in {0, 1} : Changed(id, "air", n, n, 0, {})
    BY <1>3 DEF Captured
  <2> QED
    BY <2>1, AcksWhenChanged
<1>4. ASSUME NEW id \in Ids, Aired(id) PROVE AckInv'
  <2>1. PICK n \in {0, 1}, rs \in SUBSET RadiosOf(VM(skb[id].radio)) :
          Changed(id, "left", 1, 0, n, rs)
    BY <1>4 DEF Aired
  <2> QED
    BY <2>1, AcksWhenChanged
<1>5. ASSUME NEW v \in VMs, NEW id \in Ids, Answers(v, id) PROVE AckInv'
  <2>1. PICK n \in {0, 1} : Changed(id, skb[id].at, 1, 0, n, {})
    BY <1>5 DEF Answers
  <2> QED
    BY <2>1, AcksWhenChanged
<1>6. ASSUME NEW id \in Ids, NEW r \in Radios, Cloned(id, r) PROVE AckInv'
  <2>1. Changed(id, skb[id].at, 0, 0, 0, {r})
    BY <1>6 DEF Cloned
  <2> QED
    BY <2>1, AcksWhenChanged
<1> QED
  BY <1>1, <1>2, <1>3, <1>4, <1>5, <1>6, AcksWhenQueued, AcksWhenInjected DEF Step

(* A frame draws at most one acknowledgement from each radio elsewhere     *)
(* that has its address, and one of its own VM.                            *)
THEOREM AcksDoNotBreed == Spec => []AcksBounded
<1>1. Init => Accounted /\ Crossing /\ AckInv
  <2>1. Init => Ids = {}
    BY DEF Init, Ids
  <2> QED
    BY <2>1, InitAccounted, InitCrossing DEF AckInv
<1>2. (Accounted /\ Crossing /\ AckInv) /\ [Next]_vars => (Accounted /\ Crossing /\ AckInv)'
  BY StepKeepsAccounted, KeepsCrossing, KeepsAcks, Steps DEF Accounted
<1>3. Accounted /\ AckInv => AcksBounded
  <2> SUFFICES ASSUME Accounted, AckInv, NEW id \in Ids
               PROVE  skb[id].acks <= 1 + Cardinality(Elsewhere(skb[id]))
    BY DEF AcksBounded, Elsewhere
  <2> DEFINE s == skb[id]
  <2>1. s.acks \in Nat /\ s.failed \in Nat /\ s.back \in Nat
    BY FramesAre DEF Accounted, Frame
  <2>2. s.acks + s.failed <= Cardinality(Answered(s)) + s.back
    BY DEF AckInv, Earned
  <2>3. s.back <= s.failed + 1
    BY <2>1 DEF Accounted, Held
  <2> HIDE DEF s
  <2>4. s.acks <= 1 + Cardinality(Elsewhere(s))
    BY <2>1, <2>2, <2>3, AnsweredFinite
  <2> QED
    BY <2>4 DEF s
<1> QED
  BY <1>1, <1>2, <1>3, PTL DEF Spec
=============================================================================
