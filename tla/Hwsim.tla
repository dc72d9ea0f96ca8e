------------------------------- MODULE Hwsim -------------------------------
(***************************************************************************)
(* The simulated radios (mac80211_hwsim.c) of several VMs.  A frame that   *)
(* mac80211 transmits is copied to the monitor interface of its VM and to  *)
(* the other radios of the VM; what shows on the monitor is injected on    *)
(* the monitors of the other VMs (by cross_injector and bcaster, here one  *)
(* queue per VM), where every radio hears it and the radio it is meant for *)
(* acknowledges it.  A program may register to get the frames by netlink:  *)
(* cross_injector -n, which captures copies, or, with the driver of clfsx, *)
(* a medium of its own that takes the frames over and answers for them.    *)
(***************************************************************************)
EXTENDS Naturals, Sequences, FiniteSets, SequencesExt

CONSTANTS VMs, Radios, VM(_),      \* the VM a radio is in
          Addrs, AddrOf(_),        \* the address of a radio
          Channels,
          Diverting,               \* VMs with the driver of clfsx
          None,
          MAX_QUEUE, WARN_QUEUE,   \* 200 and 100 in the code
          Tunable,                 \* bound: the radios user space starts, stops and tunes
          MaxTx,                   \* bound: frames transmitted
          MaxCalls                 \* bound: calls that change a radio, a monitor or a listener

ASSUME HwsimAssumption ==
  /\ \A r \in Radios : VM(r) \in VMs /\ AddrOf(r) \in Addrs
  /\ \A r, q \in Radios : r # q /\ VM(r) = VM(q) => AddrOf(r) # AddrOf(q)
  /\ IsFiniteSet(Radios) /\ Diverting \subseteq VMs /\ Tunable \subseteq Radios
  /\ {MAX_QUEUE, WARN_QUEUE, MaxTx, MaxCalls} \subseteq Nat
  /\ 0 < WARN_QUEUE /\ WARN_QUEUE <= MAX_QUEUE

VARIABLES radio,   \* mac80211_hwsim_data of every radio
          skb,     \* the frames transmitted so far, in that order, and where each one is
          mon,     \* the VMs whose monitor interface is up
          wire,    \* per VM: what the other VMs' monitors showed, waiting to be injected
          net,     \* per VM: the program registered, whether it still runs, the frames it has
          calls    \* calls made so far (bound)

vars == <<radio, skb, mon, wire, net, calls>>

RadiosOf(v) == {r \in Radios : VM(r) = v}
Ids         == DOMAIN skb

TypeOK ==
  /\ radio \in [Radios -> [started: BOOLEAN, idle: BOOLEAN, channel: Channels,
                           wmediumd: BOOLEAN, pending: Seq(1..MaxTx),
                           armed: BOOLEAN, callback: BOOLEAN, overlap: BOOLEAN,
                           bcn_en: BOOLEAN, beacon_int: BOOLEAN,
                           call: {"none", "stop", "disable", "config"}]]
  /\ skb \in Seq([radio: Radios, beacon: BOOLEAN, to: Addrs \cup {None}, chan: Channels,
                  portid: BOOLEAN, at: {"tx", "air", "left"},
                  back: Nat, failed: Nat, acks: Nat, heard: [Radios -> Nat]])
  /\ mon \subseteq VMs
  /\ wire \in [VMs -> Seq([id: 1..MaxTx, ack: BOOLEAN])]
  /\ net \in [VMs -> [wmediumd: BOOLEAN, runs: BOOLEAN, has: SUBSET (1..MaxTx)]]
  /\ calls \in 0..MaxCalls

(* The VMs as the start scripts leave them: radios up on one channel, the  *)
(* monitors up, nobody registered.                                         *)
Init ==
  /\ \E c \in Channels :
       radio = [r \in Radios |->
                  [started |-> TRUE, idle |-> FALSE, channel |-> c, wmediumd |-> FALSE,
                   pending |-> <<>>, armed |-> FALSE, callback |-> FALSE, overlap |-> FALSE,
                   bcn_en |-> FALSE, beacon_int |-> FALSE, call |-> "none"]]
  /\ skb = <<>> /\ mon = VMs
  /\ wire = [v \in VMs |-> <<>>]
  /\ net = [v \in VMs |-> [wmediumd |-> FALSE, runs |-> FALSE, has |-> {}]]
  /\ calls = 0

----------------------------------------------------------------------------
(* mac80211_hwsim_monitor_rx and mac80211_hwsim_monitor_ack: n messages on *)
(* the monitor of v, which the other VMs will inject.                      *)
Shown(w, v, m, n) ==
  IF v \notin mon THEN w
  ELSE [u \in VMs |-> IF u = v THEN w[u] ELSE w[u] \o [i \in 1..n |-> m]]

Acks(w, v, id, n) == Shown(w, v, [id |-> id, ack |-> TRUE], n)

(* The radios that answer to an address (mac80211_hwsim_addr_match).       *)
addr_match(v, a) == {r \in RadiosOf(v) : radio[r].started /\ AddrOf(r) = a}

Heard(s, rs) == [s EXCEPT !.heard = [r \in Radios |-> @[r] + IF r \in rs THEN 1 ELSE 0]]
GivenBack(s) == [s EXCEPT !.at = "left", !.back = @ + 1]

(* mac80211_hwsim_tx_frame_no_nl: the radios of the VM tuned to the frame. *)
Tuned(s) ==
  {r \in RadiosOf(VM(s.radio)) \ {s.radio} :
     radio[r].started /\ ~radio[r].idle /\ radio[r].channel = s.chan}

NewSkb(r, beacon, to, at, back) ==
  [radio |-> r, beacon |-> beacon, to |-> to, chan |-> radio[r].channel,
   portid |-> radio[r].wmediumd, at |-> at, back |-> back, failed |-> 0, acks |-> 0,
   heard |-> [q \in Radios |-> 0]]

NextId == Len(skb) + 1

(* The frame shows on the monitor, and whether somebody is registered is   *)
(* read; what follows goes by that value.                                  *)
Enters(r, beacon, to) ==
  /\ NextId <= MaxTx
  /\ skb'  = Append(skb, NewSkb(r, beacon, to, "tx", 0))
  /\ wire' = Shown(wire, VM(r), [id |-> NextId, ack |-> FALSE], 1)

mac80211_hwsim_tx(r, to) ==
  /\ radio[r].started /\ to # AddrOf(r)
  /\ IF radio[r].idle
     THEN /\ NextId <= MaxTx
          /\ skb' = Append(skb, NewSkb(r, FALSE, to, "left", 1))
          /\ UNCHANGED wire
     ELSE Enters(r, FALSE, to)
  /\ UNCHANGED <<radio, mon, net, calls>>

(* Whether a data frame is only captured or taken over by the program.     *)
TakenOver(s)   == s.beacon \/ VM(s.radio) \in Diverting
Registered(id) == skb[id].at = "tx" /\ skb[id].portid

(* mac80211_hwsim_cap_frame_nl, before the frame goes on the air.  When    *)
(* netlink refuses the message the frame is freed, and used all the same.  *)
cap_frame_nl(id) ==
  LET v == VM(skb[id].radio)
  IN  /\ Registered(id) /\ ~TakenOver(skb[id])
      /\ \/ /\ net[v].runs
            /\ net' = [net EXCEPT ![v].has = @ \cup {id}]
            /\ skb' = [skb EXCEPT ![id].at = "air"]
         \/ /\ skb' = [skb EXCEPT ![id].at = "air", ![id].back = @ + 1, ![id].failed = @ + 1]
            /\ UNCHANGED net
      /\ UNCHANGED <<radio, mon, wire, calls>>

(* mac80211_hwsim_tx_frame_nl: the oldest frames make room, and this one   *)
(* waits for the answer of the program unless netlink refuses it.          *)
Dropped(r) ==
  LET n == Len(radio[r].pending)
  IN  IF n < MAX_QUEUE THEN <<>> ELSE SubSeq(radio[r].pending, 1, n + 1 - WARN_QUEUE)

Cleared(dropped) ==
  [i \in Ids |-> IF i \in ToSet(dropped) THEN [skb[i] EXCEPT !.back = @ + 1] ELSE skb[i]]

\* Mutant: a frame that was taken over goes on the air as well.
FallsThrough(id) ==
  LET r == skb[id].radio
      v == VM(r)
  IN  /\ Registered(id) /\ TakenOver(skb[id]) /\ net[v].runs
      /\ net'   = [net EXCEPT ![v].has = @ \cup {id}]
      /\ skb'   = [skb EXCEPT ![id].at = "air"]
      /\ radio' = [radio EXCEPT ![r].pending = Append(@, id)]
      /\ UNCHANGED <<mon, wire, calls>>

tx_frame_nl(id) ==
  LET r == skb[id].radio
      v == VM(r)
      old == Dropped(r)
      kept == SubSeq(radio[r].pending, Len(old) + 1, Len(radio[r].pending))
  IN  /\ Registered(id) /\ TakenOver(skb[id])
      /\ \/ /\ net[v].runs
            /\ net'   = [net EXCEPT ![v].has = @ \cup {id}]
            /\ skb'   = [Cleared(old) EXCEPT ![id].at = "left"]
            /\ radio' = [radio EXCEPT ![r].pending = Append(kept, id)]
         \/ /\ skb'   = [Cleared(old) EXCEPT ![id] = GivenBack(@)]
            /\ radio' = [radio EXCEPT ![r].pending = kept]
            /\ UNCHANGED net
      /\ UNCHANGED <<mon, wire, calls>>

(* On the air of the VM.  Every data frame counts as acknowledged.         *)
OnAir(id) ==
  LET s == skb[id]
      n == IF s.beacon THEN 0 ELSE 1
  IN  /\ s.at = "air" \/ (s.at = "tx" /\ ~s.portid)
      /\ skb'  = [skb EXCEPT ![id] = [Heard(GivenBack(s), Tuned(s)) EXCEPT !.acks = @ + n]]
      /\ wire' = Acks(wire, VM(s.radio), id, n)
      /\ UNCHANGED <<radio, mon, net, calls>>

----------------------------------------------------------------------------
\* Mutant: what is injected shows on the monitor it is injected on.
InjectionEchoed(v) ==
  LET m == Head(wire[v])
  IN  /\ wire[v] # <<>>
      /\ ~m.ack /\ v \in mon
      /\ skb' = [skb EXCEPT ![m.id] = Heard(@, RadiosOf(v))]
      /\ wire' = Shown([wire EXCEPT ![v] = Tail(@)], v, m, 1)
      /\ UNCHANGED <<radio, mon, net, calls>>

\* Mutant: every radio acknowledges what is injected.
AckFromEachRadio(v) ==
  LET m == Head(wire[v])
      n == Cardinality(RadiosOf(v))
  IN  /\ wire[v] # <<>>
      /\ ~m.ack /\ v \in mon
      /\ skb' = [skb EXCEPT ![m.id] = [Heard(skb[m.id], RadiosOf(v)) EXCEPT !.acks = @ + n]]
      /\ wire' = Acks([wire EXCEPT ![v] = Tail(@)], v, m.id, n)
      /\ UNCHANGED <<radio, mon, net, calls>>

(* hwsim_mon_xmit: every radio of the VM hears the frame, whatever it is   *)
(* tuned to, and those it is meant for acknowledge it on this monitor; an  *)
(* acknowledgement is not acknowledged.  On an interface that is down      *)
(* nothing can be injected.                                                *)
hwsim_mon_xmit(v) ==
  LET m == Head(wire[v])
      n == Cardinality(addr_match(v, skb[m.id].to))
  IN  /\ wire[v] # <<>>
      /\ IF m.ack \/ v \notin mon
         THEN /\ wire' = [wire EXCEPT ![v] = Tail(@)]
              /\ UNCHANGED skb
         ELSE /\ skb' = [skb EXCEPT ![m.id] = [Heard(skb[m.id], RadiosOf(v)) EXCEPT !.acks = @ + n]]
              /\ wire' = Acks([wire EXCEPT ![v] = Tail(@)], v, m.id, n)
      /\ UNCHANGED <<radio, mon, net, calls>>

----------------------------------------------------------------------------
(* mac80211_hwsim_start and the call of mac80211_hwsim_config after it.    *)
Call == calls < MaxCalls /\ calls' = calls + 1

Set(r, rec) == radio' = [radio EXCEPT ![r] = rec]

(* tasklet_hrtimer_cancel: the timer is taken off, then the call waits for *)
(* a callback that runs, which may arm the timer again before it ends.     *)
cancel(rec, call) == [rec EXCEPT !.armed = FALSE, !.overlap = rec.callback, !.call = call]

CallEnds(r) ==
  /\ radio[r].call # "none" /\ ~radio[r].callback
  /\ Set(r, [radio[r] EXCEPT !.call = "none",
                             !.beacon_int = @ /\ radio[r].call # "disable"])
  /\ UNCHANGED <<skb, mon, wire, net, calls>>

config(rec, idle, c) ==
  LET tuned == [rec EXCEPT !.idle = idle, !.channel = c]
  IN  IF ~rec.started \/ ~rec.beacon_int THEN cancel(tuned, "config")
      ELSE [tuned EXCEPT !.armed = TRUE]

mac80211_hwsim_config(r) ==
  /\ Call /\ radio[r].started /\ radio[r].call = "none"
  /\ \E idle \in BOOLEAN, c \in Channels : Set(r, config(radio[r], idle, c))
  /\ UNCHANGED <<skb, mon, wire, net>>

mac80211_hwsim_start(r) ==
  /\ Call /\ ~radio[r].started /\ radio[r].call = "none"
  /\ Set(r, config([radio[r] EXCEPT !.started = TRUE], TRUE, radio[r].channel))
  /\ UNCHANGED <<skb, mon, wire, net>>

(* mac80211 stops a radio once its AP has stopped beaconing.               *)
mac80211_hwsim_stop(r) ==
  /\ Call /\ radio[r].started /\ radio[r].call = "none" /\ ~radio[r].bcn_en
  /\ Set(r, cancel([radio[r] EXCEPT !.started = FALSE], "stop"))
  /\ UNCHANGED <<skb, mon, wire, net>>

\* Mutant: the interval is forgotten, the timer is not.
OnlyInterval(rec, enable) ==
  IF enable THEN [rec EXCEPT !.bcn_en = TRUE, !.beacon_int = TRUE, !.armed = TRUE]
  ELSE [rec EXCEPT !.bcn_en = FALSE, !.beacon_int = FALSE]

(* The interval is taken only when the timer is not armed already.         *)
BeaconEnabled(rec, enable) ==
  IF ~enable THEN cancel([rec EXCEPT !.bcn_en = FALSE], "disable")
  ELSE [rec EXCEPT !.bcn_en = TRUE, !.armed = TRUE, !.beacon_int = @ \/ ~rec.armed]

mac80211_hwsim_bss_info_changed(r) ==
  /\ Call /\ radio[r].started /\ radio[r].call = "none"
  /\ Set(r, BeaconEnabled(radio[r], ~radio[r].bcn_en))
  /\ UNCHANGED <<skb, mon, wire, net>>

(* mac80211_hwsim_beacon, a tasklet: it sends the beacon, if there is one, *)
(* and arms the timer again.  A radio that was stopped lets it be.         *)
BeaconDue(r) ==
  /\ radio[r].armed /\ ~radio[r].callback
  /\ Set(r, [radio[r] EXCEPT !.armed = FALSE, !.callback = radio[r].started])
  /\ IF radio[r].started /\ radio[r].bcn_en THEN Enters(r, TRUE, None)
     ELSE UNCHANGED <<skb, wire>>
  /\ UNCHANGED <<mon, net, calls>>

BeaconDone(r) ==
  /\ radio[r].callback
  /\ \A id \in Ids : skb[id].radio = r /\ skb[id].beacon => skb[id].at = "left"
  /\ Set(r, [radio[r] EXCEPT !.callback = FALSE, !.armed = TRUE])
  /\ UNCHANGED <<skb, mon, wire, net, calls>>

(* ifconfig hwsim0 up or down.                                             *)
MonitorToggles(v) ==
  /\ Call
  /\ mon' = IF v \in mon THEN mon \ {v} ELSE mon \cup {v}
  /\ UNCHANGED <<radio, skb, wire, net>>

----------------------------------------------------------------------------
(* hwsim_register_wmediumd tells every radio of the VM.                    *)
register_wmediumd(v, on) ==
  radio' = [r \in Radios |-> IF VM(r) = v THEN [radio[r] EXCEPT !.wmediumd = on] ELSE radio[r]]

(* HWSIM_CMD_REGISTER, refused while somebody else is registered.          *)
register_received(v) ==
  /\ Call /\ ~net[v].wmediumd
  /\ net' = [net EXCEPT ![v] = [wmediumd |-> TRUE, runs |-> TRUE, has |-> {}]]
  /\ register_wmediumd(v, TRUE)
  /\ UNCHANGED <<skb, mon, wire>>

(* The program ends: first its socket refuses frames, later the driver     *)
(* hears of it.  Frames that wait for an answer stay where they are.       *)
ProgramEnds(v) ==
  /\ net[v].runs
  /\ net' = [net EXCEPT ![v].runs = FALSE, ![v].has = {}]
  /\ UNCHANGED <<radio, skb, mon, wire, calls>>

netlink_notify(v) ==
  /\ net[v].wmediumd /\ ~net[v].runs
  /\ net' = [net EXCEPT ![v].wmediumd = FALSE]
  /\ register_wmediumd(v, FALSE)
  /\ UNCHANGED <<skb, mon, wire, calls>>

(* HWSIM_CMD_TX_INFO_FRAME: the medium answers for a frame it has, acked   *)
(* or not, once or more often; only a frame that still waits is given      *)
(* back.  cross_injector -n never answers.                                 *)
tx_info_received(v, id, acked) ==
  LET r == skb[id].radio
      n == IF acked THEN 1 ELSE 0
  IN  /\ v \in Diverting /\ id \in net[v].has
      /\ \E i \in DOMAIN radio[r].pending :
           /\ radio[r].pending[i] = id
           /\ radio' = [radio EXCEPT ![r].pending = RemoveAt(@, i)]
      /\ skb'   = [skb EXCEPT ![id].back = @ + 1, ![id].acks = @ + n]
      /\ wire'  = Acks(wire, v, id, n)
      /\ UNCHANGED <<mon, net, calls>>

(* HWSIM_CMD_FRAME from the medium: one radio is to hear a frame.          *)
cloned_frame_received(v, id, r) ==
  /\ v \in Diverting /\ VM(r) = v /\ id \in net[v].has
  /\ r # skb[id].radio /\ skb[id].heard[r] = 0
  /\ radio[r].wmediumd /\ radio[r].started /\ ~radio[r].idle
  /\ radio[r].channel = skb[id].chan
  /\ skb' = [skb EXCEPT ![id] = Heard(@, {r})]
  /\ UNCHANGED <<radio, mon, wire, net, calls>>

----------------------------------------------------------------------------
Next ==
  \/ \E r \in Radios, to \in Addrs : mac80211_hwsim_tx(r, to)
  \/ \E r \in Tunable : \/ mac80211_hwsim_start(r) \/ mac80211_hwsim_stop(r)
                        \/ mac80211_hwsim_config(r) \/ mac80211_hwsim_bss_info_changed(r)
                        \/ CallEnds(r) \/ BeaconDue(r) \/ BeaconDone(r)
  \/ \E id \in Ids : cap_frame_nl(id) \/ tx_frame_nl(id) \/ OnAir(id)
  \/ \E v \in VMs : \/ hwsim_mon_xmit(v) \/ MonitorToggles(v)
                    \/ register_received(v) \/ ProgramEnds(v) \/ netlink_notify(v)
                    \/ \E id \in Ids : \/ \E acked \in BOOLEAN : tx_info_received(v, id, acked)
                                       \/ \E r \in Radios : cloned_frame_received(v, id, r)

Spec == Init /\ [][Next]_vars

----------------------------------------------------------------------------
(* mac80211 gets every frame back exactly once, or the driver still holds  *)
(* it in one place, on its way or waiting for an answer, whatever order    *)
(* sending, dropping, answering and the end of the program come in; the    *)
(* one exception is a capture netlink refused, which frees a frame that is *)
(* sent, and given back, all the same.                                     *)
SkbAccounted ==
  \A id \in Ids :
    LET holders == {r \in Radios : id \in ToSet(radio[r].pending)}
    IN  /\ holders \subseteq {skb[id].radio}
        /\ holders # {} => skb[id].at = "left"
        /\ skb[id].back = skb[id].failed
                            + IF skb[id].at = "left" /\ holders = {} THEN 1 ELSE 0

(* No radio hears a frame twice, by air, by injection and by netlink       *)
(* together, and none hears its own: nothing that comes from another VM    *)
(* goes back there.                                                        *)
HeardOnce ==
  \A id \in Ids : \A r \in Radios :
    skb[id].heard[r] <= IF r = skb[id].radio THEN 0 ELSE 1

(* A frame draws no more acknowledgements than there are radios elsewhere  *)
(* with its address, and the one its own VM makes up: acknowledgements do  *)
(* not breed while they cross between the VMs.                             *)
AcksBounded ==
  \A id \in Ids :
    LET s == skb[id]
    IN  s.acks <= 1 + Cardinality({r \in Radios : VM(r) # VM(s.radio) /\ AddrOf(r) = s.to})

(* Between calls a radio that has an interval has its timer armed or its   *)
(* beacon under way, and a timer that is armed has an interval and a radio *)
(* that runs, unless the callback was running when the timer was taken off *)
(* and armed it again behind the call's back.                              *)
BeaconTimerFollowsInterval ==
  \A r \in Radios : radio[r].call = "none" =>
    /\ radio[r].started /\ radio[r].beacon_int => radio[r].armed \/ radio[r].callback
    /\ radio[r].armed => radio[r].overlap \/ (radio[r].started /\ radio[r].beacon_int)
=============================================================================
