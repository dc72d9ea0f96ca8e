-------------------------------- MODULE Mlme --------------------------------
(***************************************************************************)
(* The station side of mac80211 (mlme.c) as the VMs run it over the        *)
(* simulated radio: authentication, association, the watch over the        *)
(* connection and the channel switch an AP announces.  Everything happens  *)
(* under the lock of the interface, in one of five places: a call of user  *)
(* space, the interface work (frames first, then ieee80211_sta_work), one  *)
(* of the other works of the ordered workqueue, or a timer that queues one *)
(* of them.  Times are not counted: a deadline is late once TimePasses has *)
(* said so, and an armed timer may go off at any moment.                   *)
(***************************************************************************)
EXTENDS Naturals, Sequences, SequencesExt

CONSTANTS APs,          \* the access points in the air
          None,         \* a null pointer
          MaxFrames,    \* bound: frames waiting for the interface work
          MaxCalls,     \* bound: calls of user space and scans
          MaxWorks,     \* bound: works queued when a timer still goes off
          Frames,       \* what an AP may send: kinds and, with some, a channel switch
          AUTH_MAX_TRIES, ASSOC_MAX_TRIES,   \* 3 and 3 in the code
          max_probe_tries                    \* a module parameter, 5 unless set

Kinds == {"auth_ok", "auth_denied", "assoc_ok", "assoc_denied", "assoc_comeback",
          "beacon", "probe_resp", "action", "deauth", "disassoc"}

ASSUME MlmeAssumption ==
  /\ None \notin APs \cup [ap: APs, tries: Nat] \cup [ap: APs, tries: Nat, done: BOOLEAN]
  /\ \A f \in Frames : f.ap \in APs /\ f.kind \in Kinds
  /\ MaxFrames \in Nat /\ MaxCalls \in Nat /\ MaxWorks \in Nat
  /\ {AUTH_MAX_TRIES, ASSOC_MAX_TRIES, max_probe_tries} \subseteq Nat \ {0}

VARIABLES sdata,     \* what the lock of the interface protects, and what cfg80211 was told
          workq,     \* the works queued on the ordered workqueue, oldest first
          inWork,    \* the interface work is between its first frame and its end
          skbq,      \* how many management frames wait for the interface work
          running,   \* the interface is up
          scanning,  \* a software scan is under way
          inRange,   \* the APs are heard; once they are not it stays so
          calls      \* calls made so far (bound)

vars == <<sdata, workq, inWork, skbq, running, scanning, inRange, calls>>

Timers    == {"timer", "bcn_mon", "conn_mon", "chswitch"}
Works     == {"iface", "monitor", "bcn_loss", "csa_drop", "chswitch"}
Deadlines == {"auth", "assoc", "probe"}

TypeOK ==
  /\ sdata \in [auth_data: [ap: APs, tries: 0..AUTH_MAX_TRIES, done: BOOLEAN] \cup {None},
                assoc_data: [ap: APs, tries: 0..ASSOC_MAX_TRIES] \cup {None},
                associated: APs \cup {None},
                late: SUBSET Deadlines, timers: SUBSET Timers,
                poll: BOOLEAN, probe_send_count: 0..max_probe_tries,
                csa_active: BOOLEAN, csa_block_tx: BOOLEAN, csa_waiting_bcn: BOOLEAN,
                reserved: BOOLEAN, switched: BOOLEAN, stopped: BOOLEAN,
                sta: SUBSET APs, leaked: SUBSET APs, chan: BOOLEAN,
                cfg: [auth: APs \cup {None}, assoc: APs \cup {None}, conn: APs \cup {None}]]
  /\ workq \in Seq(Works)
  /\ skbq \in 0..MaxFrames
  /\ {inWork, running, scanning, inRange} \subseteq BOOLEAN
  /\ calls \in 0..MaxCalls

NoReports == [auth |-> None, assoc |-> None, conn |-> None]

(* ieee80211_sta_setup_sdata: nothing armed, nothing known.                *)
Init ==
  /\ sdata = [auth_data |-> None, assoc_data |-> None, associated |-> None,
              late |-> {}, timers |-> {}, poll |-> FALSE, probe_send_count |-> 0,
              csa_active |-> FALSE, csa_block_tx |-> FALSE, csa_waiting_bcn |-> FALSE,
              reserved |-> FALSE, switched |-> FALSE, stopped |-> FALSE,
              sta |-> {}, leaked |-> {}, chan |-> FALSE, cfg |-> NoReports]
  /\ workq = <<>> /\ skbq = 0
  /\ inWork = FALSE /\ running = TRUE /\ scanning = FALSE /\ inRange = TRUE
  /\ calls = 0

----------------------------------------------------------------------------
(* ieee80211_queue_work: a work that is queued already stays where it is.  *)
Queued(q, w) == IF w \in ToSet(q) THEN q ELSE Append(q, w)

run_again(s)            == [s EXCEPT !.timers = @ \cup {"timer"}]
reset_beacon_monitor(s) == [s EXCEPT !.timers = @ \cup {"bcn_mon"}]
reset_conn_monitor(s)   == IF s.associated = None THEN s
                           ELSE [s EXCEPT !.timers = @ \cup {"conn_mon"}, !.probe_send_count = 0]

stop_poll(s) == [s EXCEPT !.poll = FALSE, !.late = @ \ {"probe"}]

\* Mutant: the monitors are not armed again.
ApProbeOnlyEnds(s) == stop_poll(s)

(* The probe was answered: watch beacons and frames again.                 *)
reset_ap_probe(s) ==
  IF ~s.poll THEN s
  ELSE [reset_beacon_monitor(stop_poll(s)) EXCEPT !.timers = @ \cup {"conn_mon"}]

mgd_probe_ap_send(s) ==
  run_again([s EXCEPT !.probe_send_count = @ + 1, !.late = @ \ {"probe"}])

WakeQueues(s) == [s EXCEPT !.stopped = @ /\ ~s.csa_block_tx, !.csa_block_tx = FALSE]

(* ieee80211_vif_release_channel, which gives up a reservation as well.    *)
ReleaseChannel(s) == [s EXCEPT !.chan = FALSE, !.reserved = FALSE, !.switched = FALSE]

\* Mutant: a channel switch outlives its connection.
DisassocKeepsSwitch(s) ==
  ReleaseChannel([s EXCEPT !.associated = None, !.poll = FALSE, !.late = {}, !.sta = {},
                           !.leaked = {}, !.timers = {}])

set_disassoc(s) ==
  WakeQueues(ReleaseChannel(
    [s EXCEPT !.associated = None, !.poll = FALSE, !.late = {}, !.sta = {}, !.leaked = {},
              !.timers = {}, !.csa_active = FALSE, !.csa_waiting_bcn = FALSE]))

(* Give up an attempt: timer, station entry, flags and channel.            *)
GiveUp(s, ap) ==
  ReleaseChannel([s EXCEPT !.timers = @ \ {"timer"}, !.sta = @ \ {ap}, !.leaked = @ \ {ap},
                           !.poll = FALSE])

destroy_auth_data(s, assoc) ==
  [(IF assoc THEN s ELSE GiveUp(s, s.auth_data.ap))
     EXCEPT !.auth_data = None, !.late = @ \ {"auth"}]

\* Mutant: only the attempt is forgotten.
AssocDataOnly(s, assoc) ==
  [s EXCEPT !.assoc_data = None, !.late = @ \ {"assoc"},
            !.timers = IF assoc THEN @ ELSE @ \ {"timer"}]

destroy_assoc_data(s, assoc) ==
  [(IF assoc THEN s ELSE GiveUp(s, s.assoc_data.ap))
     EXCEPT !.assoc_data = None, !.late = @ \ {"assoc"}]

(* What cfg80211 is told, and what it concludes.                           *)
Answered(s, what)           == [s EXCEPT !.cfg[what] = None]
report_disconnect(s, ap)    == [s EXCEPT !.cfg = [w \in DOMAIN @ |-> IF @[w] = ap THEN None ELSE @[w]]]
Disconnect(s)               == report_disconnect(set_disassoc(s), s.associated)

Auth(ap)  == [ap |-> ap, tries |-> 0, done |-> FALSE]
Assoc(ap) == [ap |-> ap, tries |-> 0]

(* ieee80211_auth, ieee80211_do_assoc: one more try.                       *)
ieee80211_auth(s) ==
  run_again([s EXCEPT !.auth_data.tries = @ + 1, !.late = @ \ {"auth"}])

\* Mutant: the timer is left to whoever armed it before.
DoAssocUntimed(s) ==
  [s EXCEPT !.assoc_data.tries = @ + 1, !.late = @ \ {"assoc"}]

ieee80211_do_assoc(s) ==
  run_again([s EXCEPT !.assoc_data.tries = @ + 1, !.late = @ \ {"assoc"}])

----------------------------------------------------------------------------
(* The channel switch an AP announces.  A switch is [count, block]; Bad is *)
(* one that cannot be parsed or leads to a channel the radio lacks.        *)
Bad == [count |-> 0, block |-> FALSE]

CsaStarted(s, csa, ok) ==
  [s EXCEPT !.csa_active = TRUE, !.csa_block_tx = csa.block,
            !.reserved = ok, !.switched = @ /\ ~ok, !.stopped = @ \/ (ok /\ csa.block),
            !.timers = IF ok /\ csa.count > 1 THEN @ \cup {"chswitch"} ELSE @]

CsaIgnored(s) == s.associated = None \/ scanning \/ s.csa_active

(* What ieee80211_sta_process_chanswitch leaves behind, with and without   *)
(* success in reserving a channel context: the interface, the workqueue.   *)
ProcessChanswitch(s, q, csa) ==
  IF CsaIgnored(s) THEN {<<s, q>>}
  ELSE IF csa = Bad THEN {<<s, Queued(q, "csa_drop")>>}
  ELSE {<<CsaStarted(s, csa, TRUE), IF csa.count > 1 THEN q ELSE Queued(q, "chswitch")>>,
        <<CsaStarted(s, csa, FALSE), Queued(q, "csa_drop")>>}

(* The first beacon on the new channel ends the switch.                    *)
chswitch_post_beacon(s) ==
  [WakeQueues(s) EXCEPT !.csa_active = FALSE, !.csa_waiting_bcn = FALSE]

chswitch_work(s, q) ==
  IF ~running \/ s.associated = None \/ ~s.csa_active THEN {<<s, q>>}
  ELSE IF s.reserved
  THEN {<<[s EXCEPT !.reserved = FALSE, !.switched = TRUE], Queued(q, "chswitch")>>,
        <<s, Queued(q, "csa_drop")>>}
  ELSE IF ~s.switched THEN {<<s, Queued(q, "csa_drop")>>}
  ELSE {<<reset_conn_monitor(reset_beacon_monitor([s EXCEPT !.csa_waiting_bcn = TRUE])), q>>}

----------------------------------------------------------------------------
(* The works.                                                              *)
mgd_probe_ap(s) ==
  IF ~running \/ s.associated = None \/ scanning \/ s.poll THEN s
  ELSE mgd_probe_ap_send([s EXCEPT !.poll = TRUE, !.probe_send_count = 0])

StaWorkAuth(s) ==
  IF s.auth_data = None THEN s
  ELSE IF "auth" \notin s.late THEN run_again(s)
  ELSE IF s.auth_data.done THEN destroy_auth_data(s, FALSE)
  ELSE IF s.auth_data.tries < AUTH_MAX_TRIES THEN ieee80211_auth(s)
  ELSE Answered(destroy_auth_data(s, FALSE), "auth")

StaWorkAssoc(s) ==
  IF s.assoc_data = None THEN s
  ELSE IF "assoc" \notin s.late THEN run_again(s)
  ELSE IF s.assoc_data.tries < ASSOC_MAX_TRIES THEN ieee80211_do_assoc(s)
  ELSE Answered(destroy_assoc_data(s, FALSE), "assoc")

StaWorkPoll(s) ==
  IF ~s.poll \/ s.associated = None THEN s
  ELSE IF s.probe_send_count = 0 THEN reset_ap_probe(s)
  ELSE IF "probe" \notin s.late THEN run_again(s)
  ELSE IF s.probe_send_count < max_probe_tries THEN mgd_probe_ap_send(s)
  ELSE Disconnect(s)

ieee80211_sta_work(s) == StaWorkPoll(StaWorkAssoc(StaWorkAuth(s)))

(* The interface work starts; it returns at once when the interface is     *)
(* down or away on other channels.                                         *)
IfaceBegins ==
  /\ ~inWork /\ workq # <<>> /\ Head(workq) = "iface"
  /\ workq' = Tail(workq)
  /\ inWork' = (running /\ ~scanning)
  /\ UNCHANGED <<sdata, skbq, running, scanning, inRange, calls>>

StaWork ==
  /\ inWork /\ skbq = 0
  /\ inWork' = FALSE
  /\ sdata' = ieee80211_sta_work(sdata)
  /\ UNCHANGED <<workq, skbq, running, scanning, inRange, calls>>

WorkNext(w) ==
  /\ ~inWork /\ workq # <<>> /\ Head(workq) = w
  /\ UNCHANGED <<inWork, skbq, running, scanning, inRange, calls>>

(* monitor_work and beacon_connection_loss_work both probe the AP.         *)
ProbeWork ==
  /\ WorkNext("monitor") \/ WorkNext("bcn_loss")
  /\ sdata' = mgd_probe_ap(sdata)
  /\ workq' = Tail(workq)

CsaDropWork ==
  /\ WorkNext("csa_drop")
  /\ sdata' = IF sdata.associated = None THEN sdata ELSE Disconnect(sdata)
  /\ workq' = Tail(workq)

ChswitchWork ==
  /\ WorkNext("chswitch")
  /\ \E r \in chswitch_work(sdata, Tail(workq)) : sdata' = r[1] /\ workq' = r[2]

----------------------------------------------------------------------------
(* The timers, which only queue a work.                                    *)
WorkOf(t) == CASE t = "timer"    -> "iface"    [] t = "bcn_mon"  -> "bcn_loss"
               [] t = "conn_mon" -> "monitor"  [] t = "chswitch" -> "chswitch"

(* The monitors keep still while the channel is switched.                  *)
Ignored(t) == t \in {"bcn_mon", "conn_mon"} /\ sdata.csa_active /\ ~sdata.csa_waiting_bcn

TimerFires(t) ==
  /\ t \in sdata.timers /\ Len(workq) < MaxWorks
  /\ sdata' = [sdata EXCEPT !.timers = @ \ {t}]
  /\ workq' = IF Ignored(t) THEN workq ELSE Queued(workq, WorkOf(t))
  /\ UNCHANGED <<inWork, skbq, running, scanning, inRange, calls>>

(* The deadline of an attempt or of a probe passes.                        *)
Pending(d) == CASE d = "auth"  -> sdata.auth_data # None
                [] d = "assoc" -> sdata.assoc_data # None
                [] d = "probe" -> sdata.poll

TimePasses(d) ==
  /\ d \notin sdata.late /\ Pending(d)
  /\ sdata' = [sdata EXCEPT !.late = @ \cup {d}]
  /\ UNCHANGED <<workq, inWork, skbq, running, scanning, inRange, calls>>

----------------------------------------------------------------------------
(* Management frames.                                                      *)
From(f, x)  == x # None /\ x.ap = f.ap
rx_mgmt_auth(s, f) ==
  IF ~From(f, s.auth_data) \/ s.auth_data.done THEN s
  ELSE IF f.kind = "auth_denied" THEN Answered(destroy_auth_data(s, FALSE), "auth")
  ELSE Answered(run_again([s EXCEPT !.auth_data.done = TRUE, !.late = @ \ {"auth"}]), "auth")

\* Mutant: an association that the AP ends is not reported.
DeauthUnreported(s, f) ==
  IF s.associated = f.ap THEN Disconnect(s)
  ELSE IF From(f, s.assoc_data) THEN destroy_assoc_data(s, FALSE)
  ELSE s

rx_mgmt_deauth(s, f) ==
  IF s.associated = f.ap THEN Disconnect(s)
  ELSE IF From(f, s.assoc_data)
  THEN report_disconnect(destroy_assoc_data(s, FALSE), f.ap)
  ELSE s

rx_mgmt_disassoc(s, f) == IF s.associated = f.ap THEN Disconnect(s) ELSE s

(* ieee80211_assoc_success as far as it is not about rates and elements.   *)
set_associated(s, ap) == [stop_poll(s) EXCEPT !.associated = ap]

assoc_success(s, ap) == reset_beacon_monitor(reset_conn_monitor(set_associated(s, ap)))

rx_mgmt_assoc_resp(s, f) ==
  IF ~From(f, s.assoc_data) THEN {s}
  ELSE CASE f.kind = "assoc_comeback" -> {run_again([s EXCEPT !.late = @ \ {"assoc"}]),
                                          [s EXCEPT !.late = @ \ {"assoc"}]}
         [] f.kind = "assoc_denied"   -> {Answered(destroy_assoc_data(s, FALSE), "assoc")}
         [] f.kind = "assoc_ok"       ->
              {[Answered(destroy_assoc_data(assoc_success(s, f.ap), TRUE), "assoc")
                  EXCEPT !.cfg.conn = f.ap],
               Answered(destroy_assoc_data(s, FALSE), "assoc")}

rx_mgmt_probe_resp(s, f) == IF s.associated = f.ap THEN reset_ap_probe(s) ELSE s

(* A beacon like the last one is not looked at further; a change of its    *)
(* bandwidth that cannot be followed ends the connection.                  *)
BeaconHeard(s) ==
  LET heard == reset_beacon_monitor(reset_ap_probe(s))
  IN  IF s.csa_waiting_bcn THEN chswitch_post_beacon(heard) ELSE heard

rx_mgmt_beacon(s, q, f) ==
  IF s.associated # f.ap THEN {<<s, q>>}
  ELSE LET heard == BeaconHeard(s)
           more  == IF f.csa = None THEN {<<heard, q>>} ELSE ProcessChanswitch(heard, q, f.csa)
       IN  {<<heard, q>>} \cup more \cup {<<Disconnect(r[1]), r[2]>> : r \in more}

(* ieee80211_sta_rx_queued_mgmt.                                           *)
Received(s, q, f) ==
  CASE f.kind = "beacon"      -> rx_mgmt_beacon(s, q, f)
    [] f.kind = "action"      -> IF s.associated = f.ap THEN ProcessChanswitch(s, q, f.csa)
                                 ELSE {<<s, q>>}
    [] f.kind \in {"auth_ok", "auth_denied"} -> {<<rx_mgmt_auth(s, f), q>>}
    [] f.kind \in {"assoc_ok", "assoc_denied", "assoc_comeback"} ->
         {<<r, q>> : r \in rx_mgmt_assoc_resp(s, f)}
    [] f.kind = "probe_resp"  -> {<<rx_mgmt_probe_resp(s, f), q>>}
    [] f.kind = "deauth"      -> {<<rx_mgmt_deauth(s, f), q>>}
    [] f.kind = "disassoc"    -> {<<rx_mgmt_disassoc(s, f), q>>}

(* A frame may be anything an AP sent since it was first asked, so that    *)
(* which one it is need not be known before it is looked at: late answers, *)
(* repeated ones and ones to an earlier attempt are among them.            *)
RxFrame ==
  /\ inWork /\ skbq > 0
  /\ skbq' = skbq - 1
  /\ UNCHANGED <<inWork, running, scanning, inRange, calls>>
  /\ \E f \in Frames : \E r \in Received(sdata, workq, f) : sdata' = r[1] /\ workq' = r[2]

(* The receive path queues a management frame for the interface work.      *)
FrameArrives ==
  /\ inRange /\ running /\ skbq < MaxFrames
  /\ skbq' = skbq + 1
  /\ workq' = Queued(workq, "iface")
  /\ UNCHANGED <<sdata, inWork, running, scanning, inRange, calls>>

(* ieee80211_sta_rx_notify: a frame for this station, of any kind.         *)
DataArrives ==
  /\ inRange /\ running /\ sdata.associated # None
  /\ sdata' = reset_conn_monitor(sdata)
  /\ UNCHANGED <<workq, inWork, skbq, running, scanning, inRange, calls>>

GoOutOfRange ==
  /\ inRange /\ inRange' = FALSE
  /\ UNCHANGED <<sdata, workq, inWork, skbq, running, scanning, calls>>

----------------------------------------------------------------------------
(* Calls of user space, which cfg80211 lets through under the same lock.   *)
Call == running /\ calls < MaxCalls /\ calls' = calls + 1

(* ieee80211_restart_sta_timer, when a scan ends or is cancelled.          *)
restart_sta_timer(s) == stop_poll(s)

(* ieee80211_prep_connection has a station entry made, unless there is one *)
(* already, takes the channel and cancels the scan.                        *)
Prepared(s, ap) ==
  LET t == [s EXCEPT !.sta = @ \cup {ap}, !.chan = TRUE]
  IN  IF scanning THEN restart_sta_timer(t) ELSE t

\* Mutant: the connection is not probed after the scan.
ScanCancelledQuietly ==
  scanning' = FALSE /\ UNCHANGED workq

ScanCancelled ==
  /\ scanning' = FALSE
  /\ workq' = IF scanning THEN Queued(workq, "monitor") ELSE workq

Disconnected(s) == IF s.associated = None THEN s ELSE Disconnect(s)

(* The state of ieee80211_mgd_auth when the connection is being prepared.  *)
AuthPrepares(s, ap) ==
  LET freed == IF s.auth_data = None THEN s ELSE destroy_auth_data(s, FALSE)
  IN  Disconnected([freed EXCEPT !.auth_data = Auth(ap)])

mgd_auth(ap) ==
  /\ Call /\ sdata.associated # ap
  /\ sdata.assoc_data = None
  /\ sdata.auth_data # None => sdata.auth_data.done
  /\ LET s == AuthPrepares(sdata, ap)
     IN  \/ /\ ap \notin s.sta
            /\ sdata' = [ieee80211_auth(Prepared(s, ap)) EXCEPT !.cfg.auth = ap]
            /\ ScanCancelled
         \/ \* no reconfiguration may run, and the entry must be new
            /\ sdata' = ReleaseChannel([s EXCEPT !.auth_data = None])
            /\ UNCHANGED <<workq, scanning>>
  /\ UNCHANGED <<inWork, skbq, running, inRange>>

(* The state of ieee80211_mgd_assoc when the connection is being prepared: *)
(* what belongs to the AP one was authenticated with is kept for it.       *)
AssocPrepares(s, ap) ==
  LET t == Disconnected(s)
  IN  IF t.auth_data = None THEN t ELSE destroy_auth_data(t, t.auth_data.ap = ap)

AssocFails(s, ap) == [s EXCEPT !.leaked = s.sta]

mgd_assoc(ap) ==
  /\ Call
  /\ sdata.auth_data # None => sdata.auth_data.done
  /\ sdata.assoc_data = None
  /\ LET s == AssocPrepares(sdata, ap)
     IN  \/ /\ sdata' = [run_again([Prepared(s, ap) EXCEPT !.assoc_data = Assoc(ap)])
                          EXCEPT !.cfg.assoc = ap]
            /\ ScanCancelled
         \/ /\ sdata' = AssocFails(s, ap)
            /\ UNCHANGED <<workq, scanning>>
  /\ UNCHANGED <<inWork, skbq, running, inRange>>

Deauthenticated(s, ap) ==
  IF s.auth_data # None /\ s.auth_data.ap = ap
  THEN report_disconnect(destroy_auth_data(s, FALSE), ap)
  ELSE IF s.assoc_data # None /\ s.assoc_data.ap = ap
  THEN report_disconnect(destroy_assoc_data(s, FALSE), ap)
  ELSE IF s.associated = ap THEN Disconnect(s)
  ELSE s

mgd_deauth(ap) ==
  /\ Call /\ sdata' = Deauthenticated(sdata, ap)
  /\ UNCHANGED <<workq, inWork, skbq, running, scanning, inRange>>

mgd_disassoc(ap) ==
  /\ Call /\ sdata.associated = ap /\ sdata' = Disconnect(sdata)
  /\ UNCHANGED <<workq, inWork, skbq, running, scanning, inRange>>

(* Suspend: attempts are given up and told about, a connection is ended.   *)
Quiesced(s) ==
  LET aps == {x.ap : x \in {s.auth_data, s.assoc_data} \ {None}}
      t   == IF s.assoc_data = None THEN s ELSE destroy_assoc_data(s, FALSE)
      u   == IF t.auth_data = None THEN t ELSE destroy_auth_data(t, FALSE)
      v   == IF aps = {} THEN u ELSE report_disconnect(u, CHOOSE ap \in aps : TRUE)
  IN  IF v.associated = None THEN v ELSE Deauthenticated(v, v.associated)

mgd_quiesce ==
  /\ Call /\ sdata' = Quiesced(sdata)
  /\ UNCHANGED <<workq, inWork, skbq, running, scanning, inRange>>

(* The interface goes down: cfg80211 ends the connection it knows of, then *)
(* ieee80211_mgd_stop cancels the works and gives up attempts.  User space *)
(* learns of an unanswered authentication only by the interface itself.    *)
Stopped(s) ==
  LET t == IF s.assoc_data = None THEN s
           ELSE Answered(destroy_assoc_data(s, FALSE), "assoc")
      u == IF t.auth_data = None THEN t ELSE destroy_auth_data(t, FALSE)
  IN  [u EXCEPT !.timers = @ \ {"timer"}, !.cfg.auth = None]

mgd_stop ==
  /\ Call /\ ~inWork
  /\ running' = FALSE /\ scanning' = FALSE
  /\ sdata' = [Stopped(Disconnected(sdata)) EXCEPT !.sta = {}, !.leaked = {}, !.chan = FALSE]
  /\ workq' = IF "iface" \in ToSet(workq) THEN <<"iface">> ELSE <<>>   \* only its works
  /\ skbq' = 0
  /\ UNCHANGED <<inWork, inRange>>

Up ==
  /\ ~running /\ running' = TRUE
  /\ UNCHANGED <<sdata, workq, inWork, skbq, scanning, inRange, calls>>

(* mac80211 leaves the channel for a scan only when nobody needs it.       *)
ScanStarts ==
  /\ Call /\ ~scanning /\ scanning' = TRUE
  /\ sdata.auth_data = None /\ sdata.assoc_data = None /\ ~sdata.poll
  /\ UNCHANGED <<sdata, workq, inWork, skbq, running, inRange>>

(* ieee80211_mlme_notify_scan_completed: probe the connection once.        *)
notify_scan_completed ==
  /\ scanning /\ ScanCancelled
  /\ sdata' = restart_sta_timer(sdata)
  /\ UNCHANGED <<inWork, skbq, running, inRange, calls>>

----------------------------------------------------------------------------
Work  == IfaceBegins \/ RxFrame \/ StaWork \/ ProbeWork \/ CsaDropWork \/ ChswitchWork
Calls == \/ \E ap \in APs : mgd_auth(ap) \/ mgd_assoc(ap) \/ mgd_deauth(ap) \/ mgd_disassoc(ap)
         \/ mgd_quiesce \/ mgd_stop \/ Up \/ ScanStarts

Next ==
  \/ Work \/ Calls \/ notify_scan_completed
  \/ \E t \in Timers : TimerFires(t)
  \/ \E d \in Deadlines : TimePasses(d)
  \/ FrameArrives \/ DataArrives \/ GoOutOfRange

(* The workqueue runs, some armed timer goes off, time passes and a scan   *)
(* ends.                                                                   *)
Fairness ==
  /\ WF_vars(Work) /\ WF_vars(notify_scan_completed)
  /\ WF_vars(\E t \in Timers : TimerFires(t))
  /\ WF_vars(\E d \in Deadlines : TimePasses(d))

Spec == Init /\ [][Next]_vars
FairSpec == Spec /\ Fairness

----------------------------------------------------------------------------
(* An authentication or association under way has its timer armed, or the  *)
(* work that looks at its deadline is queued or running: no path through   *)
(* timers shared by both, retries, answers and comeback requests leaves an *)
(* attempt that nothing will ever end.                                     *)
AttemptIsTimed ==
  sdata.auth_data # None \/ sdata.assoc_data # None
    => \/ "timer" \in sdata.timers \/ inWork
       \/ "iface" \in ToSet(workq)

(* What user space was told is what is so: every call that was accepted is *)
(* answered exactly when its attempt ends, whichever of the calls, frames, *)
(* deadlines and works ends it, and every connection that is lost is       *)
(* reported lost.                                                          *)
ReportsAgree ==
  sdata.cfg = [auth  |-> IF sdata.auth_data # None /\ ~sdata.auth_data.done
                         THEN sdata.auth_data.ap ELSE None,
               assoc |-> IF sdata.assoc_data # None THEN sdata.assoc_data.ap ELSE None,
               conn  |-> sdata.associated]

(* A connection is watched at every moment: a monitor is armed, or the     *)
(* work it queues is on its way, or a probe is timed, or a channel switch  *)
(* or a scan is under way, which start the monitors again.                 *)
ConnectionIsWatched ==
  sdata.associated # None
    => \/ sdata.timers \cap {"bcn_mon", "conn_mon", "chswitch"} # {}
       \/ ToSet(workq) \cap {"monitor", "bcn_loss", "csa_drop", "chswitch"} # {}
       \/ sdata.poll /\ ("timer" \in sdata.timers \/ inWork \/ "iface" \in ToSet(workq))
       \/ scanning

(* A channel switch has somebody to take it further, and the queues it     *)
(* stopped belong to a switch that is still under way: no order of         *)
(* announcements, disconnects and late works leaves them stopped for good. *)
SwitchProceeds ==
  /\ sdata.csa_active =>
       /\ sdata.associated # None
       /\ \/ sdata.csa_waiting_bcn \/ "chswitch" \in sdata.timers
          \/ ToSet(workq) \cap {"chswitch", "csa_drop"} # {}
  /\ sdata.stopped => sdata.csa_active /\ sdata.csa_block_tx

(* The station entry and the channel are held exactly for the attempt or   *)
(* the connection they were taken for, except that an association that     *)
(* could not be prepared keeps the entry of the authentication before it.  *)
StationsAccounted ==
  LET users == {x.ap : x \in {sdata.auth_data, sdata.assoc_data} \ {None}}
                 \cup ({sdata.associated} \ {None})
  IN  /\ sdata.sta = users \cup sdata.leaked
      /\ users # {} => sdata.chan
      /\ sdata.chan => users \cup sdata.leaked # {}

(* Once the AP is not heard any more, attempts and connection end, through *)
(* retries, beacon loss, probes and whatever switch or scan was under way. *)
LostApNoticed ==
  ~inRange ~> /\ sdata.auth_data = None /\ sdata.assoc_data = None
              /\ sdata.associated = None
=============================================================================
