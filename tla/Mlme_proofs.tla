---------------------------- MODULE Mlme_proofs ----------------------------
(***************************************************************************)
(* mlme.c, for any number of access points, tries, frames and calls, in    *)
(* three parts, each with its own inductive invariant: what user space was *)
(* told agrees with what is so; nothing under way is forgotten; stations   *)
(* and the channel are given back.                                         *)
(***************************************************************************)
EXTENDS Mlme, TLAPS

(***************************************************************************)
(* What user space was told agrees with what is so, for any number of      *)
(* access points, tries, frames and calls.  ReportsAgree is inductive once *)
(* it is known that a station has at most one of an authentication, an     *)
(* association and a connection: a report about an AP is about that one.   *)
(***************************************************************************)
AuthTypes  == [ap: APs, tries: Nat, done: BOOLEAN]
AssocTypes == [ap: APs, tries: Nat]

(* A record with the fields of the interface, of which only the attempts,  *)
(* the connection and the reports are typed.                               *)
Typed(s) ==
  s \in [auth_data: AuthTypes \cup {None}, assoc_data: AssocTypes \cup {None},
         associated: APs \cup {None}, late: {s.late}, timers: {s.timers}, poll: {s.poll},
         probe_send_count: {s.probe_send_count}, csa_active: {s.csa_active},
         csa_block_tx: {s.csa_block_tx}, csa_waiting_bcn: {s.csa_waiting_bcn},
         reserved: {s.reserved}, switched: {s.switched}, stopped: {s.stopped},
         sta: {s.sta}, leaked: {s.leaked}, chan: {s.chan},
         cfg: [auth: APs \cup {None}, assoc: APs \cup {None}, conn: APs \cup {None}]]

(* At most one attempt or connection.                                      *)
OneAtATime(s) ==
  /\ s.assoc_data # None => s.auth_data = None
  /\ s.associated # None => s.auth_data = None /\ s.assoc_data = None

(* ReportsAgree, of any record.                                            *)
Agrees(s) ==
  /\ s.cfg.auth  = IF s.auth_data # None /\ ~s.auth_data.done THEN s.auth_data.ap ELSE None
  /\ s.cfg.assoc = IF s.assoc_data # None THEN s.assoc_data.ap ELSE None
  /\ s.cfg.conn  = s.associated

Good(s) == Typed(s) /\ OneAtATime(s) /\ Agrees(s)

(* t differs from s only in timers, deadlines, channel and stations.       *)
Alike(s, t) ==
  /\ Typed(t)
  /\ t.auth_data = s.auth_data /\ t.assoc_data = s.assoc_data
  /\ t.associated = s.associated /\ t.cfg = s.cfg

LEMMA AlikeGood == ASSUME NEW s, NEW t, Good(s), Alike(s, t) PROVE Good(t)
  BY DEF Good, Alike, OneAtATime, Agrees

LEMMA AlikeTrans == ASSUME NEW s, NEW t, NEW u, Alike(s, t), Alike(t, u) PROVE Alike(s, u)
  BY DEF Alike

LEMMA AlikeRefl == ASSUME NEW s, Typed(s) PROVE Alike(s, s)
  BY DEF Alike

(* The helpers that leave attempts, connection and reports alone.          *)
LEMMA Neutral ==
  ASSUME NEW s, Typed(s)
  PROVE  /\ Alike(s, run_again(s)) /\ Alike(s, reset_beacon_monitor(s))
         /\ Alike(s, reset_conn_monitor(s)) /\ Alike(s, stop_poll(s))
         /\ Alike(s, mgd_probe_ap_send(s)) /\ Alike(s, WakeQueues(s))
         /\ Alike(s, ReleaseChannel(s))
<1>1. Alike(s, run_again(s))
  BY DEF Typed, Alike, run_again
<1>2. Alike(s, reset_beacon_monitor(s))
  BY DEF Typed, Alike, reset_beacon_monitor
<1>3. Alike(s, reset_conn_monitor(s))
  BY ZenonT(40) DEF Typed, Alike, reset_conn_monitor
<1>4. Alike(s, stop_poll(s))
  BY DEF Typed, Alike, stop_poll
<1>5. Alike(s, mgd_probe_ap_send(s))
  BY DEF Typed, Alike, mgd_probe_ap_send, run_again
<1>6. Alike(s, WakeQueues(s))
  BY DEF Typed, Alike, WakeQueues
<1>7. Alike(s, ReleaseChannel(s))
  BY DEF Typed, Alike, ReleaseChannel
<1> QED
  BY <1>1, <1>2, <1>3, <1>4, <1>5, <1>6, <1>7

LEMMA NeutralMore ==
  ASSUME NEW s, Typed(s)
  PROVE  /\ Alike(s, reset_ap_probe(s)) /\ Alike(s, chswitch_post_beacon(s))
         /\ Alike(s, BeaconHeard(s)) /\ Alike(s, mgd_probe_ap(s))
         /\ \A ap \in APs : Alike(s, GiveUp(s, ap)) /\ Alike(s, Prepared(s, ap))
         /\ \A csa, ok : Alike(s, CsaStarted(s, csa, ok))
<1>1. ASSUME NEW t, Typed(t) PROVE Alike(t, reset_ap_probe(t))
  <2>1. CASE ~t.poll
    BY <1>1, <2>1, AlikeRefl DEF reset_ap_probe
  <2>2. CASE t.poll
    <3> DEFINE u == reset_beacon_monitor(stop_poll(t))
    <3>1. Alike(t, stop_poll(t))
      BY <1>1, Neutral
    <3>2. Alike(stop_poll(t), u)
      BY <3>1, Neutral DEF Alike
    <3>3. Typed(u) /\ Alike(t, u)
      BY <3>1, <3>2, AlikeTrans DEF Alike
    <3>4. reset_ap_probe(t) = [u EXCEPT !.timers = @ \cup {"conn_mon"}]
      BY <2>2 DEF reset_ap_probe
    <3> HIDE DEF u
    <3>5. Alike(u, [u EXCEPT !.timers = @ \cup {"conn_mon"}])
      BY <3>3 DEF Typed, Alike
    <3> QED
      BY <3>3, <3>4, <3>5, AlikeTrans
  <2> QED
    BY <2>1, <2>2
<1>2. ASSUME NEW t, Typed(t) PROVE Alike(t, chswitch_post_beacon(t))
  BY <1>2 DEF chswitch_post_beacon, WakeQueues, Typed, Alike
<1>3. Alike(s, BeaconHeard(s))
  <2> DEFINE probed == reset_ap_probe(s)
             heard  == reset_beacon_monitor(probed)
  <2>1. Alike(s, probed)
    BY <1>1
  <2>2. Alike(probed, heard)
    BY <2>1, Neutral DEF Alike
  <2>3. Typed(heard) /\ Alike(s, heard)
    BY <2>1, <2>2, AlikeTrans DEF Alike
  <2>4. Alike(heard, chswitch_post_beacon(heard))
    BY <2>3, <1>2
  <2>5. BeaconHeard(s) = IF s.csa_waiting_bcn THEN chswitch_post_beacon(heard) ELSE heard
    BY DEF BeaconHeard
  <2> HIDE DEF heard
  <2> QED
    BY <2>3, <2>4, <2>5, AlikeTrans
<1>4. Alike(s, mgd_probe_ap(s))
  <2> DEFINE t == [s EXCEPT !.poll = TRUE, !.probe_send_count = 0]
  <2>1. Alike(s, t)
    BY DEF Typed, Alike
  <2>2. Alike(t, mgd_probe_ap_send(t))
    BY <2>1, Neutral DEF Alike
  <2>3. mgd_probe_ap(s) \in {s, mgd_probe_ap_send(t)}
    BY DEF mgd_probe_ap
  <2> HIDE DEF t
  <2> QED
    BY <2>1, <2>2, <2>3, AlikeTrans, AlikeRefl
<1>5. ASSUME NEW ap \in APs PROVE Alike(s, GiveUp(s, ap))
  BY DEF GiveUp, ReleaseChannel, Typed, Alike
<1>6. ASSUME NEW ap \in APs PROVE Alike(s, Prepared(s, ap))
  <2> DEFINE t == [s EXCEPT !.sta = @ \cup {ap}, !.chan = TRUE]
  <2>1. Alike(s, t)
    BY DEF Typed, Alike
  <2>2. Alike(t, stop_poll(t))
    BY <2>1, Neutral DEF Alike
  <2>3. Prepared(s, ap) \in {t, stop_poll(t)}
    BY DEF Prepared, restart_sta_timer
  <2> HIDE DEF t
  <2> QED
    BY <2>1, <2>2, <2>3, AlikeTrans
<1>7. ASSUME NEW csa, NEW ok PROVE Alike(s, CsaStarted(s, csa, ok))
  BY DEF CsaStarted, Typed, Alike
<1> QED
  BY <1>1, <1>2, <1>3, <1>4, <1>5, <1>6, <1>7

----------------------------------------------------------------------------
(* The helpers that end an attempt or a connection, and the reports.       *)
LEMMA AuthEnds ==
  ASSUME NEW s, Typed(s), s.auth_data # None, NEW assoc \in BOOLEAN
  PROVE  /\ Typed(destroy_auth_data(s, assoc))
         /\ destroy_auth_data(s, assoc).auth_data = None
         /\ destroy_auth_data(s, assoc).assoc_data = s.assoc_data
         /\ destroy_auth_data(s, assoc).associated = s.associated
         /\ destroy_auth_data(s, assoc).cfg = s.cfg
<1> DEFINE t == IF assoc THEN s ELSE GiveUp(s, s.auth_data.ap)
<1>1. s.auth_data.ap \in APs
  BY DEF Typed, AuthTypes
<1>2. Alike(s, t)
  BY <1>1, NeutralMore, AlikeRefl
<1>3. destroy_auth_data(s, assoc) = [t EXCEPT !.auth_data = None, !.late = @ \ {"auth"}]
  BY DEF destroy_auth_data
<1> HIDE DEF t
<1> QED
  BY <1>2, <1>3 DEF Alike, Typed

LEMMA AssocEnds ==
  ASSUME NEW s, Typed(s), s.assoc_data # None, NEW assoc \in BOOLEAN
  PROVE  /\ Typed(destroy_assoc_data(s, assoc))
         /\ destroy_assoc_data(s, assoc).assoc_data = None
         /\ destroy_assoc_data(s, assoc).auth_data = s.auth_data
         /\ destroy_assoc_data(s, assoc).associated = s.associated
         /\ destroy_assoc_data(s, assoc).cfg = s.cfg
<1> DEFINE t == IF assoc THEN s ELSE GiveUp(s, s.assoc_data.ap)
<1>1. s.assoc_data.ap \in APs
  BY DEF Typed, AssocTypes
<1>2. Alike(s, t)
  BY <1>1, NeutralMore, AlikeRefl
<1>3. destroy_assoc_data(s, assoc) = [t EXCEPT !.assoc_data = None, !.late = @ \ {"assoc"}]
  BY DEF destroy_assoc_data
<1> HIDE DEF t
<1> QED
  BY <1>2, <1>3 DEF Alike, Typed

LEMMA Told ==
  ASSUME NEW s, Typed(s), NEW what \in {"auth", "assoc"}
  PROVE  /\ Typed(Answered(s, what))
         /\ Answered(s, what).auth_data = s.auth_data
         /\ Answered(s, what).assoc_data = s.assoc_data
         /\ Answered(s, what).associated = s.associated
         /\ Answered(s, what).cfg.auth = IF what = "auth" THEN None ELSE s.cfg.auth
         /\ Answered(s, what).cfg.assoc = IF what = "assoc" THEN None ELSE s.cfg.assoc
         /\ Answered(s, what).cfg.conn = s.cfg.conn
  BY DEF Answered, Typed

LEMMA ToldOfEnd ==
  ASSUME NEW s, Typed(s), NEW ap
  PROVE  /\ Typed(report_disconnect(s, ap))
         /\ report_disconnect(s, ap).auth_data = s.auth_data
         /\ report_disconnect(s, ap).assoc_data = s.assoc_data
         /\ report_disconnect(s, ap).associated = s.associated
         /\ \A w \in {"auth", "assoc", "conn"} :
              report_disconnect(s, ap).cfg[w] = IF s.cfg[w] = ap THEN None ELSE s.cfg[w]
<1> DEFINE told == [w \in DOMAIN s.cfg |-> IF s.cfg[w] = ap THEN None ELSE s.cfg[w]]
<1>1. DOMAIN s.cfg = {"auth", "assoc", "conn"}
  BY DEF Typed
<1>2. /\ s.cfg["auth"] \in APs \cup {None} /\ s.cfg["assoc"] \in APs \cup {None}
      /\ s.cfg["conn"] \in APs \cup {None}
  BY DEF Typed
<1>3. told \in [auth: APs \cup {None}, assoc: APs \cup {None}, conn: APs \cup {None}]
  BY <1>1, <1>2
<1>4. report_disconnect(s, ap) = [s EXCEPT !.cfg = told]
  BY DEF report_disconnect
<1>5. \A w \in {"auth", "assoc", "conn"} : told[w] = IF s.cfg[w] = ap THEN None ELSE s.cfg[w]
  BY <1>1
<1> HIDE DEF told
<1> QED
  BY <1>3, <1>4, <1>5 DEF Typed

LEMMA Disassociated ==
  ASSUME NEW s, Typed(s)
  PROVE  /\ Typed(set_disassoc(s))
         /\ set_disassoc(s).associated = None
         /\ set_disassoc(s).auth_data = s.auth_data
         /\ set_disassoc(s).assoc_data = s.assoc_data
         /\ set_disassoc(s).cfg = s.cfg
<1> DEFINE t == [s EXCEPT !.associated = None, !.poll = FALSE, !.late = {}, !.sta = {},
                          !.leaked = {}, !.timers = {}, !.csa_active = FALSE,
                          !.csa_waiting_bcn = FALSE]
<1>1. /\ Typed(t) /\ t.associated = None /\ t.auth_data = s.auth_data
      /\ t.assoc_data = s.assoc_data /\ t.cfg = s.cfg
  BY DEF Typed
<1>2. set_disassoc(s) = WakeQueues(ReleaseChannel(t))
  BY DEF set_disassoc
<1> HIDE DEF t
<1>3. Alike(t, ReleaseChannel(t))
  BY <1>1, Neutral
<1>4. Alike(ReleaseChannel(t), WakeQueues(ReleaseChannel(t)))
  BY <1>3, Neutral DEF Alike
<1> QED
  BY <1>1, <1>2, <1>3, <1>4 DEF Alike

(* Whatever ends a connection, it is reported and nothing is left.         *)
Nothing(s) == s.auth_data = None /\ s.assoc_data = None /\ s.associated = None

LEMMA DisconnectGood ==
  ASSUME NEW s, Good(s), s.associated # None
  PROVE  Good(Disconnect(s)) /\ Nothing(Disconnect(s))
<1> DEFINE t == set_disassoc(s)
           u == report_disconnect(t, s.associated)
<1>1. /\ Typed(s) /\ s.auth_data = None /\ s.assoc_data = None
      /\ s.cfg.auth = None /\ s.cfg.assoc = None /\ s.cfg.conn = s.associated
  BY DEF Good, OneAtATime, Agrees
<1>2. /\ Typed(t) /\ t.associated = None /\ t.auth_data = None /\ t.assoc_data = None
      /\ t.cfg = s.cfg
  BY <1>1, Disassociated
<1>3. Disconnect(s) = u
  BY DEF Disconnect
<1> HIDE DEF t
<1>4. Typed(u) /\ Nothing(u)
  BY <1>2, ToldOfEnd DEF Nothing
<1>5. /\ u.cfg["auth"] = None /\ u.cfg["assoc"] = None /\ u.cfg["conn"] = None
  BY <1>1, <1>2, ToldOfEnd
<1> QED
  BY <1>3, <1>4, <1>5 DEF Good, OneAtATime, Agrees, Nothing

LEMMA DisconnectedGood ==
  ASSUME NEW s, Good(s)
  PROVE  /\ Good(Disconnected(s)) /\ Disconnected(s).associated = None
         /\ s.auth_data # None => Disconnected(s) = s
         /\ s.assoc_data # None => Disconnected(s) = s
  BY DisconnectGood DEF Disconnected, Nothing, Good, OneAtATime

----------------------------------------------------------------------------
(* An attempt that ends and is answered for.                               *)
LEMMA AuthAnswered ==
  ASSUME NEW s, Good(s), s.auth_data # None
  PROVE  Good(Answered(destroy_auth_data(s, FALSE), "auth"))
<1> DEFINE t == destroy_auth_data(s, FALSE)
<1>1. /\ Typed(t) /\ t.auth_data = None /\ t.assoc_data = None /\ t.associated = None
      /\ t.cfg.assoc = None /\ t.cfg.conn = None
  BY AuthEnds DEF Good, OneAtATime, Agrees
<1> HIDE DEF t
<1> DEFINE u == Answered(t, "auth")
<1>2. /\ Typed(u) /\ Nothing(u) /\ u.cfg.auth = None /\ u.cfg.assoc = None
      /\ u.cfg.conn = None
  BY <1>1, Told DEF Nothing
<1> HIDE DEF u
<1>3. Good(u)
  BY <1>2 DEF Good, OneAtATime, Agrees, Nothing
<1> QED
  BY <1>3 DEF t, u

LEMMA AuthForgotten ==
  ASSUME NEW s, Good(s), s.auth_data # None, s.auth_data.done, NEW assoc \in BOOLEAN
  PROVE  Good(destroy_auth_data(s, assoc)) /\ Nothing(destroy_auth_data(s, assoc))
  BY AuthEnds DEF Good, OneAtATime, Agrees, Nothing

LEMMA AssocAnswered ==
  ASSUME NEW s, Good(s), s.assoc_data # None
  PROVE  Good(Answered(destroy_assoc_data(s, FALSE), "assoc"))
<1> DEFINE t == destroy_assoc_data(s, FALSE)
<1>1. /\ Typed(t) /\ t.auth_data = None /\ t.assoc_data = None /\ t.associated = None
      /\ t.cfg.auth = None /\ t.cfg.conn = None
  BY AssocEnds DEF Good, OneAtATime, Agrees
<1> HIDE DEF t
<1> DEFINE u == Answered(t, "assoc")
<1>2. /\ Typed(u) /\ Nothing(u) /\ u.cfg.auth = None /\ u.cfg.assoc = None
      /\ u.cfg.conn = None
  BY <1>1, Told DEF Nothing
<1> HIDE DEF u
<1>3. Good(u)
  BY <1>2 DEF Good, OneAtATime, Agrees, Nothing
<1> QED
  BY <1>3 DEF t, u

LEMMA AttemptReported ==
  ASSUME NEW s, Good(s), NEW ap \in APs
  PROVE  /\ s.auth_data # None /\ s.auth_data.ap = ap =>
              /\ Good(report_disconnect(destroy_auth_data(s, FALSE), ap))
              /\ Nothing(report_disconnect(destroy_auth_data(s, FALSE), ap))
         /\ s.assoc_data # None /\ s.assoc_data.ap = ap =>
              /\ Good(report_disconnect(destroy_assoc_data(s, FALSE), ap))
              /\ Nothing(report_disconnect(destroy_assoc_data(s, FALSE), ap))
<1>1. ASSUME NEW t, Typed(t), Nothing(t), t.cfg.conn = None,
             t.cfg.auth \in {ap, None}, t.cfg.assoc \in {ap, None}
      PROVE  Good(report_disconnect(t, ap)) /\ Nothing(report_disconnect(t, ap))
  <2> DEFINE u == report_disconnect(t, ap)
  <2>1. Typed(u) /\ Nothing(u)
    BY <1>1, ToldOfEnd DEF Nothing
  <2>2. /\ u.cfg["auth"]  = IF t.cfg["auth"] = ap THEN None ELSE t.cfg["auth"]
        /\ u.cfg["assoc"] = IF t.cfg["assoc"] = ap THEN None ELSE t.cfg["assoc"]
        /\ u.cfg["conn"]  = IF t.cfg["conn"] = ap THEN None ELSE t.cfg["conn"]
    BY <1>1, ToldOfEnd
  <2>3. u.cfg.auth = None /\ u.cfg.assoc = None /\ u.cfg.conn = None
    BY <1>1, <2>2
  <2> HIDE DEF u
  <2>4. Good(u)
    BY <2>1, <2>3 DEF Good, OneAtATime, Agrees, Nothing
  <2> QED
    BY <2>1, <2>4 DEF u
<1>2. CASE s.auth_data # None /\ s.auth_data.ap = ap
  <2> DEFINE t == destroy_auth_data(s, FALSE)
  <2>1. /\ Typed(t) /\ Nothing(t) /\ t.cfg.conn = None
        /\ t.cfg.auth \in {ap, None} /\ t.cfg.assoc \in {ap, None}
    BY <1>2, AuthEnds DEF Good, OneAtATime, Agrees, Nothing
  <2> HIDE DEF t
  <2>2. Good(report_disconnect(t, ap)) /\ Nothing(report_disconnect(t, ap))
    BY <2>1, <1>1
  <2>3. s.assoc_data = None
    BY <1>2 DEF Good, OneAtATime
  <2> QED
    BY <2>2, <2>3 DEF t
<1>3. CASE s.assoc_data # None /\ s.assoc_data.ap = ap
  <2> DEFINE t == destroy_assoc_data(s, FALSE)
  <2>1. /\ Typed(t) /\ Nothing(t) /\ t.cfg.conn = None
        /\ t.cfg.auth \in {ap, None} /\ t.cfg.assoc \in {ap, None}
    BY <1>3, AssocEnds DEF Good, OneAtATime, Agrees, Nothing
  <2> HIDE DEF t
  <2>2. Good(report_disconnect(t, ap)) /\ Nothing(report_disconnect(t, ap))
    BY <2>1, <1>1
  <2>3. s.auth_data = None
    BY <1>3 DEF Good, OneAtATime
  <2> QED
    BY <2>2, <2>3 DEF t
<1> QED
  BY <1>2, <1>3

(* One more try.                                                           *)
LEMMA TriesGood ==
  ASSUME NEW s, Good(s)
  PROVE  /\ s.auth_data # None => Good(ieee80211_auth(s))
         /\ s.assoc_data # None => Good(ieee80211_do_assoc(s))
<1>1. CASE s.auth_data # None
  <2> DEFINE t == [s EXCEPT !.auth_data.tries = @ + 1, !.late = @ \ {"auth"}]
  <2>1. t.auth_data = [s.auth_data EXCEPT !.tries = @ + 1] /\ s.auth_data \in AuthTypes
    BY <1>1 DEF Good, Typed
  <2>2. /\ t.auth_data \in AuthTypes /\ t.auth_data.done = s.auth_data.done
        /\ t.auth_data.ap = s.auth_data.ap
    BY <2>1 DEF AuthTypes
  <2>3. t.auth_data # None
    BY <2>2, MlmeAssumption DEF AuthTypes
  <2>4. Typed(t) /\ t.assoc_data = s.assoc_data /\ t.associated = s.associated /\ t.cfg = s.cfg
    BY <2>2 DEF Good, Typed
  <2> HIDE DEF t
  <2>5. Good(t)
    BY <1>1, <2>2, <2>3, <2>4 DEF Good, OneAtATime, Agrees
  <2>6. Good(run_again(t))
    BY <2>4, <2>5, Neutral, AlikeGood
  <2>7. s.assoc_data = None
    BY <1>1 DEF Good, OneAtATime
  <2> QED
    BY <2>6, <2>7 DEF ieee80211_auth, t
<1>2. CASE s.assoc_data # None
  <2> DEFINE t == [s EXCEPT !.assoc_data.tries = @ + 1, !.late = @ \ {"assoc"}]
  <2>1. t.assoc_data = [s.assoc_data EXCEPT !.tries = @ + 1] /\ s.assoc_data \in AssocTypes
    BY <1>2 DEF Good, Typed
  <2>2. t.assoc_data \in AssocTypes /\ t.assoc_data.ap = s.assoc_data.ap
    BY <2>1 DEF AssocTypes
  <2>3. t.assoc_data # None
    BY <2>2, MlmeAssumption DEF AssocTypes
  <2>4. Typed(t) /\ t.auth_data = s.auth_data /\ t.associated = s.associated /\ t.cfg = s.cfg
    BY <2>2 DEF Good, Typed
  <2> HIDE DEF t
  <2>5. Good(t)
    BY <1>2, <2>2, <2>3, <2>4 DEF Good, OneAtATime, Agrees
  <2>6. Good(run_again(t))
    BY <2>4, <2>5, Neutral, AlikeGood
  <2>7. s.auth_data = None
    BY <1>2 DEF Good, OneAtATime
  <2> QED
    BY <2>6, <2>7 DEF ieee80211_do_assoc, t
<1> QED
  BY <1>1, <1>2

(* ieee80211_sta_work, part by part.                                       *)
LEMMA StaWorkGood == ASSUME NEW s, Good(s) PROVE Good(ieee80211_sta_work(s))
<1>1. ASSUME NEW t, Good(t) PROVE Good(run_again(t)) /\ Typed(t)
  BY <1>1, Neutral, AlikeGood DEF Good
<1>2. ASSUME NEW t, Good(t) PROVE Good(StaWorkAuth(t))
  <2>1. t.auth_data # None /\ t.auth_data.done => Good(destroy_auth_data(t, FALSE))
    BY <1>2, AuthForgotten
  <2> QED
    BY <1>1, <1>2, <2>1, TriesGood, AuthAnswered DEF StaWorkAuth
<1>3. ASSUME NEW t, Good(t) PROVE Good(StaWorkAssoc(t))
  BY <1>1, <1>3, TriesGood, AssocAnswered DEF StaWorkAssoc
<1>4. ASSUME NEW t, Good(t) PROVE Good(StaWorkPoll(t))
  <2>1. Alike(t, reset_ap_probe(t)) /\ Alike(t, mgd_probe_ap_send(t))
    BY <1>1, <1>4, Neutral, NeutralMore
  <2>2. Good(reset_ap_probe(t)) /\ Good(mgd_probe_ap_send(t))
    BY <1>4, <2>1, AlikeGood
  <2> QED
    BY <1>1, <1>4, <2>2, DisconnectGood DEF StaWorkPoll
<1> QED
  BY <1>2, <1>3, <1>4 DEF ieee80211_sta_work

----------------------------------------------------------------------------
(* The frames.  An authentication that the AP accepts is answered, and     *)
(* kept until the association takes it over or its deadline passes.        *)
LEMMA AuthAccepted ==
  ASSUME NEW s, Good(s), s.auth_data # None
  PROVE  Good(Answered(run_again([s EXCEPT !.auth_data.done = TRUE, !.late = @ \ {"auth"}]),
                       "auth"))
<1> DEFINE t == [s EXCEPT !.auth_data.done = TRUE, !.late = @ \ {"auth"}]
           u == run_again(t)
           v == Answered(u, "auth")
<1>1. t.auth_data = [s.auth_data EXCEPT !.done = TRUE] /\ s.auth_data \in AuthTypes
  BY DEF Good, Typed
<1>2. t.auth_data \in AuthTypes /\ t.auth_data.done
  BY <1>1 DEF AuthTypes
<1>3. t.auth_data # None
  BY <1>2, MlmeAssumption DEF AuthTypes
<1>4. /\ Typed(t) /\ t.assoc_data = None /\ t.associated = None
      /\ t.cfg.assoc = None /\ t.cfg.conn = None
  BY <1>2 DEF Good, Typed, OneAtATime, Agrees
<1> HIDE DEF t
<1>5. Alike(t, u)
  BY <1>4, Neutral
<1>6. /\ Typed(u) /\ u.auth_data # None /\ u.auth_data.done /\ u.assoc_data = None
      /\ u.associated = None /\ u.cfg.assoc = None /\ u.cfg.conn = None
  BY <1>2, <1>3, <1>4, <1>5 DEF Alike
<1> HIDE DEF u
<1>7. /\ Typed(v) /\ v.auth_data # None /\ v.auth_data.done /\ v.assoc_data = None
      /\ v.associated = None /\ v.cfg.auth = None /\ v.cfg.assoc = None /\ v.cfg.conn = None
  BY <1>6, Told
<1> HIDE DEF v
<1>8. Good(v)
  BY <1>7 DEF Good, OneAtATime, Agrees
<1> QED
  BY <1>8 DEF v, u, t

(* The association succeeds: the attempt becomes the connection.           *)
LEMMA AssocAccepted ==
  ASSUME NEW s, Good(s), s.assoc_data # None, NEW ap \in APs
  PROVE  Good([Answered(destroy_assoc_data(assoc_success(s, ap), TRUE), "assoc")
                 EXCEPT !.cfg.conn = ap])
<1> DEFINE p == stop_poll(s)
           t == [p EXCEPT !.associated = ap]
           w == reset_conn_monitor(t)
           u == assoc_success(s, ap)
           v == destroy_assoc_data(u, TRUE)
           x == Answered(v, "assoc")
           y == [x EXCEPT !.cfg.conn = ap]
<1>1. Typed(s) /\ s.auth_data = None /\ s.cfg.auth = None
  BY DEF Good, OneAtATime, Agrees
<1>2. Alike(s, p)
  BY <1>1, Neutral
<1> HIDE DEF p
<1>3. /\ Typed(t) /\ t.associated = ap /\ t.auth_data = None /\ t.assoc_data # None
      /\ t.cfg.auth = None
  BY <1>1, <1>2 DEF Alike, Typed
<1>4. u = reset_beacon_monitor(w)
  BY DEF assoc_success, set_associated, p
<1> HIDE DEF t
<1>5. Alike(t, w)
  BY <1>3, Neutral
<1> HIDE DEF w
<1>6. Alike(w, u)
  BY <1>4, <1>5, Neutral DEF Alike
<1>7. /\ Typed(u) /\ u.associated = ap /\ u.auth_data = None /\ u.assoc_data # None
      /\ u.cfg.auth = None
  BY <1>3, <1>5, <1>6 DEF Alike
<1> HIDE DEF u
<1>8. /\ Typed(v) /\ v.associated = ap /\ v.auth_data = None /\ v.assoc_data = None
      /\ v.cfg.auth = None
  BY <1>7, AssocEnds
<1> HIDE DEF v
<1>9. /\ Typed(x) /\ x.associated = ap /\ x.auth_data = None /\ x.assoc_data = None
      /\ x.cfg.auth = None /\ x.cfg.assoc = None
  BY <1>8, Told
<1> HIDE DEF x
<1>10. y.cfg = [x.cfg EXCEPT !.conn = ap] /\ x.cfg \in [auth: APs \cup {None},
         assoc: APs \cup {None}, conn: APs \cup {None}]
  BY <1>9 DEF Typed
<1>11. /\ y.cfg \in [auth: APs \cup {None}, assoc: APs \cup {None}, conn: APs \cup {None}]
       /\ y.cfg.auth = None /\ y.cfg.assoc = None /\ y.cfg.conn = ap
  BY <1>9, <1>10
<1>12. Typed(y) /\ y.associated = ap /\ y.auth_data = None /\ y.assoc_data = None
  BY <1>9, <1>11 DEF Typed
<1> HIDE DEF y
<1>13. Good(y)
  BY <1>11, <1>12 DEF Good, OneAtATime, Agrees
<1> QED
  BY <1>13 DEF y, x, v, u

LEMMA AnswersGood ==
  ASSUME NEW s, Good(s), NEW f, f.ap \in APs
  PROVE  /\ Good(rx_mgmt_auth(s, f)) /\ Good(rx_mgmt_probe_resp(s, f))
         /\ Good(rx_mgmt_deauth(s, f)) /\ Good(rx_mgmt_disassoc(s, f))
<1>1. Good(rx_mgmt_auth(s, f))
  BY AuthAnswered, AuthAccepted DEF rx_mgmt_auth, From
<1>2. Good(rx_mgmt_probe_resp(s, f))
  BY NeutralMore, AlikeGood DEF rx_mgmt_probe_resp, Good
<1>3. s.associated = f.ap => Good(Disconnect(s))
  BY DisconnectGood, MlmeAssumption
<1>4. Good(rx_mgmt_disassoc(s, f))
  BY <1>3 DEF rx_mgmt_disassoc
<1>5. Good(rx_mgmt_deauth(s, f))
  BY <1>3, AttemptReported DEF rx_mgmt_deauth, From
<1> QED
  BY <1>1, <1>2, <1>4, <1>5

LEMMA AssocRespGood ==
  ASSUME NEW s, Good(s), NEW f, f.ap \in APs,
         f.kind \in {"assoc_ok", "assoc_denied", "assoc_comeback"},
         NEW r \in rx_mgmt_assoc_resp(s, f)
  PROVE  Good(r)
<1>1. CASE ~From(f, s.assoc_data)
  BY <1>1 DEF rx_mgmt_assoc_resp
<1>2. CASE From(f, s.assoc_data) /\ f.kind = "assoc_comeback"
  <2> DEFINE t == [s EXCEPT !.late = @ \ {"assoc"}]
  <2>1. Alike(s, t)
    BY DEF Good, Typed, Alike
  <2>2. Alike(t, run_again(t))
    BY <2>1, Neutral DEF Alike
  <2>3. Alike(s, run_again(t))
    BY <2>1, <2>2, AlikeTrans
  <2>4. r \in {run_again(t), t}
    BY <1>2 DEF rx_mgmt_assoc_resp
  <2> HIDE DEF t
  <2> QED
    BY <2>1, <2>3, <2>4, AlikeGood
<1>3. CASE From(f, s.assoc_data) /\ f.kind = "assoc_denied"
  BY <1>3, AssocAnswered DEF rx_mgmt_assoc_resp, From
<1>4. CASE From(f, s.assoc_data) /\ f.kind = "assoc_ok"
  <2> DEFINE failed   == Answered(destroy_assoc_data(s, FALSE), "assoc")
             accepted == [Answered(destroy_assoc_data(assoc_success(s, f.ap), TRUE), "assoc")
                            EXCEPT !.cfg.conn = f.ap]
  <2>1. s.assoc_data # None
    BY <1>4 DEF From
  <2>2. r \in {accepted, failed}
    BY <1>4 DEF rx_mgmt_assoc_resp
  <2>3. Good(accepted)
    BY <2>1, AssocAccepted
  <2>4. Good(failed)
    BY <2>1, AssocAnswered
  <2> HIDE DEF failed, accepted
  <2> QED
    BY <2>2, <2>3, <2>4
<1> QED
  BY <1>1, <1>2, <1>3, <1>4

(* Announcements of a channel switch, and the beacons that carry them.     *)
LEMMA ChanswitchGood ==
  ASSUME NEW s, Good(s), NEW q, NEW csa, NEW r \in ProcessChanswitch(s, q, csa)
  PROVE  Good(r[1]) /\ r[1].associated = s.associated
<1> DEFINE yes == CsaStarted(s, csa, TRUE)
           no  == CsaStarted(s, csa, FALSE)
<1>1. Alike(s, s) /\ Alike(s, yes) /\ Alike(s, no)
  BY NeutralMore, AlikeRefl DEF Good
<1>2. PICK w : r \in {<<s, w>>, <<yes, w>>, <<no, w>>}
  BY DEF ProcessChanswitch
<1> HIDE DEF yes, no
<1>3. Alike(s, r[1])
  <2>1. r[1] \in {s, yes, no}
    BY <1>2
  <2> QED
    BY <1>1, <2>1
<1>4. Good(r[1])
  BY <1>3, AlikeGood
<1>5. r[1].associated = s.associated
  BY <1>3 DEF Alike
<1> QED
  BY <1>4, <1>5

LEMMA BeaconGood ==
  ASSUME NEW s, Good(s), NEW q, NEW f, f.ap \in APs, NEW r \in rx_mgmt_beacon(s, q, f)
  PROVE  Good(r[1])
<1>1. CASE s.associated # f.ap
  BY <1>1 DEF rx_mgmt_beacon
<1>2. CASE s.associated = f.ap
  <2> DEFINE heard == BeaconHeard(s)
             more  == IF f.csa = None THEN {<<heard, q>>}
                      ELSE ProcessChanswitch(heard, q, f.csa)
  <2>1. Alike(s, heard)
    BY NeutralMore DEF Good
  <2>2. Good(heard) /\ heard.associated # None
    BY <1>2, <2>1, AlikeGood, MlmeAssumption DEF Alike
  <2>3. rx_mgmt_beacon(s, q, f)
          = {<<heard, q>>} \cup more \cup {<<Disconnect(m[1]), m[2]>> : m \in more}
    BY <1>2 DEF rx_mgmt_beacon
  <2> HIDE DEF heard
  <2>4. ASSUME NEW m \in more PROVE Good(m[1]) /\ m[1].associated # None
    BY <2>2, <2>4, ChanswitchGood
  <2> HIDE DEF more
  <2>5. ASSUME NEW m \in more PROVE Good(Disconnect(m[1]))
    BY <2>4, <2>5, DisconnectGood
  <2>6. CASE r = <<heard, q>>
    BY <2>2, <2>6
  <2>7. CASE r \in more
    BY <2>4, <2>7
  <2>8. CASE \E m \in more : r = <<Disconnect(m[1]), m[2]>>
    BY <2>5, <2>8
  <2> QED
    BY <2>3, <2>6, <2>7, <2>8
<1> QED
  BY <1>1, <1>2

LEMMA ReceivedGood ==
  ASSUME NEW s, Good(s), NEW q, NEW f \in Frames, NEW r \in Received(s, q, f)
  PROVE  Good(r[1])
<1>1. f.ap \in APs /\ f.kind \in Kinds
  BY MlmeAssumption
<1>2. CASE f.kind = "beacon"
  BY <1>1, <1>2, BeaconGood DEF Received
<1>3. CASE f.kind = "action"
  <2>1. r \in ProcessChanswitch(s, q, f.csa) \/ r = <<s, q>>
    BY <1>3 DEF Received
  <2> QED
    BY <2>1, ChanswitchGood
<1>4. CASE f.kind \in {"assoc_ok", "assoc_denied", "assoc_comeback"}
  <2>1. r \in {<<a, q>> : a \in rx_mgmt_assoc_resp(s, f)}
    BY <1>4 DEF Received
  <2> QED
    BY <1>1, <1>4, <2>1, AssocRespGood
<1>5. CASE f.kind \in {"auth_ok", "auth_denied", "probe_resp", "deauth", "disassoc"}
  <2>1. r[1] \in {rx_mgmt_auth(s, f), rx_mgmt_probe_resp(s, f),
                  rx_mgmt_deauth(s, f), rx_mgmt_disassoc(s, f)}
    BY <1>5 DEF Received
  <2> QED
    BY <1>1, <2>1, AnswersGood
<1> QED
  BY <1>1, <1>2, <1>3, <1>4, <1>5 DEF Kinds

(* The works of a channel switch and of the monitors.                      *)
LEMMA WorksGood ==
  ASSUME NEW s, Good(s)
  PROVE  /\ Good(mgd_probe_ap(s))
         /\ \A q : \A r \in chswitch_work(s, q) : Good(r[1])
<1>1. Typed(s)
  BY DEF Good
<1>2. Good(mgd_probe_ap(s))
  BY <1>1, NeutralMore, AlikeGood
<1> DEFINE t == [s EXCEPT !.reserved = FALSE, !.switched = TRUE]
           u == [s EXCEPT !.csa_waiting_bcn = TRUE]
           v == reset_beacon_monitor(u)
           w == reset_conn_monitor(v)
<1>3. Alike(s, t) /\ Alike(s, u)
  BY <1>1 DEF Typed, Alike
<1> HIDE DEF u
<1>4. Alike(u, v)
  BY <1>3, Neutral DEF Alike
<1> HIDE DEF v
<1>5. Alike(v, w)
  BY <1>4, Neutral DEF Alike
<1>6. Alike(s, w)
  BY <1>3, <1>4, <1>5, AlikeTrans
<1>7. Good(t) /\ Good(w)
  BY <1>3, <1>6, AlikeGood
<1>8. ASSUME NEW q, NEW r \in chswitch_work(s, q) PROVE r[1] \in {s, t, w}
  BY <1>8 DEF chswitch_work, u, v
<1> HIDE DEF t, w
<1> QED
  BY <1>2, <1>7, <1>8

----------------------------------------------------------------------------
(* The calls of user space.                                                *)
LEMMA AuthCallGood ==
  ASSUME NEW s, Good(s), NEW ap \in APs, s.assoc_data = None,
         s.auth_data # None => s.auth_data.done,
         NEW t, t = AuthPrepares(s, ap)
  PROVE  /\ Good([ieee80211_auth(Prepared(t, ap)) EXCEPT !.cfg.auth = ap])
         /\ Good(ReleaseChannel([t EXCEPT !.auth_data = None]))
<1> DEFINE freed   == IF s.auth_data = None THEN s ELSE destroy_auth_data(s, FALSE)
           started == [freed EXCEPT !.auth_data = Auth(ap)]
           ended   == set_disassoc(started)
<1>1. Good(freed) /\ freed.auth_data = None /\ freed.assoc_data = None
  BY AuthForgotten DEF Nothing
<1>2. /\ Typed(freed) /\ freed.cfg.auth = None /\ freed.cfg.assoc = None
      /\ freed.cfg.conn = freed.associated
  BY <1>1 DEF Good, Agrees
<1>3. t = Disconnected(started)
  BY DEF AuthPrepares
<1> HIDE DEF freed
<1>4. Auth(ap) \in AuthTypes /\ Auth(ap).ap = ap /\ Auth(ap).done = FALSE
  BY DEF Auth, AuthTypes
<1>5. /\ Typed(started) /\ started.auth_data = Auth(ap) /\ started.assoc_data = None
      /\ started.cfg = freed.cfg /\ started.associated = freed.associated
  BY <1>1, <1>2, <1>4 DEF Typed
<1> HIDE DEF started
<1>6. /\ Typed(t) /\ t.auth_data = Auth(ap) /\ t.assoc_data = None /\ t.associated = None
      /\ t.cfg.auth = None /\ t.cfg.assoc = None /\ t.cfg.conn = None
  <2>1. CASE started.associated = None
    BY <1>2, <1>3, <1>5, <2>1 DEF Disconnected
  <2>2. CASE started.associated # None
    <3>1. /\ Typed(ended) /\ ended.associated = None /\ ended.auth_data = Auth(ap)
          /\ ended.assoc_data = None /\ ended.cfg = freed.cfg
      BY <1>5, Disassociated
    <3>2. t = report_disconnect(ended, started.associated)
      BY <1>3, <2>2 DEF Disconnected, Disconnect
    <3> HIDE DEF ended
    <3>3. /\ Typed(t) /\ t.auth_data = Auth(ap) /\ t.assoc_data = None /\ t.associated = None
      BY <3>1, <3>2, ToldOfEnd
    <3>4. t.cfg["auth"] = None /\ t.cfg["assoc"] = None /\ t.cfg["conn"] = None
      BY <1>2, <1>5, <3>1, <3>2, ToldOfEnd
    <3> QED
      BY <3>3, <3>4
  <2> QED
    BY <2>1, <2>2
<1>7. Good(ReleaseChannel([t EXCEPT !.auth_data = None]))
  <2> DEFINE u == [t EXCEPT !.auth_data = None]
  <2>1. /\ Typed(u) /\ u.auth_data = None /\ u.assoc_data = None /\ u.associated = None
        /\ u.cfg = t.cfg
    BY <1>6 DEF Typed
  <2> HIDE DEF u
  <2>2. Good(u)
    BY <1>6, <2>1 DEF Good, OneAtATime, Agrees
  <2>3. Good(ReleaseChannel(u))
    BY <2>1, <2>2, Neutral, AlikeGood
  <2> QED
    BY <2>3 DEF u
<1>8. Good([ieee80211_auth(Prepared(t, ap)) EXCEPT !.cfg.auth = ap])
  <2> DEFINE p == Prepared(t, ap)
             u == [p EXCEPT !.auth_data.tries = @ + 1, !.late = @ \ {"auth"}]
             v == run_again(u)
             w == [v EXCEPT !.cfg.auth = ap]
  <2>1. Alike(t, p)
    BY <1>6, NeutralMore
  <2>2. ieee80211_auth(p) = v
    BY DEF ieee80211_auth
  <2> HIDE DEF p
  <2>3. u.auth_data = [p.auth_data EXCEPT !.tries = @ + 1] /\ p.auth_data = Auth(ap)
    BY <1>6, <2>1 DEF Alike, Typed
  <2>4. u.auth_data \in AuthTypes /\ u.auth_data.ap = ap /\ u.auth_data.done = FALSE
    BY <1>4, <2>3 DEF AuthTypes
  <2>5. u.auth_data # None
    BY <2>4, MlmeAssumption DEF AuthTypes
  <2>6. /\ Typed(u) /\ u.assoc_data = None /\ u.associated = None /\ u.cfg = t.cfg
    BY <1>6, <2>1, <2>4 DEF Alike, Typed
  <2> HIDE DEF u
  <2>7. Alike(u, v)
    BY <2>6, Neutral
  <2>8. /\ Typed(v) /\ v.auth_data = u.auth_data /\ v.assoc_data = None
        /\ v.associated = None /\ v.cfg = t.cfg
    BY <2>6, <2>7 DEF Alike
  <2> HIDE DEF v
  <2>9. w.cfg = [v.cfg EXCEPT !.auth = ap] /\ v.cfg \in [auth: APs \cup {None},
         assoc: APs \cup {None}, conn: APs \cup {None}]
    BY <2>8 DEF Typed
  <2>10. /\ w.cfg \in [auth: APs \cup {None}, assoc: APs \cup {None}, conn: APs \cup {None}]
         /\ w.cfg.auth = ap /\ w.cfg.assoc = None /\ w.cfg.conn = None
    BY <1>6, <2>8, <2>9
  <2>11. /\ Typed(w) /\ w.auth_data = u.auth_data /\ w.assoc_data = None
         /\ w.associated = None
    BY <2>8, <2>10 DEF Typed
  <2> HIDE DEF w
  <2>12. Good(w)
    BY <2>4, <2>5, <2>10, <2>11 DEF Good, OneAtATime, Agrees
  <2> QED
    BY <2>2, <2>12 DEF w, p
<1> QED
  BY <1>7, <1>8

LEMMA AssocCallGood ==
  ASSUME NEW s, Good(s), NEW ap \in APs, s.assoc_data = None,
         s.auth_data # None => s.auth_data.done,
         NEW t, t = AssocPrepares(s, ap)
  PROVE  /\ Good([run_again([Prepared(t, ap) EXCEPT !.assoc_data = Assoc(ap)])
                    EXCEPT !.cfg.assoc = ap])
         /\ Good(AssocFails(t, ap))
<1>1. Good(t) /\ Nothing(t)
  <2> DEFINE d == Disconnected(s)
  <2>1. /\ Good(d) /\ d.associated = None /\ d.assoc_data = None
        /\ d.auth_data # None => d.auth_data.done
    BY DisconnectedGood, DisconnectGood DEF Disconnected, Nothing
  <2>2. t = IF d.auth_data = None THEN d ELSE destroy_auth_data(d, d.auth_data.ap = ap)
    BY DEF AssocPrepares
  <2> HIDE DEF d
  <2>3. CASE d.auth_data = None
    BY <2>1, <2>2, <2>3 DEF Nothing
  <2>4. CASE d.auth_data # None
    <3>1. \A b \in BOOLEAN : /\ Good(destroy_auth_data(d, b))
                            /\ Nothing(destroy_auth_data(d, b))
      BY <2>1, <2>4, AuthForgotten
    <3>2. CASE d.auth_data.ap = ap
      <4>1. t = destroy_auth_data(d, TRUE)
        BY <2>2, <2>4, <3>2 DEF destroy_auth_data
      <4> QED
        BY <3>1, <4>1
    <3>3. CASE d.auth_data.ap # ap
      <4>1. t = destroy_auth_data(d, FALSE)
        BY <2>2, <2>4, <3>3 DEF destroy_auth_data
      <4> QED
        BY <3>1, <4>1
    <3> QED
      BY <3>2, <3>3
  <2> QED
    BY <2>3, <2>4
<1>2. /\ Typed(t) /\ t.auth_data = None /\ t.assoc_data = None /\ t.associated = None
      /\ t.cfg.auth = None /\ t.cfg.assoc = None /\ t.cfg.conn = None
  BY <1>1 DEF Good, Agrees, Nothing
<1>3. Good(AssocFails(t, ap))
  <2>1. Alike(t, AssocFails(t, ap))
    BY <1>2 DEF AssocFails, Typed, Alike
  <2> QED
    BY <1>1, <2>1, AlikeGood
<1>4. Good([run_again([Prepared(t, ap) EXCEPT !.assoc_data = Assoc(ap)])
              EXCEPT !.cfg.assoc = ap])
  <2> DEFINE p == Prepared(t, ap)
             u == [p EXCEPT !.assoc_data = Assoc(ap)]
             v == run_again(u)
             w == [v EXCEPT !.cfg.assoc = ap]
  <2>1. Alike(t, p)
    BY <1>2, NeutralMore
  <2> HIDE DEF p
  <2>2. Assoc(ap) \in AssocTypes /\ Assoc(ap).ap = ap
    BY DEF Assoc, AssocTypes
  <2>3. Assoc(ap) # None
    BY <2>2, MlmeAssumption DEF AssocTypes
  <2>4. /\ Typed(u) /\ u.assoc_data = Assoc(ap) /\ u.auth_data = None
        /\ u.associated = None /\ u.cfg = t.cfg
    BY <1>2, <2>1, <2>2 DEF Alike, Typed
  <2> HIDE DEF u
  <2>5. Alike(u, v)
    BY <2>4, Neutral
  <2>6. /\ Typed(v) /\ v.assoc_data = Assoc(ap) /\ v.auth_data = None
        /\ v.associated = None /\ v.cfg = t.cfg
    BY <2>4, <2>5 DEF Alike
  <2> HIDE DEF v
  <2>7. w.cfg = [v.cfg EXCEPT !.assoc = ap] /\ v.cfg \in [auth: APs \cup {None},
         assoc: APs \cup {None}, conn: APs \cup {None}]
    BY <2>6 DEF Typed
  <2>8. /\ w.cfg \in [auth: APs \cup {None}, assoc: APs \cup {None}, conn: APs \cup {None}]
        /\ w.cfg.auth = None /\ w.cfg.assoc = ap /\ w.cfg.conn = None
    BY <1>2, <2>6, <2>7
  <2>9. /\ Typed(w) /\ w.assoc_data = Assoc(ap) /\ w.auth_data = None
        /\ w.associated = None
    BY <2>6, <2>8 DEF Typed
  <2> HIDE DEF w
  <2>10. Good(w)
    BY <2>2, <2>3, <2>8, <2>9 DEF Good, OneAtATime, Agrees
  <2> QED
    BY <2>10 DEF w, v, u, p
<1> QED
  BY <1>3, <1>4

LEMMA DeauthCallGood ==
  ASSUME NEW s, Good(s), NEW ap \in APs
  PROVE  Good(Deauthenticated(s, ap))
<1>1. s.associated = ap => Good(Disconnect(s))
  BY DisconnectGood, MlmeAssumption
<1> QED
  BY <1>1, AttemptReported DEF Deauthenticated

(* Going down and being suspended.                                         *)
LEMMA QuiesceGood == ASSUME NEW s, Good(s) PROVE Good(Quiesced(s))
<1> DEFINE aps == {x.ap : x \in {s.auth_data, s.assoc_data} \ {None}}
           t == IF s.assoc_data = None THEN s ELSE destroy_assoc_data(s, FALSE)
           u == IF t.auth_data = None THEN t ELSE destroy_auth_data(t, FALSE)
           v == IF aps = {} THEN u ELSE report_disconnect(u, CHOOSE ap \in aps : TRUE)
<1>0. Quiesced(s) = IF v.associated = None THEN v ELSE Deauthenticated(v, v.associated)
  BY DEF Quiesced
<1>1. Good(v)
  <2>1. CASE s.assoc_data # None
    <3>1. s.auth_data = None /\ s.assoc_data.ap \in APs
      BY <2>1 DEF Good, OneAtATime, Typed, AssocTypes
    <3>2. aps = {s.assoc_data.ap}
      BY <2>1, <3>1
    <3>3. t = destroy_assoc_data(s, FALSE) /\ t.auth_data = None /\ u = t
      BY <2>1, <3>1, AssocEnds DEF Good
    <3>4. v = report_disconnect(destroy_assoc_data(s, FALSE), s.assoc_data.ap)
      BY <3>2, <3>3
    <3> QED
      BY <2>1, <3>1, <3>4, AttemptReported
  <2>2. CASE s.assoc_data = None /\ s.auth_data # None
    <3>1. s.auth_data.ap \in APs
      BY <2>2 DEF Good, Typed, AuthTypes
    <3>2. aps = {s.auth_data.ap}
      BY <2>2
    <3>3. t = s /\ u = destroy_auth_data(s, FALSE)
      BY <2>2
    <3>4. v = report_disconnect(destroy_auth_data(s, FALSE), s.auth_data.ap)
      BY <3>2, <3>3
    <3> QED
      BY <2>2, <3>1, <3>4, AttemptReported
  <2>3. CASE s.assoc_data = None /\ s.auth_data = None
    <3>1. aps = {}
      BY <2>3
    <3> QED
      BY <2>3, <3>1
  <2> QED
    BY <2>1, <2>2, <2>3
<1> HIDE DEF v
<1>2. v.associated # None => v.associated \in APs
  BY <1>1 DEF Good, Typed
<1> QED
  BY <1>0, <1>1, <1>2, DeauthCallGood

LEMMA StopGood ==
  ASSUME NEW s, Good(s)
  PROVE  Good([Stopped(Disconnected(s)) EXCEPT !.sta = {}, !.leaked = {}, !.chan = FALSE])
<1> DEFINE d == Disconnected(s)
           t == IF d.assoc_data = None THEN d
                ELSE Answered(destroy_assoc_data(d, FALSE), "assoc")
           u == IF t.auth_data = None THEN t ELSE destroy_auth_data(t, FALSE)
           v == [u EXCEPT !.timers = @ \ {"timer"}, !.cfg.auth = None]
           w == [v EXCEPT !.sta = {}, !.leaked = {}, !.chan = FALSE]
<1>1. Good(d) /\ d.associated = None
  BY DisconnectedGood
<1>2. v = Stopped(d)
  BY DEF Stopped
<1> HIDE DEF d
<1>3. Good(t) /\ t.associated = None /\ t.assoc_data = None
  <2>1. CASE d.assoc_data = None
    BY <1>1, <2>1
  <2>2. CASE d.assoc_data # None
    <3> DEFINE e == destroy_assoc_data(d, FALSE)
    <3>1. Typed(e) /\ e.assoc_data = None /\ e.associated = None
      BY <1>1, <2>2, AssocEnds DEF Good
    <3> HIDE DEF e
    <3>2. Answered(e, "assoc").assoc_data = None /\ Answered(e, "assoc").associated = None
      BY <3>1, Told
    <3> QED
      BY <1>1, <2>2, <3>2, AssocAnswered DEF e
  <2> QED
    BY <2>1, <2>2
<1> HIDE DEF t
<1>4. /\ Typed(u) /\ Nothing(u) /\ u.cfg.assoc = None /\ u.cfg.conn = None
  BY <1>3, AuthEnds DEF Good, Agrees, Nothing
<1> HIDE DEF u
<1>5. v.cfg = [u.cfg EXCEPT !.auth = None] /\ u.cfg \in [auth: APs \cup {None},
         assoc: APs \cup {None}, conn: APs \cup {None}]
  BY <1>4 DEF Typed
<1>6. /\ v.cfg \in [auth: APs \cup {None}, assoc: APs \cup {None}, conn: APs \cup {None}]
      /\ v.cfg.auth = None /\ v.cfg.assoc = None /\ v.cfg.conn = None
  BY <1>4, <1>5
<1>7. Typed(v) /\ Nothing(v)
  BY <1>4, <1>6 DEF Typed, Nothing
<1> HIDE DEF v
<1>8. Typed(w) /\ Nothing(w) /\ w.cfg = v.cfg
  BY <1>7 DEF Typed, Nothing
<1> HIDE DEF w
<1>9. Good(w)
  BY <1>6, <1>8 DEF Good, OneAtATime, Agrees, Nothing
<1> QED
  BY <1>2, <1>9 DEF w, d

----------------------------------------------------------------------------
(* Every step of every actor.                                              *)
LEMMA CallsKeepReports == ASSUME Good(sdata), Calls PROVE Good(sdata')
<1>1. ASSUME NEW ap \in APs, mgd_auth(ap) PROVE Good(sdata')
  <2> DEFINE t      == AuthPrepares(sdata, ap)
             begun  == [ieee80211_auth(Prepared(t, ap)) EXCEPT !.cfg.auth = ap]
             failed == ReleaseChannel([t EXCEPT !.auth_data = None])
  <2>1. /\ sdata.assoc_data = None
        /\ sdata.auth_data # None => sdata.auth_data.done
        /\ sdata' = begun \/ sdata' = failed
    BY <1>1 DEF mgd_auth
  <2>2. Good(begun) /\ Good(failed)
    BY <2>1, AuthCallGood
  <2> HIDE DEF begun, failed
  <2> QED
    BY <2>1, <2>2
<1>2. ASSUME NEW ap \in APs, mgd_assoc(ap) PROVE Good(sdata')
  <2> DEFINE t      == AssocPrepares(sdata, ap)
             begun  == [run_again([Prepared(t, ap) EXCEPT !.assoc_data = Assoc(ap)])
                          EXCEPT !.cfg.assoc = ap]
             failed == AssocFails(t, ap)
  <2>1. /\ sdata.assoc_data = None
        /\ sdata.auth_data # None => sdata.auth_data.done
        /\ sdata' = begun \/ sdata' = failed
    BY <1>2 DEF mgd_assoc
  <2>2. Good(begun) /\ Good(failed)
    BY <2>1, AssocCallGood
  <2> HIDE DEF begun, failed
  <2> QED
    BY <2>1, <2>2
<1>3. ASSUME NEW ap \in APs, mgd_deauth(ap) PROVE Good(sdata')
  BY <1>3, DeauthCallGood DEF mgd_deauth
<1>4. ASSUME NEW ap \in APs, mgd_disassoc(ap) PROVE Good(sdata')
  BY <1>4, DisconnectGood, MlmeAssumption DEF mgd_disassoc
<1>5. CASE mgd_quiesce
  BY <1>5, QuiesceGood DEF mgd_quiesce
<1>6. CASE mgd_stop
  BY <1>6, StopGood DEF mgd_stop
<1>7. CASE Up \/ ScanStarts
  BY <1>7 DEF Up, ScanStarts
<1> QED
  BY <1>1, <1>2, <1>3, <1>4, <1>5, <1>6, <1>7 DEF Calls

LEMMA WorkKeepsReports == ASSUME Good(sdata), Work PROVE Good(sdata')
<1>1. CASE IfaceBegins
  BY <1>1 DEF IfaceBegins
<1>2. CASE RxFrame
  BY <1>2, ReceivedGood DEF RxFrame
<1>3. CASE StaWork
  BY <1>3, StaWorkGood DEF StaWork
<1>4. CASE ProbeWork
  BY <1>4, WorksGood DEF ProbeWork
<1>5. CASE CsaDropWork
  BY <1>5, DisconnectGood DEF CsaDropWork
<1>6. CASE ChswitchWork
  BY <1>6, WorksGood DEF ChswitchWork
<1> QED
  BY <1>1, <1>2, <1>3, <1>4, <1>5, <1>6 DEF Work

LEMMA StepKeepsReports == ASSUME Good(sdata), [Next]_vars PROVE Good(sdata')
<1>1. CASE Work
  BY <1>1, WorkKeepsReports
<1>2. CASE Calls
  BY <1>2, CallsKeepReports
<1>3. CASE notify_scan_completed
  BY <1>3, Neutral, AlikeGood DEF notify_scan_completed, restart_sta_timer, Good
<1>4. ASSUME NEW t \in Timers, TimerFires(t) PROVE Good(sdata')
  <2>1. Alike(sdata, [sdata EXCEPT !.timers = @ \ {t}])
    BY DEF Good, Typed, Alike
  <2>2. sdata' = [sdata EXCEPT !.timers = @ \ {t}]
    BY <1>4 DEF TimerFires
  <2> QED
    BY <2>1, <2>2, AlikeGood
<1>5. ASSUME NEW d \in Deadlines, TimePasses(d) PROVE Good(sdata')
  <2>1. Alike(sdata, [sdata EXCEPT !.late = @ \cup {d}])
    BY DEF Good, Typed, Alike
  <2>2. sdata' = [sdata EXCEPT !.late = @ \cup {d}]
    BY <1>5 DEF TimePasses
  <2> QED
    BY <2>1, <2>2, AlikeGood
<1>6. CASE DataArrives
  BY <1>6, Neutral, AlikeGood DEF DataArrives, Good
<1>7. CASE FrameArrives \/ GoOutOfRange \/ UNCHANGED vars
  BY <1>7 DEF FrameArrives, GoOutOfRange, vars
<1> QED
  BY <1>1, <1>2, <1>3, <1>4, <1>5, <1>6, <1>7 DEF Next

LEMMA InitReports == Init => Good(sdata)
  BY DEF Init, NoReports, Good, Typed, OneAtATime, Agrees

LEMMA GoodAgrees == ASSUME Good(sdata) PROVE ReportsAgree
<1> DEFINE told == [auth  |-> IF sdata.auth_data # None /\ ~sdata.auth_data.done
                              THEN sdata.auth_data.ap ELSE None,
                    assoc |-> IF sdata.assoc_data # None THEN sdata.assoc_data.ap ELSE None,
                    conn  |-> sdata.associated]
<1>1. sdata.cfg \in [auth: APs \cup {None}, assoc: APs \cup {None}, conn: APs \cup {None}]
  BY DEF Good, Typed
<1>2. /\ sdata.cfg.auth = told.auth /\ sdata.cfg.assoc = told.assoc
      /\ sdata.cfg.conn = told.conn
  BY DEF Good, Agrees
<1>3. sdata.cfg = told
  BY <1>1, <1>2
<1> QED
  BY <1>3 DEF ReportsAgree

(* In every reachable state, for any access points, frames and bounds, what *)
(* cfg80211 was told of authentication, association and connection is what  *)
(* mlme.c has under way: no call unanswered, no loss unreported.            *)
THEOREM Reports == Spec => []ReportsAgree
<1>1. Init => Good(sdata)
  BY InitReports
<1>2. Good(sdata) /\ [Next]_vars => Good(sdata)'
  BY StepKeepsReports
<1>3. Good(sdata) => ReportsAgree
  BY GoodAgrees
<1> QED
  BY <1>1, <1>2, <1>3, PTL DEF Spec

----------------------------------------------------------------------------
(***************************************************************************)
(* Nothing mlme.c has under way is forgotten, for any number of access     *)
(* points, frames, tries and bounds: an attempt has its timer, a           *)
(* connection somebody who watches it, a channel switch somebody who takes *)
(* it further.  The three are inductive only together (Sound), as the      *)
(* probe of a connection shares the timer of the attempts, and as the      *)
(* monitors keep still during a switch.                                    *)
(***************************************************************************)
Attempt(s) == s.auth_data # None \/ s.assoc_data # None

(* The interface work will look at the deadlines; Q are the works queued,  *)
(* b says that it runs.                                                    *)
Timed(s, Q, b) == "timer" \in s.timers \/ b \/ "iface" \in Q

Monitored(s, Q) ==
  \/ "bcn_mon" \in s.timers \/ "conn_mon" \in s.timers
  \/ "monitor" \in Q \/ "bcn_loss" \in Q \/ "csa_drop" \in Q

Driven(s, Q) ==
  s.csa_waiting_bcn \/ "chswitch" \in s.timers \/ "chswitch" \in Q \/ "csa_drop" \in Q

(* The inductive invariant.  A stale work of a switch that is over does    *)
(* not count as watching, and a probe or an attempt keeps scans away.      *)
Sound(s, Q, b, up, scan) ==
  /\ Attempt(s) => up /\ ~scan /\ Timed(s, Q, b)
  /\ s.associated # None => up
  /\ s.poll => s.associated # None /\ ~scan /\ Timed(s, Q, b)
  /\ s.csa_active => s.associated # None /\ Driven(s, Q)
  /\ s.stopped => s.csa_active /\ s.csa_block_tx
  /\ s.associated # None =>
       Monitored(s, Q) \/ s.poll \/ scan \/ (s.csa_active /\ ~s.csa_waiting_bcn)

Inv ==
  /\ Good(sdata)
  /\ workq \in Seq(Works)
  /\ Sound(sdata, ToSet(workq), inWork, running, scanning)

(* No connection and nothing that belongs to one.                          *)
Idle(s) == s.associated = None /\ ~s.poll /\ ~s.csa_active /\ ~s.stopped

(* Only timers are armed.                                                  *)
Calm(s, t) ==
  /\ Alike(s, t) /\ s.timers \subseteq t.timers
  /\ t.poll = s.poll /\ t.csa_active = s.csa_active /\ t.stopped = s.stopped
  /\ t.csa_block_tx = s.csa_block_tx /\ t.csa_waiting_bcn = s.csa_waiting_bcn

LEMMA IdleSound ==
  ASSUME NEW t, NEW Q, NEW b, NEW up, NEW scan, Idle(t),
         Attempt(t) => up /\ ~scan /\ Timed(t, Q, b)
  PROVE  Sound(t, Q, b, up, scan)
  BY DEF Idle, Sound

LEMMA AttemptIdle ==
  ASSUME NEW s, NEW Q, NEW b, NEW up, NEW scan, Good(s), Sound(s, Q, b, up, scan), Attempt(s)
  PROVE  Idle(s) /\ up /\ ~scan
  BY DEF Idle, Sound, Good, OneAtATime, Attempt

LEMMA CalmSound ==
  ASSUME NEW s, NEW t, NEW Q, NEW R, NEW b, NEW up, NEW scan,
         Sound(s, Q, b, up, scan), Calm(s, t), Q \subseteq R
  PROVE  Sound(t, R, b, up, scan)
  BY DEF Sound, Calm, Alike, Attempt, Timed, Monitored, Driven

LEMMA CalmTrans ==
  ASSUME NEW s, NEW t, NEW u, Calm(s, t), Calm(t, u) PROVE Calm(s, u)
  BY DEF Calm, Alike

----------------------------------------------------------------------------
(* The helpers.                                                            *)
LEMMA Arms ==
  ASSUME NEW s, Typed(s)
  PROVE  /\ Calm(s, s)
         /\ Calm(s, run_again(s)) /\ "timer" \in run_again(s).timers
         /\ Calm(s, reset_beacon_monitor(s)) /\ "bcn_mon" \in reset_beacon_monitor(s).timers
         /\ Calm(s, reset_conn_monitor(s))
<1>0. Calm(s, s)
  BY AlikeRefl DEF Calm
<1>1. Calm(s, run_again(s)) /\ "timer" \in run_again(s).timers
  BY DEF Typed, Alike, Calm, run_again
<1>2. Calm(s, reset_beacon_monitor(s)) /\ "bcn_mon" \in reset_beacon_monitor(s).timers
  BY DEF Typed, Alike, Calm, reset_beacon_monitor
<1>3. Calm(s, reset_conn_monitor(s))
  BY ZenonT(40) DEF Typed, Alike, Calm, reset_conn_monitor
<1> QED
  BY <1>0, <1>1, <1>2, <1>3

(* The end of a probe, and its next try.                                   *)
LEMMA Polls ==
  ASSUME NEW s, Typed(s)
  PROVE  /\ \/ ~s.poll /\ reset_ap_probe(s) = s
            \/ /\ Alike(s, reset_ap_probe(s)) /\ ~reset_ap_probe(s).poll
               /\ s.timers \subseteq reset_ap_probe(s).timers
               /\ "bcn_mon" \in reset_ap_probe(s).timers
               /\ reset_ap_probe(s).csa_active = s.csa_active
               /\ reset_ap_probe(s).csa_block_tx = s.csa_block_tx
               /\ reset_ap_probe(s).csa_waiting_bcn = s.csa_waiting_bcn
               /\ reset_ap_probe(s).stopped = s.stopped
         /\ Calm(s, mgd_probe_ap_send(s)) /\ "timer" \in mgd_probe_ap_send(s).timers
<1>1. Calm(s, mgd_probe_ap_send(s)) /\ "timer" \in mgd_probe_ap_send(s).timers
  BY DEF Typed, Alike, Calm, mgd_probe_ap_send, run_again
<1>2. CASE ~s.poll
  BY <1>1, <1>2 DEF reset_ap_probe
<1>3. CASE s.poll
  <2> DEFINE t == stop_poll(s)
             u == reset_beacon_monitor(t)
             v == [u EXCEPT !.timers = @ \cup {"conn_mon"}]
  <2>1. /\ Typed(t) /\ ~t.poll /\ t.timers = s.timers /\ t.csa_active = s.csa_active
        /\ t.csa_block_tx = s.csa_block_tx /\ t.csa_waiting_bcn = s.csa_waiting_bcn
        /\ t.stopped = s.stopped
    BY DEF Typed, stop_poll
  <2> HIDE DEF t
  <2>2. Calm(t, u) /\ "bcn_mon" \in u.timers /\ Typed(u)
    BY <2>1, Arms DEF Calm, Alike
  <2> HIDE DEF u
  <2>3. Calm(u, v) /\ "bcn_mon" \in v.timers
    BY <2>2 DEF Typed, Calm, Alike
  <2>4. reset_ap_probe(s) = v
    BY <1>3 DEF reset_ap_probe, v, u, t
  <2> HIDE DEF v
  <2>5. Calm(t, v)
    BY <2>2, <2>3, CalmTrans
  <2>6. Alike(s, v)
    BY <2>4, NeutralMore
  <2> QED
    BY <1>1, <2>1, <2>3, <2>4, <2>5, <2>6 DEF Calm
<1> QED
  BY <1>2, <1>3

LEMMA ApProbeSound ==
  ASSUME NEW s, NEW Q, NEW b, NEW up, NEW scan, Good(s), Sound(s, Q, b, up, scan)
  PROVE  Sound(reset_ap_probe(s), Q, b, up, scan)
<1> DEFINE t == reset_ap_probe(s)
<1>1. Typed(s)
  BY DEF Good
<1>2. \/ t = s
      \/ /\ Alike(s, t) /\ ~t.poll /\ s.timers \subseteq t.timers /\ "bcn_mon" \in t.timers
         /\ t.csa_active = s.csa_active /\ t.csa_block_tx = s.csa_block_tx
         /\ t.csa_waiting_bcn = s.csa_waiting_bcn /\ t.stopped = s.stopped
  BY <1>1, Polls
<1> HIDE DEF t
<1>3. Sound(t, Q, b, up, scan)
  BY <1>2 DEF Sound, Alike, Attempt, Timed, Monitored, Driven
<1> QED
  BY <1>3 DEF t

----------------------------------------------------------------------------
(* While an attempt is under way, and after a connection, everything that  *)
(* belongs to a connection stays away.                                     *)
LEMMA IdleStays ==
  ASSUME NEW s, Typed(s), Idle(s)
  PROVE  /\ Idle(run_again(s)) /\ "timer" \in run_again(s).timers
         /\ Idle(ReleaseChannel(s))
         /\ \A ap \in APs : Idle(Prepared(s, ap)) /\ Idle(GiveUp(s, ap))
         /\ \A ap : Idle(report_disconnect(s, ap))
         /\ \A what \in {"auth", "assoc"} :
              /\ Idle(Answered(s, what))
              /\ Answered(s, what).timers = s.timers
<1>1. Idle(run_again(s)) /\ "timer" \in run_again(s).timers
  BY DEF Typed, Idle, run_again
<1>2. Idle(ReleaseChannel(s))
  BY DEF Typed, Idle, ReleaseChannel
<1>3. ASSUME NEW ap \in APs PROVE Idle(Prepared(s, ap))
  <2> DEFINE t == [s EXCEPT !.sta = @ \cup {ap}, !.chan = TRUE]
  <2>1. Typed(t) /\ Idle(t)
    BY ZenonT(40) DEF Typed, Idle
  <2> HIDE DEF t
  <2>2. Idle(stop_poll(t))
    BY <2>1 DEF Typed, Idle, stop_poll
  <2>3. Prepared(s, ap) \in {t, stop_poll(t)}
    BY DEF Prepared, restart_sta_timer, t
  <2> QED
    BY <2>1, <2>2, <2>3
<1>4. ASSUME NEW ap \in APs PROVE Idle(GiveUp(s, ap))
  BY DEF Typed, Idle, GiveUp, ReleaseChannel
<1>5. ASSUME NEW ap PROVE Idle(report_disconnect(s, ap))
  BY DEF Typed, Idle, report_disconnect
<1>6. ASSUME NEW what \in {"auth", "assoc"}
      PROVE  Idle(Answered(s, what)) /\ Answered(s, what).timers = s.timers
  BY DEF Typed, Idle, Answered
<1> QED
  BY <1>1, <1>2, <1>3, <1>4, <1>5, <1>6

LEMMA AttemptEndsIdle ==
  ASSUME NEW s, Typed(s), Idle(s), NEW assoc \in BOOLEAN
  PROVE  /\ s.auth_data # None => Idle(destroy_auth_data(s, assoc))
         /\ s.assoc_data # None => Idle(destroy_assoc_data(s, assoc))
<1>1. ASSUME s.auth_data # None PROVE Idle(destroy_auth_data(s, assoc))
  <2> DEFINE t == IF assoc THEN s ELSE GiveUp(s, s.auth_data.ap)
  <2>1. s.auth_data.ap \in APs
    BY <1>1 DEF Typed, AuthTypes
  <2>2. Typed(t) /\ Idle(t)
    BY <2>1, NeutralMore, IdleStays DEF Alike
  <2>3. destroy_auth_data(s, assoc) = [t EXCEPT !.auth_data = None, !.late = @ \ {"auth"}]
    BY DEF destroy_auth_data
  <2> HIDE DEF t
  <2> QED
    BY <2>2, <2>3 DEF Idle, Typed
<1>2. ASSUME s.assoc_data # None PROVE Idle(destroy_assoc_data(s, assoc))
  <2> DEFINE t == IF assoc THEN s ELSE GiveUp(s, s.assoc_data.ap)
  <2>1. s.assoc_data.ap \in APs
    BY <1>2 DEF Typed, AssocTypes
  <2>2. Typed(t) /\ Idle(t)
    BY <2>1, NeutralMore, IdleStays DEF Alike
  <2>3. destroy_assoc_data(s, assoc) = [t EXCEPT !.assoc_data = None, !.late = @ \ {"assoc"}]
    BY DEF destroy_assoc_data
  <2> HIDE DEF t
  <2> QED
    BY <2>2, <2>3 DEF Idle, Typed
<1> QED
  BY <1>1, <1>2

(* One more try arms the timer.                                            *)
LEMMA TriesIdle ==
  ASSUME NEW s, Good(s), Idle(s)
  PROVE  /\ s.auth_data # None => /\ Idle(ieee80211_auth(s))
                                  /\ "timer" \in ieee80211_auth(s).timers
         /\ s.assoc_data # None => /\ Idle(ieee80211_do_assoc(s))
                                   /\ "timer" \in ieee80211_do_assoc(s).timers
<1>1. ASSUME s.auth_data # None
      PROVE  Idle(ieee80211_auth(s)) /\ "timer" \in ieee80211_auth(s).timers
  <2> DEFINE t == [s EXCEPT !.auth_data.tries = @ + 1, !.late = @ \ {"auth"}]
  <2>1. t.auth_data = [s.auth_data EXCEPT !.tries = @ + 1] /\ s.auth_data \in AuthTypes
    BY <1>1 DEF Good, Typed
  <2>2. t.auth_data \in AuthTypes
    BY <2>1 DEF AuthTypes
  <2>3. Typed(t) /\ Idle(t)
    BY <2>2 DEF Good, Typed, Idle
  <2>4. ieee80211_auth(s) = run_again(t)
    BY DEF ieee80211_auth
  <2> HIDE DEF t
  <2> QED
    BY <2>3, <2>4, IdleStays
<1>2. ASSUME s.assoc_data # None
      PROVE  Idle(ieee80211_do_assoc(s)) /\ "timer" \in ieee80211_do_assoc(s).timers
  <2> DEFINE t == [s EXCEPT !.assoc_data.tries = @ + 1, !.late = @ \ {"assoc"}]
  <2>1. t.assoc_data = [s.assoc_data EXCEPT !.tries = @ + 1] /\ s.assoc_data \in AssocTypes
    BY <1>2 DEF Good, Typed
  <2>2. t.assoc_data \in AssocTypes
    BY <2>1 DEF AssocTypes
  <2>3. Typed(t) /\ Idle(t)
    BY ZenonT(40), <2>2 DEF Good, Typed, Idle
  <2>4. ieee80211_do_assoc(s) = run_again(t)
    BY DEF ieee80211_do_assoc
  <2> HIDE DEF t
  <2> QED
    BY <2>3, <2>4, IdleStays
<1> QED
  BY <1>1, <1>2

(* Queues are stopped only for a switch that asked for it.               *)
Blocked(s) == s.stopped => s.csa_block_tx

LEMMA DisconnectLeaves ==
  ASSUME NEW s, Typed(s), Blocked(s)
  PROVE  Idle(Disconnect(s))
<1> DEFINE t == [s EXCEPT !.associated = None, !.poll = FALSE, !.late = {}, !.sta = {},
                          !.leaked = {}, !.timers = {}, !.csa_active = FALSE,
                          !.csa_waiting_bcn = FALSE]
           u == ReleaseChannel(t)
           v == WakeQueues(u)
<1>1. /\ Typed(t) /\ t.associated = None /\ ~t.poll /\ ~t.csa_active
      /\ t.stopped = s.stopped /\ t.csa_block_tx = s.csa_block_tx
  BY DEF Typed
<1> HIDE DEF t
<1>2. /\ Typed(u) /\ u.associated = None /\ ~u.poll /\ ~u.csa_active
      /\ u.stopped = s.stopped /\ u.csa_block_tx = s.csa_block_tx
  <2>1. Alike(t, u)
    BY <1>1, Neutral
  <2>2. ASSUME NEW x, Typed(x)
        PROVE  /\ ReleaseChannel(x).poll = x.poll /\ ReleaseChannel(x).stopped = x.stopped
               /\ ReleaseChannel(x).csa_active = x.csa_active
               /\ ReleaseChannel(x).csa_block_tx = x.csa_block_tx
    BY <2>2 DEF Typed, ReleaseChannel
  <2> QED
    BY <1>1, <2>1, <2>2 DEF Alike
<1> HIDE DEF u
<1>3. Typed(v) /\ Idle(v)
  <2>1. /\ v.stopped = (u.stopped /\ ~u.csa_block_tx) /\ v.associated = u.associated
        /\ v.poll = u.poll /\ v.csa_active = u.csa_active
    BY <1>2 DEF Typed, WakeQueues
  <2>2. ~(u.stopped /\ ~u.csa_block_tx)
    BY <1>2 DEF Blocked
  <2>3. Typed(v)
    BY <1>2, Neutral DEF Alike
  <2> QED
    BY <1>2, <2>1, <2>2, <2>3, Zenon DEF Idle
<1>4. Disconnect(s) = report_disconnect(v, s.associated)
  BY DEF Disconnect, set_disassoc, t, u
<1> HIDE DEF v
<1> QED
  BY <1>3, <1>4, IdleStays

LEMMA DisconnectIdle ==
  ASSUME NEW s, NEW Q, NEW b, NEW up, NEW scan, Good(s), Sound(s, Q, b, up, scan),
         s.associated # None
  PROVE  Idle(Disconnect(s)) /\ Good(Disconnect(s)) /\ ~Attempt(Disconnect(s))
<1>1. Blocked(s)
  BY DEF Sound, Blocked
<1>2. Idle(Disconnect(s))
  BY <1>1, DisconnectLeaves DEF Good
<1> QED
  BY <1>2, DisconnectGood DEF Nothing, Attempt

(* Without a connection there is nothing that belongs to one.              *)
LEMMA NoConnection ==
  ASSUME NEW s, NEW Q, NEW b, NEW up, NEW scan, Sound(s, Q, b, up, scan), s.associated = None
  PROVE  Idle(s)
  BY DEF Sound, Idle

----------------------------------------------------------------------------
(* The workqueue as a set.                                                 *)
LEMMA QueuedWorks ==
  ASSUME NEW q \in Seq(Works), NEW w \in Works
  PROVE  Queued(q, w) \in Seq(Works) /\ ToSet(Queued(q, w)) = ToSet(q) \cup {w}
<1>1. CASE w \in ToSet(q)
  BY <1>1 DEF Queued
<1>2. CASE w \notin ToSet(q)
  <2> DEFINE r == Append(q, w)
  <2>1. /\ r \in Seq(Works) /\ Len(r) = Len(q) + 1 /\ r[Len(q) + 1] = w
        /\ \A i \in 1..Len(q) : r[i] = q[i]
    OBVIOUS
  <2>2. /\ ToSet(q) = {q[i] : i \in 1..Len(q)}
        /\ ToSet(r) = {r[i] : i \in 1..Len(r)}
    BY DEF ToSet
  <2>3. Queued(q, w) = r
    BY <1>2 DEF Queued
  <2> HIDE DEF r
  <2>4. Len(q) \in Nat
    OBVIOUS
  <2>5. ToSet(r) = ToSet(q) \cup {w}
    BY <2>1, <2>2, <2>4
  <2> QED
    BY <2>1, <2>3, <2>5
<1> QED
  BY <1>1, <1>2

LEMMA NextWork ==
  ASSUME NEW q \in Seq(Works), q # <<>>
  PROVE  /\ Tail(q) \in Seq(Works) /\ Head(q) \in Works
         /\ ToSet(Tail(q)) \subseteq ToSet(q)
         /\ ToSet(q) \subseteq ToSet(Tail(q)) \cup {Head(q)}
<1> DEFINE r == Tail(q)
<1>1. /\ r \in Seq(Works) /\ Head(q) = q[1] /\ Len(r) = Len(q) - 1 /\ Len(q) \in Nat \ {0}
      /\ \A i \in 1..Len(r) : r[i] = q[i + 1]
  OBVIOUS
<1> HIDE DEF r
<1>2. /\ ToSet(q) = {q[i] : i \in 1..Len(q)}
      /\ ToSet(r) = {r[i] : i \in 1..Len(r)}
  BY <1>1 DEF ToSet
<1>3. Head(q) \in Works
  BY <1>1
<1>4. ToSet(r) \subseteq ToSet(q)
  BY <1>1, <1>2
<1>5. ASSUME NEW i \in 1..Len(q), i # 1 PROVE q[i] \in ToSet(r)
  <2>1. i - 1 \in 1..Len(r) /\ r[i - 1] = q[i]
    BY <1>1, <1>5
  <2> QED
    BY <1>2, <2>1
<1>6. ToSet(q) \subseteq ToSet(r) \cup {Head(q)}
  BY <1>1, <1>2, <1>5
<1> QED
  BY <1>1, <1>3, <1>4, <1>6 DEF r

----------------------------------------------------------------------------
(* The end of the interface work leaves the timer to whatever is pending.  *)
LEMMA StaWorkSound ==
  ASSUME NEW s, NEW Q, NEW b, NEW e, NEW up, NEW scan, Good(s),
         Sound(s, Q, b, up, scan)
  PROVE  Sound(ieee80211_sta_work(s), Q, e, up, scan)
<1> DEFINE a == StaWorkAuth(s)
           c == StaWorkAssoc(a)
           p == StaWorkPoll(c)
<1>0. ieee80211_sta_work(s) = p /\ Typed(s)
  BY DEF ieee80211_sta_work, Good
<1>1. CASE s.auth_data # None
  <2>0. s.assoc_data = None
    BY <1>1 DEF Good, OneAtATime
  <2>1. Idle(s) /\ up /\ ~scan
    BY <1>1, AttemptIdle DEF Attempt
  <2>2. /\ Alike(s, run_again(s)) /\ Idle(run_again(s)) /\ "timer" \in run_again(s).timers
    BY <1>0, <2>1, Neutral, IdleStays
  <2> DEFINE d == destroy_auth_data(s, FALSE)
  <2>3. Typed(d) /\ Idle(d) /\ d.auth_data = None /\ d.assoc_data = None
    BY <1>0, <1>1, <2>0, <2>1, AuthEnds, AttemptEndsIdle
  <2> HIDE DEF d
  <2>4. /\ Idle(Answered(d, "auth")) /\ Answered(d, "auth").auth_data = None
        /\ Answered(d, "auth").assoc_data = None
    BY <2>3, IdleStays, Told
  <2>5. /\ Idle(ieee80211_auth(s)) /\ "timer" \in ieee80211_auth(s).timers
        /\ ieee80211_auth(s).assoc_data = None
    <3>1. Good(ieee80211_auth(s)) /\ Good(s)
      BY <1>1, TriesGood
    <3>2. ieee80211_auth(s).assoc_data = None
      <4> DEFINE t == [s EXCEPT !.auth_data.tries = @ + 1, !.late = @ \ {"auth"}]
      <4>1. t.auth_data = [s.auth_data EXCEPT !.tries = @ + 1] /\ s.auth_data \in AuthTypes
        BY <1>1 DEF Good, Typed
      <4>2. t.auth_data \in AuthTypes
        BY <4>1 DEF AuthTypes
      <4>3. Typed(t) /\ t.assoc_data = None
        BY <2>0, <4>2 DEF Good, Typed
      <4>4. ieee80211_auth(s) = run_again(t)
        BY DEF ieee80211_auth
      <4> HIDE DEF t
      <4> QED
        BY <4>3, <4>4, Neutral DEF Alike
    <3> QED
      BY <1>1, <2>1, <3>2, TriesIdle
  <2>6. Idle(a) /\ a.assoc_data = None /\ (Attempt(a) => "timer" \in a.timers)
    BY <1>1, <2>0, <2>1, <2>2, <2>3, <2>4, <2>5 DEF StaWorkAuth, Alike, Attempt, d
  <2> HIDE DEF a
  <2>7. c = a
    BY <2>6 DEF StaWorkAssoc
  <2>8. p = a
    BY <2>6, <2>7 DEF StaWorkPoll, Idle
  <2> QED
    BY <1>0, <2>1, <2>6, <2>8, IdleSound DEF Timed
<1>2. CASE s.auth_data = None /\ s.assoc_data # None
  <2>0. a = s
    BY <1>2 DEF StaWorkAuth
  <2>1. Idle(s) /\ up /\ ~scan
    BY <1>2, AttemptIdle DEF Attempt
  <2>2. /\ Idle(run_again(s)) /\ "timer" \in run_again(s).timers
    BY <1>0, <2>1, IdleStays
  <2> DEFINE d == destroy_assoc_data(s, FALSE)
  <2>3. Typed(d) /\ Idle(d) /\ d.auth_data = None /\ d.assoc_data = None
    BY <1>0, <1>2, <2>1, AssocEnds, AttemptEndsIdle
  <2> HIDE DEF d
  <2>4. /\ Idle(Answered(d, "assoc")) /\ Answered(d, "assoc").auth_data = None
        /\ Answered(d, "assoc").assoc_data = None
    BY <2>3, IdleStays, Told
  <2>5. Idle(ieee80211_do_assoc(s)) /\ "timer" \in ieee80211_do_assoc(s).timers
    BY <1>2, <2>1, TriesIdle
  <2>6. Idle(c) /\ (Attempt(c) => "timer" \in c.timers)
    BY <1>2, <2>0, <2>1, <2>2, <2>4, <2>5 DEF StaWorkAssoc, Attempt, d
  <2> HIDE DEF c
  <2>7. p = c
    BY <2>6 DEF StaWorkPoll, Idle
  <2> QED
    BY <1>0, <2>1, <2>6, <2>7, IdleSound DEF Timed
<1>3. CASE s.auth_data = None /\ s.assoc_data = None
  <2>0. a = s /\ c = s
    BY <1>3 DEF StaWorkAuth, StaWorkAssoc
  <2>1. ~Attempt(s)
    BY <1>3 DEF Attempt
  <2>2. CASE ~s.poll \/ s.associated = None
    <3>1. p = s /\ ~s.poll
      BY <2>0, <2>2 DEF StaWorkPoll, Sound
    <3>2. Sound(s, Q, e, up, scan)
      BY <2>1, <3>1 DEF Sound, Timed
    <3> QED
      BY <1>0, <3>1, <3>2
  <2>3. CASE s.poll /\ s.associated # None
    <3> DEFINE ended == reset_ap_probe(s)
               again == mgd_probe_ap_send(s)
    <3>1. \/ p = ended \/ p = run_again(s) \/ p = again \/ p = Disconnect(s)
      BY <2>0, <2>3 DEF StaWorkPoll
    <3>2. CASE p = ended
      <4>1. /\ Alike(s, ended) /\ ~ended.poll /\ "bcn_mon" \in ended.timers
            /\ s.timers \subseteq ended.timers /\ ended.csa_active = s.csa_active
            /\ ended.csa_block_tx = s.csa_block_tx
            /\ ended.csa_waiting_bcn = s.csa_waiting_bcn /\ ended.stopped = s.stopped
        BY <1>0, <2>3, Polls
      <4> HIDE DEF ended
      <4>2. Sound(ended, Q, e, up, scan)
        BY <2>1, <4>1 DEF Sound, Alike, Attempt, Timed, Monitored, Driven
      <4> QED
        BY <1>0, <3>2, <4>2
    <3>3. ASSUME NEW t, p = t, Calm(s, t), "timer" \in t.timers
          PROVE  Sound(p, Q, e, up, scan)
      BY <3>3 DEF Sound, Calm, Alike, Attempt, Timed, Monitored, Driven
    <3>4. CASE p = run_again(s) \/ p = again
      <4> HIDE DEF p
      <4> QED
        BY <1>0, <3>3, <3>4, Arms, Polls
    <3>5. CASE p = Disconnect(s)
      BY <1>0, <2>3, <3>5, DisconnectIdle, IdleSound
    <3> QED
      BY <1>0, <3>1, <3>2, <3>4, <3>5
  <2> QED
    BY <2>2, <2>3
<1> QED
  BY <1>1, <1>2, <1>3

----------------------------------------------------------------------------
(* A channel switch is announced, taken further and ended.                 *)
LEMMA ChanswitchSound ==
  ASSUME NEW s, Good(s), NEW q \in Seq(Works), NEW csa, NEW up, NEW b, b,
         Sound(s, ToSet(q), b, up, scanning), NEW r \in ProcessChanswitch(s, q, csa)
  PROVE  Sound(r[1], ToSet(r[2]), b, up, scanning) /\ r[2] \in Seq(Works)
<1> DEFINE yes  == CsaStarted(s, csa, TRUE)
           no   == CsaStarted(s, csa, FALSE)
           more == csa.count > 1
           on   == Queued(q, "chswitch")
           off  == Queued(q, "csa_drop")
<1>1. /\ on \in Seq(Works) /\ ToSet(on) = ToSet(q) \cup {"chswitch"}
      /\ off \in Seq(Works) /\ ToSet(off) = ToSet(q) \cup {"csa_drop"}
  BY QueuedWorks DEF Works
<1>2. Typed(s) /\ Calm(s, s)
  BY Arms DEF Good
<1>3. CASE r = <<s, q>>
  BY <1>3
<1>4. CASE r = <<s, off>>
  <2>1. Sound(s, ToSet(off), b, up, scanning)
    BY <1>1, <1>2, CalmSound
  <2> HIDE DEF off
  <2> QED
    BY <1>1, <1>4, <2>1
<1>5. CASE ~CsaIgnored(s) /\ r = <<yes, IF more THEN q ELSE on>>
  <2>1. s.associated # None /\ ~scanning /\ ~s.csa_active
    BY <1>5 DEF CsaIgnored
  <2>2. Alike(s, yes)
    BY <1>2, NeutralMore
  <2>3. /\ yes.csa_active /\ yes.poll = s.poll /\ s.timers \subseteq yes.timers
        /\ yes.csa_block_tx = csa.block /\ yes.csa_waiting_bcn = s.csa_waiting_bcn
        /\ yes.stopped = (s.stopped \/ (TRUE /\ csa.block))
        /\ more => "chswitch" \in yes.timers
    BY <1>2 DEF CsaStarted, Typed
  <2> HIDE DEF yes
  <2>4. yes.stopped => yes.csa_block_tx
    BY <2>1, <2>3, Zenon DEF Sound
  <2>5. ASSUME NEW Q, ToSet(q) \subseteq Q, more \/ "chswitch" \in Q
        PROVE  Sound(yes, Q, b, up, scanning)
    BY <2>1, <2>2, <2>3, <2>4, <2>5 DEF Sound, Alike, Attempt, Timed, Monitored, Driven
  <2> HIDE DEF on, more
  <2> QED
    BY <1>1, <1>5, <2>5
<1>6. CASE ~CsaIgnored(s) /\ r = <<no, off>>
  <2>1. s.associated # None /\ ~scanning /\ ~s.csa_active
    BY <1>6 DEF CsaIgnored
  <2>2. Alike(s, no)
    BY <1>2, NeutralMore
  <2>3. /\ no.csa_active /\ no.poll = s.poll /\ s.timers \subseteq no.timers
        /\ no.csa_waiting_bcn = s.csa_waiting_bcn
        /\ no.stopped = (s.stopped \/ (FALSE /\ csa.block))
    BY <1>2 DEF CsaStarted, Typed
  <2> HIDE DEF no
  <2>4. ~no.stopped
    BY <2>1, <2>3, Zenon DEF Sound
  <2>5. Sound(no, ToSet(off), b, up, scanning)
    BY <1>1, <2>1, <2>2, <2>3, <2>4 DEF Sound, Alike, Attempt, Timed, Monitored, Driven
  <2> HIDE DEF off
  <2> QED
    BY <1>1, <1>6, <2>5
<1>7. \/ r = <<s, q>> \/ r = <<s, off>>
      \/ ~CsaIgnored(s) /\ (r = <<yes, IF more THEN q ELSE on>> \/ r = <<no, off>>)
  BY DEF ProcessChanswitch
<1> QED
  BY <1>3, <1>4, <1>5, <1>6, <1>7

(* The work of the switch, which the queue q no longer holds.              *)
LEMMA ChswitchWorkSound ==
  ASSUME NEW s, Good(s), NEW q \in Seq(Works), NEW b,
         Sound(s, ToSet(q) \cup {"chswitch"}, b, running, scanning),
         NEW r \in chswitch_work(s, q)
  PROVE  Sound(r[1], ToSet(r[2]), b, running, scanning) /\ r[2] \in Seq(Works)
<1> DEFINE ready == [s EXCEPT !.reserved = FALSE, !.switched = TRUE]
           u     == [s EXCEPT !.csa_waiting_bcn = TRUE]
           v     == reset_beacon_monitor(u)
           w     == reset_conn_monitor(v)
           on    == Queued(q, "chswitch")
           off   == Queued(q, "csa_drop")
<1>1. /\ on \in Seq(Works) /\ ToSet(on) = ToSet(q) \cup {"chswitch"}
      /\ off \in Seq(Works) /\ ToSet(off) = ToSet(q) \cup {"csa_drop"}
  BY QueuedWorks DEF Works
<1>2. Typed(s)
  BY DEF Good
<1>3. CASE r = <<s, q>> /\ (~running \/ s.associated = None \/ ~s.csa_active)
  <2>1. Sound(s, ToSet(q), b, running, scanning)
    BY <1>3 DEF Sound, Timed, Monitored, Driven
  <2> QED
    BY <1>3, <2>1
<1>4. CASE r = <<ready, on>>
  <2>1. Calm(s, ready)
    BY <1>2 DEF Calm, Alike, Typed
  <2> HIDE DEF ready
  <2>2. Sound(ready, ToSet(on), b, running, scanning)
    BY <1>1, <2>1, CalmSound
  <2> HIDE DEF on
  <2> QED
    BY <1>1, <1>4, <2>2
<1>5. CASE r = <<s, off>>
  <2>1. Sound(s, ToSet(off), b, running, scanning)
    BY <1>1 DEF Sound, Timed, Monitored, Driven
  <2> HIDE DEF off
  <2> QED
    BY <1>1, <1>5, <2>1
<1>6. CASE r = <<w, q>>
  <2>1. /\ Alike(s, u) /\ u.timers = s.timers /\ u.csa_waiting_bcn /\ u.poll = s.poll
        /\ u.csa_active = s.csa_active /\ u.csa_block_tx = s.csa_block_tx
        /\ u.stopped = s.stopped
    BY <1>2 DEF Alike, Typed
  <2> HIDE DEF u
  <2>2. Calm(u, v) /\ "bcn_mon" \in v.timers /\ Typed(v)
    BY <2>1, Arms DEF Alike, Calm
  <2> HIDE DEF v
  <2>3. Calm(v, w)
    BY <2>2, Arms
  <2> HIDE DEF w
  <2>4. Calm(u, w) /\ "bcn_mon" \in w.timers
    BY <2>2, <2>3, CalmTrans DEF Calm
  <2>5. Sound(w, ToSet(q), b, running, scanning)
    BY <2>1, <2>4 DEF Sound, Calm, Alike, Attempt, Timed, Monitored, Driven
  <2> QED
    BY <1>6, <2>5
<1>7. \/ r = <<s, q>> /\ (~running \/ s.associated = None \/ ~s.csa_active)
      \/ r = <<ready, on>> \/ r = <<s, off>> \/ r = <<w, q>>
  BY DEF chswitch_work
<1> QED
  BY <1>3, <1>4, <1>5, <1>6, <1>7

(* A beacon.                                                               *)
LEMMA HeardSound ==
  ASSUME NEW s, NEW Q, NEW b, NEW up, NEW scan, Good(s), Sound(s, Q, b, up, scan)
  PROVE  Sound(BeaconHeard(s), Q, b, up, scan)
<1> DEFINE p == reset_ap_probe(s)
           t == reset_beacon_monitor(p)
           u == WakeQueues(t)
           v == chswitch_post_beacon(t)
<1>1. Typed(s) /\ Typed(p) /\ Sound(p, Q, b, up, scan) /\ p.csa_waiting_bcn = s.csa_waiting_bcn
  BY ApProbeSound, NeutralMore, Polls DEF Good, Alike
<1> HIDE DEF p
<1>2. Calm(p, t) /\ "bcn_mon" \in t.timers /\ Typed(t)
  BY <1>1, Arms DEF Calm, Alike
<1> HIDE DEF t
<1>3. Sound(t, Q, b, up, scan)
  BY <1>1, <1>2, CalmSound
<1>4. /\ Alike(t, u) /\ u.stopped = (t.stopped /\ ~t.csa_block_tx)
      /\ u.timers = t.timers /\ u.poll = t.poll
  BY <1>2, Neutral DEF Typed, WakeQueues
<1>5. v = [u EXCEPT !.csa_active = FALSE, !.csa_waiting_bcn = FALSE]
  BY DEF chswitch_post_beacon
<1>6. ~(t.stopped /\ ~t.csa_block_tx)
  BY <1>3 DEF Sound
<1>7. ~u.stopped
  BY <1>4, <1>6, Zenon
<1> HIDE DEF u, v
<1>8. /\ Alike(u, v) /\ ~v.csa_active /\ v.stopped = u.stopped
      /\ v.timers = u.timers /\ v.poll = u.poll
  BY <1>4, <1>5 DEF Typed, Alike
<1>9. Sound(v, Q, b, up, scan)
  BY <1>2, <1>3, <1>4, <1>7, <1>8 DEF Sound, Alike, Attempt, Timed, Monitored
<1>10. BeaconHeard(s) = IF s.csa_waiting_bcn THEN v ELSE t
  BY DEF BeaconHeard, v, t, p
<1> QED
  BY <1>3, <1>9, <1>10

LEMMA BeaconSound ==
  ASSUME NEW s, Good(s), NEW q \in Seq(Works), NEW f, f.ap \in APs, NEW up, NEW b, b,
         Sound(s, ToSet(q), b, up, scanning), NEW r \in rx_mgmt_beacon(s, q, f)
  PROVE  Sound(r[1], ToSet(r[2]), b, up, scanning) /\ r[2] \in Seq(Works)
<1>1. CASE s.associated # f.ap
  <2>1. r = <<s, q>>
    BY <1>1 DEF rx_mgmt_beacon
  <2> QED
    BY <2>1
<1>2. CASE s.associated = f.ap
  <2> DEFINE heard == BeaconHeard(s)
             more  == IF f.csa = None THEN {<<heard, q>>}
                      ELSE ProcessChanswitch(heard, q, f.csa)
  <2>1. Alike(s, heard) /\ Sound(heard, ToSet(q), b, up, scanning)
    BY NeutralMore, HeardSound DEF Good
  <2>2. Good(heard) /\ heard.associated # None
    BY <1>2, <2>1, AlikeGood, MlmeAssumption DEF Alike
  <2>3. rx_mgmt_beacon(s, q, f)
          = {<<heard, q>>} \cup more \cup {<<Disconnect(m[1]), m[2]>> : m \in more}
    BY <1>2 DEF rx_mgmt_beacon
  <2> HIDE DEF heard
  <2>4. ASSUME NEW m \in more
        PROVE  /\ Good(m[1]) /\ m[1].associated # None /\ m[2] \in Seq(Works)
               /\ Sound(m[1], ToSet(m[2]), b, up, scanning)
    <3>1. CASE f.csa = None
      <4>1. m = <<heard, q>>
        BY <2>4, <3>1
      <4>2. m[1] = heard /\ m[2] = q
        BY <4>1
      <4> QED
        BY <2>1, <2>2, <4>2
    <3>2. CASE f.csa # None
      <4>1. m \in ProcessChanswitch(heard, q, f.csa)
        BY <2>4, <3>2
      <4>2. Good(m[1]) /\ m[1].associated # None
        BY <2>2, <4>1, ChanswitchGood
      <4>3. Sound(m[1], ToSet(m[2]), b, up, scanning) /\ m[2] \in Seq(Works)
        BY <2>1, <2>2, <4>1, ChanswitchSound, Zenon
      <4> QED
        BY <4>2, <4>3
    <3> QED
      BY <3>1, <3>2
  <2> HIDE DEF more
  <2>5. ASSUME NEW m \in more
        PROVE  Sound(Disconnect(m[1]), ToSet(m[2]), b, up, scanning)
    BY <2>4, <2>5, DisconnectIdle, IdleSound
  <2>6. CASE r = <<heard, q>>
    BY <2>1, <2>6
  <2>7. CASE r \in more
    BY <2>4, <2>7
  <2>8. CASE \E m \in more : r = <<Disconnect(m[1]), m[2]>>
    <3>1. PICK m \in more : r = <<Disconnect(m[1]), m[2]>>
      BY <2>8
    <3>2. r[1] = Disconnect(m[1]) /\ r[2] = m[2]
      BY <3>1
    <3>3. Sound(Disconnect(m[1]), ToSet(m[2]), b, up, scanning) /\ m[2] \in Seq(Works)
      BY <2>4, <2>5
    <3> QED
      BY <3>2, <3>3
  <2> QED
    BY <2>3, <2>6, <2>7, <2>8
<1> QED
  BY <1>1, <1>2

----------------------------------------------------------------------------
(* The other frames, which leave the workqueue alone.                      *)
LEMMA AttemptOver ==
  ASSUME NEW s, Typed(s), Idle(s), NEW ap
  PROVE  /\ s.auth_data # None =>
              /\ Idle(Answered(destroy_auth_data(s, FALSE), "auth"))
              /\ Idle(report_disconnect(destroy_auth_data(s, FALSE), ap))
         /\ s.assoc_data # None =>
              /\ Idle(Answered(destroy_assoc_data(s, FALSE), "assoc"))
              /\ Idle(report_disconnect(destroy_assoc_data(s, FALSE), ap))
<1>1. ASSUME s.auth_data # None
      PROVE  /\ Idle(Answered(destroy_auth_data(s, FALSE), "auth"))
             /\ Idle(report_disconnect(destroy_auth_data(s, FALSE), ap))
  <2> DEFINE d == destroy_auth_data(s, FALSE)
  <2>1. Typed(d) /\ Idle(d)
    BY <1>1, AuthEnds, AttemptEndsIdle
  <2> HIDE DEF d
  <2>2. Idle(Answered(d, "auth")) /\ Idle(report_disconnect(d, ap))
    BY <2>1, IdleStays
  <2> QED
    BY <2>2 DEF d
<1>2. ASSUME s.assoc_data # None
      PROVE  /\ Idle(Answered(destroy_assoc_data(s, FALSE), "assoc"))
             /\ Idle(report_disconnect(destroy_assoc_data(s, FALSE), ap))
  <2> DEFINE d == destroy_assoc_data(s, FALSE)
  <2>1. Typed(d) /\ Idle(d)
    BY <1>2, AssocEnds, AttemptEndsIdle
  <2> HIDE DEF d
  <2>2. Idle(Answered(d, "assoc")) /\ Idle(report_disconnect(d, ap))
    BY <2>1, IdleStays
  <2> QED
    BY <2>2 DEF d
<1> QED
  BY <1>1, <1>2

LEMMA AuthFrameSound ==
  ASSUME NEW s, Good(s), NEW Q, NEW f, NEW up, NEW b, b, NEW scan, Sound(s, Q, b, up, scan)
  PROVE  Sound(rx_mgmt_auth(s, f), Q, b, up, scan)
<1>1. CASE s.auth_data = None
  BY <1>1 DEF rx_mgmt_auth, From
<1>2. CASE s.auth_data # None
  <2> DEFINE t == [s EXCEPT !.auth_data.done = TRUE, !.late = @ \ {"auth"}]
             u == run_again(t)
             v == Answered(u, "auth")
             d == Answered(destroy_auth_data(s, FALSE), "auth")
  <2>1. Idle(s) /\ up /\ ~scan
    BY <1>2, AttemptIdle DEF Attempt
  <2>2. Idle(d)
    BY <1>2, <2>1, AttemptOver DEF Good
  <2>3. t.auth_data = [s.auth_data EXCEPT !.done = TRUE] /\ s.auth_data \in AuthTypes
    BY <1>2 DEF Good, Typed
  <2>4. t.auth_data \in AuthTypes
    BY <2>3 DEF AuthTypes
  <2>5. Typed(t) /\ Idle(t)
    BY <2>1, <2>4 DEF Good, Typed, Idle
  <2> HIDE DEF t
  <2>6. Typed(u) /\ Idle(u)
    BY <2>5, IdleStays, Neutral DEF Alike
  <2> HIDE DEF u
  <2>7. Idle(v)
    BY <2>6, IdleStays
  <2>8. rx_mgmt_auth(s, f) \in {s, d, v}
    BY DEF rx_mgmt_auth, v, u, t
  <2> HIDE DEF d, v
  <2> QED
    BY <2>1, <2>2, <2>7, <2>8, IdleSound DEF Timed
<1> QED
  BY <1>1, <1>2

LEMMA EndFrameSound ==
  ASSUME NEW s, Good(s), NEW Q, NEW f, f.ap \in APs, NEW up, NEW b, b, NEW scan,
         Sound(s, Q, b, up, scan)
  PROVE  /\ Sound(rx_mgmt_deauth(s, f), Q, b, up, scan)
         /\ Sound(rx_mgmt_disassoc(s, f), Q, b, up, scan)
         /\ Sound(rx_mgmt_probe_resp(s, f), Q, b, up, scan)
<1>1. s.associated = f.ap => Sound(Disconnect(s), Q, b, up, scan)
  BY DisconnectIdle, IdleSound, MlmeAssumption
<1>2. Sound(rx_mgmt_disassoc(s, f), Q, b, up, scan)
  BY <1>1 DEF rx_mgmt_disassoc
<1>3. Sound(rx_mgmt_probe_resp(s, f), Q, b, up, scan)
  BY ApProbeSound DEF rx_mgmt_probe_resp
<1>4. ASSUME s.assoc_data # None
      PROVE  Sound(report_disconnect(destroy_assoc_data(s, FALSE), f.ap), Q, b, up, scan)
  <2> DEFINE d == report_disconnect(destroy_assoc_data(s, FALSE), f.ap)
  <2>1. Idle(s) /\ up /\ ~scan
    BY <1>4, AttemptIdle DEF Attempt
  <2>2. Idle(d)
    BY <1>4, <2>1, AttemptOver DEF Good
  <2> HIDE DEF d
  <2>3. Sound(d, Q, b, up, scan)
    BY <2>1, <2>2, IdleSound DEF Timed
  <2> QED
    BY <2>3 DEF d
<1>5. Sound(rx_mgmt_deauth(s, f), Q, b, up, scan)
  BY <1>1, <1>4 DEF rx_mgmt_deauth, From
<1> QED
  BY <1>2, <1>3, <1>5

LEMMA AssocRespSound ==
  ASSUME NEW s, Good(s), NEW Q, NEW f, f.ap \in APs, NEW up, NEW scan, NEW b,
         Sound(s, Q, b, up, scan), b,
         f.kind \in {"assoc_ok", "assoc_denied", "assoc_comeback"}
  PROVE  \A r \in rx_mgmt_assoc_resp(s, f) : Sound(r, Q, b, up, scan)
<1> SUFFICES ASSUME NEW r \in rx_mgmt_assoc_resp(s, f)
             PROVE  Sound(r, Q, b, up, scan)
  OBVIOUS
<1>1. CASE ~From(f, s.assoc_data)
  BY <1>1 DEF rx_mgmt_assoc_resp
<1>2. CASE From(f, s.assoc_data)
  <2> DEFINE t        == [s EXCEPT !.late = @ \ {"assoc"}]
             failed   == Answered(destroy_assoc_data(s, FALSE), "assoc")
             a        == assoc_success(s, f.ap)
             e        == destroy_assoc_data(a, TRUE)
             x        == Answered(e, "assoc")
             accepted == [x EXCEPT !.cfg.conn = f.ap]
  <2>1. s.assoc_data # None
    BY <1>2 DEF From
  <2>2. Idle(s) /\ up /\ ~scan /\ Typed(s)
    <3>0. Attempt(s)
      BY <2>1 DEF Attempt
    <3>1. Idle(s) /\ up /\ ~scan
      BY <3>0 DEF Idle, Sound, Good, OneAtATime, Attempt
    <3> QED
      BY <3>1 DEF Good
  <2>3. r \in {run_again(t), t, failed, accepted}
    BY <1>2 DEF rx_mgmt_assoc_resp
  <2>4. Typed(t) /\ Idle(t)
    BY <2>2 DEF Typed, Idle
  <2> HIDE DEF t
  <2>5. Idle(run_again(t)) /\ Idle(failed)
    BY <2>1, <2>2, <2>4, IdleStays, AttemptOver
  <2>6. ASSUME NEW z, Idle(z) PROVE Sound(z, Q, b, up, scan)
    BY <2>2, <2>6, IdleSound DEF Timed
  <2>7. /\ Typed(a) /\ a.associated = f.ap /\ a.assoc_data # None /\ a.auth_data = None
        /\ ~a.poll /\ ~a.csa_active /\ ~a.stopped /\ "bcn_mon" \in a.timers
    <3> DEFINE p == stop_poll(s)
               n == [p EXCEPT !.associated = f.ap]
               m == reset_conn_monitor(n)
    <3>1. Alike(s, p) /\ Idle(p)
      BY <2>2, Neutral DEF Idle, Typed, stop_poll
    <3> HIDE DEF p
    <3>2. s.auth_data = None
      BY <2>1 DEF Good, OneAtATime
    <3>3. /\ Typed(n) /\ n.associated = f.ap /\ n.assoc_data # None /\ n.auth_data = None
          /\ ~n.poll /\ ~n.csa_active /\ ~n.stopped
      BY <2>1, <3>1, <3>2 DEF Alike, Typed, Idle
    <3>4. a = reset_beacon_monitor(m)
      BY DEF assoc_success, set_associated, p
    <3> HIDE DEF n
    <3>5. Calm(n, m) /\ Typed(m)
      BY <3>3, Arms DEF Calm, Alike
    <3> HIDE DEF m
    <3>6. Calm(m, a) /\ "bcn_mon" \in a.timers
      BY <3>4, <3>5, Arms
    <3> HIDE DEF a
    <3> QED
      BY <3>3, <3>5, <3>6 DEF Calm, Alike
  <2>8. e = [a EXCEPT !.assoc_data = None, !.late = @ \ {"assoc"}]
    BY DEF destroy_assoc_data
  <2> HIDE DEF a
  <2>9. /\ Typed(e) /\ e.associated = f.ap /\ e.assoc_data = None /\ e.auth_data = None
        /\ ~e.poll /\ ~e.csa_active /\ ~e.stopped /\ "bcn_mon" \in e.timers
    BY <2>7, <2>8 DEF Typed
  <2> HIDE DEF e
  <2>10. /\ x.associated = f.ap /\ x.assoc_data = None /\ x.auth_data = None
         /\ ~x.poll /\ ~x.csa_active /\ ~x.stopped /\ "bcn_mon" \in x.timers /\ Typed(x)
    <3>1. Typed(x)
      BY <2>9, Told
    <3> QED
      BY <2>9, <3>1 DEF Typed, Answered
  <2> HIDE DEF x
  <2>11. /\ accepted.associated = f.ap /\ accepted.assoc_data = None
         /\ accepted.auth_data = None /\ ~accepted.poll /\ ~accepted.csa_active
         /\ ~accepted.stopped /\ "bcn_mon" \in accepted.timers
    BY <2>10 DEF Typed
  <2> HIDE DEF accepted
  <2>12. Sound(accepted, Q, b, up, scan)
    BY <2>2, <2>11 DEF Sound, Attempt, Monitored
  <2> HIDE DEF failed
  <2> QED
    BY <2>3, <2>4, <2>5, <2>6, <2>12
<1> QED
  BY <1>1, <1>2

LEMMA ReceivedSound ==
  ASSUME NEW s, Good(s), NEW q \in Seq(Works), NEW f \in Frames, NEW up, NEW b, b,
         Sound(s, ToSet(q), b, up, scanning), NEW r \in Received(s, q, f)
  PROVE  Sound(r[1], ToSet(r[2]), b, up, scanning) /\ r[2] \in Seq(Works)
<1>1. f.ap \in APs /\ f.kind \in Kinds
  BY MlmeAssumption
<1>2. CASE f.kind = "beacon"
  BY <1>1, <1>2, BeaconSound DEF Received
<1>3. CASE f.kind = "action"
  <2>1. r \in ProcessChanswitch(s, q, f.csa) \/ r = <<s, q>>
    BY <1>3 DEF Received
  <2>2. CASE r = <<s, q>>
    BY <2>2
  <2>3. CASE r \in ProcessChanswitch(s, q, f.csa)
    BY <2>3, ChanswitchSound, Zenon
  <2> QED
    BY <2>1, <2>2, <2>3
<1>4. CASE f.kind \in {"assoc_ok", "assoc_denied", "assoc_comeback"}
  <2>1. r \in {<<a, q>> : a \in rx_mgmt_assoc_resp(s, f)}
    BY <1>4 DEF Received
  <2>2. PICK a \in rx_mgmt_assoc_resp(s, f) : r = <<a, q>>
    BY <2>1
  <2>3. Sound(a, ToSet(q), b, up, scanning)
    <3>1. f.ap \in APs /\ f.kind \in {"assoc_ok", "assoc_denied", "assoc_comeback"}
      BY <1>1, <1>4
    <3>2. a \in rx_mgmt_assoc_resp(s, f)
      BY <2>2
    <3> QED
      <4>1. \A x \in rx_mgmt_assoc_resp(s, f) : Sound(x, ToSet(q), b, up, scanning)
        BY <3>1, AssocRespSound
      <4> QED
        BY <3>2, <4>1
  <2> QED
    BY <2>2, <2>3
<1>5. CASE f.kind \in {"auth_ok", "auth_denied", "probe_resp", "deauth", "disassoc"}
  <2>1. \/ r = <<rx_mgmt_auth(s, f), q>> \/ r = <<rx_mgmt_probe_resp(s, f), q>>
        \/ r = <<rx_mgmt_deauth(s, f), q>> \/ r = <<rx_mgmt_disassoc(s, f), q>>
    BY <1>5 DEF Received
  <2>2. q \in Seq(Works)
    OBVIOUS
  <2>3. /\ Sound(rx_mgmt_auth(s, f), ToSet(q), b, up, scanning)
        /\ Sound(rx_mgmt_deauth(s, f), ToSet(q), b, up, scanning)
        /\ Sound(rx_mgmt_disassoc(s, f), ToSet(q), b, up, scanning)
        /\ Sound(rx_mgmt_probe_resp(s, f), ToSet(q), b, up, scanning)
    BY <1>1, AuthFrameSound, EndFrameSound
  <2>4. ASSUME NEW t, r = <<t, q>>, Sound(t, ToSet(q), b, up, scanning)
        PROVE  Sound(r[1], ToSet(r[2]), b, up, scanning) /\ r[2] \in Seq(Works)
    BY <2>2, <2>4
  <2> QED
    BY <2>1, <2>3, <2>4
<1> QED
  BY <1>1, <1>2, <1>3, <1>4, <1>5 DEF Kinds

----------------------------------------------------------------------------
(* The works, each taken from the queue.                                   *)
LEMMA ProbeWorkSound ==
  ASSUME NEW s, Good(s), NEW Q, NEW R, NEW b, NEW w \in {"monitor", "bcn_loss"},
         Sound(s, Q, b, running, scanning), R \subseteq Q, Q \subseteq R \cup {w}
  PROVE  Sound(mgd_probe_ap(s), R, b, running, scanning)
<1> DEFINE t == [s EXCEPT !.poll = TRUE, !.probe_send_count = 0]
           u == mgd_probe_ap_send(t)
<1>1. CASE mgd_probe_ap(s) = s /\ (~running \/ s.associated = None \/ scanning \/ s.poll)
  <2>1. Sound(s, R, b, running, scanning)
    BY <1>1 DEF Sound, Timed, Monitored, Driven
  <2> QED
    BY <1>1, <2>1
<1>2. CASE mgd_probe_ap(s) = u /\ running /\ s.associated # None /\ ~scanning
  <2>1. /\ Alike(s, t) /\ t.timers = s.timers /\ t.csa_active = s.csa_active
        /\ t.csa_block_tx = s.csa_block_tx /\ t.csa_waiting_bcn = s.csa_waiting_bcn
        /\ t.stopped = s.stopped
    BY DEF Good, Typed, Alike
  <2>2. t.poll
    BY DEF Good, Typed
  <2> HIDE DEF t
  <2>3. Calm(t, u) /\ "timer" \in u.timers
    BY <2>1, Polls DEF Alike
  <2> HIDE DEF u
  <2>4. ~Attempt(s)
    BY <1>2 DEF Good, OneAtATime, Attempt
  <2>5. Sound(u, R, b, running, scanning)
    BY <1>2, <2>1, <2>2, <2>3, <2>4
       DEF Sound, Calm, Alike, Attempt, Timed, Monitored, Driven
  <2> QED
    BY <1>2, <2>5
<1>3. \/ mgd_probe_ap(s) = s /\ (~running \/ s.associated = None \/ scanning \/ s.poll)
      \/ mgd_probe_ap(s) = u /\ running /\ s.associated # None /\ ~scanning
  BY DEF mgd_probe_ap
<1> QED
  BY <1>1, <1>2, <1>3

LEMMA CsaDropSound ==
  ASSUME NEW s, Good(s), NEW Q, NEW R, NEW b, NEW up, NEW scan,
         Sound(s, Q, b, up, scan), Q \subseteq R \cup {"csa_drop"}
  PROVE  Sound(IF s.associated = None THEN s ELSE Disconnect(s), R, b, up, scan)
<1>1. CASE s.associated = None
  BY <1>1 DEF Sound, Timed, Monitored, Driven
<1>2. CASE s.associated # None
  BY <1>2, DisconnectIdle, IdleSound
<1> QED
  BY <1>1, <1>2

LEMMA WorkSound ==
  ASSUME Inv, Work
  PROVE  Sound(sdata', ToSet(workq'), inWork', running', scanning') /\ workq' \in Seq(Works)
<1>0. /\ Good(sdata) /\ workq \in Seq(Works)
      /\ Sound(sdata, ToSet(workq), inWork, running, scanning)
  BY DEF Inv
<1>1. ASSUME workq # <<>>
      PROVE  /\ Tail(workq) \in Seq(Works) /\ ToSet(Tail(workq)) \subseteq ToSet(workq)
             /\ ToSet(workq) \subseteq ToSet(Tail(workq)) \cup {Head(workq)}
  BY <1>0, <1>1, NextWork
<1>2. CASE IfaceBegins
  <2>1. /\ ~inWork /\ workq # <<>> /\ Head(workq) = "iface" /\ workq' = Tail(workq)
        /\ inWork' = (running /\ ~scanning)
        /\ sdata' = sdata /\ running' = running /\ scanning' = scanning
    BY <1>2 DEF IfaceBegins
  <2>2. running /\ ~scanning => inWork'
    BY <2>1
  <2>3. ToSet(workq) \subseteq ToSet(Tail(workq)) \cup {"iface"}
    BY <1>1, <2>1
  <2>4. ~inWork
    BY <2>1
  <2>5. Sound(sdata, ToSet(Tail(workq)), inWork', running, scanning)
    BY <1>0, <2>2, <2>3, <2>4 DEF Sound, Timed, Monitored, Driven
  <2> QED
    BY <1>1, <2>1, <2>5
<1>3. CASE RxFrame
  <2>1. PICK f \in Frames : \E r \in Received(sdata, workq, f) : sdata' = r[1] /\ workq' = r[2]
    BY <1>3 DEF RxFrame
  <2>2. PICK r \in Received(sdata, workq, f) : sdata' = r[1] /\ workq' = r[2]
    BY <2>1
  <2>3. inWork /\ inWork' = inWork /\ running' = running /\ scanning' = scanning
    BY <1>3 DEF RxFrame
  <2>4. Sound(r[1], ToSet(r[2]), inWork, running, scanning) /\ r[2] \in Seq(Works)
    BY <1>0, <2>3, ReceivedSound
  <2> QED
    BY <2>2, <2>3, <2>4
<1>4. CASE StaWork
  <2>1. /\ sdata' = ieee80211_sta_work(sdata) /\ workq' = workq
        /\ running' = running /\ scanning' = scanning
    BY <1>4 DEF StaWork
  <2>2. Sound(ieee80211_sta_work(sdata), ToSet(workq), inWork', running, scanning)
    BY <1>0, StaWorkSound
  <2> QED
    BY <1>0, <2>1, <2>2
<1>5. CASE ProbeWork
  <2>1. PICK w \in {"monitor", "bcn_loss"} : WorkNext(w)
    BY <1>5 DEF ProbeWork
  <2>2. /\ workq # <<>> /\ Head(workq) = w /\ workq' = Tail(workq)
        /\ sdata' = mgd_probe_ap(sdata)
        /\ inWork' = inWork /\ running' = running /\ scanning' = scanning
    BY <1>5, <2>1 DEF ProbeWork, WorkNext
  <2>3. Sound(mgd_probe_ap(sdata), ToSet(Tail(workq)), inWork, running, scanning)
    BY <1>0, <1>1, <2>2, ProbeWorkSound
  <2> QED
    BY <1>1, <2>2, <2>3
<1>6. CASE CsaDropWork
  <2> DEFINE t == IF sdata.associated = None THEN sdata ELSE Disconnect(sdata)
  <2>1. /\ workq # <<>> /\ Head(workq) = "csa_drop" /\ workq' = Tail(workq)
        /\ sdata' = t /\ inWork' = inWork /\ running' = running /\ scanning' = scanning
    BY <1>6 DEF CsaDropWork, WorkNext
  <2>2. Sound(t, ToSet(Tail(workq)), inWork, running, scanning)
    BY <1>0, <1>1, <2>1, CsaDropSound
  <2> HIDE DEF t
  <2> QED
    BY <1>1, <2>1, <2>2
<1>7. CASE ChswitchWork
  <2>1. /\ workq # <<>> /\ Head(workq) = "chswitch"
        /\ inWork' = inWork /\ running' = running /\ scanning' = scanning
    BY <1>7 DEF ChswitchWork, WorkNext
  <2>2. PICK r \in chswitch_work(sdata, Tail(workq)) : sdata' = r[1] /\ workq' = r[2]
    BY <1>7 DEF ChswitchWork
  <2>3. Calm(sdata, sdata)
    BY <1>0, Arms DEF Good
  <2>4. ToSet(workq) \subseteq ToSet(Tail(workq)) \cup {"chswitch"}
    BY <1>1, <2>1
  <2>5. Sound(sdata, ToSet(Tail(workq)) \cup {"chswitch"}, inWork, running, scanning)
    BY <1>0, <2>3, <2>4, CalmSound
  <2>6. Sound(r[1], ToSet(r[2]), inWork, running, scanning) /\ r[2] \in Seq(Works)
    BY <1>0, <1>1, <2>1, <2>5, ChswitchWorkSound
  <2> QED
    BY <2>1, <2>2, <2>6
<1> QED
  BY <1>2, <1>3, <1>4, <1>5, <1>6, <1>7 DEF Work

----------------------------------------------------------------------------
(* The calls of user space.                                                *)
LEMMA DisconnectedIdle ==
  ASSUME NEW s, NEW Q, NEW b, NEW up, NEW scan, Good(s), Sound(s, Q, b, up, scan)
  PROVE  Idle(Disconnected(s))
<1>1. CASE s.associated = None
  BY <1>1, NoConnection DEF Disconnected
<1>2. CASE s.associated # None
  BY <1>2, DisconnectIdle DEF Disconnected
<1> QED
  BY <1>1, <1>2

LEMMA AuthPreparesIdle ==
  ASSUME NEW s, NEW Q, NEW b, NEW up, NEW scan, Good(s), Sound(s, Q, b, up, scan),
         s.assoc_data = None, s.auth_data # None => s.auth_data.done, NEW ap \in APs
  PROVE  /\ Typed(AuthPrepares(s, ap)) /\ Idle(AuthPrepares(s, ap))
         /\ AuthPrepares(s, ap).auth_data = Auth(ap)
         /\ AuthPrepares(s, ap).assoc_data = None
<1> DEFINE freed   == IF s.auth_data = None THEN s ELSE destroy_auth_data(s, FALSE)
           started == [freed EXCEPT !.auth_data = Auth(ap)]
           ended   == set_disassoc(started)
           t       == AuthPrepares(s, ap)
<1>0. t = Disconnected(started)
  BY DEF AuthPrepares
<1>1. /\ Good(freed) /\ freed.assoc_data = None /\ Blocked(freed)
      /\ freed.associated = None => Idle(freed)
  <2>1. CASE s.auth_data = None
    <3>1. Blocked(s) /\ (s.associated = None => Idle(s))
      BY NoConnection DEF Blocked, Sound
    <3> QED
      BY <2>1, <3>1
  <2>2. CASE s.auth_data # None
    <3>0. Attempt(s)
      BY <2>2 DEF Attempt
    <3>1. Idle(s)
      BY <3>0, AttemptIdle
    <3> DEFINE d == destroy_auth_data(s, FALSE)
    <3>2. Good(d) /\ Nothing(d)
      BY <2>2, AuthForgotten
    <3>3. Idle(d)
      BY <2>2, <3>1, AttemptEndsIdle DEF Good
    <3>4. freed = d
      BY <2>2
    <3> HIDE DEF d, freed
    <3> QED
      BY <3>2, <3>3, <3>4 DEF Nothing, Idle, Blocked
  <2> QED
    BY <2>1, <2>2
<1> HIDE DEF freed
<1>2. Auth(ap) \in AuthTypes
  BY DEF Auth, AuthTypes
<1>3. /\ Typed(started) /\ started.auth_data = Auth(ap) /\ started.assoc_data = None
      /\ Blocked(started) /\ (started.associated = None => Idle(started))
  <2>1. /\ Typed(started) /\ started.auth_data = Auth(ap) /\ started.assoc_data = None
        /\ started.associated = freed.associated
    BY <1>1, <1>2 DEF Good, Typed
  <2>2. /\ started.stopped = freed.stopped /\ started.csa_block_tx = freed.csa_block_tx
        /\ started.poll = freed.poll /\ started.csa_active = freed.csa_active
    BY <1>1 DEF Good, Typed
  <2> HIDE DEF started
  <2> QED
    BY <1>1, <2>1, <2>2 DEF Blocked, Idle
<1> HIDE DEF started
<1>4. CASE started.associated = None
  BY <1>0, <1>3, <1>4 DEF Disconnected
<1>5. CASE started.associated # None
  <2>1. t = Disconnect(started)
    BY <1>0, <1>5 DEF Disconnected
  <2>2. Idle(t)
    BY <1>3, <2>1, DisconnectLeaves
  <2>3. /\ Typed(ended) /\ ended.auth_data = Auth(ap) /\ ended.assoc_data = None
    BY <1>3, Disassociated
  <2>4. t = report_disconnect(ended, started.associated)
    BY <2>1 DEF Disconnect
  <2> HIDE DEF ended, t
  <2>5. Typed(t) /\ t.auth_data = Auth(ap) /\ t.assoc_data = None
    BY <2>3, <2>4, ToldOfEnd
  <2> QED
    BY <2>2, <2>5 DEF t
<1> QED
  BY <1>4, <1>5

LEMMA AssocPreparesIdle ==
  ASSUME NEW s, NEW Q, NEW b, NEW up, NEW scan, Good(s), Sound(s, Q, b, up, scan),
         s.assoc_data = None, NEW ap \in APs
  PROVE  /\ Typed(AssocPrepares(s, ap)) /\ Idle(AssocPrepares(s, ap))
         /\ ~Attempt(AssocPrepares(s, ap))
<1> DEFINE d == Disconnected(s)
           t == AssocPrepares(s, ap)
<1>1. Typed(d) /\ Idle(d) /\ d.assoc_data = None
  BY DisconnectedIdle, DisconnectedGood, DisconnectGood DEF Good, Disconnected, Nothing
<1>2. t = IF d.auth_data = None THEN d ELSE destroy_auth_data(d, d.auth_data.ap = ap)
  BY DEF AssocPrepares
<1> HIDE DEF d
<1>3. CASE d.auth_data = None
  BY <1>1, <1>2, <1>3 DEF Attempt
<1>4. CASE d.auth_data # None
  <2>1. \A k \in BOOLEAN : /\ Typed(destroy_auth_data(d, k)) /\ Idle(destroy_auth_data(d, k))
                          /\ destroy_auth_data(d, k).auth_data = None
                          /\ destroy_auth_data(d, k).assoc_data = None
    BY <1>1, <1>4, AuthEnds, AttemptEndsIdle
  <2>2. t = destroy_auth_data(d, TRUE) \/ t = destroy_auth_data(d, FALSE)
    BY <1>2, <1>4 DEF destroy_auth_data
  <2> HIDE DEF t
  <2>3. Typed(t) /\ Idle(t) /\ t.auth_data = None /\ t.assoc_data = None
    BY <2>1, <2>2
  <2>4. Typed(t) /\ Idle(t) /\ ~Attempt(t)
    BY <2>3 DEF Attempt
  <2> QED
    BY <2>4 DEF t
<1> QED
  BY <1>3, <1>4

LEMMA DeauthSound ==
  ASSUME NEW s, NEW Q, NEW b, NEW up, NEW scan, Good(s), Sound(s, Q, b, up, scan),
         NEW ap \in APs
  PROVE  Sound(Deauthenticated(s, ap), Q, b, up, scan)
<1>1. CASE s.auth_data # None /\ s.auth_data.ap = ap
  <2> DEFINE d == report_disconnect(destroy_auth_data(s, FALSE), ap)
  <2>0. Attempt(s)
    BY <1>1 DEF Attempt
  <2>1. Idle(s)
    BY <2>0, AttemptIdle
  <2>2. Idle(d) /\ ~Attempt(d)
    BY <1>1, <2>1, AttemptOver, AttemptReported DEF Good, Nothing, Attempt
  <2>3. Deauthenticated(s, ap) = d
    BY <1>1 DEF Deauthenticated
  <2> HIDE DEF d
  <2> QED
    BY <2>2, <2>3, IdleSound
<1>2. CASE ~(s.auth_data # None /\ s.auth_data.ap = ap)
             /\ s.assoc_data # None /\ s.assoc_data.ap = ap
  <2> DEFINE d == report_disconnect(destroy_assoc_data(s, FALSE), ap)
  <2>0. Attempt(s)
    BY <1>2 DEF Attempt
  <2>1. Idle(s)
    BY <2>0, AttemptIdle
  <2>2. Idle(d) /\ ~Attempt(d)
    BY <1>2, <2>1, AttemptOver, AttemptReported DEF Good, Nothing, Attempt
  <2>3. Deauthenticated(s, ap) = d
    BY <1>2 DEF Deauthenticated
  <2> HIDE DEF d
  <2> QED
    BY <2>2, <2>3, IdleSound
<1>3. CASE /\ ~(s.auth_data # None /\ s.auth_data.ap = ap)
           /\ ~(s.assoc_data # None /\ s.assoc_data.ap = ap)
  <2>1. s.associated = ap => Sound(Disconnect(s), Q, b, up, scan)
    BY DisconnectIdle, IdleSound, MlmeAssumption
  <2>2. Deauthenticated(s, ap) = IF s.associated = ap THEN Disconnect(s) ELSE s
    BY <1>3 DEF Deauthenticated
  <2> QED
    BY <2>1, <2>2
<1> QED
  BY <1>1, <1>2, <1>3

LEMMA QuiesceSound ==
  ASSUME NEW s, NEW Q, NEW b, NEW up, NEW scan, Good(s), Sound(s, Q, b, up, scan)
  PROVE  Sound(Quiesced(s), Q, b, up, scan)
<1> DEFINE aps == {x.ap : x \in {s.auth_data, s.assoc_data} \ {None}}
           t == IF s.assoc_data = None THEN s ELSE destroy_assoc_data(s, FALSE)
           u == IF t.auth_data = None THEN t ELSE destroy_auth_data(t, FALSE)
           v == IF aps = {} THEN u ELSE report_disconnect(u, CHOOSE ap \in aps : TRUE)
<1>0. Quiesced(s) = IF v.associated = None THEN v ELSE Deauthenticated(v, v.associated)
  BY DEF Quiesced
<1>1. Good(v) /\ Sound(v, Q, b, up, scan)
  <2>1. CASE s.assoc_data # None
    <3>1. s.auth_data = None /\ s.assoc_data.ap \in APs
      BY <2>1 DEF Good, OneAtATime, Typed, AssocTypes
    <3>2. aps = {s.assoc_data.ap}
      BY <2>1, <3>1
    <3>3. t = destroy_assoc_data(s, FALSE) /\ t.auth_data = None /\ u = t
      BY <2>1, <3>1, AssocEnds DEF Good
    <3>4. v = report_disconnect(destroy_assoc_data(s, FALSE), s.assoc_data.ap)
      BY <3>2, <3>3
    <3> HIDE DEF v
    <3>5. Attempt(s)
      BY <2>1 DEF Attempt
    <3>6. Idle(s)
      BY <3>5, AttemptIdle
    <3>7. Good(v) /\ Idle(v) /\ ~Attempt(v)
      BY <2>1, <3>1, <3>4, <3>6, AttemptOver, AttemptReported DEF Good, Nothing, Attempt
    <3> QED
      BY <3>7, IdleSound
  <2>2. CASE s.assoc_data = None /\ s.auth_data # None
    <3>1. s.auth_data.ap \in APs
      BY <2>2 DEF Good, Typed, AuthTypes
    <3>2. aps = {s.auth_data.ap}
      BY <2>2
    <3>3. t = s /\ u = destroy_auth_data(s, FALSE)
      BY <2>2
    <3>4. v = report_disconnect(destroy_auth_data(s, FALSE), s.auth_data.ap)
      BY <3>2, <3>3
    <3> HIDE DEF v
    <3>5. Attempt(s)
      BY <2>2 DEF Attempt
    <3>6. Idle(s)
      BY <3>5, AttemptIdle
    <3>7. Good(v) /\ Idle(v) /\ ~Attempt(v)
      BY <2>2, <3>1, <3>4, <3>6, AttemptOver, AttemptReported DEF Good, Nothing, Attempt
    <3> QED
      BY <3>7, IdleSound
  <2>3. CASE s.assoc_data = None /\ s.auth_data = None
    <3>1. aps = {}
      BY <2>3
    <3> QED
      BY <2>3, <3>1
  <2> QED
    BY <2>1, <2>2, <2>3
<1> HIDE DEF v
<1>2. v.associated # None => v.associated \in APs
  BY <1>1 DEF Good, Typed
<1>3. v.associated # None => Sound(Deauthenticated(v, v.associated), Q, b, up, scan)
  BY <1>1, <1>2, DeauthSound
<1> QED
  BY <1>0, <1>1, <1>3

LEMMA StopIdle ==
  ASSUME NEW s, NEW Q, NEW b, NEW up, NEW scan, Good(s), Sound(s, Q, b, up, scan),
         NEW x, x = [Stopped(Disconnected(s)) EXCEPT !.sta = {}, !.leaked = {}, !.chan = FALSE]
  PROVE  Idle(x) /\ ~Attempt(x)
<1> DEFINE d == Disconnected(s)
           e == destroy_assoc_data(d, FALSE)
           t == IF d.assoc_data = None THEN d ELSE Answered(e, "assoc")
           u == IF t.auth_data = None THEN t ELSE destroy_auth_data(t, FALSE)
           v == [u EXCEPT !.timers = @ \ {"timer"}, !.cfg.auth = None]
           w == [v EXCEPT !.sta = {}, !.leaked = {}, !.chan = FALSE]
<1>1. Typed(d) /\ Idle(d)
  BY DisconnectedIdle, DisconnectedGood DEF Good
<1>2. x = w
  BY DEF Stopped
<1> HIDE DEF d
<1>3. Typed(t) /\ Idle(t) /\ t.assoc_data = None
  <2>1. CASE d.assoc_data = None
    BY <1>1, <2>1
  <2>2. CASE d.assoc_data # None
    <3>1. Typed(e) /\ Idle(e) /\ e.assoc_data = None
      BY <1>1, <2>2, AssocEnds, AttemptEndsIdle
    <3> HIDE DEF e
    <3>2. /\ Typed(Answered(e, "assoc")) /\ Idle(Answered(e, "assoc"))
          /\ Answered(e, "assoc").assoc_data = None
      BY <3>1, Told, IdleStays
    <3> QED
      BY <2>2, <3>2
  <2> QED
    BY <2>1, <2>2
<1> HIDE DEF t
<1>4. Typed(u) /\ Idle(u) /\ u.auth_data = None /\ u.assoc_data = None
  <2>1. CASE t.auth_data = None
    BY <1>3, <2>1
  <2>2. CASE t.auth_data # None
    BY <1>3, <2>2, AuthEnds, AttemptEndsIdle
  <2> QED
    BY <2>1, <2>2
<1> HIDE DEF u
<1>5. /\ w.associated = u.associated /\ w.poll = u.poll /\ w.csa_active = u.csa_active
      /\ w.stopped = u.stopped /\ w.auth_data = u.auth_data /\ w.assoc_data = u.assoc_data
  BY <1>4 DEF Typed
<1> HIDE DEF w
<1> QED
  BY <1>2, <1>4, <1>5 DEF Idle, Attempt

(* What a call that is let through leaves behind.                          *)
LEMMA AuthBegins ==
  ASSUME NEW t, Typed(t), Idle(t), t.assoc_data = None, NEW ap \in APs, t.auth_data = Auth(ap)
  PROVE  /\ Idle([ieee80211_auth(Prepared(t, ap)) EXCEPT !.cfg.auth = ap])
         /\ "timer" \in [ieee80211_auth(Prepared(t, ap)) EXCEPT !.cfg.auth = ap].timers
         /\ Idle(ReleaseChannel([t EXCEPT !.auth_data = None]))
         /\ ~Attempt(ReleaseChannel([t EXCEPT !.auth_data = None]))
<1> DEFINE p == Prepared(t, ap)
           u == [p EXCEPT !.auth_data.tries = @ + 1, !.late = @ \ {"auth"}]
           v == run_again(u)
           w == [v EXCEPT !.cfg.auth = ap]
           n == [t EXCEPT !.auth_data = None]
<1>1. Auth(ap) \in AuthTypes
  BY DEF Auth, AuthTypes
<1>2. Alike(t, p) /\ Idle(p)
  BY NeutralMore, IdleStays
<1>3. ieee80211_auth(p) = v
  BY DEF ieee80211_auth
<1> HIDE DEF p
<1>4. u.auth_data = [p.auth_data EXCEPT !.tries = @ + 1] /\ p.auth_data = Auth(ap)
  BY <1>2 DEF Alike, Typed
<1>5. u.auth_data \in AuthTypes
  BY <1>1, <1>4 DEF AuthTypes
<1>6. Typed(u) /\ Idle(u)
  BY <1>2, <1>5 DEF Alike, Typed, Idle
<1> HIDE DEF u
<1>7. Typed(v) /\ Idle(v) /\ "timer" \in v.timers
  BY <1>6, Neutral, IdleStays DEF Alike
<1> HIDE DEF v
<1>8. Idle(w) /\ "timer" \in w.timers
  BY <1>7 DEF Typed, Idle
<1>9. Typed(n) /\ Idle(n) /\ n.auth_data = None /\ n.assoc_data = None
  BY DEF Typed, Idle
<1> HIDE DEF n
<1>10. Idle(ReleaseChannel(n)) /\ ~Attempt(ReleaseChannel(n))
  BY <1>9, IdleStays, Neutral DEF Alike, Attempt
<1> QED
  BY <1>3, <1>8, <1>10 DEF p, n

LEMMA AssocBegins ==
  ASSUME NEW t, Typed(t), Idle(t), ~Attempt(t), NEW ap \in APs
  PROVE  /\ Idle([run_again([Prepared(t, ap) EXCEPT !.assoc_data = Assoc(ap)])
                    EXCEPT !.cfg.assoc = ap])
         /\ "timer" \in [run_again([Prepared(t, ap) EXCEPT !.assoc_data = Assoc(ap)])
                          EXCEPT !.cfg.assoc = ap].timers
         /\ Idle(AssocFails(t, ap)) /\ ~Attempt(AssocFails(t, ap))
<1> DEFINE p == Prepared(t, ap)
           u == [p EXCEPT !.assoc_data = Assoc(ap)]
           v == run_again(u)
           w == [v EXCEPT !.cfg.assoc = ap]
           f == AssocFails(t, ap)
<1>1. Assoc(ap) \in AssocTypes
  BY DEF Assoc, AssocTypes
<1>2. Alike(t, p) /\ Idle(p)
  BY NeutralMore, IdleStays
<1> HIDE DEF p
<1>3. Typed(u) /\ Idle(u)
  BY <1>1, <1>2 DEF Alike, Typed, Idle
<1> HIDE DEF u
<1>4. Typed(v) /\ Idle(v) /\ "timer" \in v.timers
  BY <1>3, Neutral, IdleStays DEF Alike
<1> HIDE DEF v
<1>5. Idle(w) /\ "timer" \in w.timers
  BY <1>4 DEF Typed, Idle
<1>6. Idle(f) /\ f.auth_data = t.auth_data /\ f.assoc_data = t.assoc_data
  BY DEF Typed, Idle, AssocFails
<1>7. ~Attempt(f)
  BY <1>6 DEF Attempt
<1> QED
  BY <1>5, <1>6, <1>7 DEF p, u, v

(* A scan that ends leaves a probe of the connection on its way.           *)
LEMMA ScanEnds ==
  ASSUME workq \in Seq(Works), ScanCancelled
  PROVE  /\ workq' \in Seq(Works) /\ ToSet(workq) \subseteq ToSet(workq') /\ ~scanning'
         /\ scanning => "monitor" \in ToSet(workq')
<1>1. /\ Queued(workq, "monitor") \in Seq(Works)
      /\ ToSet(Queued(workq, "monitor")) = ToSet(workq) \cup {"monitor"}
  BY QueuedWorks DEF Works
<1> QED
  BY <1>1 DEF ScanCancelled

LEMMA CallsSound ==
  ASSUME Inv, Calls
  PROVE  Sound(sdata', ToSet(workq'), inWork', running', scanning') /\ workq' \in Seq(Works)
<1>0. /\ Good(sdata) /\ workq \in Seq(Works)
      /\ Sound(sdata, ToSet(workq), inWork, running, scanning)
  BY DEF Inv
<1>1. ASSUME NEW ap \in APs, mgd_auth(ap)
      PROVE  Sound(sdata', ToSet(workq'), inWork', running', scanning') /\ workq' \in Seq(Works)
  <2> DEFINE t      == AuthPrepares(sdata, ap)
             begun  == [ieee80211_auth(Prepared(t, ap)) EXCEPT !.cfg.auth = ap]
             failed == ReleaseChannel([t EXCEPT !.auth_data = None])
  <2>1. /\ sdata.assoc_data = None /\ running /\ running' = running
        /\ sdata.auth_data # None => sdata.auth_data.done
        /\ \/ sdata' = begun /\ ScanCancelled
           \/ sdata' = failed /\ workq' = workq /\ scanning' = scanning
    BY <1>1 DEF mgd_auth, Call
  <2>2. Typed(t) /\ Idle(t) /\ t.auth_data = Auth(ap) /\ t.assoc_data = None
    BY <1>0, <2>1, AuthPreparesIdle
  <2> HIDE DEF t
  <2>3. Idle(begun) /\ "timer" \in begun.timers /\ Idle(failed) /\ ~Attempt(failed)
    BY <2>2, AuthBegins
  <2> HIDE DEF begun, failed
  <2>4. CASE sdata' = begun /\ ScanCancelled
    <3>1. workq' \in Seq(Works) /\ ~scanning'
      BY <1>0, <2>4, ScanEnds
    <3>2. Idle(sdata') /\ running' /\ Timed(sdata', ToSet(workq'), inWork')
      BY <2>1, <2>3, <2>4 DEF Timed
    <3> QED
      BY <3>1, <3>2, IdleSound
  <2>5. CASE sdata' = failed /\ workq' = workq /\ scanning' = scanning
    BY <1>0, <2>3, <2>5, IdleSound
  <2> QED
    BY <2>1, <2>4, <2>5
<1>2. ASSUME NEW ap \in APs, mgd_assoc(ap)
      PROVE  Sound(sdata', ToSet(workq'), inWork', running', scanning') /\ workq' \in Seq(Works)
  <2> DEFINE t      == AssocPrepares(sdata, ap)
             begun  == [run_again([Prepared(t, ap) EXCEPT !.assoc_data = Assoc(ap)])
                          EXCEPT !.cfg.assoc = ap]
             failed == AssocFails(t, ap)
  <2>1. /\ sdata.assoc_data = None /\ running /\ running' = running
        /\ \/ sdata' = begun /\ ScanCancelled
           \/ sdata' = failed /\ workq' = workq /\ scanning' = scanning
    BY <1>2 DEF mgd_assoc, Call
  <2>2. Typed(t) /\ Idle(t) /\ ~Attempt(t)
    BY <1>0, <2>1, AssocPreparesIdle
  <2> HIDE DEF t
  <2>3. Idle(begun) /\ "timer" \in begun.timers /\ Idle(failed) /\ ~Attempt(failed)
    BY <2>2, AssocBegins
  <2> HIDE DEF begun, failed
  <2>4. CASE sdata' = begun /\ ScanCancelled
    <3>1. workq' \in Seq(Works) /\ ~scanning'
      BY <1>0, <2>4, ScanEnds
    <3>2. Idle(sdata') /\ running' /\ Timed(sdata', ToSet(workq'), inWork')
      BY <2>1, <2>3, <2>4 DEF Timed
    <3> QED
      BY <3>1, <3>2, IdleSound
  <2>5. CASE sdata' = failed /\ workq' = workq /\ scanning' = scanning
    BY <1>0, <2>3, <2>5, IdleSound
  <2> QED
    BY <2>1, <2>4, <2>5
<1>3. ASSUME NEW ap \in APs, mgd_deauth(ap)
      PROVE  Sound(sdata', ToSet(workq'), inWork', running', scanning') /\ workq' \in Seq(Works)
  <2>1. Sound(Deauthenticated(sdata, ap), ToSet(workq), inWork, running, scanning)
    BY <1>0, DeauthSound
  <2> QED
    BY <1>0, <1>3, <2>1 DEF mgd_deauth
<1>4. ASSUME NEW ap \in APs, mgd_disassoc(ap)
      PROVE  Sound(sdata', ToSet(workq'), inWork', running', scanning') /\ workq' \in Seq(Works)
  <2>1. sdata.associated # None
    BY <1>4, MlmeAssumption DEF mgd_disassoc
  <2>2. Sound(Disconnect(sdata), ToSet(workq), inWork, running, scanning)
    BY <1>0, <2>1, DisconnectIdle, IdleSound
  <2> QED
    BY <1>0, <1>4, <2>2 DEF mgd_disassoc
<1>5. CASE mgd_quiesce
  <2>1. Sound(Quiesced(sdata), ToSet(workq), inWork, running, scanning)
    BY <1>0, QuiesceSound
  <2> QED
    BY <1>0, <1>5, <2>1 DEF mgd_quiesce
<1>6. CASE mgd_stop
  <2>1. Idle(sdata') /\ ~Attempt(sdata')
    BY <1>0, <1>6, StopIdle DEF mgd_stop
  <2>2. Sound(sdata', ToSet(workq'), inWork', running', scanning')
    BY <2>1, IdleSound
  <2>3. workq' = <<"iface">> \/ workq' = <<>>
    BY <1>6 DEF mgd_stop
  <2>4. workq' \in Seq(Works)
    <3>1. "iface" \in Works
      BY DEF Works
    <3>2. <<>> \in Seq(Works) /\ <<"iface">> \in Seq(Works)
      BY <3>1
    <3> QED
      BY <2>3, <3>2
  <2> QED
    BY <2>2, <2>4
<1>7. CASE Up
  <2>1. /\ ~running /\ running' /\ sdata' = sdata /\ workq' = workq /\ inWork' = inWork
        /\ scanning' = scanning
    BY <1>7 DEF Up
  <2>2. ~Attempt(sdata) /\ Idle(sdata)
    BY <1>0, <2>1 DEF Sound, Idle
  <2>3. ~Attempt(sdata') /\ Idle(sdata')
    BY <2>1, <2>2
  <2> QED
    BY <1>0, <2>1, <2>3, IdleSound
<1>8. CASE ScanStarts
  <2>1. /\ sdata.auth_data = None /\ sdata.assoc_data = None /\ ~sdata.poll
        /\ sdata' = sdata /\ workq' = workq /\ inWork' = inWork /\ running' = running
    BY <1>8 DEF ScanStarts
  <2>2. scanning'
    BY <1>8 DEF ScanStarts
  <2>3. Sound(sdata, ToSet(workq), inWork, running, scanning')
    BY <1>0, <2>1, <2>2 DEF Sound, Attempt
  <2> QED
    BY <1>0, <2>1, <2>3
<1> QED
  BY <1>1, <1>2, <1>3, <1>4, <1>5, <1>6, <1>7, <1>8 DEF Calls

----------------------------------------------------------------------------
(* A timer that goes off has its work queued, unless a channel switch      *)
(* keeps the monitors still.                                               *)
LEMMA TimerSound ==
  ASSUME Inv, NEW t \in Timers, TimerFires(t)
  PROVE  Sound(sdata', ToSet(workq'), inWork', running', scanning') /\ workq' \in Seq(Works)
<1> DEFINE s == [sdata EXCEPT !.timers = @ \ {t}]
           q == Queued(workq, WorkOf(t))
<1>0. /\ Good(sdata) /\ workq \in Seq(Works)
      /\ Sound(sdata, ToSet(workq), inWork, running, scanning)
  BY DEF Inv
<1>1. /\ sdata' = s /\ inWork' = inWork /\ running' = running /\ scanning' = scanning
      /\ workq' = IF Ignored(t) THEN workq ELSE q
  BY DEF TimerFires
<1>2. \/ t = "timer" /\ WorkOf(t) = "iface"
      \/ t = "bcn_mon" /\ WorkOf(t) = "bcn_loss"
      \/ t = "conn_mon" /\ WorkOf(t) = "monitor"
      \/ t = "chswitch" /\ WorkOf(t) = "chswitch"
  BY DEF Timers, WorkOf
<1>3. q \in Seq(Works) /\ ToSet(q) = ToSet(workq) \cup {WorkOf(t)}
  <2>1. WorkOf(t) \in Works
    BY <1>2 DEF Works
  <2> QED
    BY <1>0, <2>1, QueuedWorks
<1> HIDE DEF q
<1>4. /\ Alike(sdata, s) /\ s.timers = sdata.timers \ {t} /\ s.poll = sdata.poll
      /\ s.csa_active = sdata.csa_active /\ s.csa_block_tx = sdata.csa_block_tx
      /\ s.csa_waiting_bcn = sdata.csa_waiting_bcn /\ s.stopped = sdata.stopped
  BY <1>0 DEF Good, Typed, Alike
<1> HIDE DEF s
<1>5. CASE Ignored(t)
  <2>1. /\ t # "timer" /\ t # "chswitch"
        /\ sdata.csa_active /\ ~sdata.csa_waiting_bcn
    BY <1>5 DEF Ignored
  <2>2. Sound(s, ToSet(workq), inWork, running, scanning)
    BY <1>0, <1>4, <2>1 DEF Sound, Alike, Attempt, Timed, Monitored, Driven
  <2> QED
    BY <1>0, <1>1, <1>5, <2>2
<1>6. CASE ~Ignored(t)
  <2>1. Sound(s, ToSet(q), inWork, running, scanning)
    BY <1>0, <1>2, <1>3, <1>4 DEF Sound, Alike, Attempt, Timed, Monitored, Driven
  <2> QED
    BY <1>1, <1>3, <1>6, <2>1
<1> QED
  BY <1>5, <1>6

LEMMA StepSound ==
  ASSUME Inv, [Next]_vars
  PROVE  Sound(sdata', ToSet(workq'), inWork', running', scanning') /\ workq' \in Seq(Works)
<1>0. /\ Good(sdata) /\ workq \in Seq(Works)
      /\ Sound(sdata, ToSet(workq), inWork, running, scanning)
  BY DEF Inv
<1>1. CASE Work
  BY <1>1, WorkSound
<1>2. CASE Calls
  BY <1>2, CallsSound
<1>3. CASE notify_scan_completed
  <2>1. /\ scanning /\ ScanCancelled /\ sdata' = stop_poll(sdata)
        /\ inWork' = inWork /\ running' = running
    BY <1>3 DEF notify_scan_completed, restart_sta_timer
  <2>2. /\ workq' \in Seq(Works) /\ ToSet(workq) \subseteq ToSet(workq') /\ ~scanning'
        /\ "monitor" \in ToSet(workq')
    BY <1>0, <2>1, ScanEnds
  <2>3. /\ Alike(sdata, sdata') /\ ~sdata'.poll /\ sdata'.timers = sdata.timers
        /\ sdata'.csa_active = sdata.csa_active /\ sdata'.csa_block_tx = sdata.csa_block_tx
        /\ sdata'.csa_waiting_bcn = sdata.csa_waiting_bcn
        /\ sdata'.stopped = sdata.stopped
    BY <1>0, <2>1 DEF Good, Typed, Alike, stop_poll
  <2>4. ~Attempt(sdata)
    BY <1>0, <2>1 DEF Sound
  <2>5. Sound(sdata', ToSet(workq'), inWork', running', scanning')
    BY <1>0, <2>1, <2>2, <2>3, <2>4 DEF Sound, Alike, Attempt, Timed, Monitored, Driven
  <2> QED
    BY <2>2, <2>5
<1>4. ASSUME NEW t \in Timers, TimerFires(t)
      PROVE  Sound(sdata', ToSet(workq'), inWork', running', scanning') /\ workq' \in Seq(Works)
  BY <1>4, TimerSound
<1>5. ASSUME NEW d \in Deadlines, TimePasses(d)
      PROVE  Sound(sdata', ToSet(workq'), inWork', running', scanning') /\ workq' \in Seq(Works)
  <2>1. Calm(sdata, [sdata EXCEPT !.late = @ \cup {d}])
    BY <1>0 DEF Good, Typed, Alike, Calm
  <2>2. Sound([sdata EXCEPT !.late = @ \cup {d}], ToSet(workq), inWork, running, scanning)
    BY <1>0, <2>1, CalmSound
  <2> QED
    BY <1>0, <1>5, <2>2 DEF TimePasses
<1>6. CASE DataArrives
  <2>1. Sound(reset_conn_monitor(sdata), ToSet(workq), inWork, running, scanning)
    BY <1>0, Arms, CalmSound DEF Good
  <2> QED
    BY <1>0, <1>6, <2>1 DEF DataArrives
<1>7. CASE FrameArrives
  <2> DEFINE q == Queued(workq, "iface")
  <2>1. q \in Seq(Works) /\ ToSet(q) = ToSet(workq) \cup {"iface"}
    BY <1>0, QueuedWorks DEF Works
  <2>2. /\ workq' = q /\ sdata' = sdata /\ inWork' = inWork /\ running' = running
        /\ scanning' = scanning
    BY <1>7 DEF FrameArrives
  <2> HIDE DEF q
  <2>3. Sound(sdata, ToSet(q), inWork, running, scanning)
    BY <1>0, <2>1, Arms, CalmSound DEF Good
  <2> QED
    BY <2>1, <2>2, <2>3
<1>8. CASE GoOutOfRange \/ UNCHANGED vars
  BY <1>0, <1>8 DEF GoOutOfRange, vars
<1> QED
  BY <1>1, <1>2, <1>3, <1>4, <1>5, <1>6, <1>7, <1>8 DEF Next

LEMMA InvStep == Inv /\ [Next]_vars => Inv'
<1> SUFFICES ASSUME Inv, [Next]_vars PROVE Inv'
  OBVIOUS
<1>1. Good(sdata')
  BY StepKeepsReports DEF Inv
<1>2. Sound(sdata', ToSet(workq'), inWork', running', scanning') /\ workq' \in Seq(Works)
  BY StepSound
<1> QED
  BY <1>1, <1>2 DEF Inv

LEMMA InitInv == Init => Inv
<1> SUFFICES ASSUME Init PROVE Inv
  OBVIOUS
<1>1. Good(sdata)
  BY InitReports
<1>2. Idle(sdata) /\ ~Attempt(sdata) /\ workq = <<>>
  BY DEF Init, Idle, Attempt
<1>3. Sound(sdata, ToSet(workq), inWork, running, scanning)
  BY <1>2, IdleSound
<1> QED
  BY <1>1, <1>2, <1>3 DEF Inv

LEMMA AlwaysInv == Spec => []Inv
  BY InitInv, InvStep, PTL DEF Spec

----------------------------------------------------------------------------
(* For any access points, frames, tries and bounds: whatever arms, shares  *)
(* and cancels the timer of the interface, an attempt that is under way    *)
(* has its deadline looked at (run_again and ieee80211_sta_work).          *)
THEOREM AttemptsTimed == Spec => []AttemptIsTimed
<1>1. Inv => AttemptIsTimed
  BY DEF Inv, Sound, Attempt, Timed, AttemptIsTimed
<1> QED
  BY <1>1, AlwaysInv, PTL

(* For any access points, frames, tries and bounds: beacon loss, probes,   *)
(* scans and channel switches hand the watch over a connection from one to *)
(* the other, and none lets it go.                                         *)
THEOREM ConnectionsWatched == Spec => []ConnectionIsWatched
<1>1. Inv => ConnectionIsWatched
  BY DEF Inv, Sound, Timed, Monitored, Driven, ConnectionIsWatched
<1> QED
  BY <1>1, AlwaysInv, PTL

(* For any access points, frames, tries and bounds: a channel switch has   *)
(* its timer, its work or a beacon to wait for, and the queues it stopped  *)
(* are stopped only while it lasts.                                        *)
THEOREM SwitchesProceed == Spec => []SwitchProceeds
<1>1. Inv => SwitchProceeds
  BY DEF Inv, Sound, Driven, SwitchProceeds
<1> QED
  BY <1>1, AlwaysInv, PTL

----------------------------------------------------------------------------
(***************************************************************************)
(* Station entries and the channel are taken and given back with the       *)
(* attempt or the connection they serve, for any number of access points,  *)
(* frames, tries and bounds.  The entry an association that could not be   *)
(* prepared leaves behind is given back with the next connection that      *)
(* ends, or the next attempt with the same access point.                   *)
(***************************************************************************)
Uses(s, ap) ==
  \/ s.auth_data # None /\ s.auth_data.ap = ap
  \/ s.assoc_data # None /\ s.assoc_data.ap = ap
  \/ s.associated # None /\ s.associated = ap

Busy(s) == s.auth_data # None \/ s.assoc_data # None \/ s.associated # None

(* StationsAccounted, of any record.                                       *)
Held(s) ==
  /\ s.leaked \subseteq APs
  /\ s.sta = {ap \in APs : Uses(s, ap) \/ ap \in s.leaked}
  /\ Busy(s) => s.chan
  /\ s.chan => Busy(s) \/ s.leaked # {}

(* Nothing under way and the channel given back.                           *)
Free(s) == ~Busy(s) /\ s.leaked \subseteq APs /\ s.sta = s.leaked /\ ~s.chan

(* t differs from s only in timers, deadlines and the channel switch.      *)
Still(s, t) == Alike(s, t) /\ t.sta = s.sta /\ t.leaked = s.leaked /\ t.chan = s.chan

LEMMA FreeHeld == ASSUME NEW s, Typed(s), Free(s) PROVE Held(s)
<1>1. \A ap \in APs : ~Uses(s, ap)
  BY DEF Free, Busy, Uses
<1> QED
  BY <1>1 DEF Free, Held

LEMMA StillHeld == ASSUME NEW s, NEW t, Held(s), Still(s, t) PROVE Held(t)
<1>1. \A ap \in APs : Uses(t, ap) <=> Uses(s, ap)
  BY DEF Still, Alike, Uses
<1>2. Busy(t) <=> Busy(s)
  BY DEF Still, Alike, Busy
<1> QED
  BY <1>1, <1>2 DEF Held, Still

LEMMA StillTrans == ASSUME NEW s, NEW t, NEW u, Still(s, t), Still(t, u) PROVE Still(s, u)
  BY DEF Still, Alike

(* The helpers that touch neither stations nor channel.                    *)
LEMMA Stills ==
  ASSUME NEW s, Typed(s)
  PROVE  /\ Still(s, s)
         /\ Still(s, run_again(s)) /\ Still(s, reset_beacon_monitor(s))
         /\ Still(s, reset_conn_monitor(s)) /\ Still(s, stop_poll(s))
         /\ Still(s, mgd_probe_ap_send(s)) /\ Still(s, chswitch_post_beacon(s))
         /\ \A csa, ok : Still(s, CsaStarted(s, csa, ok))
<1>0. Still(s, s)
  BY DEF Still, Alike
<1>1. Still(s, run_again(s))
  BY Neutral DEF Typed, Still, run_again
<1>2. Still(s, reset_beacon_monitor(s))
  BY Neutral DEF Typed, Still, reset_beacon_monitor
<1>3. Still(s, reset_conn_monitor(s))
  BY Neutral DEF Typed, Still, reset_conn_monitor
<1>4. Still(s, stop_poll(s))
  BY Neutral DEF Typed, Still, stop_poll
<1>5. Still(s, mgd_probe_ap_send(s))
  BY Neutral DEF Typed, Still, mgd_probe_ap_send, run_again
<1>6. Still(s, chswitch_post_beacon(s))
  BY NeutralMore DEF Typed, Still, chswitch_post_beacon, WakeQueues
<1>7. ASSUME NEW csa, NEW ok PROVE Still(s, CsaStarted(s, csa, ok))
  BY NeutralMore DEF Typed, Still, CsaStarted
<1> QED
  BY <1>0, <1>1, <1>2, <1>3, <1>4, <1>5, <1>6, <1>7

LEMMA StillsMore ==
  ASSUME NEW s, Typed(s)
  PROVE  Still(s, reset_ap_probe(s)) /\ Still(s, BeaconHeard(s)) /\ Still(s, mgd_probe_ap(s))
<1>1. Still(s, reset_ap_probe(s))
  <2>1. CASE ~s.poll
    BY <2>1, Stills DEF reset_ap_probe
  <2>2. CASE s.poll
    <3> DEFINE t == stop_poll(s)
               u == reset_beacon_monitor(t)
               v == [u EXCEPT !.timers = @ \cup {"conn_mon"}]
    <3>1. Still(s, t) /\ Typed(t)
      BY Stills DEF Still, Alike
    <3> HIDE DEF t
    <3>2. Still(t, u) /\ Typed(u)
      BY <3>1, Stills DEF Still, Alike
    <3> HIDE DEF u
    <3>3. Still(u, v)
      BY <3>2 DEF Typed, Still, Alike
    <3>4. reset_ap_probe(s) = v
      BY <2>2 DEF reset_ap_probe, u, t
    <3> HIDE DEF v
    <3> QED
      BY <3>1, <3>2, <3>3, <3>4, StillTrans
  <2> QED
    BY <2>1, <2>2
<1>2. Still(s, BeaconHeard(s))
  <2> DEFINE p == reset_ap_probe(s)
             t == reset_beacon_monitor(p)
             u == chswitch_post_beacon(t)
  <2>1. Typed(p)
    BY <1>1 DEF Still, Alike
  <2> HIDE DEF p
  <2>2. Still(p, t) /\ Typed(t)
    BY <2>1, Stills DEF Still, Alike
  <2> HIDE DEF t
  <2>3. Still(t, u)
    BY <2>2, Stills
  <2>4. BeaconHeard(s) = IF s.csa_waiting_bcn THEN u ELSE t
    BY DEF BeaconHeard, u, t, p
  <2> HIDE DEF u
  <2>5. Still(s, t) /\ Still(s, u)
    BY <1>1, <2>2, <2>3, StillTrans DEF p
  <2> QED
    BY <2>4, <2>5
<1>3. Still(s, mgd_probe_ap(s))
  <2> DEFINE t == [s EXCEPT !.poll = TRUE, !.probe_send_count = 0]
  <2>1. Still(s, t) /\ Typed(t)
    BY DEF Typed, Still, Alike
  <2>2. mgd_probe_ap(s) \in {s, mgd_probe_ap_send(t)}
    BY DEF mgd_probe_ap
  <2> HIDE DEF t
  <2>3. Still(s, mgd_probe_ap_send(t))
    BY <2>1, Stills, StillTrans
  <2> QED
    BY <2>2, <2>3, Stills
<1> QED
  BY <1>1, <1>2, <1>3

----------------------------------------------------------------------------
(* An attempt that ends gives back its entry, and the channel.             *)
LEMMA AttemptFreed ==
  ASSUME NEW s, Good(s), Held(s)
  PROVE  /\ s.auth_data # None =>
              Typed(destroy_auth_data(s, FALSE)) /\ Free(destroy_auth_data(s, FALSE))
         /\ s.assoc_data # None =>
              Typed(destroy_assoc_data(s, FALSE)) /\ Free(destroy_assoc_data(s, FALSE))
<1>1. ASSUME NEW ap \in APs
      PROVE  /\ Typed(GiveUp(s, ap)) /\ GiveUp(s, ap).sta = s.sta \ {ap}
             /\ GiveUp(s, ap).leaked = s.leaked \ {ap} /\ ~GiveUp(s, ap).chan
  <2> DEFINE t == [s EXCEPT !.timers = @ \ {"timer"}, !.sta = @ \ {ap},
                            !.leaked = @ \ {ap}, !.poll = FALSE]
  <2>1. Typed(t) /\ t.sta = s.sta \ {ap} /\ t.leaked = s.leaked \ {ap}
    BY DEF Good, Typed
  <2>2. GiveUp(s, ap) = ReleaseChannel(t)
    BY DEF GiveUp
  <2> HIDE DEF t
  <2>3. /\ ReleaseChannel(t).sta = t.sta /\ ReleaseChannel(t).leaked = t.leaked
        /\ ~ReleaseChannel(t).chan /\ Typed(ReleaseChannel(t))
    BY <2>1 DEF Typed, ReleaseChannel
  <2> QED
    BY <2>1, <2>2, <2>3
<1>2. ASSUME s.auth_data # None
      PROVE  Typed(destroy_auth_data(s, FALSE)) /\ Free(destroy_auth_data(s, FALSE))
  <2> DEFINE ap == s.auth_data.ap
             g  == GiveUp(s, ap)
             d  == destroy_auth_data(s, FALSE)
  <2>1. ap \in APs
    BY <1>2 DEF Good, Typed, AuthTypes
  <2>2. \A x \in APs : Uses(s, x) <=> x = ap
    BY <1>2 DEF Uses, Good, OneAtATime
  <2>3. s.leaked \subseteq APs /\ s.sta = s.leaked \cup {ap}
    BY <2>1, <2>2 DEF Held
  <2>4. d = [g EXCEPT !.auth_data = None, !.late = @ \ {"auth"}]
    BY DEF destroy_auth_data
  <2>5. Typed(d) /\ ~Busy(d)
    BY <1>2, AuthEnds DEF Good, OneAtATime, Busy
  <2> HIDE DEF ap
  <2>6. /\ Typed(g) /\ g.sta = s.sta \ {ap} /\ g.leaked = s.leaked \ {ap} /\ ~g.chan
    BY <1>1, <2>1
  <2> HIDE DEF g, d
  <2>7. d.sta = g.sta /\ d.leaked = g.leaked /\ ~d.chan
    BY <2>4, <2>6 DEF Typed
  <2>8. Free(d)
    BY <2>3, <2>5, <2>6, <2>7 DEF Free
  <2> QED
    BY <2>5, <2>8 DEF d
<1>3. ASSUME s.assoc_data # None
      PROVE  Typed(destroy_assoc_data(s, FALSE)) /\ Free(destroy_assoc_data(s, FALSE))
  <2> DEFINE ap == s.assoc_data.ap
             g  == GiveUp(s, ap)
             d  == destroy_assoc_data(s, FALSE)
  <2>1. ap \in APs
    BY <1>3 DEF Good, Typed, AssocTypes
  <2>2. \A x \in APs : Uses(s, x) <=> x = ap
    BY <1>3 DEF Uses, Good, OneAtATime
  <2>3. s.leaked \subseteq APs /\ s.sta = s.leaked \cup {ap}
    BY <2>1, <2>2 DEF Held
  <2>4. d = [g EXCEPT !.assoc_data = None, !.late = @ \ {"assoc"}]
    BY DEF destroy_assoc_data
  <2>5. Typed(d) /\ ~Busy(d)
    BY <1>3, AssocEnds DEF Good, OneAtATime, Busy
  <2> HIDE DEF ap
  <2>6. /\ Typed(g) /\ g.sta = s.sta \ {ap} /\ g.leaked = s.leaked \ {ap} /\ ~g.chan
    BY <1>1, <2>1
  <2> HIDE DEF g, d
  <2>7. d.sta = g.sta /\ d.leaked = g.leaked /\ ~d.chan
    BY <2>4, <2>6 DEF Typed
  <2>8. Free(d)
    BY <2>3, <2>5, <2>6, <2>7 DEF Free
  <2> QED
    BY <2>5, <2>8 DEF d
<1> QED
  BY <1>2, <1>3

(* Telling user space frees nothing and takes nothing.                     *)
LEMMA ToldFree ==
  ASSUME NEW s, Typed(s), Free(s)
  PROVE  /\ \A what \in {"auth", "assoc"} : Typed(Answered(s, what)) /\ Free(Answered(s, what))
         /\ \A ap : Typed(report_disconnect(s, ap)) /\ Free(report_disconnect(s, ap))
<1>1. ASSUME NEW what \in {"auth", "assoc"}
      PROVE  Typed(Answered(s, what)) /\ Free(Answered(s, what))
  <2>1. /\ Answered(s, what).sta = s.sta /\ Answered(s, what).leaked = s.leaked
        /\ Answered(s, what).chan = s.chan
    BY DEF Typed, Answered
  <2> QED
    BY <2>1, Told DEF Free, Busy
<1>2. ASSUME NEW ap PROVE Typed(report_disconnect(s, ap)) /\ Free(report_disconnect(s, ap))
  <2>1. /\ report_disconnect(s, ap).sta = s.sta /\ report_disconnect(s, ap).leaked = s.leaked
        /\ report_disconnect(s, ap).chan = s.chan
    BY DEF Typed, report_disconnect
  <2> QED
    BY <2>1, ToldOfEnd DEF Free, Busy
<1> QED
  BY <1>1, <1>2

LEMMA AttemptOverFree ==
  ASSUME NEW s, Good(s), Held(s), NEW ap
  PROVE  /\ s.auth_data # None =>
              /\ Held(Answered(destroy_auth_data(s, FALSE), "auth"))
              /\ Held(report_disconnect(destroy_auth_data(s, FALSE), ap))
         /\ s.assoc_data # None =>
              /\ Held(Answered(destroy_assoc_data(s, FALSE), "assoc"))
              /\ Held(report_disconnect(destroy_assoc_data(s, FALSE), ap))
<1>1. ASSUME NEW d, Typed(d), Free(d)
      PROVE  /\ \A what \in {"auth", "assoc"} : Held(Answered(d, what))
             /\ Held(report_disconnect(d, ap))
  BY <1>1, ToldFree, FreeHeld
<1> QED
  BY <1>1, AttemptFreed

(* A connection that ends gives back everything, what was left included.   *)
LEMMA DisconnectEmpties ==
  ASSUME NEW s, Typed(s)
  PROVE  /\ Disconnect(s).sta = {} /\ Disconnect(s).leaked = {} /\ ~Disconnect(s).chan
         /\ Typed(Disconnect(s)) /\ Disconnect(s).associated = None
         /\ Disconnect(s).auth_data = s.auth_data /\ Disconnect(s).assoc_data = s.assoc_data
<1> DEFINE t == [s EXCEPT !.associated = None, !.poll = FALSE, !.late = {}, !.sta = {},
                          !.leaked = {}, !.timers = {}, !.csa_active = FALSE,
                          !.csa_waiting_bcn = FALSE]
           u == ReleaseChannel(t)
           v == WakeQueues(u)
           w == report_disconnect(v, s.associated)
<1>1. Typed(t) /\ t.sta = {} /\ t.leaked = {}
  BY DEF Typed
<1> HIDE DEF t
<1>2. Typed(u) /\ u.sta = {} /\ u.leaked = {} /\ ~u.chan
  BY <1>1 DEF Typed, ReleaseChannel
<1> HIDE DEF u
<1>3. Typed(v)
  BY <1>2, Neutral DEF Alike
<1>4. v.sta = u.sta /\ v.leaked = u.leaked /\ v.chan = u.chan
  BY <1>2 DEF Typed, WakeQueues
<1>5. v = set_disassoc(s)
  BY DEF set_disassoc, v, u, t
<1>6. /\ v.associated = None /\ v.auth_data = s.auth_data /\ v.assoc_data = s.assoc_data
  BY <1>5, Disassociated
<1> HIDE DEF v
<1>7. /\ Typed(w) /\ w.associated = None /\ w.auth_data = s.auth_data
      /\ w.assoc_data = s.assoc_data
  BY <1>3, <1>6, ToldOfEnd
<1>8. w.sta = v.sta /\ w.leaked = v.leaked /\ w.chan = v.chan
  BY <1>3 DEF Typed, report_disconnect
<1>9. Disconnect(s) = w
  BY <1>5 DEF Disconnect
<1> HIDE DEF w
<1> QED
  BY <1>2, <1>4, <1>7, <1>8, <1>9

LEMMA DisconnectFree ==
  ASSUME NEW s, Good(s), s.associated # None
  PROVE  Typed(Disconnect(s)) /\ Free(Disconnect(s)) /\ Held(Disconnect(s))
<1>1. Typed(Disconnect(s)) /\ Free(Disconnect(s))
  BY DisconnectEmpties DEF Good, OneAtATime, Free, Busy
<1> QED
  BY <1>1, FreeHeld

(* One more try.                                                           *)
LEMMA TriesHeld ==
  ASSUME NEW s, Good(s), Held(s)
  PROVE  /\ s.auth_data # None => Held(ieee80211_auth(s))
         /\ s.assoc_data # None => Held(ieee80211_do_assoc(s))
<1>1. ASSUME s.auth_data # None PROVE Held(ieee80211_auth(s))
  <2> DEFINE t == [s EXCEPT !.auth_data.tries = @ + 1, !.late = @ \ {"auth"}]
  <2>1. t.auth_data = [s.auth_data EXCEPT !.tries = @ + 1] /\ s.auth_data \in AuthTypes
    BY <1>1 DEF Good, Typed
  <2>2. t.auth_data \in AuthTypes /\ t.auth_data.ap = s.auth_data.ap
    BY <2>1 DEF AuthTypes
  <2>3. t.auth_data # None
    BY <2>2, MlmeAssumption DEF AuthTypes
  <2>4. /\ Typed(t) /\ t.assoc_data = s.assoc_data /\ t.associated = s.associated
        /\ t.sta = s.sta /\ t.leaked = s.leaked /\ t.chan = s.chan
    BY <2>2 DEF Good, Typed
  <2> HIDE DEF t
  <2>5. \A ap \in APs : Uses(t, ap) <=> Uses(s, ap)
    BY <1>1, <2>2, <2>3, <2>4 DEF Uses
  <2>6. Busy(t) <=> Busy(s)
    BY <1>1, <2>3, <2>4 DEF Busy
  <2>7. Held(t)
    BY <2>4, <2>5, <2>6 DEF Held
  <2>8. ieee80211_auth(s) = run_again(t)
    BY DEF ieee80211_auth, t
  <2> QED
    BY <2>4, <2>7, <2>8, Stills, StillHeld
<1>2. ASSUME s.assoc_data # None PROVE Held(ieee80211_do_assoc(s))
  <2> DEFINE t == [s EXCEPT !.assoc_data.tries = @ + 1, !.late = @ \ {"assoc"}]
  <2>1. t.assoc_data = [s.assoc_data EXCEPT !.tries = @ + 1] /\ s.assoc_data \in AssocTypes
    BY <1>2 DEF Good, Typed
  <2>2. t.assoc_data \in AssocTypes /\ t.assoc_data.ap = s.assoc_data.ap
    BY <2>1 DEF AssocTypes
  <2>3. t.assoc_data # None
    BY <2>2, MlmeAssumption DEF AssocTypes
  <2>4. /\ Typed(t) /\ t.auth_data = s.auth_data /\ t.associated = s.associated
        /\ t.sta = s.sta /\ t.leaked = s.leaked /\ t.chan = s.chan
    BY <2>2 DEF Good, Typed
  <2> HIDE DEF t
  <2>5. \A ap \in APs : Uses(t, ap) <=> Uses(s, ap)
    BY <1>2, <2>2, <2>3, <2>4 DEF Uses
  <2>6. Busy(t) <=> Busy(s)
    BY <1>2, <2>3, <2>4 DEF Busy
  <2>7. Held(t)
    BY <2>4, <2>5, <2>6 DEF Held
  <2>8. ieee80211_do_assoc(s) = run_again(t)
    BY DEF ieee80211_do_assoc, t
  <2> QED
    BY <2>4, <2>7, <2>8, Stills, StillHeld
<1> QED
  BY <1>1, <1>2

(* ieee80211_sta_work, part by part.                                       *)
LEMMA StaWorkHeld ==
  ASSUME NEW s, Good(s), Held(s) PROVE Held(ieee80211_sta_work(s))
<1>1. ASSUME NEW t, Good(t), Held(t)
      PROVE  /\ Held(run_again(t)) /\ Held(reset_ap_probe(t)) /\ Held(mgd_probe_ap_send(t))
             /\ Good(run_again(t)) /\ Good(reset_ap_probe(t)) /\ Good(mgd_probe_ap_send(t))
  <2>1. /\ Still(t, run_again(t)) /\ Still(t, reset_ap_probe(t))
        /\ Still(t, mgd_probe_ap_send(t))
    BY <1>1, Stills, StillsMore DEF Good
  <2> QED
    BY <1>1, <2>1, StillHeld, AlikeGood DEF Still
<1>2. ASSUME NEW t, Good(t), Held(t) PROVE Good(StaWorkAuth(t)) /\ Held(StaWorkAuth(t))
  <2>1. t.auth_data # None => Held(destroy_auth_data(t, FALSE))
    BY <1>2, AttemptFreed, FreeHeld
  <2>2. t.auth_data # None /\ t.auth_data.done => Good(destroy_auth_data(t, FALSE))
    BY <1>2, AuthForgotten
  <2>3. t.auth_data # None => /\ Held(Answered(destroy_auth_data(t, FALSE), "auth"))
                              /\ Good(Answered(destroy_auth_data(t, FALSE), "auth"))
    BY <1>2, AttemptOverFree, AuthAnswered
  <2>4. t.auth_data # None => Good(ieee80211_auth(t)) /\ Held(ieee80211_auth(t))
    BY <1>2, TriesGood, TriesHeld
  <2> QED
    BY <1>1, <1>2, <2>1, <2>2, <2>3, <2>4 DEF StaWorkAuth
<1>3. ASSUME NEW t, Good(t), Held(t) PROVE Good(StaWorkAssoc(t)) /\ Held(StaWorkAssoc(t))
  <2>1. t.assoc_data # None => /\ Held(Answered(destroy_assoc_data(t, FALSE), "assoc"))
                               /\ Good(Answered(destroy_assoc_data(t, FALSE), "assoc"))
    BY <1>3, AttemptOverFree, AssocAnswered
  <2>2. t.assoc_data # None => Good(ieee80211_do_assoc(t)) /\ Held(ieee80211_do_assoc(t))
    BY <1>3, TriesGood, TriesHeld
  <2> QED
    BY <1>1, <1>3, <2>1, <2>2 DEF StaWorkAssoc
<1>4. ASSUME NEW t, Good(t), Held(t) PROVE Held(StaWorkPoll(t))
  BY <1>1, <1>4, DisconnectFree DEF StaWorkPoll
<1> QED
  BY <1>2, <1>3, <1>4 DEF ieee80211_sta_work

----------------------------------------------------------------------------
(* The frames.                                                             *)
LEMMA AnsweredHeld ==
  ASSUME NEW s, Typed(s), Held(s), NEW what \in {"auth", "assoc"}
  PROVE  Held(Answered(s, what))
<1> DEFINE t == Answered(s, what)
<1>1. t.sta = s.sta /\ t.leaked = s.leaked /\ t.chan = s.chan
  BY DEF Typed, Answered
<1>2. /\ t.auth_data = s.auth_data /\ t.assoc_data = s.assoc_data
      /\ t.associated = s.associated
  BY Told
<1> HIDE DEF t
<1>3. \A ap \in APs : Uses(t, ap) <=> Uses(s, ap)
  BY <1>2 DEF Uses
<1>4. Busy(t) <=> Busy(s)
  BY <1>2 DEF Busy
<1>5. Held(t)
  BY <1>1, <1>3, <1>4 DEF Held
<1> QED
  BY <1>5 DEF t

LEMMA AuthFrameHeld ==
  ASSUME NEW s, Good(s), Held(s), NEW f PROVE Held(rx_mgmt_auth(s, f))
<1>1. CASE s.auth_data = None
  BY <1>1 DEF rx_mgmt_auth, From
<1>2. CASE s.auth_data # None
  <2> DEFINE t == [s EXCEPT !.auth_data.done = TRUE, !.late = @ \ {"auth"}]
             u == run_again(t)
             v == Answered(u, "auth")
             d == Answered(destroy_auth_data(s, FALSE), "auth")
  <2>1. Held(d)
    BY <1>2, AttemptOverFree
  <2>2. t.auth_data = [s.auth_data EXCEPT !.done = TRUE] /\ s.auth_data \in AuthTypes
    BY <1>2 DEF Good, Typed
  <2>3. t.auth_data \in AuthTypes /\ t.auth_data.ap = s.auth_data.ap
    BY <2>2 DEF AuthTypes
  <2>4. t.auth_data # None
    BY <2>3, MlmeAssumption DEF AuthTypes
  <2>5. /\ Typed(t) /\ t.assoc_data = s.assoc_data /\ t.associated = s.associated
        /\ t.sta = s.sta /\ t.leaked = s.leaked /\ t.chan = s.chan
    BY <2>3 DEF Good, Typed
  <2> HIDE DEF t
  <2>6. \A ap \in APs : Uses(t, ap) <=> Uses(s, ap)
    BY <1>2, <2>3, <2>4, <2>5 DEF Uses
  <2>7. Busy(t) <=> Busy(s)
    BY <1>2, <2>4, <2>5 DEF Busy
  <2>8. Held(t)
    BY <2>5, <2>6, <2>7 DEF Held
  <2>9. Typed(u) /\ Held(u)
    BY <2>5, <2>8, Stills, StillHeld DEF Still, Alike
  <2> HIDE DEF u
  <2>10. Held(v)
    BY <2>9, AnsweredHeld
  <2>11. rx_mgmt_auth(s, f) \in {s, d, v}
    BY DEF rx_mgmt_auth, v, u, t
  <2> HIDE DEF d, v
  <2> QED
    BY <2>1, <2>10, <2>11
<1> QED
  BY <1>1, <1>2

LEMMA EndFrameHeld ==
  ASSUME NEW s, Good(s), Held(s), NEW f, f.ap \in APs
  PROVE  /\ Held(rx_mgmt_deauth(s, f)) /\ Held(rx_mgmt_disassoc(s, f))
         /\ Held(rx_mgmt_probe_resp(s, f))
<1>1. s.associated = f.ap => Held(Disconnect(s))
  BY DisconnectFree, MlmeAssumption
<1>2. Held(rx_mgmt_disassoc(s, f))
  BY <1>1 DEF rx_mgmt_disassoc
<1>3. Held(reset_ap_probe(s))
  BY StillsMore, StillHeld DEF Good
<1>4. Held(rx_mgmt_probe_resp(s, f))
  BY <1>3 DEF rx_mgmt_probe_resp
<1>5. s.assoc_data # None => Held(report_disconnect(destroy_assoc_data(s, FALSE), f.ap))
  BY AttemptOverFree
<1>6. Held(rx_mgmt_deauth(s, f))
  BY <1>1, <1>5 DEF rx_mgmt_deauth, From
<1> QED
  BY <1>2, <1>4, <1>6

LEMMA AssocRespHeld ==
  ASSUME NEW s, Good(s), Held(s), NEW f, f.ap \in APs,
         f.kind \in {"assoc_ok", "assoc_denied", "assoc_comeback"},
         NEW r \in rx_mgmt_assoc_resp(s, f)
  PROVE  Held(r)
<1>1. CASE ~From(f, s.assoc_data)
  BY <1>1 DEF rx_mgmt_assoc_resp
<1>2. CASE From(f, s.assoc_data)
  <2> DEFINE t        == [s EXCEPT !.late = @ \ {"assoc"}]
             failed   == Answered(destroy_assoc_data(s, FALSE), "assoc")
             p        == stop_poll(s)
             n        == [p EXCEPT !.associated = f.ap]
             m        == reset_conn_monitor(n)
             a        == reset_beacon_monitor(m)
             e        == destroy_assoc_data(a, TRUE)
             x        == Answered(e, "assoc")
             accepted == [x EXCEPT !.cfg.conn = f.ap]
  <2>1. s.assoc_data # None /\ s.assoc_data.ap = f.ap /\ s.auth_data = None
    BY <1>2 DEF From, Good, OneAtATime
  <2>2. r \in {run_again(t), t, failed, accepted}
    BY <1>2 DEF rx_mgmt_assoc_resp, assoc_success, set_associated
  <2>3. Typed(t) /\ Still(s, t)
    BY DEF Good, Typed, Still, Alike
  <2> HIDE DEF t
  <2>4. Held(t) /\ Held(run_again(t))
    BY <2>3, Stills, StillHeld
  <2>5. Held(failed)
    BY <2>1, AttemptOverFree
  <2>6. Still(s, p) /\ Typed(p)
    BY Stills DEF Good, Still, Alike
  <2> HIDE DEF p
  <2>7. /\ Typed(n) /\ n.associated = f.ap /\ n.assoc_data = s.assoc_data
        /\ n.auth_data = None /\ n.sta = s.sta /\ n.leaked = s.leaked /\ n.chan = s.chan
    BY <2>1, <2>6 DEF Typed, Still, Alike
  <2> HIDE DEF n
  <2>8. Still(n, m) /\ Typed(m)
    BY <2>7, Stills DEF Still, Alike
  <2> HIDE DEF m
  <2>9. Still(m, a) /\ Typed(a)
    BY <2>8, Stills DEF Still, Alike
  <2>10. e = [a EXCEPT !.assoc_data = None, !.late = @ \ {"assoc"}]
    BY DEF destroy_assoc_data
  <2> HIDE DEF a, e
  <2>11. /\ a.associated = f.ap /\ a.auth_data = None
         /\ a.sta = s.sta /\ a.leaked = s.leaked /\ a.chan = s.chan
    BY <2>7, <2>8, <2>9 DEF Still, Alike
  <2>12. /\ Typed(e) /\ e.associated = f.ap /\ e.assoc_data = None /\ e.auth_data = None
         /\ e.sta = s.sta /\ e.leaked = s.leaked /\ e.chan = s.chan
    <3>1. /\ Typed(e) /\ e.associated = a.associated /\ e.assoc_data = None
          /\ e.auth_data = a.auth_data
          /\ e.sta = a.sta /\ e.leaked = a.leaked /\ e.chan = a.chan
      BY <2>9, <2>10 DEF Typed
    <3> QED
      BY <2>11, <3>1
  <2>13. f.ap # None
    BY MlmeAssumption
  <2>14. \A ap \in APs : Uses(e, ap) <=> Uses(s, ap)
    BY <2>1, <2>12, <2>13 DEF Uses, Good, OneAtATime
  <2>15. Busy(e) <=> Busy(s)
    BY <2>1, <2>12, <2>13 DEF Busy
  <2>16. Held(e)
    BY <2>12, <2>14, <2>15 DEF Held
  <2>17. Held(x) /\ Typed(x)
    BY <2>12, <2>16, AnsweredHeld, Told
  <2> HIDE DEF x
  <2>18. /\ accepted.auth_data = x.auth_data /\ accepted.assoc_data = x.assoc_data
         /\ accepted.associated = x.associated /\ accepted.sta = x.sta
         /\ accepted.leaked = x.leaked /\ accepted.chan = x.chan
    BY <2>17 DEF Typed
  <2> HIDE DEF accepted
  <2>19. \A ap \in APs : Uses(accepted, ap) <=> Uses(x, ap)
    BY <2>18 DEF Uses
  <2>20. Busy(accepted) <=> Busy(x)
    BY <2>18 DEF Busy
  <2>21. Held(accepted)
    BY <2>17, <2>18, <2>19, <2>20 DEF Held
  <2> HIDE DEF failed
  <2> QED
    BY <2>2, <2>4, <2>5, <2>21
<1> QED
  BY <1>1, <1>2

LEMMA ChanswitchHeld ==
  ASSUME NEW s, Good(s), Held(s), NEW q, NEW csa, NEW r \in ProcessChanswitch(s, q, csa)
  PROVE  Held(r[1])
<1> DEFINE yes == CsaStarted(s, csa, TRUE)
           no  == CsaStarted(s, csa, FALSE)
<1>1. Held(yes) /\ Held(no)
  BY Stills, StillHeld DEF Good
<1>2. PICK w : r \in {<<s, w>>, <<yes, w>>, <<no, w>>}
  BY DEF ProcessChanswitch
<1> HIDE DEF yes, no
<1>3. r[1] \in {s, yes, no}
  BY <1>2
<1> QED
  BY <1>1, <1>3

LEMMA ReceivedHeld ==
  ASSUME NEW s, Good(s), Held(s), NEW q, NEW f \in Frames, NEW r \in Received(s, q, f)
  PROVE  Held(r[1])
<1>1. f.ap \in APs /\ f.kind \in Kinds
  BY MlmeAssumption
<1>2. CASE f.kind = "beacon"
  <2>0. r \in rx_mgmt_beacon(s, q, f)
    BY <1>2 DEF Received
  <2>1. CASE s.associated # f.ap
    BY <2>0, <2>1 DEF rx_mgmt_beacon
  <2>2. CASE s.associated = f.ap
    <3> DEFINE heard == BeaconHeard(s)
               more  == IF f.csa = None THEN {<<heard, q>>}
                        ELSE ProcessChanswitch(heard, q, f.csa)
    <3>1. Alike(s, heard) /\ Held(heard)
      BY StillsMore, StillHeld DEF Good, Still
    <3>2. Good(heard) /\ heard.associated # None
      BY <1>1, <2>2, <3>1, AlikeGood, MlmeAssumption DEF Alike
    <3>3. rx_mgmt_beacon(s, q, f)
            = {<<heard, q>>} \cup more \cup {<<Disconnect(m[1]), m[2]>> : m \in more}
      BY <2>2 DEF rx_mgmt_beacon
    <3> HIDE DEF heard
    <3>4. ASSUME NEW m \in more
          PROVE  Held(m[1]) /\ Held(Disconnect(m[1]))
      <4>1. Good(m[1]) /\ m[1].associated # None
        BY <3>2, <3>4, ChanswitchGood
      <4>2. Held(m[1])
        BY <3>1, <3>2, <3>4, ChanswitchHeld
      <4> QED
        BY <4>1, <4>2, DisconnectFree
    <3> HIDE DEF more
    <3>5. CASE r = <<heard, q>>
      BY <3>1, <3>5
    <3>6. CASE r \in more
      BY <3>4, <3>6
    <3>7. CASE \E m \in more : r = <<Disconnect(m[1]), m[2]>>
      BY <3>4, <3>7
    <3> QED
      BY <2>0, <3>3, <3>5, <3>6, <3>7
  <2> QED
    BY <2>1, <2>2
<1>3. CASE f.kind = "action"
  <2>1. r \in ProcessChanswitch(s, q, f.csa) \/ r = <<s, q>>
    BY <1>3 DEF Received
  <2> QED
    BY <2>1, ChanswitchHeld
<1>4. CASE f.kind \in {"assoc_ok", "assoc_denied", "assoc_comeback"}
  <2>1. r \in {<<a, q>> : a \in rx_mgmt_assoc_resp(s, f)}
    BY <1>4 DEF Received
  <2> QED
    BY <1>1, <1>4, <2>1, AssocRespHeld
<1>5. CASE f.kind \in {"auth_ok", "auth_denied", "probe_resp", "deauth", "disassoc"}
  <2>1. r[1] \in {rx_mgmt_auth(s, f), rx_mgmt_probe_resp(s, f),
                  rx_mgmt_deauth(s, f), rx_mgmt_disassoc(s, f)}
    BY <1>5 DEF Received
  <2> QED
    BY <1>1, <2>1, AuthFrameHeld, EndFrameHeld
<1> QED
  BY <1>1, <1>2, <1>3, <1>4, <1>5 DEF Kinds

(* The works of a channel switch and of the monitors.                      *)
LEMMA WorksHeld ==
  ASSUME NEW s, Good(s), Held(s)
  PROVE  /\ Held(mgd_probe_ap(s))
         /\ \A q : \A r \in chswitch_work(s, q) : Held(r[1])
<1>1. Held(mgd_probe_ap(s))
  BY StillsMore, StillHeld DEF Good
<1> DEFINE t == [s EXCEPT !.reserved = FALSE, !.switched = TRUE]
           u == [s EXCEPT !.csa_waiting_bcn = TRUE]
           v == reset_beacon_monitor(u)
           w == reset_conn_monitor(v)
<1>2. Still(s, t) /\ Still(s, u) /\ Typed(u)
  BY DEF Good, Typed, Still, Alike
<1> HIDE DEF u
<1>3. Still(u, v) /\ Typed(v)
  BY <1>2, Stills DEF Still, Alike
<1> HIDE DEF v
<1>4. Still(v, w)
  BY <1>3, Stills
<1>5. Held(t) /\ Held(w)
  BY <1>2, <1>3, <1>4, StillHeld
<1>6. ASSUME NEW q, NEW r \in chswitch_work(s, q) PROVE r[1] \in {s, t, w}
  BY <1>6 DEF chswitch_work, u, v
<1> HIDE DEF t, w
<1> QED
  BY <1>1, <1>5, <1>6

----------------------------------------------------------------------------
(* The calls.                                                              *)
LEMMA IdleHeld ==
  ASSUME NEW s, Held(s), ~Busy(s)
  PROVE  s.sta = s.leaked /\ s.leaked \subseteq APs /\ (s.chan => s.leaked # {})
<1>1. \A ap \in APs : ~Uses(s, ap)
  BY DEF Busy, Uses
<1> QED
  BY <1>1 DEF Held

(* The entry and the channel of a new attempt.                             *)
LEMMA PreparedTakes ==
  ASSUME NEW s, Typed(s), NEW ap \in APs
  PROVE  /\ Alike(s, Prepared(s, ap)) /\ Prepared(s, ap).sta = s.sta \cup {ap}
         /\ Prepared(s, ap).leaked = s.leaked /\ Prepared(s, ap).chan = TRUE
<1> DEFINE t == [s EXCEPT !.sta = @ \cup {ap}, !.chan = TRUE]
<1>1. Typed(t) /\ t.sta = s.sta \cup {ap} /\ t.leaked = s.leaked /\ t.chan = TRUE
  BY DEF Typed
<1>2. Prepared(s, ap) \in {t, stop_poll(t)}
  BY DEF Prepared, restart_sta_timer
<1> HIDE DEF t
<1>3. Still(t, t) /\ Still(t, stop_poll(t))
  BY <1>1, Stills
<1>4. Alike(s, Prepared(s, ap))
  BY NeutralMore
<1> QED
  BY <1>1, <1>2, <1>3, <1>4 DEF Still

(* Before an authentication is prepared only what was left over is held.   *)
LEMMA AuthPreparedHeld ==
  ASSUME NEW s, Good(s), Held(s), NEW ap \in APs, s.assoc_data = None,
         NEW t, t = AuthPrepares(s, ap)
  PROVE  /\ Typed(t) /\ t.auth_data = Auth(ap) /\ t.assoc_data = None /\ t.associated = None
         /\ t.sta = t.leaked /\ t.leaked \subseteq APs
<1> DEFINE freed   == IF s.auth_data = None THEN s ELSE destroy_auth_data(s, FALSE)
           started == [freed EXCEPT !.auth_data = Auth(ap)]
<1>1. Auth(ap) \in AuthTypes
  BY DEF Auth, AuthTypes
<1>2. t = IF started.associated = None THEN started ELSE Disconnect(started)
  BY DEF AuthPrepares, Disconnected
<1>3. /\ Typed(freed) /\ freed.assoc_data = None
      /\ freed.associated = None => freed.sta = freed.leaked /\ freed.leaked \subseteq APs
  <2>1. CASE s.auth_data = None
    <3>1. s.associated = None => s.sta = s.leaked /\ s.leaked \subseteq APs
      BY <2>1, IdleHeld DEF Busy
    <3> QED
      BY <2>1, <3>1 DEF Good
  <2>2. CASE s.auth_data # None
    BY <2>2, AttemptFreed DEF Free, Busy
  <2> QED
    BY <2>1, <2>2
<1> HIDE DEF freed
<1>4. /\ Typed(started) /\ started.auth_data = Auth(ap) /\ started.assoc_data = None
      /\ started.associated = freed.associated /\ started.sta = freed.sta
      /\ started.leaked = freed.leaked
  BY <1>1, <1>3 DEF Typed
<1> HIDE DEF started
<1>5. CASE started.associated = None
  BY <1>2, <1>3, <1>4, <1>5
<1>6. CASE started.associated # None
  BY <1>2, <1>4, <1>6, DisconnectEmpties
<1> QED
  BY <1>5, <1>6

LEMMA AuthCallHeld ==
  ASSUME NEW s, Good(s), Held(s), NEW ap \in APs, s.assoc_data = None,
         NEW t, t = AuthPrepares(s, ap)
  PROVE  /\ Held([ieee80211_auth(Prepared(t, ap)) EXCEPT !.cfg.auth = ap])
         /\ Held(ReleaseChannel([t EXCEPT !.auth_data = None]))
<1>1. /\ Typed(t) /\ t.auth_data = Auth(ap) /\ t.assoc_data = None /\ t.associated = None
      /\ t.sta = t.leaked /\ t.leaked \subseteq APs
  BY AuthPreparedHeld
<1>2. Auth(ap) \in AuthTypes /\ Auth(ap).ap = ap
  BY DEF Auth, AuthTypes
<1>3. Held(ReleaseChannel([t EXCEPT !.auth_data = None]))
  <2> DEFINE u == [t EXCEPT !.auth_data = None]
             v == ReleaseChannel(u)
  <2>1. /\ Typed(u) /\ u.auth_data = None /\ u.assoc_data = None /\ u.associated = None
        /\ u.sta = t.sta /\ u.leaked = t.leaked
    BY <1>1 DEF Typed
  <2> HIDE DEF u
  <2>2. Typed(v) /\ v.sta = u.sta /\ v.leaked = u.leaked /\ ~v.chan
    BY <2>1 DEF Typed, ReleaseChannel
  <2>3. v.auth_data = None /\ v.assoc_data = None /\ v.associated = None
    BY <2>1, Neutral DEF Alike
  <2> HIDE DEF v
  <2>4. Free(v)
    BY <1>1, <2>1, <2>2, <2>3 DEF Free, Busy
  <2>5. Held(v)
    BY <2>2, <2>4, FreeHeld
  <2> QED
    BY <2>5 DEF v, u
<1>4. Held([ieee80211_auth(Prepared(t, ap)) EXCEPT !.cfg.auth = ap])
  <2> DEFINE p == Prepared(t, ap)
             u == [p EXCEPT !.auth_data.tries = @ + 1, !.late = @ \ {"auth"}]
             v == run_again(u)
             w == [v EXCEPT !.cfg.auth = ap]
  <2>1. Alike(t, p) /\ p.sta = t.sta \cup {ap} /\ p.leaked = t.leaked /\ p.chan = TRUE
    <3> HIDE DEF u, v, w
    <3>1. Typed(t)
      BY <1>1
    <3> QED
      BY <3>1, PreparedTakes
  <2>2. ieee80211_auth(p) = v
    BY DEF ieee80211_auth
  <2> HIDE DEF p
  <2>3. u.auth_data = [p.auth_data EXCEPT !.tries = @ + 1] /\ p.auth_data = Auth(ap)
    BY <1>1, <2>1 DEF Alike, Typed
  <2>4. u.auth_data \in AuthTypes /\ u.auth_data.ap = ap
    BY <1>2, <2>3 DEF AuthTypes
  <2>5. u.auth_data # None
    BY <2>4, MlmeAssumption DEF AuthTypes
  <2>6. /\ Typed(u) /\ u.assoc_data = p.assoc_data /\ u.associated = p.associated
        /\ u.sta = p.sta /\ u.leaked = p.leaked /\ u.chan = p.chan
    BY ZenonT(40), <2>1, <2>4 DEF Alike, Typed
  <2> HIDE DEF u
  <2>7. Still(u, v)
    BY <2>6, Stills
  <2> HIDE DEF v
  <2>8. /\ w.auth_data = v.auth_data /\ w.assoc_data = v.assoc_data
        /\ w.associated = v.associated /\ w.sta = v.sta /\ w.leaked = v.leaked
        /\ w.chan = v.chan
    BY <2>7 DEF Still, Alike, Typed
  <2> HIDE DEF w
  <2>9. /\ w.auth_data = u.auth_data /\ w.assoc_data = None /\ w.associated = None
        /\ w.sta = t.leaked \cup {ap} /\ w.leaked = t.leaked /\ w.chan = TRUE
    BY <1>1, <2>1, <2>6, <2>7, <2>8 DEF Still, Alike
  <2>10. \A x \in APs : Uses(w, x) <=> x = ap
    BY <2>4, <2>5, <2>9 DEF Uses
  <2>11. Busy(w)
    BY <2>5, <2>9 DEF Busy
  <2>12. Held(w)
    BY <1>1, <2>9, <2>10, <2>11 DEF Held
  <2> QED
    BY <2>2, <2>12 DEF w, p
<1> QED
  BY <1>3, <1>4

(* Before an association is prepared the entry of the AP one was           *)
(* authenticated with may be kept, and nothing else of an attempt.         *)
LEMMA AssocPreparedHeld ==
  ASSUME NEW s, Good(s), Held(s), NEW ap \in APs, s.assoc_data = None,
         s.auth_data # None => s.auth_data.done,
         NEW t, t = AssocPrepares(s, ap)
  PROVE  /\ Typed(t) /\ ~Busy(t) /\ t.leaked \subseteq t.sta
         /\ t.sta \subseteq t.leaked \cup {ap} /\ t.leaked \subseteq APs
         /\ t.chan => t.sta # {}
<1> DEFINE d == Disconnected(s)
<1>1. Good(d) /\ Held(d) /\ d.associated = None /\ d.assoc_data = None
  <2>1. CASE s.associated = None
    BY <2>1 DEF Disconnected
  <2>2. CASE s.associated # None
    BY <2>2, DisconnectGood, DisconnectFree DEF Disconnected, Nothing
  <2> QED
    BY <2>1, <2>2
<1>2. t = IF d.auth_data = None THEN d ELSE destroy_auth_data(d, d.auth_data.ap = ap)
  BY DEF AssocPrepares
<1> HIDE DEF d
<1>3. CASE d.auth_data = None
  <2>1. ~Busy(d)
    BY <1>1, <1>3 DEF Busy
  <2>2. t = d
    BY <1>2, <1>3
  <2> QED
    BY <1>1, <2>1, <2>2, IdleHeld DEF Good
<1>4. CASE d.auth_data # None /\ d.auth_data.ap # ap
  <2>1. t = destroy_auth_data(d, FALSE)
    BY <1>2, <1>4 DEF destroy_auth_data
  <2> QED
    BY <1>1, <1>4, <2>1, AttemptFreed DEF Free
<1>5. CASE d.auth_data # None /\ d.auth_data.ap = ap
  <2>1. t = [d EXCEPT !.auth_data = None, !.late = @ \ {"auth"}]
    BY <1>2, <1>5 DEF destroy_auth_data
  <2>2. /\ Typed(t) /\ t.auth_data = None /\ t.assoc_data = None /\ t.associated = None
        /\ t.sta = d.sta /\ t.leaked = d.leaked
    BY <1>1, <2>1 DEF Good, Typed
  <2>3. \A x \in APs : Uses(d, x) <=> x = ap
    BY <1>1, <1>5 DEF Uses
  <2>4. d.sta = d.leaked \cup {ap} /\ d.leaked \subseteq APs
    BY <1>1, <2>3 DEF Held
  <2> QED
    BY <2>2, <2>4 DEF Busy
<1> QED
  BY <1>3, <1>4, <1>5

LEMMA AssocCallHeld ==
  ASSUME NEW s, Good(s), Held(s), NEW ap \in APs, s.assoc_data = None,
         s.auth_data # None => s.auth_data.done,
         NEW t, t = AssocPrepares(s, ap)
  PROVE  /\ Held([run_again([Prepared(t, ap) EXCEPT !.assoc_data = Assoc(ap)])
                    EXCEPT !.cfg.assoc = ap])
         /\ Held(AssocFails(t, ap))
<1>1. /\ Typed(t) /\ ~Busy(t) /\ t.leaked \subseteq t.sta
      /\ t.sta \subseteq t.leaked \cup {ap} /\ t.leaked \subseteq APs
      /\ t.chan => t.sta # {}
  BY AssocPreparedHeld
<1>2. t.auth_data = None /\ t.assoc_data = None /\ t.associated = None
  BY <1>1 DEF Busy
<1>3. Held(AssocFails(t, ap))
  <2> DEFINE u == AssocFails(t, ap)
  <2>1. /\ u.auth_data = None /\ u.assoc_data = None /\ u.associated = None
        /\ u.sta = t.sta /\ u.leaked = t.sta /\ u.chan = t.chan
    BY <1>1, <1>2 DEF Typed, AssocFails
  <2> HIDE DEF u
  <2>2. ~Busy(u) /\ \A x \in APs : ~Uses(u, x)
    BY <2>1 DEF Busy, Uses
  <2>3. u.sta \subseteq APs
    BY <1>1, <2>1
  <2>4. Held(u)
    BY <1>1, <2>1, <2>2, <2>3 DEF Held
  <2> QED
    BY <2>4 DEF u
<1>4. Held([run_again([Prepared(t, ap) EXCEPT !.assoc_data = Assoc(ap)])
              EXCEPT !.cfg.assoc = ap])
  <2> DEFINE p == Prepared(t, ap)
             u == [p EXCEPT !.assoc_data = Assoc(ap)]
             v == run_again(u)
             w == [v EXCEPT !.cfg.assoc = ap]
  <2>1. Alike(t, p) /\ p.sta = t.sta \cup {ap} /\ p.leaked = t.leaked /\ p.chan = TRUE
    <3> HIDE DEF u, v, w
    <3>1. Typed(t)
      BY <1>1
    <3> QED
      BY <3>1, PreparedTakes
  <2> HIDE DEF p
  <2>2. Assoc(ap) \in AssocTypes /\ Assoc(ap).ap = ap
    BY DEF Assoc, AssocTypes
  <2>3. Assoc(ap) # None
    BY <2>2, MlmeAssumption DEF AssocTypes
  <2>4. /\ Typed(u) /\ u.assoc_data = Assoc(ap) /\ u.auth_data = p.auth_data
        /\ u.associated = p.associated
        /\ u.sta = p.sta /\ u.leaked = p.leaked /\ u.chan = p.chan
    BY <2>1, <2>2 DEF Alike, Typed
  <2> HIDE DEF u
  <2>5. Still(u, v)
    BY <2>4, Stills
  <2> HIDE DEF v
  <2>6. /\ w.auth_data = v.auth_data /\ w.assoc_data = v.assoc_data
        /\ w.associated = v.associated /\ w.sta = v.sta /\ w.leaked = v.leaked
        /\ w.chan = v.chan
    BY <2>5 DEF Still, Alike, Typed
  <2> HIDE DEF w
  <2>7. /\ w.assoc_data = Assoc(ap) /\ w.auth_data = None /\ w.associated = None
        /\ w.sta = t.sta \cup {ap} /\ w.leaked = t.leaked /\ w.chan = TRUE
    BY <1>2, <2>1, <2>4, <2>5, <2>6 DEF Still, Alike
  <2>8. \A x \in APs : Uses(w, x) <=> x = ap
    BY <2>2, <2>3, <2>7 DEF Uses
  <2>9. Busy(w)
    BY <2>3, <2>7 DEF Busy
  <2>10. Held(w)
    BY <1>1, <2>7, <2>8, <2>9 DEF Held
  <2> QED
    BY <2>10 DEF w, v, u, p
<1> QED
  BY <1>3, <1>4

LEMMA DeauthCallHeld ==
  ASSUME NEW s, Good(s), Held(s), NEW ap \in APs PROVE Held(Deauthenticated(s, ap))
<1>1. s.associated = ap => Held(Disconnect(s))
  BY DisconnectFree, MlmeAssumption
<1> QED
  BY <1>1, AttemptOverFree DEF Deauthenticated

(* Being suspended and going down.                                         *)
LEMMA QuiesceHeld == ASSUME NEW s, Good(s), Held(s) PROVE Held(Quiesced(s))
<1> DEFINE aps == {x.ap : x \in {s.auth_data, s.assoc_data} \ {None}}
           t == IF s.assoc_data = None THEN s ELSE destroy_assoc_data(s, FALSE)
           u == IF t.auth_data = None THEN t ELSE destroy_auth_data(t, FALSE)
           v == IF aps = {} THEN u ELSE report_disconnect(u, CHOOSE ap \in aps : TRUE)
<1>0. Quiesced(s) = IF v.associated = None THEN v ELSE Deauthenticated(v, v.associated)
  BY DEF Quiesced
<1>1. Good(v) /\ Held(v)
  <2>1. CASE s.assoc_data # None
    <3>1. s.auth_data = None /\ s.assoc_data.ap \in APs
      BY <2>1 DEF Good, OneAtATime, Typed, AssocTypes
    <3>2. aps = {s.assoc_data.ap}
      BY <2>1, <3>1
    <3>3. t = destroy_assoc_data(s, FALSE) /\ t.auth_data = None /\ u = t
      BY <2>1, <3>1, AssocEnds DEF Good
    <3>4. v = report_disconnect(destroy_assoc_data(s, FALSE), s.assoc_data.ap)
      BY <3>2, <3>3
    <3> QED
      BY <2>1, <3>1, <3>4, AttemptReported, AttemptOverFree
  <2>2. CASE s.assoc_data = None /\ s.auth_data # None
    <3>1. s.auth_data.ap \in APs
      BY <2>2 DEF Good, Typed, AuthTypes
    <3>2. aps = {s.auth_data.ap}
      BY <2>2
    <3>3. t = s /\ u = destroy_auth_data(s, FALSE)
      BY <2>2
    <3>4. v = report_disconnect(destroy_auth_data(s, FALSE), s.auth_data.ap)
      BY <3>2, <3>3
    <3> QED
      BY <2>2, <3>1, <3>4, AttemptReported, AttemptOverFree
  <2>3. CASE s.assoc_data = None /\ s.auth_data = None
    <3>1. aps = {}
      BY <2>3
    <3> QED
      BY <2>3, <3>1
  <2> QED
    BY <2>1, <2>2, <2>3
<1> HIDE DEF v
<1>2. v.associated # None => v.associated \in APs
  BY <1>1 DEF Good, Typed
<1> QED
  BY <1>0, <1>1, <1>2, DeauthCallHeld

LEMMA StopHeld ==
  ASSUME NEW s, Good(s)
  PROVE  Held([Stopped(Disconnected(s)) EXCEPT !.sta = {}, !.leaked = {}, !.chan = FALSE])
<1> DEFINE d == Disconnected(s)
           t == IF d.assoc_data = None THEN d
                ELSE Answered(destroy_assoc_data(d, FALSE), "assoc")
           u == IF t.auth_data = None THEN t ELSE destroy_auth_data(t, FALSE)
           v == [u EXCEPT !.timers = @ \ {"timer"}, !.cfg.auth = None]
           w == [v EXCEPT !.sta = {}, !.leaked = {}, !.chan = FALSE]
<1>1. Typed(d) /\ d.associated = None
  BY DisconnectedGood DEF Good
<1>2. v = Stopped(d)
  BY DEF Stopped
<1> HIDE DEF d
<1>3. Typed(t) /\ t.associated = None /\ t.assoc_data = None
  <2>1. CASE d.assoc_data = None
    BY <1>1, <2>1
  <2>2. CASE d.assoc_data # None
    <3> DEFINE e == destroy_assoc_data(d, FALSE)
    <3>1. Typed(e) /\ e.assoc_data = None /\ e.associated = None
      BY <1>1, <2>2, AssocEnds
    <3> HIDE DEF e
    <3>2. /\ Typed(Answered(e, "assoc")) /\ Answered(e, "assoc").assoc_data = None
          /\ Answered(e, "assoc").associated = None
      BY <3>1, Told
    <3> QED
      BY <2>2, <3>2 DEF e
  <2> QED
    BY <2>1, <2>2
<1> HIDE DEF t
<1>4. Typed(u) /\ Nothing(u)
  BY <1>3, AuthEnds DEF Nothing
<1> HIDE DEF u
<1>5. v.cfg = [u.cfg EXCEPT !.auth = None]
  BY <1>4 DEF Typed
<1>6. v.cfg \in [auth: APs \cup {None}, assoc: APs \cup {None}, conn: APs \cup {None}]
  BY <1>4, <1>5 DEF Typed
<1>7. Typed(v) /\ Nothing(v)
  BY <1>4, <1>6 DEF Typed, Nothing
<1> HIDE DEF v
<1>8. /\ Typed(w) /\ Nothing(w) /\ w.sta = {} /\ w.leaked = {} /\ w.chan = FALSE
  BY <1>7 DEF Typed, Nothing
<1> HIDE DEF w
<1>9. Free(w)
  BY <1>8 DEF Free, Busy, Nothing
<1>10. Held(w)
  BY <1>8, <1>9, FreeHeld
<1> QED
  BY <1>2, <1>10 DEF w, d

----------------------------------------------------------------------------
(* Every step of every actor.                                              *)
LEMMA CallsKeepHeld == ASSUME Good(sdata), Held(sdata), Calls PROVE Held(sdata')
<1>1. ASSUME NEW ap \in APs, mgd_auth(ap) PROVE Held(sdata')
  <2> DEFINE t      == AuthPrepares(sdata, ap)
             begun  == [ieee80211_auth(Prepared(t, ap)) EXCEPT !.cfg.auth = ap]
             failed == ReleaseChannel([t EXCEPT !.auth_data = None])
  <2>1. /\ sdata.assoc_data = None
        /\ sdata' = begun \/ sdata' = failed
    BY <1>1 DEF mgd_auth
  <2>2. Held(begun) /\ Held(failed)
    BY <2>1, AuthCallHeld
  <2> HIDE DEF begun, failed
  <2> QED
    BY <2>1, <2>2
<1>2. ASSUME NEW ap \in APs, mgd_assoc(ap) PROVE Held(sdata')
  <2> DEFINE t      == AssocPrepares(sdata, ap)
             begun  == [run_again([Prepared(t, ap) EXCEPT !.assoc_data = Assoc(ap)])
                          EXCEPT !.cfg.assoc = ap]
             failed == AssocFails(t, ap)
  <2>1. /\ sdata.assoc_data = None
        /\ sdata.auth_data # None => sdata.auth_data.done
        /\ sdata' = begun \/ sdata' = failed
    BY <1>2 DEF mgd_assoc
  <2>2. Held(begun) /\ Held(failed)
    BY <2>1, AssocCallHeld
  <2> HIDE DEF begun, failed
  <2> QED
    BY <2>1, <2>2
<1>3. ASSUME NEW ap \in APs, mgd_deauth(ap) PROVE Held(sdata')
  BY <1>3, DeauthCallHeld DEF mgd_deauth
<1>4. ASSUME NEW ap \in APs, mgd_disassoc(ap) PROVE Held(sdata')
  BY <1>4, DisconnectFree, MlmeAssumption DEF mgd_disassoc
<1>5. CASE mgd_quiesce
  BY <1>5, QuiesceHeld DEF mgd_quiesce
<1>6. CASE mgd_stop
  BY <1>6, StopHeld DEF mgd_stop
<1>7. CASE Up \/ ScanStarts
  BY <1>7 DEF Up, ScanStarts
<1> QED
  BY <1>1, <1>2, <1>3, <1>4, <1>5, <1>6, <1>7 DEF Calls

LEMMA WorkKeepsHeld == ASSUME Good(sdata), Held(sdata), Work PROVE Held(sdata')
<1>1. CASE IfaceBegins
  BY <1>1 DEF IfaceBegins
<1>2. CASE RxFrame
  BY <1>2, ReceivedHeld DEF RxFrame
<1>3. CASE StaWork
  BY <1>3, StaWorkHeld DEF StaWork
<1>4. CASE ProbeWork
  BY <1>4, WorksHeld DEF ProbeWork
<1>5. CASE CsaDropWork
  BY <1>5, DisconnectFree DEF CsaDropWork
<1>6. CASE ChswitchWork
  BY <1>6, WorksHeld DEF ChswitchWork
<1> QED
  BY <1>1, <1>2, <1>3, <1>4, <1>5, <1>6 DEF Work

LEMMA StepKeepsHeld == ASSUME Good(sdata), Held(sdata), [Next]_vars PROVE Held(sdata')
<1>1. CASE Work
  BY <1>1, WorkKeepsHeld
<1>2. CASE Calls
  BY <1>2, CallsKeepHeld
<1>3. CASE notify_scan_completed
  BY <1>3, Stills, StillHeld DEF notify_scan_completed, restart_sta_timer, Good
<1>4. ASSUME NEW t \in Timers, TimerFires(t) PROVE Held(sdata')
  <2>1. Still(sdata, [sdata EXCEPT !.timers = @ \ {t}])
    BY DEF Good, Typed, Still, Alike
  <2>2. sdata' = [sdata EXCEPT !.timers = @ \ {t}]
    BY <1>4 DEF TimerFires
  <2> QED
    BY <2>1, <2>2, StillHeld
<1>5. ASSUME NEW d \in Deadlines, TimePasses(d) PROVE Held(sdata')
  <2>1. Still(sdata, [sdata EXCEPT !.late = @ \cup {d}])
    BY DEF Good, Typed, Still, Alike
  <2>2. sdata' = [sdata EXCEPT !.late = @ \cup {d}]
    BY <1>5 DEF TimePasses
  <2> QED
    BY <2>1, <2>2, StillHeld
<1>6. CASE DataArrives
  BY <1>6, Stills, StillHeld DEF DataArrives, Good
<1>7. CASE FrameArrives \/ GoOutOfRange \/ UNCHANGED vars
  BY <1>7 DEF FrameArrives, GoOutOfRange, vars
<1> QED
  BY <1>1, <1>2, <1>3, <1>4, <1>5, <1>6, <1>7 DEF Next

LEMMA InitHeld == Init => Held(sdata)
  BY DEF Init, Held, Uses, Busy

(* The users of StationsAccounted are the APs something is under way with. *)
LEMMA HeldAccounted == ASSUME Good(sdata), Held(sdata) PROVE StationsAccounted
<1> DEFINE attempts == {x.ap : x \in {sdata.auth_data, sdata.assoc_data} \ {None}}
           users    == attempts \cup ({sdata.associated} \ {None})
<1>1. /\ sdata.auth_data # None => sdata.auth_data.ap \in APs
      /\ sdata.assoc_data # None => sdata.assoc_data.ap \in APs
      /\ sdata.associated # None => sdata.associated \in APs
  BY DEF Good, Typed, AuthTypes, AssocTypes
<1>2. users \subseteq APs
  BY <1>1
<1>3. \A ap \in APs : ap \in users <=> Uses(sdata, ap)
  BY DEF Uses
<1>4. Busy(sdata) <=> users # {}
  BY DEF Busy
<1>5. StationsAccounted <=> /\ sdata.sta = users \cup sdata.leaked
                            /\ users # {} => sdata.chan
                            /\ sdata.chan => users \cup sdata.leaked # {}
  BY DEF StationsAccounted
<1> HIDE DEF users
<1>6. sdata.sta = users \cup sdata.leaked
  BY <1>2, <1>3 DEF Held
<1>7. (users # {} => sdata.chan) /\ (sdata.chan => users \cup sdata.leaked # {})
  BY <1>4 DEF Held
<1> QED
  BY <1>5, <1>6, <1>7

(* In every reachable state, for any access points, frames and bounds, the *)
(* station entries mlme.c holds are those of the attempt or connection     *)
(* under way and those a failed ieee80211_mgd_assoc left, and the channel  *)
(* is held for one of them and never for nothing.                          *)
THEOREM StationsHeld == Spec => []StationsAccounted
<1>1. Init => Good(sdata) /\ Held(sdata)
  BY InitReports, InitHeld
<1>2. Good(sdata) /\ Held(sdata) /\ [Next]_vars => Good(sdata)' /\ Held(sdata)'
  BY StepKeepsReports, StepKeepsHeld
<1>3. Good(sdata) /\ Held(sdata) => StationsAccounted
  BY HeldAccounted
<1> QED
  BY <1>1, <1>2, <1>3, PTL DEF Spec
=============================================================================
