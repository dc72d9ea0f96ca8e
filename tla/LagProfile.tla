----------------------------- MODULE LagProfile -----------------------------
(***************************************************************************)
(* The profile of the lag of injected frames: the injecting thread counts  *)
(* a frame, and then takes the difference between the clock of this VM and *)
(* the time the frame was captured at in another VM, which may be later.   *)
(* The statistics printed at control-c can be read at any moment: the sum, *)
(* the least and the greatest lag under their lock, the count without.     *)
(***************************************************************************)
EXTENDS BignumSec

CONSTANTS
  Times,        \* what clock_gettime may return
  MaxPackets    \* how many frames are injected (a bound)

ASSUME TimesAssumption ==
  /\ Times \subseteq {a \in Numbers : a.positive /\ a.nsec < one_billion}
  /\ MaxPackets \in Nat

VARIABLES
  packets_injected,
  ipc,            \* the injecting thread: "idle", or "update" when it has counted
  lag_time_sum, lag_time_min, lag_time_max,
  aborted,        \* the assertion has failed
  lags, total, least, greatest  \* history: how many lags, and the three exactly

lagVars == <<lag_time_sum, lag_time_min, lag_time_max>>
exact   == <<lags, total, least, greatest>>
vars    == <<packets_injected, ipc, lagVars, aborted, exact>>

\* profiling_init_lag_time_sum
Init ==
  /\ packets_injected = 0 /\ ipc = "idle"
  /\ lag_time_sum = Zero /\ lag_time_min = Zero /\ lag_time_max = Zero
  /\ aborted = FALSE
  /\ lags = 0 /\ total = 0 /\ least = 0 /\ greatest = 0

\* pcap_inject and packets_injected++
Injected ==
  /\ ipc = "idle" /\ ~aborted /\ packets_injected < MaxPackets
  /\ packets_injected' = packets_injected + 1
  /\ ipc' = "update"
  /\ UNCHANGED <<lagVars, aborted, exact>>

\* The exact values, with the lag d of a frame.
History(d) ==
  /\ lags' = lags + 1
  /\ total' = total + d
  /\ least'    = IF lags = 0 \/ d < least THEN d ELSE least
  /\ greatest' = IF lags = 0 \/ d > greatest THEN d ELSE greatest

\* the critical section
UpdateSums(delta) ==
  /\ lag_time_sum' = bignum_sec_add(lag_time_sum, delta)
  /\ lag_time_min' = IF bignum_sec_is_zero(lag_time_min) \/ bignum_sec_less_than(delta, lag_time_min)
                     THEN delta ELSE lag_time_min
  /\ lag_time_max' = IF bignum_sec_is_zero(lag_time_max) \/ bignum_sec_greater_than(delta, lag_time_max)
                     THEN delta ELSE lag_time_max

profiling_update_lag_time(now, a) ==
  /\ ipc = "update" /\ ~aborted
  /\ LET delta == bignum_sec_sub(now, a) IN
     IF delta = ABORT \/ bignum_sec_add(lag_time_sum, delta) = ABORT
     THEN aborted' = TRUE /\ UNCHANGED lagVars
     ELSE UpdateSums(delta) /\ UNCHANGED aborted
  /\ History(Value(now) - Value(a))
  /\ ipc' = "idle"
  /\ UNCHANGED packets_injected

\* clock_gettime fails: the frame stays counted, and its lag is not.
ClockFails ==
  /\ ipc = "update" /\ ~aborted
  /\ ipc' = "idle"
  /\ UNCHANGED <<packets_injected, lagVars, aborted, exact>>

Next == Injected \/ ClockFails \/ \E now, a \in Times : profiling_update_lag_time(now, a)

Spec == Init /\ [][Next]_vars

\* What is printed for the average.
profiling_get_lag_time_avg(num) ==
  IF bignum_sec_is_zero(lag_time_sum) THEN Zero ELSE bignum_sec_divs(lag_time_sum, num)

-----------------------------------------------------------------------------
(* Properties.                                                             *)

\* Numbers as the addition leaves them, and as clock_gettime makes them.
Loose  == {a \in Numbers : a.nsec <= one_billion}
Strict == {a \in Numbers : a.nsec < one_billion}

\* The sum is the exact sum of the lags, whatever their signs, and the
\* nanoseconds never exceed a second, although the addition does not always
\* carry and the order of two numbers is wrong when it did not.
SumExact == ~aborted => lag_time_sum \in Loose /\ Value(lag_time_sum) = total

\* A lag of zero always fails the assertion, so that it cannot be taken for the
\* zero that stands for "no lag yet"; apart from that it fails only when the
\* lags cancel each other out.
AbortsOnZero ==
  [][lags' # lags =>
       (total' = total => aborted') /\ (aborted' => total' \in {total, 0})]_vars

\* The least and the greatest lag are exact, although zero stands for "no lag
\* yet".
ExtremesExact ==
  ~aborted /\ lags > 0 => Value(lag_time_min) = least /\ Value(lag_time_max) = greatest

\* The average that is printed is between them, unless a frame was counted
\* whose lag is not yet, or will never be, added.
AverageBetween ==
  ~aborted /\ lags > 0 /\ packets_injected = lags =>
     LET avg == Value(profiling_get_lag_time_avg(packets_injected))
     IN  Value(lag_time_min) <= avg /\ avg <= Value(lag_time_max)

\* The inductive invariant: the two are numbers whose order can be relied on,
\* and are zero only before the first lag.
Extreme(a, value) == a \in Strict /\ ~bignum_sec_is_zero(a) /\ Value(a) = value

LagInv ==
  /\ packets_injected \in Nat /\ ipc \in {"idle", "update"} /\ aborted \in BOOLEAN
  /\ lags \in Nat /\ total \in Int /\ least \in Int /\ greatest \in Int
  /\ SumExact
  /\ ~aborted /\ lags > 0 => Extreme(lag_time_min, least) /\ Extreme(lag_time_max, greatest)
  /\ ~aborted /\ lags = 0 => lag_time_min = Zero /\ lag_time_max = Zero
=============================================================================
