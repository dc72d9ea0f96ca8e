------------------------- MODULE LagProfile_proofs -------------------------
(***************************************************************************)
(* Proofs about BignumSec and LagProfile, for every number of nanoseconds  *)
(* in a second and every set of times.  First what the operators compute:  *)
(* the operators of bignum_sec_profiling.c are exact on numbers that have  *)
(* at most a whole second in their nanoseconds, and their order is that of *)
(* the values on those that have less.                                     *)
(***************************************************************************)
EXTENDS LagProfile, TLAPS

\* Seconds and nanoseconds are natural numbers, and so is a magnitude.
LEMMA MagnitudeType ==
  ASSUME NEW a \in Numbers
  PROVE  Magnitude(a) \in Nat /\ a.sec * one_billion \in Nat
  BY BillionAssumption DEF Magnitude, Numbers

\* A greater number of seconds is greater by a second at least.
LEMMA SecondsApart ==
  ASSUME NEW x \in Nat, NEW y \in Nat, x < y
  PROVE  x * one_billion + one_billion <= y * one_billion
<1> DEFINE d == y - x - 1
<1>1. d \in Nat /\ y = x + 1 + d
  OBVIOUS
<1>2. y * one_billion = x * one_billion + one_billion + d * one_billion
  BY <1>1, BillionAssumption
<1>3. d * one_billion \in Nat
  BY <1>1, BillionAssumption
<1> QED
  BY <1>2, <1>3, BillionAssumption

\* Unsigned addition is exact, and leaves at most a second of nanoseconds.
LEMMA AddUnsigned ==
  ASSUME NEW a \in Loose, NEW b \in Loose
  PROVE  LET c == bignum_sec_add_unsigned(a, b)
         IN  /\ c \in Magnitudes /\ c.nsec <= one_billion
             /\ Magnitude(c) = Magnitude(a) + Magnitude(b)
<1> DEFINE c == bignum_sec_add_unsigned(a, b)
<1>1. /\ a.sec \in Nat /\ a.nsec \in Nat /\ a.nsec <= one_billion
      /\ b.sec \in Nat /\ b.nsec \in Nat /\ b.nsec <= one_billion
  BY DEF Loose, Numbers
<1>2. CASE a.nsec + b.nsec > one_billion
  <2>1. c = [sec |-> a.sec + b.sec + 1, nsec |-> a.nsec + b.nsec - one_billion]
    BY <1>1, <1>2, BillionAssumption DEF bignum_sec_add_unsigned
  <2>2. c.nsec \in Nat /\ c.nsec <= one_billion /\ c.sec \in Nat
    BY <1>1, <1>2, <2>1, BillionAssumption
  <2>3. (a.sec + b.sec + 1) * one_billion
          = a.sec * one_billion + b.sec * one_billion + one_billion
    BY <1>1, BillionAssumption
  <2>4. Magnitude(c) = Magnitude(a) + Magnitude(b)
    BY <1>1, <2>1, <2>3, BillionAssumption DEF Magnitude
  <2> QED
    BY <2>1, <2>2, <2>4 DEF Magnitudes
<1>3. CASE ~(a.nsec + b.nsec > one_billion)
  <2>1. c = [sec |-> a.sec + b.sec, nsec |-> a.nsec + b.nsec]
    BY <1>1, <1>3, BillionAssumption DEF bignum_sec_add_unsigned
  <2>2. c.nsec \in Nat /\ c.nsec <= one_billion /\ c.sec \in Nat
    BY <1>1, <1>3, <2>1, BillionAssumption
  <2>3. (a.sec + b.sec) * one_billion = a.sec * one_billion + b.sec * one_billion
    BY <1>1, BillionAssumption
  <2>4. Magnitude(c) = Magnitude(a) + Magnitude(b)
    BY <1>1, <2>1, <2>3, BillionAssumption DEF Magnitude
  <2> QED
    BY <2>1, <2>2, <2>4 DEF Magnitudes
<1> QED
  BY <1>2, <1>3

\* Where its assertion holds, unsigned subtraction is exact; no field becomes
\* negative, which would wrap around.
LEMMA SubUnsigned ==
  ASSUME NEW a \in Loose, NEW b \in Loose, bignum_sec_greater_than_unsigned(a, b)
  PROVE  LET c == bignum_sec_sub_unsigned(a, b)
         IN  /\ c \in Magnitudes /\ c.nsec <= one_billion
             /\ Magnitude(c) = Magnitude(a) - Magnitude(b)
             /\ b.nsec < one_billion /\ a.nsec < one_billion => c.nsec < one_billion
             /\ b.nsec < one_billion => c.sec # 0 \/ c.nsec # 0
<1> DEFINE c == bignum_sec_sub_unsigned(a, b)
<1>1. /\ a.sec \in Nat /\ a.nsec \in Nat /\ a.nsec <= one_billion
      /\ b.sec \in Nat /\ b.nsec \in Nat /\ b.nsec <= one_billion
      /\ a.sec * one_billion \in Nat /\ b.sec * one_billion \in Nat
  BY MagnitudeType DEF Loose, Numbers
<1>2. a.sec > b.sec \/ (a.sec = b.sec /\ a.nsec > b.nsec)
  BY DEF bignum_sec_greater_than_unsigned
<1>3. CASE a.nsec < b.nsec
  <2>1. c = [sec |-> a.sec - 1 - b.sec, nsec |-> a.nsec + one_billion - b.nsec]
    BY <1>1, <1>3, BillionAssumption DEF bignum_sec_sub_unsigned
  <2>2. c.sec \in Nat /\ c.nsec \in Nat /\ c.nsec < one_billion
    BY <1>1, <1>2, <1>3, <2>1, BillionAssumption
  <2>3. (a.sec - 1 - b.sec) * one_billion
          = a.sec * one_billion - one_billion - b.sec * one_billion
    BY <1>1, BillionAssumption
  <2>4. Magnitude(c) = Magnitude(a) - Magnitude(b)
    BY <1>1, <2>1, <2>3, BillionAssumption DEF Magnitude
  <2>5. b.nsec < one_billion => c.nsec # 0
    BY <1>1, <1>3, <2>1, BillionAssumption
  <2> QED
    BY <2>1, <2>2, <2>4, <2>5, BillionAssumption DEF Magnitudes
<1>4. CASE ~(a.nsec < b.nsec)
  <2>1. c = [sec |-> a.sec - b.sec, nsec |-> a.nsec - b.nsec]
    BY <1>1, <1>4, BillionAssumption DEF bignum_sec_sub_unsigned
  <2>2. c.sec \in Nat /\ c.nsec \in Nat /\ c.nsec <= a.nsec
    BY <1>1, <1>2, <1>4, <2>1, BillionAssumption
  <2>3. (a.sec - b.sec) * one_billion = a.sec * one_billion - b.sec * one_billion
    BY <1>1, BillionAssumption
  <2>4. Magnitude(c) = Magnitude(a) - Magnitude(b)
    <3>1. Magnitude(c) = (a.sec - b.sec) * one_billion + (a.nsec - b.nsec)
      BY <2>1 DEF Magnitude
    <3> QED
      BY <1>1, <2>3, <3>1 DEF Magnitude
  <2>5. c.sec # 0 \/ c.nsec # 0
    BY <1>1, <1>2, <2>1
  <2> QED
    BY <1>1, <2>1, <2>2, <2>4, <2>5, BillionAssumption DEF Magnitudes
<1> QED
  BY <1>3, <1>4

\* The order of magnitudes is that of the two fields when neither number has a
\* whole second of nanoseconds.
LEMMA OrderUnsigned ==
  ASSUME NEW a \in Strict, NEW b \in Strict
  PROVE  /\ bignum_sec_greater_than_unsigned(a, b) <=> Magnitude(a) > Magnitude(b)
         /\ bignum_sec_less_than_unsigned(a, b) <=> Magnitude(a) < Magnitude(b)
<1>1. /\ a.sec \in Nat /\ a.nsec \in Nat /\ a.nsec < one_billion
      /\ b.sec \in Nat /\ b.nsec \in Nat /\ b.nsec < one_billion
      /\ a.sec * one_billion \in Nat /\ b.sec * one_billion \in Nat
  BY MagnitudeType DEF Strict, Numbers
<1>2. CASE a.sec < b.sec
  <2>1. a.sec * one_billion + one_billion <= b.sec * one_billion
    BY <1>1, <1>2, SecondsApart
  <2> QED
    BY <1>1, <1>2, <2>1, BillionAssumption
       DEF Magnitude, bignum_sec_greater_than_unsigned, bignum_sec_less_than_unsigned
<1>3. CASE b.sec < a.sec
  <2>1. b.sec * one_billion + one_billion <= a.sec * one_billion
    BY <1>1, <1>3, SecondsApart
  <2> QED
    BY <1>1, <1>3, <2>1, BillionAssumption
       DEF Magnitude, bignum_sec_greater_than_unsigned, bignum_sec_less_than_unsigned
<1>4. CASE a.sec = b.sec
  BY <1>1, <1>4, BillionAssumption
     DEF Magnitude, bignum_sec_greater_than_unsigned, bignum_sec_less_than_unsigned
<1> QED
  BY <1>1, <1>2, <1>3, <1>4

-----------------------------------------------------------------------------
(* Signed arithmetic.                                                      *)

\* A sign given to a magnitude makes a number of that magnitude.
LEMMA SignedExact ==
  ASSUME NEW p \in BOOLEAN, NEW c \in Magnitudes
  PROVE  /\ Signed(p, c) \in Numbers
         /\ Signed(p, c).sec = c.sec /\ Signed(p, c).nsec = c.nsec
         /\ Value(Signed(p, c)) = IF p THEN Magnitude(c) ELSE -Magnitude(c)
<1>1. Signed(p, c) = [positive |-> p, sec |-> c.sec, nsec |-> c.nsec]
  BY AbortAssumption DEF Signed
<1> QED
  BY <1>1 DEF Magnitudes, Numbers, Value, Magnitude

\* No number is ABORT.
LEMMA NumbersNotAbort == ABORT \notin Numbers /\ ABORT \notin Loose /\ ABORT \notin Strict
  BY AbortAssumption DEF Loose, Strict

\* The difference of two magnitudes is exact; the assertion fails when the two
\* have the same fields, and only then.
LEMMA DifferenceExact ==
  ASSUME NEW a \in Loose, NEW b \in Loose
  PROVE  LET c == Difference(a, b) IN
         IF a.sec = b.sec /\ a.nsec = b.nsec THEN c = ABORT
         ELSE /\ c \in Loose /\ Value(c) = Magnitude(a) - Magnitude(b)
              /\ a \in Strict /\ b \in Strict => c \in Strict /\ ~bignum_sec_is_zero(c)
<1> DEFINE c == Difference(a, b)
<1>1. /\ a.sec \in Nat /\ a.nsec \in Nat /\ b.sec \in Nat /\ b.nsec \in Nat
      /\ Magnitude(a) \in Nat /\ Magnitude(b) \in Nat
  BY MagnitudeType DEF Loose, Numbers
<1>2. CASE bignum_sec_greater_than_unsigned(a, b)
  <2> DEFINE m == bignum_sec_sub_unsigned(a, b)
  <2>1. /\ m \in Magnitudes /\ m.nsec <= one_billion
        /\ Magnitude(m) = Magnitude(a) - Magnitude(b)
        /\ b.nsec < one_billion /\ a.nsec < one_billion => m.nsec < one_billion
        /\ b.nsec < one_billion => m.sec # 0 \/ m.nsec # 0
    BY <1>2, SubUnsigned
  <2>2. c = Signed(TRUE, m)
    BY <1>2 DEF Difference
  <2>3. c \in Numbers /\ c.sec = m.sec /\ c.nsec = m.nsec /\ Value(c) = Magnitude(m)
    BY <2>1, <2>2, SignedExact
  <2>4. ~(a.sec = b.sec /\ a.nsec = b.nsec)
    BY <1>1, <1>2 DEF bignum_sec_greater_than_unsigned
  <2> QED
    BY <2>1, <2>3, <2>4 DEF Loose, Strict, bignum_sec_is_zero
<1>3. CASE bignum_sec_greater_than_unsigned(b, a)
  <2> DEFINE m == bignum_sec_sub_unsigned(b, a)
  <2>1. /\ m \in Magnitudes /\ m.nsec <= one_billion
        /\ Magnitude(m) = Magnitude(b) - Magnitude(a)
        /\ b.nsec < one_billion /\ a.nsec < one_billion => m.nsec < one_billion
        /\ a.nsec < one_billion => m.sec # 0 \/ m.nsec # 0
    BY <1>3, SubUnsigned
  <2>2. ~bignum_sec_greater_than_unsigned(a, b) /\ ~(a.sec = b.sec /\ a.nsec = b.nsec)
    BY <1>1, <1>3 DEF bignum_sec_greater_than_unsigned
  <2>3. c = Signed(FALSE, m)
    BY <2>2 DEF Difference
  <2>4. c \in Numbers /\ c.sec = m.sec /\ c.nsec = m.nsec /\ Value(c) = -Magnitude(m)
    BY <2>1, <2>3, SignedExact
  <2>5. Value(c) = Magnitude(a) - Magnitude(b)
    BY <1>1, <2>1, <2>4
  <2> QED
    BY <2>1, <2>2, <2>4, <2>5 DEF Loose, Strict, bignum_sec_is_zero
<1>4. CASE ~bignum_sec_greater_than_unsigned(a, b) /\ ~bignum_sec_greater_than_unsigned(b, a)
  <2>1. a.sec = b.sec /\ a.nsec = b.nsec
    BY <1>1, <1>4 DEF bignum_sec_greater_than_unsigned
  <2>2. c = ABORT
    BY <1>4 DEF Difference, Signed, bignum_sec_sub_unsigned
  <2> QED
    BY <2>1, <2>2
<1> QED
  BY <1>2, <1>3, <1>4

\* bignum_sec_add is exact, or aborts because the result is zero.
LEMMA AddExact ==
  ASSUME NEW a \in Loose, NEW b \in Loose
  PROVE  LET c == bignum_sec_add(a, b) IN
         \/ c = ABORT /\ Value(a) + Value(b) = 0
         \/ c # ABORT /\ c \in Loose /\ Value(c) = Value(a) + Value(b)
<1> DEFINE c == bignum_sec_add(a, b)
<1>1. /\ a.positive \in BOOLEAN /\ b.positive \in BOOLEAN
      /\ Magnitude(a) \in Nat /\ Magnitude(b) \in Nat
  BY MagnitudeType DEF Loose, Numbers
<1>2. CASE a.positive = b.positive
  <2> DEFINE m == bignum_sec_add_unsigned(a, b)
  <2>1. m \in Magnitudes /\ m.nsec <= one_billion /\ Magnitude(m) = Magnitude(a) + Magnitude(b)
    BY AddUnsigned
  <2>2. c = Signed(a.positive, m)
    BY <1>2 DEF bignum_sec_add
  <2>3. /\ c \in Numbers /\ c.nsec = m.nsec
        /\ Value(c) = IF a.positive THEN Magnitude(m) ELSE -Magnitude(m)
    BY <1>1, <2>1, <2>2, SignedExact
  <2>4. c \in Loose /\ c # ABORT
    BY <2>1, <2>3, NumbersNotAbort DEF Loose
  <2>5. Value(c) = Value(a) + Value(b)
    <3>1. CASE a.positive
      BY <1>1, <1>2, <2>1, <2>3, <3>1 DEF Value
    <3>2. CASE ~a.positive
      BY <1>1, <1>2, <2>1, <2>3, <3>2 DEF Value
    <3> QED
      BY <3>1, <3>2
  <2> QED
    BY <2>4, <2>5
<1>3. CASE a.positive /\ ~b.positive
  <2>1. c = Difference(a, b) /\ Value(a) = Magnitude(a) /\ Value(b) = -Magnitude(b)
    BY <1>1, <1>3 DEF bignum_sec_add, Value
  <2>2. CASE a.sec = b.sec /\ a.nsec = b.nsec
    BY <1>1, <2>1, <2>2, DifferenceExact DEF Magnitude
  <2>3. CASE ~(a.sec = b.sec /\ a.nsec = b.nsec)
    BY <1>1, <2>1, <2>3, DifferenceExact, NumbersNotAbort
  <2> QED
    BY <2>2, <2>3
<1>4. CASE ~a.positive /\ b.positive
  <2>1. c = Difference(b, a) /\ Value(a) = -Magnitude(a) /\ Value(b) = Magnitude(b)
    BY <1>1, <1>4 DEF bignum_sec_add, Value
  <2>2. CASE a.sec = b.sec /\ a.nsec = b.nsec
    BY <1>1, <2>1, <2>2, DifferenceExact DEF Magnitude
  <2>3. CASE ~(a.sec = b.sec /\ a.nsec = b.nsec)
    BY <1>1, <2>1, <2>3, DifferenceExact, NumbersNotAbort
  <2> QED
    BY <2>2, <2>3
<1> QED
  BY <1>1, <1>2, <1>3, <1>4

\* The difference of two times of day is exact, and aborts if and only if it
\* is zero.
LEMMA SubExact ==
  ASSUME NEW a \in Strict, NEW b \in Strict, a.positive, b.positive
  PROVE  LET c == bignum_sec_sub(a, b) IN
         IF Value(a) = Value(b) THEN c = ABORT
         ELSE c # ABORT /\ Extreme(c, Value(a) - Value(b))
<1> DEFINE c == bignum_sec_sub(a, b)
<1>1. /\ a \in Loose /\ b \in Loose
      /\ a.sec \in Nat /\ a.nsec \in Nat /\ b.sec \in Nat /\ b.nsec \in Nat
      /\ Magnitude(a) \in Nat /\ Magnitude(b) \in Nat
  BY MagnitudeType, BillionAssumption DEF Strict, Loose, Numbers
<1>2. c = Difference(a, b) /\ Value(a) = Magnitude(a) /\ Value(b) = Magnitude(b)
  BY DEF bignum_sec_sub, Value, Strict, Numbers
<1>3. CASE a.sec = b.sec /\ a.nsec = b.nsec
  BY <1>1, <1>2, <1>3, DifferenceExact DEF Magnitude
<1>4. CASE ~(a.sec = b.sec /\ a.nsec = b.nsec)
  <2>1. /\ c \in Loose /\ Value(c) = Magnitude(a) - Magnitude(b)
        /\ c \in Strict /\ ~bignum_sec_is_zero(c)
    BY <1>1, <1>2, <1>4, DifferenceExact
  <2>2. Magnitude(a) # Magnitude(b)
    BY <1>1, <1>4, OrderUnsigned
       DEF bignum_sec_greater_than_unsigned, bignum_sec_less_than_unsigned
  <2> QED
    BY <1>1, <1>2, <2>1, <2>2, NumbersNotAbort DEF Extreme
<1> QED
  BY <1>3, <1>4

\* The signed comparisons are those of the values, except that they tell the
\* two zeros apart.
LEMMA OrderSigned ==
  ASSUME NEW a \in Strict, NEW b \in Strict, ~bignum_sec_is_zero(a), ~bignum_sec_is_zero(b)
  PROVE  /\ bignum_sec_less_than(a, b) <=> Value(a) < Value(b)
         /\ bignum_sec_greater_than(a, b) <=> Value(a) > Value(b)
<1>1. /\ a.positive \in BOOLEAN /\ b.positive \in BOOLEAN
      /\ a.sec \in Nat /\ a.nsec \in Nat /\ b.sec \in Nat /\ b.nsec \in Nat
      /\ Magnitude(a) \in Nat /\ Magnitude(b) \in Nat
  BY MagnitudeType DEF Strict, Numbers
<1>2. Magnitude(a) > 0 /\ Magnitude(b) > 0
  <2>1. \A x \in Nat \ {0} : x * one_billion \in Nat \ {0}
    BY BillionAssumption
  <2>2. a.sec * one_billion \in Nat /\ b.sec * one_billion \in Nat
    BY MagnitudeType DEF Strict
  <2> QED
    BY <1>1, <2>1, <2>2 DEF bignum_sec_is_zero, Magnitude
<1>3. /\ bignum_sec_greater_than_unsigned(a, b) <=> Magnitude(a) > Magnitude(b)
      /\ bignum_sec_less_than_unsigned(a, b) <=> Magnitude(a) < Magnitude(b)
  BY OrderUnsigned
<1>4. CASE a.positive = b.positive /\ a.positive
  BY <1>1, <1>3, <1>4 DEF bignum_sec_less_than, bignum_sec_greater_than, Value
<1>5. CASE a.positive = b.positive /\ ~a.positive
  BY <1>1, <1>3, <1>5 DEF bignum_sec_less_than, bignum_sec_greater_than, Value
<1>6. CASE a.positive # b.positive
  BY <1>1, <1>2, <1>6 DEF bignum_sec_less_than, bignum_sec_greater_than, Value
<1> QED
  BY <1>4, <1>5, <1>6

-----------------------------------------------------------------------------
(* The profile.                                                            *)

\* The history values stay integers.
LEMMA HistoryType ==
  ASSUME LagInv, NEW d \in Int, History(d)
  PROVE  lags' \in Nat /\ lags' > 0 /\ total' \in Int /\ least' \in Int /\ greatest' \in Int
  BY DEF LagInv, History

\* An update that does not abort keeps the sum and the extremes exact.
LEMMA UpdateKeepsLagInv ==
  ASSUME LagInv, NEW now \in Times, NEW a \in Times, profiling_update_lag_time(now, a)
  PROVE  LagInv'
<1> DEFINE d == Value(now) - Value(a)
           delta == bignum_sec_sub(now, a)
<1>1. /\ now \in Strict /\ a \in Strict /\ now.positive /\ a.positive
      /\ Value(now) \in Int /\ Value(a) \in Int
  BY TimesAssumption, MagnitudeType DEF Strict, Value
<1>2. /\ ipc = "update" /\ ~aborted /\ packets_injected \in Nat /\ lags \in Nat
      /\ History(d) /\ ipc' = "idle" /\ packets_injected' = packets_injected
      /\ total \in Int /\ least \in Int /\ greatest \in Int
      /\ lag_time_sum \in Loose /\ Value(lag_time_sum) = total
  BY DEF profiling_update_lag_time, LagInv, SumExact
<1>3. total' \in Int /\ least' \in Int /\ greatest' \in Int
  BY <1>1, <1>2, HistoryType
<1>4. lags' \in Nat /\ lags' # 0
  BY <1>1, <1>2, HistoryType
<1>5. CASE aborted'
  BY <1>2, <1>3, <1>4, <1>5 DEF LagInv, SumExact
<1>6. CASE ~aborted'
  <2>1. delta # ABORT /\ bignum_sec_add(lag_time_sum, delta) # ABORT /\ UpdateSums(delta) /\ aborted' = FALSE
    BY <1>2, <1>6 DEF profiling_update_lag_time
  <2>2. Extreme(delta, d)
    BY <1>1, <2>1, SubExact
  <2>3. delta \in Strict /\ delta \in Loose /\ Value(delta) = d /\ ~bignum_sec_is_zero(delta) /\ d \in Int
    BY <1>1, <2>2, BillionAssumption DEF Extreme, Strict, Loose, Numbers
  <2>4. lag_time_sum' \in Loose /\ Value(lag_time_sum)' = total'
    <3>1. lag_time_sum' = bignum_sec_add(lag_time_sum, delta) /\ total' = total + d
      BY <1>2, <2>1 DEF UpdateSums, History
    <3>2. lag_time_sum' \in Loose /\ Value(lag_time_sum') = Value(lag_time_sum) + Value(delta)
      BY <1>2, <2>1, <2>3, <3>1, AddExact
    <3> QED
      BY <1>2, <2>3, <3>1, <3>2 DEF Value, Magnitude
  <2>5. CASE lags = 0
    <3>1. lag_time_min = Zero /\ lag_time_max = Zero
      BY <1>2, <2>5 DEF LagInv
    <3>2. lag_time_min' = delta /\ lag_time_max' = delta
      BY <2>1, <3>1 DEF UpdateSums, bignum_sec_is_zero, Zero
    <3>3. least' = d /\ greatest' = d
      BY <1>2, <2>5 DEF History
    <3>4. Extreme(lag_time_min, least)' /\ Extreme(lag_time_max, greatest)'
      BY <2>2, <3>2, <3>3 DEF Extreme, Value, Magnitude, bignum_sec_is_zero
    <3> QED
      BY <1>2, <1>3, <1>4, <2>1, <2>4, <3>4 DEF LagInv, SumExact
  <2>6. CASE lags # 0
    <3>1. Extreme(lag_time_min, least) /\ Extreme(lag_time_max, greatest)
      BY <1>2, <2>6 DEF LagInv
    <3>2. Extreme(lag_time_min', least')
      <4>1. lag_time_min' = IF d < least THEN delta ELSE lag_time_min
        BY <1>2, <2>1, <2>3, <3>1, OrderSigned DEF UpdateSums, Extreme
      <4>2. least' = IF d < least THEN d ELSE least
        BY <1>2, <2>6 DEF History
      <4> QED
        BY <2>2, <3>1, <4>1, <4>2
    <3>3. Extreme(lag_time_max', greatest')
      <4>1. lag_time_max' = IF d > greatest THEN delta ELSE lag_time_max
        BY <1>2, <2>1, <2>3, <3>1, OrderSigned DEF UpdateSums, Extreme
      <4>2. greatest' = IF d > greatest THEN d ELSE greatest
        BY <1>2, <2>6 DEF History
      <4> QED
        BY <2>2, <3>1, <4>1, <4>2
    <3>4. Extreme(lag_time_min, least)' /\ Extreme(lag_time_max, greatest)'
      BY <3>2, <3>3 DEF Extreme, Value, Magnitude, bignum_sec_is_zero
    <3> QED
      BY <1>2, <1>3, <1>4, <2>1, <2>4, <3>4 DEF LagInv, SumExact
  <2> QED
    BY <2>5, <2>6
<1> QED
  BY <1>5, <1>6

\* In every execution the profile is exact until the assertion fails.
THEOREM LagSafe == Spec => []LagInv
<1>1. Init => LagInv
  <2>1. Zero \in Loose
    BY BillionAssumption DEF Zero, Loose, Numbers
  <2>2. Value(Zero) = 0
    BY BillionAssumption DEF Zero, Value, Magnitude
  <2> SUFFICES ASSUME Init PROVE LagInv
    OBVIOUS
  <2>3. SumExact
    BY <2>1, <2>2 DEF Init, SumExact
  <2>4. lags \in Nat /\ lags = 0
    BY DEF Init
  <2>5. packets_injected \in Nat /\ total \in Int /\ least \in Int /\ greatest \in Int
    BY DEF Init
  <2>6. ipc = "idle" /\ ipc # "update"
    BY DEF Init
  <2>7. aborted \in BOOLEAN
    BY DEF Init
  <2>8. lag_time_min = Zero /\ lag_time_max = Zero
    BY DEF Init
  <2> QED
    BY <2>3, <2>4, <2>5, <2>6, <2>7, <2>8 DEF LagInv
<1>2. LagInv /\ [Next]_vars => LagInv'
  <2> SUFFICES ASSUME LagInv, [Next]_vars PROVE LagInv'
    OBVIOUS
  <2>1. CASE Injected
    BY <2>1 DEF Injected, lagVars, exact, LagInv, SumExact, Extreme, Value, Magnitude,
                bignum_sec_is_zero
  <2>2. ASSUME NEW now \in Times, NEW a \in Times, profiling_update_lag_time(now, a)
        PROVE  LagInv'
    BY <2>2, UpdateKeepsLagInv
  <2>4. CASE ClockFails
    BY <2>4 DEF ClockFails, lagVars, exact, LagInv, SumExact, Extreme, Value, Magnitude,
                bignum_sec_is_zero
  <2>3. CASE UNCHANGED vars
    BY <2>3 DEF vars, lagVars, exact, LagInv, SumExact, Extreme, Value, Magnitude,
                bignum_sec_is_zero
  <2> QED
    BY <2>1, <2>2, <2>3, <2>4 DEF Next
<1> QED
  BY <1>1, <1>2, PTL DEF Spec

\* The sum is exact, whatever the signs of the lags and the size of a second.
THEOREM SumIsExact == Spec => []SumExact
<1>1. LagInv => SumExact
  BY DEF LagInv
<1> QED
  BY <1>1, LagSafe, PTL

\* The least and the greatest lag are exact.
THEOREM ExtremesAreExact == Spec => []ExtremesExact
<1>1. LagInv => ExtremesExact
  BY DEF LagInv, ExtremesExact, Extreme
<1> QED
  BY <1>1, LagSafe, PTL

\* A lag of zero aborts, and nothing else does but lags that cancel out.
THEOREM AbortMeansZero == Spec => AbortsOnZero
<1> DEFINE A == lags' # lags =>
                  (total' = total => aborted') /\ (aborted' => total' \in {total, 0})
<1>1. LagInv /\ [Next]_vars => [A]_vars
  <2> SUFFICES ASSUME LagInv, Next, lags' # lags
               PROVE  (total' = total => aborted') /\ (aborted' => total' \in {total, 0})
    OBVIOUS
  <2>1. PICK now \in Times, a \in Times : profiling_update_lag_time(now, a)
    BY DEF Next, Injected, ClockFails, exact
  <2> DEFINE delta == bignum_sec_sub(now, a)
  <2>2. /\ now \in Strict /\ a \in Strict /\ now.positive /\ a.positive
        /\ Value(now) \in Int /\ Value(a) \in Int
    BY TimesAssumption, MagnitudeType DEF Strict, Value
  <2>3. /\ ~aborted /\ total \in Int /\ total' = total + (Value(now) - Value(a))
        /\ lag_time_sum \in Loose /\ Value(lag_time_sum) = total
    BY <2>1 DEF profiling_update_lag_time, History, LagInv, SumExact
  <2>4. aborted' <=> delta = ABORT \/ bignum_sec_add(lag_time_sum, delta) = ABORT
    BY <2>1, <2>3 DEF profiling_update_lag_time
  <2>5. CASE Value(now) = Value(a)
    BY <2>2, <2>3, <2>4, <2>5, SubExact
  <2>6. CASE Value(now) # Value(a)
    <3>1. delta # ABORT /\ Extreme(delta, Value(now) - Value(a))
      BY <2>2, <2>6, SubExact
    <3>2. delta \in Loose /\ Value(delta) = Value(now) - Value(a)
      BY <3>1, BillionAssumption DEF Extreme, Strict, Loose, Numbers
    <3>3. bignum_sec_add(lag_time_sum, delta) = ABORT => total' = 0
      BY <2>3, <3>2, AddExact
    <3>4. total' # total
      BY <2>2, <2>3, <2>6
    <3> QED
      BY <2>4, <3>1, <3>3, <3>4
  <2> QED
    BY <2>5, <2>6
<1> QED
  BY <1>1, LagSafe, PTL DEF Spec, AbortsOnZero

-----------------------------------------------------------------------------
(* The average.                                                            *)

LEMMA DivIs ==
  ASSUME NEW x \in Nat, NEW b \in Nat \ {0}
  PROVE  /\ x \div b \in Nat /\ x % b \in Nat
         /\ x = b * (x \div b) + (x % b) /\ x % b < b
  OBVIOUS

\* A factor can be taken out of both sides of an order.
LEMMA FactorOut ==
  ASSUME NEW n \in Nat \ {0}, NEW x \in Int, NEW y \in Int
  PROVE  /\ n * x <= n * y <=> x <= y
         /\ n * (y + 1) = n * y + n
         /\ n * (-x) = -(n * x)
<1>1. \A d \in Nat : n * d \in Nat /\ (d # 0 => n * d # 0)
  OBVIOUS
<1>2. CASE x <= y
  <2>1. PICK d \in Nat : y = x + d
    <3>1. y - x \in Nat /\ y = x + (y - x)
      BY <1>2
    <3> QED
      BY <3>1
  <2>2. n * y = n * x + n * d /\ n * d \in Nat /\ n * x \in Int
    BY <1>1, <2>1
  <2> QED
    BY <1>2, <2>2
<1>3. CASE y < x
  <2>1. PICK d \in Nat \ {0} : x = y + d
    <3>1. x - y \in Nat \ {0} /\ x = y + (x - y)
      BY <1>3
    <3> QED
      BY <3>1
  <2>2. n * x = n * y + n * d /\ n * d \in Nat \ {0} /\ n * y \in Int
    BY <1>1, <2>1
  <2> QED
    BY <1>3, <2>2
<1> QED
  BY <1>2, <1>3

\* Division rounds towards zero.
LEMMA DivsRounds ==
  ASSUME NEW a \in Numbers, NEW b \in Nat \ {0}
  PROVE  LET c == bignum_sec_divs_unsigned(a, b)
         IN  /\ c \in Magnitudes /\ Magnitude(c) \in Nat
             /\ b * Magnitude(c) <= Magnitude(a) /\ Magnitude(a) < b * Magnitude(c) + b
<1> DEFINE q == a.sec \div b
           r == a.sec % b
           y == r * one_billion + a.nsec
           n == y \div b
           k == n \div one_billion
<1>1. a.sec \in Nat /\ a.nsec \in Nat /\ one_billion \in Nat \ {0}
  BY BillionAssumption DEF Numbers
<1>2. q \in Nat /\ r \in Nat /\ a.sec = b * q + r
  BY <1>1, DivIs
<1>3. r * one_billion \in Nat
  BY <1>1, <1>2
<1>4. y \in Nat
  BY <1>1, <1>3
<1> HIDE DEF q, r
<1>5. n \in Nat /\ y % b \in Nat /\ y = b * n + (y % b) /\ y % b < b
  BY <1>4, DivIs
<1>6. y = r * one_billion + a.nsec
  OBVIOUS
<1> HIDE DEF y
<1>7. k \in Nat /\ n % one_billion \in Nat /\ n = one_billion * k + (n % one_billion)
  BY <1>1, <1>5, DivIs
<1>8. bignum_sec_divs_unsigned(a, b) = [sec |-> q + k, nsec |-> n - k * one_billion]
  BY DEF bignum_sec_divs_unsigned, q, r, y
<1> HIDE DEF n, k
<1> DEFINE c == [sec |-> q + k, nsec |-> n - k * one_billion]
<1>9. n - k * one_billion \in Nat /\ q + k \in Nat
  BY <1>1, <1>2, <1>5, <1>7
<1>10. c \in Magnitudes
  BY <1>9 DEF Magnitudes
<1>11. Magnitude(c) = (q + k) * one_billion + (n - k * one_billion)
  BY DEF Magnitude
<1>12. (q + k) * one_billion = q * one_billion + k * one_billion /\ k * one_billion \in Nat
       /\ q * one_billion \in Nat
  BY <1>1, <1>2, <1>7
<1>13. Magnitude(c) = q * one_billion + n
  BY <1>5, <1>11, <1>12
<1>14. b * (q * one_billion + n) = b * (q * one_billion) + b * n /\ b * n \in Nat
       /\ b * (q * one_billion) \in Nat
  BY <1>5, <1>12
<1>15. a.sec * one_billion = b * (q * one_billion) + r * one_billion
  <2>1. a.sec * one_billion = (b * q) * one_billion + r * one_billion
    BY <1>1, <1>2
  <2>2. (b * q) * one_billion = b * (q * one_billion)
    BY <1>1, <1>2
  <2> QED
    BY <2>1, <2>2
<1>16. Magnitude(a) = b * (q * one_billion) + y
  BY <1>1, <1>3, <1>6, <1>14, <1>15 DEF Magnitude
<1>17. b * Magnitude(c) <= Magnitude(a) /\ Magnitude(a) < b * Magnitude(c) + b
  <2>1. b * Magnitude(c) = b * (q * one_billion) + b * n
    BY <1>13, <1>14
  <2> QED
    BY <1>4, <1>5, <1>14, <1>16, <2>1
<1>18. Magnitude(c) \in Nat
  BY <1>5, <1>12, <1>13
<1> HIDE DEF c
<1> QED
  BY <1>8, <1>10, <1>17, <1>18 DEF c

\* The sum of the lags is between as many times the least and the greatest.
Spread == lags * least <= total /\ total <= lags * greatest

LEMMA SpreadHolds == Spec => []Spread
<1>1. Init => Spread
  BY DEF Init, Spread
<1>2. LagInv /\ Spread /\ [Next]_vars => Spread'
  <2> SUFFICES ASSUME LagInv, Spread, [Next]_vars PROVE Spread'
    OBVIOUS
  <2>1. lags \in Nat /\ total \in Int /\ least \in Int /\ greatest \in Int
    BY DEF LagInv
  <2>2. CASE UNCHANGED exact
    BY <2>2 DEF exact, Spread
  <2>3. ASSUME NEW now \in Times, NEW a \in Times, profiling_update_lag_time(now, a)
        PROVE  Spread'
    <3>1. PICK d : d = Value(now) - Value(a)
      OBVIOUS
    <3>2. d \in Int
      BY <3>1, TimesAssumption, MagnitudeType DEF Value
    <3>3. /\ lags' = lags + 1 /\ total' = total + d
          /\ least' = IF lags = 0 \/ d < least THEN d ELSE least
          /\ greatest' = IF lags = 0 \/ d > greatest THEN d ELSE greatest
      BY <2>3, <3>1 DEF profiling_update_lag_time, History
    <3>4. least' \in Int /\ greatest' \in Int /\ least' <= d /\ d <= greatest'
      BY <2>1, <3>2, <3>3
    <3>5. lags * least' <= total /\ total <= lags * greatest'
      <4>1. CASE lags = 0
        <5>1. \A z \in Int : 0 * z = 0
          OBVIOUS
        <5>2. /\ 0 * least = 0 /\ 0 * greatest = 0
              /\ 0 * least' = 0 /\ 0 * greatest' = 0
          BY <2>1, <3>4, <5>1
        <5> QED
          BY <4>1, <5>2 DEF Spread
      <4>2. CASE lags # 0
        <5>1. least' <= least /\ greatest <= greatest' /\ lags \in Nat \ {0}
          BY <2>1, <3>2, <3>3, <4>2
        <5>2. lags * least' <= lags * least /\ lags * greatest <= lags * greatest'
          BY <2>1, <3>4, <5>1, FactorOut
        <5>3. lags * least' \in Int /\ lags * least \in Int /\ lags * greatest \in Int
              /\ lags * greatest' \in Int
          BY <2>1, <3>4
        <5> QED
          BY <2>1, <5>2, <5>3 DEF Spread
      <4> QED
        BY <4>1, <4>2
    <3>6. (lags + 1) * least' = lags * least' + least' /\ (lags + 1) * greatest' = lags * greatest' + greatest'
          /\ lags * least' \in Int /\ lags * greatest' \in Int
      BY <2>1, <3>4
    <3> QED
      BY <2>1, <3>2, <3>3, <3>4, <3>5, <3>6 DEF Spread
  <2> QED
    BY <2>2, <2>3 DEF Next, Injected, ClockFails, vars
<1> QED
  BY <1>1, <1>2, LagSafe, PTL DEF Spec

\* What is printed for the average is between the least and the greatest lag
\* when all frames that were counted have had their lags added
\* (profiling_get_lag_time_avg).
THEOREM AverageIsBetween == Spec => []AverageBetween
<1>1. LagInv /\ Spread => AverageBetween
  <2> SUFFICES ASSUME LagInv, Spread, ~aborted, lags > 0, packets_injected = lags
               PROVE  /\ Value(lag_time_min) <= Value(profiling_get_lag_time_avg(lags))
                      /\ Value(profiling_get_lag_time_avg(lags)) <= Value(lag_time_max)
    BY DEF AverageBetween
  <2>1. /\ lags \in Nat \ {0} /\ total \in Int /\ least \in Int /\ greatest \in Int
        /\ lag_time_sum \in Numbers /\ Value(lag_time_sum) = total
        /\ Value(lag_time_min) = least /\ Value(lag_time_max) = greatest
    BY DEF LagInv, SumExact, Extreme, Loose
  <2> DEFINE T == Magnitude(lag_time_sum)
  <2>2. T \in Nat /\ total = IF lag_time_sum.positive THEN T ELSE -T
    BY <2>1, MagnitudeType DEF Value
  <2> HIDE DEF T
  <2>3. lags * least <= total /\ total <= lags * greatest
    BY DEF Spread
  <2>4. \E m \in Nat : /\ lags * m <= T /\ T < lags * m + lags
                       /\ Value(profiling_get_lag_time_avg(lags)) = IF lag_time_sum.positive THEN m ELSE -m
    <3>1. CASE bignum_sec_is_zero(lag_time_sum)
      <4>1. T = 0
        <5>1. 0 * one_billion = 0
          BY BillionAssumption
        <5> QED
          BY <3>1, <5>1 DEF bignum_sec_is_zero, Magnitude, T
      <4>2. Value(Zero) = 0
        <5>1. 0 * one_billion = 0
          BY BillionAssumption
        <5> QED
          BY <5>1 DEF Value, Zero, Magnitude
      <4>3. lags * 0 = 0
        BY <2>1
      <4> QED
        BY <2>1, <3>1, <4>1, <4>2, <4>3 DEF profiling_get_lag_time_avg
    <3>2. CASE ~bignum_sec_is_zero(lag_time_sum)
      <4> DEFINE c == bignum_sec_divs_unsigned(lag_time_sum, lags)
      <4>1. /\ c \in Magnitudes /\ Magnitude(c) \in Nat
            /\ lags * Magnitude(c) <= T /\ T < lags * Magnitude(c) + lags
        BY <2>1, DivsRounds DEF T
      <4>2. profiling_get_lag_time_avg(lags) = Signed(lag_time_sum.positive, c)
        BY <3>2 DEF profiling_get_lag_time_avg, bignum_sec_divs
      <4> HIDE DEF c
      <4>3. lag_time_sum.positive \in BOOLEAN
        BY <2>1 DEF Numbers
      <4>4. Value(Signed(lag_time_sum.positive, c)) = IF lag_time_sum.positive THEN Magnitude(c) ELSE -Magnitude(c)
        BY <4>1, <4>3, SignedExact
      <4> QED
        BY <4>1, <4>2, <4>4
    <3> QED
      BY <3>1, <3>2
  <2>5. PICK m \in Nat : /\ lags * m <= T /\ T < lags * m + lags
                         /\ Value(profiling_get_lag_time_avg(lags)) = IF lag_time_sum.positive THEN m ELSE -m
    BY <2>4
  <2>6. /\ lags * m \in Int /\ lags * least \in Int /\ lags * greatest \in Int
        /\ lags * (m + 1) \in Int /\ lags * (-m) \in Int
        /\ lags * (-least) \in Int /\ lags * (-greatest) \in Int
    BY <2>1
  <2>7. lags * (m + 1) = lags * m + lags /\ lags * (-m) = -(lags * m)
    BY <2>1, FactorOut
  <2>8. CASE lag_time_sum.positive
    <3>1. total = T
      BY <2>2, <2>8
    <3>2. ~(lags * (m + 1) <= lags * least)
      BY <2>1, <2>3, <2>5, <2>6, <2>7, <3>1
    <3>3. ~(m + 1 <= least)
      <4>1. m + 1 \in Int
        OBVIOUS
      <4> QED
        BY <2>1, <3>2, <4>1, FactorOut
    <3>4. lags * m <= lags * greatest
      BY <2>1, <2>3, <2>5, <2>6, <3>1
    <3>5. m <= greatest
      BY <2>1, <3>4, FactorOut
    <3> QED
      BY <2>1, <2>5, <2>8, <3>3, <3>5
  <2>9. CASE ~lag_time_sum.positive
    <3>1. total = -T
      BY <2>2, <2>9
    <3>2. lags * least <= lags * (-m)
      BY <2>1, <2>2, <2>3, <2>5, <2>6, <2>7, <3>1
    <3>3. least <= -m
      <4>1. -m \in Int
        OBVIOUS
      <4> QED
        BY <2>1, <3>2, <4>1, FactorOut
    <3>4. lags * (-greatest) = -(lags * greatest) /\ -greatest \in Int /\ m + 1 \in Int
      BY <2>1, FactorOut
    <3>5. ~(lags * (m + 1) <= lags * (-greatest))
      BY <2>1, <2>2, <2>3, <2>5, <2>6, <2>7, <3>1, <3>4
    <3>6. ~(m + 1 <= -greatest)
      BY <2>1, <3>4, <3>5, FactorOut
    <3> QED
      BY <2>1, <2>5, <2>9, <3>3, <3>6
  <2> QED
    BY <2>8, <2>9
<1> QED
  BY <1>1, LagSafe, SpreadHolds, PTL
=============================================================================
