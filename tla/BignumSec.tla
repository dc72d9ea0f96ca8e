----------------------------- MODULE BignumSec -----------------------------
(***************************************************************************)
(* The signed times of bignum_sec_profiling.c: a sign, seconds and         *)
(* nanoseconds.  An operator returns the number the C function writes to   *)
(* its last argument, or ABORT when the assertion of the subtraction       *)
(* fails.  The 64 bits of the two fields are never exceeded by times of    *)
(* day and their sums, and are not modelled.                               *)
(***************************************************************************)
EXTENDS Integers

CONSTANTS
  one_billion,   \* nanoseconds in a second
  ABORT

Magnitudes == [sec : Nat, nsec : Nat]
Numbers    == [positive : BOOLEAN, sec : Nat, nsec : Nat]

ASSUME BillionAssumption == one_billion \in Nat \ {0, 1}
ASSUME AbortAssumption   == ABORT \notin Magnitudes /\ ABORT \notin Numbers

\* What the numbers mean.
Magnitude(a) == a.sec * one_billion + a.nsec
Value(a)     == IF a.positive THEN Magnitude(a) ELSE -Magnitude(a)

Zero == [positive |-> TRUE, sec |-> 0, nsec |-> 0]

-----------------------------------------------------------------------------
(* Unsigned arithmetic.                                                    *)

\* Mutant: the second that is carried is lost.
AddLosesCarry(a, b) ==
  LET nsec == a.nsec + b.nsec
  IN  [sec |-> a.sec + b.sec, nsec |-> IF nsec > one_billion THEN nsec - one_billion ELSE nsec]

\* The carry is taken above one_billion, so that nsec may be equal to it.
bignum_sec_add_unsigned(a, b) ==
  LET nsec == a.nsec + b.nsec
  IN  IF nsec > one_billion
      THEN [sec |-> a.sec + b.sec + 1, nsec |-> nsec - one_billion]
      ELSE [sec |-> a.sec + b.sec, nsec |-> nsec]

\* Mutant: equal numbers pass.
GreaterOrEqual(a, b) == a.sec > b.sec \/ (a.sec = b.sec /\ a.nsec >= b.nsec)

bignum_sec_greater_than_unsigned(a, b) ==
  a.sec > b.sec \/ (a.sec = b.sec /\ a.nsec > b.nsec)

bignum_sec_less_than_unsigned(a, b) ==
  a.sec < b.sec \/ (a.sec = b.sec /\ a.nsec < b.nsec)

bignum_sec_sub_unsigned(a, b) ==
  IF ~bignum_sec_greater_than_unsigned(a, b)      \* the assertion
  THEN ABORT
  ELSE IF a.nsec < b.nsec
       THEN [sec |-> a.sec - 1 - b.sec, nsec |-> a.nsec + one_billion - b.nsec]
       ELSE [sec |-> a.sec - b.sec, nsec |-> a.nsec - b.nsec]

\* Mutant: the remainder of the seconds is dropped.
DivsDropsRemainder(a, b) == [sec |-> a.sec \div b, nsec |-> a.nsec \div b]

bignum_sec_divs_unsigned(a, b) ==
  LET nsec  == ((a.sec % b) * one_billion + a.nsec) \div b
      carry == nsec \div one_billion
  IN  [sec |-> a.sec \div b + carry, nsec |-> nsec - carry * one_billion]

-----------------------------------------------------------------------------
(* Signed arithmetic.                                                      *)

Signed(positive, c) ==
  IF c = ABORT THEN ABORT ELSE [positive |-> positive, sec |-> c.sec, nsec |-> c.nsec]

\* The number with the magnitude of a - b and the sign of the greater of the
\* two, where a counts as positive.
Difference(a, b) ==
  IF bignum_sec_greater_than_unsigned(a, b)
  THEN Signed(TRUE, bignum_sec_sub_unsigned(a, b))
  ELSE Signed(FALSE, bignum_sec_sub_unsigned(b, a))

bignum_sec_add(a, b) ==
  IF a.positive = b.positive THEN Signed(a.positive, bignum_sec_add_unsigned(a, b))
  ELSE IF a.positive THEN Difference(a, b) ELSE Difference(b, a)

\* What is set when the two are equal is overwritten by what follows.
bignum_sec_sub(a, b) ==
  IF a.positive # b.positive THEN Signed(a.positive, bignum_sec_add_unsigned(a, b))
  ELSE IF a.positive THEN Difference(a, b) ELSE Difference(b, a)

bignum_sec_divs(a, b) == Signed(a.positive, bignum_sec_divs_unsigned(a, b))

\* Mutant: the signs are not compared.
LessIgnoringSigns(a, b) == bignum_sec_less_than_unsigned(a, b)

bignum_sec_less_than(a, b) ==
  IF a.positive = b.positive
  THEN IF a.positive THEN bignum_sec_less_than_unsigned(a, b)
                     ELSE bignum_sec_greater_than_unsigned(a, b)
  ELSE b.positive

bignum_sec_greater_than(a, b) ==
  IF a.positive = b.positive
  THEN IF a.positive THEN bignum_sec_greater_than_unsigned(a, b)
                     ELSE bignum_sec_less_than_unsigned(a, b)
  ELSE a.positive

bignum_sec_is_zero(a) == a.sec = 0 /\ a.nsec = 0
=============================================================================
