--------------------------- MODULE MCHwsimRadios ---------------------------
(* Two programs, the second in a namespace of its own.                     *)
EXTENDS HwsimRadios

CONSTANTS n0, n1, c0, c1

MCNetOf(c) == IF c = c1 THEN n1 ELSE n0
=============================================================================
