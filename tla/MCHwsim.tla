------------------------------ MODULE MCHwsim ------------------------------
(* Two radios in the first VM; the radio of the second has the address of  *)
(* one of them, as when the module is loaded twice without an address.     *)
EXTENDS Hwsim, TLC

CONSTANTS v1, v2, r1, r2, r3, a1, a2

MCVM(r)     == IF r = r3 THEN v2 ELSE v1
MCAddrOf(r) == IF r = r1 THEN a1 ELSE a2

Symmetry == Permutations(Channels)
=============================================================================
