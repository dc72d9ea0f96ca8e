----------------------------- MODULE MCFraming -----------------------------
(* Framing with three packets of one or two sizes.                         *)
EXTENDS Framing

MCStartChoices ==
  {<<0, HEADER_BYTES + a, 2 * HEADER_BYTES + a + b, 3 * HEADER_BYTES + a + b + c>> :
     a, b, c \in {1, 2}}
=============================================================================
