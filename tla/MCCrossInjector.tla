-------------------------- MODULE MCCrossInjector --------------------------
(* CrossInjector with sequences for constants.                             *)
EXTENDS CrossInjector

MCSizes  == <<2, 1, 1>>
MCStream == FlattenSeq([m \in DOMAIN Sizes |-> Message(m)])
=============================================================================
