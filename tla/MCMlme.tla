------------------------------- MODULE MCMlme -------------------------------
(* One or two access points and the frames that make a difference.         *)
EXTENDS Mlme

Switches == {[count |-> 1, block |-> FALSE], [count |-> 2, block |-> TRUE]}

MCFrames ==
  [kind: {"auth_ok", "auth_denied", "assoc_ok", "assoc_denied", "assoc_comeback",
          "probe_resp", "deauth", "disassoc"}, ap: APs]
  \cup [kind: {"beacon"}, ap: APs, csa: Switches \cup {Bad, None}]
  \cup [kind: {"action"}, ap: APs, csa: {[count |-> 2, block |-> TRUE]}]
=============================================================================
