---------------------------- MODULE MCLagProfile ----------------------------
(* LagProfile with the times of a day of MCSeconds short seconds.          *)
EXTENDS LagProfile

CONSTANT MCSeconds

MCTimes == [positive : {TRUE}, sec : 0..(MCSeconds - 1), nsec : 0..(one_billion - 1)]
=============================================================================
