----------------------------- MODULE MCBcaster -----------------------------
(* Bcaster with a sequence for the clients connected at the beginning.     *)
EXTENDS Bcaster

CONSTANTS c1, c2, c3

TwoEarly == <<c1, c2>>

TwoFromFirst == [c \in Clients |-> IF c = c1 THEN 2 ELSE 1]
=============================================================================
