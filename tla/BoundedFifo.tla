---------------------------- MODULE BoundedFifo ----------------------------
(***************************************************************************)
(* What a ring of aq_type.c promises to the pair of threads that use it: a *)
(* first-in first-out channel of bounded capacity, whose front item is     *)
(* lent to the consumer until the consumer says it has used it.            *)
(***************************************************************************)
EXTENDS Naturals, Sequences

CONSTANTS Capacity, Items

VARIABLES
  contents,   \* the items put and not yet used, oldest first
  lent        \* the consumer holds the front item

fifoVars == <<contents, lent>>

Init == contents = <<>> /\ lent = FALSE

Put(v) ==
  /\ Len(contents) < Capacity
  /\ contents' = Append(contents, v)
  /\ UNCHANGED lent

Lend ==
  /\ contents # <<>> /\ ~lent
  /\ lent' = TRUE
  /\ UNCHANGED contents

Use ==
  /\ lent
  /\ lent' = FALSE
  /\ contents' = Tail(contents)

Next == Lend \/ Use \/ \E v \in Items : Put(v)

Spec == Init /\ [][Next]_fifoVars
=============================================================================
