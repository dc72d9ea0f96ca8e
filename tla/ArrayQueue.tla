----------------------------- MODULE ArrayQueue -----------------------------
(***************************************************************************)
(* One ring of aq_type.c between the two threads aq_type.h is written for: *)
(*                                                                         *)
(*   producer: get_tail(), fill the slot, put_tail(), get_tail(), ...      *)
(*   consumer: get_head(), use the slot, used_head(), get_head(), ...      *)
(*                                                                         *)
(* The mutex covers the four calls and not the slots, so what makes the    *)
(* slots safe is the discipline alone.  The producers of this code base    *)
(* also give up a slot without putting it (the acknowledgements that       *)
(* repeat_capturing_function drops, a packet that is not complete): they   *)
(* ask for the tail again later.                                           *)
(***************************************************************************)
EXTENDS AqType, Sequences

CONSTANT Items      \* what a slot can hold; slots hold anything before

VARIABLES
  q,          \* the ring: head, tail, full, empty
  data,       \* the item memory
  filling,    \* the producer's pointer, NULL when it has none
  filled,     \* the producer has written the whole item
  using       \* the consumer's pointer, NULL when it has none

vars == <<q, data, filling, filled, using>>

Init ==
  /\ q = aq_new
  /\ data \in [Slots -> Items]          \* malloc leaves anything there
  /\ filling = NULL /\ filled = FALSE
  /\ using = NULL

-----------------------------------------------------------------------------
(* The producer.                                                           *)

GetTail ==
  /\ filling = NULL
  /\ filling' = aq_get_tail(q)
  /\ UNCHANGED <<q, data, filled, using>>

\* The slot is written through the pointer, outside the mutex.
Fill(v) ==
  /\ filling # NULL
  /\ data' = [data EXCEPT ![filling] = v]
  /\ filled' = TRUE
  /\ UNCHANGED <<q, filling, using>>

PutTail ==
  /\ filling # NULL /\ filled
  /\ q' = aq_put_tail(q)
  /\ filling' = NULL /\ filled' = FALSE
  /\ UNCHANGED <<data, using>>

GiveUpTail ==
  /\ filling # NULL
  /\ filling' = NULL /\ filled' = FALSE
  /\ UNCHANGED <<q, data, using>>

-----------------------------------------------------------------------------
(* The consumer.                                                           *)

GetHead ==
  /\ using = NULL
  /\ using' = aq_get_head(q)
  /\ UNCHANGED <<q, data, filling, filled>>

UsedHead ==
  /\ using # NULL
  /\ q' = aq_used_head(q)
  /\ using' = NULL
  /\ UNCHANGED <<data, filling, filled>>

Next ==
  \/ GetTail \/ PutTail \/ GiveUpTail \/ \E v \in Items : Fill(v)
  \/ GetHead \/ UsedHead

Spec == Init /\ [][Next]_vars

-----------------------------------------------------------------------------
(* Properties.                                                             *)

TypeOK ==
  /\ q \in AqRings
  /\ data \in [Slots -> Items]
  /\ filling \in Slots \cup {NULL}
  /\ filled \in BOOLEAN
  /\ using \in Slots \cup {NULL}

\* The producer's and the consumer's pointers, given out by aq_get_tail and
\* aq_get_head at different times, never name the same slot: nothing but the
\* full and empty flags prevents it, the slots have no lock.
SlotExclusion == filling # NULL /\ using # NULL => filling # using

\* Each pointer still is the head, or the tail, when its call to aq_used_head
\* or aq_put_tail comes: these calls move head and tail blindly.
PointersCurrent ==
  /\ using   # NULL => using   = q.head /\ ~q.empty
  /\ filling # NULL => filling = q.tail /\ ~q.full

\* The inductive invariant: the two above follow from it.
RingInv == TypeOK /\ FlagsAgree(q) /\ PointersCurrent

\* An item does not change between aq_get_head and aq_used_head, although the
\* producer writes the item memory without the mutex.
UsedItemStable ==
  [][using # NULL /\ using' = using => data'[using] = data[using]]_vars

\* The ring is a bounded FIFO: what aq_get_head lends is the oldest item put
\* and not used, the items are lent in the order of aq_put_tail, none is lost,
\* invented or lent twice, and at most num_items are waiting.
Contents == [i \in 1..Count(q) |-> data[SlotAt(q, i)]]

Fifo == INSTANCE BoundedFifo
          WITH Capacity <- NumItems, contents <- Contents, lent <- using # NULL

FifoSpec == Fifo!Spec
=============================================================================
