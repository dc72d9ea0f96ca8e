------------------------------- MODULE AqType -------------------------------
(***************************************************************************)
(* The fixed-size ring of aq_type.c (compiled a second time as queue.c in  *)
(* bcaster).  A ring is a record of the fields its mutex protects; each    *)
(* aq_ function holds that mutex from its first to its last access, so it  *)
(* is one atomic operator here.  The item memory q->data is not part of    *)
(* the record: it is read and written through the pointers the two getters *)
(* return, without the mutex, and the modules that use a ring keep it in a *)
(* variable of its own.  A pointer into it is the index of its slot.       *)
(***************************************************************************)
EXTENDS Naturals

CONSTANTS
  NumItems,   \* num_items, the argument of aq_new
  NULL        \* the null pointer

ASSUME NumItemsAssumption == NumItems \in Nat \ {0} /\ NumItems <= 65535   \* uint16_t, never zero
ASSUME NullAssumption     == NULL \notin Nat

Slots == 0..(NumItems - 1)

\* aq_new: head == tail and the queue is empty
aq_new == [head |-> 0, tail |-> 0, full |-> FALSE, empty |-> TRUE]

AqRings == [head : Slots, tail : Slots, full : BOOLEAN, empty : BOOLEAN]

\* if (++i == num_items) i = 0
Advance(i) == IF i + 1 = NumItems THEN 0 ELSE i + 1

aq_get_head(q) == IF q.empty THEN NULL ELSE q.head

aq_get_tail(q) == IF q.full THEN NULL ELSE q.tail

\* Mutants: the full flag is never set, the empty flag compares against the
\* head before it moved.
PutTailNeverFull(q) == [q EXCEPT !.tail = Advance(q.tail), !.empty = FALSE]
UsedHeadLateEmpty(q) ==
  [q EXCEPT !.head = Advance(q.head), !.empty = @ \/ q.head = q.tail, !.full = FALSE]

aq_used_head(q) ==
  LET h == Advance(q.head)
  IN  [q EXCEPT !.head = h, !.empty = @ \/ h = q.tail, !.full = FALSE]

aq_put_tail(q) ==
  LET t == Advance(q.tail)
  IN  [q EXCEPT !.tail = t, !.full = @ \/ t = q.head, !.empty = FALSE]

\* How many slots, from the head on, hold items that were put and not used.
Count(q) ==
  IF q.full THEN NumItems
  ELSE IF q.tail >= q.head THEN q.tail - q.head ELSE q.tail + NumItems - q.head

\* The slot of the i-th such item, i from 1.
SlotAt(q, i) == IF q.head + i - 1 < NumItems THEN q.head + i - 1
                                             ELSE q.head + i - 1 - NumItems

\* The two flags tell apart the two cases in which head and tail meet.
FlagsAgree(q) ==
  /\ q.full  => q.head = q.tail /\ ~q.empty
  /\ q.empty => q.head = q.tail
  /\ q.head = q.tail => q.full \/ q.empty
=============================================================================
