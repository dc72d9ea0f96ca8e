-------------------------- MODULE ArrayQueue_proofs --------------------------
(***************************************************************************)
(* Proofs about ArrayQueue for every ring size, every set of items and any *)
(* number of steps.                                                        *)
(***************************************************************************)
EXTENDS ArrayQueue, SequenceTheorems, TLAPS

(***************************************************************************)
(* What the operations of aq_type.c do to a ring whose flags agree with    *)
(* its indices.                                                            *)
(***************************************************************************)

\* Advancing an index of the ring stays in the ring.
LEMMA AdvanceType ==
  ASSUME NEW i \in Slots
  PROVE  Advance(i) \in Slots
BY NumItemsAssumption DEF Advance, Slots

\* aq_used_head on a ring that is not empty keeps the flags in agreement with
\* head and tail, and leaves it not full.
LEMMA UsedHeadRing ==
  ASSUME NEW r \in AqRings, FlagsAgree(r), ~r.empty
  PROVE  /\ aq_used_head(r) \in AqRings
         /\ FlagsAgree(aq_used_head(r))
         /\ ~aq_used_head(r).full
         /\ aq_used_head(r).tail = r.tail
         /\ aq_used_head(r).head = Advance(r.head)
<1> DEFINE s == aq_used_head(r)
<1>1. Advance(r.head) \in Slots
  BY AdvanceType DEF AqRings
<1>2. /\ s.head = Advance(r.head) /\ s.tail = r.tail /\ s.full = FALSE
      /\ s.empty = (r.empty \/ Advance(r.head) = r.tail)
      /\ s \in AqRings
  BY <1>1 DEF aq_used_head, AqRings
<1>3. FlagsAgree(s)
  BY <1>2 DEF FlagsAgree, AqRings
<1> QED
  BY <1>2, <1>3

\* aq_put_tail on a ring that is not full keeps the flags in agreement with
\* head and tail, and leaves it not empty.
LEMMA PutTailRing ==
  ASSUME NEW r \in AqRings, FlagsAgree(r), ~r.full
  PROVE  /\ aq_put_tail(r) \in AqRings
         /\ FlagsAgree(aq_put_tail(r))
         /\ ~aq_put_tail(r).empty
         /\ aq_put_tail(r).head = r.head
         /\ aq_put_tail(r).tail = Advance(r.tail)
<1> DEFINE s == aq_put_tail(r)
<1>1. Advance(r.tail) \in Slots
  BY AdvanceType DEF AqRings
<1>2. /\ s.tail = Advance(r.tail) /\ s.head = r.head /\ s.empty = FALSE
      /\ s.full = (r.full \/ Advance(r.tail) = r.head)
      /\ s \in AqRings
  BY <1>1 DEF aq_put_tail, AqRings
<1>3. FlagsAgree(s)
  BY <1>2 DEF FlagsAgree, AqRings
<1> QED
  BY <1>2, <1>3

(***************************************************************************)
(* Safety.                                                                 *)
(***************************************************************************)

LEMMA RingInit == Init => RingInv
<1> SUFFICES ASSUME Init PROVE RingInv
  OBVIOUS
<1>1. 0 \in Slots
  BY NumItemsAssumption DEF Slots
<1>2. /\ q.head = 0 /\ q.tail = 0 /\ q.full = FALSE /\ q.empty = TRUE
      /\ q \in AqRings
  BY <1>1 DEF Init, aq_new, AqRings
<1>3. TypeOK
  BY <1>2 DEF Init, TypeOK
<1>4. FlagsAgree(q)
  BY <1>2 DEF FlagsAgree
<1> QED
  BY <1>3, <1>4 DEF Init, RingInv, PointersCurrent

LEMMA RingStep == RingInv /\ [Next]_vars => RingInv'
<1> SUFFICES ASSUME RingInv, [Next]_vars PROVE RingInv'
  OBVIOUS
<1> USE DEF RingInv
<1>0. NULL \notin Slots
  BY NullAssumption, NumItemsAssumption DEF Slots
<1>1. CASE GetTail
  BY <1>1 DEF GetTail, aq_get_tail, TypeOK, AqRings, FlagsAgree, PointersCurrent
<1>2. ASSUME NEW v \in Items, Fill(v) PROVE RingInv'
  BY <1>2 DEF Fill, TypeOK, FlagsAgree, PointersCurrent
<1>3. CASE PutTail
  <2>1. /\ q' \in AqRings /\ FlagsAgree(q') /\ ~q'.empty /\ q'.head = q.head
    BY <1>3, PutTailRing DEF PutTail, TypeOK, PointersCurrent
  <2> QED
    BY <1>3, <2>1 DEF PutTail, TypeOK, PointersCurrent, FlagsAgree
<1>4. CASE GiveUpTail
  BY <1>4 DEF GiveUpTail, TypeOK, FlagsAgree, PointersCurrent
<1>5. CASE GetHead
  BY <1>5 DEF GetHead, aq_get_head, TypeOK, AqRings, FlagsAgree, PointersCurrent
<1>6. CASE UsedHead
  <2>1. /\ q' \in AqRings /\ FlagsAgree(q') /\ ~q'.full /\ q'.tail = q.tail
    BY <1>6, UsedHeadRing DEF UsedHead, TypeOK, PointersCurrent
  <2> QED
    BY <1>6, <2>1 DEF UsedHead, TypeOK, PointersCurrent, FlagsAgree
<1>7. CASE UNCHANGED vars
  BY <1>7 DEF vars, TypeOK, FlagsAgree, PointersCurrent
<1> QED
  BY <1>1, <1>2, <1>3, <1>4, <1>5, <1>6, <1>7 DEF Next

\* The ring's indices, flags and both threads' pointers stay consistent.
THEOREM RingSafe == Spec => []RingInv
BY RingInit, RingStep, PTL DEF Spec

LEMMA ExclusionFromInv == RingInv => SlotExclusion
BY DEF RingInv, FlagsAgree, PointersCurrent, SlotExclusion

\* The producer and the consumer never hold the same slot.
THEOREM SlotsExclusive == Spec => []SlotExclusion
BY RingSafe, ExclusionFromInv, PTL

LEMMA StableStep ==
  RingInv /\ [Next]_vars => [using # NULL /\ using' = using => data'[using] = data[using]]_vars
<1> SUFFICES ASSUME RingInv, Next, using # NULL, using' = using
             PROVE  data'[using] = data[using]
  OBVIOUS
<1>1. SlotExclusion
  BY ExclusionFromInv
<1>2. ASSUME NEW v \in Items, Fill(v) PROVE data'[using] = data[using]
  BY <1>1, <1>2 DEF Fill, SlotExclusion, RingInv, TypeOK
<1> QED
  BY <1>2 DEF Next, GetTail, PutTail, GiveUpTail, GetHead, UsedHead

\* The item the consumer works on is not overwritten under it.
THEOREM UsedItemIsStable == Spec => UsedItemStable
BY RingSafe, StableStep, PTL DEF Spec, UsedItemStable

(***************************************************************************)
(* The ring implements the bounded FIFO.  First, where the waiting items   *)
(* are, before and after each of the two operations that move an index.    *)
(***************************************************************************)

\* The waiting items fill between none and all of the slots.
LEMMA CountBounds ==
  ASSUME NEW r \in AqRings, FlagsAgree(r)
  PROVE  /\ Count(r) \in 0..NumItems
         /\ r.empty <=> Count(r) = 0
         /\ r.full  <=> Count(r) = NumItems
<1>1. r.head \in Slots /\ r.tail \in Slots
  BY DEF AqRings
<1>2. CASE r.full
  <2>1. Count(r) = NumItems /\ ~r.empty
    BY <1>2 DEF Count, FlagsAgree
  <2> QED
    BY <1>2, <2>1, NumItemsAssumption
<1>3. CASE ~r.full
  <2>1. r.empty <=> r.head = r.tail
    BY <1>3 DEF FlagsAgree
  <2>2. Count(r) = IF r.tail >= r.head THEN r.tail - r.head
                                       ELSE r.tail + NumItems - r.head
    BY <1>3 DEF Count
  <2>3. Count(r) \in 0..(NumItems - 1) /\ (Count(r) = 0 <=> r.head = r.tail)
    BY <1>1, <2>2, NumItemsAssumption DEF Slots
  <2> QED
    BY <1>3, <2>1, <2>3, NumItemsAssumption
<1> QED
  BY <1>2, <1>3

\* A waiting item is in a slot of the ring, and never in the one at the tail
\* that a producer may be filling.
LEMMA SlotAtType ==
  ASSUME NEW r \in AqRings, FlagsAgree(r), NEW i \in 1..Count(r)
  PROVE  /\ SlotAt(r, i) \in Slots
         /\ ~r.full => SlotAt(r, i) # r.tail
<1>0. Count(r) \in 0..NumItems
  BY CountBounds
<1>1. r.head \in Slots /\ r.tail \in Slots /\ i \in 1..NumItems
  BY <1>0, NumItemsAssumption DEF AqRings
<1>2. SlotAt(r, i) \in Slots
  BY <1>1, NumItemsAssumption DEF SlotAt, Slots
<1>3. ASSUME ~r.full PROVE SlotAt(r, i) # r.tail
  BY <1>1, <1>3, NumItemsAssumption DEF SlotAt, Slots, Count, FlagsAgree
<1> QED
  BY <1>2, <1>3

\* aq_used_head takes the first waiting item away and moves no other.
LEMMA UsedHeadSlots ==
  ASSUME NEW r \in AqRings, FlagsAgree(r), ~r.empty
  PROVE  /\ Count(aq_used_head(r)) = Count(r) - 1
         /\ \A i \in 1..(Count(r) - 1) : SlotAt(aq_used_head(r), i) = SlotAt(r, i + 1)
<1> DEFINE s == aq_used_head(r)
<1>1. /\ r.head \in Slots /\ r.tail \in Slots
      /\ s.head = Advance(r.head) /\ s.tail = r.tail /\ ~s.full
  BY UsedHeadRing DEF AqRings
<1>2. Count(r) \in 1..NumItems
  BY CountBounds, NumItemsAssumption
<1>3. Count(s) = Count(r) - 1
  BY <1>1, NumItemsAssumption DEF Count, Slots, Advance, FlagsAgree
<1>4. ASSUME NEW i \in 1..(Count(r) - 1) PROVE SlotAt(s, i) = SlotAt(r, i + 1)
  BY <1>1, <1>2, NumItemsAssumption DEF SlotAt, Slots, Advance
<1> QED
  BY <1>3, <1>4

\* aq_put_tail adds the slot at the tail after the last waiting item.
LEMMA PutTailSlots ==
  ASSUME NEW r \in AqRings, FlagsAgree(r), ~r.full
  PROVE  /\ Count(aq_put_tail(r)) = Count(r) + 1
         /\ \A i \in 1..(Count(r) + 1) : SlotAt(aq_put_tail(r), i) = SlotAt(r, i)
         /\ SlotAt(r, Count(r) + 1) = r.tail
<1> DEFINE s == aq_put_tail(r)
<1>1. /\ r.head \in Slots /\ r.tail \in Slots
      /\ s.tail = Advance(r.tail) /\ s.head = r.head
  BY PutTailRing DEF AqRings
<1>2. s.full <=> Advance(r.tail) = r.head
  BY DEF aq_put_tail, AqRings
<1>3. Count(s) = Count(r) + 1
  BY <1>1, <1>2, NumItemsAssumption DEF Count, Slots, Advance, FlagsAgree
<1>4. \A i \in 1..(Count(r) + 1) : SlotAt(s, i) = SlotAt(r, i)
  BY <1>1 DEF SlotAt
<1>5. SlotAt(r, Count(r) + 1) = r.tail
  BY <1>1, NumItemsAssumption DEF SlotAt, Slots, Count, FlagsAgree
<1> QED
  BY <1>3, <1>4, <1>5

\* Contents is a sequence of items whose length is Count.
LEMMA ContentsType ==
  ASSUME RingInv
  PROVE  /\ Contents \in Seq(Items)
         /\ Len(Contents) = Count(q)
         /\ \A i \in 1..Count(q) : Contents[i] = data[SlotAt(q, i)]
<1>1. Count(q) \in Nat
  BY CountBounds, NumItemsAssumption DEF RingInv, TypeOK
<1>2. \A i \in 1..Count(q) : data[SlotAt(q, i)] \in Items
  BY SlotAtType DEF RingInv, TypeOK
<1> QED
  BY <1>1, <1>2 DEF Contents

\* The same in the next state.
LEMMA ContentsPrimed ==
  ASSUME RingInv'
  PROVE  /\ Contents' \in Seq(Items)
         /\ Len(Contents') = Count(q')
         /\ \A i \in 1..Count(q') : Contents'[i] = data'[SlotAt(q', i)]
<1>0. q' \in AqRings /\ FlagsAgree(q') /\ data' \in [Slots -> Items]
  BY DEF RingInv, TypeOK
<1>1. Count(q') \in Nat
  BY <1>0, CountBounds, NumItemsAssumption
<1>2. \A i \in 1..Count(q') : data'[SlotAt(q', i)] \in Items
  BY <1>0, SlotAtType
<1> QED
  BY <1>1, <1>2 DEF Contents

\* A step of the ring is a step of the FIFO or leaves it unchanged.
LEMMA FifoStep ==
  RingInv /\ RingInv' /\ [Next]_vars => [Fifo!Next]_<<Contents, using # NULL>>
<1> SUFFICES ASSUME RingInv, RingInv', [Next]_vars
             PROVE  \/ Fifo!Next
                    \/ Contents' = Contents /\ (using # NULL)' = (using # NULL)
  BY DEF Fifo!fifoVars
<1>0. /\ q \in AqRings /\ FlagsAgree(q) /\ NULL \notin Slots
      /\ data \in [Slots -> Items]
  BY NullAssumption, NumItemsAssumption DEF RingInv, TypeOK, Slots
<1>1. CASE GetTail
  BY <1>1 DEF GetTail, Contents
<1>2. ASSUME NEW v \in Items, Fill(v) PROVE Contents' = Contents /\ using' = using
  <2>1. filling = q.tail /\ ~q.full /\ q' = q
    BY <1>2 DEF Fill, RingInv, PointersCurrent
  <2>2. \A i \in 1..Count(q) : data'[SlotAt(q, i)] = data[SlotAt(q, i)]
    BY <1>0, <1>2, <2>1, SlotAtType DEF Fill
  <2> QED
    BY <1>2, <2>1, <2>2 DEF Contents, Fill
<1>3. CASE PutTail
  <2>1. filling = q.tail /\ ~q.full /\ q' = aq_put_tail(q) /\ data' = data /\ using' = using
    BY <1>3 DEF PutTail, RingInv, PointersCurrent
  <2> DEFINE v == data[q.tail]
  <2>2. v \in Items
    BY <1>0 DEF AqRings
  <2>3. /\ Count(q') = Count(q) + 1
        /\ \A i \in 1..(Count(q) + 1) : SlotAt(q', i) = SlotAt(q, i)
        /\ SlotAt(q, Count(q) + 1) = q.tail
    BY <1>0, <2>1, PutTailSlots
  <2>4. Count(q) \in 0..(NumItems - 1)
    <3>1. Count(q) \in 0..NumItems /\ Count(q) # NumItems
      BY <1>0, <2>1, CountBounds
    <3> QED
      BY <3>1, NumItemsAssumption
  <2>5. /\ Contents \in Seq(Items) /\ Len(Contents) = Count(q)
        /\ \A i \in 1..Count(q) : Contents[i] = data[SlotAt(q, i)]
    BY ContentsType
  <2>6. /\ Contents' \in Seq(Items) /\ Len(Contents') = Count(q')
        /\ \A i \in 1..Count(q') : Contents'[i] = data'[SlotAt(q', i)]
    BY ContentsPrimed
  <2>7. Contents' = Append(Contents, v)
    <3>1. \A i \in 1..Len(Contents') : Contents'[i] = Append(Contents, v)[i]
      BY <2>1, <2>2, <2>3, <2>4, <2>5, <2>6, AppendProperties
    <3> QED
      BY <2>2, <2>3, <2>5, <2>6, <3>1, SeqEqual, AppendProperties
  <2>8. Fifo!Put(v)
    BY <2>1, <2>4, <2>5, <2>7, NumItemsAssumption DEF Fifo!Put
  <2> QED
    BY <2>2, <2>8 DEF Fifo!Next
<1>4. CASE GiveUpTail
  BY <1>4 DEF GiveUpTail, Contents
<1>5. CASE GetHead
  <2>1. Contents' = Contents
    BY <1>5 DEF GetHead, Contents
  <2>2. CASE q.empty
    BY <1>5, <2>1, <2>2 DEF GetHead, aq_get_head
  <2>3. CASE ~q.empty
    <3>1. using' # NULL
      BY <1>0, <1>5, <2>3 DEF GetHead, aq_get_head, AqRings
    <3>2. Len(Contents) # 0
      BY <1>0, <2>3, ContentsType, CountBounds
    <3>3. Contents # <<>>
      BY <3>2
    <3>4. Fifo!Lend
      BY <1>5, <2>1, <3>1, <3>3 DEF GetHead, Fifo!Lend
    <3> QED
      BY <3>4 DEF Fifo!Next
  <2> QED
    BY <2>2, <2>3
<1>6. CASE UsedHead
  <2>1. /\ using # NULL /\ using' = NULL /\ ~q.empty
        /\ q' = aq_used_head(q) /\ data' = data
    BY <1>6 DEF UsedHead, RingInv, PointersCurrent
  <2>2. /\ Count(q') = Count(q) - 1
        /\ \A i \in 1..(Count(q) - 1) : SlotAt(q', i) = SlotAt(q, i + 1)
    BY <1>0, <2>1, UsedHeadSlots
  <2>3. Count(q) \in 1..NumItems
    BY <1>0, <2>1, CountBounds, NumItemsAssumption
  <2>4. /\ Contents \in Seq(Items) /\ Len(Contents) = Count(q)
        /\ \A i \in 1..Count(q) : Contents[i] = data[SlotAt(q, i)]
    BY ContentsType
  <2>5. /\ Contents' \in Seq(Items) /\ Len(Contents') = Count(q')
        /\ \A i \in 1..Count(q') : Contents'[i] = data'[SlotAt(q', i)]
    BY ContentsPrimed
  <2>6. Contents # <<>>
    BY <2>3, <2>4
  <2>7. Contents' = Tail(Contents)
    <3>1. /\ Tail(Contents) \in Seq(Items)
          /\ Len(Tail(Contents)) = Len(Contents) - 1
          /\ \A i \in 1..Len(Tail(Contents)) : Tail(Contents)[i] = Contents[i + 1]
      BY <2>4, <2>6, HeadTailProperties
    <3>2. Len(Tail(Contents)) = Len(Contents')
      BY <2>2, <2>4, <2>5, <3>1
    <3>3. ASSUME NEW i \in 1..Len(Contents') PROVE Contents'[i] = Tail(Contents)[i]
      <4>1. i \in 1..(Count(q) - 1) /\ i + 1 \in 1..Count(q) /\ i \in 1..Count(q')
        BY <2>2, <2>3, <2>5, <3>3
      <4> QED
        BY <2>1, <2>2, <2>4, <2>5, <3>1, <3>2, <4>1
    <3> QED
      BY <2>5, <3>1, <3>2, <3>3, SeqEqual
  <2>8. Fifo!Use
    BY <2>1, <2>7 DEF Fifo!Use
  <2> QED
    BY <2>8 DEF Fifo!Next
<1>7. CASE UNCHANGED vars
  BY <1>7 DEF vars, Contents
<1> QED
  BY <1>1, <1>2, <1>3, <1>4, <1>5, <1>6, <1>7 DEF Next

\* At the start nothing waits and nothing is lent.
LEMMA FifoInit == Init => Fifo!Init
<1> SUFFICES ASSUME Init PROVE Fifo!Init
  OBVIOUS
<1>1. RingInv /\ q.empty /\ using = NULL
  BY RingInit DEF Init, aq_new
<1>2. Count(q) = 0
  BY <1>1, CountBounds DEF RingInv, TypeOK
<1>3. Contents = <<>>
  BY <1>2 DEF Contents
<1> QED
  BY <1>1, <1>3 DEF Fifo!Init

\* The ring of aq_type.c, used with the discipline of aq_type.h, is a bounded
\* first-in first-out channel that lends its front item.
THEOREM RingImplementsFifo == Spec => FifoSpec
<1>1. RingInv /\ RingInv' /\ [Next]_vars => [Fifo!Next]_(Fifo!fifoVars)
  BY FifoStep DEF Fifo!fifoVars
<1> QED
  BY <1>1, FifoInit, RingSafe, PTL DEF Spec, FifoSpec, Fifo!Spec
=============================================================================
