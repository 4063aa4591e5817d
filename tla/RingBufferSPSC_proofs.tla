------------------------ MODULE RingBufferSPSC_proofs ------------------------
(* Proofs about RingBufferSPSC for every capacity and every set of values. *)
EXTENDS RingBufferSPSC, SequenceTheorems, TLAPS

(* Distances around the ring are at most Capacity. *)
LEMMA DistRange ==
  ASSUME NEW a \in Positions, NEW b \in Positions
  PROVE  Dist(a, b) \in 0 .. Capacity
BY CapacityAssumption DEF Positions, Dist

(* Index keeps a position a position. *)
LEMMA IndexRange ==
  ASSUME NEW a \in Positions
  PROVE  Index(a + 1) \in Positions
BY CapacityAssumption DEF Positions, Index

(* Moving the far end one step lengthens the distance, unless it wraps. *)
LEMMA DistAdvanceEnd ==
  ASSUME NEW a \in Positions, NEW b \in Positions, Dist(a, b) < Capacity
  PROVE  Dist(a, Index(b + 1)) = Dist(a, b) + 1
BY CapacityAssumption DEF Positions, Dist, Index

(* Moving the near end one step shortens the distance. *)
LEMMA DistAdvanceStart ==
  ASSUME NEW a \in Positions, NEW b \in Positions, a # b
  PROVE  Dist(Index(a + 1), b) = Dist(a, b) - 1
BY CapacityAssumption DEF Positions, Dist, Index

(* Two positions are at distance zero exactly when they are equal. *)
LEMMA DistZero ==
  ASSUME NEW a \in Positions, NEW b \in Positions
  PROVE  Dist(a, b) = 0 <=> a = b
BY CapacityAssumption DEF Positions, Dist

(* A ring that looks full to push is at distance Capacity. *)
LEMMA DistFull ==
  ASSUME NEW a \in Positions, NEW b \in Positions
  PROVE  Index(b + 1) = a <=> Dist(a, b) = Capacity
BY CapacityAssumption DEF Positions, Dist, Index

(* Betweenness along the ring composes: if c is met between b and d, and   *)
(* b between a and d, then b comes before c on the way from a.             *)
LEMMA BetweenTrans ==
  ASSUME NEW a \in Positions, NEW b \in Positions, NEW c \in Positions,
         NEW d \in Positions, Between(a, b, d), Between(b, c, d)
  PROVE  Between(a, b, c) /\ Between(a, c, d)
BY CapacityAssumption DEF Positions, Between, Dist

(* And splits: if b is met between a and c, and c between a and d, then b  *)
(* and c are met in that order before d.                                   *)
LEMMA BetweenSplit ==
  ASSUME NEW a \in Positions, NEW b \in Positions, NEW c \in Positions,
         NEW d \in Positions, Between(a, b, c), Between(a, c, d)
  PROVE  Between(a, b, d) /\ Between(b, c, d)
BY CapacityAssumption DEF Positions, Between, Dist

(* Advancing the far end past no one keeps everything in order. *)
LEMMA BetweenAdvanceEnd ==
  ASSUME NEW a \in Positions, NEW b \in Positions, NEW d \in Positions,
         Between(a, b, d), Dist(a, d) < Capacity
  PROVE  Between(a, b, Index(d + 1))
BY CapacityAssumption DEF Positions, Between, Dist, Index

(* Advancing a middle position that has not reached the next one keeps it  *)
(* between its neighbours.                                                 *)
LEMMA BetweenAdvanceMiddle ==
  ASSUME NEW a \in Positions, NEW b \in Positions, NEW c \in Positions,
         NEW d \in Positions, Between(a, b, d), Between(b, c, d), b # c
  PROVE  Between(a, Index(b + 1), d) /\ Between(Index(b + 1), c, d)
BY CapacityAssumption DEF Positions, Between, Dist, Index

(* A position is between itself and any other. *)
LEMMA BetweenSelf ==
  ASSUME NEW a \in Positions, NEW b \in Positions
  PROVE  Between(a, a, b) /\ Between(a, b, b)
BY CapacityAssumption DEF Positions, Between, Dist

-----------------------------------------------------------------------------
(* Both threads start idle with all positions equal. *)
LEMMA InitIInv == Init => IInv
BY CapacityAssumption
   DEF Init, IInv, TypeOK, CyclicOrder, HandOver, EstimateHolds, Between, Dist,
       Positions

(* What the order gives a thread about its own two positions. *)
LEMMA OrderFacts ==
  ASSUME TypeOK, CyclicOrder
  PROVE  /\ Between(headCached, head, tail)
         /\ Between(headCached, headView, head)
         /\ Between(head, tailView, tail)
         /\ Between(head, tailCached, tailView)
         /\ Dist(headView, tail) <= Dist(headCached, tail)
         /\ Dist(head, tail) <= Dist(headView, tail)
         /\ Dist(head, tailCached) <= Dist(head, tailView)
         /\ Dist(head, tailView) <= Dist(head, tail)
<1> USE DEF TypeOK, CyclicOrder
<1>1. Between(headCached, head, tail) /\ Between(headCached, headView, head)
  BY BetweenTrans
<1>2. Between(head, tailView, tail) /\ Between(head, tailCached, tailView)
  BY BetweenTrans
<1>3. /\ Dist(headCached, headView) \in 0 .. Capacity
      /\ Dist(headView, head) \in 0 .. Capacity
      /\ Dist(headView, tail) \in 0 .. Capacity
      /\ Dist(head, tail) \in 0 .. Capacity
      /\ Dist(head, tailCached) \in 0 .. Capacity
      /\ Dist(tailCached, tailView) \in 0 .. Capacity
      /\ Dist(head, tailView) \in 0 .. Capacity
      /\ Dist(tailView, tail) \in 0 .. Capacity
  BY DistRange
<1>4. QED BY <1>1, <1>2, <1>3, CapacityAssumption DEF Between

(* No step of either thread, and no stale load, breaks the invariant. *)
LEMMA StepIInv == IInv /\ [Next]_vars => IInv'
<1> SUFFICES ASSUME IInv, [Next]_vars PROVE IInv'
  OBVIOUS
<1> USE DEF IInv
<1> USE CapacityAssumption
<1>0. Visible(headView, head) \subseteq Positions /\ Visible(tailView, tail) \subseteq Positions
  BY DEF Visible
<1>1. ASSUME NEW v \in Values, Push(v) PROVE IInv'
  <2>1. TypeOK' BY <1>1 DEF Push, TypeOK, consumerVars
  <2>2. CyclicOrder' BY <1>1 DEF Push, CyclicOrder, Between, Dist, consumerVars
  <2>3. HandOver'
    BY <1>1, DistFull, DistRange
    DEF Push, HandOver, TypeOK, consumerVars, Dist, Positions, Index
  <2>4. EstimateHolds' BY <1>1 DEF Push, EstimateHolds, Dist, consumerVars
  <2>5. QED BY <2>1, <2>2, <2>3, <2>4
<1>2. ASSUME ReloadHead PROVE IInv'
  <2>0. PICK h \in Visible(headView, head) : ReloadHeadFrom(h)
    BY <1>2 DEF ReloadHead
  <2>h. h \in Positions /\ Between(headView, h, head)
    BY <1>0 DEF Visible
  <2>o. Between(headView, h, tail) /\ Between(h, head, tail)
    BY <2>h, BetweenSplit DEF TypeOK, CyclicOrder
  <2>1. TypeOK' BY <2>0, <2>h DEF ReloadHeadFrom, TypeOK, consumerVars
  <2>2. CyclicOrder'
    BY <2>0, <2>h, <2>o, BetweenSelf
    DEF ReloadHeadFrom, CyclicOrder, Between, Dist, consumerVars, TypeOK
  <2>3. HandOver'
    <3>1. Dist(h, tail) \in 0 .. Capacity
      BY <2>h, DistRange DEF TypeOK
    <3>2. Index(tail + 1) # h => Dist(h, tail) < Capacity
      BY <2>h, <3>1, DistFull DEF TypeOK
    <3>3. QED
      BY <2>0, <3>2 DEF ReloadHeadFrom, HandOver, consumerVars, Dist
  <2>4. EstimateHolds'
    <3>1. Dist(h, tail) <= Dist(headView, tail)
      BY <2>h, <2>o, DistRange DEF Between, TypeOK
    <3>2. Dist(h, tail) \in 0 .. Capacity /\ Dist(headView, tail) \in 0 .. Capacity
      BY <2>h, DistRange DEF TypeOK
    <3>3. room <= Capacity - Dist(h, tail)
      BY <3>1, <3>2 DEF EstimateHolds, TypeOK
    <3>4. QED
      BY <2>0, <3>3 DEF ReloadHeadFrom, EstimateHolds, Dist, consumerVars
  <2>5. QED BY <2>1, <2>2, <2>3, <2>4
<1>3. ASSUME Write PROVE IInv'
  <2>1. TypeOK' BY <1>3 DEF Write, TypeOK, consumerVars
  <2>2. CyclicOrder' BY <1>3 DEF Write, CyclicOrder, Between, Dist, consumerVars
  <2>3. HandOver' BY <1>3 DEF Write, HandOver, Dist, consumerVars
  <2>4. EstimateHolds' BY <1>3 DEF Write, EstimateHolds, Dist, consumerVars
  <2>5. QED BY <2>1, <2>2, <2>3, <2>4
<1>4. ASSUME Publish PROVE IInv'
  <2>d. /\ Dist(headCached, tail) < Capacity
        /\ Dist(headView, tail) < Capacity
        /\ Dist(head, tail) < Capacity
        /\ Dist(tailCached, tail) < Capacity
        /\ Dist(tailView, tail) < Capacity
    BY <1>4, OrderFacts, DistRange DEF Publish, HandOver, TypeOK, CyclicOrder, Between
  <2>1. TypeOK'
    BY <1>4, IndexRange DEF Publish, TypeOK, consumerVars, Minus1
  <2>2. CyclicOrder'
    <3>1. /\ Between(headCached, headView, Index(tail + 1))
          /\ Between(headView, head, Index(tail + 1))
          /\ Between(head, tailCached, Index(tail + 1))
          /\ Between(tailCached, tailView, Index(tail + 1))
      BY <2>d, BetweenAdvanceEnd DEF TypeOK, CyclicOrder
    <3>2. QED BY <1>4, <3>1 DEF Publish, CyclicOrder, Between, Dist, consumerVars
  <2>3. HandOver' BY <1>4 DEF Publish, HandOver, consumerVars
  <2>4. EstimateHolds'
    <3>1. Dist(headView, Index(tail + 1)) = Dist(headView, tail) + 1
      BY <2>d, DistAdvanceEnd DEF TypeOK
    <3>2. Dist(headView, tail) \in 0 .. Capacity
      BY DistRange DEF TypeOK
    <3>3. Minus1(room) <= Capacity - Dist(headView, Index(tail + 1))
      BY <2>d, <3>1, <3>2 DEF EstimateHolds, TypeOK, Minus1
    <3>4. QED BY <1>4, <3>3 DEF Publish, EstimateHolds, Dist, consumerVars
  <2>5. QED BY <2>1, <2>2, <2>3, <2>4
<1>5. ASSUME ProducerSize PROVE IInv'
  <2>0. PICK h \in Visible(headView, head) : headView' = h /\ room' = Capacity - Dist(h, tail)
    BY <1>5 DEF ProducerSize
  <2>h. h \in Positions /\ Between(headView, h, head)
    BY <1>0 DEF Visible
  <2>o. Between(headView, h, tail) /\ Between(h, head, tail)
    BY <2>h, BetweenSplit DEF TypeOK, CyclicOrder
  <2>p. Between(headCached, h, tail)
    BY <2>h, <2>o, BetweenTrans DEF TypeOK, CyclicOrder
  <2>1. TypeOK'
    BY <1>5, <2>0, <2>h, DistRange DEF ProducerSize, TypeOK, consumerVars
  <2>2. CyclicOrder'
    BY <1>5, <2>0, <2>o, <2>p DEF ProducerSize, CyclicOrder, Between, Dist, consumerVars
  <2>3. HandOver' BY <1>5 DEF ProducerSize, HandOver, consumerVars
  <2>4. EstimateHolds'
    BY <1>5, <2>0, <2>h, DistRange
    DEF ProducerSize, EstimateHolds, Dist, consumerVars, TypeOK, Positions
  <2>5. QED BY <2>1, <2>2, <2>3, <2>4
<1>6. ASSUME Pop PROVE IInv'
  <2>1. TypeOK' BY <1>6 DEF Pop, TypeOK, producerVars
  <2>2. CyclicOrder' BY <1>6 DEF Pop, CyclicOrder, Between, Dist, producerVars
  <2>3. HandOver' BY <1>6 DEF Pop, HandOver, Dist, producerVars
  <2>4. EstimateHolds' BY <1>6 DEF Pop, EstimateHolds, Dist, producerVars
  <2>5. QED BY <2>1, <2>2, <2>3, <2>4
<1>7. ASSUME ReloadTail PROVE IInv'
  <2>0. PICK t \in Visible(tailView, tail) : ReloadTailFrom(t)
    BY <1>7 DEF ReloadTail
  <2>t. t \in Positions /\ Between(tailView, t, tail)
    BY <1>0 DEF Visible
  <2>o. Between(head, t, tail) /\ Between(head, tailView, t)
    BY <2>t, OrderFacts, BetweenTrans DEF TypeOK
  <2>1. TypeOK' BY <2>0, <2>t DEF ReloadTailFrom, TypeOK, producerVars
  <2>2. CyclicOrder'
    BY <2>0, <2>t, <2>o, BetweenSelf
    DEF ReloadTailFrom, CyclicOrder, Between, Dist, producerVars, TypeOK
  <2>3. HandOver' BY <2>0 DEF ReloadTailFrom, HandOver, Dist, producerVars
  <2>4. EstimateHolds'
    <3>1. Dist(head, tailView) <= Dist(head, t)
      BY <2>t, <2>o, DistRange DEF Between, TypeOK
    <3>2. Dist(head, t) \in 0 .. Capacity /\ Dist(head, tailView) \in 0 .. Capacity
      BY <2>t, DistRange DEF TypeOK
    <3>3. avail <= Dist(head, t)
      BY <3>1, <3>2 DEF EstimateHolds, TypeOK
    <3>4. QED
      BY <2>0, <3>3 DEF ReloadTailFrom, EstimateHolds, Dist, producerVars
  <2>5. QED BY <2>1, <2>2, <2>3, <2>4
<1>8. ASSUME Read PROVE IInv'
  <2>1. TypeOK' BY <1>8 DEF Read, TypeOK, producerVars, Positions
  <2>2. CyclicOrder' BY <1>8 DEF Read, CyclicOrder, Between, Dist, producerVars
  <2>3. HandOver' BY <1>8 DEF Read, HandOver, Dist, producerVars
  <2>4. EstimateHolds' BY <1>8 DEF Read, EstimateHolds, Dist, producerVars
  <2>5. QED BY <2>1, <2>2, <2>3, <2>4
<1>9. ASSUME Release PROVE IInv'
  <2>d. head # tailCached /\ head # tailView
    BY <1>9, OrderFacts, DistRange, DistZero DEF Release, HandOver, TypeOK
  <2>1. TypeOK'
    BY <1>9, IndexRange DEF Release, TypeOK, producerVars, Minus1
  <2>2. CyclicOrder'
    <3>1. /\ Between(headView, Index(head + 1), tail)
          /\ Between(Index(head + 1), tailCached, tail)
      BY <2>d, BetweenAdvanceMiddle DEF TypeOK, CyclicOrder
    <3>2. QED BY <1>9, <3>1 DEF Release, CyclicOrder, Between, Dist, producerVars
  <2>3. HandOver' BY <1>9 DEF Release, HandOver, Dist, producerVars
  <2>4. EstimateHolds'
    <3>1. Dist(Index(head + 1), tailView) = Dist(head, tailView) - 1
      BY <2>d, DistAdvanceStart DEF TypeOK
    <3>2. Dist(head, tailView) \in 0 .. Capacity /\ Dist(head, tailView) # 0
      BY <2>d, DistRange, DistZero DEF TypeOK
    <3>3. Minus1(avail) <= Dist(Index(head + 1), tailView)
      BY <3>1, <3>2 DEF EstimateHolds, TypeOK, Minus1
    <3>4. QED BY <1>9, <3>3 DEF Release, EstimateHolds, Dist, producerVars
  <2>5. QED BY <2>1, <2>2, <2>3, <2>4
<1>10. ASSUME ConsumerSize PROVE IInv'
  <2>0. PICK t \in Visible(tailView, tail) : tailView' = t /\ avail' = Dist(head, t)
    BY <1>10 DEF ConsumerSize
  <2>t. t \in Positions /\ Between(tailView, t, tail)
    BY <1>0 DEF Visible
  <2>p. Between(tailCached, t, tail)
    BY <2>t, BetweenTrans DEF TypeOK, CyclicOrder
  <2>1. TypeOK'
    BY <1>10, <2>0, <2>t, DistRange DEF ConsumerSize, TypeOK, producerVars
  <2>2. CyclicOrder'
    BY <1>10, <2>0, <2>p DEF ConsumerSize, CyclicOrder, Between, Dist, producerVars
  <2>3. HandOver' BY <1>10 DEF ConsumerSize, HandOver, producerVars
  <2>4. EstimateHolds'
    BY <1>10, <2>0, <2>t, DistRange
    DEF ConsumerSize, EstimateHolds, Dist, producerVars, TypeOK, Positions
  <2>5. QED BY <2>1, <2>2, <2>3, <2>4
<1>11. CASE UNCHANGED vars
  BY <1>11
  DEF vars, producerVars, consumerVars, TypeOK, CyclicOrder, HandOver,
      EstimateHolds, Between, Dist
<1>12. QED
  BY <1>1, <1>2, <1>3, <1>4, <1>5, <1>6, <1>7, <1>8, <1>9, <1>10, <1>11
  DEF Next, Producer, Consumer

-----------------------------------------------------------------------------
(* The invariant that the other theorems rest on, whatever the capacity. *)
THEOREM Invariance == Spec => []IInv
  BY InitIInv, StepIInv, PTL DEF Spec

(* Every variable keeps its type, whatever the capacity. *)
THEOREM TypeCorrect == Spec => []TypeOK
<1>1. IInv => TypeOK
  BY DEF IInv
<1>2. QED BY InitIInv, StepIInv, <1>1, PTL DEF Spec

(* The stale copies of the positions never overtake the positions they     *)
(* copy: what push and pop decide from them is always safe.                *)
THEOREM PositionsInOrder == Spec => []CyclicOrder
<1>1. IInv => CyclicOrder
  BY DEF IInv
<1>2. QED BY InitIInv, StepIInv, <1>1, PTL DEF Spec

(* A cell is handed over before the other thread touches it. *)
THEOREM HandOverSafe == Spec => [](HandOver /\ NoDataRace)
<1>1. IInv => HandOver /\ NoDataRace
  <2> SUFFICES ASSUME IInv PROVE NoDataRace
    BY DEF IInv
  <2>1. SUFFICES ASSUME cpc = "read", tail = head PROVE FALSE
    BY DEF NoDataRace
  <2>2. head # tailCached
    BY <2>1 DEF IInv, HandOver
  <2>3. /\ Dist(head, tailCached) \in Nat \ {0}
        /\ Dist(tailCached, tail) \in Nat
        /\ Dist(head, tail) = 0
    BY <2>1, <2>2, DistRange, DistZero DEF IInv, TypeOK
  <2>4. QED BY <2>3 DEF IInv, CyclicOrder, Between
<1>2. QED BY InitIInv, StepIInv, <1>1, PTL DEF Spec

(* A size read by either thread never promises more than it delivers. *)
THEOREM EstimateIsSafe == Spec => []EstimateHolds
<1>1. IInv => EstimateHolds
  BY DEF IInv
<1>2. QED BY InitIInv, StepIInv, <1>1, PTL DEF Spec

(* The executor's assertion: a push after _approx_full answered no does    *)
(* not fail.                                                               *)
THEOREM PushSucceedsAfterNotFull == Spec => PushAfterNotFull
<1>1. IInv /\ [Next]_vars => [ppc = "reload" /\ ppc' = "idle" => room = 0]_vars
  <2> SUFFICES ASSUME IInv, Next, ppc = "reload", ppc' = "idle" PROVE room = 0
    OBVIOUS
  <2>1. PICK h \in Visible(headView, head) : ReloadHeadFrom(h)
    BY DEF Next, Producer, Consumer, Push, Write, Publish, ProducerSize, ReloadHead,
           Pop, ReloadTail, ReloadTailFrom, Read, Release, ConsumerSize, producerVars
  <2>2. Index(tail + 1) = h
    BY <2>1 DEF ReloadHeadFrom
  <2>3. h \in Positions /\ Between(headView, h, tail)
    BY BetweenSplit DEF Visible, IInv, TypeOK, CyclicOrder
  <2>4. Dist(h, tail) = Capacity
    BY <2>2, <2>3, DistFull DEF IInv, TypeOK
  <2>5. /\ Dist(headView, h) \in 0 .. Capacity
        /\ Dist(headView, tail) \in 0 .. Capacity
    BY <2>3, DistRange DEF IInv, TypeOK
  <2>6. Dist(headView, tail) = Capacity
    BY <2>3, <2>4, <2>5, CapacityAssumption DEF Between
  <2>7. QED BY <2>6, CapacityAssumption DEF IInv, TypeOK, EstimateHolds
<1>2. QED BY InitIInv, StepIInv, <1>1, PTL DEF Spec, PushAfterNotFull

(* The loop of QueueOut's clear and log: a pop after _approx_empty         *)
(* answered no does not fail.                                              *)
THEOREM PopSucceedsAfterNotEmpty == Spec => PopAfterNotEmpty
<1>1. IInv /\ [Next]_vars => [cpc = "reload" /\ cpc' = "idle" => avail = 0]_vars
  <2> SUFFICES ASSUME IInv, Next, cpc = "reload", cpc' = "idle" PROVE avail = 0
    OBVIOUS
  <2>1. PICK t \in Visible(tailView, tail) : ReloadTailFrom(t)
    BY DEF Next, Producer, Consumer, Push, Write, Publish, ProducerSize, ReloadHead,
           ReloadHeadFrom, Pop, ReloadTail, Read, Release, ConsumerSize, consumerVars
  <2>2. head = t
    BY <2>1 DEF ReloadTailFrom
  <2>3. t \in Positions /\ Between(tailView, t, tail)
    BY DEF Visible
  <2>4. Between(head, tailView, t)
    BY <2>3, OrderFacts, BetweenTrans DEF IInv, TypeOK
  <2>5. /\ Dist(head, tailView) \in 0 .. Capacity
        /\ Dist(tailView, t) \in 0 .. Capacity
        /\ Dist(head, t) = 0
    BY <2>2, <2>3, DistRange, DistZero DEF IInv, TypeOK
  <2>6. QED BY <2>4, <2>5 DEF IInv, TypeOK, EstimateHolds, Between
<1>2. QED BY InitIInv, StepIInv, <1>1, PTL DEF Spec, PopAfterNotEmpty

-----------------------------------------------------------------------------
(* The arc of cells between two positions, as a sequence.                  *)

Elements == Values \cup {NoValue}

Cells == [Positions -> Elements]

(* Steps from a position lead to a position. *)
LEMMA PlusRange ==
  ASSUME NEW f \in Positions, NEW t \in Positions, NEW i \in 1 .. Dist(f, t)
  PROVE  Plus(f, i - 1) \in Positions /\ Plus(f, i - 1) # t
BY CapacityAssumption DEF Positions, Dist, Plus

(* The cells of an arc, one by one. *)
LEMMA ArcElement ==
  ASSUME NEW f, NEW t, NEW b, NEW i \in 1 .. Dist(f, t)
  PROVE  Arc(f, t, b)[i] = b[Plus(f, i - 1)]
BY DEF Arc

(* An arc is a sequence, as long as the distance it spans. *)
LEMMA ArcIsSeq ==
  ASSUME NEW f \in Positions, NEW t \in Positions, NEW b \in Cells
  PROVE  Arc(f, t, b) \in Seq(Elements) /\ Len(Arc(f, t, b)) = Dist(f, t)
<1>1. Dist(f, t) \in Nat
  BY DistRange
<1>2. \A i \in 1 .. Dist(f, t) : b[Plus(f, i - 1)] \in Elements
  BY PlusRange DEF Cells
<1>3. Arc(f, t, b) \in [1 .. Dist(f, t) -> Elements]
  BY <1>2 DEF Arc
<1>4. Arc(f, t, b) \in Seq(Elements)
  BY <1>1, <1>3, SeqDef
<1>5. DOMAIN Arc(f, t, b) = 1 .. Dist(f, t)
  BY DEF Arc
<1>6. QED BY <1>1, <1>4, <1>5, LenProperties

(* Publishing a cell appends its contents. *)
LEMMA ArcAppend ==
  ASSUME NEW f \in Positions, NEW t \in Positions, NEW b \in Cells,
         Dist(f, t) < Capacity
  PROVE  Arc(f, Index(t + 1), b) = Append(Arc(f, t, b), b[t])
<1>u. PICK u \in Positions : u = Index(t + 1)
  BY IndexRange
<1> DEFINE old == Arc(f, t, b)
           new == Arc(f, u, b)
           longer == Append(old, b[t])
<1>1. Dist(f, u) = Dist(f, t) + 1 /\ Dist(f, t) \in Nat
  BY <1>u, DistAdvanceEnd, DistRange
<1>2. Plus(f, Dist(f, t)) = t
  BY CapacityAssumption DEF Positions, Dist, Plus
<1>3. old \in Seq(Elements) /\ Len(old) = Dist(f, t)
  BY ArcIsSeq
<1>4. new \in Seq(Elements) /\ Len(new) = Dist(f, u)
  BY ArcIsSeq
<1>5. /\ longer \in Seq(Elements)
      /\ Len(longer) = Len(old) + 1
      /\ \A i \in 1 .. Len(old) : longer[i] = old[i]
      /\ longer[Len(old) + 1] = b[t]
  <2> HIDE DEF old
  <2>1. b[t] \in Elements
    BY DEF Cells
  <2>2. QED BY <1>3, <2>1, AppendProperties
<1>b. ASSUME NEW i \in 1 .. Dist(f, t) PROVE old[i] = b[Plus(f, i - 1)]
  BY ArcElement
<1>c. ASSUME NEW i \in 1 .. Dist(f, u) PROVE new[i] = b[Plus(f, i - 1)]
  BY ArcElement
<1> HIDE DEF old, new, longer
<1>6. ASSUME NEW i \in 1 .. Len(new) PROVE new[i] = longer[i]
  <2>1. CASE i = Dist(f, t) + 1
    <3>1. i - 1 = Dist(f, t)
      BY <2>1, <1>1
    <3>2. QED BY <2>1, <3>1, <1>1, <1>2, <1>3, <1>4, <1>5, <1>c
  <2>2. CASE i # Dist(f, t) + 1
    <3>1. i \in 1 .. Dist(f, t)
      BY <2>2, <1>1, <1>4
    <3>2. QED BY <3>1, <1>1, <1>3, <1>4, <1>5, <1>b, <1>c
  <2>3. QED BY <2>1, <2>2
<1>7. Len(new) = Len(longer)
  BY <1>1, <1>3, <1>4, <1>5
<1>8. new = longer
  BY <1>4, <1>5, <1>6, <1>7, SeqEqual
<1>9. QED BY <1>u, <1>8 DEF old, new, longer

(* Copying out the first cell takes the head of the sequence. *)
LEMMA ArcTail ==
  ASSUME NEW f \in Positions, NEW t \in Positions, NEW b \in Cells,
         f # t
  PROVE  /\ Arc(f, t, b) # <<>>
         /\ Head(Arc(f, t, b)) = b[f]
         /\ Tail(Arc(f, t, b)) = Arc(Index(f + 1), t, b)
<1>g. PICK g \in Positions : g = Index(f + 1)
  BY IndexRange
<1> DEFINE old == Arc(f, t, b)
           new == Arc(g, t, b)
<1>1. Dist(g, t) = Dist(f, t) - 1 /\ Dist(f, t) \in Nat \ {0}
  BY <1>g, DistAdvanceStart, DistRange, DistZero
<1>2. \A i \in 1 .. Dist(g, t) : Plus(g, i - 1) = Plus(f, i)
  BY <1>g, <1>1, CapacityAssumption DEF Positions, Plus, Index, Dist
<1>3. Plus(f, 0) = f
  BY CapacityAssumption DEF Positions, Plus
<1>4. old \in Seq(Elements) /\ Len(old) = Dist(f, t)
  BY ArcIsSeq
<1>5. new \in Seq(Elements) /\ Len(new) = Dist(g, t)
  BY ArcIsSeq
<1>b. ASSUME NEW i \in 1 .. Dist(f, t) PROVE old[i] = b[Plus(f, i - 1)]
  BY ArcElement
<1>c. ASSUME NEW i \in 1 .. Dist(g, t) PROVE new[i] = b[Plus(g, i - 1)]
  BY ArcElement
<1> HIDE DEF old, new
<1>6. old # <<>>
  BY <1>1, <1>4
<1>7. /\ Tail(old) \in Seq(Elements)
      /\ Len(Tail(old)) = Len(new)
      /\ \A i \in 1 .. Len(new) : Tail(old)[i] = old[i + 1]
  BY <1>1, <1>4, <1>5, <1>6, HeadTailProperties
<1>8. old[1] = b[f]
  BY <1>1, <1>3, <1>b
<1>9. ASSUME NEW i \in 1 .. Len(new) PROVE Tail(old)[i] = new[i]
  <2>1. i + 1 \in 1 .. Dist(f, t) /\ (i + 1) - 1 = i
    BY <1>1, <1>5
  <2>2. old[i + 1] = b[Plus(f, i)]
    BY <2>1, <1>b
  <2>3. QED BY <2>2, <1>2, <1>5, <1>7, <1>c
<1>10. Tail(old) = new
  BY <1>5, <1>7, <1>9, SeqEqual
<1>11. Head(old) = b[f]
  BY <1>8 
<1>12. QED BY <1>g, <1>6, <1>10, <1>11 DEF old, new

(* Writing the cell at the far end changes nothing that is inside. *)
LEMMA ArcUntouched ==
  ASSUME NEW f \in Positions, NEW t \in Positions, NEW b \in Cells,
         NEW v
  PROVE  Arc(f, t, [b EXCEPT ![t] = v]) = Arc(f, t, b)
<1>1. \A i \in 1 .. Dist(f, t) : [b EXCEPT ![t] = v][Plus(f, i - 1)] = b[Plus(f, i - 1)]
  BY PlusRange DEF Cells
<1>2. QED BY <1>1 DEF Arc

-----------------------------------------------------------------------------
(* Refinement.  Besides IInv it needs what push has done so far.           *)
PushInv ==
  /\ ppc # "idle" => pval \in Values
  /\ ppc = "publish" => buffer[tail] = pval

RInv == IInv /\ PushInv

(* What is about to be published is one of the values. *)
LEMMA StepPushInv == RInv /\ [Next]_vars => PushInv'
<1> SUFFICES ASSUME RInv, [Next]_vars PROVE PushInv'
  OBVIOUS
<1> USE DEF RInv, IInv, PushInv, TypeOK
<1>1. ASSUME NEW v \in Values, Push(v) PROVE PushInv'
  BY <1>1 DEF Push
<1>2. ASSUME ReloadHead PROVE PushInv'
  BY <1>2 DEF ReloadHead, ReloadHeadFrom
<1>3. ASSUME Write PROVE PushInv'
  BY <1>3 DEF Write
<1>4. ASSUME Publish PROVE PushInv'
  BY <1>4 DEF Publish
<1>5. ASSUME ProducerSize PROVE PushInv'
  BY <1>5 DEF ProducerSize
<1>6. ASSUME Consumer PROVE PushInv'
  BY <1>6
  DEF Consumer, Pop, ReloadTail, ReloadTailFrom, Read, Release, ConsumerSize,
      producerVars
<1>7. CASE UNCHANGED vars
  BY <1>7 DEF vars, producerVars
<1>8. QED BY <1>1, <1>2, <1>3, <1>4, <1>5, <1>6, <1>7 DEF Next, Producer

(* The first cell not yet copied out is a cell of the ring. *)
LEMMA FirstRange == TypeOK => First \in Positions
BY IndexRange DEF First, TypeOK

(* Every step of the ring is a step of the bounded FIFO or changes nothing *)
(* it can see.                                                             *)
LEMMA StepRefines == RInv /\ [Next]_vars => [Fifo!Next]_(Fifo!vars)
<1> SUFFICES ASSUME RInv, [Next]_vars PROVE [Fifo!Next]_(Fifo!vars)
  OBVIOUS
<1>0. /\ First \in Positions /\ tail \in Positions /\ head \in Positions
      /\ buffer \in Cells
      /\ TypeOK /\ CyclicOrder /\ HandOver /\ PushInv
  BY FirstRange DEF RInv, IInv, TypeOK, Cells, Elements
<1>n. Len(Contents) = Dist(First, tail)
  BY <1>0, ArcIsSeq DEF Contents
<1> DEFINE Same == Contents' = Contents /\ out' = out
<1>s. Same => UNCHANGED Fifo!vars
  BY DEF Fifo!vars
<1>1. ASSUME NEW v \in Values, Push(v) PROVE Same
  BY <1>1 DEF Push, Contents, Arc, First, consumerVars, Dist, Plus, Index
<1>2. ASSUME ReloadHead PROVE Same
  BY <1>2 DEF ReloadHead, ReloadHeadFrom, Contents, Arc, First, consumerVars, Dist, Plus, Index
<1>3. ASSUME Write PROVE Same
  <2>1. Contents' = Arc(First, tail, [buffer EXCEPT ![tail] = pval])
    BY <1>3 DEF Write, Contents, Arc, First, consumerVars, Dist, Plus, Index
  <2>2. Contents' = Contents
    BY <2>1, <1>0, ArcUntouched DEF Contents
  <2>3. QED BY <2>2, <1>3 DEF Write, consumerVars
<1>4. ASSUME Publish PROVE Fifo!Push(pval) /\ pval \in Values
  <2>1. pval \in Values /\ buffer[tail] = pval
    BY <1>4, <1>0 DEF Publish, PushInv
  <2>2. Dist(First, tail) < Capacity
    <3>1. Dist(head, tail) \in 0 .. Capacity /\ Dist(head, tail) < Capacity
      <4>1. Dist(headCached, tail) < Capacity
        BY <1>0, <1>4 DEF Publish, HandOver
      <4>2. /\ Dist(headCached, tail) \in 0 .. Capacity
            /\ Dist(headView, tail) \in 0 .. Capacity
            /\ Dist(head, tail) \in 0 .. Capacity
        BY <1>0, DistRange DEF TypeOK
      <4>3. QED BY <1>0, <4>1, <4>2, OrderFacts, CapacityAssumption
    <3>2. cpc = "release" => head # tail
      <4>1. SUFFICES ASSUME cpc = "release", head = tail PROVE FALSE
        OBVIOUS
      <4>2. head # tailCached
        BY <4>1, <1>0 DEF HandOver
      <4>3. /\ Dist(head, tailCached) \in Nat \ {0}
            /\ Dist(tailCached, tail) \in Nat
            /\ Dist(head, tail) = 0
        BY <4>1, <4>2, <1>0, DistRange, DistZero DEF TypeOK
      <4>4. QED BY <4>3, <1>0 DEF CyclicOrder, Between
    <3>3. cpc = "release" => Dist(Index(head + 1), tail) = Dist(head, tail) - 1
      BY <3>2, <1>0, DistAdvanceStart
    <3>4. QED BY <3>1, <3>3, CapacityAssumption DEF First
  <2>3. Contents' = Arc(First, Index(tail + 1), buffer)
    BY <1>4 DEF Publish, Contents, Arc, First, consumerVars, Dist, Plus, Index
  <2>4. Arc(First, Index(tail + 1), buffer) = Append(Contents, buffer[tail])
    BY <1>0, <2>2, ArcAppend DEF Contents
  <2>5. out' = out
    BY <1>4 DEF Publish, consumerVars
  <2>6. QED BY <2>1, <2>2, <2>3, <2>4, <2>5, <1>n DEF Fifo!Push
<1>5. ASSUME ProducerSize PROVE Same
  BY <1>5 DEF ProducerSize, Contents, Arc, First, consumerVars, Dist, Plus, Index
<1>6. ASSUME Pop PROVE Same
  BY <1>6 DEF Pop, Contents, Arc, First, producerVars, Dist, Plus, Index
<1>7. ASSUME ReloadTail PROVE Same
  BY <1>7 DEF ReloadTail, ReloadTailFrom, Contents, Arc, First, producerVars, Dist, Plus, Index
<1>8. ASSUME Read PROVE Fifo!Pop
  <2>1. cpc = "read" /\ First = head
    BY <1>8 DEF Read, First
  <2>2. head # tail
    <3>1. SUFFICES ASSUME head = tail PROVE FALSE
      OBVIOUS
    <3>2. head # tailCached
      BY <2>1, <1>0 DEF HandOver
    <3>3. /\ Dist(head, tailCached) \in Nat \ {0}
          /\ Dist(tailCached, tail) \in Nat
          /\ Dist(head, tail) = 0
      BY <3>1, <3>2, <1>0, DistRange, DistZero DEF TypeOK
    <3>4. QED BY <3>3, <1>0 DEF CyclicOrder, Between
  <2>3. /\ Contents # <<>>
        /\ Head(Contents) = buffer[head]
        /\ Tail(Contents) = Arc(Index(head + 1), tail, buffer)
    BY <2>1, <2>2, <1>0, ArcTail DEF Contents
  <2>4. Contents' = Arc(Index(head + 1), tail, buffer)
    BY <1>8 DEF Read, Contents, Arc, First, producerVars, Dist, Plus, Index
  <2>5. out' = buffer[head]
    BY <1>8 DEF Read
  <2>6. QED BY <2>3, <2>4, <2>5 DEF Fifo!Pop
<1>9. ASSUME Release PROVE Same
  BY <1>9 DEF Release, Contents, Arc, First, producerVars, Dist, Plus, Index
<1>10. ASSUME ConsumerSize PROVE Same
  BY <1>10 DEF ConsumerSize, Contents, Arc, First, producerVars, Dist, Plus, Index
<1>11. CASE UNCHANGED vars
  <2>1. Same
    BY <1>11 DEF vars, producerVars, consumerVars, Contents, Arc, First, Dist, Plus, Index
  <2>2. QED BY <2>1, <1>s
<1>12. QED
  <2> HIDE DEF Same
  <2>1. CASE Next
    BY <2>1, <1>1, <1>2, <1>3, <1>4, <1>5, <1>6, <1>7, <1>8, <1>9, <1>10, <1>s
    DEF Next, Producer, Consumer, Fifo!Next
  <2>2. QED BY <2>1, <1>11

(* Initially the ring holds the empty queue. *)
LEMMA InitRefines == Init => RInv /\ Fifo!Init
<1> SUFFICES ASSUME Init PROVE PushInv /\ Fifo!Init
  BY InitIInv DEF RInv
<1>1. PushInv
  BY DEF Init, PushInv
<1>2. Dist(First, tail) = 0
  BY DEF Init, First, Dist
<1>3. Contents = <<>>
  <2>1. tail \in Positions /\ First \in Positions
    BY CapacityAssumption DEF Init, First, Positions
  <2>2. Contents \in Seq(Elements) /\ Len(Contents) = 0
    BY <1>2, <2>1, ArcIsSeq DEF Contents, Init, Cells, Elements
  <2>3. QED BY <2>2, EmptySeq
<1>4. QED BY <1>1, <1>3 DEF Init, Fifo!Init

(* The ring buffer implements the bounded FIFO: elements come out once, in *)
(* order, as they went in, however the two threads interleave and however  *)
(* stale the positions they read.                                          *)
THEOREM RefinesFifo == Spec => IsFifo
<1>1. RInv /\ [Next]_vars => RInv'
  BY StepIInv, StepPushInv DEF RInv
<1>2. QED BY InitRefines, <1>1, StepRefines, PTL DEF Spec, IsFifo, Fifo!Spec
=============================================================================
