----------------------- MODULE RingBufferMutex_proofs -----------------------
(* Proofs about RingBufferMutex for every capacity and any number of       *)
(* producers and consumers: no wake-up is lost, and the queue is a FIFO.   *)
EXTENDS RingBufferMutex, FiniteSetTheorems, SequenceTheorems, TLAPS

Elements == Values \cup {NoValue}
Rings == [head : Positions, tail : Positions, cells : [Positions -> Elements]]

-----------------------------------------------------------------------------
(* The ring as a value.                                                    *)

(* A ring holds from none to Capacity elements, as its tests say.          *)
LEMMA SizeOfRing ==
  ASSUME NEW r \in Rings
  PROVE  /\ SizeOf(r) \in 0 .. Capacity
         /\ IsEmpty(r) <=> SizeOf(r) = 0
         /\ IsFull(r) <=> SizeOf(r) = Capacity
BY CapacityAssumption DEF Rings, Positions, SizeOf, IsEmpty, IsFull, Index

(* What a push that finds room and a pop that finds an element leave.      *)
LEMMA PushedFields ==
  ASSUME NEW r \in Rings, NEW v, ~ IsFull(r)
  PROVE  PushTo(r, v) = [head |-> r.head, tail |-> Index(r.tail + 1),
                         cells |-> [r.cells EXCEPT ![r.tail] = v]]
<1>1. PushTo(r, v) = [[r EXCEPT !.cells = [@ EXCEPT ![r.tail] = v]] EXCEPT !.tail = Index(r.tail + 1)]
  BY DEF PushTo, Rings
<1>2. r = [head |-> r.head, tail |-> r.tail, cells |-> r.cells]
  BY DEF Rings
<1> QED
  BY <1>1, <1>2 DEF Rings

LEMMA PoppedFields ==
  ASSUME NEW r \in Rings, ~ IsEmpty(r)
  PROVE  PopFrom(r) = [head |-> Index(r.head + 1), tail |-> r.tail, cells |-> r.cells]
BY DEF PopFrom, Rings

(* Positions stay positions.                                               *)
LEMMA IndexRange ==
  ASSUME NEW p \in Positions
  PROVE  Index(p + 1) \in Positions
BY CapacityAssumption DEF Positions, Index

(* A push that finds room leaves a ring with one element more ...          *)
LEMMA PushedRing ==
  ASSUME NEW r \in Rings, NEW v \in Values, ~ IsFull(r)
  PROVE  PushTo(r, v) \in Rings /\ SizeOf(PushTo(r, v)) = SizeOf(r) + 1
<1>1. PushTo(r, v) \in Rings
  <2>1. [r.cells EXCEPT ![r.tail] = v] \in [Positions -> Elements]
    BY DEF Rings, Elements
  <2>2. r.head \in Positions /\ Index(r.tail + 1) \in Positions
    BY IndexRange DEF Rings
  <2> QED
    BY <2>1, <2>2, PushedFields DEF Rings
<1>2. PushTo(r, v).head = r.head /\ PushTo(r, v).tail = Index(r.tail + 1)
  BY PushedFields
<1>3. r.head \in Positions /\ r.tail \in Positions
  BY DEF Rings
<1> QED
  BY <1>1, <1>2, <1>3, CapacityAssumption DEF Positions, SizeOf, IsFull, Index

(* ... and a pop that finds an element leaves one with one less.           *)
LEMMA PoppedRing ==
  ASSUME NEW r \in Rings, ~ IsEmpty(r)
  PROVE  /\ PopFrom(r) \in Rings /\ SizeOf(PopFrom(r)) = SizeOf(r) - 1
         /\ Front(r) \in Elements
<1>1. PopFrom(r) \in Rings
  BY PoppedFields, IndexRange DEF Rings
<1>2. PopFrom(r).head = Index(r.head + 1) /\ PopFrom(r).tail = r.tail
  BY PoppedFields
<1>3. r.head \in Positions /\ r.tail \in Positions
  BY DEF Rings
<1>4. SizeOf(PopFrom(r)) = SizeOf(r) - 1
  BY <1>2, <1>3, CapacityAssumption DEF Positions, SizeOf, IsEmpty, Index
<1>5. Front(r) \in Elements
  BY DEF Rings, Front
<1> QED
  BY <1>1, <1>4, <1>5

(* The contents are a sequence, one element after the other.               *)
LEMMA ContentsAreSeq ==
  ASSUME NEW r \in Rings
  PROVE  /\ Contents(r) \in Seq(Elements) /\ Len(Contents(r)) = SizeOf(r)
         /\ \A i \in 1 .. SizeOf(r) : Contents(r)[i] = r.cells[Cell(r.head, i - 1)]
<1>1. SizeOf(r) \in Nat
  BY SizeOfRing
<1>2. \A i \in 1 .. SizeOf(r) : Cell(r.head, i - 1) \in Positions
  <2>1. r.head \in Positions /\ SizeOf(r) \in 0 .. Capacity
    BY SizeOfRing DEF Rings
  <2> QED
    BY <2>1, CapacityAssumption DEF Positions, Cell
<1>3. Contents(r) \in [1 .. SizeOf(r) -> Elements]
  BY <1>2 DEF Contents, Rings
<1>4. Contents(r) \in Seq(Elements)
  BY <1>1, <1>3, SeqDef
<1>5. DOMAIN Contents(r) = 1 .. SizeOf(r)
  BY DEF Contents
<1>6. \A i \in 1 .. SizeOf(r) : Contents(r)[i] = r.cells[Cell(r.head, i - 1)]
  BY DEF Contents
<1> QED
  BY <1>1, <1>4, <1>5, <1>6, LenProperties

(* A push appends to what the ring holds.                                  *)
LEMMA PushAppends ==
  ASSUME NEW r \in Rings, NEW v \in Values, ~ IsFull(r)
  PROVE  Contents(PushTo(r, v)) = Append(Contents(r), v)
<1>s. PICK s \in Rings : s = PushTo(r, v)
  BY PushedRing
<1> DEFINE old == Contents(r)
           new == Contents(s)
           longer == Append(old, v)
           n == SizeOf(r)
<1>1. n \in 0 .. Capacity - 1 /\ SizeOf(s) = n + 1
  BY <1>s, SizeOfRing, PushedRing, CapacityAssumption
<1>2. s.head = r.head /\ s.cells = [r.cells EXCEPT ![r.tail] = v]
  BY <1>s, PushedFields
<1>3. /\ old \in Seq(Elements) /\ Len(old) = n
      /\ \A i \in 1 .. n : old[i] = r.cells[Cell(r.head, i - 1)]
  BY ContentsAreSeq
<1>4. /\ new \in Seq(Elements) /\ Len(new) = n + 1
      /\ \A i \in 1 .. n + 1 : new[i] = s.cells[Cell(r.head, i - 1)]
  BY <1>1, <1>2, ContentsAreSeq
<1>5. /\ \A i \in 1 .. n : Cell(r.head, i - 1) \in Positions \ {r.tail}
      /\ Cell(r.head, n) = r.tail
  <2>1. r.head \in Positions /\ r.tail \in Positions
    BY DEF Rings
  <2> QED
    BY <2>1, CapacityAssumption DEF Positions, Cell, SizeOf
<1>6. /\ longer \in Seq(Elements) /\ Len(longer) = n + 1
      /\ \A i \in 1 .. n : longer[i] = old[i]
      /\ longer[n + 1] = v
  <2> HIDE DEF old, n
  <2> QED
    BY <1>3, AppendProperties DEF Elements
<1> HIDE DEF old, new, longer, n
<1>7. ASSUME NEW i \in 1 .. n + 1
      PROVE  new[i] = longer[i]
  <2>1. CASE i = n + 1
    <3>1. s.cells[r.tail] = v /\ i - 1 = n
      BY <1>1, <1>2, <2>1 DEF Rings
    <3> QED
      BY <2>1, <3>1, <1>4, <1>5, <1>6
  <2>2. CASE i \in 1 .. n
    <3>1. s.cells[Cell(r.head, i - 1)] = r.cells[Cell(r.head, i - 1)]
      BY <1>2, <1>5, <2>2 DEF Rings
    <3> QED
      BY <2>2, <3>1, <1>3, <1>4, <1>6
  <2> QED
    BY <2>1, <2>2, <1>1
<1>8. new = longer
  BY <1>4, <1>6, <1>7, SeqEqual
<1> QED
  BY <1>s, <1>8 DEF new, longer, old

(* A pop takes the head of it.                                             *)
LEMMA PopTakesHead ==
  ASSUME NEW r \in Rings, ~ IsEmpty(r)
  PROVE  /\ Contents(r) # <<>> /\ Front(r) = Head(Contents(r))
         /\ Contents(PopFrom(r)) = Tail(Contents(r))
<1>s. PICK s \in Rings : s = PopFrom(r)
  BY PoppedRing
<1> DEFINE old == Contents(r)
           new == Contents(s)
           n == SizeOf(r)
<1>1. n \in 1 .. Capacity /\ SizeOf(s) = n - 1
  BY <1>s, SizeOfRing, PoppedRing, CapacityAssumption
<1>2. s.head = Index(r.head + 1) /\ s.cells = r.cells
  BY <1>s, PoppedFields
<1>3. /\ old \in Seq(Elements) /\ Len(old) = n
      /\ \A i \in 1 .. n : old[i] = r.cells[Cell(r.head, i - 1)]
  BY ContentsAreSeq
<1>4. /\ new \in Seq(Elements) /\ Len(new) = n - 1
      /\ \A i \in 1 .. n - 1 : new[i] = r.cells[Cell(s.head, i - 1)]
  BY <1>1, <1>2, ContentsAreSeq
<1>5. /\ \A i \in 1 .. n - 1 : Cell(s.head, i - 1) = Cell(r.head, i)
      /\ Cell(r.head, 0) = r.head
  <2>1. r.head \in Positions
    BY DEF Rings
  <2> QED
    BY <2>1, <1>1, <1>2, CapacityAssumption DEF Positions, Cell, Index
<1> HIDE DEF old, new, n
<1>6. old # <<>> /\ Head(old) = old[1] /\ old[1] = r.cells[r.head]
  <2>1. 1 \in 1 .. n /\ 1 - 1 = 0
    BY <1>1
  <2> QED
    BY <1>3, <1>5, <2>1
<1>7. /\ Tail(old) \in Seq(Elements) /\ Len(Tail(old)) = n - 1
      /\ \A i \in 1 .. n - 1 : Tail(old)[i] = old[i + 1]
  BY <1>1, <1>3, <1>6, HeadTailProperties
<1>8. ASSUME NEW i \in 1 .. n - 1
      PROVE  new[i] = Tail(old)[i]
  <2>1. i + 1 \in 1 .. n /\ (i + 1) - 1 = i
    BY <1>1
  <2>2. old[i + 1] = r.cells[Cell(r.head, i)]
    BY <2>1, <1>3
  <2> QED
    BY <2>2, <1>4, <1>5, <1>7
<1>9. new = Tail(old)
  BY <1>4, <1>7, <1>8, SeqEqual
<1> QED
  BY <1>s, <1>6, <1>9 DEF new, old, Front

-----------------------------------------------------------------------------
(* The threads.                                                            *)

LEMMA InitInv == Init => IInv
<1> SUFFICES ASSUME Init
             PROVE  IInv
  OBVIOUS
<1>1. NewRing \in Rings
  BY CapacityAssumption DEF NewRing, Rings, Positions, Elements
<1>2. TypeOK
  BY <1>1, MutexAssumption DEF Init, TypeOK, Threads, Rings, Elements
<1>3. Waiting("notFull") = {} /\ Waiting("notEmpty") = {}
  BY DEF Init, Waiting
<1> QED
  BY <1>2, <1>3 DEF IInv, NoLostWakeup

(* Whoever waits can be counted.                                           *)
LEMMA WaitersFinite ==
  ASSUME NEW S \in SUBSET Threads
  PROVE  IsFiniteSet(S) /\ Cardinality(S) \in Nat
BY MutexAssumption, FS_Union, FS_Subset, FS_CardinalityType DEF Threads

(* What a notification does to the threads that wait and were woken.       *)
LEMMA Notified ==
  ASSUME TypeOK, NEW cv \in {"notFull", "notEmpty"}, NEW resumed \in {"push", "pop"},
         NEW leaver \in Threads, pc[leaver] \in {"idle", "push", "pop"},
         NotifyOne(cv, resumed, leaver)
  PROVE  /\ \A p \in {"notFull", "notEmpty", "push", "pop"} \ {cv, resumed} :
              Waiting(p)' = Waiting(p) \ {leaver}
         /\ \/ /\ Waiting(cv) = {} /\ Waiting(cv)' = {}
               /\ Waiting(resumed)' = Waiting(resumed) \ {leaver}
            \/ \E t \in Waiting(cv) :
                 /\ t # leaver
                 /\ Waiting(cv)' = Waiting(cv) \ {t}
                 /\ Waiting(resumed)' = (Waiting(resumed) \ {leaver}) \cup {t}
<1>1. CASE Waiting(cv) = {}
  <2>1. pc' = [pc EXCEPT ![leaver] = "idle"]
    BY <1>1 DEF NotifyOne
  <2> QED
    BY <1>1, <2>1 DEF Waiting, TypeOK
<1>2. CASE Waiting(cv) # {}
  <2>1. PICK t \in Waiting(cv) : pc' = [[pc EXCEPT ![leaver] = "idle"] EXCEPT ![t] = resumed]
    BY <1>2 DEF NotifyOne
  <2>2. t \in Threads /\ t # leaver /\ pc[t] = cv
    BY DEF Waiting
  <2>3. \A u \in Threads : pc'[u] = IF u = t THEN resumed ELSE IF u = leaver THEN "idle" ELSE pc[u]
    BY <2>1, <2>2 DEF TypeOK
  <2> QED
    BY <2>2, <2>3 DEF Waiting
<1> QED
  BY <1>1, <1>2

(* ... and that each thread stays at points of its own calls.              *)
LEMMA NotifiedTypes ==
  ASSUME TypeOK, NEW leaver \in Threads, pc[leaver] \in {"idle", "push", "pop"},
         \/ NotifyOne("notFull", "push", leaver)
         \/ NotifyOne("notEmpty", "pop", leaver)
  PROVE  /\ pc' \in [Threads -> {"idle", "notFull", "push", "notEmpty", "pop"}]
         /\ \A t \in Consumers : pc'[t] \in {"idle", "notEmpty", "pop"}
         /\ \A t \in Producers \ {leaver} :
              /\ pc'[t] = "idle" <=> pc[t] = "idle"
              /\ pc'[t] \in {"idle", "notFull", "push"}
         /\ pc'[leaver] = "idle"
<1> DEFINE left == [pc EXCEPT ![leaver] = "idle"]
<1>1. /\ left \in [Threads -> {"idle", "notFull", "push", "notEmpty", "pop"}]
      /\ left[leaver] = "idle" /\ \A t \in Threads \ {leaver} : left[t] = pc[t]
  BY DEF TypeOK
<1>2. /\ \A t \in Producers : t \in Threads /\ pc[t] \in {"idle", "notFull", "push"}
      /\ \A t \in Consumers : t \in Threads /\ pc[t] \in {"idle", "notEmpty", "pop"}
  BY DEF TypeOK, Threads
<1> HIDE DEF left
<1>3. CASE pc' = left
  BY <1>1, <1>2, <1>3
<1>4. ASSUME NEW t \in Waiting("notFull"), pc' = [left EXCEPT ![t] = "push"]
      PROVE  /\ t \in Threads \ {leaver} /\ t \notin Consumers /\ pc[t] = "notFull"
             /\ \A u \in Threads : pc'[u] = IF u = t THEN "push" ELSE left[u]
             /\ pc' \in [Threads -> {"idle", "notFull", "push", "notEmpty", "pop"}]
  BY <1>1, <1>2, <1>4 DEF Waiting
<1>5. ASSUME NEW t \in Waiting("notEmpty"), pc' = [left EXCEPT ![t] = "pop"]
      PROVE  /\ t \in Threads \ {leaver} /\ t \notin Producers
             /\ \A u \in Threads : pc'[u] = IF u = t THEN "pop" ELSE left[u]
             /\ pc' \in [Threads -> {"idle", "notFull", "push", "notEmpty", "pop"}]
  BY <1>1, <1>2, <1>5 DEF Waiting
<1>6. CASE \E t \in Waiting("notFull") : pc' = [left EXCEPT ![t] = "push"]
  <2>1. PICK t \in Waiting("notFull") : pc' = [left EXCEPT ![t] = "push"]
    BY <1>6
  <2>2. /\ t \in Threads \ {leaver} /\ t \notin Consumers /\ pc[t] = "notFull"
        /\ \A u \in Threads : pc'[u] = IF u = t THEN "push" ELSE left[u]
        /\ pc' \in [Threads -> {"idle", "notFull", "push", "notEmpty", "pop"}]
    BY <1>4, <2>1
  <2> QED
    BY <1>1, <1>2, <2>2
<1>7. CASE \E t \in Waiting("notEmpty") : pc' = [left EXCEPT ![t] = "pop"]
  <2>1. PICK t \in Waiting("notEmpty") : pc' = [left EXCEPT ![t] = "pop"]
    BY <1>7
  <2>2. /\ t \in Threads \ {leaver} /\ t \notin Producers
        /\ \A u \in Threads : pc'[u] = IF u = t THEN "pop" ELSE left[u]
        /\ pc' \in [Threads -> {"idle", "notFull", "push", "notEmpty", "pop"}]
    BY <1>5, <2>1
  <2> QED
    BY <1>1, <1>2, <2>2
<1> QED
  BY <1>3, <1>6, <1>7 DEF NotifyOne, left

(* As one of the woken threads goes on, one place less has to be theirs;   *)
(* as one more is woken, one more may be.                                  *)
LEMMA OneGoesOn ==
  ASSUME NEW S \in SUBSET Threads, NEW t, NEW n \in Int, n <= Cardinality(S)
  PROVE  n - 1 <= Cardinality(S \ {t})
<1>1. IsFiniteSet(S) /\ Cardinality(S) \in Nat
  BY WaitersFinite
<1>2. Cardinality(S \ {t}) = IF t \in S THEN Cardinality(S) - 1 ELSE Cardinality(S)
  BY <1>1, FS_RemoveElement
<1> QED
  BY <1>1, <1>2

LEMMA OneIsWoken ==
  ASSUME NEW S \in SUBSET Threads, NEW t, t \notin S, NEW n \in Int, n <= Cardinality(S)
  PROVE  n + 1 <= Cardinality(S \cup {t})
<1>1. IsFiniteSet(S) /\ Cardinality(S) \in Nat
  BY WaitersFinite
<1>2. Cardinality(S \cup {t}) = Cardinality(S) + 1
  BY <1>1, FS_AddElement
<1> QED
  BY <1>1, <1>2

(* A producer that another thread's step leaves in its call keeps what it  *)
(* is pushing.                                                             *)
LEMMA ValueKept ==
  ASSUME TypeOK, NEW u \in Producers, pval'[u] = pval[u],
         pc'[u] = "idle" <=> pc[u] = "idle", pc'[u] \in {"idle", "notFull", "push"}
  PROVE  IF pc'[u] = "idle" THEN pval'[u] = NoValue
         ELSE pc'[u] \in {"notFull", "push"} /\ pval'[u] \in Values
<1>1. IF pc[u] = "idle" THEN pval[u] = NoValue ELSE pval[u] \in Values
  BY DEF TypeOK
<1>2. CASE pc[u] = "idle"
  BY <1>1, <1>2
<1>3. CASE pc[u] # "idle"
  BY <1>1, <1>3
<1> QED
  BY <1>2, <1>3

(* A push that finds room.                                                 *)
LEMMA FinishPushKeeps ==
  ASSUME IInv, NEW t \in Producers, NEW v \in Values, pc[t] \in {"idle", "push"}, FinishPush(t, v)
  PROVE  IInv'
<1>1. ring \in Rings /\ ring' \in Rings /\ SizeOf(ring') = SizeOf(ring) + 1
  BY PushedRing DEF FinishPush, IInv, TypeOK, Rings, Elements
<1>2. SizeOf(ring) \in 0 .. Capacity
  BY <1>1, SizeOfRing
<1>3. t \in Threads /\ TypeOK /\ NotifyOne("notEmpty", "pop", t)
  BY DEF FinishPush, IInv, Threads
<1>4. TypeOK'
  <2>1. /\ pc' \in [Threads -> {"idle", "notFull", "push", "notEmpty", "pop"}]
        /\ \A u \in Consumers : pc'[u] \in {"idle", "notEmpty", "pop"}
        /\ \A u \in Producers \ {t} : /\ pc'[u] = "idle" <=> pc[u] = "idle"
                                      /\ pc'[u] \in {"idle", "notFull", "push"}
        /\ pc'[t] = "idle"
    BY <1>3, NotifiedTypes
  <2>2. /\ pval' \in [Producers -> Values \cup {NoValue}]
        /\ pval'[t] = NoValue /\ \A u \in Producers \ {t} : pval'[u] = pval[u]
    BY <1>3 DEF FinishPush, TypeOK
  <2>3. ASSUME NEW u \in Producers
        PROVE  IF pc'[u] = "idle" THEN pval'[u] = NoValue
               ELSE pc'[u] \in {"notFull", "push"} /\ pval'[u] \in Values
    <3>1. CASE u = t
      BY <3>1, <2>1, <2>2
    <3>2. CASE u # t
      <4>1. /\ pval'[u] = pval[u] /\ pc'[u] \in {"idle", "notFull", "push"}
            /\ pc'[u] = "idle" <=> pc[u] = "idle"
        BY <3>2, <2>1, <2>2
      <4>2. TypeOK
        BY <1>3
      <4> QED
        BY <4>1, <4>2, ValueKept
    <3> QED
      BY <3>1, <3>2
  <2> QED
    BY <1>1, <1>3, <2>1, <2>2, <2>3 DEF FinishPush, TypeOK, Rings, Elements
<1>5. /\ Waiting("notFull")' = Waiting("notFull") \ {t}
      /\ Waiting("push")' = Waiting("push") \ {t}
      /\ \/ Waiting("notEmpty")' = {}
         \/ \E u \in Waiting("notEmpty") : Waiting("pop")' = (Waiting("pop") \ {t}) \cup {u}
  BY <1>3, Notified
<1>6. t \notin Waiting("pop") /\ t \notin Waiting("notFull")
  BY <1>3, MutexAssumption DEF Waiting, TypeOK
<1>7. Waiting("push") \in SUBSET Threads /\ Waiting("pop") \in SUBSET Threads
  BY DEF Waiting
<1>8. Waiting("notFull")' # {} => Capacity - SizeOf(ring') <= Cardinality(Waiting("push"))'
  <2> SUFFICES ASSUME Waiting("notFull") # {}
               PROVE  Capacity - SizeOf(ring') <= Cardinality(Waiting("push") \ {t})
    BY <1>5, <1>6
  <2>1. Capacity - SizeOf(ring) \in Int /\ Capacity - SizeOf(ring) <= Cardinality(Waiting("push"))
    BY <1>2, CapacityAssumption DEF IInv, NoLostWakeup
  <2>2. (Capacity - SizeOf(ring)) - 1 <= Cardinality(Waiting("push") \ {t})
    BY <1>7, <2>1, OneGoesOn
  <2>3. Capacity - SizeOf(ring') = (Capacity - SizeOf(ring)) - 1
    BY <1>1, <1>2, CapacityAssumption
  <2> QED
    BY <2>2, <2>3
<1>9. Waiting("notEmpty")' # {} => SizeOf(ring') <= Cardinality(Waiting("pop"))'
  <2> SUFFICES ASSUME NEW u \in Waiting("notEmpty")
               PROVE  SizeOf(ring') <= Cardinality(Waiting("pop") \cup {u})
    BY <1>5, <1>6
  <2>1. u \notin Waiting("pop")
    BY DEF Waiting
  <2>2. SizeOf(ring) \in Int /\ SizeOf(ring) <= Cardinality(Waiting("pop"))
    BY <1>2 DEF IInv, NoLostWakeup
  <2>3. SizeOf(ring) + 1 <= Cardinality(Waiting("pop") \cup {u})
    BY <1>7, <2>1, <2>2, OneIsWoken
  <2> QED
    BY <1>1, <2>3
<1> QED
  BY <1>4, <1>8, <1>9 DEF IInv, NoLostWakeup

(* A pop that finds an element.                                            *)
LEMMA FinishPopKeeps ==
  ASSUME IInv, NEW t \in Consumers, pc[t] \in {"idle", "pop"}, FinishPop(t)
  PROVE  IInv'
<1>1. /\ ring \in Rings /\ ring' \in Rings /\ SizeOf(ring') = SizeOf(ring) - 1
      /\ out' \in Elements
  BY PoppedRing DEF FinishPop, IInv, TypeOK, Rings, Elements
<1>2. SizeOf(ring) \in 0 .. Capacity
  BY <1>1, SizeOfRing
<1>3. t \in Threads /\ TypeOK /\ NotifyOne("notFull", "push", t)
  BY DEF FinishPop, IInv, Threads
<1>4. TypeOK'
  <2>1. /\ pc' \in [Threads -> {"idle", "notFull", "push", "notEmpty", "pop"}]
        /\ \A u \in Consumers : pc'[u] \in {"idle", "notEmpty", "pop"}
        /\ \A u \in Producers \ {t} : /\ pc'[u] = "idle" <=> pc[u] = "idle"
                                      /\ pc'[u] \in {"idle", "notFull", "push"}
    BY <1>3, NotifiedTypes
  <2>2. t \notin Producers /\ pval' = pval
    BY MutexAssumption DEF FinishPop
  <2>3. ASSUME NEW u \in Producers
        PROVE  IF pc'[u] = "idle" THEN pval'[u] = NoValue
               ELSE pc'[u] \in {"notFull", "push"} /\ pval'[u] \in Values
    <3>1. u # t
      BY <2>2
    <3>2. /\ pval'[u] = pval[u] /\ pc'[u] \in {"idle", "notFull", "push"}
          /\ pc'[u] = "idle" <=> pc[u] = "idle"
      BY <3>1, <2>1, <2>2
    <3>3. TypeOK
      BY <1>3
    <3> QED
      BY <3>2, <3>3, ValueKept
  <2> QED
    BY <1>1, <1>3, <2>1, <2>2, <2>3 DEF TypeOK, Rings, Elements
<1>5. /\ Waiting("notEmpty")' = Waiting("notEmpty") \ {t}
      /\ Waiting("pop")' = Waiting("pop") \ {t}
      /\ \/ Waiting("notFull")' = {}
         \/ \E u \in Waiting("notFull") : Waiting("push")' = (Waiting("push") \ {t}) \cup {u}
  BY <1>3, Notified
<1>6. t \notin Waiting("push") /\ t \notin Waiting("notEmpty")
  BY <1>3, MutexAssumption DEF Waiting, TypeOK
<1>7. Waiting("push") \in SUBSET Threads /\ Waiting("pop") \in SUBSET Threads
  BY DEF Waiting
<1>8. Waiting("notEmpty")' # {} => SizeOf(ring') <= Cardinality(Waiting("pop"))'
  <2> SUFFICES ASSUME Waiting("notEmpty") # {}
               PROVE  SizeOf(ring') <= Cardinality(Waiting("pop") \ {t})
    BY <1>5, <1>6
  <2>1. SizeOf(ring) \in Int /\ SizeOf(ring) <= Cardinality(Waiting("pop"))
    BY <1>2 DEF IInv, NoLostWakeup
  <2> QED
    BY <1>1, <1>7, <2>1, OneGoesOn
<1>9. Waiting("notFull")' # {} => Capacity - SizeOf(ring') <= Cardinality(Waiting("push"))'
  <2> SUFFICES ASSUME NEW u \in Waiting("notFull")
               PROVE  Capacity - SizeOf(ring') <= Cardinality(Waiting("push") \cup {u})
    BY <1>5, <1>6
  <2>1. u \notin Waiting("push")
    BY DEF Waiting
  <2>2. Capacity - SizeOf(ring) \in Int /\ Capacity - SizeOf(ring) <= Cardinality(Waiting("push"))
    BY <1>2, CapacityAssumption DEF IInv, NoLostWakeup
  <2>3. (Capacity - SizeOf(ring)) + 1 <= Cardinality(Waiting("push") \cup {u})
    BY <1>7, <2>1, <2>2, OneIsWoken
  <2>4. Capacity - SizeOf(ring') = (Capacity - SizeOf(ring)) + 1
    BY <1>1, <1>2, CapacityAssumption
  <2> QED
    BY <2>3, <2>4
<1> QED
  BY <1>4, <1>8, <1>9 DEF IInv, NoLostWakeup

(* A push that has to wait leaves no place that a woken producer needs.    *)
LEMMA WaitToPushKeeps ==
  ASSUME IInv, NEW t \in Producers, NEW v \in Values, pc[t] \in {"idle", "push"}, WaitToPush(t, v)
  PROVE  IInv'
<1>1. ring \in Rings /\ ring' = ring /\ t \in Threads /\ t \notin Consumers
  BY MutexAssumption DEF WaitToPush, IInv, TypeOK, Rings, Elements, Threads
<1>2. TypeOK'
  BY <1>1 DEF WaitToPush, IInv, TypeOK
<1>3. Waiting("notEmpty")' = Waiting("notEmpty") /\ Waiting("pop")' = Waiting("pop")
  BY <1>1 DEF WaitToPush, Waiting, IInv, TypeOK
<1>4. Capacity - SizeOf(ring) = 0
  BY <1>1, SizeOfRing, CapacityAssumption DEF WaitToPush
<1>5. 0 <= Cardinality(Waiting("push"))'
  BY WaitersFinite DEF Waiting
<1> QED
  BY <1>1, <1>2, <1>3, <1>4, <1>5 DEF IInv, NoLostWakeup

(* A pop that has to wait leaves no element that a woken consumer needs.   *)
LEMMA WaitToPopKeeps ==
  ASSUME IInv, NEW t \in Consumers, pc[t] \in {"idle", "pop"}, WaitToPop(t)
  PROVE  IInv'
<1>1. ring \in Rings /\ ring' = ring /\ t \in Threads /\ t \notin Producers
  BY MutexAssumption DEF WaitToPop, IInv, TypeOK, Rings, Elements, Threads
<1>2. TypeOK'
  BY <1>1 DEF WaitToPop, IInv, TypeOK
<1>3. Waiting("notFull")' = Waiting("notFull") /\ Waiting("push")' = Waiting("push")
  BY <1>1 DEF WaitToPop, Waiting, IInv, TypeOK
<1>4. SizeOf(ring) = 0
  BY <1>1, SizeOfRing DEF WaitToPop
<1>5. 0 <= Cardinality(Waiting("pop"))'
  BY WaitersFinite DEF Waiting
<1> QED
  BY <1>1, <1>2, <1>3, <1>4, <1>5 DEF IInv, NoLostWakeup

(* A spurious wake-up only adds to the woken.                              *)
LEMMA SpuriousWakeKeeps ==
  ASSUME IInv, NEW t \in Threads, SpuriousWake(t)
  PROVE  IInv'
<1>1. ring' = ring /\ ring \in Rings
  BY DEF SpuriousWake, IInv, TypeOK, Rings, Elements
<1>2. TypeOK'
  BY MutexAssumption DEF SpuriousWake, IInv, TypeOK, Threads
<1>3. SizeOf(ring) \in 0 .. Capacity
  BY <1>1, SizeOfRing
<1>4. Waiting("push") \in SUBSET Threads /\ Waiting("pop") \in SUBSET Threads
  BY DEF Waiting
<1>5. CASE pc[t] = "notFull" /\ pc' = [pc EXCEPT ![t] = "push"]
  <2>1. /\ t \in Waiting("notFull") /\ t \notin Waiting("push")
        /\ Waiting("push")' = Waiting("push") \cup {t}
        /\ Waiting("notEmpty")' = Waiting("notEmpty") /\ Waiting("pop")' = Waiting("pop")
    BY <1>5 DEF Waiting, IInv, TypeOK
  <2>2. Capacity - SizeOf(ring) \in Int /\ Capacity - SizeOf(ring) <= Cardinality(Waiting("push"))
    BY <1>3, <2>1, CapacityAssumption DEF IInv, NoLostWakeup
  <2>3. (Capacity - SizeOf(ring)) + 1 <= Cardinality(Waiting("push"))'
    BY <1>4, <2>1, <2>2, OneIsWoken
  <2>4. Capacity - SizeOf(ring) <= Cardinality(Waiting("push"))'
    <3>1. Cardinality(Waiting("push"))' \in Nat
      BY WaitersFinite DEF Waiting
    <3> QED
      BY <2>2, <2>3, <3>1
  <2> QED
    BY <1>1, <1>2, <2>1, <2>4 DEF IInv, NoLostWakeup
<1>6. CASE pc[t] = "notEmpty" /\ pc' = [pc EXCEPT ![t] = "pop"]
  <2>1. /\ t \in Waiting("notEmpty") /\ t \notin Waiting("pop")
        /\ Waiting("pop")' = Waiting("pop") \cup {t}
        /\ Waiting("notFull")' = Waiting("notFull") /\ Waiting("push")' = Waiting("push")
    BY <1>6 DEF Waiting, IInv, TypeOK
  <2>2. SizeOf(ring) \in Int /\ SizeOf(ring) <= Cardinality(Waiting("pop"))
    BY <1>3, <2>1 DEF IInv, NoLostWakeup
  <2>3. SizeOf(ring) + 1 <= Cardinality(Waiting("pop"))'
    BY <1>4, <2>1, <2>2, OneIsWoken
  <2>4. SizeOf(ring) <= Cardinality(Waiting("pop"))'
    <3>1. Cardinality(Waiting("pop"))' \in Nat
      BY WaitersFinite DEF Waiting
    <3> QED
      BY <2>2, <2>3, <3>1
  <2> QED
    BY <1>1, <1>2, <2>1, <2>4 DEF IInv, NoLostWakeup
<1> QED
  BY <1>5, <1>6 DEF SpuriousWake

LEMMA NextInv == IInv /\ [Next]_vars => IInv'
<1> SUFFICES ASSUME IInv, [Next]_vars
             PROVE  IInv'
  OBVIOUS
<1>1. ASSUME NEW t \in Producers, NEW v \in Values, Push(t, v)
      PROVE  IInv'
  BY <1>1, FinishPushKeeps, WaitToPushKeeps DEF Push
<1>2. ASSUME NEW t \in Producers, ResumePush(t)
      PROVE  IInv'
  <2>1. pval[t] \in Values /\ pc[t] = "push"
    BY <1>2 DEF ResumePush, IInv, TypeOK
  <2> QED
    BY <1>2, <2>1, FinishPushKeeps, WaitToPushKeeps DEF ResumePush
<1>3. ASSUME NEW t \in Consumers, Pop(t) \/ ResumePop(t)
      PROVE  IInv'
  BY <1>3, FinishPopKeeps, WaitToPopKeeps DEF Pop, ResumePop
<1>4. ASSUME NEW t \in Threads, SpuriousWake(t)
      PROVE  IInv'
  BY <1>4, SpuriousWakeKeeps
<1>5. CASE UNCHANGED vars
  BY <1>5 DEF vars, IInv, TypeOK, NoLostWakeup, Waiting
<1> QED
  BY <1>1, <1>2, <1>3, <1>4, <1>5 DEF Next, Produce, Consume

(* The types hold, and no thread that could go on is left asleep, however  *)
(* many producers and consumers there are and whoever takes the mutex      *)
(* first.                                                                  *)
THEOREM Invariance == Spec => []IInv
BY InitInv, NextInv, PTL DEF Spec

-----------------------------------------------------------------------------
(* The queue they share.                                                   *)

(* A push that returns has appended its element, a pop that returns has    *)
(* taken the oldest.                                                       *)
LEMMA CallsAreFifo ==
  ASSUME IInv
  PROVE  /\ \A t \in Producers, v \in Values : FinishPush(t, v) =>
              Contents(ring') = Append(Contents(ring), v) /\ Fifo!Push(v)
         /\ \A t \in Consumers : FinishPop(t) => Fifo!Pop
<1>1. ring \in Rings
  BY DEF IInv, TypeOK, Rings, Elements
<1>2. ASSUME NEW t \in Producers, NEW v \in Values, FinishPush(t, v)
      PROVE  Contents(ring') = Append(Contents(ring), v) /\ Fifo!Push(v)
  <2>1. Contents(ring') = Append(Contents(ring), v)
    BY <1>1, <1>2, PushAppends DEF FinishPush
  <2>2. Len(Contents(ring)) < Capacity
    BY <1>1, <1>2, SizeOfRing, ContentsAreSeq, CapacityAssumption DEF FinishPush
  <2> QED
    BY <1>2, <2>1, <2>2 DEF FinishPush, Fifo!Push
<1>3. ASSUME NEW t \in Consumers, FinishPop(t)
      PROVE  Fifo!Pop
  BY <1>1, <1>3, PopTakesHead DEF FinishPop, Fifo!Pop
<1> QED
  BY <1>2, <1>3

(* A producer that slept puts its element in before it returns: the queue  *)
(* may be full again when it has the mutex back, and it looks again.       *)
THEOREM WaitersEnter == Spec => WaitingPushEnters
<1> DEFINE Enters == \A t \in Producers : pc[t] = "push" /\ pc'[t] = "idle" =>
                       Contents(ring') = Append(Contents(ring), pval[t])
<1>1. IInv /\ [Next]_vars => [Enters]_vars
  <2> SUFFICES ASSUME IInv, Next, NEW t \in Producers, pc[t] = "push", pc'[t] = "idle"
               PROVE  Contents(ring') = Append(Contents(ring), pval[t])
    OBVIOUS
  <2>1. TypeOK /\ t \in Threads /\ t \notin Consumers
    BY MutexAssumption DEF IInv, Threads
  <2>2. ASSUME NEW u \in Threads \ {t}, pc[u] \in {"idle", "push", "pop"},
               \/ NotifyOne("notFull", "push", u)
               \/ NotifyOne("notEmpty", "pop", u)
        PROVE  FALSE
    BY <2>1, <2>2, NotifiedTypes
  <2>3. ASSUME NEW u \in Producers \ {t}, NEW v, WaitToPush(u, v)
        PROVE  FALSE
    BY <2>1, <2>3 DEF WaitToPush, TypeOK
  <2>4. ASSUME NEW u \in Producers, NEW v \in Values, Push(u, v)
        PROVE  FALSE
    BY <2>1, <2>2, <2>3, <2>4 DEF Push, FinishPush, Threads
  <2>5. ASSUME NEW u \in Producers \ {t}, ResumePush(u)
        PROVE  FALSE
    BY <2>1, <2>2, <2>3, <2>5 DEF ResumePush, FinishPush, Threads
  <2>6. ASSUME NEW u \in Consumers, Pop(u) \/ ResumePop(u)
        PROVE  FALSE
    <3>1. u \in Threads \ {t} /\ pc[u] \in {"idle", "pop"}
      BY <2>1, <2>6 DEF Pop, ResumePop, Threads
    <3>2. ~ FinishPop(u)
      BY <2>2, <3>1 DEF FinishPop
    <3>3. ~ WaitToPop(u)
      BY <2>1, <3>1 DEF WaitToPop, TypeOK
    <3> QED
      BY <2>6, <3>2, <3>3 DEF Pop, ResumePop
  <2>7. ASSUME NEW u \in Threads, SpuriousWake(u)
        PROVE  FALSE
    BY <2>1, <2>7 DEF SpuriousWake, TypeOK
  <2>8. ResumePush(t)
    BY <2>4, <2>5, <2>6, <2>7 DEF Next, Produce, Consume
  <2>9. ~ WaitToPush(t, pval[t]) /\ pval[t] \in Values
    BY <2>1 DEF WaitToPush, TypeOK
  <2> QED
    BY <2>8, <2>9, CallsAreFifo DEF ResumePush
<1>2. Spec => [][Enters]_vars
  BY <1>1, Invariance, PTL DEF Spec
<1> QED
  BY <1>2 DEF WaitingPushEnters

LEMMA InitIsEmpty == Init => Fifo!Init
<1> SUFFICES ASSUME Init
             PROVE  Fifo!Init
  OBVIOUS
<1>1. ring \in Rings /\ IsEmpty(ring)
  BY CapacityAssumption DEF Init, NewRing, Rings, Positions, Elements, IsEmpty
<1>2. Contents(ring) = <<>>
  BY <1>1, SizeOfRing, ContentsAreSeq
<1> QED
  BY <1>2 DEF Init, Fifo!Init

LEMMA NextIsFifo == IInv /\ [Next]_vars => [Fifo!Next]_Fifo!vars
<1> SUFFICES ASSUME IInv, [Next]_vars
             PROVE  [Fifo!Next]_Fifo!vars
  OBVIOUS
<1>1. ASSUME UNCHANGED <<ring, out>>
      PROVE  UNCHANGED Fifo!vars
  BY <1>1 DEF Fifo!vars
<1>2. ASSUME NEW t \in Producers, NEW v \in Values, Push(t, v)
      PROVE  [Fifo!Next]_Fifo!vars
  BY <1>1, <1>2, CallsAreFifo DEF Push, WaitToPush, Fifo!Next
<1>3. ASSUME NEW t \in Producers, ResumePush(t)
      PROVE  [Fifo!Next]_Fifo!vars
  <2>1. pval[t] \in Values
    BY <1>3 DEF ResumePush, IInv, TypeOK
  <2> QED
    BY <1>1, <1>3, <2>1, CallsAreFifo DEF ResumePush, WaitToPush, Fifo!Next
<1>4. ASSUME NEW t \in Consumers, Pop(t) \/ ResumePop(t)
      PROVE  [Fifo!Next]_Fifo!vars
  BY <1>1, <1>4, CallsAreFifo DEF Pop, ResumePop, WaitToPop, Fifo!Next
<1>5. ASSUME NEW t \in Threads, SpuriousWake(t)
      PROVE  [Fifo!Next]_Fifo!vars
  BY <1>1, <1>5 DEF SpuriousWake
<1>6. CASE UNCHANGED vars
  BY <1>1, <1>6 DEF vars
<1> QED
  BY <1>2, <1>3, <1>4, <1>5, <1>6 DEF Next, Produce, Consume

(* Between any number of threads the queue is a bounded FIFO: nothing is   *)
(* lost, doubled or overtaken.                                             *)
THEOREM RefinesFifo == Spec => IsFifo
<1>1. Spec => Fifo!Init /\ [][Fifo!Next]_Fifo!vars
  BY InitIsEmpty, NextIsFifo, Invariance, PTL DEF Spec
<1> QED
  BY <1>1 DEF IsFifo, Fifo!Spec
=============================================================================
