------------------------- MODULE TradeEngine_proofs -------------------------
(* Proofs about TradeEngine, for every size of the ring and of a level, any *)
(* shift, any range of prices and quantities and any requests: the book    *)
(* agrees with itself at every moment, no bid reaches an offer, the        *)
(* assertions in the code hold, the window follows the market, fill-or-    *)
(* kill is all or nothing, all of it together is a matching book, and who  *)
(* reads the events of EventStream knows what rests in it.                 *)
(*                                                                         *)
(* The proof goes from the inside out: the quantity of a queue of orders,  *)
(* what the operations of a level make of a sound one, the ring and its    *)
(* window, the masks, then every action of the engine.  The second half    *)
(* looks at the book as MatchingBook does: its orders as units that can be *)
(* counted, the walk of _check_fok as a count of them, and each action as  *)
(* a step of the abstract book.  From there it follows what each step      *)
(* tells, and that the events on their way complete the reader's view.     *)
EXTENDS EventStream, FiniteSetTheorems, WellFoundedInduction, TLAPS

-----------------------------------------------------------------------------
(* Sets of naturals.                                                       *)

(* A set of naturals with an element has a least one.                      *)
LEMMA Least ==
  ASSUME NEW S \in SUBSET Nat, S # {}
  PROVE  \E m \in S : \A n \in S : m <= n
<1> DEFINE R == StrictSubsetOrdering(Nat)
           T == {0 .. m : m \in S}
<1>1. IsWellFoundedOn(R, FiniteSubsetsOf(Nat))
  BY FS_StrictSubsetOrderingWellFounded
<1>2. T \subseteq FiniteSubsetsOf(Nat) /\ T # {}
  <2>1. \A m \in S : IsFiniteSet(0 .. m) /\ 0 .. m \in SUBSET Nat
    BY FS_Interval
  <2>2. T \subseteq FiniteSubsetsOf(Nat)
    BY <2>1 DEF FiniteSubsetsOf
  <2> QED
    BY <2>2
<1>3. \E x \in T : \A y \in T : ~ (<<y, x>> \in R)
  <2> HIDE DEF R, T
  <2> QED
    BY <1>1, <1>2, WFMin
<1>4. PICK m \in S : \A n \in S : ~ (<<0 .. n, 0 .. m>> \in R)
  <2> HIDE DEF R
  <2> QED
    BY <1>3
<1>5. ASSUME NEW n \in S, n < m
      PROVE  FALSE
  <2>1. 0 .. n \in SUBSET Nat /\ 0 .. m \in SUBSET Nat /\ 0 .. n \subseteq 0 .. m /\ 0 .. n # 0 .. m
    BY <1>5
  <2>2. <<0 .. n, 0 .. m>> \in R
    BY <2>1 DEF StrictSubsetOrdering
  <2> QED
    BY <1>4, <2>2
<1> HIDE DEF R, T
<1> QED
  BY <1>5

(* Induction up to n, for a set instead of a predicate.                    *)
LEMMA UpTo ==
  ASSUME NEW n \in Nat, NEW S, 0 \in S, \A k \in 0 .. n - 1 : k \in S => k + 1 \in S
  PROVE  \A k \in 0 .. n : k \in S
<1> SUFFICES ASSUME (0 .. n) \ S # {}
             PROVE  FALSE
  OBVIOUS
<1>1. PICK m \in (0 .. n) \ S : \A k \in (0 .. n) \ S : m <= k
  <2>1. (0 .. n) \ S \in SUBSET Nat
    OBVIOUS
  <2> QED
    BY <2>1, Least
<1>2. m - 1 \in 0 .. n - 1 /\ m - 1 \in S
  BY <1>1
<1> QED
  BY <1>1, <1>2

-----------------------------------------------------------------------------
(* The quantity of a queue.                                                *)

Sums(f, q) ==
  /\ f \in [0 .. Len(q) -> Nat]
  /\ f[0] = 0 /\ \A k \in 1 .. Len(q) : f[k] = f[k - 1] + q[k].qty

HasQty(q) == Len(q) \in Nat /\ \A k \in 1 .. Len(q) : q[k].qty \in Nat

(* Every queue has its partial sums, and only one function is that.        *)
LEMMA SumsExist ==
  ASSUME NEW q, HasQty(q)
  PROVE  \E f : Sums(f, q)
<1> DEFINE Partial(f, n) == /\ f \in [0 .. n -> Nat]
                            /\ f[0] = 0 /\ \A k \in 1 .. n : f[k] = f[k - 1] + q[k].qty
           S == {n \in Nat : \E f : Partial(f, n)}
<1>1. 0 \in S
  <2>1. Partial([k \in 0 .. 0 |-> 0], 0)
    OBVIOUS
  <2> QED
    BY <2>1
<1>2. ASSUME NEW n \in 0 .. Len(q) - 1, n \in S
      PROVE  n + 1 \in S
  <2>1. PICK f : Partial(f, n)
    BY <1>2
  <2> DEFINE g == [k \in 0 .. n + 1 |-> IF k = n + 1 THEN f[n] + q[n + 1].qty ELSE f[k]]
  <2>2. n + 1 \in 1 .. Len(q) /\ n \in 0 .. n /\ n \in Nat
    BY DEF HasQty
  <2>3. g \in [0 .. n + 1 -> Nat]
    BY <2>1, <2>2 DEF HasQty
  <2>4. g[0] = 0
    BY <2>1, <2>2
  <2>5. ASSUME NEW k \in 1 .. n + 1
        PROVE  g[k] = g[k - 1] + q[k].qty
    <3>1. CASE k = n + 1
      BY <2>1, <2>2, <3>1
    <3>2. CASE k # n + 1
      <4>1. k \in 1 .. n /\ k - 1 \in 0 .. n + 1 /\ k - 1 # n + 1 /\ k \in 0 .. n + 1
        BY <2>2, <3>2
      <4>2. g[k] = f[k] /\ g[k - 1] = f[k - 1]
        BY <3>2, <4>1
      <4> QED
        BY <2>1, <4>1, <4>2
    <3> QED
      BY <3>1, <3>2
  <2>6. Partial(g, n + 1)
    <3> HIDE DEF g
    <3> QED
      BY <2>3, <2>4, <2>5
  <2>7. n + 1 \in Nat /\ \E h : Partial(h, n + 1)
    <3> HIDE DEF g, Partial
    <3> QED
      BY <2>2, <2>6
  <2> HIDE DEF g, Partial
  <2> QED
    BY <2>7
<1>3. Len(q) \in Nat /\ Len(q) \in 0 .. Len(q)
  BY DEF HasQty
<1>4. Len(q) \in S
  <2> HIDE DEF S
  <2> QED
    BY <1>1, <1>2, <1>3, UpTo
<1> QED
  BY <1>4 DEF Sums

(* There are no other partial sums of a queue.                             *)
LEMMA SumsUnique ==
  ASSUME NEW q, HasQty(q), NEW f, NEW g, Sums(f, q), Sums(g, q)
  PROVE  f = g
<1> DEFINE S == {k \in Nat : f[k] = g[k]}
<1>1. 0 \in S
  BY DEF Sums
<1>2. ASSUME NEW k \in 0 .. Len(q) - 1, k \in S
      PROVE  k + 1 \in S
  <2>1. k + 1 \in 1 .. Len(q) /\ (k + 1) - 1 = k
    BY DEF HasQty
  <2> QED
    BY <1>2, <2>1 DEF Sums
<1>3. \A k \in 0 .. Len(q) : k \in S
  <2> HIDE DEF S
  <2> QED
    BY <1>1, <1>2, UpTo DEF HasQty
<1> QED
  BY <1>3 DEF Sums

(* The quantity of a queue is the last of its partial sums.                *)
LEMMA QuantityIs ==
  ASSUME NEW q, HasQty(q), NEW f, Sums(f, q)
  PROVE  Quantity(q) = f[Len(q)] /\ f[Len(q)] \in Nat
<1> DEFINE IsUpTo(h) == h = [k \in 0 .. Len(q) |-> IF k = 0 THEN 0 ELSE h[k - 1] + q[k].qty]
           u == CHOOSE h : IsUpTo(h)
<1>1. IsUpTo(f)
  BY DEF Sums, HasQty
<1>2. u = [k \in 0 .. Len(q) |-> IF k = 0 THEN 0 ELSE u[k - 1] + q[k].qty]
  BY <1>1, Zenon
<1>3. Quantity(q) = u[Len(q)]
  BY Zenon DEF Quantity
<1> HIDE DEF u
<1>4. Sums(u, q)
  <2> DEFINE S == {k \in Nat : u[k] \in Nat}
  <2>1. DOMAIN u = 0 .. Len(q) /\ u[0] = 0
    BY <1>2 DEF HasQty
  <2>2. \A k \in 1 .. Len(q) : u[k] = u[k - 1] + q[k].qty
    BY <1>2
  <2>3. \A k \in 0 .. Len(q) - 1 : k \in S => k + 1 \in S
    <3> SUFFICES ASSUME NEW k \in 0 .. Len(q) - 1, u[k] \in Nat
                 PROVE  u[k + 1] \in Nat /\ k + 1 \in Nat
      OBVIOUS
    <3>1. k + 1 \in 1 .. Len(q) /\ (k + 1) - 1 = k /\ k + 1 \in Nat
      BY DEF HasQty
    <3> QED
      BY <2>2, <3>1 DEF HasQty
  <2>4. 0 \in S
    BY <2>1
  <2>5. \A k \in 0 .. Len(q) : k \in S
    <3> HIDE DEF S
    <3> QED
      BY <2>3, <2>4, UpTo DEF HasQty
  <2>6. u = [k \in 0 .. Len(q) |-> u[k]]
    BY <1>2
  <2> QED
    BY <2>1, <2>2, <2>5, <2>6 DEF Sums
<1>5. u = f
  BY <1>4, SumsUnique
<1> QED
  BY <1>3, <1>5 DEF Sums, HasQty

AnyOrder == [slot : Slots, id : Nat, qty : Nat]

(* The orders of a queue have quantities.                                  *)
LEMMA QueueHasQty ==
  ASSUME NEW q \in Seq(AnyOrder)
  PROVE  HasQty(q) /\ Len(q) \in Nat /\ \A k \in 1 .. Len(q) : q[k] \in AnyOrder /\ q[k].qty \in Nat
<1>1. Len(q) \in Nat /\ \A k \in 1 .. Len(q) : q[k] \in AnyOrder
  OBVIOUS
<1>2. \A o \in AnyOrder : o.qty \in Nat
  BY DEF AnyOrder
<1> QED
  BY <1>1, <1>2 DEF HasQty

(* What the quantity is after each change of a queue.                      *)
LEMMA QuantityEmpty == Quantity(<<>>) = 0
<1>1. Sums([k \in 0 .. 0 |-> 0], <<>>) /\ HasQty(<<>>)
  BY DEF Sums, HasQty
<1> QED
  BY <1>1, QuantityIs

(* One more order adds its quantity.                                       *)
LEMMA QuantityAppend ==
  ASSUME NEW q \in Seq(AnyOrder), NEW o \in AnyOrder
  PROVE  Quantity(Append(q, o)) = Quantity(q) + o.qty
<1> DEFINE p == Append(q, o)
           n == Len(q)
<1>1. p \in Seq(AnyOrder) /\ Len(p) = n + 1 /\ n \in Nat /\ p[n + 1] = o /\ o.qty \in Nat
      /\ \A k \in 1 .. n : p[k] = q[k]
  BY DEF AnyOrder
<1>2. PICK f : Sums(f, q)
  BY SumsExist, QueueHasQty
<1> DEFINE g == [k \in 0 .. n + 1 |-> IF k = n + 1 THEN f[n] + o.qty ELSE f[k]]
<1>3. f \in [0 .. n -> Nat] /\ f[0] = 0 /\ \A k \in 1 .. n : f[k] = f[k - 1] + q[k].qty
  BY <1>2 DEF Sums
<1> HIDE DEF p, n
<1>4. Sums(g, p)
  <2>1. g \in [0 .. n + 1 -> Nat] /\ g[0] = 0
    BY <1>1, <1>3
  <2>2. ASSUME NEW k \in 1 .. n + 1
        PROVE  g[k] = g[k - 1] + p[k].qty
    <3>1. CASE k = n + 1
      <4>1. g[k] = f[n] + o.qty /\ g[k - 1] = f[n]
        BY <1>1, <1>3, <3>1
      <4> QED
        BY <1>1, <3>1, <4>1
    <3>2. CASE k # n + 1
      <4>1. k \in 1 .. n /\ k - 1 \in 0 .. n + 1 /\ k - 1 # n + 1 /\ k \in 0 .. n + 1
        BY <1>1, <3>2
      <4>2. g[k] = f[k] /\ g[k - 1] = f[k - 1] /\ p[k] = q[k]
        BY <1>1, <3>2, <4>1
      <4> QED
        BY <1>3, <4>1, <4>2
    <3> QED
      BY <3>1, <3>2
  <2> HIDE DEF g
  <2> QED
    BY <1>1, <2>1, <2>2 DEF Sums
<1>5. g[n + 1] = f[n] + o.qty
  BY <1>1
<1> HIDE DEF g
<1>6. Quantity(p) = g[n + 1] /\ Quantity(q) = f[n]
  <2>1. HasQty(p) /\ HasQty(q)
    BY <1>1, QueueHasQty
  <2>2. Quantity(q) = f[Len(q)]
    BY <1>2, <2>1, QuantityIs
  <2>3. Quantity(p) = g[Len(p)]
    BY <1>4, <2>1, QuantityIs
  <2> QED
    BY <1>1, <2>2, <2>3 DEF n
<1> QED
  BY <1>5, <1>6 DEF p

(* A changed order adds the difference.                                    *)
LEMMA QuantityChange ==
  ASSUME NEW q \in Seq(AnyOrder), NEW i \in 1 .. Len(q), NEW new \in Nat
  PROVE  Quantity([q EXCEPT ![i].qty = new]) = Quantity(q) - q[i].qty + new
<1> DEFINE p == [q EXCEPT ![i].qty = new]
           n == Len(q)
<1>1. p \in Seq(AnyOrder) /\ Len(p) = n /\ n \in Nat /\ p[i].qty = new /\ q[i].qty \in Nat
      /\ \A k \in 1 .. n : k # i => p[k] = q[k]
  <2>1. q[i] \in AnyOrder /\ q \in [1 .. n -> AnyOrder] /\ n \in Nat
    OBVIOUS
  <2>2. [q[i] EXCEPT !.qty = new] \in AnyOrder /\ [q[i] EXCEPT !.qty = new].qty = new /\ q[i].qty \in Nat
    BY <2>1 DEF AnyOrder
  <2>3. p = [q EXCEPT ![i] = [q[i] EXCEPT !.qty = new]]
    BY <2>1
  <2> HIDE DEF p
  <2>4. p \in [1 .. n -> AnyOrder] /\ p[i] = [q[i] EXCEPT !.qty = new]
        /\ \A k \in 1 .. n : k # i => p[k] = q[k]
    BY <2>1, <2>2, <2>3
  <2>5. p \in Seq(AnyOrder) /\ Len(p) = n
    BY <2>1, <2>4
  <2> QED
    BY <2>1, <2>2, <2>4, <2>5
<1>2. PICK f : Sums(f, q)
  BY SumsExist, QueueHasQty
<1>3. f \in [0 .. n -> Nat] /\ f[0] = 0 /\ \A k \in 1 .. n : f[k] = f[k - 1] + q[k].qty
  BY <1>2 DEF Sums
<1> DEFINE d == q[i].qty
<1> DEFINE g == [k \in 0 .. n |-> IF k < i THEN f[k] ELSE f[k] - d + new]
           S == {k \in Nat : k < i \/ f[k] >= d}
<1>4. i \in 1 .. n /\ i \in Nat
  OBVIOUS
<1>9. d \in Nat /\ q[i].qty = d
  BY <1>1
<1> HIDE DEF p, n, d
<1>5. \A k \in 0 .. n : k \in S
  <2>1. \A k \in 0 .. n - 1 : k \in S => k + 1 \in S
    <3> SUFFICES ASSUME NEW k \in 0 .. n - 1, k < i \/ f[k] >= d
                 PROVE  k + 1 < i \/ f[k + 1] >= d
      BY <1>9, <1>1
    <3>1. k + 1 \in 1 .. n /\ (k + 1) - 1 = k /\ k \in 0 .. n
      BY <1>9, <1>1
    <3>2. f[k + 1] = f[k] + q[k + 1].qty /\ f[k] \in Nat /\ q[k + 1].qty \in Nat
      BY <1>3, <3>1, QueueHasQty DEF n
    <3> QED
      BY <1>9, <1>1, <1>4, <3>2
  <2>2. 0 \in S
    BY <1>4
  <2> HIDE DEF S
  <2> QED
    BY <1>9, <1>1, <2>1, <2>2, UpTo
<1>6. Sums(g, p)
  <2>1. g \in [0 .. n -> Nat] /\ g[0] = 0
    <3>1. ASSUME NEW k \in 0 .. n
          PROVE  f[k] \in Nat /\ k \in Int /\ (k < i \/ f[k] - d + new \in Nat)
      <4>1. f[k] \in Nat /\ k \in Int /\ (k < i \/ f[k] >= d)
        <5> DEFINE m == n
        <5>0. f \in [0 .. m -> Nat] /\ m \in Nat /\ k \in 0 .. m
          BY <1>1, <1>3
        <5> HIDE DEF m
        <5>1. f[k] \in Nat /\ k \in Int
          BY <5>0
        <5>2. k \in S
          BY <1>5
        <5> QED
          BY <5>1, <5>2
      <4>2. \A a \in Nat : a >= d => a - d + new \in Nat
        BY <1>9
      <4> QED
        BY <4>1, <4>2
    <3>2. g \in [0 .. n -> Nat]
      BY <3>1
    <3>3. 0 \in 0 .. n /\ 0 < i
      BY <1>1, <1>4
    <3> QED
      BY <1>3, <3>2, <3>3
  <2>2. ASSUME NEW k \in 1 .. n
        PROVE  g[k] = g[k - 1] + p[k].qty
    <3>1. k - 1 \in 0 .. n /\ k \in 0 .. n /\ f[k] = f[k - 1] + q[k].qty
          /\ f[k] \in Nat /\ f[k - 1] \in Nat /\ q[k].qty \in Nat
      <4>1. k - 1 \in 0 .. n /\ k \in 0 .. n
        BY <1>9, <1>1
      <4> QED
        BY <1>3, <4>1, QueueHasQty DEF n
    <3>2. /\ g[k] = IF k < i THEN f[k] ELSE f[k] - d + new
          /\ g[k - 1] = IF k - 1 < i THEN f[k - 1] ELSE f[k - 1] - d + new
      BY <3>1
    <3> HIDE DEF g
    <3>3. CASE k = i
      <4>1. g[k] = f[k] - d + new /\ g[k - 1] = f[k - 1] /\ p[k].qty = new /\ q[k].qty = d
        BY <1>9, <1>1, <1>4, <3>2, <3>3
      <4>2. \A a, b \in Nat : a = b + d => a - d + new = b + new
        BY <1>9
      <4>3. f[k] - d + new = f[k - 1] + new
        BY <3>1, <4>1, <4>2
      <4> QED
        BY <4>1, <4>3
    <3>4. CASE k # i
      <4>1. p[k].qty = q[k].qty
        BY <1>1, <3>4
      <4>2. (g[k] = f[k] /\ g[k - 1] = f[k - 1]) \/ (g[k] = f[k] - d + new /\ g[k - 1] = f[k - 1] - d + new)
        BY <1>1, <1>4, <3>2, <3>4
      <4>3. \A a, b, c \in Nat : a = b + c => a - d + new = (b - d + new) + c
        BY <1>9
      <4>4. f[k] - d + new = (f[k - 1] - d + new) + q[k].qty
        BY <3>1, <4>3
      <4> QED
        BY <3>1, <4>1, <4>2, <4>4
    <3> QED
      BY <3>3, <3>4
  <2> HIDE DEF g
  <2> QED
    BY <1>9, <1>1, <2>1, <2>2 DEF Sums
<1>7. g[n] = f[n] - d + new
  BY <1>9, <1>1, <1>4
<1> HIDE DEF g
<1>8. Quantity(p) = g[n] /\ Quantity(q) = f[n]
  BY <1>9, <1>1, <1>2, <1>6, QueueHasQty, QuantityIs DEF n
<1> QED
  BY <1>7, <1>8 DEF p, d

Without(q, i) == SubSeq(q, 1, i - 1) \o SubSeq(q, i + 1, Len(q))

(* A queue without its i-th order.                                         *)
LEMMA WithoutIs ==
  ASSUME NEW A, NEW q \in Seq(A), NEW i \in 1 .. Len(q)
  PROVE  /\ Without(q, i) \in Seq(A) /\ Len(Without(q, i)) = Len(q) - 1
         /\ \A k \in 1 .. Len(q) - 1 : Without(q, i)[k] = IF k < i THEN q[k] ELSE q[k + 1]
<1> DEFINE a == SubSeq(q, 1, i - 1)
           b == SubSeq(q, i + 1, Len(q))
<1>1. a \in Seq(A) /\ Len(a) = i - 1 /\ \A k \in 1 .. i - 1 : a[k] = q[k]
  OBVIOUS
<1>2. b \in Seq(A) /\ Len(b) = Len(q) - i /\ \A k \in 1 .. Len(q) - i : b[k] = q[i + k]
  OBVIOUS
<1>3. Len(q) \in Nat /\ i \in Nat
  OBVIOUS
<1>4. Without(q, i) = a \o b
  BY DEF Without
<1> HIDE DEF a, b
<1>5. a \o b \in Seq(A) /\ Len(a \o b) = Len(a) + Len(b)
  <2>1. a \in Seq(A) /\ b \in Seq(A)
    BY <1>1, <1>2
  <2> QED
    BY <2>1
<1>6. ASSUME NEW k \in 1 .. Len(q) - 1
      PROVE  (a \o b)[k] = IF k < i THEN q[k] ELSE q[k + 1]
  <2>1. CASE k < i
    <3>1. k \in 1 .. i - 1 /\ k \in 1 .. Len(a) + Len(b) /\ k <= Len(a)
      BY <1>1, <1>2, <1>3, <2>1
    <3>2. (a \o b)[k] = a[k]
      BY <1>1, <1>2, <3>1
    <3> QED
      BY <1>1, <2>1, <3>1, <3>2
  <2>2. CASE ~ (k < i)
    <3>1. k - (i - 1) \in 1 .. Len(q) - i /\ k \in 1 .. Len(a) + Len(b) /\ ~ (k <= Len(a)) /\ i + (k - (i - 1)) = k + 1
      BY <1>1, <1>2, <1>3, <2>2
    <3>2. (a \o b)[k] = b[k - (i - 1)]
      BY <1>1, <1>2, <3>1
    <3>3. b[k - (i - 1)] = q[k + 1]
      BY <1>2, <3>1
    <3> QED
      BY <2>2, <3>2, <3>3
  <2> QED
    BY <2>1, <2>2
<1>7. Len(a \o b) = Len(q) - 1
  BY <1>1, <1>2, <1>3, <1>5
<1> QED
  BY <1>4, <1>5, <1>6, <1>7

(* An order taken out takes its quantity with it.                          *)
LEMMA QuantityWithout ==
  ASSUME NEW q \in Seq(AnyOrder), NEW i \in 1 .. Len(q)
  PROVE  Quantity(Without(q, i)) = Quantity(q) - q[i].qty
<1> DEFINE p == Without(q, i)
           n == Len(q)
<1>1. p \in Seq(AnyOrder) /\ Len(p) = n - 1 /\ n \in Nat \ {0} /\ i \in 1 .. n /\ q[i].qty \in Nat
      /\ \A k \in 1 .. n - 1 : p[k] = IF k < i THEN q[k] ELSE q[k + 1]
  <2>1. n \in Nat /\ i \in 1 .. n /\ q[i].qty \in Nat
    BY QueueHasQty
  <2> QED
    BY <2>1, WithoutIs
<1>2. PICK f : Sums(f, q)
  BY SumsExist, QueueHasQty
<1>3. f \in [0 .. n -> Nat] /\ f[0] = 0 /\ \A k \in 1 .. n : f[k] = f[k - 1] + q[k].qty
  BY <1>2 DEF Sums
<1> DEFINE d == q[i].qty
<1> DEFINE g == [k \in 0 .. n - 1 |-> IF k < i THEN f[k] ELSE f[k + 1] - d]
           S == {k \in Nat : k < i \/ f[k] >= d}
<1>9. d \in Nat /\ q[i].qty = d
  BY <1>1
<1> HIDE DEF p, n, d
<1>5. \A k \in 0 .. n : k \in S
  <2>1. ASSUME NEW k \in 0 .. n - 1, k \in S
        PROVE  k + 1 \in S
    <3>1. k + 1 \in 1 .. n /\ (k + 1) - 1 = k /\ k \in 0 .. n
      BY <1>9, <1>1
    <3>2. f[k + 1] = f[k] + q[k + 1].qty /\ f[k] \in Nat /\ q[k + 1].qty \in Nat
      BY <1>3, <3>1, QueueHasQty DEF n
    <3>3. i \in Nat /\ k \in Nat /\ f[k + 1] \in Nat /\ f[k + 1] >= f[k]
      BY <1>1, <3>1, <3>2
    <3>4. k < i \/ f[k] >= d
      BY <2>1
    <3>5. CASE k + 1 < i
      BY <3>3, <3>5
    <3>6. CASE k + 1 = i
      <4>1. f[k + 1] = f[k] + d
        BY <1>9, <3>2, <3>6
      <4> QED
        BY <1>9, <3>2, <3>3, <4>1
    <3>7. CASE k + 1 > i
      <4>1. f[k] >= d
        BY <3>3, <3>4, <3>7
      <4>2. f[k + 1] >= d
        BY <1>9, <3>2, <3>3, <4>1
      <4> QED
        BY <3>3, <4>2
    <3> QED
      BY <3>3, <3>5, <3>6, <3>7
  <2>2. 0 \in S
    BY <1>9, <1>1
  <2> HIDE DEF S
  <2> QED
    BY <1>9, <1>1, <2>1, <2>2, UpTo
<1>6. Sums(g, p)
  <2>1. g \in [0 .. n - 1 -> Nat] /\ g[0] = 0
    <3>1. ASSUME NEW k \in 0 .. n - 1
          PROVE  f[k] \in Nat /\ k \in Int /\ (k < i \/ f[k + 1] - d \in Nat)
      <4>1. k \in 0 .. n /\ k + 1 \in 0 .. n
        BY <1>1
      <4>2. f[k] \in Nat /\ f[k + 1] \in Nat /\ k \in Int
        BY <1>3, <4>1
      <4>3. k + 1 < i \/ f[k + 1] >= d
        BY <1>5, <4>1
      <4> QED
        BY <1>9, <1>1, <4>2, <4>3
    <3>2. g \in [0 .. n - 1 -> Nat]
      BY <3>1
    <3>3. 0 \in 0 .. n - 1 /\ 0 < i
      BY <1>1
    <3> QED
      BY <1>3, <3>2, <3>3
  <2>2. ASSUME NEW k \in 1 .. n - 1
        PROVE  g[k] = g[k - 1] + p[k].qty
    <3>1. k - 1 \in 0 .. n - 1 /\ k \in 0 .. n - 1 /\ k \in 1 .. n /\ k + 1 \in 1 .. n /\ (k + 1) - 1 = k
      BY <1>9, <1>1
    <3>2. /\ f[k] = f[k - 1] + q[k].qty /\ f[k + 1] = f[k] + q[k + 1].qty
          /\ f[k - 1] \in Nat /\ f[k] \in Nat /\ f[k + 1] \in Nat
          /\ q[k].qty \in Nat /\ q[k + 1].qty \in Nat
      <4>1. k - 1 \in 0 .. n /\ k \in 0 .. n /\ k + 1 \in 0 .. n
        BY <1>9, <1>1
      <4> QED
        BY <1>3, <3>1, <4>1, QueueHasQty DEF n
    <3>3. /\ g[k] = IF k < i THEN f[k] ELSE f[k + 1] - d
          /\ g[k - 1] = IF k - 1 < i THEN f[k - 1] ELSE f[k] - d
      BY <1>9, <1>1, <3>1
    <3> HIDE DEF g
    <3>4. CASE k < i
      <4>1. g[k] = f[k] /\ g[k - 1] = f[k - 1] /\ p[k].qty = q[k].qty
        BY <1>1, <3>3, <3>4
      <4> QED
        BY <3>2, <4>1
    <3>5. CASE k = i
      <4>1. g[k] = f[k + 1] - d /\ g[k - 1] = f[k - 1] /\ p[k].qty = q[k + 1].qty /\ q[k].qty = d
        BY <1>9, <1>1, <3>3, <3>5
      <4>2. f[k + 1] = (f[k - 1] + d) + q[k + 1].qty
        BY <3>2, <4>1
      <4>3. \A a, b, c \in Nat : a = (b + d) + c => a - d = b + c
        BY <1>9
      <4>4. f[k + 1] - d = f[k - 1] + q[k + 1].qty
        BY <3>2, <4>2, <4>3
      <4> QED
        BY <4>1, <4>4
    <3>6. CASE k > i
      <4>1. g[k] = f[k + 1] - d /\ g[k - 1] = f[k] - d /\ p[k].qty = q[k + 1].qty
        BY <1>1, <3>3, <3>6
      <4>2. f[k + 1] - d = (f[k] - d) + q[k + 1].qty
        <5>1. \A a, b, c \in Nat : a = b + c => a - d = (b - d) + c
          BY <1>9
        <5> QED
          BY <3>2, <5>1
      <4> QED
        BY <4>1, <4>2
    <3> QED
      BY <1>1, <3>4, <3>5, <3>6
  <2> HIDE DEF g
  <2> QED
    BY <1>9, <1>1, <2>1, <2>2 DEF Sums
<1>7. g[n - 1] = f[n] - d
  <2>1. n - 1 \in 0 .. n - 1 /\ (n - 1) + 1 = n
    BY <1>9, <1>1
  <2>2. CASE i = n
    BY <1>9, <1>1, <1>3, <2>1, <2>2
  <2>3. CASE i # n
    BY <1>9, <1>1, <2>1, <2>3
  <2> QED
    BY <2>2, <2>3
<1> HIDE DEF g
<1>8. Quantity(p) = g[n - 1] /\ Quantity(q) = f[n]
  BY <1>9, <1>1, <1>2, <1>6, QueueHasQty, QuantityIs DEF n
<1> QED
  BY <1>7, <1>8 DEF p, d

(* The tail of a queue is the queue without its first order.               *)
LEMMA TailIsWithout ==
  ASSUME NEW A, NEW q \in Seq(A), q # <<>>
  PROVE  Tail(q) = Without(q, 1)
<1>1. 1 \in 1 .. Len(q) /\ Len(q) \in Nat
  OBVIOUS
<1>2. Len(Tail(q)) = Len(q) - 1 /\ Tail(q) \in Seq(A)
      /\ \A k \in 1 .. Len(q) - 1 : Tail(q)[k] = q[k + 1]
  OBVIOUS
<1>3. PICK w : w = Without(q, 1)
  OBVIOUS
<1>4. Len(w) = Len(q) - 1 /\ w \in Seq(A) /\ \A k \in 1 .. Len(q) - 1 : w[k] = q[k + 1]
  BY <1>1, <1>3, WithoutIs
<1>5. Tail(q) = w
  BY <1>1, <1>2, <1>4
<1> QED
  BY <1>3, <1>5

(* Every order counts: between one and most for each.                      *)
LEMMA QuantityBounds ==
  ASSUME NEW q \in Seq(AnyOrder), NEW most \in Nat,
         \A k \in 1 .. Len(q) : q[k].qty \in 1 .. most
  PROVE  /\ Quantity(q) \in Nat
         /\ Quantity(q) >= Len(q) /\ Quantity(q) <= Len(q) * most
         /\ \A k \in 1 .. Len(q) : Quantity(q) >= q[k].qty
<1> DEFINE n == Len(q)
<1>1. n \in Nat /\ HasQty(q)
  BY QueueHasQty
<1>2. PICK f : Sums(f, q)
  BY <1>1, SumsExist
<1>3. f \in [0 .. n -> Nat] /\ f[0] = 0 /\ \A k \in 1 .. n : f[k] = f[k - 1] + q[k].qty
  BY <1>2 DEF Sums
<1> DEFINE S == {k \in Nat : f[k] >= k /\ f[k] <= k * most}
           U(i) == {k \in Nat : k < i \/ f[k] >= q[i].qty}
<1>4. \A k \in 1 .. n : q[k].qty \in 1 .. most
  OBVIOUS
<1> HIDE DEF n
<1>5. ASSUME NEW k \in 0 .. n - 1
      PROVE  f[k + 1] = f[k] + q[k + 1].qty /\ f[k] \in Nat /\ q[k + 1].qty \in 1 .. most
             /\ k \in Nat /\ k + 1 \in Nat
  <2>1. k + 1 \in 1 .. n /\ (k + 1) - 1 = k /\ k \in 0 .. n /\ k \in Nat
    BY <1>1
  <2>2. k + 1 \in Nat /\ q[k + 1].qty \in 1 .. most
    BY <1>4, <2>1
  <2>3. f[k] \in Nat /\ f[k + 1] = f[k] + q[k + 1].qty
    BY <1>3, <2>1
  <2> QED
    BY <2>1, <2>2, <2>3
<1>6. \A k \in 0 .. n : k \in S
  <2>1. 0 \in S
    BY <1>3
  <2>2. ASSUME NEW k \in 0 .. n - 1, k \in S
        PROVE  k + 1 \in S
    <3>1. (k + 1) * most = k * most + most /\ k * most \in Nat
      BY <1>5
    <3> QED
      BY <1>5, <2>2, <3>1
  <2> HIDE DEF S
  <2> QED
    BY <1>1, <2>1, <2>2, UpTo
<1>7. ASSUME NEW i \in 1 .. n
      PROVE  \A k \in 0 .. n : k \in U(i)
  <2>1. 0 \in U(i)
    OBVIOUS
  <2>2. ASSUME NEW k \in 0 .. n - 1, k \in U(i)
        PROVE  k + 1 \in U(i)
    <3>1. q[i].qty \in Nat /\ i \in Nat
      BY <1>1, <1>4
    <3>2. CASE k + 1 = i
      <4>1. f[k + 1] >= q[k + 1].qty
        BY <1>5
      <4>2. f[k + 1] >= q[i].qty
        BY <3>2, <4>1
      <4> QED
        BY <1>5, <4>2
    <3>3. CASE k + 1 # i
      <4>1. k + 1 < i \/ f[k] >= q[i].qty
        BY <1>5, <2>2, <3>1, <3>3
      <4>2. f[k] \in Nat /\ f[k + 1] \in Nat /\ f[k + 1] >= f[k]
        <5>1. q[k + 1].qty \in Nat /\ f[k] \in Nat /\ f[k + 1] = f[k] + q[k + 1].qty
          BY <1>5
        <5> QED
          BY <5>1
      <4>3. k + 1 < i \/ f[k + 1] >= q[i].qty
        BY <3>1, <4>1, <4>2
      <4> QED
        BY <1>5, <4>3
    <3> QED
      BY <3>2, <3>3
  <2> HIDE DEF U
  <2> QED
    BY <1>1, <2>1, <2>2, UpTo
<1>8. Quantity(q) = f[n]
  BY <1>1, <1>2, QuantityIs DEF n
<1>9. n \in 0 .. n /\ \A i \in 1 .. n : f[n] >= q[i].qty
  BY <1>1, <1>7
<1> QED
  BY <1>3, <1>6, <1>8, <1>9 DEF n

-----------------------------------------------------------------------------
(* One level.                                                              *)

RestingOrders == [slot : Slots, id : Ids, qty : 1 .. MaxQty]
LevelType == [total : Int, fifo : Seq(RestingOrders)]
Good(level) == level \in LevelType /\ LevelSound(level)

(* What is assumed of the constants.                                       *)
LEMMA Constants ==
  /\ MaxOrders \in Nat \ {0} /\ MaxOrders % 3 # 0
  /\ MinQty \in Nat \ {0} /\ MaxQty \in Nat \ {0} /\ MinQty <= MaxQty
  /\ Ids \subseteq Nat \ {0}
  /\ Size \in Nat \ {0, 1} /\ Shift \in Nat \ {0}
  /\ MinPrice \in Nat \ {0} /\ MaxPrice \in Nat \ {0} /\ CenterPrice \in Nat \ {0}
  /\ MinPrice <= CenterPrice /\ CenterPrice <= MaxPrice
BY TradeEngineAssumption, OrderBookAssumption, MaxOrdersAssumption

(* The two sides are numbers and each the opposite of the other.           *)
LEMMA NamesOfSides ==
  /\ Sell \in Sides /\ Buy \in Sides /\ Sell # Buy /\ Sell = -1 /\ Buy = 1
  /\ Opposite(Sell) = Buy /\ Opposite(Buy) = Sell
  /\ \A side \in Sides : side = Sell \/ side = Buy
  /\ \A side \in Sides : side \in Int /\ Opposite(side) \in Sides
BY DEF Sides, Sell, Buy, Opposite

(* The orders that may rest at a level.                                    *)
LEMMA OrdersHaveQty ==
  ASSUME NEW q \in Seq(RestingOrders)
  PROVE  /\ Len(q) \in Nat /\ q \in Seq(AnyOrder)
         /\ \A i \in 1 .. Len(q) : /\ q[i] \in RestingOrders /\ q[i].qty \in 1 .. MaxQty
                                   /\ q[i].slot \in Slots /\ q[i].id \in Ids
<1>1. Len(q) \in Nat /\ \A i \in 1 .. Len(q) : q[i] \in RestingOrders
  OBVIOUS
<1>2. \A o \in RestingOrders : o.qty \in 1 .. MaxQty /\ o.slot \in Slots /\ o.id \in Ids /\ o \in AnyOrder
  <2> SUFFICES ASSUME NEW o \in RestingOrders
               PROVE  o.qty \in 1 .. MaxQty /\ o.slot \in Slots /\ o.id \in Ids /\ o \in AnyOrder
    OBVIOUS
  <2>1. /\ o = [slot |-> o.slot, id |-> o.id, qty |-> o.qty]
        /\ o.qty \in 1 .. MaxQty /\ o.slot \in Slots /\ o.id \in Ids
    BY DEF RestingOrders
  <2>2. o.qty \in Nat /\ o.id \in Nat
    BY <2>1, Constants
  <2> QED
    BY <2>1, <2>2 DEF AnyOrder
<1>3. q \in Seq(AnyOrder)
  BY <1>1, <1>2
<1> QED
  BY <1>1, <1>2, <1>3

(* Nothing but its orders makes a level a good one.                        *)
LEMMA MakeGood ==
  ASSUME NEW q \in Seq(RestingOrders), Len(q) <= MaxOrders,
         \A i, j \in 1 .. Len(q) : q[i].slot = q[j].slot => i = j,
         NEW t, \E s \in Sides : t = s * Quantity(q)
  PROVE  /\ Good([total |-> t, fifo |-> q])
         /\ Quantity(q) \in Nat /\ (Quantity(q) = 0 <=> q = <<>>)
         /\ \A i \in 1 .. Len(q) : Quantity(q) >= q[i].qty
<1>1. /\ Quantity(q) \in Nat
      /\ Quantity(q) >= Len(q) /\ Quantity(q) <= Len(q) * MaxQty
      /\ \A k \in 1 .. Len(q) : Quantity(q) >= q[k].qty
  <2>1. q \in Seq(AnyOrder) /\ MaxQty \in Nat /\ \A k \in 1 .. Len(q) : q[k].qty \in 1 .. MaxQty
    BY OrdersHaveQty, Constants
  <2> QED
    BY <2>1, QuantityBounds
<1>2. Len(q) * MaxQty <= MaxOrders * MaxQty /\ MaxOrders * MaxQty \in Nat
  <2>1. \A a, b, c \in Nat : a <= b => a * c <= b * c /\ b * c \in Nat
    OBVIOUS
  <2>2. Len(q) \in Nat
    OBVIOUS
  <2> QED
    BY <2>1, <2>2, Constants
<1>3. Quantity(q) <= MaxOrders * MaxQty
  <2>1. Len(q) * MaxQty \in Nat
    BY Constants
  <2> QED
    BY <1>1, <1>2, <2>1
<1>4. t \in Int
  BY <1>1, NamesOfSides
<1>6. Quantity(q) = 0 <=> q = <<>>
  <2>1. q = <<>> => Quantity(q) = 0
    BY QuantityEmpty
  <2>2. Quantity(q) = 0 => Len(q) = 0
    BY <1>1
  <2> QED
    BY <2>1, <2>2
<1> QED
  BY <1>1, <1>3, <1>4, <1>6 DEF Good, LevelType, LevelSound, Indices

(* What is known of a good level.                                          *)
LEMMA OfGood ==
  ASSUME NEW level, Good(level)
  PROVE  /\ level = [total |-> level.total, fifo |-> level.fifo]
         /\ level.total \in Int /\ level.fifo \in Seq(RestingOrders) /\ Len(level.fifo) <= MaxOrders
         /\ Len(level.fifo) \in Nat /\ Indices(level) = 1 .. Len(level.fifo)
         /\ \A i, j \in 1 .. Len(level.fifo) : level.fifo[i].slot = level.fifo[j].slot => i = j
         /\ Quantity(level.fifo) \in Nat /\ \E s \in Sides : level.total = s * Quantity(level.fifo)
         /\ (level.total = 0 <=> level.fifo = <<>>)
         /\ \A i \in 1 .. Len(level.fifo) :
              /\ Quantity(level.fifo) >= level.fifo[i].qty /\ level.fifo[i] \in RestingOrders
              /\ level.fifo[i].qty \in 1 .. MaxQty
<1> DEFINE q == level.fifo
           t == level.total
<1>1. /\ t \in Int /\ q \in Seq(RestingOrders) /\ level = [total |-> t, fifo |-> q]
      /\ Len(q) <= MaxOrders /\ Indices(level) = 1 .. Len(q) /\ Len(q) \in Nat
      /\ \A i, j \in 1 .. Len(q) : q[i].slot = q[j].slot => i = j
  BY DEF Good, LevelType, LevelSound, Indices
<1>2. \E s \in Sides : t = s * Quantity(q)
  BY DEF Good, LevelSound
<1> HIDE DEF q, t
<1>3. /\ Quantity(q) \in Nat /\ (Quantity(q) = 0 <=> q = <<>>)
      /\ \A i \in 1 .. Len(q) : Quantity(q) >= q[i].qty
  BY <1>1, <1>2, MakeGood
<1>4. t = 0 <=> q = <<>>
  <2>1. PICK s \in Sides : t = s * Quantity(q)
    BY <1>2
  <2>2. CASE s = Sell
    BY <1>3, <2>1, <2>2, NamesOfSides
  <2>3. CASE s = Buy
    BY <1>3, <2>1, <2>3, NamesOfSides
  <2> QED
    BY <2>2, <2>3, NamesOfSides
<1>5. \A i \in 1 .. Len(q) : q[i] \in RestingOrders /\ q[i].qty \in 1 .. MaxQty
  BY <1>1, OrdersHaveQty
<1> QED
  BY <1>1, <1>2, <1>3, <1>4, <1>5 DEF q, t

(* A new level is a good one, and the only one with nothing in it.         *)
LEMMA NewIsGood == Good(NewLevel)
<1> DEFINE q == <<>>
<1>1. /\ q \in Seq(RestingOrders) /\ Len(q) <= MaxOrders /\ \E s \in Sides : 0 = s * Quantity(q)
      /\ \A i, j \in 1 .. Len(q) : q[i].slot = q[j].slot => i = j
  BY QuantityEmpty, Constants, NamesOfSides
<1> HIDE DEF q
<1>2. Good([total |-> 0, fifo |-> q])
  BY <1>1, MakeGood
<1> QED
  BY <1>2 DEF NewLevel, q

(* A new level has no quantity.                                            *)
LEMMA NewIsEmpty == NewLevel.total = 0
BY DEF NewLevel

(* A level whose total is zero has no orders.                              *)
LEMMA EmptyIsNew ==
  ASSUME NEW level, Good(level), level.total = 0
  PROVE  level = NewLevel
BY OfGood DEF NewLevel

-----------------------------------------------------------------------------
(* Slots: the probe finds one of any set of them.                          *)
LEMMA ProbesAll ==
  ASSUME NEW id \in Nat, NEW s \in Slots
  PROVE  \E k \in Slots : ProbeSlot(id, k) = s
<1> DEFINE M == MaxOrders
           f == [k \in Slots |-> ProbeSlot(id, k)]
<1>1. \A x \in Nat : /\ x % M \in 0 .. M - 1
                     /\ x \div M \in Int /\ x = M * (x \div M) + (x % M)
  BY Constants
<1>2. f \in [Slots -> Slots]
  BY <1>1, Constants DEF ProbeSlot, Slots
<1>3. ASSUME NEW i \in Slots, NEW j \in Slots, i < j, f[i] = f[j]
      PROVE  FALSE
  <2>1. (id + 3 * i) \in Nat /\ (id + 3 * j) \in Nat /\ M \in Nat \ {0}
    BY Constants DEF Slots
  <2>2. (id + 3 * i) % M = (id + 3 * j) % M
    BY <1>3 DEF ProbeSlot
  <2>3. PICK a \in Int, b \in Int : 3 * (j - i) = M * b - M * a
    <3> DEFINE x == id + 3 * i
               y == id + 3 * j
               a == x \div M
               b == y \div M
    <3>1. /\ x \in Nat /\ y \in Nat /\ x % M = y % M
          /\ y - x = 3 * (j - i)
      BY <2>1, <2>2 DEF Slots
    <3> HIDE DEF x, y
    <3>2. /\ a \in Int /\ b \in Int /\ x = M * a + (x % M) /\ y = M * b + (y % M)
          /\ x % M \in Int
      BY <1>1, <3>1
    <3> HIDE DEF a, b
    <3>3. M * a \in Int /\ M * b \in Int /\ x \in Int /\ y \in Int
      BY <2>1, <3>1, <3>2
    <3> HIDE DEF M
    <3> QED
      BY <3>1, <3>2, <3>3
  <2>4. PICK e \in Int : e = b - a /\ 3 * (j - i) = M * e
    BY <2>1, <2>3
  <2>5. j - i \in 1 .. M - 1
    BY <1>3, <2>1 DEF Slots
  <2> HIDE DEF M
  <2>6. e \in 1 .. 2
    <3>1. e <= 0 => M * e <= 0
      BY <2>1
    <3>2. e >= 3 => M * e >= 3 * M
      BY <2>1
    <3> QED
      BY <2>1, <2>4, <2>5, <3>1, <3>2
  <2>7. M % 3 # 0
    BY Constants DEF M
  <2>8. CASE e = 1
    BY <2>1, <2>4, <2>5, <2>7, <2>8
  <2>9. CASE e = 2
    <3>1. M = 3 * (M - (j - i))
      BY <2>1, <2>4, <2>5, <2>9
    <3>2. M - (j - i) \in Int
      BY <2>1, <2>5
    <3> QED
      BY <2>1, <2>7, <3>1, <3>2
  <2> QED
    BY <2>6, <2>8, <2>9
<1>4. f \in Injection(Slots, Slots)
  <2>1. \A i, j \in Slots : f[i] = f[j] => i = j
    <3> SUFFICES ASSUME NEW i \in Slots, NEW j \in Slots, f[i] = f[j], i # j
                 PROVE  FALSE
      OBVIOUS
    <3>1. i < j \/ j < i
      BY Constants DEF Slots
    <3> HIDE DEF f
    <3> QED
      BY <1>3, <3>1
  <2> HIDE DEF f
  <2> QED
    BY <1>2, <2>1 DEF Injection, IsInjective
<1>5. IsFiniteSet(Slots)
  BY FS_Interval, Constants DEF Slots
<1>6. f \in Surjection(Slots, Slots)
  <2> HIDE DEF f
  <2> QED
    BY <1>4, <1>5, FS_Injection
<1> QED
  BY <1>6 DEF Surjection

(* The slot found by probing is one of those looked for.                   *)
LEMMA ProbeFinds ==
  ASSUME NEW id \in Nat, NEW S \in SUBSET Slots, S # {}
  PROVE  FirstProbed(id, S) \in S
<1> DEFINE T == {k \in Slots : ProbeSlot(id, k) \in S}
<1>1. T # {} /\ T \in SUBSET Nat
  <2>1. Slots \in SUBSET Nat
    BY Constants DEF Slots
  <2>2. PICK s \in Slots : s \in S
    OBVIOUS
  <2>3. \E k \in Slots : ProbeSlot(id, k) = s
    BY ProbesAll
  <2> QED
    BY <2>1, <2>2, <2>3
<1>2. PICK m \in T : \A n \in T : m <= n
  <2> HIDE DEF T
  <2> QED
    BY <1>1, Least
<1>3. m \in Slots /\ ProbeSlot(id, m) \in S /\ \A j \in Slots : j < m => ProbeSlot(id, j) \notin S
  BY <1>2, Constants DEF Slots
<1> QED
  BY <1>3 DEF FirstProbed

(* A level that is not full has a free slot, and a new order gets one.     *)
LEMMA PushSlotIsFree ==
  ASSUME NEW level, Good(level), ~ Full(level), NEW id \in Ids
  PROVE  PushSlot(level, id) \in FreeSlots(level)
<1> DEFINE n == Len(level.fifo)
           f == [i \in 1 .. n |-> level.fifo[i].slot]
           taken == {level.fifo[i].slot : i \in 1 .. n}
<1>1. n \in Nat /\ n < MaxOrders /\ Indices(level) = 1 .. n
  BY OfGood, Constants DEF Full
<1>2. IsFiniteSet(taken) /\ Cardinality(taken) <= n
  <2>1. IsFiniteSet(1 .. n) /\ Cardinality(1 .. n) = n
    BY <1>1, FS_Interval
  <2>2. f \in Surjection(1 .. n, taken)
    BY DEF Surjection
  <2> HIDE DEF f, taken, n
  <2> QED
    BY <2>1, <2>2, FS_Surjection
<1>3. IsFiniteSet(Slots) /\ Cardinality(Slots) = MaxOrders
  BY FS_Interval, Constants DEF Slots
<1>4. FreeSlots(level) # {}
  <2>1. FreeSlots(level) = Slots \ taken
    BY <1>1 DEF FreeSlots
  <2>2. Slots \subseteq taken => Cardinality(Slots) <= Cardinality(taken)
    <3> HIDE DEF taken
    <3> QED
      BY <1>2, FS_Subset
  <2>3. Cardinality(taken) \in Nat
    <3> HIDE DEF taken
    <3> QED
      BY <1>2, FS_CardinalityType
  <2> HIDE DEF taken
  <2> QED
    BY <1>1, <1>2, <1>3, <2>1, <2>2, <2>3, Constants
<1>5. FreeSlots(level) \in SUBSET Slots /\ id \in Nat
  BY Constants DEF FreeSlots
<1> QED
  BY <1>4, <1>5, ProbeFinds DEF PushSlot

-----------------------------------------------------------------------------
(* What the operations on a level make of a good one.                      *)

(* A side is a sign.                                                       *)
LEMMA SideIsOne ==
  ASSUME NEW side \in Sides
  PROVE  /\ side \in {1, -1} /\ side \in Int
         /\ Opposite(side) \in Sides /\ Opposite(side) \in Int
         /\ side = 1 => Opposite(side) = -1
         /\ side = -1 => Opposite(side) = 1
BY NamesOfSides

(* Sums and differences of quantities of one side.                         *)
LEMMA SignedSum ==
  ASSUME NEW side \in Sides, NEW a \in Int, NEW b \in Int, NEW t, t = side * a + side * b
  PROVE  t = side * (a + b) /\ t \in Int
<1>1. CASE side = 1
  BY <1>1
<1>2. CASE side = -1
  BY <1>2
<1> QED
  BY <1>1, <1>2, SideIsOne

(* The same of a difference.                                               *)
LEMMA SignedDifference ==
  ASSUME NEW side \in Sides, NEW a \in Int, NEW b \in Int, NEW t, t = side * a - side * b
  PROVE  t = side * (a - b) /\ t \in Int
<1>1. CASE side = 1
  BY <1>1
<1>2. CASE side = -1
  BY <1>2
<1> QED
  BY <1>1, <1>2, SideIsOne

(* A taker of one side takes from what the other has.                      *)
LEMMA OtherSigned ==
  ASSUME NEW side \in Sides, NEW a \in Int, NEW b \in Int, NEW t, t = Opposite(side) * a + side * b
  PROVE  t = Opposite(side) * (a - b) /\ t \in Int
<1>1. CASE side = 1
  BY <1>1, SideIsOne
<1>2. CASE side = -1
  BY <1>2, SideIsOne
<1> QED
  BY <1>1, <1>2, SideIsOne

(* A sign applied twice.                                                   *)
LEMMA SignedIs ==
  ASSUME NEW side \in Sides, NEW a \in Int, NEW t, t = side * a
  PROVE  t \in Int /\ side * t = a
<1>1. CASE side = 1
  BY <1>1
<1>2. CASE side = -1
  BY <1>2
<1> QED
  BY <1>1, <1>2, SideIsOne

(* A quantity counted for one side, seen from either.                      *)
LEMMA SignsOf ==
  ASSUME NEW side \in Sides, NEW s \in Sides, NEW n \in Nat, NEW t, t = s * n
  PROVE  /\ t \in Int /\ side * t \in Int
         /\ side * t > 0 => t = side * n
         /\ side * t >= 0 => t = side * n
         /\ side * t < 0 => t = Opposite(side) * n
         /\ side * t # 0 => n > 0
<1>1. CASE side = 1 /\ s = 1
  BY <1>1, SideIsOne
<1>2. CASE side = 1 /\ s = -1
  BY <1>2, SideIsOne
<1>3. CASE side = -1 /\ s = 1
  BY <1>3, SideIsOne
<1>4. CASE side = -1 /\ s = -1
  BY <1>4, SideIsOne
<1> QED
  BY <1>1, <1>2, <1>3, <1>4, SideIsOne

(* The sign of a quantity seen from the other side.                        *)
LEMMA OppositeSign ==
  ASSUME NEW side \in Sides, NEW t \in Int
  PROVE  /\ Opposite(side) * t > 0 <=> side * t < 0
         /\ Opposite(side) * t \in Int /\ side * t \in Int
<1>1. CASE side = 1
  BY <1>1, SideIsOne
<1>2. CASE side = -1
  BY <1>2, SideIsOne
<1> QED
  BY <1>1, <1>2, SideIsOne

(* Signs of products with a side.                                          *)
LEMMA SideSigns ==
  ASSUME NEW side \in Sides, NEW t \in Int
  PROVE  /\ side * t \in Int /\ (side * t = 0 <=> t = 0)
         /\ side = Buy \/ side = Sell
         /\ side = Buy => (side * t < 0 <=> t < 0) /\ (side * t <= 0 <=> t <= 0) /\ (side * t > 0 <=> t > 0)
         /\ side = Sell => (side * t < 0 <=> t > 0) /\ (side * t <= 0 <=> t >= 0) /\ (side * t > 0 <=> t < 0)
<1>1. CASE side = 1
  BY <1>1, NamesOfSides
<1>2. CASE side = -1
  BY <1>2, NamesOfSides
<1> QED
  BY <1>1, <1>2, SideIsOne

(* The total of a level of one side.                                       *)
LEMMA TotalIs ==
  ASSUME NEW level, Good(level), NEW side \in Sides
  PROVE  /\ level.total \in Int /\ side * level.total \in Int
         /\ side * level.total > 0 => level.total = side * Quantity(level.fifo)
         /\ side * level.total >= 0 => level.total = side * Quantity(level.fifo)
         /\ side * level.total < 0 => level.total = Opposite(side) * Quantity(level.fifo)
         /\ side * level.total # 0 => level.fifo # <<>> /\ Quantity(level.fifo) > 0
<1>1. /\ Quantity(level.fifo) \in Nat /\ (\E s \in Sides : level.total = s * Quantity(level.fifo))
      /\ level.total \in Int /\ (level.total = 0 <=> level.fifo = <<>>)
  BY OfGood
<1>2. PICK s \in Sides : level.total = s * Quantity(level.fifo)
  BY <1>1
<1>3. Quantity(level.fifo) > 0 => level.fifo # <<>>
  BY QuantityEmpty
<1> DEFINE n == Quantity(level.fifo)
           t == level.total
<1>4. n \in Nat /\ t = s * n
  BY <1>1, <1>2
<1> HIDE DEF n, t
<1>5. /\ t \in Int /\ side * t \in Int
      /\ side * t > 0 => t = side * n
      /\ side * t >= 0 => t = side * n
      /\ side * t < 0 => t = Opposite(side) * n
      /\ side * t # 0 => n > 0
  BY <1>4, SignsOf
<1> QED
  BY <1>3, <1>5 DEF n, t

(* A new order, on a level that has room and no orders of the other side.  *)
LEMMA PushIsGood ==
  ASSUME NEW level, Good(level), ~ Full(level), NEW side \in Sides, side * level.total >= 0,
         NEW id \in Ids, NEW qty \in 1 .. MaxQty
  PROVE  /\ Good(PushAt(side, level, id, qty, PushSlot(level, id)))
         /\ PushAt(side, level, id, qty, PushSlot(level, id)).total = level.total + side * qty
         /\ side * (level.total + side * qty) > 0
<1> DEFINE slot == PushSlot(level, id)
           o == [slot |-> slot, id |-> id, qty |-> qty]
           q == level.fifo
           p == Append(q, o)
           t == level.total + side * qty
<1>1. /\ q \in Seq(RestingOrders) /\ Len(q) \in Nat /\ Len(q) < MaxOrders
      /\ \A i, j \in 1 .. Len(q) : q[i].slot = q[j].slot => i = j
      /\ Quantity(q) \in Nat /\ (\E s \in Sides : level.total = s * Quantity(q)) /\ level.total \in Int
  <2>1. Len(q) # MaxOrders /\ MaxOrders \in Nat
    BY Constants DEF Full
  <2>2. Len(q) \in Nat /\ Len(q) <= MaxOrders
    BY OfGood, Zenon
  <2> DEFINE m == Len(q)
  <2>3. m < MaxOrders
    <3>1. m # MaxOrders /\ MaxOrders \in Nat /\ m \in Nat /\ m <= MaxOrders
      BY <2>1, <2>2
    <3> HIDE DEF m
    <3> QED
      BY <3>1
  <2>4. /\ q \in Seq(RestingOrders)
        /\ \A i, j \in 1 .. Len(q) : q[i].slot = q[j].slot => i = j
    BY OfGood, Zenon
  <2>5. Quantity(q) \in Nat /\ (\E s \in Sides : level.total = s * Quantity(q)) /\ level.total \in Int
    BY OfGood
  <2> QED
    BY <2>2, <2>3, <2>4, <2>5
<1>2. slot \in Slots /\ \A i \in 1 .. Len(q) : q[i].slot # slot
  BY PushSlotIsFree, OfGood DEF FreeSlots
<1> HIDE DEF slot
<1>3. o \in RestingOrders /\ o \in AnyOrder /\ o.qty = qty /\ o.slot = slot
  BY <1>2, Constants DEF RestingOrders, AnyOrder
<1>4. PushAt(side, level, id, qty, slot) = [total |-> t, fifo |-> p]
  BY DEF PushAt
<1> HIDE DEF o, q
<1>5. /\ p \in Seq(RestingOrders) /\ Len(p) = Len(q) + 1 /\ p[Len(q) + 1] = o
      /\ \A i \in 1 .. Len(q) : p[i] = q[i]
  BY <1>1, <1>3
<1>6. Quantity(p) = Quantity(q) + qty
  <2>1. q \in Seq(AnyOrder)
    BY <1>1, OrdersHaveQty
  <2> QED
    BY <1>3, <2>1, QuantityAppend
<1>7. \A i, j \in 1 .. Len(p) : p[i].slot = p[j].slot => i = j
  <2> SUFFICES ASSUME NEW i \in 1 .. Len(p), NEW j \in 1 .. Len(p), p[i].slot = p[j].slot
               PROVE  i = j
    OBVIOUS
  <2>1. \A k \in 1 .. Len(p) : k = Len(q) + 1 \/ k \in 1 .. Len(q)
    BY <1>1, <1>5
  <2>2. \A k \in 1 .. Len(q) : p[k].slot = q[k].slot /\ p[k].slot # slot
    BY <1>2, <1>5 DEF q
  <2> QED
    BY <1>1, <1>3, <1>5, <2>1, <2>2
<1>8. (\E s \in Sides : t = s * Quantity(p)) /\ side * t > 0
  <2>1. level.total = side * Quantity(q) /\ qty \in Nat \ {0}
    BY TotalIs, Constants DEF q
  <2>2. t = side * Quantity(p)
    <3>1. t = side * Quantity(q) + side * qty /\ Quantity(q) \in Int /\ qty \in Int
      BY <1>1, <2>1
    <3> HIDE DEF t
    <3> QED
      BY <1>6, <3>1, SignedSum
  <2>3. Quantity(p) \in Nat \ {0}
    BY <1>1, <1>6, <2>1
  <2> HIDE DEF t, p
  <2> QED
    BY <2>2, <2>3, SignedIs
<1>9. Len(p) <= MaxOrders
  BY <1>1, <1>5, Constants
<1> HIDE DEF p, t
<1>10. Good([total |-> t, fifo |-> p])
  BY <1>5, <1>7, <1>8, <1>9, MakeGood
<1> QED
  BY <1>4, <1>8, <1>10 DEF slot, t

(* The order in the slot found is the one with the identifier.             *)
LEMMA PlaceIs ==
  ASSUME NEW level, Good(level), NEW id, NEW slot \in SlotsOf(level, id)
  PROVE  /\ PlaceOf(level, slot) \in 1 .. Len(level.fifo)
         /\ level.fifo[PlaceOf(level, slot)].id = id
<1>1. /\ Indices(level) = 1 .. Len(level.fifo)
      /\ \A i, j \in 1 .. Len(level.fifo) : level.fifo[i].slot = level.fifo[j].slot => i = j
  BY OfGood
<1>2. PICK i \in Indices(level) : level.fifo[i].slot = slot /\ level.fifo[i].id = id
  BY DEF SlotsOf
<1>3. PlaceOf(level, slot) \in Indices(level) /\ level.fifo[PlaceOf(level, slot)].slot = slot
  BY <1>2 DEF PlaceOf
<1>4. PlaceOf(level, slot) = i
  BY <1>1, <1>2, <1>3
<1> QED
  BY <1>1, <1>2, <1>4

(* A function of the numbers from 1 to n is a sequence.                    *)
LEMMA FunctionIsSeq ==
  ASSUME NEW S, NEW n \in Nat, NEW f \in [1 .. n -> S]
  PROVE  f \in Seq(S) /\ Len(f) = n
OBVIOUS

(* An order that changes its quantity.                                     *)
LEMMA UpdateIsGood ==
  ASSUME NEW level, Good(level), NEW side \in Sides, side * level.total > 0,
         NEW id, NEW slot \in SlotsOf(level, id), NEW new \in 1 .. MaxQty
  PROVE  /\ Good(UpdateAt(side, level, new, slot))
         /\ side * UpdateAt(side, level, new, slot).total > 0
<1> DEFINE i == PlaceOf(level, slot)
           q == level.fifo
           p == [q EXCEPT ![i].qty = new]
           t == level.total - side * q[i].qty + side * new
<1>1. /\ q \in Seq(RestingOrders) /\ Len(q) \in Nat /\ Len(q) <= MaxOrders
      /\ \A k, j \in 1 .. Len(q) : q[k].slot = q[j].slot => k = j
      /\ Quantity(q) \in Nat /\ (\E s \in Sides : level.total = s * Quantity(q)) /\ level.total \in Int
      /\ \A k \in 1 .. Len(q) : q[k] \in RestingOrders /\ q[k].qty \in 1 .. MaxQty /\ Quantity(q) >= q[k].qty
  BY OfGood
<1>2. i \in 1 .. Len(q)
  BY PlaceIs
<1>3. UpdateAt(side, level, new, slot) = [total |-> t, fifo |-> p]
  BY DEF UpdateAt
<1> HIDE DEF i, q
<1>4. new \in Nat /\ q[i].qty \in Nat /\ q[i].qty <= Quantity(q)
  BY <1>1, <1>2, Constants
<1>5. /\ p \in Seq(RestingOrders) /\ Len(p) = Len(q)
      /\ \A k \in 1 .. Len(q) : p[k].slot = q[k].slot
  <2> DEFINE o == [q[i] EXCEPT !.qty = new]
  <2>1. o \in RestingOrders /\ o.slot = q[i].slot
    BY <1>1, <1>2 DEF RestingOrders
  <2>2. q \in [1 .. Len(q) -> RestingOrders] /\ p = [q EXCEPT ![i] = o]
    BY <1>1
  <2> HIDE DEF o, p
  <2>3. p \in [1 .. Len(q) -> RestingOrders] /\ p[i] = o /\ \A k \in 1 .. Len(q) : k # i => p[k] = q[k]
    BY <1>2, <2>1, <2>2
  <2>4. Len(q) \in Nat
    BY <1>1
  <2>5. p \in Seq(RestingOrders) /\ Len(p) = Len(q)
    BY <2>3, <2>4, FunctionIsSeq
  <2> QED
    BY <2>1, <2>3, <2>5
<1>6. Quantity(p) = Quantity(q) - q[i].qty + new
  <2>1. q \in Seq(AnyOrder)
    BY <1>1, OrdersHaveQty
  <2> QED
    BY <1>2, <1>4, <2>1, QuantityChange
<1>7. \A k, j \in 1 .. Len(p) : p[k].slot = p[j].slot => k = j
  BY <1>1, <1>5
<1>8. (\E s \in Sides : t = s * Quantity(p)) /\ side * t > 0
  <2>1. level.total = side * Quantity(q) /\ new >= 1
    BY TotalIs, Constants DEF q
  <2>2. Quantity(p) \in Nat \ {0}
    BY <1>1, <1>4, <1>6, <2>1
  <2> DEFINE x == Quantity(q) - q[i].qty
             u == side * Quantity(q) - side * q[i].qty
  <2>3. x \in Int /\ u = side * x /\ u \in Int
    <3>1. Quantity(q) \in Int /\ q[i].qty \in Int
      BY <1>1, <1>4
    <3>2. u = side * (Quantity(q) - q[i].qty) /\ u \in Int
      <4> DEFINE a == Quantity(q)
                 b == q[i].qty
      <4>1. a \in Int /\ b \in Int /\ u = side * a - side * b
        BY <3>1
      <4> HIDE DEF a, b, u
      <4>2. u = side * (a - b) /\ u \in Int
        BY <4>1, SignedDifference
      <4> QED
        BY <4>2 DEF a, b
    <3> QED
      BY <3>1, <3>2
  <2>4. t = side * x + side * new
    <3>1. t = u + side * new
      BY <2>1
    <3> QED
      BY <2>3, <3>1
  <2>5. Quantity(p) = x + new
    BY <1>6
  <2> HIDE DEF x, u, t, p
  <2>6. t = side * Quantity(p)
    BY <1>4, <2>3, <2>4, <2>5, SignedSum
  <2> QED
    BY <2>2, <2>6, SignedIs
<1> HIDE DEF p, t
<1>9. Good([total |-> t, fifo |-> p])
  BY <1>1, <1>5, <1>7, <1>8, MakeGood
<1> QED
  BY <1>3, <1>8, <1>9

(* An order taken out of a level leaves a good one.                        *)
LEMMA WithoutIsGood ==
  ASSUME NEW q \in Seq(RestingOrders), Len(q) <= MaxOrders, NEW i \in 1 .. Len(q),
         \A k, j \in 1 .. Len(q) : q[k].slot = q[j].slot => k = j,
         NEW t \in Int, NEW side \in Sides, t = side * (Quantity(q) - q[i].qty)
  PROVE  /\ Good([total |-> t, fifo |-> Without(q, i)])
         /\ side * t >= 0
<1> DEFINE p == Without(q, i)
<1>1. /\ Len(q) \in Nat /\ q \in Seq(AnyOrder)
      /\ Quantity(q) \in Nat /\ q[i].qty \in Nat /\ q[i].qty <= Quantity(q)
  <2>1. Good([total |-> Quantity(q), fifo |-> q]) /\ Quantity(q) \in Nat
        /\ \A k \in 1 .. Len(q) : Quantity(q) >= q[k].qty
    <3>1. Quantity(q) \in Nat
      BY OrdersHaveQty, QuantityBounds, Constants
    <3>2. Quantity(q) = Buy * Quantity(q)
      BY <3>1, NamesOfSides
    <3> QED
      BY <3>2, MakeGood, NamesOfSides
  <2> QED
    BY <2>1, OrdersHaveQty, Constants
<1>2. /\ p \in Seq(RestingOrders) /\ Len(p) = Len(q) - 1
      /\ \A k \in 1 .. Len(q) - 1 : p[k] = IF k < i THEN q[k] ELSE q[k + 1]
  BY WithoutIs
<1>3. Quantity(p) = Quantity(q) - q[i].qty
  BY <1>1, QuantityWithout
<1> HIDE DEF p
<1>4. \A k, j \in 1 .. Len(p) : p[k].slot = p[j].slot => k = j
  <2> SUFFICES ASSUME NEW k \in 1 .. Len(p), NEW j \in 1 .. Len(p), p[k].slot = p[j].slot
               PROVE  k = j
    OBVIOUS
  <2> DEFINE at(m) == IF m < i THEN m ELSE m + 1
  <2>1. \A m \in 1 .. Len(p) : at(m) \in 1 .. Len(q) /\ p[m] = q[at(m)]
    <3>1. Len(q) \in Nat /\ Len(p) = Len(q) - 1 /\ i \in 1 .. Len(q)
      BY <1>1, <1>2
    <3>2. \A m \in 1 .. Len(p) : at(m) \in 1 .. Len(q) /\ m \in 1 .. Len(q) - 1
      BY <3>1
    <3> QED
      BY <1>2, <3>2
  <2>2. at(k) = at(j)
    <3> HIDE DEF at
    <3> QED
      BY <1>1, <2>1
  <2> QED
    BY <1>1, <1>2, <2>2
<1>5. (\E s \in Sides : t = s * Quantity(p)) /\ side * t >= 0
  BY <1>1, <1>3 DEF Sides, Sell, Buy
<1>6. Len(p) <= MaxOrders
  BY <1>1, <1>2, Constants
<1>7. Good([total |-> t, fifo |-> p])
  BY <1>2, <1>4, <1>5, <1>6, MakeGood
<1> QED
  BY <1>5, <1>7 DEF p

(* An order that is cancelled.                                             *)
LEMMA CancelIsGood ==
  ASSUME NEW level, Good(level), NEW side \in Sides, side * level.total > 0,
         NEW id, NEW slot \in SlotsOf(level, id)
  PROVE  /\ Good(CancelAt(side, level, slot))
         /\ side * CancelAt(side, level, slot).total >= 0
<1> DEFINE i == PlaceOf(level, slot)
           q == level.fifo
           t == level.total - side * q[i].qty
<1>1. /\ q \in Seq(RestingOrders) /\ Len(q) <= MaxOrders
      /\ \A k, j \in 1 .. Len(q) : q[k].slot = q[j].slot => k = j
      /\ Quantity(q) \in Nat /\ (\E s \in Sides : level.total = s * Quantity(q)) /\ level.total \in Int
      /\ \A k \in 1 .. Len(q) : q[k].qty \in 1 .. MaxQty
  BY OfGood
<1>2. i \in 1 .. Len(q)
  BY PlaceIs
<1>3. CancelAt(side, level, slot) = [total |-> t, fifo |-> Without(q, i)]
  BY DEF CancelAt, Without
<1> HIDE DEF i
<1>4. t \in Int /\ t = side * (Quantity(q) - q[i].qty)
  <2>1. q[i].qty \in Nat
    BY <1>1, <1>2, Constants
  <2>2. level.total = side * Quantity(q)
    BY TotalIs
  <2>3. q[i].qty \in Int /\ Quantity(q) \in Int
    BY <1>1, <2>1
  <2>4. t = side * Quantity(q) - side * q[i].qty
    BY <2>2
  <2> HIDE DEF q, t
  <2> QED
    BY <2>3, <2>4, SignedDifference
<1> HIDE DEF q, t
<1>5. Good([total |-> t, fifo |-> Without(q, i)]) /\ side * t >= 0
  <2>1. i \in 1 .. Len(q) /\ q \in Seq(RestingOrders)
    BY <1>1, <1>2
  <2> QED
    BY <1>1, <1>4, <2>1, WithoutIsGood
<1> QED
  BY <1>3, <1>5

(* The oldest order dropped.                                               *)
LEMMA PopIsGood ==
  ASSUME NEW level, Good(level), NEW side \in Sides, side * level.total > 0
  PROVE  /\ Good(PopFront(side, level))
         /\ side * PopFront(side, level).total >= 0
<1> DEFINE q == level.fifo
           t == level.total - side * Head(q).qty
<1>1. /\ q \in Seq(RestingOrders) /\ Len(q) <= MaxOrders /\ Len(q) \in Nat
      /\ \A k, j \in 1 .. Len(q) : q[k].slot = q[j].slot => k = j
      /\ Quantity(q) \in Nat /\ (\E s \in Sides : level.total = s * Quantity(q)) /\ level.total \in Int
      /\ \A k \in 1 .. Len(q) : q[k].qty \in 1 .. MaxQty
      /\ (level.total = 0 <=> q = <<>>)
  BY OfGood
<1>2. q # <<>> /\ 1 \in 1 .. Len(q) /\ Head(q) = q[1]
  BY <1>1 DEF Sides, Sell, Buy
<1>3. PopFront(side, level) = [total |-> t, fifo |-> Without(q, 1)]
  BY <1>1, <1>2, TailIsWithout DEF PopFront, Front
<1>4. t \in Int /\ t = side * (Quantity(q) - q[1].qty)
  <2>1. q[1].qty \in Nat
    BY <1>1, <1>2, Constants
  <2>2. level.total = side * Quantity(q)
    BY TotalIs
  <2>3. q[1].qty \in Int /\ Quantity(q) \in Int
    BY <1>1, <2>1
  <2>4. t = side * Quantity(q) - side * q[1].qty
    BY <1>2, <2>2
  <2> HIDE DEF q, t
  <2> QED
    BY <2>3, <2>4, SignedDifference
<1> HIDE DEF q, t
<1>5. Good([total |-> t, fifo |-> Without(q, 1)]) /\ side * t >= 0
  BY <1>1, <1>2, <1>4, WithoutIsGood
<1> QED
  BY <1>3, <1>5

(* A fill leaves a good level, of the side it had, and something of the    *)
(* order or nothing of the taker.                                          *)
LEMMA FillIsGood ==
  ASSUME NEW level, Good(level), NEW side \in Sides, side * level.total < 0, NEW want \in 1 .. MaxQty
  PROVE  LET min   == Smaller(want, Front(level).qty)
             after == FillFront(side, level, min)
         IN  /\ min \in 1 .. want
             /\ Good(after) /\ side * after.total <= 0
             /\ min # Front(level).qty => side * after.total < 0 /\ min = want
<1> DEFINE q == level.fifo
           min == Smaller(want, Head(q).qty)
           t == level.total + side * min
<1>1. /\ q \in Seq(RestingOrders) /\ Len(q) <= MaxOrders /\ Len(q) \in Nat
      /\ \A k, j \in 1 .. Len(q) : q[k].slot = q[j].slot => k = j
      /\ Quantity(q) \in Nat /\ (\E s \in Sides : level.total = s * Quantity(q)) /\ level.total \in Int
      /\ \A k \in 1 .. Len(q) : q[k] \in RestingOrders /\ q[k].qty \in 1 .. MaxQty /\ Quantity(q) >= q[k].qty
      /\ (level.total = 0 <=> q = <<>>)
  BY OfGood
<1>2. q # <<>> /\ 1 \in 1 .. Len(q) /\ Head(q) = q[1]
  BY <1>1 DEF Sides, Sell, Buy
<1>3. q[1].qty \in 1 .. MaxQty /\ q[1].qty \in Nat /\ want \in Nat /\ q[1].qty <= Quantity(q)
  BY <1>1, <1>2, Constants
<1>4. min \in 1 .. want /\ min <= q[1].qty /\ (min # q[1].qty => min = want) /\ min \in Nat
  BY <1>2, <1>3 DEF Smaller
<1>5. FillFront(side, level, min) = [total |-> t, fifo |-> IF Head(q).qty = min THEN Tail(q)
                                                           ELSE [q EXCEPT ![1].qty = Head(q).qty - min]]
  BY DEF FillFront, Front
<1>6. t \in Int /\ t = Opposite(side) * (Quantity(q) - min) /\ side * t <= 0
      /\ Opposite(side) \in Sides
  <2>1. level.total = Opposite(side) * Quantity(q)
    BY TotalIs
  <2>2. Opposite(side) \in Sides
    BY SideIsOne
  <2>3. t = Opposite(side) * Quantity(q) + side * min
    BY <2>1
  <2> HIDE DEF q, min, t
  <2>4. Quantity(q) - min \in Nat /\ Quantity(q) \in Int /\ min \in Int
    BY <1>1, <1>3, <1>4
  <2>5. t = Opposite(side) * (Quantity(q) - min) /\ t \in Int
    BY <2>3, <2>4, OtherSigned
  <2>6. side * t <= 0
    <3> DEFINE x == Quantity(q) - min
    <3>1. x \in Nat /\ t = Opposite(side) * x
      BY <2>4, <2>5
    <3> HIDE DEF x
    <3>2. CASE side = 1
      BY <3>1, <3>2, SideIsOne
    <3>3. CASE side = -1
      BY <3>1, <3>3, SideIsOne
    <3> QED
      BY <3>2, <3>3, SideIsOne
  <2> QED
    BY <2>2, <2>5, <2>6
<1> HIDE DEF q, t, min
<1>7. CASE min = q[1].qty
  <2>1. Good([total |-> t, fifo |-> Without(q, 1)])
    BY <1>1, <1>2, <1>6, <1>7, WithoutIsGood
  <2>2. FillFront(side, level, min) = [total |-> t, fifo |-> Without(q, 1)]
    BY <1>1, <1>2, <1>5, <1>7, TailIsWithout
  <2> QED
    BY <1>2, <1>4, <1>6, <1>7, <2>1, <2>2 DEF q, min, Front
<1>8. CASE min # q[1].qty
  <2> DEFINE new == q[1].qty - min
             p == [q EXCEPT ![1].qty = new]
             o == [q[1] EXCEPT !.qty = new]
  <2>1. new \in 1 .. MaxQty /\ new \in Nat /\ q[1] \in RestingOrders
    BY <1>1, <1>2, <1>3, <1>4, <1>8, Constants
  <2> HIDE DEF new
  <2>2. o \in RestingOrders /\ o.slot = q[1].slot
    BY <2>1 DEF RestingOrders
  <2>3. q \in [1 .. Len(q) -> RestingOrders] /\ p = [q EXCEPT ![1] = o]
    BY <1>1
  <2>4. Quantity(p) = Quantity(q) - q[1].qty + new
    <3>1. q \in Seq(AnyOrder)
      BY <1>1, OrdersHaveQty
    <3> QED
      BY <1>2, <2>1, <3>1, QuantityChange
  <2> HIDE DEF o, p
  <2>5. p \in [1 .. Len(q) -> RestingOrders] /\ p[1] = o /\ \A k \in 1 .. Len(q) : k # 1 => p[k] = q[k]
    BY <1>2, <2>2, <2>3
  <2>6. p \in Seq(RestingOrders) /\ Len(p) = Len(q) /\ \A k \in 1 .. Len(q) : p[k].slot = q[k].slot
    <3>1. p \in Seq(RestingOrders) /\ Len(p) = Len(q)
      BY <1>1, <2>5, FunctionIsSeq
    <3> QED
      BY <2>2, <2>5, <3>1
  <2>7. Quantity(p) = Quantity(q) - min
    BY <1>1, <1>3, <1>4, <2>4 DEF new
  <2>8. (\E s \in Sides : t = s * Quantity(p)) /\ side * t < 0
    <3> DEFINE x == Quantity(q) - min
    <3>1. x \in Nat \ {0} /\ Quantity(p) = x /\ t = Opposite(side) * x
      BY <1>1, <1>3, <1>4, <1>6, <1>8, <2>7
    <3> HIDE DEF x
    <3>2. side * t < 0
      <4>1. CASE side = 1
        BY <3>1, <4>1, SideIsOne
      <4>2. CASE side = -1
        BY <3>1, <4>2, SideIsOne
      <4> QED
        BY <4>1, <4>2, SideIsOne
    <3> QED
      BY <1>6, <3>1, <3>2
  <2>9. Good([total |-> t, fifo |-> p])
    <3>1. \A k, j \in 1 .. Len(p) : p[k].slot = p[j].slot => k = j
      BY <1>1, <2>6
    <3> QED
      BY <1>1, <2>6, <2>8, <3>1, MakeGood
  <2>10. FillFront(side, level, min) = [total |-> t, fifo |-> p]
    BY <1>2, <1>5, <1>8 DEF p, new
  <2>11. Front(level).qty = q[1].qty /\ min = Smaller(want, Front(level).qty)
    BY <1>2 DEF q, min, Front
  <2>12. FillFront(side, level, min).total = t /\ Good(FillFront(side, level, min))
    BY <2>9, <2>10
  <2> HIDE DEF p
  <2> QED
    BY <1>4, <1>6, <1>8, <2>8, <2>11, <2>12
<1> QED
  BY <1>7, <1>8

-----------------------------------------------------------------------------
(* The ring: indices are prices modulo the size.                           *)

(* Division by the size of the ring.                                       *)
LEMMA Division ==
  ASSUME NEW x \in Int
  PROVE  x % Size \in 0 .. Size - 1 /\ \E q \in Int : x = Size * q + (x % Size)
<1>1. Size \in Nat \ {0}
  BY Constants
<1>2. x % Size \in 0 .. Size - 1 /\ x \div Size \in Int /\ x = Size * (x \div Size) + (x % Size)
  BY <1>1
<1> QED
  BY <1>2

(* No multiple of the size lies strictly within one size of zero.          *)
LEMMA NoMultiple ==
  ASSUME NEW d \in Int, NEW e \in Int, d = Size * e, -Size < d, d < Size
  PROVE  d = 0
<1>1. Size \in Nat \ {0}
  BY Constants
<1>2. CASE e >= 1
  <2>1. Size * e >= Size
    BY <1>1, <1>2
  <2> QED
    BY <1>1, <2>1
<1>3. CASE e <= -1
  <2>1. Size * e <= -Size
    BY <1>1, <1>3
  <2> QED
    BY <1>1, <2>1
<1>4. CASE e = 0
  BY <1>1, <1>4
<1> QED
  BY <1>2, <1>3, <1>4

(* Numbers closer than the size have different remainders.                 *)
LEMMA SameIndex ==
  ASSUME NEW x \in Int, NEW y \in Int, x % Size = y % Size, -Size < x - y, x - y < Size
  PROVE  x = y
<1>1. PICK q \in Int : x = Size * q + (x % Size)
  BY Division
<1>2. PICK r \in Int : y = Size * r + (y % Size)
  BY Division
<1>3. Size \in Int /\ x % Size \in Int
  BY Division, Constants
<1> DEFINE m == x % Size
           d == x - y
           e == q - r
<1>4. x = Size * q + m /\ y = Size * r + m /\ m \in Int
  BY <1>1, <1>2, <1>3
<1> HIDE DEF m
<1>5. d = Size * e
  BY <1>3, <1>4
<1> HIDE DEF e
<1>6. d = 0
  <2>1. d \in Int /\ e \in Int /\ -Size < d /\ d < Size
    BY DEF e
  <2> HIDE DEF d
  <2> QED
    BY <1>5, <2>1, NoMultiple
<1> QED
  BY <1>6

(* Remainders may be taken before or after an addition.                    *)
LEMMA AddIndex ==
  ASSUME NEW x \in Int, NEW y \in Int
  PROVE  ((x % Size) + y) % Size = (x + y) % Size
<1> DEFINE m == x % Size
           a == m + y
           b == x + y
           r == a % Size
           s == b % Size
<1>1. Size \in Nat \ {0} /\ m \in Int
  BY Division, Constants
<1>2. PICK q \in Int : x = Size * q + m
  BY Division
<1>3. a \in Int /\ b \in Int
  BY <1>1
<1>4. r \in 0 .. Size - 1 /\ s \in 0 .. Size - 1
  <2> HIDE DEF a, b
  <2> QED
    BY <1>3, Division
<1>5. PICK u \in Int : a = Size * u + r
  <2> HIDE DEF a, b
  <2> QED
    BY <1>3, Division
<1>6. PICK v \in Int : b = Size * v + s
  <2> HIDE DEF a, b
  <2> QED
    BY <1>3, Division
<1>7. b - a = Size * q
  <2> HIDE DEF m
  <2>1. Size * q \in Int
    BY <1>1
  <2> QED
    BY <1>1, <1>2, <2>1
<1> HIDE DEF m, a, b, r, s
<1> DEFINE d == s - r
           e == q - v + u
<1>8. d = Size * e
  BY <1>1, <1>3, <1>4, <1>5, <1>6, <1>7
<1> HIDE DEF e
<1>9. d = 0
  <2>1. d \in Int /\ e \in Int /\ -Size < d /\ d < Size
    BY <1>1, <1>4 DEF e
  <2> HIDE DEF d
  <2> QED
    BY <1>8, <2>1, NoMultiple
<1> QED
  BY <1>4, <1>9 DEF r, s, a, b, m

(* Levels on each side of the center: fewer than half of the ring.         *)
LEMMA LevelsFit == Levels \in Nat /\ Levels + Levels <= Size - 2
<1> DEFINE h == Size \div 2 - 1
           q == h \div Shift
<1>1. h \in Nat /\ h + h <= Size - 2
  BY Constants
<1> HIDE DEF h
<1>2. q \in Nat /\ q * Shift \in Nat /\ q * Shift <= h
  <2>1. Shift \in Nat \ {0}
    BY Constants
  <2>2. q \in Nat /\ h = Shift * q + (h % Shift) /\ h % Shift \in Nat
    BY <1>1, <2>1
  <2> HIDE DEF q
  <2>3. q * Shift = Shift * q /\ q * Shift \in Nat
    BY <2>1, <2>2
  <2> QED
    BY <1>1, <2>2, <2>3
<1>3. Levels = q * Shift
  BY DEF Levels, h, q
<1> HIDE DEF q
<1> QED
  BY <1>1, <1>2, <1>3, Constants

-----------------------------------------------------------------------------
(* The window as the proofs use it.                                        *)
Fits ==
  /\ minIndex \in 0 .. Size - 1
  /\ minPrice \in Nat /\ maxPrice \in Nat
  /\ minPrice <= maxPrice /\ maxPrice - minPrice <= Size - 2

LevelsGood == levels \in [0 .. Size - 1 -> LevelType] /\ \A i \in 0 .. Size - 1 : Good(levels[i])

RingFollows ==
  \A i \in 0 .. Size - 1 :
    levels[i] # NewLevel => \E price \in minPrice .. maxPrice : i = IndexOf(price)

(* A price of the window has an index in the ring.                         *)
LEMMA IndexType ==
  ASSUME Fits, NEW price \in Int
  PROVE  IndexOf(price) \in 0 .. Size - 1
BY Division DEF Fits, IndexOf

(* and a good level there.                                                 *)
LEMMA LevelIsGood ==
  ASSUME Fits, LevelsGood, NEW price \in Int
  PROVE  Good(LevelAt(price)) /\ LevelAt(price).total \in Int
BY IndexType, OfGood DEF LevelsGood, LevelAt

(* Two prices of a window, or of a window and the next, share no level.    *)
LEMMA IndexDistinct ==
  ASSUME Fits, NEW x \in Int, NEW y \in Int, IndexOf(x) = IndexOf(y),
         -Size < x - y, x - y < Size
  PROVE  x = y
<1> DEFINE a == minIndex + (x - minPrice)
           b == minIndex + (y - minPrice)
<1>1. a \in Int /\ b \in Int /\ a - b = x - y
  BY DEF Fits
<1>2. a % Size = b % Size
  BY DEF IndexOf
<1>3. a = b
  <2>1. -Size < a - b /\ a - b < Size
    BY <1>1
  <2> HIDE DEF a, b
  <2> QED
    BY <1>1, <1>2, <2>1, SameIndex
<1> QED
  BY <1>3 DEF Fits

(* What it is to be in the window.                                         *)
LEMMA InWindowIs ==
  ASSUME Fits, NEW price \in Int
  PROVE  InWindow(price) <=> price \in minPrice .. maxPrice
BY DEF InWindow, Fits

(* One level of the window changes.                                        *)
LEMMA OneLevel ==
  ASSUME Fits, LevelsGood, RingFollows,
         NEW price \in minPrice .. maxPrice, NEW new, Good(new),
         levels' = [levels EXCEPT ![IndexOf(price)] = new], UNCHANGED window
  PROVE  /\ Fits' /\ LevelsGood' /\ RingFollows'
         /\ \A p \in minPrice .. maxPrice :
              LevelAt(p)' = IF p = price THEN new ELSE LevelAt(p)
<1>1. minIndex' = minIndex /\ minPrice' = minPrice /\ maxPrice' = maxPrice
  BY DEF window
<1>2. Fits'
  BY <1>1 DEF Fits
<1>3. price \in Int /\ IndexOf(price) \in 0 .. Size - 1
  BY IndexType DEF Fits
<1>4. /\ levels' \in [0 .. Size - 1 -> LevelType]
      /\ \A i \in 0 .. Size - 1 : levels'[i] = IF i = IndexOf(price) THEN new ELSE levels[i]
  BY <1>3 DEF LevelsGood, Good
<1>5. LevelsGood'
  BY <1>4 DEF LevelsGood
<1>6. \A p : IndexOf(p)' = IndexOf(p)
  BY <1>1 DEF IndexOf
<1>7. ASSUME NEW i \in 0 .. Size - 1, levels'[i] # NewLevel
      PROVE  \E p \in minPrice' .. maxPrice' : i = IndexOf(p)'
  <2>1. CASE i = IndexOf(price)
    BY <1>1, <1>6, <2>1
  <2>2. CASE i # IndexOf(price)
    <3>1. levels[i] # NewLevel
      BY <1>4, <1>7, <2>2
    <3> QED
      BY <1>1, <1>6, <3>1 DEF RingFollows
  <2> QED
    BY <2>1, <2>2
<1>8. ASSUME NEW p \in minPrice .. maxPrice
      PROVE  LevelAt(p)' = IF p = price THEN new ELSE LevelAt(p)
  <2>1. p \in Int /\ IndexOf(p) \in 0 .. Size - 1
    BY IndexType DEF Fits
  <2>2. p # price => IndexOf(p) # IndexOf(price)
    <3>1. -Size < p - price /\ p - price < Size
      BY <1>3, <2>1, Constants DEF Fits
    <3> QED
      BY <1>3, <2>1, <3>1, IndexDistinct
  <2>3. LevelAt(p)' = levels'[IndexOf(p)]
    BY <1>6 DEF LevelAt
  <2> QED
    BY <1>4, <2>1, <2>2, <2>3 DEF LevelAt
<1>9. RingFollows'
  BY <1>7 DEF RingFollows
<1> QED
  BY <1>2, <1>5, <1>8, <1>9

-----------------------------------------------------------------------------
(* The window moves.                                                       *)
LEMMA WindowMoves ==
  ASSUME Fits, LevelsGood, RingFollows, NEW d \in Int,
         minIndex' = (minIndex + d) % Size, minPrice' = minPrice + d, maxPrice' = maxPrice + d,
         minPrice + d >= 0, levels' = levels,
         \A p \in minPrice .. maxPrice : p \notin minPrice + d .. maxPrice + d => Empty(LevelAt(p))
  PROVE  /\ Fits' /\ LevelsGood' /\ RingFollows'
         /\ \A p \in minPrice + d .. maxPrice + d :
              LevelAt(p)' = IF p \in minPrice .. maxPrice THEN LevelAt(p) ELSE NewLevel
<1>1. Fits'
  <2>1. minIndex + d \in Int
    BY DEF Fits
  <2>2. minIndex' \in 0 .. Size - 1
    BY <2>1, Division
  <2> QED
    BY <2>2 DEF Fits
<1>2. LevelsGood'
  BY DEF LevelsGood
<1>3. ASSUME NEW p \in Int
      PROVE  IndexOf(p)' = IndexOf(p)
  <2> DEFINE x == minIndex + d
             y == p - (minPrice + d)
  <2>1. x \in Int /\ y \in Int /\ x + y = minIndex + (p - minPrice)
    BY DEF Fits
  <2>2. IndexOf(p)' = ((x % Size) + y) % Size
    BY DEF IndexOf
  <2>3. ((x % Size) + y) % Size = (x + y) % Size
    <3> HIDE DEF x, y
    <3> QED
      BY <2>1, AddIndex
  <2> HIDE DEF x, y
  <2> QED
    BY <2>1, <2>2, <2>3 DEF IndexOf
<1>4. ASSUME NEW p \in Int
      PROVE  LevelAt(p)' = LevelAt(p)
  BY <1>3 DEF LevelAt
<1>5. ASSUME NEW i \in 0 .. Size - 1, levels[i] # NewLevel
      PROVE  \E p \in minPrice .. maxPrice : i = IndexOf(p) /\ p \in minPrice + d .. maxPrice + d
  <2>1. PICK p \in minPrice .. maxPrice : i = IndexOf(p)
    BY <1>5 DEF RingFollows
  <2>2. p \in Int
    BY DEF Fits
  <2>3. ~ Empty(LevelAt(p))
    BY <1>5, <2>1, <2>2, LevelIsGood, EmptyIsNew DEF LevelAt, Empty
  <2> QED
    BY <2>1, <2>3
<1>6. RingFollows'
  <2> SUFFICES ASSUME NEW i \in 0 .. Size - 1, levels[i] # NewLevel
               PROVE  \E p \in minPrice + d .. maxPrice + d : i = IndexOf(p)'
    BY DEF RingFollows
  <2>1. PICK p \in minPrice .. maxPrice : i = IndexOf(p) /\ p \in minPrice + d .. maxPrice + d
    BY <1>5
  <2>2. p \in Int
    BY DEF Fits
  <2> QED
    BY <1>3, <2>1, <2>2
<1>7. ASSUME NEW p \in minPrice + d .. maxPrice + d, p \notin minPrice .. maxPrice
      PROVE  LevelAt(p) = NewLevel
  <2> SUFFICES ASSUME LevelAt(p) # NewLevel
               PROVE  FALSE
    OBVIOUS
  <2>1. p \in Int /\ IndexOf(p) \in 0 .. Size - 1
    BY IndexType DEF Fits
  <2>2. PICK q \in minPrice .. maxPrice : IndexOf(p) = IndexOf(q) /\ q \in minPrice + d .. maxPrice + d
    BY <1>5, <2>1 DEF LevelAt
  <2>3. q \in Int /\ -Size < p - q /\ p - q < Size
    BY <2>1, <2>2, Constants DEF Fits
  <2>4. p = q
    BY <2>1, <2>2, <2>3, IndexDistinct
  <2> QED
    BY <1>7, <2>2, <2>4
<1>8. ASSUME NEW p \in minPrice + d .. maxPrice + d
      PROVE  LevelAt(p)' = IF p \in minPrice .. maxPrice THEN LevelAt(p) ELSE NewLevel
  <2>1. p \in Int
    BY DEF Fits
  <2> QED
    BY <1>4, <1>7, <2>1
<1> QED
  BY <1>1, <1>2, <1>6, <1>8

-----------------------------------------------------------------------------
(* The least and the greatest of a bounded set of numbers.                 *)
LEMMA MinIs ==
  ASSUME NEW S \in SUBSET Nat, S # {}
  PROVE  Min(S) \in S /\ \A x \in S : Min(S) <= x
BY Least DEF Min

(* The greatest, which a bound makes sure of.                              *)
LEMMA MaxIs ==
  ASSUME NEW n \in Nat, NEW S \in SUBSET (0 .. n), S # {}
  PROVE  Max(S) \in S /\ \A x \in S : x <= Max(S)
<1> DEFINE T == {n - x : x \in S}
<1>1. T \in SUBSET Nat /\ T # {}
  <2>1. \A x \in S : n - x \in Nat
    OBVIOUS
  <2>2. \E x \in S : n - x \in T
    OBVIOUS
  <2>3. \A y \in T : y \in Nat
    BY <2>1
  <2> HIDE DEF T
  <2> QED
    BY <2>2, <2>3
<1>2. PICK m \in T : \A y \in T : m <= y
  <2> HIDE DEF T
  <2> QED
    BY <1>1, Least
<1>3. PICK k \in S : m = n - k
  OBVIOUS
<1>4. \A x \in S : x <= k
  <2> SUFFICES ASSUME NEW x \in S
               PROVE  x <= k
    OBVIOUS
  <2>1. m <= n - x
    BY <1>2
  <2> QED
    BY <1>3, <2>1
<1>5. \E a \in S : \A x \in S : a >= x
  BY <1>4
<1>6. Max(S) \in S /\ \A x \in S : Max(S) >= x
  BY <1>5 DEF Max
<1> QED
  BY <1>6

-----------------------------------------------------------------------------
(* The masks.                                                              *)
MaskType ==
  /\ bits \in [Sides -> SUBSET (0 .. Size - 1)]
  /\ \A side \in Sides : bits[side] \subseteq 0 .. maxPrice - minPrice

Shows(side, price) == BitOf(side, price) \in bits[side] <=> side * LevelAt(price).total > 0

(* The bits count the prices of the window, from either end.               *)
LEMMA BitIs ==
  ASSUME Fits, NEW side \in Sides, NEW price \in Int
  PROVE  /\ BitOf(side, price) \in Int
         /\ price \in minPrice .. maxPrice <=> BitOf(side, price) \in 0 .. maxPrice - minPrice
         /\ \A other \in Int : BitOf(side, other) = BitOf(side, price) => other = price
BY SideIsOne DEF BitOf, Fits, Sell, Buy

(* The best price of a side: no better level of the window has orders of   *)
(* that side, and the level there has.                                     *)
LEMMA TopIs ==
  ASSUME Fits, LevelsGood, MaskType, NEW side \in Sides,
         \A price \in minPrice .. maxPrice : Shows(side, price)
  PROVE  LET top == TopPrice(side)
         IN  /\ top \in Int /\ minPrice - 1 <= top /\ top <= maxPrice + 1
             /\ InWindow(top) => side * LevelAt(top).total > 0
             /\ side = Sell => /\ minPrice <= top
                               /\ \A p \in minPrice .. maxPrice : p < top => LevelAt(p).total >= 0
             /\ side = Buy  => /\ top <= maxPrice
                               /\ \A p \in minPrice .. maxPrice : p > top => LevelAt(p).total <= 0
<1> DEFINE top == TopPrice(side)
           w == maxPrice - minPrice
<1>1. w \in Nat /\ bits[side] \in SUBSET (0 .. w)
  BY DEF MaskType, Fits
<1>2. bits[side] # {} => Max(bits[side]) \in bits[side] /\ \A b \in bits[side] : b <= Max(bits[side])
  <2> HIDE DEF w
  <2> QED
    BY <1>1, MaxIs
<1>3. minPrice \in Nat /\ maxPrice \in Nat /\ minPrice <= maxPrice
  BY DEF Fits
<1>4. ASSUME NEW p \in minPrice .. maxPrice
      PROVE  /\ p \in Int /\ LevelAt(p).total \in Int
             /\ BitOf(side, p) \notin bits[side] => side * LevelAt(p).total <= 0
  <2>1. p \in Int /\ LevelAt(p).total \in Int
    BY <1>3, LevelIsGood
  <2>2. side * LevelAt(p).total \in Int
    BY <2>1, SignedIs
  <2> QED
    BY <2>1, <2>2 DEF Shows
<1>5. CASE side = Sell
  <2>1. CASE bits[Sell] = {}
    <3>1. top = maxPrice + 1
      BY <1>5, <2>1 DEF TopPrice
    <3>2. ~ InWindow(top)
      BY <1>3, <3>1 DEF InWindow
    <3>3. \A p \in minPrice .. maxPrice : LevelAt(p).total >= 0
      <4> SUFFICES ASSUME NEW p \in minPrice .. maxPrice
                   PROVE  LevelAt(p).total >= 0
        OBVIOUS
      <4>1. Sell * LevelAt(p).total <= 0 /\ LevelAt(p).total \in Int
        BY <1>4, <1>5, <2>1
      <4> QED
        BY <4>1 DEF Sell
    <3> QED
      BY <1>3, <1>5, <3>1, <3>2, <3>3, NamesOfSides
  <2>2. CASE bits[Sell] # {}
    <3> DEFINE b == Max(bits[Sell])
    <3>1. top = maxPrice - b
      BY <1>5, <2>2 DEF TopPrice
    <3>2. b \in bits[Sell] /\ b \in 0 .. w /\ \A c \in bits[Sell] : c <= b
      BY <1>1, <1>2, <1>5, <2>2
    <3> HIDE DEF b
    <3>3. top \in minPrice .. maxPrice /\ BitOf(Sell, top) = b
      BY <1>3, <3>1, <3>2 DEF BitOf
    <3>4. Sell * LevelAt(top).total > 0
      BY <1>5, <3>2, <3>3 DEF Shows
    <3>5. \A p \in minPrice .. maxPrice : p < top => LevelAt(p).total >= 0
      <4> SUFFICES ASSUME NEW p \in minPrice .. maxPrice, p < top
                   PROVE  LevelAt(p).total >= 0
        OBVIOUS
      <4>1. BitOf(Sell, p) > b
        BY <1>3, <3>1, <3>2 DEF BitOf
      <4>2. BitOf(Sell, p) \notin bits[Sell]
        BY <1>1, <1>3, <1>5, <3>2, <4>1
      <4>3. Sell * LevelAt(p).total <= 0 /\ LevelAt(p).total \in Int
        BY <1>4, <1>5, <4>2
      <4> QED
        BY <4>3 DEF Sell
    <3> QED
      BY <1>3, <1>5, <3>3, <3>4, <3>5, NamesOfSides
  <2> QED
    BY <2>1, <2>2
<1>6. CASE side = Buy
  <2>1. CASE bits[Buy] = {}
    <3>1. top = minPrice - 1
      BY <1>6, <2>1, NamesOfSides DEF TopPrice
    <3>2. ~ InWindow(top)
      BY <1>3, <3>1 DEF InWindow
    <3>3. \A p \in minPrice .. maxPrice : LevelAt(p).total <= 0
      <4> SUFFICES ASSUME NEW p \in minPrice .. maxPrice
                   PROVE  LevelAt(p).total <= 0
        OBVIOUS
      <4>1. Buy * LevelAt(p).total <= 0 /\ LevelAt(p).total \in Int
        BY <1>4, <1>6, <2>1
      <4> QED
        BY <4>1 DEF Buy
    <3> QED
      BY <1>3, <1>6, <3>1, <3>2, <3>3, NamesOfSides
  <2>2. CASE bits[Buy] # {}
    <3> DEFINE b == Max(bits[Buy])
    <3>1. top = minPrice + b
      BY <1>6, <2>2, NamesOfSides DEF TopPrice
    <3>2. b \in bits[Buy] /\ b \in 0 .. w /\ \A c \in bits[Buy] : c <= b
      BY <1>1, <1>2, <1>6, <2>2
    <3> HIDE DEF b
    <3>3. top \in minPrice .. maxPrice /\ BitOf(Buy, top) = b
      BY <1>3, <3>1, <3>2, NamesOfSides DEF BitOf
    <3>4. Buy * LevelAt(top).total > 0
      BY <1>6, <3>2, <3>3 DEF Shows
    <3>5. \A p \in minPrice .. maxPrice : p > top => LevelAt(p).total <= 0
      <4> SUFFICES ASSUME NEW p \in minPrice .. maxPrice, p > top
                   PROVE  LevelAt(p).total <= 0
        OBVIOUS
      <4>1. BitOf(Buy, p) > b
        BY <1>3, <3>1, <3>2, NamesOfSides DEF BitOf
      <4>2. BitOf(Buy, p) \notin bits[Buy]
        BY <1>1, <1>3, <1>6, <3>2, <4>1
      <4>3. Buy * LevelAt(p).total <= 0 /\ LevelAt(p).total \in Int
        BY <1>4, <1>6, <4>2
      <4> QED
        BY <4>3 DEF Buy
    <3> QED
      BY <1>3, <1>6, <3>3, <3>4, <3>5, NamesOfSides
  <2> QED
    BY <2>1, <2>2
<1> QED
  BY <1>5, <1>6, NamesOfSides

-----------------------------------------------------------------------------
(* The invariant taken apart and put together.                             *)

CallType ==
  /\ {minPrice, maxPrice} \subseteq Prices
  /\ pc \in {"idle", "match", "fill", "shift", "rest"}
  /\ req \in IF pc = "idle" THEN {NoRequest}
             ELSE [kind : {"limit", "ioc", "fok"}, side : Sides, id : Ids, price : Prices]
  /\ left \in 0 .. MaxQty
  /\ lastPrice \in Prices \cup {0}

MasksShow ==
  \A side \in Sides : \A price \in (minPrice .. maxPrice) \ Expiring(side) : Shows(side, price)

(* The parts of the invariant, with the types of the state among them.     *)
LEMMA Apart ==
  ASSUME IInv
  PROVE  /\ CallType /\ Fits /\ LevelsGood /\ RingFollows /\ MaskType /\ MasksShow
         /\ WindowFollows /\ WindowFits /\ Uncrossed /\ SidesAgree /\ TradeParts /\ TradeIsThorough
<1>1. /\ TypeOK /\ WindowFits /\ MasksMatchLevels
      /\ \A i \in 0 .. Size - 1 : LevelSound(levels[i])
      /\ \A i \in 0 .. Size - 1 :
           levels[i] # NewLevel => i \in {IndexOf(price) : price \in minPrice .. maxPrice}
  BY DEF IInv, BookSound, LevelsSound
<1>2. CallType
  BY <1>1 DEF TypeOK, CallType
<1>3. Fits
  <2>1. minPrice \in Nat /\ maxPrice \in Nat /\ minIndex \in 0 .. Size - 1
    BY <1>1, Constants DEF TypeOK, Prices
  <2>2. minPrice <= maxPrice /\ maxPrice - minPrice <= Size - 2
    BY <1>1, <2>1, LevelsFit, Constants DEF WindowFits
  <2> QED
    BY <2>1, <2>2 DEF Fits
<1>4. LevelsGood
  BY <1>1 DEF TypeOK, LevelsGood, Good, LevelType, RestingOrders
<1>5. RingFollows
  BY <1>1 DEF RingFollows
<1>6. MaskType
  BY <1>1 DEF TypeOK, MaskType, MasksMatchLevels
<1>7. MasksShow
  BY <1>1 DEF MasksShow, MasksMatchLevels, Shows
<1> QED
  BY <1>2, <1>3, <1>4, <1>5, <1>6, <1>7 DEF IInv

(* and what is enough for it.                                              *)
LEMMA Together ==
  ASSUME CallType', Fits', LevelsGood', RingFollows', MaskType', MasksShow',
         WindowFollows', WindowFits', Uncrossed', SidesAgree', TradeParts', TradeIsThorough'
  PROVE  IInv'
<1>1. TypeOK'
  BY DEF TypeOK, CallType, LevelsGood, LevelType, RestingOrders, MaskType, Fits
<1>2. \A i \in 0 .. Size - 1 : LevelSound(levels[i])'
  BY DEF LevelsGood, Good
<1>3. \A i \in 0 .. Size - 1 :
        levels'[i] # NewLevel => i \in {IndexOf(price)' : price \in minPrice' .. maxPrice'}
  BY DEF RingFollows
<1>4. LevelsSound'
  BY <1>1, <1>2, <1>3 DEF LevelsSound
<1>5. MasksMatchLevels'
  BY DEF MaskType, MasksShow, MasksMatchLevels, Shows
<1> QED
  BY <1>4, <1>5 DEF IInv, BookSound

-----------------------------------------------------------------------------
(* The level of one price has become new.                                  *)
Becomes(price, new) ==
  \A p \in minPrice .. maxPrice : LevelAt(p)' = IF p = price THEN new ELSE LevelAt(p)

(* Nothing crosses that did not, when no level changes sides.              *)
LEMMA SignsKept ==
  ASSUME Fits, LevelsGood, UNCHANGED window,
         NEW price \in minPrice .. maxPrice, NEW new, Good(new), Becomes(price, new),
         new.total < 0 => LevelAt(price).total < 0, new.total > 0 => LevelAt(price).total > 0
  PROVE  /\ Uncrossed => Uncrossed'
         /\ \A p \in minPrice .. maxPrice :
              /\ LevelAt(p).total \in Int /\ LevelAt(p)'.total \in Int
              /\ LevelAt(p).total <= 0 => LevelAt(p)'.total <= 0
              /\ LevelAt(p).total >= 0 => LevelAt(p)'.total >= 0
<1>1. minPrice' = minPrice /\ maxPrice' = maxPrice
  BY DEF window
<1>2. ASSUME NEW p \in minPrice .. maxPrice
      PROVE  /\ LevelAt(p).total \in Int /\ LevelAt(p)'.total \in Int
             /\ LevelAt(p).total <= 0 => LevelAt(p)'.total <= 0
             /\ LevelAt(p).total >= 0 => LevelAt(p)'.total >= 0
  <2>1. p \in Int
    BY DEF Fits
  <2>2. LevelAt(p).total \in Int /\ new.total \in Int
    BY <2>1, LevelIsGood, OfGood
  <2>3. CASE p = price
    <3>1. LevelAt(p)' = new
      BY <2>3 DEF Becomes
    <3> QED
      BY <2>2, <2>3, <3>1
  <2>4. CASE p # price
    <3>1. LevelAt(p)' = LevelAt(p)
      BY <2>4 DEF Becomes
    <3> QED
      BY <2>2, <3>1
  <2> QED
    BY <2>3, <2>4
<1>3. ASSUME Uncrossed
      PROVE  Uncrossed'
  <2> SUFFICES ASSUME NEW low \in minPrice .. maxPrice, NEW high \in minPrice .. maxPrice, low <= high,
                      LevelAt(low)'.total < 0, LevelAt(high)'.total > 0
               PROVE  FALSE
    BY <1>1 DEF Uncrossed
  <2>1. LevelAt(low).total < 0
    BY <1>2
  <2>2. LevelAt(high).total > 0
    BY <1>2
  <2> QED
    BY <1>3, <2>1, <2>2 DEF Uncrossed
<1> QED
  BY <1>2, <1>3

(* A mask changed in the bit of that price alone, and rightly.             *)
LEMMA MaskKept ==
  ASSUME Fits, NEW side \in Sides, UNCHANGED window,
         NEW price \in minPrice .. maxPrice, NEW new, Becomes(price, new),
         NEW E, \A p \in (minPrice .. maxPrice) \ E : Shows(side, p),
         bits'[side] \ {BitOf(side, price)} = bits[side] \ {BitOf(side, price)},
         price \in E \/ (BitOf(side, price) \in bits'[side] <=> side * new.total > 0)
  PROVE  \A p \in (minPrice' .. maxPrice') \ E : Shows(side, p)'
<1>1. minPrice' = minPrice /\ maxPrice' = maxPrice
  BY DEF window
<1> SUFFICES ASSUME NEW p \in (minPrice .. maxPrice) \ E
             PROVE  Shows(side, p)'
  BY <1>1
<1>2. BitOf(side, p)' = BitOf(side, p)
  BY <1>1 DEF BitOf
<1>3. p \in Int /\ price \in Int
  BY DEF Fits
<1>4. CASE p = price
  <2>1. LevelAt(p)' = new
    BY <1>4 DEF Becomes
  <2> QED
    BY <1>2, <1>4, <2>1 DEF Shows
<1>5. CASE p # price
  <2>1. LevelAt(p)' = LevelAt(p)
    BY <1>5 DEF Becomes
  <2>2. BitOf(side, p) # BitOf(side, price)
    BY <1>3, <1>5, BitIs
  <2>3. BitOf(side, p) \in bits'[side] <=> BitOf(side, p) \in bits[side]
    BY <2>2
  <2>4. Shows(side, p)
    OBVIOUS
  <2> QED
    BY <1>2, <2>1, <2>3, <2>4 DEF Shows
<1> QED
  BY <1>4, <1>5

-----------------------------------------------------------------------------
(* The steps that leave the book alone.                                    *)

(* What an unchanged book keeps.                                           *)
LEMMA BookStays ==
  ASSUME IInv, UNCHANGED bookVars
  PROVE  /\ Fits' /\ LevelsGood' /\ RingFollows' /\ MaskType' /\ Uncrossed'
         /\ minPrice' = minPrice /\ maxPrice' = maxPrice /\ bits' = bits
         /\ \A side, p : /\ LevelAt(p)' = LevelAt(p) /\ (Shows(side, p)' <=> Shows(side, p))
         /\ \A side : TopPrice(side)' = TopPrice(side)
<1>1. levels' = levels /\ bits' = bits /\ minIndex' = minIndex /\ minPrice' = minPrice /\ maxPrice' = maxPrice
  BY DEF bookVars, window
<1>2. \A p : LevelAt(p)' = LevelAt(p)
  BY <1>1 DEF LevelAt, IndexOf
<1>3. Fits' /\ LevelsGood' /\ RingFollows' /\ MaskType'
  BY <1>1, Apart DEF Fits, LevelsGood, RingFollows, MaskType, IndexOf
<1>4. Uncrossed'
  BY <1>1, <1>2, Apart DEF Uncrossed
<1>5. \A side, p : Shows(side, p)' <=> Shows(side, p)
  BY <1>1, <1>2 DEF Shows, BitOf
<1>6. \A side : TopPrice(side)' = TopPrice(side)
  BY <1>1 DEF TopPrice
<1> QED
  BY <1>1, <1>2, <1>3, <1>4, <1>5, <1>6

(* Nothing changes but the event.                                          *)
LEMMA NothingChanges ==
  ASSUME IInv, UNCHANGED bookVars, UNCHANGED callVars
  PROVE  IInv'
<1>1. levels' = levels /\ bits' = bits /\ minIndex' = minIndex /\ minPrice' = minPrice /\ maxPrice' = maxPrice
      /\ pc' = pc /\ req' = req /\ left' = left /\ lastPrice' = lastPrice
  BY DEF bookVars, window, callVars
<1>2. \A p : LevelAt(p)' = LevelAt(p)
  BY BookStays
<1>3. CallType'
  BY <1>1, Apart DEF CallType
<1>4. MasksShow'
  <2>1. \A side : Expiring(side)' = Expiring(side)
    BY <1>1 DEF Expiring, MustShiftUp, MustShiftDown, Center, Leaving
  <2> QED
    BY <1>1, <2>1, Apart, BookStays DEF MasksShow
<1>5. WindowFollows' /\ WindowFits'
  BY <1>1, Apart DEF WindowFollows, WindowFits, InWindow
<1>6. SidesAgree'
  <2>1. BestPrice' = BestPrice
    BY <1>1, BookStays DEF BestPrice
  <2> QED
    BY <1>1, <1>2, <2>1, Apart DEF SidesAgree, InWindow
<1>7. TradeParts'
  BY <1>1, <1>2, Apart DEF TradeParts, Center
<1>8. TradeIsThorough'
  BY <1>1, <1>2, Apart DEF TradeIsThorough
<1> QED
  BY <1>3, <1>4, <1>5, <1>6, <1>7, <1>8, BookStays, Together

(* The center is a price of the window.                                    *)
LEMMA CenterInWindow ==
  ASSUME Fits
  PROVE  InWindow(Center) /\ Center \in Int
BY DEF Fits, InWindow, Center

(* A request that begins to trade.                                         *)
LEMMA BeginTradeKeeps ==
  ASSUME IInv, NEW kind \in {"limit", "ioc", "fok"}, NEW side \in Sides, NEW id \in Ids,
         NEW price \in Prices, NEW qty \in Qtys, pc = "idle",
         BeginTrade(kind, side, id, price, qty)
  PROVE  IInv'
<1>1. /\ pc' = "match" /\ req' = [kind |-> kind, side |-> side, id |-> id, price |-> price]
      /\ left' = qty /\ lastPrice' = Center
      /\ UNCHANGED bookVars /\ minPrice' = minPrice /\ maxPrice' = maxPrice
  BY DEF BeginTrade, bookVars, window
<1>2. Fits /\ CallType /\ InWindow(Center) /\ Center \in Int
  BY Apart, CenterInWindow
<1>3. CallType'
  <2>1. Center \in Prices
    BY <1>2, Constants DEF CallType, Fits, InWindow, Prices
  <2>2. left' \in 0 .. MaxQty
    BY <1>1, Constants DEF Qtys
  <2> QED
    BY <1>1, <1>2, <2>1, <2>2 DEF CallType
<1>4. MasksShow'
  <2>1. \A s : Expiring(s) = {} /\ Expiring(s)' = {}
    BY <1>1 DEF Expiring
  <2> QED
    BY <1>1, <2>1, Apart, BookStays DEF MasksShow
<1>5. WindowFollows' /\ WindowFits'
  BY <1>1, <1>2, Apart DEF WindowFollows, WindowFits, InWindow
<1>6. SidesAgree'
  BY <1>1 DEF SidesAgree
<1>7. TradeParts'
  BY <1>1 DEF TradeParts, Center
<1>8. TradeIsThorough'
  BY <1>1, Constants DEF TradeIsThorough, Qtys
<1> QED
  BY <1>1, <1>3, <1>4, <1>5, <1>6, <1>7, <1>8, BookStays, Together

(* An order entered.                                                       *)
LEMMA InsertKeeps ==
  ASSUME IInv, NEW kind \in {"limit", "ioc", "fok"}, NEW side \in Sides, NEW id, NEW price, NEW qty,
         Insert(kind, side, id, price, qty),
         ValidId(id) /\ ValidPrice(price) /\ ValidQty(qty) => id \in Ids /\ price \in Prices /\ qty \in Qtys
  PROVE  IInv'
<1>1. CASE Refuse(CreateRejected(id, qty, "Request")) \/ Refuse(CreateRejected(id, qty, "FOK"))
  BY <1>1, NothingChanges DEF Refuse, Reject
<1>2. CASE ValidId(id) /\ ValidPrice(price) /\ ValidQty(qty) /\ BeginTrade(kind, side, id, price, qty)
  BY <1>2, BeginTradeKeeps DEF Insert, Ready
<1> QED
  BY <1>1, <1>2 DEF Insert

(* The requests that are not ill-formed are of the client's values.        *)
LEMMA IllFormedIsRefused ==
  ASSUME NEW r \in IllFormed
  PROVE  ~ (ValidId(r[1]) /\ ValidPrice(r[2]) /\ ValidQty(r[3]))
         /\ (r[3] \in Qtys => ~ (ValidId(r[1]) /\ ValidPrice(r[2])))
BY Constants DEF IllFormed, ValidId, ValidPrice, ValidQty, InvalidOrderId, Qtys

(* An order the client enters: refused, or of the client's values.         *)
LEMMA CreateIs ==
  ASSUME Create
  PROVE  \E kind \in {"limit", "ioc", "fok"}, side \in Sides : \E id, price, qty :
           /\ Insert(kind, side, id, price, qty)
           /\ ValidId(id) /\ ValidPrice(price) /\ ValidQty(qty) => id \in Ids /\ price \in Prices /\ qty \in Qtys
<1>1. ASSUME NEW side \in Sides, NEW kind \in {"limit", "ioc", "fok"},
             NEW r \in WellFormed \cup IllFormed, Insert(kind, side, r[1], r[2], r[3])
      PROVE  ValidId(r[1]) /\ ValidPrice(r[2]) /\ ValidQty(r[3]) => r[1] \in Ids /\ r[2] \in Prices /\ r[3] \in Qtys
  <2>1. CASE r \in IllFormed
    BY <2>1, IllFormedIsRefused
  <2>2. CASE r \in WellFormed
    BY <2>2, TradeEngineAssumption DEF WellFormed, Prices
  <2> QED
    BY <1>1, <2>1, <2>2
<1>2. ASSUME NEW side \in Sides, NEW kind \in {"limit", "ioc", "fok"},
             NEW id \in Ids, NEW qty \in Qtys, InsertMarket(kind, side, id, qty)
      PROVE  \E price \in Prices : Insert(kind, side, id, price, qty)
  <2>1. MinPrice \in Prices /\ MaxPrice \in Prices
    BY Constants DEF Prices
  <2> QED
    BY <1>2, <2>1 DEF InsertMarket
<1>3. PICK side \in Sides, kind \in {"limit", "ioc", "fok"} :
        \/ \E r \in WellFormed \cup IllFormed : Insert(kind, side, r[1], r[2], r[3])
        \/ \E id \in {i \in Ids : ~ Live(i)}, qty \in Qtys : InsertMarket(kind, side, id, qty)
  BY DEF Create
<1>4. CASE \E r \in WellFormed \cup IllFormed : Insert(kind, side, r[1], r[2], r[3])
  BY <1>1, <1>4
<1>5. CASE \E id \in {i \in Ids : ~ Live(i)}, qty \in Qtys : InsertMarket(kind, side, id, qty)
  BY <1>2, <1>5
<1> QED
  BY <1>3, <1>4, <1>5

(* Any order the client enters.                                            *)
LEMMA CreateKeeps ==
  ASSUME IInv, Create
  PROVE  IInv'
BY CreateIs, InsertKeeps

-----------------------------------------------------------------------------
(* Trading: what is left to do is decided by the best price.               *)

Trading == pc # "idle"

(* The request at work.                                                    *)
LEMMA RequestType ==
  ASSUME CallType, Trading
  PROVE  /\ req.kind \in {"limit", "ioc", "fok"} /\ req.side \in Sides
         /\ req.id \in Ids /\ req.price \in Prices /\ req.price \in Nat
BY Constants DEF CallType, Trading, Prices

(* The best price read from the mask: nothing better is on the other side, *)
(* and a level in the window there has orders.                             *)
LEMMA BestIs ==
  ASSUME IInv, pc \in {"match", "fill"}
  PROVE  /\ BestPrice \in Int /\ minPrice - 1 <= BestPrice /\ BestPrice <= maxPrice + 1
         /\ InWindow(BestPrice) => req.side * LevelAt(BestPrice).total < 0
         /\ req.side = Buy  => /\ minPrice <= BestPrice
                               /\ \A p \in minPrice .. maxPrice : p < BestPrice => LevelAt(p).total >= 0
         /\ req.side = Sell => /\ BestPrice <= maxPrice
                               /\ \A p \in minPrice .. maxPrice : p > BestPrice => LevelAt(p).total <= 0
<1> DEFINE other == Opposite(req.side)
<1>1. Fits /\ LevelsGood /\ MaskType /\ CallType /\ MasksShow
  BY Apart
<1>2. req.side \in Sides /\ other \in Sides
  BY <1>1, RequestType, SideIsOne DEF Trading
<1>3. \A p \in minPrice .. maxPrice : Shows(other, p)
  <2>1. Expiring(other) = {}
    BY DEF Expiring
  <2> QED
    BY <1>1, <1>2, <2>1 DEF MasksShow
<1>4. BestPrice = TopPrice(other)
  BY DEF BestPrice
<1>5. req.side = Buy => other = Sell
  BY NamesOfSides
<1>6. req.side = Sell => other = Buy
  BY NamesOfSides
<1> HIDE DEF other
<1>7. /\ BestPrice \in Int /\ minPrice - 1 <= BestPrice /\ BestPrice <= maxPrice + 1
      /\ InWindow(BestPrice) => other * LevelAt(BestPrice).total > 0
      /\ other = Sell => /\ minPrice <= BestPrice
                         /\ \A p \in minPrice .. maxPrice : p < BestPrice => LevelAt(p).total >= 0
      /\ other = Buy  => /\ BestPrice <= maxPrice
                         /\ \A p \in minPrice .. maxPrice : p > BestPrice => LevelAt(p).total <= 0
  BY <1>1, <1>2, <1>3, <1>4, TopIs
<1>8. InWindow(BestPrice) => req.side * LevelAt(BestPrice).total < 0
  <2>1. LevelAt(BestPrice).total \in Int
    BY <1>1, <1>7, LevelIsGood
  <2>2. Opposite(req.side) * LevelAt(BestPrice).total > 0 <=> req.side * LevelAt(BestPrice).total < 0
    BY <1>2, <2>1, OppositeSign
  <2> QED
    BY <1>7, <2>2 DEF other
<1> QED
  BY <1>5, <1>6, <1>7, <1>8

(* Match.                                                                  *)
LEMMA MatchKeeps ==
  ASSUME IInv, Match
  PROVE  IInv'
<1>1. /\ pc = "match" /\ UNCHANGED bookVars /\ req' = req /\ left' = left /\ lastPrice' = lastPrice
      /\ minPrice' = minPrice /\ maxPrice' = maxPrice
      /\ pc' = IF Within(req.side, BestPrice, Limit) THEN "fill" ELSE "shift"
  BY DEF Match, Reached, bookVars, window
<1>2. /\ Fits /\ LevelsGood /\ CallType /\ WindowFollows /\ WindowFits /\ TradeParts /\ TradeIsThorough
      /\ MasksShow
  BY Apart
<1>3. CallType'
  BY <1>1, <1>2 DEF CallType
<1>4. MasksShow'
  <2>1. \A s : Expiring(s) = {}
    BY <1>1 DEF Expiring
  <2> QED
    BY <1>1, <1>2, <2>1, BookStays DEF MasksShow
<1>5. WindowFollows' /\ WindowFits'
  BY <1>1, <1>2 DEF WindowFollows, WindowFits, InWindow
<1>6. /\ req.side \in Sides /\ req.price \in Nat /\ BestPrice \in Int
      /\ minPrice \in Nat /\ maxPrice \in Nat /\ minPrice <= maxPrice
  BY <1>1, <1>2, RequestType, BestIs DEF Trading, Fits
<1>7. SidesAgree'
  <2>1. ASSUME Within(req.side, BestPrice, Limit)
        PROVE  InWindow(BestPrice)
    <3>1. CASE req.side = Buy
      <4>1. minPrice <= BestPrice /\ BestPrice <= Limit
        BY <1>1, <2>1, <3>1, BestIs, NamesOfSides DEF Within
      <4>2. Limit <= maxPrice /\ Limit \in Int
        BY <1>6, <3>1, NamesOfSides DEF Limit, BottomPrice, Smaller
      <4> QED
        BY <1>6, <4>1, <4>2 DEF InWindow
    <3>2. CASE req.side = Sell
      <4>1. BestPrice <= maxPrice /\ BestPrice >= Limit
        BY <1>1, <2>1, <3>2, BestIs DEF Within
      <4>2. Limit >= minPrice /\ Limit \in Int
        BY <1>6, <3>2 DEF Limit, BottomPrice, Larger
      <4> QED
        BY <1>6, <4>1, <4>2 DEF InWindow
    <3> QED
      BY <1>6, <3>1, <3>2, NamesOfSides
  <2>2. pc' = "fill" => req.side * LevelAt(BestPrice).total < 0
    BY <1>1, <2>1, BestIs
  <2>3. BestPrice' = BestPrice /\ \A p : LevelAt(p)' = LevelAt(p)
    BY <1>1, BookStays DEF BestPrice
  <2> QED
    BY <1>1, <2>2, <2>3 DEF SidesAgree
<1>8. TradeParts'
  BY <1>1, <1>2, BookStays DEF TradeParts, Center
<1>9. TradeIsThorough'
  <2>1. pc' = "fill" => left' > 0
    BY <1>1, <1>2 DEF TradeIsThorough
  <2>2. ASSUME ~ Within(req.side, BestPrice, Limit), NEW p \in minPrice .. maxPrice,
               Within(req.side, p, req.price)
        PROVE  req.side * LevelAt(p).total >= 0
    <3>1. p \in Int /\ LevelAt(p).total \in Int
      BY <1>2, <1>6, LevelIsGood
    <3>2. CASE req.side = Buy
      <4>1. BestPrice > Limit /\ p <= req.price
        BY <1>6, <2>2, <3>2, NamesOfSides DEF Within, Limit, BottomPrice, Smaller
      <4>2. Limit >= p
        BY <1>6, <3>2, <4>1, NamesOfSides DEF Limit, BottomPrice, Smaller
      <4>3. p < BestPrice
        <5>1. Limit \in Int
          BY <1>6, <3>2, NamesOfSides DEF Limit, BottomPrice, Smaller
        <5> QED
          BY <1>6, <3>1, <4>1, <4>2, <5>1
      <4>4. LevelAt(p).total >= 0
        BY <1>1, <3>2, <4>3, BestIs
      <4> QED
        BY <3>1, <3>2, <4>4, NamesOfSides
    <3>3. CASE req.side = Sell
      <4>1. BestPrice < Limit /\ p >= req.price
        BY <1>6, <2>2, <3>3 DEF Within, Limit, BottomPrice, Larger
      <4>2. Limit <= p /\ Limit \in Int
        BY <1>6, <3>3, <4>1 DEF Limit, BottomPrice, Larger
      <4>3. p > BestPrice
        BY <1>6, <3>1, <4>1, <4>2
      <4>4. LevelAt(p).total <= 0
        BY <1>1, <3>3, <4>3, BestIs
      <4> QED
        BY <3>1, <3>3, <4>4, NamesOfSides
    <3> QED
      BY <1>6, <3>2, <3>3, NamesOfSides
  <2> QED
    BY <1>1, <2>1, <2>2, BookStays DEF TradeIsThorough
<1> QED
  BY <1>1, <1>3, <1>4, <1>5, <1>7, <1>8, <1>9, BookStays, Together

-----------------------------------------------------------------------------
(* One order is taken from the best level of the other side.               *)

(* A ring slot beside the window holds nothing.                            *)
LEMMA BesideIsNew ==
  ASSUME Fits, LevelsGood, RingFollows, NEW p \in {minPrice - 1, maxPrice + 1}
  PROVE  LevelAt(p) = NewLevel
<1> SUFFICES ASSUME LevelAt(p) # NewLevel
             PROVE  FALSE
  OBVIOUS
<1>1. p \in Int /\ IndexOf(p) \in 0 .. Size - 1
  BY IndexType DEF Fits
<1>2. PICK q \in minPrice .. maxPrice : IndexOf(p) = IndexOf(q)
  BY <1>1 DEF RingFollows, LevelAt
<1>3. q \in Int /\ -Size < p - q /\ p - q < Size /\ p # q
  BY <1>1, <1>2, Constants DEF Fits
<1> QED
  BY <1>1, <1>2, <1>3, IndexDistinct

(* An order is filled at a price of the window.                            *)
LEMMA BestInWindow ==
  ASSUME IInv, pc = "fill"
  PROVE  BestPrice \in minPrice .. maxPrice /\ req.side * LevelAt(BestPrice).total < 0
<1>1. Fits /\ LevelsGood /\ RingFollows /\ SidesAgree /\ CallType
  BY Apart
<1>2. req.side * LevelAt(BestPrice).total < 0
  BY <1>1 DEF SidesAgree
<1>3. BestPrice \in Int /\ minPrice - 1 <= BestPrice /\ BestPrice <= maxPrice + 1
  BY BestIs
<1>4. BestPrice \notin {minPrice - 1, maxPrice + 1}
  <2> SUFFICES ASSUME BestPrice \in {minPrice - 1, maxPrice + 1}
               PROVE  FALSE
    OBVIOUS
  <2>1. LevelAt(BestPrice).total = 0
    BY <1>1, BesideIsNew DEF NewLevel
  <2>2. req.side \in Int
    BY <1>1, RequestType, SideIsOne DEF Trading
  <2> QED
    BY <1>2, <2>1, <2>2
<1> QED
  BY <1>1, <1>2, <1>3, <1>4 DEF Fits

(* Fill.                                                                   *)
LEMMA FillKeeps ==
  ASSUME IInv, Fill
  PROVE  IInv'
<1> DEFINE side  == req.side
           price == BestPrice
           level == LevelAt(price)
           order == Front(level)
           min   == Smaller(left, order.qty)
           after == FillFront(side, level, min)
           taken == min = order.qty /\ Empty(after)
<1>1. /\ pc = "fill" /\ req' = req
      /\ left' = left - min /\ lastPrice' = price
      /\ levels' = [levels EXCEPT ![IndexOf(price)] = after]
      /\ bits' = IF taken THEN WithoutBit(Opposite(side), price) ELSE bits
      /\ pc' = IF left' = 0 THEN "shift" ELSE IF taken THEN "match" ELSE "fill"
      /\ UNCHANGED window /\ minPrice' = minPrice /\ maxPrice' = maxPrice
  BY DEF Fill, Reached, window
<1>2. /\ Fits /\ LevelsGood /\ RingFollows /\ CallType /\ MaskType /\ MasksShow
      /\ WindowFollows /\ WindowFits /\ Uncrossed /\ TradeIsThorough
  BY Apart
<1>3. side \in Sides /\ Opposite(side) \in Sides /\ price \in minPrice .. maxPrice /\ price \in Int
      /\ side * level.total < 0 /\ Good(level) /\ level.total \in Int
  <2>1. side \in Sides /\ Opposite(side) \in Sides
    BY <1>1, <1>2, RequestType, SideIsOne DEF Trading
  <2>2. price \in minPrice .. maxPrice /\ side * level.total < 0 /\ price \in Int
    BY <1>1, <1>2, BestInWindow DEF Fits
  <2> QED
    BY <1>2, <2>1, <2>2, LevelIsGood
<1>4. left \in 1 .. MaxQty
  BY <1>1, <1>2, Constants DEF TradeIsThorough, CallType
<1>5. /\ min \in 1 .. left /\ Good(after) /\ side * after.total <= 0
      /\ min # order.qty => side * after.total < 0 /\ min = left
  <2> HIDE DEF side, level
  <2> QED
    BY <1>3, <1>4, FillIsGood
<1> HIDE DEF after, min, taken, order, side, price
<1>6. after.total \in Int /\ side * after.total \in Int
  BY <1>3, <1>5, OfGood, SideSigns
<1>7. /\ Fits' /\ LevelsGood' /\ RingFollows' /\ Becomes(price, after)
  BY <1>1, <1>2, <1>3, <1>5, OneLevel DEF Becomes
<1>8. /\ after.total < 0 => level.total < 0
      /\ after.total > 0 => level.total > 0
      /\ side * after.total = 0 <=> after.total = 0
      /\ Opposite(side) * after.total > 0 <=> side * after.total < 0
  <2> DEFINE a == after.total
             b == level.total
  <2>1. /\ a \in Int /\ b \in Int /\ side \in Sides /\ side * a <= 0 /\ side * b < 0
    BY <1>3, <1>5, <1>6
  <2> HIDE DEF a, b
  <2>2. /\ a < 0 => b < 0
        /\ a > 0 => b > 0
    <3>1. CASE side = Buy
      BY <2>1, <3>1, SideSigns
    <3>2. CASE side = Sell
      BY <2>1, <3>2, SideSigns
    <3> QED
      BY <2>1, <3>1, <3>2, NamesOfSides
  <2>3. side * a = 0 <=> a = 0
    BY <2>1, SideSigns
  <2>4. Opposite(side) * a > 0 <=> side * a < 0
    BY <2>1, OppositeSign
  <2> QED
    BY <2>2, <2>3, <2>4 DEF a, b
<1>9. Uncrossed'
  BY <1>1, <1>2, <1>3, <1>5, <1>7, <1>8, SignsKept
<1>10. left' \in 0 .. left /\ left' \in Nat /\ (left' = 0 \/ left' > 0)
  BY <1>1, <1>4, <1>5, Constants
<1>11. CallType'
  <2>1. price \in Prices
    BY <1>2, <1>3, Constants DEF CallType, Fits, Prices
  <2>2. left' \in 0 .. MaxQty
    BY <1>4, <1>10, Constants
  <2> QED
    BY <1>1, <1>2, <2>1, <2>2 DEF CallType
<1>12. taken <=> side * after.total = 0
  <2>1. taken => after.total = 0
    BY DEF taken, Empty
  <2>2. after.total = 0 => min = order.qty
    BY <1>5, <1>6, <1>8
  <2> QED
    BY <1>8, <2>1, <2>2 DEF taken, Empty
<1>13. bits' \in [Sides -> SUBSET (0 .. Size - 1)]
       /\ \A s \in Sides : bits'[s] = IF s = Opposite(side) /\ taken THEN bits[s] \ {BitOf(s, price)} ELSE bits[s]
  BY <1>1, <1>2, <1>3 DEF WithoutBit, MaskType
<1>14. MaskType'
  BY <1>1, <1>2, <1>13 DEF MaskType
<1>15. MasksShow'
  <2> SUFFICES ASSUME NEW s \in Sides
               PROVE  \A p \in (minPrice' .. maxPrice') \ {} : Shows(s, p)'
    BY DEF MasksShow
  <2>1. \A p \in (minPrice .. maxPrice) \ {} : Shows(s, p)
    <3>1. Expiring(s) = {}
      BY <1>1 DEF Expiring
    <3> QED
      BY <1>2, <3>1 DEF MasksShow
  <2>2. bits'[s] \ {BitOf(s, price)} = bits[s] \ {BitOf(s, price)}
    BY <1>13
  <2>3. BitOf(s, price) \in bits[s] <=> s * level.total > 0
    BY <1>3, <2>1 DEF Shows
  <2>4. BitOf(s, price) \in bits'[s] <=> s * after.total > 0
    <3>1. CASE s = side
      <4>1. s # Opposite(side)
        BY <1>3, <3>1, SideIsOne
      <4>2. BitOf(s, price) \in bits'[s] <=> BitOf(s, price) \in bits[s]
        BY <1>13, <4>1
      <4>3. ~ (s * level.total > 0) /\ ~ (s * after.total > 0)
        BY <1>3, <1>5, <1>6, <3>1, SideSigns
      <4> QED
        BY <2>3, <4>2, <4>3
    <3>2. CASE s = Opposite(side)
      <4>1. s * level.total > 0
        BY <1>3, <3>2, OppositeSign
      <4>2. BitOf(s, price) \in bits'[s] <=> ~ taken
        BY <1>13, <2>3, <3>2, <4>1
      <4>3. ~ taken <=> side * after.total < 0
        BY <1>5, <1>6, <1>12
      <4> QED
        BY <1>8, <3>2, <4>2, <4>3
    <3> QED
      BY <1>3, <3>1, <3>2, NamesOfSides
  <2> QED
    BY <1>1, <1>2, <1>3, <1>7, <2>1, <2>2, <2>4, MaskKept
<1>16. WindowFollows' /\ WindowFits'
  <2>1. pc' # "rest" /\ InWindow(price)
    BY <1>1, <1>2, <1>3, InWindowIs
  <2> QED
    BY <1>1, <1>2, <2>1 DEF WindowFollows, WindowFits, InWindow
<1>17. SidesAgree'
  <2>1. pc' # "rest"
    BY <1>1
  <2>2. ASSUME pc' = "fill"
        PROVE  (req.side * LevelAt(BestPrice).total < 0)'
    <3>1. ~ taken /\ bits' = bits
      BY <1>1, <2>2
    <3>2. BestPrice' = BestPrice
      BY <1>1, <3>1 DEF BestPrice, TopPrice
    <3>3. \A p \in minPrice .. maxPrice : p = price => LevelAt(p)' = after
      BY <1>7 DEF Becomes
    <3>4. LevelAt(BestPrice)' = after
      BY <1>3, <3>2, <3>3 DEF price, LevelAt, IndexOf
    <3>5. side * after.total < 0
      BY <1>5, <1>6, <1>12, <3>1
    <3> QED
      BY <1>1, <3>4, <3>5 DEF side
  <2> QED
    BY <2>1, <2>2 DEF SidesAgree
<1>18. TradeParts'
  <2> SUFFICES ASSUME NEW p \in minPrice .. maxPrice
               PROVE  /\ p > price => LevelAt(p)'.total <= 0
                      /\ p < price => LevelAt(p)'.total >= 0
    BY <1>1 DEF TradeParts
  <2>1. p # price => LevelAt(p)' = LevelAt(p)
    BY <1>7 DEF Becomes
  <2>2. p \in Int /\ LevelAt(p).total \in Int
    BY <1>2, LevelIsGood DEF Fits
  <2>3. CASE side = Buy
    <3>1. p < price => LevelAt(p).total >= 0
      BY <1>1, <2>3, BestIs DEF price, side
    <3>2. p > price => LevelAt(p).total <= 0
      <4>1. level.total < 0
        BY <1>3, <2>3, SideSigns
      <4>2. price <= p => ~ (LevelAt(p).total > 0)
        BY <1>2, <1>3, <4>1 DEF Uncrossed
      <4> QED
        BY <1>3, <2>2, <4>2
    <3> QED
      BY <1>3, <2>1, <2>2, <3>1, <3>2
  <2>4. CASE side = Sell
    <3>1. p > price => LevelAt(p).total <= 0
      BY <1>1, <2>4, BestIs DEF price, side
    <3>2. p < price => LevelAt(p).total >= 0
      <4>1. level.total > 0
        BY <1>3, <2>4, SideSigns
      <4>2. p <= price => ~ (LevelAt(p).total < 0)
        BY <1>2, <1>3, <4>1 DEF Uncrossed
      <4> QED
        BY <1>3, <2>2, <4>2
    <3> QED
      BY <1>3, <2>1, <2>2, <3>1, <3>2
  <2> QED
    BY <1>3, <2>3, <2>4, NamesOfSides
<1>19. TradeIsThorough'
  BY <1>1, <1>10 DEF TradeIsThorough
<1> QED
  BY <1>7, <1>9, <1>11, <1>14, <1>15, <1>16, <1>17, <1>18, <1>19, Together

-----------------------------------------------------------------------------
(* The window: what leaves it is emptied, and then it moves or stays.      *)

(* What the window must do, by the last trade and the center.              *)
LEMMA ShiftFacts ==
  ASSUME IInv, pc = "shift"
  PROVE  /\ lastPrice \in Int /\ minPrice <= lastPrice /\ lastPrice <= maxPrice
         /\ Center \in Int /\ minPrice <= Center /\ Center <= maxPrice
         /\ MustShiftUp(lastPrice) =>
              /\ ~ MustShiftDown(lastPrice) /\ maxPrice + Shift <= MaxPrice
              /\ minPrice + Shift < lastPrice
              /\ \A p \in minPrice .. maxPrice : p < lastPrice => LevelAt(p).total >= 0
         /\ MustShiftDown(lastPrice) =>
              /\ ~ MustShiftUp(lastPrice) /\ minPrice - Shift >= MinPrice
              /\ lastPrice < maxPrice - Shift
              /\ \A p \in minPrice .. maxPrice : p > lastPrice => LevelAt(p).total <= 0
<1>1. Fits /\ WindowFits /\ TradeParts /\ CallType
  BY Apart
<1>2. lastPrice \in Int /\ minPrice <= lastPrice /\ lastPrice <= maxPrice
  BY <1>1, Constants DEF WindowFits, InWindow, CallType, Prices
<1>3. Center \in Int /\ minPrice <= Center /\ Center <= maxPrice
  BY <1>1, CenterInWindow DEF InWindow
<1>4. Shift \in Nat \ {0} /\ MaxPrice \in Int /\ MinPrice \in Int /\ minPrice \in Nat /\ maxPrice \in Nat
  BY <1>1, Constants DEF Fits
<1>5. lastPrice # Center =>
        \A p \in minPrice .. maxPrice : /\ p > lastPrice => LevelAt(p).total <= 0
                                        /\ p < lastPrice => LevelAt(p).total >= 0
  BY <1>1 DEF TradeParts
<1> HIDE DEF Center
<1>6. ASSUME MustShiftUp(lastPrice)
      PROVE  /\ ~ MustShiftDown(lastPrice) /\ maxPrice + Shift <= MaxPrice
             /\ minPrice + Shift < lastPrice /\ lastPrice # Center
  BY <1>2, <1>3, <1>4, <1>6 DEF MustShiftUp, MustShiftDown
<1>7. ASSUME MustShiftDown(lastPrice)
      PROVE  /\ ~ MustShiftUp(lastPrice) /\ minPrice - Shift >= MinPrice
             /\ lastPrice < maxPrice - Shift /\ lastPrice # Center
  BY <1>2, <1>3, <1>4, <1>7 DEF MustShiftUp, MustShiftDown
<1> QED
  BY <1>2, <1>3, <1>5, <1>6, <1>7

(* One order of the side that leaves is dropped.                           *)
LEMMA ExpireOrderKeeps ==
  ASSUME IInv, pc = "shift", UNCHANGED callVars, NEW side \in Sides,
         NEW price \in Leaving(side), ~ Empty(LevelAt(price)),
         IF side = Buy THEN MustShiftUp(lastPrice) ELSE MustShiftDown(lastPrice),
         levels' = [levels EXCEPT ![IndexOf(price)] = PopFront(side, LevelAt(price))],
         UNCHANGED <<window, bits>>
  PROVE  IInv'
<1> DEFINE level == LevelAt(price)
           after == PopFront(side, level)
<1>1. /\ pc' = pc /\ req' = req /\ left' = left /\ lastPrice' = lastPrice /\ bits' = bits
      /\ UNCHANGED window /\ minPrice' = minPrice /\ maxPrice' = maxPrice
  BY DEF callVars, window
<1>2. /\ Fits /\ LevelsGood /\ RingFollows /\ CallType /\ MaskType /\ MasksShow
      /\ WindowFollows /\ WindowFits /\ Uncrossed /\ TradeParts /\ TradeIsThorough
  BY Apart
<1>3. price \in minPrice .. maxPrice /\ price \in Int
  <2>1. CASE side = Buy
    <3>1. MustShiftUp(lastPrice) /\ price \in minPrice .. minPrice + Shift - 1
      BY <2>1 DEF Leaving
    <3> QED
      BY <1>2, <3>1, ShiftFacts, Constants DEF Fits
  <2>2. CASE side = Sell
    <3>1. MustShiftDown(lastPrice) /\ price \in maxPrice - Shift + 1 .. maxPrice
      BY <2>2, NamesOfSides DEF Leaving
    <3> QED
      BY <1>2, <3>1, ShiftFacts, Constants DEF Fits
  <2> QED
    BY <2>1, <2>2, NamesOfSides
<1>4. Good(level) /\ level.total \in Int /\ level.total # 0
  BY <1>2, <1>3, LevelIsGood DEF Empty
<1>5. side * level.total > 0
  <2>1. CASE side = Buy
    <3>1. MustShiftUp(lastPrice) /\ price \in minPrice .. minPrice + Shift - 1
      BY <2>1 DEF Leaving
    <3>2. price < lastPrice
      BY <1>2, <1>3, <3>1, ShiftFacts, Constants DEF Fits
    <3>3. level.total >= 0
      BY <1>3, <3>1, <3>2, ShiftFacts
    <3> QED
      BY <1>4, <2>1, <3>3, SideSigns
  <2>2. CASE side = Sell
    <3>1. MustShiftDown(lastPrice) /\ price \in maxPrice - Shift + 1 .. maxPrice
      BY <2>2, NamesOfSides DEF Leaving
    <3>2. price > lastPrice
      BY <1>2, <1>3, <3>1, ShiftFacts, Constants DEF Fits
    <3>3. level.total <= 0
      BY <1>3, <3>1, <3>2, ShiftFacts
    <3> QED
      BY <1>4, <2>2, <3>3, SideSigns
  <2> QED
    BY <2>1, <2>2, NamesOfSides
<1> HIDE DEF level
<1>6. Good(after) /\ side * after.total >= 0
  BY <1>4, <1>5, PopIsGood
<1> HIDE DEF after
<1>7. /\ Fits' /\ LevelsGood' /\ RingFollows' /\ Becomes(price, after)
  BY <1>1, <1>2, <1>3, <1>6, OneLevel DEF Becomes, after, level
<1>8. /\ after.total < 0 => level.total < 0
      /\ after.total > 0 => level.total > 0
      /\ after.total \in Int
  <2>1. after.total \in Int
    BY <1>6, OfGood
  <2> QED
    BY <1>4, <1>5, <1>6, <2>1, SideSigns, NamesOfSides
<1>9. /\ Uncrossed'
      /\ \A p \in minPrice .. maxPrice :
           /\ LevelAt(p).total \in Int /\ LevelAt(p)'.total \in Int
           /\ LevelAt(p).total <= 0 => LevelAt(p)'.total <= 0
           /\ LevelAt(p).total >= 0 => LevelAt(p)'.total >= 0
  BY <1>1, <1>2, <1>3, <1>6, <1>7, <1>8, SignsKept DEF level
<1>10. CallType'
  BY <1>1, <1>2 DEF CallType
<1>11. MaskType'
  BY <1>1, <1>2 DEF MaskType
<1>12. \A s : Expiring(s)' = Expiring(s)
  BY <1>1 DEF Expiring, MustShiftUp, MustShiftDown, Center, Leaving
<1>13. MasksShow'
  <2> SUFFICES ASSUME NEW s \in Sides
               PROVE  \A p \in (minPrice' .. maxPrice') \ Expiring(s) : Shows(s, p)'
    BY <1>12 DEF MasksShow
  <2>1. \A p \in (minPrice .. maxPrice) \ Expiring(s) : Shows(s, p)
    BY <1>2 DEF MasksShow
  <2>2. price \in Expiring(s) \/ (BitOf(s, price) \in bits'[s] <=> s * after.total > 0)
    <3>1. CASE s = side
      BY <3>1 DEF Expiring
    <3>2. CASE s # side
      <4>1. s = Opposite(side)
        BY <3>2, NamesOfSides
      <4>2. Expiring(s) = {}
        BY <3>2, ShiftFacts, NamesOfSides DEF Expiring
      <4>3. Shows(s, price)
        BY <1>3, <2>1, <4>2
      <4>4. ~ (s * level.total > 0) /\ ~ (s * after.total > 0)
        <5>1. side * level.total \in Int /\ side * after.total \in Int
          BY <1>4, <1>8, SideSigns
        <5> QED
          BY <1>4, <1>5, <1>6, <1>8, <4>1, <5>1, OppositeSign
      <4> QED
        BY <1>1, <4>3, <4>4 DEF Shows, level
    <3> QED
      BY <3>1, <3>2
  <2> QED
    BY <1>1, <1>2, <1>3, <1>7, <2>1, <2>2, MaskKept
<1>14. WindowFollows' /\ WindowFits'
  BY <1>1, <1>2 DEF WindowFollows, WindowFits, InWindow
<1>15. SidesAgree'
  BY <1>1 DEF SidesAgree
<1>16. TradeParts'
  BY <1>1, <1>2, <1>9 DEF TradeParts, Center
<1>17. TradeIsThorough'
  <2> SUFFICES ASSUME left > 0, NEW p \in minPrice .. maxPrice, Within(req.side, p, req.price)
               PROVE  req.side * LevelAt(p)'.total >= 0
    BY <1>1 DEF TradeIsThorough
  <2>1. req.side * LevelAt(p).total >= 0
    BY <1>2 DEF TradeIsThorough
  <2>2. req.side \in Sides
    BY <1>2, RequestType DEF Trading
  <2>3. LevelAt(p).total \in Int /\ LevelAt(p)'.total \in Int
    BY <1>9
  <2>4. CASE req.side = Buy
    <3>1. LevelAt(p).total >= 0
      BY <2>1, <2>3, <2>4, NamesOfSides
    <3>2. LevelAt(p)'.total >= 0
      BY <1>9, <3>1
    <3> QED
      BY <2>3, <2>4, <3>2, NamesOfSides
  <2>5. CASE req.side = Sell
    <3>1. LevelAt(p).total <= 0
      BY <2>1, <2>3, <2>5, NamesOfSides
    <3>2. LevelAt(p)'.total <= 0
      BY <1>9, <3>1
    <3> QED
      BY <2>3, <2>5, <3>2, NamesOfSides
  <2> QED
    BY <2>2, <2>4, <2>5, NamesOfSides
<1> QED
  BY <1>7, <1>9, <1>10, <1>11, <1>13, <1>14, <1>15, <1>16, <1>17, Together

(* Expire.                                                                 *)
LEMMA ExpireKeeps ==
  ASSUME IInv, Expire
  PROVE  IInv'
<1>1. pc = "shift" /\ UNCHANGED callVars /\ Fits
  BY Apart DEF Expire, Reached
<1>2. CASE MustShiftUp(lastPrice) /\ Occupied(Buy) # {} /\ ExpireOrder(Buy)
  <2> DEFINE price == Min(Occupied(Buy))
  <2>1. Occupied(Buy) \in SUBSET Nat
    BY <1>1, Constants DEF Occupied, Leaving, Fits
  <2>2. price \in Occupied(Buy)
    BY <1>2, <2>1, MinIs
  <2>3. price \in Leaving(Buy) /\ ~ Empty(LevelAt(price))
    BY <2>2 DEF Occupied
  <2>4. /\ levels' = [levels EXCEPT ![IndexOf(price)] = PopFront(Buy, LevelAt(price))]
        /\ UNCHANGED <<window, bits>>
    BY <1>2 DEF ExpireOrder
  <2> HIDE DEF price
  <2> QED
    BY <1>1, <1>2, <2>3, <2>4, ExpireOrderKeeps, NamesOfSides
<1>3. CASE MustShiftDown(lastPrice) /\ Occupied(Sell) # {} /\ ExpireOrder(Sell)
  <2> DEFINE price == Max(Occupied(Sell))
  <2>1. maxPrice \in Nat /\ Occupied(Sell) \in SUBSET (0 .. maxPrice)
    <3>1. maxPrice - Shift + 1 > 0
      BY <1>1, <1>3, ShiftFacts, Constants DEF Fits
    <3> QED
      BY <1>1, <3>1, Constants, NamesOfSides DEF Occupied, Leaving, Fits
  <2>2. price \in Occupied(Sell)
    BY <1>3, <2>1, MaxIs
  <2>3. price \in Leaving(Sell) /\ ~ Empty(LevelAt(price))
    BY <2>2 DEF Occupied
  <2>4. /\ levels' = [levels EXCEPT ![IndexOf(price)] = PopFront(Sell, LevelAt(price))]
        /\ UNCHANGED <<window, bits>>
    BY <1>3, NamesOfSides DEF ExpireOrder
  <2> HIDE DEF price
  <2> QED
    BY <1>1, <1>3, <2>3, <2>4, ExpireOrderKeeps, NamesOfSides
<1> QED
  BY <1>2, <1>3 DEF Expire

-----------------------------------------------------------------------------
(* The masks move with the window.                                         *)
LEMMA MasksMove ==
  ASSUME Fits, LevelsGood, MaskType, NEW d \in Int, Fits',
         minPrice' = minPrice + d, maxPrice' = maxPrice + d,
         \A p \in minPrice + d .. maxPrice + d :
           LevelAt(p)' = IF p \in minPrice .. maxPrice THEN LevelAt(p) ELSE NewLevel,
         \A p \in minPrice .. maxPrice : p \notin minPrice + d .. maxPrice + d => Empty(LevelAt(p)),
         \A s \in Sides : \A p \in minPrice .. maxPrice :
           p \in minPrice + d .. maxPrice + d => Shows(s, p),
         \A p \in minPrice .. maxPrice : d > 0 => Shows(Sell, p),
         \A p \in minPrice .. maxPrice : d < 0 => Shows(Buy, p),
         bits' \in [Sides -> SUBSET (0 .. Size - 1)],
         \A x \in 0 .. Size - 1 : x \in bits'[Sell] <=> x - d \in bits[Sell],
         \A x \in 0 .. Size - 1 : x \in bits'[Buy] <=> x + d \in bits[Buy]
  PROVE  /\ MaskType'
         /\ \A s \in Sides : \A p \in minPrice' .. maxPrice' : Shows(s, p)'
<1> DEFINE w == maxPrice - minPrice
<1>1. /\ w \in 0 .. Size - 2 /\ minPrice \in Nat /\ maxPrice \in Nat /\ Size \in Nat
      /\ maxPrice' - minPrice' = w
  BY Constants DEF Fits
<1>2. bits[Sell] \subseteq 0 .. w /\ bits[Buy] \subseteq 0 .. w
  BY NamesOfSides DEF MaskType
<1>3. ASSUME NEW x \in bits'[Sell]
      PROVE  x \in 0 .. w
  <2>1. x \in 0 .. Size - 1 /\ x - d \in bits[Sell] /\ x - d \in 0 .. w
    BY <1>2, NamesOfSides
  <2> DEFINE p == maxPrice - (x - d)
  <2>2. p \in minPrice .. maxPrice /\ BitOf(Sell, p) = x - d
    BY <1>1, <2>1 DEF BitOf
  <2> SUFFICES ASSUME x > w
               PROVE  FALSE
    BY <1>1, <2>1
  <2>3. d > 0 /\ p \notin minPrice + d .. maxPrice + d
    BY <1>1, <2>1
  <2>4. Shows(Sell, p) /\ Empty(LevelAt(p))
    BY <2>2, <2>3
  <2>5. Sell * LevelAt(p).total > 0 /\ LevelAt(p).total = 0
    BY <2>1, <2>2, <2>4 DEF Shows, Empty
  <2> QED
    BY <2>5, NamesOfSides
<1>4. ASSUME NEW x \in bits'[Buy]
      PROVE  x \in 0 .. w
  <2>1. x \in 0 .. Size - 1 /\ x + d \in bits[Buy] /\ x + d \in 0 .. w
    BY <1>2, NamesOfSides
  <2> DEFINE p == minPrice + (x + d)
  <2>2. p \in minPrice .. maxPrice /\ BitOf(Buy, p) = x + d
    BY <1>1, <2>1, NamesOfSides DEF BitOf
  <2> SUFFICES ASSUME x > w
               PROVE  FALSE
    BY <1>1, <2>1
  <2>3. d < 0 /\ p \notin minPrice + d .. maxPrice + d
    BY <1>1, <2>1
  <2>4. Shows(Buy, p) /\ Empty(LevelAt(p))
    BY <2>2, <2>3
  <2>5. Buy * LevelAt(p).total > 0 /\ LevelAt(p).total = 0
    BY <2>1, <2>2, <2>4 DEF Shows, Empty
  <2> QED
    BY <2>5, NamesOfSides
<1>5. MaskType'
  BY <1>1, <1>3, <1>4, NamesOfSides DEF MaskType
<1>6. ASSUME NEW s \in Sides, NEW p \in minPrice + d .. maxPrice + d
      PROVE  Shows(s, p)'
  <2>1. p \in Int
    BY <1>1
  <2>2. BitOf(s, p)' \in bits'[s] <=> BitOf(s, p) \in bits[s]
    <3>1. CASE s = Sell
      <4>1. BitOf(s, p)' = maxPrice + d - p /\ BitOf(s, p) = maxPrice - p
        BY <1>1, <2>1, <3>1 DEF BitOf
      <4>2. maxPrice + d - p \in 0 .. Size - 1 /\ (maxPrice + d - p) - d = maxPrice - p
        BY <1>1
      <4> QED
        BY <3>1, <4>1, <4>2
    <3>2. CASE s = Buy
      <4>1. BitOf(s, p)' = p - (minPrice + d) /\ BitOf(s, p) = p - minPrice
        BY <3>2, NamesOfSides DEF BitOf
      <4>2. p - (minPrice + d) \in 0 .. Size - 1 /\ (p - (minPrice + d)) + d = p - minPrice
        BY <1>1
      <4> QED
        BY <3>2, <4>1, <4>2
    <3> QED
      BY <3>1, <3>2, NamesOfSides
  <2>3. CASE p \in minPrice .. maxPrice
    <3>1. LevelAt(p)' = LevelAt(p) /\ Shows(s, p)
      BY <2>3
    <3> QED
      BY <2>2, <3>1 DEF Shows
  <2>4. CASE p \notin minPrice .. maxPrice
    <3>1. LevelAt(p)' = NewLevel
      BY <2>4
    <3>2. BitOf(s, p) \notin bits[s]
      BY <2>1, <2>4, BitIs DEF MaskType
    <3>3. ~ (s * NewLevel.total > 0)
      BY SideIsOne, NewIsEmpty
    <3> QED
      BY <2>2, <3>1, <3>2, <3>3 DEF Shows
  <2> QED
    BY <2>3, <2>4
<1> QED
  BY <1>5, <1>6

(* What the two moves of the window have in common.                        *)
LEMMA MovedKeeps ==
  ASSUME IInv, pc = "shift", pc' = "rest", req' = req, left' = left, lastPrice' = lastPrice,
         NEW d \in Int,
         minIndex' = (minIndex + d) % Size, minPrice' = minPrice + d, maxPrice' = maxPrice + d,
         levels' = levels,
         MinPrice <= minPrice + d, maxPrice + d <= MaxPrice,
         minPrice + d <= lastPrice, lastPrice <= maxPrice + d,
         \A p \in minPrice .. maxPrice : p \notin minPrice + d .. maxPrice + d => Empty(LevelAt(p)),
         \A s \in Sides : \A p \in Expiring(s) : p \notin minPrice + d .. maxPrice + d,
         d > 0 => Expiring(Sell) = {}, d < 0 => Expiring(Buy) = {},
         bits' \in [Sides -> SUBSET (0 .. Size - 1)],
         \A x \in 0 .. Size - 1 : x \in bits'[Sell] <=> x - d \in bits[Sell],
         \A x \in 0 .. Size - 1 : x \in bits'[Buy] <=> x + d \in bits[Buy]
  PROVE  IInv'
<1>1. /\ Fits /\ LevelsGood /\ RingFollows /\ CallType /\ MaskType /\ MasksShow
      /\ WindowFits /\ Uncrossed /\ TradeIsThorough
  BY Apart
<1>2. minPrice \in Nat /\ maxPrice \in Nat /\ minPrice + d >= 0 /\ minPrice <= maxPrice
  BY <1>1, Constants DEF Fits
<1>3. /\ Fits' /\ LevelsGood' /\ RingFollows'
      /\ \A p \in minPrice + d .. maxPrice + d :
           LevelAt(p)' = IF p \in minPrice .. maxPrice THEN LevelAt(p) ELSE NewLevel
  BY <1>1, <1>2, WindowMoves
<1>4. /\ MaskType'
      /\ \A s \in Sides : \A p \in minPrice' .. maxPrice' : Shows(s, p)'
  <2>1. \A s \in Sides : \A p \in minPrice .. maxPrice :
          p \in minPrice + d .. maxPrice + d => Shows(s, p)
    BY <1>1 DEF MasksShow
  <2>2. \A p \in minPrice .. maxPrice : d > 0 => Shows(Sell, p)
    BY <1>1, NamesOfSides DEF MasksShow
  <2>3. \A p \in minPrice .. maxPrice : d < 0 => Shows(Buy, p)
    BY <1>1, NamesOfSides DEF MasksShow
  <2> QED
    BY <1>1, <1>3, <2>1, <2>2, <2>3, MasksMove
<1>5. MasksShow'
  BY <1>4 DEF MasksShow
<1>6. CallType'
  <2>1. minPrice' \in Prices /\ maxPrice' \in Prices
    BY <1>2, Constants DEF Prices
  <2> QED
    BY <1>1, <2>1 DEF CallType
<1>7. ASSUME NEW p \in minPrice + d .. maxPrice + d
      PROVE  \/ p \in minPrice .. maxPrice /\ LevelAt(p)' = LevelAt(p)
             \/ LevelAt(p)'.total = 0
  BY <1>3 DEF NewLevel
<1>8. Uncrossed'
  <2> SUFFICES ASSUME NEW low \in minPrice + d .. maxPrice + d, NEW high \in minPrice + d .. maxPrice + d,
                      low <= high, LevelAt(low)'.total < 0, LevelAt(high)'.total > 0
               PROVE  FALSE
    BY DEF Uncrossed
  <2>1. low \in minPrice .. maxPrice /\ LevelAt(low)' = LevelAt(low)
    BY <1>7
  <2>2. high \in minPrice .. maxPrice /\ LevelAt(high)' = LevelAt(high)
    BY <1>7
  <2> QED
    BY <1>1, <2>1, <2>2 DEF Uncrossed
<1>9. WindowFollows' /\ WindowFits'
  BY <1>1, <1>2 DEF WindowFollows, WindowFits, InWindow
<1>10. req.side \in Sides /\ req.price \in Nat
  BY <1>1, RequestType DEF Trading
<1>11. ASSUME left > 0, NEW p \in minPrice + d .. maxPrice + d, Within(req.side, p, req.price)
       PROVE  req.side * LevelAt(p)'.total >= 0
  <2>1. CASE p \in minPrice .. maxPrice /\ LevelAt(p)' = LevelAt(p)
    BY <1>1, <1>11, <2>1 DEF TradeIsThorough
  <2>2. CASE LevelAt(p)'.total = 0
    BY <1>10, <2>2, SideIsOne
  <2> QED
    BY <1>7, <2>1, <2>2
<1>12. TradeIsThorough'
  BY <1>11 DEF TradeIsThorough
<1>13. SidesAgree'
  <2>1. Within(req.side, req.price, req.price)
    BY <1>10 DEF Within
  <2>2. left # 0 => left > 0
    BY <1>1, Constants DEF CallType
  <2>3. ASSUME left # 0, InWindow(req.price)'
        PROVE  req.side * (LevelAt(req.price)').total >= 0
    <3>1. req.price \in minPrice + d .. maxPrice + d
      BY <1>2, <1>10, <2>3 DEF InWindow
    <3> QED
      BY <1>11, <2>1, <2>2, <2>3, <3>1
  <2> QED
    BY <2>3 DEF SidesAgree
<1>14. TradeParts'
  BY DEF TradeParts
<1> QED
  BY <1>3, <1>4, <1>5, <1>6, <1>8, <1>9, <1>12, <1>13, <1>14, Together

(* MoveWindow.                                                             *)
LEMMA MoveWindowKeeps ==
  ASSUME IInv, MoveWindow
  PROVE  IInv'
<1>1. /\ pc = "shift" /\ pc' = "rest" /\ req' = req /\ left' = left /\ lastPrice' = lastPrice
  BY DEF MoveWindow, Reached
<1>2. /\ Fits /\ MaskType /\ WindowFollows
      /\ Shift \in Nat \ {0} /\ Size \in Nat \ {0} /\ MinPrice \in Nat /\ MaxPrice \in Nat
      /\ minPrice \in Nat /\ maxPrice \in Nat /\ minPrice <= maxPrice /\ minIndex \in Nat
      /\ bits[Sell] \in SUBSET (0 .. Size - 1) /\ bits[Buy] \in SUBSET (0 .. Size - 1)
  BY Apart, Constants, NamesOfSides DEF Fits, MaskType
<1>3. CASE MustShiftUp(lastPrice) /\ Occupied(Buy) = {} /\ ShiftUp
  <2>1. /\ minIndex' = (minIndex + Shift) % Size
        /\ minPrice' = minPrice + Shift /\ maxPrice' = maxPrice + Shift /\ levels' = levels
        /\ bits' = [bits EXCEPT ![Sell] = ShiftLeft(@), ![Buy] = ShiftRight(@)]
    BY <1>3 DEF ShiftUp
  <2>2. /\ bits' \in [Sides -> SUBSET (0 .. Size - 1)]
        /\ bits'[Sell] = ShiftLeft(bits[Sell]) /\ bits'[Buy] = ShiftRight(bits[Buy])
    BY <1>2, <2>1, NamesOfSides DEF MaskType, ShiftLeft, ShiftRight
  <2>3. \A x \in 0 .. Size - 1 : x \in bits'[Sell] <=> x - Shift \in bits[Sell]
    BY <1>2, <2>2 DEF ShiftLeft
  <2>4. \A x \in 0 .. Size - 1 : x \in bits'[Buy] <=> x + Shift \in bits[Buy]
    BY <1>2, <2>2 DEF ShiftRight
  <2>5. \A p \in Leaving(Buy) : Empty(LevelAt(p))
    BY <1>3 DEF Occupied
  <2>6. Leaving(Buy) = minPrice .. minPrice + Shift - 1
    BY DEF Leaving
  <2>7. \A p \in minPrice .. maxPrice : p \notin minPrice + Shift .. maxPrice + Shift => Empty(LevelAt(p))
    BY <1>2, <2>5, <2>6
  <2>8. Expiring(Sell) = {}
    BY <1>1, <1>3, ShiftFacts, NamesOfSides DEF Expiring
  <2>9. \A p \in Expiring(Buy) : p \notin minPrice + Shift .. maxPrice + Shift
    BY <1>2, <2>6 DEF Expiring
  <2>10. \A s \in Sides : \A p \in Expiring(s) : p \notin minPrice + Shift .. maxPrice + Shift
    BY <2>8, <2>9, NamesOfSides
  <2>11. /\ MinPrice <= minPrice + Shift /\ maxPrice + Shift <= MaxPrice
         /\ minPrice + Shift <= lastPrice /\ lastPrice <= maxPrice + Shift
    <3>1. /\ maxPrice + Shift <= MaxPrice /\ minPrice + Shift < lastPrice
          /\ lastPrice \in Int /\ lastPrice <= maxPrice /\ MinPrice <= minPrice
      BY <1>1, <1>2, <1>3, ShiftFacts DEF WindowFollows
    <3> QED
      BY <1>2, <3>1
  <2>12. Shift \in Int /\ ~ (Shift < 0)
    BY <1>2
  <2> QED
    BY <1>1, <2>1, <2>2, <2>3, <2>4, <2>7, <2>8, <2>10, <2>11, <2>12, MovedKeeps
<1>4. CASE MustShiftDown(lastPrice) /\ Occupied(Sell) = {} /\ ShiftDown
  <2> DEFINE d == -Shift
  <2>1. /\ minIndex' = (minIndex + d) % Size
        /\ minPrice' = minPrice + d /\ maxPrice' = maxPrice + d /\ levels' = levels
        /\ bits' = [bits EXCEPT ![Sell] = ShiftRight(@), ![Buy] = ShiftLeft(@)]
    <3>1. minIndex + d = minIndex - Shift /\ minPrice + d = minPrice - Shift /\ maxPrice + d = maxPrice - Shift
      BY <1>2
    <3> QED
      BY <1>4, <3>1 DEF ShiftDown
  <2>2. /\ bits' \in [Sides -> SUBSET (0 .. Size - 1)]
        /\ bits'[Sell] = ShiftRight(bits[Sell]) /\ bits'[Buy] = ShiftLeft(bits[Buy])
    BY <1>2, <2>1, NamesOfSides DEF MaskType, ShiftLeft, ShiftRight
  <2>3. \A x \in 0 .. Size - 1 : x \in bits'[Sell] <=> x - d \in bits[Sell]
    BY <1>2, <2>2 DEF ShiftRight
  <2>4. \A x \in 0 .. Size - 1 : x \in bits'[Buy] <=> x + d \in bits[Buy]
    BY <1>2, <2>2 DEF ShiftLeft
  <2>5. \A p \in Leaving(Sell) : Empty(LevelAt(p))
    BY <1>4 DEF Occupied
  <2>6. Leaving(Sell) = maxPrice - Shift + 1 .. maxPrice
    BY NamesOfSides DEF Leaving
  <2>7. \A p \in minPrice .. maxPrice : p \notin minPrice + d .. maxPrice + d => Empty(LevelAt(p))
    BY <1>2, <2>5, <2>6
  <2>8. Expiring(Buy) = {}
    BY <1>1, <1>4, ShiftFacts, NamesOfSides DEF Expiring
  <2>9. \A p \in Expiring(Sell) : p \notin minPrice + d .. maxPrice + d
    BY <1>2, <2>6 DEF Expiring
  <2>10. \A s \in Sides : \A p \in Expiring(s) : p \notin minPrice + d .. maxPrice + d
    BY <2>8, <2>9, NamesOfSides
  <2>11. /\ MinPrice <= minPrice + d /\ maxPrice + d <= MaxPrice
         /\ minPrice + d <= lastPrice /\ lastPrice <= maxPrice + d
    <3>1. /\ minPrice - Shift >= MinPrice /\ lastPrice < maxPrice - Shift
          /\ lastPrice \in Int /\ minPrice <= lastPrice /\ maxPrice <= MaxPrice
      BY <1>1, <1>2, <1>4, ShiftFacts DEF WindowFollows
    <3> QED
      BY <1>2, <3>1
  <2>12. d \in Int /\ ~ (d > 0)
    BY <1>2
  <2> HIDE DEF d
  <2> QED
    BY <1>1, <2>1, <2>2, <2>3, <2>4, <2>7, <2>8, <2>10, <2>11, <2>12, MovedKeeps
<1> QED
  BY <1>3, <1>4 DEF MoveWindow

(* KeepWindow.                                                             *)
LEMMA KeepWindowKeeps ==
  ASSUME IInv, KeepWindow
  PROVE  IInv'
<1>1. /\ pc = "shift" /\ pc' = "rest" /\ req' = req /\ left' = left /\ lastPrice' = lastPrice
      /\ UNCHANGED bookVars /\ minPrice' = minPrice /\ maxPrice' = maxPrice
      /\ ~ MustShiftUp(lastPrice) /\ ~ MustShiftDown(lastPrice)
  BY DEF KeepWindow, Reached, bookVars, window
<1>2. /\ Fits /\ LevelsGood /\ CallType /\ MasksShow /\ WindowFollows /\ WindowFits /\ TradeIsThorough
  BY Apart
<1>3. CallType'
  BY <1>1, <1>2 DEF CallType
<1>4. MasksShow'
  <2>1. \A s : Expiring(s) = {}
    BY <1>1 DEF Expiring
  <2> QED
    BY <1>1, <1>2, <2>1, BookStays DEF MasksShow
<1>5. WindowFollows' /\ WindowFits'
  BY <1>1, <1>2 DEF WindowFollows, WindowFits, InWindow
<1>6. TradeIsThorough'
  BY <1>1, <1>2, BookStays DEF TradeIsThorough
<1>7. SidesAgree'
  <2>1. req.side \in Sides /\ req.price \in Nat
    BY <1>1, <1>2, RequestType DEF Trading
  <2>2. Within(req.side, req.price, req.price)
    BY <2>1 DEF Within
  <2>3. left # 0 => left > 0
    BY <1>2, Constants DEF CallType
  <2>4. InWindow(req.price) => req.price \in minPrice .. maxPrice
    BY <1>2, <2>1, InWindowIs
  <2>5. left # 0 /\ InWindow(req.price) => req.side * LevelAt(req.price).total >= 0
    BY <1>1, <1>2, <2>2, <2>3, <2>4 DEF TradeIsThorough
  <2> QED
    BY <1>1, <2>5, BookStays DEF SidesAgree, InWindow
<1>8. TradeParts'
  BY <1>1 DEF TradeParts
<1> QED
  BY <1>1, <1>3, <1>4, <1>5, <1>6, <1>7, <1>8, BookStays, Together

-----------------------------------------------------------------------------
(* What is left of the order comes to rest.                                *)

(* A level of one side changes between two requests: with its mask it      *)
(* keeps the invariant, when no order crosses.                             *)
LEMMA LevelChanges ==
  ASSUME IInv, pc' = "idle", req' = NoRequest, left' \in 0 .. MaxQty, lastPrice' \in Prices \cup {0},
         \A s \in Sides : Expiring(s) = {},
         NEW side \in Sides, NEW price \in minPrice .. maxPrice, NEW new, Good(new),
         side * LevelAt(price).total >= 0, side * new.total >= 0,
         levels' = [levels EXCEPT ![IndexOf(price)] = new], UNCHANGED window,
         bits' \in {bits, WithBit(side, price), WithoutBit(side, price)},
         BitOf(side, price) \in bits'[side] <=> side * new.total > 0,
         Becomes(price, new) => Uncrossed'
  PROVE  IInv'
<1>1. minPrice' = minPrice /\ maxPrice' = maxPrice
  BY DEF window
<1>2. /\ Fits /\ LevelsGood /\ RingFollows /\ CallType /\ MaskType /\ MasksShow
      /\ WindowFollows /\ WindowFits
  BY Apart
<1>3. price \in Int /\ LevelAt(price).total \in Int /\ new.total \in Int
  BY <1>2, LevelIsGood, OfGood DEF Fits
<1>4. /\ Fits' /\ LevelsGood' /\ RingFollows' /\ Becomes(price, new)
  BY <1>2, OneLevel DEF Becomes
<1>5. BitOf(side, price) \in 0 .. maxPrice - minPrice /\ maxPrice - minPrice <= Size - 2
  BY <1>2, <1>3, BitIs DEF Fits
<1>6. /\ bits' \in [Sides -> SUBSET (0 .. Size - 1)]
      /\ \A s \in Sides : /\ s # side => bits'[s] = bits[s]
                          /\ bits'[s] \ {BitOf(side, price)} = bits[s] \ {BitOf(side, price)}
  <2>1. BitOf(side, price) \in 0 .. Size - 1
    BY <1>2, <1>5, Constants DEF Fits
  <2>2. CASE bits' = bits
    BY <1>2, <2>2 DEF MaskType
  <2>3. CASE bits' = WithBit(side, price)
    BY <1>2, <2>1, <2>3 DEF MaskType, WithBit
  <2>4. CASE bits' = WithoutBit(side, price)
    BY <1>2, <2>4 DEF MaskType, WithoutBit
  <2> QED
    BY <2>2, <2>3, <2>4
<1>7. MaskType'
  <2> SUFFICES ASSUME NEW s \in Sides, NEW b \in bits'[s]
               PROVE  b \in 0 .. maxPrice - minPrice
    BY <1>1, <1>6 DEF MaskType
  <2>1. b \in bits[s] \/ b = BitOf(side, price)
    BY <1>6
  <2> QED
    BY <1>2, <1>5, <2>1 DEF MaskType
<1>8. MasksShow'
  <2> SUFFICES ASSUME NEW s \in Sides
               PROVE  \A p \in (minPrice' .. maxPrice') \ {} : Shows(s, p)'
    BY DEF MasksShow
  <2>1. \A p \in (minPrice .. maxPrice) \ {} : Shows(s, p)
    BY <1>2 DEF MasksShow
  <2>2. /\ bits'[s] \ {BitOf(s, price)} = bits[s] \ {BitOf(s, price)}
        /\ BitOf(s, price) \in bits'[s] <=> s * new.total > 0
    <3>1. CASE s = side
      BY <1>6, <3>1
    <3>2. CASE s # side
      <4>1. s = Opposite(side) /\ bits'[s] = bits[s]
        BY <1>6, <3>2, NamesOfSides
      <4>2. side * LevelAt(price).total \in Int /\ side * new.total \in Int
        BY <1>3, SideSigns
      <4>3. ~ (s * LevelAt(price).total > 0) /\ ~ (s * new.total > 0)
        BY <1>3, <4>1, <4>2, OppositeSign
      <4>4. Shows(s, price)
        BY <2>1
      <4> QED
        BY <4>1, <4>3, <4>4 DEF Shows
    <3> QED
      BY <3>1, <3>2
  <2> QED
    BY <1>2, <1>4, <2>1, <2>2, MaskKept
<1>9. CallType'
  BY <1>1, <1>2, Constants DEF CallType
<1>10. WindowFollows' /\ WindowFits'
  BY <1>1, <1>2 DEF WindowFollows, WindowFits
<1>11. SidesAgree' /\ TradeParts' /\ TradeIsThorough'
  BY DEF SidesAgree, TradeParts, TradeIsThorough
<1> QED
  BY <1>4, <1>7, <1>8, <1>9, <1>10, <1>11, Together

(* The book as it was, and the request is over.                            *)
LEMMA RequestEnds ==
  ASSUME IInv, pc = "rest", UNCHANGED bookVars,
         pc' = "idle", req' = NoRequest, left' = 0, lastPrice' = 0
  PROVE  IInv'
<1>1. /\ Fits /\ CallType /\ MasksShow /\ WindowFollows /\ WindowFits
      /\ minPrice' = minPrice /\ maxPrice' = maxPrice
  BY Apart DEF bookVars, window
<1>2. CallType'
  BY <1>1, Constants DEF CallType
<1>3. MasksShow'
  <2>1. \A s : Expiring(s) = {}
    BY DEF Expiring
  <2> QED
    BY <1>1, <2>1, BookStays DEF MasksShow
<1>4. WindowFollows' /\ WindowFits'
  BY <1>1 DEF WindowFollows, WindowFits
<1>5. SidesAgree' /\ TradeParts' /\ TradeIsThorough'
  BY DEF SidesAgree, TradeParts, TradeIsThorough
<1> QED
  BY <1>2, <1>3, <1>4, <1>5, BookStays, Together

(* Rest.                                                                   *)
LEMMA RestKeeps ==
  ASSUME IInv, Rest
  PROVE  IInv'
<1> DEFINE side == req.side
           price == req.price
           level == LevelAt(price)
           slot == PushSlot(level, req.id)
           new == PushAt(side, level, req.id, left, slot)
<1>1. pc = "rest" /\ pc' = "idle" /\ req' = NoRequest /\ left' = 0 /\ lastPrice' = 0
  BY DEF Rest, Reached
<1>2. CASE UNCHANGED bookVars
  BY <1>1, <1>2, RequestEnds
<1>3. CASE /\ left # 0 /\ InWindow(price) /\ ~ Full(level)
           /\ levels' = [levels EXCEPT ![IndexOf(price)] = new]
           /\ bits' = WithBit(side, price) /\ UNCHANGED window
  <2>1. /\ Fits /\ LevelsGood /\ RingFollows /\ CallType /\ MaskType /\ MasksShow
        /\ Uncrossed /\ SidesAgree /\ TradeIsThorough
    BY Apart
  <2>2. side \in Sides /\ req.id \in Ids /\ price \in Nat /\ left \in 1 .. MaxQty
    BY <1>1, <1>3, <2>1, RequestType, Constants DEF Trading, CallType
  <2>3. price \in minPrice .. maxPrice /\ side * level.total >= 0
    BY <1>1, <1>3, <2>1, <2>2, InWindowIs DEF SidesAgree
  <2>4. Good(level) /\ level.total \in Int
    BY <2>1, <2>2, LevelIsGood
  <2>5. Good(new) /\ side * new.total > 0
    <3> HIDE DEF level, side
    <3> QED
      BY <1>3, <2>2, <2>3, <2>4, PushIsGood DEF slot
  <2> HIDE DEF new
  <2>6. ASSUME Becomes(price, new)
        PROVE  Uncrossed'
    <3> SUFFICES ASSUME NEW low \in minPrice .. maxPrice, NEW high \in minPrice .. maxPrice, low <= high,
                        LevelAt(low)'.total < 0, LevelAt(high)'.total > 0
                 PROVE  FALSE
      BY <1>3 DEF Uncrossed, window
    <3>1. /\ LevelAt(low)' = IF low = price THEN new ELSE LevelAt(low)
          /\ LevelAt(high)' = IF high = price THEN new ELSE LevelAt(high)
      BY <2>6 DEF Becomes
    <3>2. /\ low \in Int /\ high \in Int /\ new.total \in Int
          /\ LevelAt(low).total \in Int /\ LevelAt(high).total \in Int
      BY <2>1, <2>5, LevelIsGood, OfGood DEF Fits
    <3>3. CASE low # price /\ high # price
      BY <2>1, <3>1, <3>3 DEF Uncrossed
    <3>4. CASE low = price /\ high = price
      BY <3>1, <3>2, <3>4
    <3>5. \A p \in minPrice .. maxPrice : Within(side, p, price) => side * LevelAt(p).total >= 0
      BY <1>1, <2>1, <2>2 DEF TradeIsThorough
    <3>6. CASE low = price /\ high # price
      <4>1. side = Sell
        BY <2>2, <2>5, <3>1, <3>2, <3>6, SideSigns
      <4>2. Within(side, high, price)
        BY <3>2, <3>6, <4>1 DEF Within
      <4>3. Sell * LevelAt(high).total >= 0 /\ LevelAt(high).total > 0
        BY <3>1, <3>5, <3>6, <4>1, <4>2
      <4> QED
        BY <3>2, <4>3, NamesOfSides
    <3>7. CASE low # price /\ high = price
      <4>1. side = Buy
        BY <2>2, <2>5, <3>1, <3>2, <3>7, SideSigns
      <4>2. Within(side, low, price)
        BY <3>2, <3>7, <4>1, NamesOfSides DEF Within
      <4>3. Buy * LevelAt(low).total >= 0 /\ LevelAt(low).total < 0
        BY <3>1, <3>5, <3>7, <4>1, <4>2
      <4> QED
        BY <3>2, <4>3, NamesOfSides
    <3> QED
      BY <3>3, <3>4, <3>6, <3>7
  <2>7. BitOf(side, price) \in bits'[side]
    BY <1>3, <2>1, <2>2 DEF WithBit, MaskType
  <2>8. \A s \in Sides : Expiring(s) = {}
    BY <1>1 DEF Expiring
  <2>9. side * new.total >= 0
    <3>1. side * new.total \in Int
      BY <2>2, <2>5, OfGood, SideSigns
    <3> QED
      BY <2>5, <3>1
  <2> HIDE DEF side, price
  <2>10. levels' = [levels EXCEPT ![IndexOf(price)] = new] /\ UNCHANGED window
         /\ bits' \in {bits, WithBit(side, price), WithoutBit(side, price)}
         /\ lastPrice' \in Prices \cup {0} /\ left' \in 0 .. MaxQty
    BY <1>1, <1>3, Constants
  <2> QED
    BY <1>1, <2>2, <2>3, <2>5, <2>6, <2>7, <2>8, <2>9, <2>10, LevelChanges
<1> QED
  BY <1>2, <1>3 DEF Rest, Reject, InsertOrder

-----------------------------------------------------------------------------
(* Orders changed and cancelled.                                           *)

(* The order that an update or a cancel finds is one with that identifier. *)
LEMMA FoundSlot ==
  ASSUME NEW level, Good(level), NEW id \in Ids, NEW slot, Candidates(level, id, slot) # {}
  PROVE  FirstProbed(id, Candidates(level, id, slot)) \in SlotsOf(level, id)
<1>1. SlotsOf(level, id) \in SUBSET Slots
  <2>1. /\ level.fifo \in Seq(RestingOrders) /\ Indices(level) = 1 .. Len(level.fifo)
        /\ \A i \in 1 .. Len(level.fifo) : level.fifo[i] \in RestingOrders
    BY OfGood
  <2>2. \A i \in 1 .. Len(level.fifo) : level.fifo[i].slot \in Slots
    BY <2>1 DEF RestingOrders
  <2> QED
    BY <2>1, <2>2 DEF SlotsOf
<1>2. Candidates(level, id, slot) \subseteq SlotsOf(level, id)
  BY DEF Candidates
<1>3. id \in Nat
  BY Constants
<1> QED
  BY <1>1, <1>2, <1>3, ProbeFinds

(* A level whose orders change without changing sides.                     *)
LEMMA AmendKeeps ==
  ASSUME IInv, pc = "idle", UNCHANGED callVars, NEW side \in Sides, NEW price \in Int, InWindow(price),
         NEW new, Good(new), side * LevelAt(price).total > 0, side * new.total >= 0,
         levels' = [levels EXCEPT ![IndexOf(price)] = new], UNCHANGED window,
         bits' = IF Empty(new) THEN WithoutBit(side, price) ELSE bits
  PROVE  IInv'
<1>1. pc' = "idle" /\ req' = req /\ left' = left /\ lastPrice' = lastPrice
  BY DEF callVars
<1>2. /\ Fits /\ LevelsGood /\ RingFollows /\ CallType /\ MaskType /\ MasksShow /\ Uncrossed
  BY Apart
<1>3. price \in minPrice .. maxPrice /\ LevelAt(price).total \in Int /\ new.total \in Int
  BY <1>2, InWindowIs, LevelIsGood, OfGood
<1>4. side * LevelAt(price).total \in Int /\ side * new.total \in Int
      /\ (new.total = 0 <=> ~ (side * new.total > 0))
      /\ (new.total < 0 => LevelAt(price).total < 0) /\ (new.total > 0 => LevelAt(price).total > 0)
  <2>1. CASE side = Buy
    BY <1>3, <2>1, NamesOfSides
  <2>2. CASE side = Sell
    BY <1>3, <2>2, NamesOfSides
  <2> QED
    BY <2>1, <2>2, NamesOfSides
<1>5. Becomes(price, new) => Uncrossed'
  BY <1>2, <1>3, <1>4, SignsKept
<1>6. \A s \in Sides : Expiring(s) = {}
  BY DEF Expiring
<1>7. BitOf(side, price) \in bits'[side] <=> side * new.total > 0
  <2>1. Shows(side, price)
    BY <1>2, <1>3, <1>6 DEF MasksShow
  <2>2. CASE new.total = 0
    BY <1>2, <1>4, <2>2 DEF Empty, WithoutBit, MaskType
  <2>3. CASE new.total # 0
    BY <1>4, <2>1, <2>3 DEF Empty, Shows
  <2> QED
    BY <2>2, <2>3
<1>8. req' = NoRequest /\ lastPrice' \in Prices \cup {0} /\ left' \in 0 .. MaxQty
  BY <1>1, <1>2 DEF CallType
<1>9. side * LevelAt(price).total >= 0 /\ bits' \in {bits, WithBit(side, price), WithoutBit(side, price)}
  BY <1>4
<1> QED
  BY <1>1, <1>3, <1>5, <1>6, <1>7, <1>8, <1>9, LevelChanges

(* Update.                                                                 *)
LEMMA UpdateKeeps ==
  ASSUME IInv, NEW side \in Sides, NEW id, NEW price, NEW newQty, NEW slot,
         Update(side, id, price, newQty, slot),
         ValidId(id) /\ ValidPrice(price) /\ ValidQty(newQty) => id \in Ids /\ price \in Prices /\ newQty \in Qtys
  PROVE  IInv'
<1> DEFINE level == LevelAt(price)
           found == Candidates(level, id, slot)
           new   == UpdateAt(side, level, newQty, FirstProbed(id, found))
<1>1. pc = "idle" /\ UNCHANGED callVars
  BY DEF Update, Ready
<1>2. CASE UNCHANGED bookVars
  BY <1>1, <1>2, NothingChanges
<1>3. CASE /\ ValidId(id) /\ ValidPrice(price) /\ ValidQty(newQty)
           /\ InWindow(price) /\ ~ (side * level.total <= 0) /\ found # {}
           /\ levels' = [levels EXCEPT ![IndexOf(price)] = new]
           /\ UNCHANGED <<window, bits>>
  <2>1. id \in Ids /\ price \in Int /\ newQty \in 1 .. MaxQty
    BY <1>3, Constants DEF Prices, Qtys
  <2>2. Good(level) /\ side * level.total > 0
    <3>1. Good(level) /\ level.total \in Int
      BY <2>1, Apart, LevelIsGood
    <3>2. side * level.total \in Int
      BY <3>1, SideSigns
    <3> QED
      BY <1>3, <3>1, <3>2
  <2> HIDE DEF level
  <2>3. FirstProbed(id, found) \in SlotsOf(level, id)
    BY <1>3, <2>1, <2>2, FoundSlot
  <2>4. Good(new) /\ side * new.total > 0
    BY <2>1, <2>2, <2>3, UpdateIsGood
  <2> HIDE DEF new, found
  <2>5. new.total \in Int /\ side * new.total \in Int
    BY <2>4, OfGood, SideSigns
  <2>6. side * new.total >= 0
    BY <2>4, <2>5
  <2>7. new.total # 0
    BY <2>4, <2>5, SideSigns
  <2> QED
    BY <1>1, <1>3, <2>1, <2>2, <2>4, <2>6, <2>7, AmendKeeps DEF Empty, level
<1> QED
  BY <1>1, <1>2, <1>3 DEF Update, UpdateOrder, Reject

(* Cancel.                                                                 *)
LEMMA CancelKeeps ==
  ASSUME IInv, NEW side \in Sides, NEW id, NEW price, NEW slot,
         Cancel(side, id, price, slot),
         ValidId(id) /\ ValidPrice(price) /\ ValidSlot(slot) => id \in Ids /\ price \in Prices
  PROVE  IInv'
<1> DEFINE level == LevelAt(price)
           found == Candidates(level, id, slot)
           new   == CancelAt(side, level, FirstProbed(id, found))
<1>1. pc = "idle" /\ UNCHANGED callVars
  BY DEF Cancel, Ready
<1>2. CASE UNCHANGED bookVars
  BY <1>1, <1>2, NothingChanges
<1>3. CASE /\ ValidId(id) /\ ValidPrice(price) /\ ValidSlot(slot)
           /\ InWindow(price) /\ ~ (side * level.total <= 0) /\ found # {}
           /\ levels' = [levels EXCEPT ![IndexOf(price)] = new]
           /\ bits' = IF Empty(new) THEN WithoutBit(side, price) ELSE bits
           /\ UNCHANGED window
  <2>1. id \in Ids /\ price \in Int
    BY <1>3, Constants DEF Prices
  <2>2. Good(level) /\ side * level.total > 0
    <3>1. Good(level) /\ level.total \in Int
      BY <2>1, Apart, LevelIsGood
    <3>2. side * level.total \in Int
      BY <3>1, SideSigns
    <3> QED
      BY <1>3, <3>1, <3>2
  <2> HIDE DEF level
  <2>3. FirstProbed(id, found) \in SlotsOf(level, id)
    BY <1>3, <2>1, <2>2, FoundSlot
  <2>4. Good(new) /\ side * new.total >= 0
    BY <2>1, <2>2, <2>3, CancelIsGood
  <2> HIDE DEF new, found
  <2> QED
    BY <1>1, <1>3, <2>1, <2>2, <2>4, AmendKeeps DEF level
<1> QED
  BY <1>1, <1>2, <1>3 DEF Cancel, CancelOrder, Reject

(* A change or a cancellation.                                             *)
LEMMA AmendIs ==
  ASSUME Amend
  PROVE  \E side \in Sides : \E id, price, qty, slot :
           \/ /\ Update(side, id, price, qty, slot)
              /\ ValidId(id) /\ ValidPrice(price) /\ ValidQty(qty) => id \in Ids /\ price \in Prices /\ qty \in Qtys
           \/ /\ Cancel(side, id, price, slot)
              /\ ValidId(id) /\ ValidPrice(price) /\ ValidSlot(slot) => id \in Ids /\ price \in Prices
<1>1. PICK side \in Sides, slot \in Slots \cup {NoSlot} :
        \/ \E id \in Ids, price \in ClientPrices :
             \/ \E qty \in Qtys : Update(side, id, price, qty, slot)
             \/ Cancel(side, id, price, slot)
        \/ \E r \in IllFormed :
             \/ Update(side, r[1], r[2], r[3], slot)
             \/ r[3] \in Qtys /\ Cancel(side, r[1], r[2], slot)
        \/ slot = NoSlot /\ Cancel(side, Min(Ids), MinPrice, MaxOrders)
  BY DEF Amend
<1>2. \A price \in ClientPrices : price \in Prices
  BY TradeEngineAssumption DEF Prices
<1>3. CASE \E id \in Ids, price \in ClientPrices : \E qty \in Qtys : Update(side, id, price, qty, slot)
  BY <1>2, <1>3
<1>4. CASE \E id \in Ids, price \in ClientPrices : Cancel(side, id, price, slot)
  BY <1>2, <1>4
<1>5. CASE \E r \in IllFormed : Update(side, r[1], r[2], r[3], slot)
  BY <1>5, IllFormedIsRefused
<1>6. CASE \E r \in IllFormed : r[3] \in Qtys /\ Cancel(side, r[1], r[2], slot)
  BY <1>6, IllFormedIsRefused
<1>7. CASE Cancel(side, Min(Ids), MinPrice, MaxOrders)
  <2>1. ~ ValidSlot(MaxOrders)
    BY Constants DEF ValidSlot, Slots, NoSlot
  <2> QED
    BY <1>7, <2>1
<1> QED
  BY <1>1, <1>3, <1>4, <1>5, <1>6, <1>7

(* Any change or cancellation the client asks for.                         *)
LEMMA AmendsKeep ==
  ASSUME IInv, Amend
  PROVE  IInv'
BY AmendIs, UpdateKeeps, CancelKeeps

-----------------------------------------------------------------------------
(* The constructor makes a window of empty levels.                         *)
LEMMA InitSound ==
  ASSUME Init
  PROVE  IInv
<1> DEFINE center == ((CenterPrice - 1) \div Shift) * Shift + 1
           low == Larger(center - Levels, MinPrice)
           high == Smaller(low + Levels + Levels, MaxPrice)
<1>1. /\ minIndex = 0 /\ minPrice = low /\ maxPrice = high
      /\ levels = [i \in 0 .. Size - 1 |-> NewLevel] /\ bits = [side \in Sides |-> {}]
      /\ pc = "idle" /\ req = NoRequest /\ left = 0 /\ lastPrice = 0
  BY DEF Init, BookInit
<1>2. center \in Int /\ center <= CenterPrice
  <2> DEFINE h == CenterPrice - 1
             q == h \div Shift
  <2>1. h \in Nat /\ Shift \in Nat \ {0}
    BY Constants
  <2> HIDE DEF h
  <2>2. q \in Nat /\ h = Shift * q + (h % Shift) /\ h % Shift \in Nat
    BY <2>1
  <2> HIDE DEF q
  <2>3. q * Shift = Shift * q /\ q * Shift \in Int
    BY <2>1, <2>2
  <2>4. center = q * Shift + 1
    BY DEF q, h
  <2>5. q * Shift <= h
    BY <2>1, <2>2, <2>3
  <2> HIDE DEF center
  <2> QED
    BY <2>1, <2>3, <2>4, <2>5, Constants DEF h
<1> HIDE DEF center
<1>3. /\ low \in Prices /\ high \in Prices /\ low <= high /\ high - low <= Levels + Levels
      /\ MinPrice <= low /\ high <= MaxPrice
  <2>1. low \in Int /\ MinPrice <= low /\ low <= MaxPrice
    BY <1>2, LevelsFit, Constants DEF Larger
  <2> HIDE DEF low
  <2>2. high \in Int /\ low <= high /\ high <= MaxPrice /\ high - low <= Levels + Levels
    BY <2>1, LevelsFit, Constants DEF Smaller
  <2> QED
    BY <2>1, <2>2, Constants DEF Prices
<1> HIDE DEF low, high
<1>4. \A i \in 0 .. Size - 1 : levels[i] = NewLevel
  BY <1>1
<1>5. Fits
  BY <1>1, <1>3, LevelsFit, Constants DEF Fits, Prices
<1>6. \A p \in minPrice .. maxPrice : LevelAt(p) = NewLevel
  BY <1>4, <1>5, IndexType DEF LevelAt, Fits
<1>7. TypeOK
  <2>1. levels \in [0 .. Size - 1 -> [total : Int, fifo : Seq([slot : Slots, id : Ids, qty : 1 .. MaxQty])]]
    BY <1>1 DEF NewLevel
  <2>2. bits \in [Sides -> SUBSET (0 .. Size - 1)]
    BY <1>1
  <2>3. minIndex \in 0 .. Size - 1 /\ left \in 0 .. MaxQty /\ {minPrice, maxPrice} \subseteq Prices
    BY <1>1, <1>3, Constants
  <2> QED
    BY <1>1, <2>1, <2>2, <2>3 DEF TypeOK
<1>8. LevelsSound
  <2>1. \A i \in 0 .. Size - 1 : LevelSound(levels[i])
    BY <1>4, NewIsGood DEF Good
  <2> QED
    BY <1>4, <1>7, <2>1 DEF LevelsSound
<1>9. MasksMatchLevels
  <2>1. \A side \in Sides : bits[side] = {} /\ ~ (side * NewLevel.total > 0)
    <3>1. \A side \in Sides : side * 0 = 0
      BY NamesOfSides
    <3> QED
      BY <1>1, <3>1, NewIsEmpty
  <2> QED
    BY <1>6, <2>1 DEF MasksMatchLevels
<1>10. Uncrossed
  BY <1>6 DEF Uncrossed, NewLevel
<1>11. SidesAgree /\ WindowFollows /\ WindowFits /\ TradeParts /\ TradeIsThorough
  BY <1>1, <1>3 DEF SidesAgree, WindowFollows, WindowFits, TradeParts, TradeIsThorough
<1> QED
  BY <1>8, <1>9, <1>10, <1>11 DEF IInv, BookSound

(* Every step keeps the invariant.                                         *)
LEMMA StepSound ==
  ASSUME IInv, [Next]_vars
  PROVE  IInv'
<1>1. CASE Create
  BY <1>1, CreateKeeps
<1>2. CASE Amend
  BY <1>2, AmendsKeep
<1>3. CASE Match
  BY <1>3, MatchKeeps
<1>4. CASE Fill
  BY <1>4, FillKeeps
<1>5. CASE Expire
  BY <1>5, ExpireKeeps
<1>6. CASE MoveWindow
  BY <1>6, MoveWindowKeeps
<1>7. CASE KeepWindow
  BY <1>7, KeepWindowKeeps
<1>8. CASE Rest
  BY <1>8, RestKeeps
<1>9. CASE Pushed
  BY <1>9, NothingChanges DEF Pushed
<1>10. CASE UNCHANGED vars
  BY <1>10, NothingChanges DEF vars
<1> QED
  BY <1>1, <1>2, <1>3, <1>4, <1>5, <1>6, <1>7, <1>8, <1>9, <1>10 DEF Next, Engine

(* Whatever requests come, in whatever order, the book is sound, the       *)
(* window where it belongs, and each stage of a request finds the book as  *)
(* the next one needs it.                                                  *)
THEOREM Invariance == Spec => []IInv
<1>1. Init => IInv
  BY InitSound
<1>2. IInv /\ [Next]_vars => IInv'
  BY StepSound
<1> QED
  BY <1>1, <1>2, PTL DEF Spec

(* Levels, ring, window and masks always agree.                            *)
THEOREM BookIsSound == Spec => []BookSound
<1>1. IInv => BookSound
  BY DEF IInv
<1> QED
  BY <1>1, Invariance, PTL

(* No bid reaches an offer at any moment, in the middle of a request too.  *)
THEOREM NeverCrossed == Spec => []Uncrossed
<1>1. IInv => Uncrossed
  BY DEF IInv
<1> QED
  BY <1>1, Invariance, PTL

(* The two assertions of _trade and insert_order never fail.               *)
THEOREM AssertionsHold == Spec => []SidesAgree
<1>1. IInv => SidesAgree
  BY DEF IInv
<1> QED
  BY <1>1, Invariance, PTL

(* The window stays among the valid prices and with the last trade.        *)
THEOREM FollowsTheMarket == Spec => []WindowFollows
<1>1. IInv => WindowFollows
  BY DEF IInv
<1> QED
  BY <1>1, Invariance, PTL

-----------------------------------------------------------------------------
(* The quantity of a queue as a number of units, which the abstract book   *)
(* counts.                                                                 *)

UnitsOf(price, q) == UNION {{<<price, i>>} \X (1 .. q[i].qty) : i \in DOMAIN q}

(* Pairs of one thing with n numbers are n.                                *)
LEMMA PairsCount ==
  ASSUME NEW x, NEW n \in Nat
  PROVE  IsFiniteSet({x} \X (1 .. n)) /\ Cardinality({x} \X (1 .. n)) = n
<1> DEFINE f == [m \in 1 .. n |-> <<x, m>>]
<1>1. f \in [1 .. n -> {x} \X (1 .. n)]
  OBVIOUS
<1>2. \A a, b \in 1 .. n : f[a] = f[b] => a = b
  OBVIOUS
<1>3. \A y \in {x} \X (1 .. n) : \E m \in 1 .. n : f[m] = y
  OBVIOUS
<1> HIDE DEF f
<1>4. f \in Bijection(1 .. n, {x} \X (1 .. n))
  BY <1>1, <1>2, <1>3 DEF Bijection, Injection, Surjection, IsInjective
<1>5. ExistsBijection(1 .. n, {x} \X (1 .. n))
  BY <1>4 DEF ExistsBijection
<1>6. IsFiniteSet(1 .. n) /\ Cardinality(1 .. n) = n
  BY FS_Interval
<1> QED
  BY <1>5, <1>6, FS_Bijection

(* Sets without a common element.                                          *)
LEMMA DisjointCount ==
  ASSUME NEW S, NEW T, IsFiniteSet(S), IsFiniteSet(T), S \cap T = {}
  PROVE  IsFiniteSet(S \cup T) /\ Cardinality(S \cup T) = Cardinality(S) + Cardinality(T)
         /\ Cardinality(S) \in Nat /\ Cardinality(T) \in Nat
<1>1. Cardinality(S) \in Nat /\ Cardinality(T) \in Nat
  BY FS_CardinalityType
<1>2. Cardinality(S \cap T) = 0
  BY FS_EmptySet
<1>3. IsFiniteSet(S \cup T)
      /\ Cardinality(S \cup T) = Cardinality(S) + Cardinality(T) - Cardinality(S \cap T)
  BY FS_Union
<1> QED
  BY <1>1, <1>2, <1>3

(* A queue has as many units as its quantity.                              *)
LEMMA UnitsCount ==
  ASSUME NEW q, HasQty(q), DOMAIN q = 1 .. Len(q), NEW price
  PROVE  IsFiniteSet(UnitsOf(price, q)) /\ Cardinality(UnitsOf(price, q)) = Quantity(q)
<1> DEFINE n == Len(q)
           First(k) == UNION {{<<price, i>>} \X (1 .. q[i].qty) : i \in 1 .. k}
<1>1. PICK f : Sums(f, q)
  BY SumsExist
<1>2. /\ n \in Nat /\ \A k \in 1 .. n : q[k].qty \in Nat
      /\ f \in [0 .. n -> Nat] /\ f[0] = 0 /\ \A k \in 1 .. n : f[k] = f[k - 1] + q[k].qty
  BY <1>1 DEF Sums, HasQty
<1> HIDE DEF n
<1> DEFINE S == {k \in Nat : IsFiniteSet(First(k)) /\ Cardinality(First(k)) = f[k]}
<1>3. 0 \in S
  <2>1. First(0) = {}
    OBVIOUS
  <2> HIDE DEF First
  <2> QED
    BY <1>2, <2>1, FS_EmptySet
<1>4. ASSUME NEW k \in 0 .. n - 1, k \in S
      PROVE  k + 1 \in S
  <2> DEFINE New == {<<price, k + 1>>} \X (1 .. q[k + 1].qty)
  <2>1. k \in Nat /\ k + 1 \in 1 .. n /\ (k + 1) - 1 = k /\ q[k + 1].qty \in Nat /\ f[k + 1] = f[k] + q[k + 1].qty
    <3>1. k \in Nat /\ k + 1 \in 1 .. n /\ (k + 1) - 1 = k
      BY <1>2
    <3> QED
      BY <1>2, <3>1
  <2>2. First(k + 1) = First(k) \cup New
    <3>1. 1 .. k + 1 = (1 .. k) \cup {k + 1}
      BY <2>1
    <3> QED
      BY <3>1
  <2>3. First(k) \cap New = {}
    BY <2>1
  <2>4. IsFiniteSet(New) /\ Cardinality(New) = q[k + 1].qty
    BY <2>1, PairsCount
  <2>5. IsFiniteSet(First(k)) /\ Cardinality(First(k)) = f[k]
    BY <1>4
  <2> HIDE DEF First, New
  <2>6. IsFiniteSet(First(k + 1)) /\ Cardinality(First(k + 1)) = f[k] + q[k + 1].qty
    <3>1. PICK A, B : A = First(k) /\ B = New
      OBVIOUS
    <3>2. IsFiniteSet(A) /\ IsFiniteSet(B) /\ A \cap B = {}
      BY <2>3, <2>4, <2>5, <3>1
    <3>3. IsFiniteSet(A \cup B) /\ Cardinality(A \cup B) = Cardinality(A) + Cardinality(B)
      BY <3>2, DisjointCount
    <3>4. First(k + 1) = A \cup B /\ Cardinality(A) = f[k] /\ Cardinality(B) = q[k + 1].qty
      BY <2>2, <2>4, <2>5, <3>1
    <3> QED
      BY <3>3, <3>4
  <2> QED
    BY <2>1, <2>6
<1>5. n \in S
  <2>1. n \in 0 .. n
    BY <1>2
  <2> HIDE DEF S
  <2> QED
    BY <1>2, <1>3, <1>4, <2>1, UpTo
<1>6. First(n) = UnitsOf(price, q)
  BY DEF UnitsOf, n
<1>7. Quantity(q) = f[n]
  BY <1>1, QuantityIs DEF n
<1> HIDE DEF First
<1> QED
  BY <1>5, <1>6, <1>7

-----------------------------------------------------------------------------
(* Queues as the abstract book shows them: without the slots.              *)

Shown(q) == [i \in DOMAIN q |-> [id |-> q[i].id, qty |-> q[i].qty]]
ShownOrders == [id : Ids, qty : 1 .. MaxQty]

(* Order by order, the same but for the slots.                             *)
LEMMA ShownIs ==
  ASSUME NEW q \in Seq(RestingOrders)
  PROVE  /\ Shown(q) \in Seq(ShownOrders) /\ Len(Shown(q)) = Len(q) /\ Len(q) \in Nat
         /\ DOMAIN Shown(q) = 1 .. Len(q)
         /\ \A i \in 1 .. Len(q) : /\ Shown(q)[i] = [id |-> q[i].id, qty |-> q[i].qty]
                                   /\ Shown(q)[i] \in ShownOrders
         /\ (Shown(q) = <<>> <=> q = <<>>)
<1>1. Len(q) \in Nat /\ DOMAIN q = 1 .. Len(q)
      /\ \A i \in 1 .. Len(q) : q[i].qty \in 1 .. MaxQty /\ q[i].id \in Ids
  BY OrdersHaveQty
<1>2. \A i \in 1 .. Len(q) : [id |-> q[i].id, qty |-> q[i].qty] \in ShownOrders
  BY <1>1 DEF ShownOrders
<1>3. Shown(q) = [i \in 1 .. Len(q) |-> [id |-> q[i].id, qty |-> q[i].qty]]
  BY <1>1 DEF Shown
<1>4. Shown(q) \in [1 .. Len(q) -> ShownOrders]
  BY <1>2, <1>3
<1>5. Shown(q) \in Seq(ShownOrders) /\ Len(Shown(q)) = Len(q)
  BY <1>1, <1>4, FunctionIsSeq
<1>6. Shown(q) = <<>> <=> q = <<>>
  <2>1. Shown(q) = <<>> <=> Len(Shown(q)) = 0
    BY <1>5
  <2>2. q = <<>> <=> Len(q) = 0
    OBVIOUS
  <2> QED
    BY <1>5, <2>1, <2>2
<1> QED
  BY <1>1, <1>2, <1>3, <1>4, <1>5, <1>6

(* Two sequences with the same elements.                                   *)
LEMMA SameSeq ==
  ASSUME NEW A, NEW p \in Seq(A), NEW B, NEW q \in Seq(B), Len(p) = Len(q),
         \A i \in 1 .. Len(q) : p[i] = q[i]
  PROVE  p = q
<1>1. p = [i \in 1 .. Len(q) |-> p[i]] /\ q = [i \in 1 .. Len(q) |-> q[i]]
  OBVIOUS
<1> QED
  BY <1>1

(* One more order.                                                         *)
LEMMA ShownAppend ==
  ASSUME NEW q \in Seq(RestingOrders), NEW o \in RestingOrders
  PROVE  Shown(Append(q, o)) = Append(Shown(q), [id |-> o.id, qty |-> o.qty])
<1> DEFINE p == Append(q, o)
           s == [id |-> o.id, qty |-> o.qty]
           r == Append(Shown(q), s)
<1>1. /\ p \in Seq(RestingOrders) /\ Len(p) = Len(q) + 1 /\ Len(q) \in Nat
      /\ \A i \in 1 .. Len(q) : p[i] = q[i]
      /\ p[Len(q) + 1] = o
  OBVIOUS
<1>2. s \in ShownOrders
  BY DEF ShownOrders, RestingOrders
<1> HIDE DEF p, s
<1>3. /\ Shown(q) \in Seq(ShownOrders) /\ Len(Shown(q)) = Len(q)
      /\ \A i \in 1 .. Len(q) : Shown(q)[i] = [id |-> q[i].id, qty |-> q[i].qty]
  BY ShownIs
<1>4. /\ r \in Seq(ShownOrders) /\ Len(r) = Len(q) + 1
      /\ \A i \in 1 .. Len(q) : r[i] = Shown(q)[i]
      /\ r[Len(q) + 1] = s
  BY <1>2, <1>3
<1> HIDE DEF r
<1>5. /\ Shown(p) \in Seq(ShownOrders) /\ Len(Shown(p)) = Len(q) + 1
      /\ \A i \in 1 .. Len(q) + 1 : Shown(p)[i] = [id |-> p[i].id, qty |-> p[i].qty]
  BY <1>1, ShownIs
<1>6. ASSUME NEW i \in 1 .. Len(q) + 1
      PROVE  Shown(p)[i] = r[i]
  <2>1. CASE i = Len(q) + 1
    BY <1>1, <1>4, <1>5, <2>1 DEF s
  <2>2. CASE i # Len(q) + 1
    <3>1. i \in 1 .. Len(q)
      BY <1>1, <2>2
    <3> QED
      BY <1>1, <1>3, <1>4, <1>5, <3>1
  <2> QED
    BY <2>1, <2>2
<1>7. Shown(p) = r
  BY <1>4, <1>5, <1>6, SameSeq
<1> QED
  BY <1>7 DEF p, r, s

(* A queue with one quantity changed.                                      *)
Changed(q, i, new) == [q EXCEPT ![i].qty = new]

(* An order with another quantity.                                         *)
LEMMA ShownChange ==
  ASSUME NEW q \in Seq(RestingOrders), NEW i \in 1 .. Len(q), NEW new
  PROVE  Shown(Changed(q, i, new)) = Changed(Shown(q), i, new)
<1> DEFINE p == [q EXCEPT ![i].qty = new]
           o == [q[i] EXCEPT !.qty = new]
<1>1. Len(q) \in Nat /\ DOMAIN q = 1 .. Len(q) /\ q \in [1 .. Len(q) -> RestingOrders] /\ q[i] \in RestingOrders
  OBVIOUS
<1>2. o.id = q[i].id /\ o.qty = new
  BY <1>1 DEF RestingOrders
<1>3. p = [q EXCEPT ![i] = o]
  OBVIOUS
<1> HIDE DEF o, p
<1>4. DOMAIN p = 1 .. Len(q) /\ p[i] = o /\ \A k \in 1 .. Len(q) : k # i => p[k] = q[k]
  BY <1>1, <1>3
<1>5. Shown(q) = [k \in 1 .. Len(q) |-> [id |-> q[k].id, qty |-> q[k].qty]]
  BY <1>1 DEF Shown
<1>6. Shown(p) = [k \in 1 .. Len(q) |-> [id |-> p[k].id, qty |-> p[k].qty]]
  BY <1>4 DEF Shown
<1> DEFINE s == [Shown(q) EXCEPT ![i].qty = new]
<1>7. s = [k \in 1 .. Len(q) |-> IF k = i THEN [id |-> q[i].id, qty |-> new] ELSE [id |-> q[k].id, qty |-> q[k].qty]]
  <2>1. DOMAIN Shown(q) = 1 .. Len(q)
        /\ \A k \in 1 .. Len(q) : Shown(q)[k] = [id |-> q[k].id, qty |-> q[k].qty]
    BY <1>5
  <2>2. s = [Shown(q) EXCEPT ![i] = [Shown(q)[i] EXCEPT !.qty = new]]
    OBVIOUS
  <2>3. [Shown(q)[i] EXCEPT !.qty = new] = [id |-> q[i].id, qty |-> new]
    <3>1. Shown(q)[i] = [id |-> q[i].id, qty |-> q[i].qty]
      BY <2>1
    <3> QED
      BY <3>1
  <2>4. s = [Shown(q) EXCEPT ![i] = [id |-> q[i].id, qty |-> new]]
    BY <2>2, <2>3
  <2> HIDE DEF s
  <2>5. s = [k \in 1 .. Len(q) |-> IF k = i THEN [id |-> q[i].id, qty |-> new] ELSE Shown(q)[k]]
    BY <2>1, <2>4
  <2> QED
    BY <2>1, <2>5
<1> HIDE DEF s
<1>8. ASSUME NEW k \in 1 .. Len(q)
      PROVE  [id |-> p[k].id, qty |-> p[k].qty]
             = IF k = i THEN [id |-> q[i].id, qty |-> new] ELSE [id |-> q[k].id, qty |-> q[k].qty]
  BY <1>2, <1>4
<1>9. Shown(p) = s
  BY <1>6, <1>7, <1>8
<1> QED
  BY <1>9 DEF Changed, p, s

(* One order less.                                                         *)
LEMMA ShownWithout ==
  ASSUME NEW q \in Seq(RestingOrders), NEW i \in 1 .. Len(q)
  PROVE  Shown(Without(q, i)) = Without(Shown(q), i)
<1> DEFINE p == Without(q, i)
           s == Shown(q)
           r == Without(s, i)
<1>1. /\ p \in Seq(RestingOrders) /\ Len(p) = Len(q) - 1
      /\ \A k \in 1 .. Len(q) - 1 : p[k] = IF k < i THEN q[k] ELSE q[k + 1]
  BY WithoutIs
<1>2. /\ s \in Seq(ShownOrders) /\ Len(s) = Len(q) /\ Len(q) \in Nat
      /\ \A k \in 1 .. Len(q) : s[k] = [id |-> q[k].id, qty |-> q[k].qty]
  BY ShownIs
<1> HIDE DEF p, s
<1>3. /\ r \in Seq(ShownOrders) /\ Len(r) = Len(q) - 1
      /\ \A k \in 1 .. Len(q) - 1 : r[k] = IF k < i THEN s[k] ELSE s[k + 1]
  <2>1. i \in 1 .. Len(s)
    BY <1>2
  <2> QED
    BY <1>2, <2>1, WithoutIs
<1> HIDE DEF r
<1>4. /\ Shown(p) \in Seq(ShownOrders) /\ Len(Shown(p)) = Len(q) - 1
      /\ \A k \in 1 .. Len(q) - 1 : Shown(p)[k] = [id |-> p[k].id, qty |-> p[k].qty]
  BY <1>1, ShownIs
<1>5. ASSUME NEW k \in 1 .. Len(q) - 1
      PROVE  Shown(p)[k] = r[k]
  <2>1. k \in 1 .. Len(q) /\ k + 1 \in 1 .. Len(q)
    BY <1>2
  <2> QED
    BY <1>1, <1>2, <1>3, <1>4, <2>1
<1>6. Shown(p) = r
  BY <1>3, <1>4, <1>5, SameSeq
<1> QED
  BY <1>6 DEF p, r, s

(* The slots count for nothing in the units.                               *)
LEMMA ShownUnits ==
  ASSUME NEW q \in Seq(RestingOrders), NEW price
  PROVE  /\ IsFiniteSet(UnitsOf(price, Shown(q)))
         /\ Cardinality(UnitsOf(price, Shown(q))) = Quantity(q)
<1>1. /\ DOMAIN Shown(q) = 1 .. Len(q) /\ DOMAIN q = 1 .. Len(q)
      /\ \A i \in 1 .. Len(q) : Shown(q)[i] = [id |-> q[i].id, qty |-> q[i].qty]
  BY ShownIs
<1>2. \A i \in 1 .. Len(q) : Shown(q)[i].qty = q[i].qty
  BY <1>1
<1>3. UnitsOf(price, Shown(q)) = UnitsOf(price, q)
  BY <1>1, <1>2 DEF UnitsOf
<1>4. HasQty(q)
  BY OrdersHaveQty, QueueHasQty
<1> QED
  BY <1>1, <1>3, <1>4, UnitsCount

-----------------------------------------------------------------------------
(* The book that the abstract one sees.                                    *)

(* The abstract book writes the opposite of a side as its negative.        *)
LEMMA MinusSide ==
  ASSUME NEW side \in Sides
  PROVE  -side = Opposite(side) /\ -side \in Sides
BY NamesOfSides, SideIsOne

(* The window is a part of the prices.                                     *)
LEMMA WindowPrices ==
  ASSUME Fits, CallType, NEW price \in minPrice .. maxPrice
  PROVE  price \in Prices /\ price \in Nat
BY Constants DEF Fits, CallType, Prices

(* The queue of a side at a price is what its level in the window holds.   *)
LEMMA RestingIs ==
  ASSUME Fits, NEW side \in Sides, NEW price \in Prices
  PROVE  Resting[side][price] = IF price \in minPrice .. maxPrice /\ side * LevelAt(price).total > 0
                                THEN Shown(LevelAt(price).fifo) ELSE <<>>
<1>1. price \in Int
  BY Constants DEF Prices
<1>2. InWindow(price) <=> price \in minPrice .. maxPrice
  BY <1>1, InWindowIs
<1> QED
  BY <1>2, Zenon DEF Resting, RestingAt, Shown

(* An empty queue is one that shows nothing.                               *)
LEMMA ShownEmpty == Shown(<<>>) = <<>>
<1>1. <<>> \in Seq(RestingOrders)
  OBVIOUS
<1> QED
  BY <1>1, ShownIs

(* A level that has no orders of the other side shows all it has.          *)
LEMMA QueueAt ==
  ASSUME Fits, LevelsGood, CallType, NEW side \in Sides, NEW price \in minPrice .. maxPrice,
         side * LevelAt(price).total >= 0
  PROVE  /\ Resting[side][price] = Shown(LevelAt(price).fifo)
         /\ LevelAt(price).fifo \in Seq(RestingOrders)
<1> DEFINE level == LevelAt(price)
<1>1. price \in Prices /\ price \in Int
  BY WindowPrices
<1>2. Good(level) /\ level.total \in Int
  BY <1>1, LevelIsGood
<1>3. Resting[side][price] = IF side * level.total > 0 THEN Shown(level.fifo) ELSE <<>>
  BY <1>1, RestingIs
<1>4. side * level.total >= 0
  OBVIOUS
<1> HIDE DEF level
<1>5. level.fifo \in Seq(RestingOrders)
  BY <1>2, OfGood
<1>6. CASE side * level.total > 0
  BY <1>3, <1>5, <1>6 DEF level
<1>7. CASE ~ (side * level.total > 0)
  <2>1. level.total = 0
    BY <1>2, <1>4, <1>7, SideSigns
  <2>2. level.fifo = <<>>
    BY <1>2, <2>1, OfGood
  <2> QED
    BY <1>3, <1>5, <1>7, <2>2, ShownEmpty DEF level
<1> QED
  BY <1>6, <1>7

(* A level that has no orders of a side shows none.                        *)
LEMMA NoQueueAt ==
  ASSUME Fits, LevelsGood, CallType, NEW side \in Sides, NEW price \in minPrice .. maxPrice,
         side * LevelAt(price).total <= 0
  PROVE  Resting[side][price] = <<>>
<1>1. price \in Prices /\ price \in Int
  BY WindowPrices
<1>2. LevelAt(price).total \in Int
  BY <1>1, LevelIsGood
<1>3. ~ (side * LevelAt(price).total > 0)
  BY <1>2, SideSigns
<1> QED
  BY <1>1, <1>3, RestingIs

(* The shape of the book.                                                  *)
LEMMA RestingType ==
  /\ Resting = [side \in Sides |-> [price \in Prices |-> Resting[side][price]]]
  /\ Resting' = [side \in Sides |-> [price \in Prices |-> Resting'[side][price]]]
<1>1. Resting = [side \in Sides |-> [price \in Prices |-> Resting[side][price]]]
  BY DEF Resting
<1>2. Resting' = [side \in Sides |-> [price \in Prices |-> Resting'[side][price]]]
  BY DEF Resting
<1> QED
  BY <1>1, <1>2

(* When the level of one price changes, one queue of the book does.        *)
LEMMA BookBecomes ==
  ASSUME Fits, LevelsGood, CallType, Fits', UNCHANGED window,
         NEW side \in Sides, NEW price \in minPrice .. maxPrice, NEW new, Good(new),
         side * LevelAt(price).total >= 0, side * new.total >= 0, Becomes(price, new)
  PROVE  Resting' = [Resting EXCEPT ![side][price] = Shown(new.fifo)]
<1>1. minPrice' = minPrice /\ maxPrice' = maxPrice /\ price \in Prices /\ price \in Int
  BY WindowPrices DEF window
<1>2. LevelAt(price).total \in Int /\ new.total \in Int
  BY <1>1, LevelIsGood, OfGood
<1> DEFINE T == [s \in Sides |-> [p \in Prices |-> IF s = side /\ p = price THEN Shown(new.fifo)
                                                   ELSE Resting[s][p]]]
<1>3. ASSUME NEW s \in Sides, NEW p \in Prices
      PROVE  Resting'[s][p] = IF p \in minPrice .. maxPrice /\ s * LevelAt(p)'.total > 0
                              THEN Shown(LevelAt(p)'.fifo) ELSE <<>>
  <2>1. InWindow(p)' <=> p \in minPrice .. maxPrice
    BY <1>1, Constants DEF InWindow, Fits, Prices
  <2> QED
    BY <2>1, Zenon DEF Resting, RestingAt, Shown
<1>4. ASSUME NEW s \in Sides, NEW p \in Prices
      PROVE  Resting'[s][p] = IF s = side /\ p = price THEN Shown(new.fifo) ELSE Resting[s][p]
  <2>1. CASE p # price
    <3>1. p \in minPrice .. maxPrice => LevelAt(p)' = LevelAt(p)
      BY <2>1 DEF Becomes
    <3> QED
      BY <1>3, <2>1, <3>1, RestingIs
  <2>2. CASE p = price /\ s = side
    <3>1. LevelAt(p)' = new
      BY <2>2 DEF Becomes
    <3>2. CASE side * new.total > 0
      BY <1>3, <2>2, <3>1, <3>2
    <3>3. CASE ~ (side * new.total > 0)
      <4>1. new.total = 0
        BY <1>2, <3>3, SideSigns
      <4>2. new.fifo = <<>>
        BY <4>1, OfGood
      <4> QED
        BY <1>3, <2>2, <3>1, <3>3, <4>2, ShownEmpty
    <3> QED
      BY <3>2, <3>3
  <2>3. CASE p = price /\ s # side
    <3>1. s = Opposite(side)
      BY <2>3, NamesOfSides
    <3>2. ~ (s * new.total > 0) /\ ~ (s * LevelAt(price).total > 0)
      <4>1. side * new.total \in Int /\ side * LevelAt(price).total \in Int
        BY <1>2, SideSigns
      <4> QED
        BY <1>2, <3>1, <4>1, OppositeSign
    <3>3. LevelAt(p)' = new
      BY <2>3 DEF Becomes
    <3>4. Resting'[s][p] = <<>>
      BY <1>3, <2>3, <3>2, <3>3
    <3>5. Resting[s][p] = <<>>
      BY <2>3, <3>2, RestingIs
    <3> QED
      BY <2>3, <3>4, <3>5
  <2> QED
    BY <2>1, <2>2, <2>3
<1>5. Resting' = T
  <2>1. Resting' = [s \in Sides |-> [p \in Prices |-> Resting'[s][p]]]
    BY RestingType
  <2> QED
    BY <1>4, <2>1
<1>6. [Resting EXCEPT ![side][price] = Shown(new.fifo)] = T
  <2> DEFINE R == [s \in Sides |-> [p \in Prices |-> Resting[s][p]]]
  <2>1. [R EXCEPT ![side][price] = Shown(new.fifo)] = T
    BY <1>1
  <2> QED
    BY <2>1, RestingType
<1> QED
  BY <1>5, <1>6

(* The steps that leave the book alone leave it as it shows.               *)
LEMMA RestingStays ==
  ASSUME UNCHANGED bookVars
  PROVE  Resting' = Resting
<1>1. levels' = levels /\ minIndex' = minIndex /\ minPrice' = minPrice /\ maxPrice' = maxPrice
  BY DEF bookVars, window
<1> QED
  BY <1>1, Zenon DEF Resting, RestingAt, InWindow, LevelAt, IndexOf

-----------------------------------------------------------------------------
(* The names of the abstract book.                                         *)
LEMMA AbstractNames ==
  /\ Abstract!Sell = Sell /\ Abstract!Buy = Buy /\ Abstract!Sides = Sides /\ Abstract!None = None
  /\ \A S : Abstract!Min(S) = Min(S) /\ Abstract!Max(S) = Max(S)
  /\ \A side, price, limit : Abstract!Within(side, price, limit) <=> Within(side, price, limit)
  /\ Abstract!NoOrder = [kind |-> "none"]
<1>1. Abstract!Sell = Sell /\ Abstract!Buy = Buy /\ Abstract!None = None /\ Abstract!NoOrder = [kind |-> "none"]
  BY DEF Abstract!Sell, Sell, Abstract!Buy, Buy, Abstract!None, None, Abstract!NoOrder
<1>2. Abstract!Sides = Sides
  BY <1>1 DEF Abstract!Sides, Sides
<1>3. \A S : Abstract!Min(S) = Min(S) /\ Abstract!Max(S) = Max(S)
  BY Zenon DEF Abstract!Min, Min, Abstract!Max, Max
<1>4. \A side, price, limit : Abstract!Within(side, price, limit) <=> Within(side, price, limit)
  BY <1>1 DEF Abstract!Within, Within
<1> QED
  BY <1>1, <1>2, <1>3, <1>4

(* The taker is the request at work.                                       *)
LEMMA TakerIs ==
  ASSUME CallType
  PROVE  /\ pc = "idle" => Taker = Abstract!NoOrder
         /\ pc # "idle" => /\ Taker # Abstract!NoOrder
                           /\ Taker = [kind |-> req.kind, side |-> req.side, id |-> req.id,
                                       price |-> req.price, left |-> left]
<1>1. CASE pc = "idle"
  BY <1>1, AbstractNames DEF Taker
<1>2. CASE pc # "idle"
  <2>1. req.kind # "none"
    BY <1>2, RequestType DEF Trading
  <2>2. Taker.kind = req.kind
    BY <1>2 DEF Taker
  <2> QED
    BY <1>2, <2>1, <2>2, AbstractNames DEF Taker
<1> QED
  BY <1>1, <1>2

(* The prices with orders of a side.                                       *)
LEMMA OccupiedIs ==
  ASSUME Fits, LevelsGood, CallType, NEW side \in Sides
  PROVE  Abstract!Occupied(side) = {p \in minPrice .. maxPrice : side * LevelAt(p).total > 0}
<1>1. ASSUME NEW p \in Prices
      PROVE  Resting[side][p] # <<>> <=> p \in minPrice .. maxPrice /\ side * LevelAt(p).total > 0
  <2>1. p \in Int
    BY Constants DEF Prices
  <2>2. CASE p \in minPrice .. maxPrice /\ side * LevelAt(p).total > 0
    <3>1. Resting[side][p] = Shown(LevelAt(p).fifo)
      BY <2>2, RestingIs
    <3>2. Good(LevelAt(p)) /\ LevelAt(p).total # 0
      BY <2>1, <2>2, LevelIsGood, SideSigns
    <3>3. LevelAt(p).fifo # <<>> /\ LevelAt(p).fifo \in Seq(RestingOrders)
      BY <3>2, OfGood
    <3> QED
      BY <2>2, <3>1, <3>3, ShownIs
  <2>3. CASE ~ (p \in minPrice .. maxPrice /\ side * LevelAt(p).total > 0)
    BY <2>3, RestingIs
  <2> QED
    BY <2>2, <2>3
<1>2. \A p \in minPrice .. maxPrice : p \in Prices
  BY WindowPrices
<1> QED
  BY <1>1, <1>2 DEF Abstract!Occupied

(* The best price of the masks is the best one of the abstract book.       *)
LEMMA AbstractBest ==
  ASSUME IInv, pc = "fill"
  PROVE  /\ Abstract!Occupied(-req.side) # {}
         /\ Abstract!Best(-req.side) = BestPrice
<1> DEFINE other == Opposite(req.side)
           S == Abstract!Occupied(other)
<1>1. Fits /\ LevelsGood /\ CallType
  BY Apart
<1>2. req.side \in Sides /\ other \in Sides /\ -req.side = other
  BY <1>1, RequestType, SideIsOne, MinusSide DEF Trading
<1>3. S = {p \in minPrice .. maxPrice : other * LevelAt(p).total > 0}
  BY <1>1, <1>2, OccupiedIs
<1>4. \A p \in minPrice .. maxPrice :
        LevelAt(p).total \in Int /\ (other * LevelAt(p).total > 0 <=> req.side * LevelAt(p).total < 0)
  <2> SUFFICES ASSUME NEW p \in minPrice .. maxPrice
               PROVE  LevelAt(p).total \in Int
                      /\ (other * LevelAt(p).total > 0 <=> req.side * LevelAt(p).total < 0)
    OBVIOUS
  <2>1. LevelAt(p).total \in Int
    BY <1>1, LevelIsGood DEF Fits
  <2> QED
    BY <1>2, <2>1, OppositeSign
<1>5. BestPrice \in S /\ BestPrice \in Int
  BY <1>1, <1>3, <1>4, BestInWindow DEF Fits
<1>6. minPrice \in Nat /\ maxPrice \in Nat
  BY <1>1 DEF Fits
<1>7. CASE req.side = Buy
  <2>1. other = Sell
    BY <1>7, NamesOfSides
  <2>2. \A p \in S : p \in Nat /\ BestPrice <= p
    <3> SUFFICES ASSUME NEW p \in S
                 PROVE  p \in Nat /\ BestPrice <= p
      OBVIOUS
    <3>1. p \in minPrice .. maxPrice /\ p \in Nat /\ LevelAt(p).total < 0 /\ LevelAt(p).total \in Int
      BY <1>3, <1>4, <1>6, <2>1, NamesOfSides
    <3>2. ~ (p < BestPrice)
      BY <1>7, <3>1, BestIs
    <3> QED
      BY <1>5, <3>1, <3>2
  <2>3. Min(S) \in S /\ \A p \in S : Min(S) <= p
    <3>1. S \in SUBSET Nat /\ S # {}
      BY <1>5, <2>2
    <3> HIDE DEF S
    <3> QED
      BY <3>1, MinIs
  <2>4. Min(S) = BestPrice
    <3>1. Min(S) \in Nat /\ BestPrice <= Min(S) /\ Min(S) <= BestPrice
      <4> HIDE DEF S
      <4> QED
        BY <1>5, <2>2, <2>3
    <3> HIDE DEF S
    <3> QED
      BY <1>5, <3>1
  <2>5. Abstract!Best(other) = Min(S)
    BY <2>1, AbstractNames DEF Abstract!Best
  <2> QED
    BY <1>2, <1>5, <2>4, <2>5
<1>8. CASE req.side = Sell
  <2>1. other = Buy
    BY <1>8, NamesOfSides
  <2>2. \A p \in S : p \in 0 .. maxPrice /\ p <= BestPrice
    <3> SUFFICES ASSUME NEW p \in S
                 PROVE  p \in 0 .. maxPrice /\ p <= BestPrice
      OBVIOUS
    <3>1. p \in minPrice .. maxPrice /\ p \in 0 .. maxPrice /\ LevelAt(p).total > 0 /\ LevelAt(p).total \in Int
      BY <1>3, <1>4, <1>6, <2>1, NamesOfSides
    <3>2. ~ (p > BestPrice)
      BY <1>8, <3>1, BestIs
    <3> QED
      BY <1>5, <3>1, <3>2
  <2>3. Max(S) \in S /\ \A p \in S : p <= Max(S)
    <3>1. S \in SUBSET (0 .. maxPrice) /\ S # {}
      BY <1>5, <2>2
    <3> HIDE DEF S
    <3> QED
      BY <1>6, <3>1, MaxIs
  <2>4. Max(S) = BestPrice
    <3>1. Max(S) \in 0 .. maxPrice /\ BestPrice <= Max(S) /\ Max(S) <= BestPrice
      <4> HIDE DEF S
      <4> QED
        BY <1>5, <2>2, <2>3
    <3> HIDE DEF S
    <3> QED
      BY <1>5, <1>6, <3>1
  <2>5. Abstract!Best(other) = Max(S)
    BY <2>1, AbstractNames, NamesOfSides DEF Abstract!Best
  <2> QED
    BY <1>2, <1>5, <2>4, <2>5
<1> QED
  BY <1>2, <1>7, <1>8, NamesOfSides

(* Once the trading is over, nothing can be traded.                        *)
LEMMA CannotTrade ==
  ASSUME IInv, pc \in {"shift", "rest"}
  PROVE  ~ Abstract!CanTrade
<1> SUFFICES ASSUME Abstract!CanTrade
             PROVE  FALSE
  OBVIOUS
<1> DEFINE other == Opposite(req.side)
           S == Abstract!Occupied(other)
           best == Abstract!Best(other)
<1>1. Fits /\ LevelsGood /\ CallType /\ TradeIsThorough
  BY Apart
<1>2. req.side \in Sides /\ other \in Sides /\ -req.side = other
  BY <1>1, RequestType, SideIsOne, MinusSide DEF Trading
<1>3. Taker.left = left /\ Taker.side = req.side /\ Taker.price = req.price
  BY <1>1, TakerIs
<1>4. left > 0 /\ S # {} /\ Within(req.side, best, req.price)
  BY <1>2, <1>3, AbstractNames DEF Abstract!CanTrade
<1>5. S = {p \in minPrice .. maxPrice : other * LevelAt(p).total > 0}
  BY <1>1, <1>2, OccupiedIs
<1>6. best \in S
  <2>1. S \in SUBSET Nat /\ S \in SUBSET (0 .. maxPrice) /\ maxPrice \in Nat
    BY <1>1, <1>5 DEF Fits
  <2>2. best = IF other = Sell THEN Min(S) ELSE Max(S)
    BY AbstractNames DEF Abstract!Best
  <2> HIDE DEF S, best
  <2>3. Min(S) \in S /\ Max(S) \in S
    BY <1>4, <2>1, MinIs, MaxIs
  <2> QED
    BY <2>2, <2>3
<1> HIDE DEF best
<1>7. best \in minPrice .. maxPrice /\ other * LevelAt(best).total > 0 /\ LevelAt(best).total \in Int
  BY <1>1, <1>5, <1>6, LevelIsGood DEF Fits
<1>8. req.side * LevelAt(best).total >= 0
  BY <1>1, <1>4, <1>7 DEF TradeIsThorough
<1>9. req.side * LevelAt(best).total < 0
  BY <1>2, <1>7, OppositeSign
<1>10. req.side * LevelAt(best).total \in Int
  BY <1>2, <1>7, SideSigns
<1> QED
  BY <1>8, <1>9, <1>10

-----------------------------------------------------------------------------
(* What a book R offers on a side at the prices of a set, unit by unit.    *)
Offered(R, side, P) == UNION {UnitsOf(p, R[side][p]) : p \in P}
FiniteBook(R) == \A side \in Sides, p \in Prices : IsFiniteSet(UnitsOf(p, R[side][p]))

InReach(side, limit) == {p \in Prices : Within(side, p, limit)}
OfferedTo(R, side, limit) == Cardinality(Offered(R, Opposite(side), InReach(side, limit)))

(* That is what the abstract book calls available.                         *)
LEMMA AvailableIs ==
  ASSUME NEW side \in Sides, NEW limit
  PROVE  Abstract!Available(side, limit) = OfferedTo(Resting, side, limit)
<1>1. \A S : Abstract!Cardinality(S) = Cardinality(S)
  BY Zenon DEF Abstract!Cardinality, Cardinality
<1>2. -side = Opposite(side)
  BY MinusSide
<1>3. {p \in Prices : Abstract!Within(side, p, limit)} = InReach(side, limit)
  BY AbstractNames DEF InReach
<1>4. \A p : Abstract!Units(Opposite(side), p) = UnitsOf(p, Resting[Opposite(side)][p])
  BY Zenon DEF Abstract!Units, UnitsOf
<1>5. Abstract!Available(side, limit)
      = Abstract!Cardinality(UNION {Abstract!Units(-side, p) : p \in {q \in Prices : Abstract!Within(side, q, limit)}})
  BY Zenon DEF Abstract!Available
<1> QED
  BY <1>1, <1>2, <1>3, <1>4, <1>5, Zenon DEF OfferedTo, Offered

(* Units at different prices are different.                                *)
LEMMA OfferedApart ==
  ASSUME NEW R, NEW side, NEW P, NEW price, price \notin P
  PROVE  Offered(R, side, P) \cap UnitsOf(price, R[side][price]) = {}
<1> SUFFICES ASSUME NEW u \in Offered(R, side, P), u \in UnitsOf(price, R[side][price])
             PROVE  FALSE
  OBVIOUS
<1>1. PICK p \in P : u \in UnitsOf(p, R[side][p])
  BY DEF Offered
<1>2. PICK i \in DOMAIN R[side][p] : u \in {<<p, i>>} \X (1 .. R[side][p][i].qty)
  BY <1>1 DEF UnitsOf
<1>3. PICK j \in DOMAIN R[side][price] : u \in {<<price, j>>} \X (1 .. R[side][price][j].qty)
  BY DEF UnitsOf
<1>4. u[1] = <<p, i>> /\ u[1] = <<price, j>>
  BY <1>2, <1>3
<1>5. p = price
  BY <1>4
<1> QED
  BY <1>5

(* Finitely many units in all.                                             *)
LEMMA OfferedFinite ==
  ASSUME NEW R, FiniteBook(R), NEW side \in Sides, NEW P \in SUBSET Prices
  PROVE  IsFiniteSet(Offered(R, side, P)) /\ Cardinality(Offered(R, side, P)) \in Nat
<1> DEFINE First(n) == Offered(R, side, MinPrice .. MinPrice + n - 1)
           S == {n \in Nat : IsFiniteSet(First(n))}
           m == MaxPrice - MinPrice + 1
<1>1. m \in Nat /\ MinPrice \in Nat /\ MaxPrice \in Nat
  BY Constants
<1>2. 0 \in S
  <2>1. First(0) = {}
    BY <1>1 DEF Offered
  <2> HIDE DEF First
  <2> QED
    BY <2>1, FS_EmptySet
<1>3. ASSUME NEW n \in 0 .. m - 1, n \in S
      PROVE  n + 1 \in S
  <2>1. MinPrice + n \in Prices /\ n \in Nat
    BY <1>1 DEF Prices
  <2>2. MinPrice .. MinPrice + (n + 1) - 1 = (MinPrice .. MinPrice + n - 1) \cup {MinPrice + n}
    BY <1>1, <2>1
  <2>3. First(n + 1) = First(n) \cup UnitsOf(MinPrice + n, R[side][MinPrice + n])
    BY <2>2 DEF Offered
  <2>4. IsFiniteSet(UnitsOf(MinPrice + n, R[side][MinPrice + n]))
    BY <2>1 DEF FiniteBook
  <2>5. IsFiniteSet(First(n))
    BY <1>3
  <2> HIDE DEF First
  <2>6. IsFiniteSet(First(n + 1))
    <3>1. PICK A, B : A = First(n) /\ B = UnitsOf(MinPrice + n, R[side][MinPrice + n])
      OBVIOUS
    <3>2. IsFiniteSet(A \cup B)
      BY <2>4, <2>5, <3>1, FS_Union
    <3> QED
      BY <2>3, <3>1, <3>2
  <2> QED
    BY <2>1, <2>6
<1>4. m \in S
  <2>1. m \in 0 .. m
    BY <1>1
  <2> HIDE DEF S, m
  <2> QED
    BY <1>1, <1>2, <1>3, <2>1, UpTo
<1>5. First(m) = Offered(R, side, Prices)
  <2>1. MinPrice .. MinPrice + m - 1 = Prices
    BY <1>1 DEF Prices
  <2> HIDE DEF m
  <2> QED
    BY <2>1
<1>6. Offered(R, side, P) \in SUBSET Offered(R, side, Prices)
  BY DEF Offered
<1> HIDE DEF First
<1>7. IsFiniteSet(Offered(R, side, P))
  BY <1>4, <1>5, <1>6, FS_Subset
<1> QED
  BY <1>7, FS_CardinalityType

(* One more price offers what rests there.                                 *)
LEMMA OfferedAdds ==
  ASSUME NEW R, FiniteBook(R), NEW side \in Sides, NEW P \in SUBSET Prices,
         NEW price \in Prices, price \notin P
  PROVE  Cardinality(Offered(R, side, P \cup {price}))
         = Cardinality(Offered(R, side, P)) + Cardinality(UnitsOf(price, R[side][price]))
<1>1. Offered(R, side, P \cup {price}) = Offered(R, side, P) \cup UnitsOf(price, R[side][price])
  BY DEF Offered
<1>2. IsFiniteSet(UnitsOf(price, R[side][price]))
  BY DEF FiniteBook
<1> QED
  BY <1>1, <1>2, OfferedApart, OfferedFinite, DisjointCount

(* More prices do not offer less.                                          *)
LEMMA OfferedGrows ==
  ASSUME NEW R, FiniteBook(R), NEW side \in Sides, NEW Q \in SUBSET Prices, NEW P \in SUBSET Q
  PROVE  Cardinality(Offered(R, side, P)) <= Cardinality(Offered(R, side, Q))
<1>1. Offered(R, side, P) \in SUBSET Offered(R, side, Q)
  BY DEF Offered
<1> QED
  BY <1>1, OfferedFinite, FS_Subset

(* The units at a price are those of the level's total.                    *)
LEMMA UnitsAt ==
  ASSUME Fits, LevelsGood, CallType, NEW side \in Sides, NEW p \in Prices
  PROVE  /\ IsFiniteSet(UnitsOf(p, Resting[Opposite(side)][p]))
         /\ p \in minPrice .. maxPrice /\ side * LevelAt(p).total <= 0 =>
              Cardinality(UnitsOf(p, Resting[Opposite(side)][p])) = -(side * LevelAt(p).total)
         /\ UnitsOf(p, Resting[Opposite(side)][p]) # {} =>
              p \in minPrice .. maxPrice /\ side * LevelAt(p).total < 0
<1> DEFINE other == Opposite(side)
           level == LevelAt(p)
           units == UnitsOf(p, Resting[other][p])
<1>1. p \in Int /\ other \in Sides
  BY Constants, SideIsOne DEF Prices
<1>2. Good(level) /\ level.total \in Int
  BY <1>1, LevelIsGood
<1>3. Resting[other][p] = IF p \in minPrice .. maxPrice /\ other * level.total > 0 THEN Shown(level.fifo) ELSE <<>>
  BY <1>1, RestingIs
<1> HIDE DEF level
<1>4. (other * level.total > 0 <=> side * level.total < 0) /\ side * level.total \in Int
  BY <1>2, OppositeSign
<1>5. CASE p \in minPrice .. maxPrice /\ side * level.total < 0
  <2>1. Resting[other][p] = Shown(level.fifo)
    BY <1>3, <1>4, <1>5
  <2>2. level.fifo \in Seq(RestingOrders) /\ Quantity(level.fifo) \in Nat
    BY <1>2, OfGood
  <2>3. IsFiniteSet(units) /\ Cardinality(units) = Quantity(level.fifo)
    BY <2>1, <2>2, ShownUnits
  <2>4. level.total = other * Quantity(level.fifo)
    BY <1>2, <1>5, TotalIs
  <2>5. Quantity(level.fifo) = -(side * level.total)
    <3> DEFINE n == Quantity(level.fifo)
               t == level.total
    <3>1. n \in Nat /\ t = other * n
      BY <2>2, <2>4
    <3> HIDE DEF n, t
    <3>2. ASSUME side = 1 PROVE n = -(side * t)
      <4>1. Opposite(side) = -1
        BY <3>2, SideIsOne
      <4>2. t = -1 * n
        BY <3>1, <4>1
      <4> QED
        BY <3>1, <3>2, <4>2
    <3>3. ASSUME side = -1 PROVE n = -(side * t)
      <4>1. Opposite(side) = 1
        BY <3>3, SideIsOne
      <4>2. t = 1 * n
        BY <3>1, <4>1
      <4> QED
        BY <3>1, <3>3, <4>2
    <3>5. side \in {1, -1}
      BY SideIsOne
    <3>4. n = -(side * t)
      BY <3>2, <3>3, <3>5
    <3> QED
      BY <3>4 DEF n, t
  <2> QED
    BY <1>5, <2>3, <2>5 DEF level
<1>6. CASE ~ (p \in minPrice .. maxPrice /\ side * level.total < 0)
  <2>1. Resting[other][p] = <<>>
    BY <1>3, <1>4, <1>6
  <2>2. units = {}
    BY <2>1 DEF UnitsOf
  <2>3. IsFiniteSet(units) /\ Cardinality(units) = 0
    BY <2>2, FS_EmptySet
  <2>4. p \in minPrice .. maxPrice /\ side * level.total <= 0 => 0 = -(side * level.total)
    BY <1>4, <1>6
  <2> QED
    BY <2>2, <2>3, <2>4 DEF level
<1> QED
  BY <1>5, <1>6

(* The book as it shows is finite.                                         *)
LEMMA RestingFinite ==
  ASSUME Fits, LevelsGood, CallType
  PROVE  FiniteBook(Resting)
<1> SUFFICES ASSUME NEW side \in Sides, NEW p \in Prices
             PROVE  IsFiniteSet(UnitsOf(p, Resting[side][p]))
  BY DEF FiniteBook
<1>1. PICK s \in Sides : side = Opposite(s)
  BY NamesOfSides
<1> QED
  BY <1>1, UnitsAt

(* Where no price within the limit has orders of the other side, nothing   *)
(* is offered.                                                             *)
LEMMA NothingOffered ==
  ASSUME Fits, LevelsGood, CallType, NEW side \in Sides, NEW limit,
         \A p \in minPrice .. maxPrice : Within(side, p, limit) => side * LevelAt(p).total >= 0
  PROVE  OfferedTo(Resting, side, limit) = 0
<1>1. ASSUME NEW p \in InReach(side, limit)
      PROVE  UnitsOf(p, Resting[Opposite(side)][p]) = {}
  <2>1. p \in Prices /\ Within(side, p, limit) /\ p \in Int
    BY Constants DEF InReach, Prices
  <2>2. side * LevelAt(p).total \in Int
    BY <2>1, LevelIsGood, SideSigns
  <2>3. ~ (p \in minPrice .. maxPrice /\ side * LevelAt(p).total < 0)
    BY <2>1, <2>2
  <2> QED
    BY <2>1, <2>3, UnitsAt
<1>2. Offered(Resting, Opposite(side), InReach(side, limit)) = {}
  BY <1>1 DEF Offered
<1> QED
  BY <1>2, FS_EmptySet DEF OfferedTo

-----------------------------------------------------------------------------
(* The walk of _check_fok.                                                 *)

(* What is wanted after the k-th of its steps, when before was wanted.     *)
Walked(side, bottom, top, before, k) ==
  IF before > 0 /\ Within(side, top + side * (k - 1), bottom)
  THEN before + side * LevelAt(top + side * (k - 1)).total
  ELSE before

IsWalk(w, n, side, bottom, top, qty) ==
  w = [k \in 0 .. n |-> IF k = 0 THEN qty ELSE Walked(side, bottom, top, w[k - 1], k)]

(* There is such a walk of any length.                                     *)
LEMMA WalkExists ==
  ASSUME NEW m \in Nat, NEW side, NEW bottom, NEW top, NEW qty
  PROVE  \E w : IsWalk(w, m, side, bottom, top, qty)
<1> DEFINE S == {n \in Nat : \E w : IsWalk(w, n, side, bottom, top, qty)}
<1>1. 0 \in S
  <2>1. IsWalk([k \in 0 .. 0 |-> qty], 0, side, bottom, top, qty)
    BY DEF IsWalk
  <2> QED
    BY <2>1
<1>2. ASSUME NEW n \in 0 .. m - 1, n \in S
      PROVE  n + 1 \in S
  <2>1. PICK w : IsWalk(w, n, side, bottom, top, qty)
    BY <1>2
  <2> DEFINE g == [k \in 0 .. n + 1 |-> IF k = n + 1 THEN Walked(side, bottom, top, w[n], n + 1) ELSE w[k]]
  <2>2. n \in Nat /\ w = [k \in 0 .. n |-> IF k = 0 THEN qty ELSE Walked(side, bottom, top, w[k - 1], k)]
    BY <2>1 DEF IsWalk
  <2>3. ASSUME NEW k \in 0 .. n + 1
        PROVE  g[k] = IF k = 0 THEN qty ELSE Walked(side, bottom, top, g[k - 1], k)
    <3>1. CASE k = n + 1
      <4>1. k # 0 /\ k - 1 = n /\ n \in 0 .. n + 1 /\ n # n + 1
        BY <2>2, <3>1
      <4>2. g[k - 1] = w[n]
        BY <4>1
      <4> QED
        BY <3>1, <4>1, <4>2
    <3>2. CASE k = 0
      <4>1. k # n + 1 /\ 0 \in 0 .. n
        BY <2>2, <3>2
      <4> QED
        BY <2>2, <3>2, <4>1
    <3>3. CASE k # n + 1 /\ k # 0
      <4>1. k \in 0 .. n /\ k - 1 \in 0 .. n + 1 /\ k - 1 # n + 1
        BY <2>2, <3>3
      <4>2. g[k] = w[k] /\ g[k - 1] = w[k - 1]
        BY <3>3, <4>1
      <4>3. w[k] = Walked(side, bottom, top, w[k - 1], k)
        BY <2>2, <3>3, <4>1
      <4> QED
        BY <3>3, <4>2, <4>3
    <3> QED
      BY <3>1, <3>2, <3>3
  <2>4. g = [k \in 0 .. n + 1 |-> g[k]]
    OBVIOUS
  <2> HIDE DEF g
  <2>5. IsWalk(g, n + 1, side, bottom, top, qty)
    BY <2>3, <2>4 DEF IsWalk
  <2> QED
    BY <2>2, <2>5
<1>3. m \in 0 .. m
  OBVIOUS
<1>4. m \in S
  <2> HIDE DEF S
  <2> QED
    BY <1>1, <1>2, <1>3, UpTo
<1> QED
  BY <1>4

(* The check is one.                                                       *)
LEMMA CanFillIs ==
  ASSUME NEW side, NEW limit, NEW qty
  PROVE  \E w : /\ IsWalk(w, Size, side, BottomPrice(side, limit), TopPrice(Opposite(side)), qty)
                /\ CanFill(side, limit, qty) <=> w[Size] <= 0
<1> DEFINE bottom == BottomPrice(side, limit)
           top == TopPrice(Opposite(side))
           Is(h) == h = [k \in 0 .. Size |->
                           IF k = 0 THEN qty
                           ELSE IF h[k - 1] > 0 /\ Within(side, top + side * (k - 1), bottom)
                                THEN h[k - 1] + side * LevelAt(top + side * (k - 1)).total
                                ELSE h[k - 1]]
           w == CHOOSE h : Is(h)
<1>1. Size \in Nat
  BY Constants
<1>2. \A h : Is(h) <=> IsWalk(h, Size, side, bottom, top, qty)
  BY DEF IsWalk, Walked
<1>3. \E h : Is(h)
  <2> HIDE DEF Is, bottom, top
  <2> QED
    BY <1>1, <1>2, WalkExists
<1>4. Is(w)
  <2> HIDE DEF Is
  <2> QED
    BY <1>3, Zenon
<1>5. CanFill(side, limit, qty) <=> w[Size] <= 0
  BY Zenon DEF CanFill
<1> HIDE DEF Is, w
<1> QED
  BY <1>2, <1>4, <1>5

-----------------------------------------------------------------------------
(* The walk counts.                                                        *)

(* How far a price is from the best one of the other side, in steps of the *)
(* walk, and the prices within the limit that k steps have passed.         *)
Ahead(side, p) == side * (p - TopPrice(Opposite(side)))
Passed(side, limit, k) ==
  {p \in minPrice .. maxPrice : Within(side, p, limit) /\ Ahead(side, p) \in 0 .. k - 1}

(* From the best price on there are no orders of the taker's side, before  *)
(* it none of the other, and Size steps reach the end of the window.       *)
LEMMA AheadIs ==
  ASSUME IInv, pc = "idle", NEW side \in Sides
  PROVE  /\ TopPrice(Opposite(side)) \in Int
         /\ side = Buy => minPrice <= TopPrice(Opposite(side))
         /\ side = Sell => TopPrice(Opposite(side)) <= maxPrice
         /\ \A p \in minPrice .. maxPrice :
              /\ Ahead(side, p) \in Int /\ Ahead(side, p) < Size
              /\ Ahead(side, p) >= 0 => side * LevelAt(p).total <= 0
              /\ Ahead(side, p) < 0 => side * LevelAt(p).total >= 0
<1> DEFINE top == TopPrice(Opposite(side))
<1>1. /\ Fits /\ LevelsGood /\ MaskType /\ Uncrossed /\ MasksShow
  BY Apart
<1>2. Opposite(side) \in Sides
  BY NamesOfSides
<1>3. \A p \in minPrice .. maxPrice : Shows(Opposite(side), p)
  <2>1. Expiring(Opposite(side)) = {}
    BY DEF Expiring
  <2> QED
    BY <1>1, <1>2, <2>1 DEF MasksShow
<1>4. /\ top \in Int /\ minPrice - 1 <= top /\ top <= maxPrice + 1
      /\ InWindow(top) => Opposite(side) * LevelAt(top).total > 0
      /\ Opposite(side) = Sell => /\ minPrice <= top
                                  /\ \A p \in minPrice .. maxPrice : p < top => LevelAt(p).total >= 0
      /\ Opposite(side) = Buy  => /\ top <= maxPrice
                                  /\ \A p \in minPrice .. maxPrice : p > top => LevelAt(p).total <= 0
  BY <1>1, <1>2, <1>3, TopIs
<1> HIDE DEF top
<1>5. /\ minPrice \in Int /\ maxPrice \in Int /\ minPrice <= maxPrice
      /\ maxPrice - minPrice <= Size - 2 /\ Size \in Int
  BY <1>1, Constants DEF Fits
<1>6. \A p \in Int : LevelAt(p).total \in Int
  BY <1>1, LevelIsGood
<1>7. ASSUME NEW p \in minPrice .. maxPrice
      PROVE  /\ Ahead(side, p) \in Int /\ Ahead(side, p) < Size
             /\ Ahead(side, p) >= 0 => side * LevelAt(p).total <= 0
             /\ Ahead(side, p) < 0 => side * LevelAt(p).total >= 0
  <2>0. p \in Int /\ LevelAt(p).total \in Int /\ LevelAt(top).total \in Int
    BY <1>4, <1>5, <1>6
  <2>1. CASE side = Buy
    <3>1. Opposite(side) = Sell /\ Ahead(side, p) = p - top
      <4>1. Ahead(side, p) = 1 * (p - top)
        BY <2>1, NamesOfSides DEF Ahead, top
      <4> QED
        BY <1>4, <2>0, <2>1, <4>1, NamesOfSides
    <3>2. side * LevelAt(p).total = LevelAt(p).total
      <4>1. side * LevelAt(p).total = 1 * LevelAt(p).total
        BY <2>1, NamesOfSides
      <4> QED
        BY <2>0, <4>1
    <3>3. Opposite(side) * LevelAt(top).total > 0 => LevelAt(top).total < 0
      BY <1>2, <2>0, <3>1, SideSigns, NamesOfSides
    <3>4. p >= top => LevelAt(p).total <= 0
      <4>1. SUFFICES ASSUME p >= top PROVE LevelAt(p).total <= 0
        OBVIOUS
      <4>2. top \in minPrice .. maxPrice /\ InWindow(top)
        BY <1>4, <1>5, <2>0, <3>1, <4>1 DEF InWindow
      <4>3. LevelAt(top).total < 0
        BY <1>4, <3>3, <4>2
      <4>4. ~ (LevelAt(top).total < 0 /\ LevelAt(p).total > 0)
        BY <1>1, <4>1, <4>2 DEF Uncrossed
      <4> QED
        BY <2>0, <4>3, <4>4
    <3>5. p < top => LevelAt(p).total >= 0
      BY <1>4, <3>1
    <3> QED
      BY <1>4, <1>5, <2>0, <3>1, <3>2, <3>4, <3>5
  <2>2. CASE side = Sell
    <3>1. Opposite(side) = Buy /\ Ahead(side, p) = top - p
      <4>1. Ahead(side, p) = (-1) * (p - top)
        BY <2>2, NamesOfSides DEF Ahead, top
      <4> QED
        BY <1>4, <2>0, <2>2, <4>1, NamesOfSides
    <3>2. side * LevelAt(p).total = -LevelAt(p).total
      <4>1. side * LevelAt(p).total = (-1) * LevelAt(p).total
        BY <2>2, NamesOfSides
      <4> QED
        BY <2>0, <4>1
    <3>3. Opposite(side) * LevelAt(top).total > 0 => LevelAt(top).total > 0
      BY <1>2, <2>0, <3>1, SideSigns, NamesOfSides
    <3>4. p <= top => LevelAt(p).total >= 0
      <4>1. SUFFICES ASSUME p <= top PROVE LevelAt(p).total >= 0
        OBVIOUS
      <4>2. top \in minPrice .. maxPrice /\ InWindow(top)
        BY <1>4, <1>5, <2>0, <3>1, <4>1 DEF InWindow
      <4>3. LevelAt(top).total > 0
        BY <1>4, <3>3, <4>2
      <4>4. ~ (LevelAt(p).total < 0 /\ LevelAt(top).total > 0)
        BY <1>1, <4>1, <4>2 DEF Uncrossed
      <4> QED
        BY <2>0, <4>3, <4>4
    <3>5. p > top => LevelAt(p).total <= 0
      BY <1>4, <3>1
    <3> QED
      BY <1>4, <1>5, <2>0, <3>1, <3>2, <3>4, <3>5
  <2> QED
    BY <2>1, <2>2, NamesOfSides
<1>8. /\ side = Buy => minPrice <= top
      /\ side = Sell => top <= maxPrice
  BY <1>4, NamesOfSides
<1> QED
  BY <1>4, <1>7, <1>8 DEF top

(* The next step passes one more price, or none within the limit.          *)
LEMMA PassedNext ==
  ASSUME IInv, pc = "idle", NEW side \in Sides, NEW limit \in Prices, NEW k \in Nat,
         NEW price, price = TopPrice(Opposite(side)) + side * k
  PROVE  /\ price \in Int
         /\ Within(side, price, BottomPrice(side, limit)) =>
              /\ price \in minPrice .. maxPrice /\ price \notin Passed(side, limit, k)
              /\ side * LevelAt(price).total <= 0
              /\ Passed(side, limit, k + 1) = Passed(side, limit, k) \cup {price}
         /\ ~ Within(side, price, BottomPrice(side, limit)) =>
              Passed(side, limit, k + 1) = Passed(side, limit, k)
<1> DEFINE top == TopPrice(Opposite(side))
<1>1. /\ top \in Int
      /\ side = Buy => minPrice <= top
      /\ side = Sell => top <= maxPrice
      /\ \A p \in minPrice .. maxPrice :
           Ahead(side, p) \in Int /\ (Ahead(side, p) >= 0 => side * LevelAt(p).total <= 0)
  BY AheadIs
<1>2. minPrice \in Int /\ maxPrice \in Int /\ limit \in Int
  BY Apart, Constants DEF Fits, Prices
<1>3. price = top + side * k
  OBVIOUS
<1> HIDE DEF top
<1>4. /\ price \in Int
      /\ \A p \in Int : Ahead(side, p) = k <=> p = price
      /\ Within(side, price, BottomPrice(side, limit)) <=>
           price \in minPrice .. maxPrice /\ Within(side, price, limit)
  <2>1. CASE side = Buy
    <3>1. price = top + k
      <4>1. price = top + 1 * k
        BY <1>3, <2>1, NamesOfSides
      <4> QED
        BY <1>1, <4>1
    <3>2. \A p \in Int : Ahead(side, p) = p - top
      <4>1. \A p \in Int : Ahead(side, p) = 1 * (p - top)
        BY <2>1, NamesOfSides DEF Ahead, top
      <4> QED
        BY <1>1, <4>1
    <3>3. side # Sell
      BY <2>1, NamesOfSides
    <3> QED
      BY <1>1, <1>2, <2>1, <3>1, <3>2, <3>3 DEF Within, BottomPrice, Smaller
  <2>2. CASE side = Sell
    <3>1. price = top - k
      <4>1. price = top + (-1) * k
        BY <1>3, <2>2, NamesOfSides
      <4> QED
        BY <1>1, <4>1
    <3>2. \A p \in Int : Ahead(side, p) = top - p
      <4>1. \A p \in Int : Ahead(side, p) = (-1) * (p - top)
        BY <2>2, NamesOfSides DEF Ahead, top
      <4> QED
        BY <1>1, <4>1
    <3> QED
      BY <1>1, <1>2, <2>2, <3>1, <3>2 DEF Within, BottomPrice, Larger
  <2> QED
    BY <2>1, <2>2, NamesOfSides
<1>5. \A p : p \in Passed(side, limit, k + 1) <=>
               \/ p \in Passed(side, limit, k)
               \/ p \in minPrice .. maxPrice /\ Within(side, p, limit) /\ Ahead(side, p) = k
  BY <1>1 DEF Passed
<1>6. CASE Within(side, price, BottomPrice(side, limit))
  <2>1. price \in minPrice .. maxPrice /\ Within(side, price, limit) /\ Ahead(side, price) = k
    BY <1>4, <1>6
  <2>2. price \notin Passed(side, limit, k)
    BY <2>1 DEF Passed
  <2>3. Passed(side, limit, k + 1) = Passed(side, limit, k) \cup {price}
    BY <1>2, <1>4, <1>5, <2>1
  <2>4. side * LevelAt(price).total <= 0
    BY <1>1, <2>1
  <2> QED
    BY <1>4, <1>6, <2>1, <2>2, <2>3, <2>4
<1>7. CASE ~ Within(side, price, BottomPrice(side, limit))
  <2>1. ~ (price \in minPrice .. maxPrice /\ Within(side, price, limit))
    BY <1>4, <1>7
  <2>2. Passed(side, limit, k + 1) = Passed(side, limit, k)
    BY <1>2, <1>4, <1>5, <2>1
  <2> QED
    BY <1>4, <1>7, <2>2
<1> QED
  BY <1>6, <1>7

(* The walk over the totals counts the units that rest within the limit:   *)
(* _check_fok accepts exactly the orders they can fill.                    *)
LEMMA WalkCounts ==
  ASSUME IInv, pc = "idle", NEW side \in Sides, NEW limit \in Prices, NEW qty \in Nat \ {0}
  PROVE  CanFill(side, limit, qty) <=> OfferedTo(Resting, side, limit) >= qty
<1> DEFINE top == TopPrice(Opposite(side))
           bottom == BottomPrice(side, limit)
           Count(k) == Cardinality(Offered(Resting, Opposite(side), Passed(side, limit, k)))
           total(k) == side * LevelAt(top + side * k).total
<1>1. Fits /\ LevelsGood /\ CallType /\ Size \in Nat
  BY Apart, Constants
<1>2. FiniteBook(Resting) /\ Opposite(side) \in Sides
  BY <1>1, RestingFinite, NamesOfSides
<1>3. minPrice .. maxPrice \subseteq Prices
  BY <1>1, WindowPrices
<1>4. \A k \in Nat : Passed(side, limit, k) \in SUBSET Prices
  BY <1>3 DEF Passed
<1>5. \A k \in Nat : Count(k) \in Nat
  BY <1>2, <1>4, OfferedFinite
<1>6. Count(0) = 0
  <2>1. Passed(side, limit, 0) = {}
    BY AheadIs DEF Passed
  <2>2. Offered(Resting, Opposite(side), {}) = {}
    BY DEF Offered
  <2> QED
    BY <2>1, <2>2, FS_EmptySet
<1>7. ASSUME NEW k \in Nat
      PROVE  /\ Within(side, top + side * k, bottom) =>
                  total(k) \in Int /\ total(k) <= 0 /\ Count(k + 1) = Count(k) - total(k)
             /\ ~ Within(side, top + side * k, bottom) => Count(k + 1) = Count(k)
  <2> DEFINE price == top + side * k
  <2>1. /\ price \in Int
        /\ Within(side, price, bottom) =>
             /\ price \in minPrice .. maxPrice /\ price \notin Passed(side, limit, k)
             /\ side * LevelAt(price).total <= 0
             /\ Passed(side, limit, k + 1) = Passed(side, limit, k) \cup {price}
        /\ ~ Within(side, price, bottom) => Passed(side, limit, k + 1) = Passed(side, limit, k)
    BY PassedNext
  <2> HIDE DEF price, top, bottom
  <2>2. CASE Within(side, price, bottom)
    <3>1. price \in Prices /\ price \in minPrice .. maxPrice
      BY <1>3, <2>1, <2>2
    <3>2. side * LevelAt(price).total \in Int
      BY <1>1, <2>1, LevelIsGood, SideSigns
    <3>3. Cardinality(UnitsOf(price, Resting[Opposite(side)][price])) = -(side * LevelAt(price).total)
      BY <1>1, <2>1, <2>2, <3>1, UnitsAt
    <3>4. Count(k + 1) = Count(k) + Cardinality(UnitsOf(price, Resting[Opposite(side)][price]))
      BY <1>2, <1>4, <2>1, <2>2, <3>1, OfferedAdds
    <3>5. Count(k) \in Int
      BY <1>5
    <3> HIDE DEF Count
    <3>6. Count(k + 1) = Count(k) - side * LevelAt(price).total
      BY <3>2, <3>3, <3>4, <3>5
    <3> QED
      BY <2>1, <2>2, <3>2, <3>6 DEF price
  <2>3. CASE ~ Within(side, price, bottom)
    BY <2>1, <2>3 DEF price
  <2> QED
    BY <2>2, <2>3 DEF price
<1>8. Count(Size) = OfferedTo(Resting, side, limit)
  <2>1. ASSUME NEW p \in InReach(side, limit), p \notin Passed(side, limit, Size)
        PROVE  UnitsOf(p, Resting[Opposite(side)][p]) = {}
    <3>1. p \in Prices /\ Within(side, p, limit)
      BY DEF InReach
    <3>2. CASE p \in minPrice .. maxPrice
      <4>1. Ahead(side, p) \in Int /\ Ahead(side, p) < Size /\ Ahead(side, p) \notin 0 .. Size - 1
        BY <2>1, <3>1, <3>2, AheadIs DEF Passed
      <4>2. Ahead(side, p) < 0
        BY <1>1, <4>1
      <4>3. side * LevelAt(p).total >= 0
        BY <3>2, <4>2, AheadIs
      <4>4. side * LevelAt(p).total \in Int
        <5>1. p \in Int
          BY <3>1, Constants DEF Prices
        <5> QED
          BY <1>1, <5>1, LevelIsGood, SideSigns
      <4>5. ~ (side * LevelAt(p).total < 0)
        BY <4>3, <4>4
      <4> QED
        BY <1>1, <3>1, <4>5, UnitsAt
    <3>3. CASE p \notin minPrice .. maxPrice
      BY <1>1, <3>1, <3>3, UnitsAt
    <3> QED
      BY <3>2, <3>3
  <2>2. Passed(side, limit, Size) \in SUBSET InReach(side, limit)
    BY <1>3 DEF Passed, InReach
  <2>3. Offered(Resting, Opposite(side), InReach(side, limit))
        = Offered(Resting, Opposite(side), Passed(side, limit, Size))
    BY <2>1, <2>2 DEF Offered
  <2> QED
    BY <2>3 DEF OfferedTo
<1>9. PICK w : /\ IsWalk(w, Size, side, bottom, top, qty)
               /\ CanFill(side, limit, qty) <=> w[Size] <= 0
  BY CanFillIs
<1>10. w = [k \in 0 .. Size |-> IF k = 0 THEN qty ELSE Walked(side, bottom, top, w[k - 1], k)]
  BY <1>9 DEF IsWalk
<1> HIDE DEF Count, top, bottom, total
<1> DEFINE Right(k) == /\ w[k] \in Int
                       /\ w[k] > 0 => w[k] = qty - Count(k)
                       /\ w[k] <= 0 => Count(k) >= qty
           S == {k \in Nat : Right(k)}
<1>11. 0 \in S
  <2>1. w[0] = qty
    BY <1>1, <1>10
  <2> QED
    BY <1>6, <2>1
<1>12. ASSUME NEW k \in 0 .. Size - 1, k \in S
       PROVE  k + 1 \in S
  <2>1. k \in Nat /\ k + 1 \in 0 .. Size /\ k + 1 # 0 /\ (k + 1) - 1 = k
    BY <1>1
  <2>2. Right(k)
    BY <1>12
  <2>3. w[k + 1] = Walked(side, bottom, top, w[k], k + 1)
    BY <1>10, <2>1
  <2>4. w[k + 1] = IF w[k] > 0 /\ Within(side, top + side * k, bottom) THEN w[k] + total(k) ELSE w[k]
    BY <2>1, <2>3 DEF Walked, total
  <2>5. Count(k) \in Nat
    BY <1>5, <2>1
  <2>6. /\ Within(side, top + side * k, bottom) =>
             total(k) \in Int /\ total(k) <= 0 /\ Count(k + 1) = Count(k) - total(k)
        /\ ~ Within(side, top + side * k, bottom) => Count(k + 1) = Count(k)
    BY <1>7, <2>1 DEF top, bottom, total
  <2>7. Right(k + 1)
    <3>1. CASE Within(side, top + side * k, bottom)
      BY <2>2, <2>4, <2>5, <2>6, <3>1
    <3>2. CASE ~ Within(side, top + side * k, bottom)
      BY <2>2, <2>4, <2>5, <2>6, <3>2
    <3> QED
      BY <3>1, <3>2
  <2> QED
    BY <2>1, <2>7
<1>13. Right(Size)
  <2>1. Size \in 0 .. Size
    BY <1>1
  <2>2. Size \in S
    <3> HIDE DEF S
    <3> QED
      BY <1>1, <1>11, <1>12, <2>1, UpTo
  <2> QED
    BY <2>2
<1>14. Count(Size) \in Nat
  BY <1>1, <1>5
<1> QED
  BY <1>8, <1>9, <1>13, <1>14

-----------------------------------------------------------------------------
(* A fill-or-kill order stays covered while it trades.                     *)

(* What is to be shown of a step for a fill-or-kill order to stay covered. *)
LEMMA CoveredNext ==
  ASSUME NEW side \in Sides, NEW limit, pc' # "idle" => req'.side = side /\ req'.price = limit,
         pc' = "fill" => Within(side, TopPrice(Opposite(side))', limit),
         pc' \in {"match", "fill"} /\ req'.kind = "fok" => OfferedTo(Resting', side, limit) >= left',
         pc' \in {"shift", "rest"} /\ req'.kind = "fok" => left' = 0
  PROVE  TradeIsCovered'
<1>1. pc' = "fill" => Within(req.side, BestPrice, req.price)'
  BY DEF Within, BestPrice
<1>2. pc' \in {"match", "fill"} => Abstract!Available(req.side, req.price)' = OfferedTo(Resting', side, limit)
  <2> SUFFICES ASSUME pc' # "idle"
               PROVE  Abstract!Available(req.side, req.price)' = OfferedTo(Resting', side, limit)
    OBVIOUS
  <2>1. \A S : Abstract!Cardinality(S) = Cardinality(S)
    BY Zenon DEF Abstract!Cardinality, Cardinality
  <2>2. -side = Opposite(side)
    BY MinusSide
  <2>3. {p \in Prices : Abstract!Within(req'.side, p, req'.price)} = InReach(side, limit)
    BY AbstractNames DEF InReach
  <2>4. \A p : Abstract!Units(-req.side, p)' = UnitsOf(p, Resting'[Opposite(side)][p])
    BY <2>2 DEF Abstract!Units, UnitsOf
  <2> QED
    BY <2>1, <2>2, <2>3, <2>4, Zenon DEF Abstract!Available, OfferedTo, Offered
<1> QED
  BY <1>1, <1>2 DEF TradeIsCovered

(* The quantity that goes from a total, without its sign.                  *)
LEMMA SignedTake ==
  ASSUME NEW side \in Sides, NEW m \in Int, NEW n \in Int, NEW x \in Int,
         Opposite(side) * n = Opposite(side) * m + side * x
  PROVE  n = m - x
<1>1. ASSUME side = 1 PROVE n = m - x
  <2>1. Opposite(side) = -1
    BY <1>1, SideIsOne
  <2>2. (-1) * n = (-1) * m + 1 * x
    BY <1>1, <2>1
  <2> QED
    BY <2>2
<1>2. ASSUME side = -1 PROVE n = m - x
  <2>1. Opposite(side) = 1
    BY <1>2, SideIsOne
  <2>2. 1 * n = 1 * m + (-1) * x
    BY <1>2, <2>1
  <2> QED
    BY <2>2
<1> QED
  BY <1>1, <1>2, SideIsOne

(* What Fill does to the queue it takes from, as the book shows it.        *)
LEMMA FillFacts ==
  ASSUME IInv, Fill, NEW side, side = req.side, NEW price, price = BestPrice,
         NEW level, level = LevelAt(price), NEW min, min = Smaller(left, Front(level).qty),
         NEW after, after = FillFront(side, level, min)
  PROVE  /\ side \in Sides /\ price \in minPrice .. maxPrice /\ price \in Prices
         /\ Good(level) /\ level.fifo # <<>> /\ Good(after)
         /\ left \in 1 .. MaxQty /\ min \in 1 .. left
         /\ Resting[Opposite(side)][price] = Shown(level.fifo)
         /\ Resting' = [Resting EXCEPT ![Opposite(side)][price] = Shown(after.fifo)]
         /\ Quantity(after.fifo) = Quantity(level.fifo) - min
<1>1. /\ pc = "fill" /\ levels' = [levels EXCEPT ![IndexOf(price)] = after] /\ UNCHANGED window
  BY DEF Fill, Reached
<1>2. Fits /\ LevelsGood /\ RingFollows /\ CallType /\ TradeIsThorough
  BY Apart
<1>3. /\ side \in Sides /\ Opposite(side) \in Sides /\ price \in minPrice .. maxPrice
      /\ side * level.total < 0 /\ Good(level) /\ level.total \in Int
  <2>1. side \in Sides /\ Opposite(side) \in Sides
    BY <1>1, <1>2, RequestType, SideIsOne DEF Trading
  <2>2. price \in minPrice .. maxPrice /\ side * level.total < 0 /\ price \in Int
    BY <1>1, <1>2, BestInWindow DEF Fits
  <2> QED
    BY <1>2, <2>1, <2>2, LevelIsGood
<1>4. left \in 1 .. MaxQty
  BY <1>1, <1>2, Constants DEF TradeIsThorough, CallType
<1>5. min \in 1 .. left /\ Good(after) /\ side * after.total <= 0
  BY <1>3, <1>4, FillIsGood
<1>6. Fits' /\ Becomes(price, after)
  BY <1>1, <1>2, <1>3, <1>5, OneLevel DEF Becomes
<1>7. after.total \in Int /\ side * after.total \in Int /\ side * level.total \in Int
  BY <1>3, <1>5, OfGood, SideSigns
<1>8. /\ Opposite(side) * level.total > 0 /\ Opposite(side) * level.total \in Int
      /\ Opposite(side) * after.total >= 0 /\ Opposite(side) * after.total \in Int
  <2>1. Opposite(side) * level.total > 0 /\ Opposite(side) * level.total \in Int
    BY <1>3, OppositeSign
  <2>2. Opposite(side) * after.total \in Int /\ (Opposite(side) * after.total > 0 <=> side * after.total < 0)
    BY <1>3, <1>7, OppositeSign
  <2>3. side * after.total = 0 => Opposite(side) * after.total = 0
    BY <1>3, <1>7, SideSigns
  <2> QED
    BY <1>5, <1>7, <2>1, <2>2, <2>3
<1>9. Opposite(side) * level.total >= 0
  BY <1>8
<1>10. Resting' = [Resting EXCEPT ![Opposite(side)][price] = Shown(after.fifo)]
  BY <1>1, <1>2, <1>3, <1>5, <1>6, <1>8, <1>9, BookBecomes
<1>11. Resting[Opposite(side)][price] = Shown(level.fifo)
  BY <1>2, <1>3, <1>9, QueueAt
<1>12. level.fifo # <<>>
  BY <1>3, TotalIs
<1>13. Quantity(after.fifo) = Quantity(level.fifo) - min
  <2> DEFINE m == Quantity(level.fifo)
             n == Quantity(after.fifo)
             t == after.total
  <2>1. m \in Nat /\ n \in Nat
    BY <1>3, <1>5, OfGood
  <2>2. level.total = Opposite(side) * m
    BY <1>3, <1>8, TotalIs
  <2>3. t = Opposite(side) * n
    BY <1>3, <1>5, <1>8, TotalIs
  <2>4. t = level.total + side * min
    BY DEF FillFront
  <2> HIDE DEF m, n, t
  <2>5. min \in Int
    BY <1>4, <1>5
  <2>6. Opposite(side) * n = Opposite(side) * m + side * min
    BY <2>2, <2>3, <2>4
  <2>7. n = m - min
    BY <1>3, <2>1, <2>5, <2>6, SignedTake
  <2> QED
    BY <2>7 DEF m, n
<1>14. price \in Prices
  BY <1>2, <1>3, WindowPrices
<1> QED
  BY <1>3, <1>4, <1>5, <1>10, <1>11, <1>12, <1>13, <1>14

(* Fill: as much is gone from within the limit as from what is left.       *)
LEMMA FillCovers ==
  ASSUME RInv, Fill
  PROVE  TradeIsCovered'
<1>0. PICK side, limit, price, level, min, after :
        /\ side = req.side /\ limit = req.price /\ price = BestPrice
        /\ level = LevelAt(price) /\ min = Smaller(left, Front(level).qty)
        /\ after = FillFront(side, level, min)
  OBVIOUS
<1>1. IInv /\ TradeIsCovered
  BY DEF RInv
<1>2. /\ pc = "fill" /\ req' = req /\ left' = left - min /\ pc' \in {"shift", "match", "fill"}
      /\ pc' = "shift" => left' = 0
      /\ pc' = "fill" => UNCHANGED <<bits, window>>
  BY <1>0 DEF Fill, Reached
<1>3. /\ side \in Sides /\ price \in minPrice .. maxPrice /\ price \in Prices
      /\ Good(level) /\ level.fifo # <<>> /\ Good(after)
      /\ left \in 1 .. MaxQty /\ min \in 1 .. left
      /\ Resting[Opposite(side)][price] = Shown(level.fifo)
      /\ Resting' = [Resting EXCEPT ![Opposite(side)][price] = Shown(after.fifo)]
      /\ Quantity(after.fifo) = Quantity(level.fifo) - min
  BY <1>0, <1>1, FillFacts
<1>4. Within(side, price, limit)
  BY <1>0, <1>1, <1>2 DEF TradeIsCovered
<1>5. req.kind = "fok" => OfferedTo(Resting, side, limit) >= left
  <2>1. Abstract!Available(side, limit) = OfferedTo(Resting, side, limit)
    BY <1>3, AvailableIs
  <2> QED
    BY <1>0, <1>1, <1>2, <2>1 DEF TradeIsCovered
<1>6. Opposite(side) \in Sides /\ FiniteBook(Resting)
  <2>1. Fits /\ LevelsGood /\ CallType
    BY <1>1, Apart
  <2> QED
    BY <1>3, <2>1, RestingFinite, NamesOfSides
<1>7. /\ \A s \in Sides, p \in Prices : s # Opposite(side) \/ p # price => Resting'[s][p] = Resting[s][p]
      /\ Resting'[Opposite(side)][price] = Shown(after.fifo)
  <2>1. Resting = [s \in Sides |-> [p \in Prices |-> Resting[s][p]]]
    BY RestingType
  <2> HIDE DEF Resting
  <2> QED
    BY <1>3, <1>6, <2>1
<1>8. /\ level.fifo \in Seq(RestingOrders) /\ after.fifo \in Seq(RestingOrders)
      /\ Quantity(level.fifo) \in Nat
  BY <1>3, OfGood
<1>9. FiniteBook(Resting')
  BY <1>6, <1>7, <1>8, ShownUnits DEF FiniteBook
<1>10. OfferedTo(Resting', side, limit) = OfferedTo(Resting, side, limit) - min
       /\ OfferedTo(Resting, side, limit) \in Nat
  <2> DEFINE P == InReach(side, limit) \ {price}
             rest == Cardinality(Offered(Resting, Opposite(side), P))
  <2>1. /\ InReach(side, limit) = P \cup {price} /\ price \notin P
        /\ P \in SUBSET Prices /\ InReach(side, limit) \in SUBSET Prices
    BY <1>3, <1>4 DEF InReach
  <2>2. Offered(Resting', Opposite(side), P) = Offered(Resting, Opposite(side), P)
    BY <1>6, <1>7, <2>1 DEF Offered
  <2> HIDE DEF P
  <2>3. rest \in Nat
    BY <1>6, <2>1, OfferedFinite
  <2>4. OfferedTo(Resting, side, limit) = rest + Quantity(level.fifo)
    <3>1. Cardinality(UnitsOf(price, Resting[Opposite(side)][price])) = Quantity(level.fifo)
      BY <1>3, <1>8, ShownUnits
    <3>2. Cardinality(Offered(Resting, Opposite(side), P \cup {price}))
          = rest + Cardinality(UnitsOf(price, Resting[Opposite(side)][price]))
      BY <1>3, <1>6, <2>1, OfferedAdds
    <3> QED
      BY <2>1, <3>1, <3>2 DEF OfferedTo
  <2>5. OfferedTo(Resting', side, limit) = rest + Quantity(after.fifo)
    <3>1. Cardinality(UnitsOf(price, Resting'[Opposite(side)][price])) = Quantity(after.fifo)
      BY <1>7, <1>8, ShownUnits
    <3>2. PICK R : R = Resting'
      OBVIOUS
    <3>3. Cardinality(Offered(R, Opposite(side), P \cup {price}))
          = Cardinality(Offered(R, Opposite(side), P))
            + Cardinality(UnitsOf(price, R[Opposite(side)][price]))
      <4>1. FiniteBook(R)
        BY <1>9, <3>2
      <4> QED
        BY <1>3, <1>6, <2>1, <4>1, OfferedAdds
    <3> QED
      BY <2>1, <2>2, <3>1, <3>2, <3>3 DEF OfferedTo
  <2> HIDE DEF rest
  <2>6. min \in Int
    BY <1>3
  <2> QED
    BY <1>3, <1>8, <2>3, <2>4, <2>5, <2>6
<1>11. pc' = "fill" => TopPrice(Opposite(side))' = price
  <2>1. pc' = "fill" => TopPrice(Opposite(side))' = TopPrice(Opposite(side))
    BY <1>2 DEF TopPrice, window
  <2> QED
    BY <1>0, <2>1 DEF BestPrice
<1>12. left' \in Int /\ left \in Int /\ min \in Int
  BY <1>2, <1>3
<1>13. req'.kind = "fok" => OfferedTo(Resting', side, limit) >= left'
  BY <1>2, <1>5, <1>10, <1>12
<1> QED
  BY <1>0, <1>2, <1>3, <1>4, <1>11, <1>13, CoveredNext

(* A step of the request that leaves the book alone.                       *)
LEMMA StillCovered ==
  ASSUME RInv, pc # "idle", UNCHANGED bookVars, req' = req, left' = left,
         pc' = "fill" => Within(req.side, BestPrice, req.price),
         pc' \in {"match", "fill"} => pc \in {"match", "fill"},
         pc' \in {"shift", "rest"} /\ req.kind = "fok" => left = 0
  PROVE  TradeIsCovered'
<1>0. PICK side, limit : side = req.side /\ limit = req.price
  OBVIOUS
<1>1. IInv /\ TradeIsCovered /\ CallType
  BY Apart DEF RInv
<1>2. side \in Sides
  BY <1>0, <1>1, RequestType DEF Trading
<1>3. Resting' = Resting /\ TopPrice(Opposite(side))' = BestPrice
  BY <1>0, <1>1, RestingStays, BookStays DEF BestPrice
<1>4. pc \in {"match", "fill"} /\ req.kind = "fok" => OfferedTo(Resting, side, limit) >= left
  <2>1. Abstract!Available(side, limit) = OfferedTo(Resting, side, limit)
    BY <1>2, AvailableIs
  <2> QED
    BY <1>0, <1>1, <2>1 DEF TradeIsCovered
<1> HIDE DEF Resting
<1> QED
  BY <1>0, <1>2, <1>3, <1>4, CoveredNext

(* Match: when nothing within the limit is left, nothing of the order is.  *)
LEMMA MatchCovers ==
  ASSUME RInv, Match
  PROVE  TradeIsCovered'
<1>1. IInv /\ TradeIsCovered /\ Fits /\ LevelsGood /\ CallType
  BY Apart DEF RInv
<1>2. /\ pc = "match" /\ UNCHANGED bookVars /\ req' = req /\ left' = left
      /\ minPrice' = minPrice /\ maxPrice' = maxPrice
      /\ pc' = IF Within(req.side, BestPrice, Limit) THEN "fill" ELSE "shift"
  BY DEF Match, Reached, bookVars, window
<1>3. /\ req.side \in Sides /\ req.price \in Nat /\ BestPrice \in Int
      /\ minPrice \in Nat /\ maxPrice \in Nat
  BY <1>1, <1>2, RequestType, BestIs DEF Trading, Fits
<1>4. pc' = "fill" => Within(req.side, BestPrice, req.price)
  BY <1>2, <1>3, NamesOfSides DEF Within, Limit, BottomPrice, Larger, Smaller
<1>5. pc' = "shift" /\ req.kind = "fok" => left = 0
  <2> SUFFICES ASSUME pc' = "shift", req.kind = "fok", left # 0
               PROVE  FALSE
    OBVIOUS
  <2>1. left > 0 /\ left \in Nat
    BY <1>1, <1>2, Constants DEF CallType
  <2>2. TradeIsThorough'
    BY <1>1, MatchKeeps, Apart DEF IInv
  <2>3. \A p \in minPrice .. maxPrice : Within(req.side, p, req.price) => req.side * LevelAt(p).total >= 0
    <3>1. \A p : LevelAt(p)' = LevelAt(p)
      BY <1>1, <1>2, BookStays
    <3> QED
      BY <1>2, <2>1, <2>2, <3>1 DEF TradeIsThorough, Within
  <2>4. OfferedTo(Resting, req.side, req.price) = 0
    BY <1>1, <1>3, <2>3, NothingOffered
  <2>5. Abstract!Available(req.side, req.price) = OfferedTo(Resting, req.side, req.price)
    BY <1>3, AvailableIs
  <2>6. Abstract!Available(req.side, req.price) >= left
    BY <1>1, <1>2 DEF TradeIsCovered
  <2> QED
    BY <2>1, <2>4, <2>5, <2>6
<1> QED
  BY <1>2, <1>4, <1>5, StillCovered

(* Insert: a fill-or-kill order is let in only when the book can fill it.  *)
LEMMA InsertCovers ==
  ASSUME RInv, NEW kind \in {"limit", "ioc", "fok"}, NEW side \in Sides, NEW id, NEW price, NEW qty,
         Insert(kind, side, id, price, qty),
         ValidId(id) /\ ValidPrice(price) /\ ValidQty(qty) => id \in Ids /\ price \in Prices /\ qty \in Qtys
  PROVE  TradeIsCovered'
<1>1. IInv /\ pc = "idle"
  BY DEF RInv, Insert, Ready
<1>2. CASE Refuse(CreateRejected(id, qty, "Request")) \/ Refuse(CreateRejected(id, qty, "FOK"))
  BY <1>1, <1>2 DEF TradeIsCovered, Refuse, callVars
<1>3. CASE /\ ValidId(id) /\ ValidPrice(price) /\ ValidQty(qty) /\ BeginTrade(kind, side, id, price, qty)
           /\ kind = "fok" => CanFill(side, price, qty)
  <2>1. price \in Prices /\ qty \in Nat \ {0}
    BY <1>3, Constants DEF Qtys
  <2>2. /\ pc' = "match" /\ req'.kind = kind /\ req'.side = side /\ req'.price = price /\ left' = qty
        /\ UNCHANGED bookVars
    BY <1>3 DEF BeginTrade
  <2>3. Resting' = Resting
    BY <2>2, RestingStays
  <2>4. kind = "fok" => OfferedTo(Resting, side, price) >= qty
    BY <1>1, <1>3, <2>1, WalkCounts
  <2> QED
    BY <2>2, <2>3, <2>4, CoveredNext
<1> QED
  BY <1>2, <1>3 DEF Insert

(* What a fill-or-kill order wants is there at every step.                 *)
LEMMA StepCovered ==
  ASSUME RInv, [Next]_vars
  PROVE  RInv'
<1>0. IInv /\ TradeIsCovered
  BY DEF RInv
<1>1. IInv'
  BY <1>0, StepSound
<1>2. CASE Create
  BY <1>2, CreateIs, InsertCovers, <1>1 DEF RInv
<1>3. CASE Amend
  <2>1. pc' = "idle"
    BY <1>3, AmendIs DEF Update, Cancel, Ready, callVars
  <2> QED
    BY <1>1, <2>1 DEF RInv, TradeIsCovered
<1>4. CASE Match
  BY <1>1, <1>4, MatchCovers DEF RInv
<1>5. CASE Fill
  BY <1>1, <1>5, FillCovers DEF RInv
<1>6. CASE Expire \/ MoveWindow \/ KeepWindow
  <2>1. pc = "shift" /\ pc' \in {"shift", "rest"} /\ req' = req /\ left' = left
    BY <1>6 DEF Expire, MoveWindow, KeepWindow, Reached, callVars
  <2> QED
    BY <1>0, <1>1, <2>1 DEF RInv, TradeIsCovered
<1>7. CASE Rest
  BY <1>1, <1>7 DEF RInv, TradeIsCovered, Rest
<1>8. CASE Pushed \/ UNCHANGED vars
  <2>1. UNCHANGED bookVars /\ pc' = pc /\ req' = req /\ left' = left
    BY <1>8 DEF Pushed, vars, callVars
  <2>2. CASE pc = "idle"
    BY <1>1, <2>1, <2>2 DEF RInv, TradeIsCovered
  <2>3. CASE pc # "idle"
    <3>1. TradeIsCovered'
      BY <1>0, <2>1, <2>3, StillCovered DEF TradeIsCovered
    <3> QED
      BY <1>1, <3>1 DEF RInv
  <2> QED
    BY <2>2, <2>3
<1> QED
  BY <1>2, <1>3, <1>4, <1>5, <1>6, <1>7, <1>8 DEF Next, Engine

(* At the start nothing trades.                                            *)
LEMMA InitCovered ==
  ASSUME Init
  PROVE  RInv
BY InitSound DEF RInv, TradeIsCovered, Init

(* The walk over the totals accepts a fill-or-kill order exactly when the  *)
(* resting quantity within its limit is enough, and nothing is left of an  *)
(* order that was accepted.                                                *)
LEMMA AllOrNothing ==
  ASSUME RInv
  PROVE  FokAllOrNothing
<1>1. IInv /\ TradeIsCovered
  BY DEF RInv
<1>2. ASSUME pc = "idle", NEW side \in Sides, NEW price \in Prices, NEW qty \in Qtys
      PROVE  CanFill(side, price, qty) <=> Abstract!Available(side, price) >= qty
  <2>1. qty \in Nat \ {0}
    BY Constants DEF Qtys
  <2> QED
    BY <1>1, <1>2, <2>1, WalkCounts, AvailableIs
<1> QED
  BY <1>1, <1>2 DEF FokAllOrNothing, TradeIsCovered, Ready

(* A fill stays within the limit of its order, and what a fill-or-kill     *)
(* order still wants is there for as long as it trades.                    *)
THEOREM Covered == Spec => []RInv
<1>1. Init => RInv
  BY InitCovered
<1>2. RInv /\ [Next]_vars => RInv'
  BY StepCovered
<1> QED
  BY <1>1, <1>2, PTL DEF Spec

(* _check_fok accepts exactly the orders that the resting quantity within  *)
(* their limit can fill, and of an accepted one nothing is ever left:      *)
(* insert_order_fok's assertion holds.                                     *)
THEOREM FillOrKill == Spec => []FokAllOrNothing
<1>1. RInv => FokAllOrNothing
  BY AllOrNothing
<1> QED
  BY <1>1, Covered, PTL

-----------------------------------------------------------------------------
(* Each step of the engine is one of the abstract book, or none.           *)

(* The events have the same form.                                          *)
LEMMA AbstractEvents ==
  /\ \A price, qty, maker, taker : Abstract!Trade(price, qty, maker, taker) = Trade(price, qty, maker, taker)
  /\ \A price, id : Abstract!LevelExpired(price, id) = LevelExpired(price, id)
  /\ \A id : Abstract!UpdateAccepted(id) = UpdateAccepted(id)
  /\ \A id : Abstract!CancelAccepted(id) = CancelAccepted(id)
BY DEF Abstract!Trade, Trade, Abstract!LevelExpired, LevelExpired, Abstract!UpdateAccepted,
       UpdateAccepted, Abstract!CancelAccepted, CancelAccepted

(* Between requests the abstract book is ready, in one it is busy.         *)
LEMMA ReadyOrBusy ==
  ASSUME CallType, ev = None
  PROVE  /\ pc = "idle" => Abstract!Ready
         /\ pc # "idle" => Abstract!Busy
BY TakerIs, AbstractNames DEF Abstract!Ready, Abstract!Busy

(* What a step makes of the taker.                                         *)
LEMMA NextTaker ==
  /\ pc' = "idle" => Taker' = Abstract!NoOrder
  /\ pc' # "idle" => Taker' = [kind |-> req'.kind, side |-> req'.side, id |-> req'.id,
                               price |-> req'.price, left |-> left']
  /\ UNCHANGED callVars => Taker' = Taker
BY AbstractNames DEF Taker, callVars

(* A step within the request that pushes nothing and leaves the book alone *)
(* is none of the abstract book.                                           *)
LEMMA StepStutters ==
  ASSUME UNCHANGED <<bookVars, ev>>,
         (pc = "idle" <=> pc' = "idle") /\ req' = req /\ left' = left
  PROVE  UNCHANGED Abstract!vars
<1>1. Resting' = Resting
  BY RestingStays
<1>2. Taker' = Taker
  BY DEF Taker
<1> QED
  BY <1>1, <1>2, Zenon DEF Abstract!vars

(* Pushed.                                                                 *)
LEMMA PushedRefines ==
  ASSUME Pushed
  PROVE  Abstract!Deliver
<1>1. Resting' = Resting /\ Taker' = Taker /\ ev # None /\ ev' = None
  BY RestingStays, NextTaker DEF Pushed
<1> QED
  BY <1>1, AbstractNames DEF Abstract!Deliver

(* A request that is refused.                                              *)
LEMMA RefusalRefines ==
  ASSUME IInv, Ready, UNCHANGED callVars, UNCHANGED bookVars,
         ev'.type \in {"CreateRejected", "UpdateRejected", "CancelRejected"}
  PROVE  Abstract!Refuse
<1>1. Resting' = Resting /\ Taker' = Taker
  BY RestingStays, NextTaker
<1>2. Abstract!Ready
  BY Apart, ReadyOrBusy DEF Ready
<1> QED
  BY <1>1, <1>2 DEF Abstract!Refuse

(* Insert: an order enters, a fill-or-kill one when it can be filled.      *)
LEMMA InsertRefines ==
  ASSUME RInv, NEW kind \in {"limit", "ioc", "fok"}, NEW side \in Sides, NEW id, NEW price, NEW qty,
         Insert(kind, side, id, price, qty),
         ValidId(id) /\ ValidPrice(price) /\ ValidQty(qty) => id \in Ids /\ price \in Prices /\ qty \in Qtys
  PROVE  Abstract!Refuse \/ Abstract!Enter
<1>1. IInv /\ pc = "idle" /\ Ready /\ ev = None /\ CallType
  BY Apart DEF RInv, Insert, Ready
<1>2. CASE Refuse(CreateRejected(id, qty, "Request")) \/ Refuse(CreateRejected(id, qty, "FOK"))
  BY <1>1, <1>2, RefusalRefines DEF Refuse, Reject, CreateRejected
<1>3. CASE /\ ValidId(id) /\ ValidPrice(price) /\ ValidQty(qty) /\ BeginTrade(kind, side, id, price, qty)
           /\ kind = "fok" => CanFill(side, price, qty)
  <2>1. id \in Ids /\ price \in Prices /\ qty \in Qtys /\ qty \in Nat \ {0}
    BY <1>3, Constants DEF Qtys
  <2>2. /\ Taker' = [kind |-> kind, side |-> side, id |-> id, price |-> price, left |-> qty]
        /\ UNCHANGED bookVars /\ ev' = ev
    BY <1>3, NextTaker DEF BeginTrade
  <2>3. Resting' = Resting
    BY <2>2, RestingStays
  <2>4. kind = "fok" => Abstract!Available(side, price) >= qty
    BY <1>1, <1>3, <2>1, WalkCounts, AvailableIs
  <2>5. Taker' \in Abstract!Orders
    BY <2>1, <2>2, AbstractNames DEF Abstract!Orders
  <2>6. /\ Taker'.kind = kind /\ Taker'.side = side /\ Taker'.price = price /\ Taker'.left = qty
    BY <2>2
  <2>7. Taker'.kind = "fok" => Abstract!Available(Taker'.side, Taker'.price) >= Taker'.left
    BY <2>4, <2>6
  <2>8. Abstract!Ready
    BY <1>1, ReadyOrBusy
  <2> QED
    BY <2>2, <2>3, <2>5, <2>7, <2>8 DEF Abstract!Enter
<1> QED
  BY <1>2, <1>3 DEF Insert

(* Fill is a trade with the oldest order at the best price.                *)
LEMMA FillRefines ==
  ASSUME RInv, Fill
  PROVE  Abstract!Match
<1>0. PICK side, price, level, min, after :
        /\ side = req.side /\ price = BestPrice
        /\ level = LevelAt(price) /\ min = Smaller(left, Front(level).qty)
        /\ after = FillFront(side, level, min)
  OBVIOUS
<1>1. IInv /\ TradeIsCovered /\ CallType /\ pc = "fill" /\ ev = None
  BY Apart DEF RInv, Fill, Reached
<1>2. /\ pc' # "idle" /\ req' = req /\ left' = left - min
      /\ ev' = Trade(price, min, req.id, Front(level).id)
  BY <1>0 DEF Fill, Reached
<1>3. /\ side \in Sides /\ price \in minPrice .. maxPrice /\ price \in Prices
      /\ Good(level) /\ level.fifo # <<>> /\ Good(after)
      /\ left \in 1 .. MaxQty /\ min \in 1 .. left
      /\ Resting[Opposite(side)][price] = Shown(level.fifo)
      /\ Resting' = [Resting EXCEPT ![Opposite(side)][price] = Shown(after.fifo)]
  BY <1>0, <1>1, FillFacts
<1>4. /\ Taker = [kind |-> req.kind, side |-> side, id |-> req.id, price |-> req.price, left |-> left]
      /\ Taker' = [kind |-> req.kind, side |-> side, id |-> req.id, price |-> req.price, left |-> left - min]
  BY <1>0, <1>1, <1>2, TakerIs, NextTaker
<1>5. Abstract!Best(-side) = price /\ Abstract!Occupied(-side) # {} /\ -side = Opposite(side)
  BY <1>0, <1>1, <1>3, AbstractBest, MinusSide
<1>6. Abstract!Busy
  BY <1>1, ReadyOrBusy
<1>7. Abstract!CanTrade
  <2>1. Within(side, price, req.price)
    BY <1>0, <1>1 DEF TradeIsCovered
  <2>2. Taker.left > 0 /\ Taker.side = side /\ Taker.price = req.price
    BY <1>3, <1>4
  <2> QED
    BY <1>5, <2>1, <2>2, AbstractNames DEF Abstract!CanTrade
<1> DEFINE q == level.fifo
           line == Shown(q)
<1>8. /\ q \in Seq(RestingOrders) /\ q # <<>> /\ Len(q) \in Nat /\ Len(q) > 0 /\ 1 \in 1 .. Len(q)
      /\ line \in Seq(ShownOrders) /\ line # <<>> /\ Len(line) = Len(q)
      /\ line[1] = [id |-> q[1].id, qty |-> q[1].qty]
  <2>1. q \in Seq(RestingOrders) /\ q # <<>>
    BY <1>3, OfGood
  <2>2. Len(q) \in Nat /\ Len(q) > 0 /\ 1 \in 1 .. Len(q)
    BY <2>1
  <2> QED
    BY <2>1, <2>2, ShownIs
<1>9. Front(level) = q[1] /\ Head(line) = line[1]
  BY <1>8 DEF Front
<1>10. Head(line).id = Front(level).id /\ Head(line).qty = Front(level).qty
  BY <1>8, <1>9
<1>11. Shown(after.fifo) = IF min = Head(line).qty THEN Tail(line)
                           ELSE [line EXCEPT ![1].qty = @ - min]
  <2>1. CASE min = Front(level).qty
    <3>1. after.fifo = Tail(q)
      BY <1>0, <2>1 DEF FillFront
    <3>2. Tail(q) = Without(q, 1) /\ Tail(line) = Without(line, 1)
      BY <1>8, TailIsWithout
    <3>3. Shown(Without(q, 1)) = Without(line, 1)
      BY <1>8, ShownWithout
    <3> QED
      BY <1>10, <2>1, <3>1, <3>2, <3>3
  <2>2. CASE min # Front(level).qty
    <3>1. PICK rest : rest = Front(level).qty - min
      OBVIOUS
    <3>2. after.fifo = Changed(q, 1, rest)
      BY <1>0, <2>2, <3>1 DEF FillFront, Changed
    <3>3. Shown(Changed(q, 1, rest)) = Changed(line, 1, rest)
      BY <1>8, ShownChange
    <3>4. [line EXCEPT ![1].qty = @ - min] = Changed(line, 1, rest)
      BY <1>9, <1>10, <3>1 DEF Changed
    <3> QED
      BY <1>10, <2>2, <3>2, <3>3, <3>4
  <2> QED
    BY <2>1, <2>2
<1> HIDE DEF line, q
<1>12. min = IF Taker.left < Head(line).qty THEN Taker.left ELSE Head(line).qty
  <2>1. Taker.left = left
    BY <1>4
  <2> QED
    BY <1>0, <1>10, <2>1 DEF Smaller
<1>13. Resting[-Taker.side][Abstract!Best(-Taker.side)] = line /\ Taker.side = side /\ Taker.id = req.id
  BY <1>3, <1>4, <1>5 DEF line, q
<1>14. Taker' = [Taker EXCEPT !.left = @ - min]
  BY <1>4
<1>15. ev' = Abstract!Trade(price, min, Taker.id, Head(line).id)
  BY <1>2, <1>10, <1>13, AbstractEvents
<1>16. Resting' = [Resting EXCEPT ![-side][price] = IF min = Head(line).qty THEN Tail(line)
                                                    ELSE [line EXCEPT ![1].qty = @ - min]]
  BY <1>3, <1>5, <1>11
<1> HIDE DEF Resting, Taker
<1> QED
  BY <1>5, <1>6, <1>7, <1>12, <1>13, <1>14, <1>15, <1>16 DEF Abstract!Match

(* An order expires from the worst price of its side.                      *)
LEMMA ExpireOrderRefines ==
  ASSUME IInv, pc = "shift", ev = None, UNCHANGED callVars, UNCHANGED window,
         NEW side \in Sides, NEW price \in minPrice .. maxPrice, side * LevelAt(price).total > 0,
         Abstract!Worst(side) = price,
         levels' = [levels EXCEPT ![IndexOf(price)] = PopFront(side, LevelAt(price))],
         ev' = LevelExpired(price, Front(LevelAt(price)).id)
  PROVE  Abstract!Expire
<1>0. PICK level, after : level = LevelAt(price) /\ after = PopFront(side, level)
  OBVIOUS
<1>1. Fits /\ LevelsGood /\ RingFollows /\ CallType
  BY Apart
<1>2. Good(level) /\ level.total \in Int /\ side * level.total \in Int /\ side * level.total > 0
  <2>1. price \in Int
    BY <1>1 DEF Fits
  <2> QED
    BY <1>0, <1>1, <2>1, LevelIsGood, SideSigns
<1>3. Good(after) /\ side * after.total >= 0
  BY <1>0, <1>2, PopIsGood
<1>4. Fits' /\ Becomes(price, after)
  BY <1>0, <1>1, <1>3, OneLevel DEF Becomes
<1>5. side * level.total >= 0
  BY <1>2
<1>6. Resting' = [Resting EXCEPT ![side][price] = Shown(after.fifo)]
  BY <1>0, <1>1, <1>3, <1>4, <1>5, BookBecomes
<1>7. Resting[side][price] = Shown(level.fifo) /\ level.fifo \in Seq(RestingOrders) /\ level.fifo # <<>>
  BY <1>0, <1>1, <1>2, <1>5, QueueAt, TotalIs
<1> DEFINE q == level.fifo
           line == Shown(q)
<1>8. /\ Len(q) \in Nat /\ 1 \in 1 .. Len(q)
      /\ line \in Seq(ShownOrders) /\ line # <<>> /\ Len(line) = Len(q)
      /\ line[1] = [id |-> q[1].id, qty |-> q[1].qty]
  <2>1. Len(q) \in Nat /\ 1 \in 1 .. Len(q)
    BY <1>7
  <2> QED
    BY <1>7, <2>1, ShownIs
<1>9. Head(line).id = Front(level).id
  <2>1. Head(line) = line[1] /\ Front(level) = q[1]
    BY <1>7, <1>8 DEF Front
  <2> QED
    BY <1>8, <2>1
<1>10. Shown(after.fifo) = Tail(line)
  <2>1. after.fifo = Tail(q)
    BY <1>0 DEF PopFront
  <2>2. Tail(q) = Without(q, 1) /\ Tail(line) = Without(line, 1)
    BY <1>7, <1>8, TailIsWithout
  <2>3. Shown(Without(q, 1)) = Without(line, 1)
    BY <1>7, <1>8, ShownWithout
  <2> QED
    BY <2>1, <2>2, <2>3
<1>11. Abstract!Busy /\ ~ Abstract!CanTrade /\ Taker' = Taker
  BY <1>1, ReadyOrBusy, CannotTrade, NextTaker
<1>12. Abstract!Occupied(side) # {}
  BY <1>1, OccupiedIs
<1>13. ev' = Abstract!LevelExpired(price, Head(Resting[side][price]).id)
  BY <1>0, <1>7, <1>9, AbstractEvents
<1>14. Resting' = [Resting EXCEPT ![side][price] = Tail(Resting[side][price])]
  BY <1>6, <1>7, <1>10
<1>15. side \in Abstract!Sides
  BY AbstractNames
<1> HIDE DEF Resting, Taker
<1> QED
  BY <1>11, <1>12, <1>13, <1>14, <1>15 DEF Abstract!Expire

(* Expire.                                                                 *)
LEMMA ExpireRefines ==
  ASSUME IInv, Expire
  PROVE  Abstract!Expire
<1>1. pc = "shift" /\ ev = None /\ UNCHANGED callVars /\ Fits /\ LevelsGood /\ CallType
  BY Apart DEF Expire, Reached
<1>2. minPrice \in Nat /\ maxPrice \in Nat /\ Shift \in Nat \ {0}
  BY <1>1, Constants DEF Fits
<1>3. ASSUME NEW side \in Sides, NEW price \in minPrice .. maxPrice, side * LevelAt(price).total > 0,
             \A p \in Occupied(side) : IF side = Buy THEN price <= p ELSE p <= price,
             \A p \in minPrice .. maxPrice : (IF side = Buy THEN p < price ELSE p > price) => p \in Leaving(side)
      PROVE  Abstract!Worst(side) = price
  <2> DEFINE S == Abstract!Occupied(side)
  <2>1. S = {p \in minPrice .. maxPrice : side * LevelAt(p).total > 0}
    BY <1>1, OccupiedIs
  <2>2. price \in S /\ S \in SUBSET Nat /\ S \in SUBSET (0 .. maxPrice) /\ S # {}
    BY <1>2, <1>3, <2>1
  <2>3. ASSUME NEW p \in S
        PROVE  IF side = Buy THEN price <= p ELSE p <= price
    <3> SUFFICES ASSUME ~ (IF side = Buy THEN price <= p ELSE p <= price)
                 PROVE  FALSE
      OBVIOUS
    <3>1. p \in Leaving(side)
      BY <1>2, <1>3, <2>1
    <3>2. ~ Empty(LevelAt(p))
      BY <1>1, <1>2, <2>1, LevelIsGood, SideSigns DEF Empty
    <3> QED
      BY <1>3, <3>1, <3>2 DEF Occupied
  <2> HIDE DEF S
  <2>4. Abstract!Worst(side) = IF side = Sell THEN Max(S) ELSE Min(S)
    BY AbstractNames DEF Abstract!Worst, S
  <2>5. CASE side = Buy
    <3>1. Min(S) \in S /\ Min(S) <= price
      BY <2>2, MinIs
    <3>2. price <= Min(S)
      BY <2>3, <2>5, <3>1
    <3>3. Min(S) \in Nat /\ price \in Nat
      BY <2>2, <3>1
    <3>4. side # Sell
      BY <2>5, NamesOfSides
    <3> QED
      BY <2>4, <3>1, <3>2, <3>3, <3>4
  <2>6. CASE side = Sell
    <3>1. Max(S) \in S /\ price <= Max(S)
      BY <1>2, <2>2, MaxIs
    <3>2. Max(S) <= price
      BY <2>3, <2>6, <3>1, NamesOfSides
    <3>3. Max(S) \in Nat /\ price \in Nat
      BY <2>2, <3>1
    <3> QED
      BY <2>4, <2>6, <3>1, <3>2, <3>3
  <2> QED
    BY <2>5, <2>6, NamesOfSides
<1>4. CASE MustShiftUp(lastPrice) /\ Occupied(Buy) # {} /\ ExpireOrder(Buy)
  <2> DEFINE price == Min(Occupied(Buy))
  <2>1. Leaving(Buy) = minPrice .. minPrice + Shift - 1
    BY DEF Leaving
  <2>2. Occupied(Buy) \in SUBSET Nat
    BY <1>2, <2>1 DEF Occupied
  <2>3. price \in Occupied(Buy) /\ \A p \in Occupied(Buy) : price <= p
    BY <1>4, <2>2, MinIs
  <2>4. /\ levels' = [levels EXCEPT ![IndexOf(price)] = PopFront(Buy, LevelAt(price))]
        /\ ev' = LevelExpired(price, Front(LevelAt(price)).id) /\ UNCHANGED window
    BY <1>4 DEF ExpireOrder
  <2> HIDE DEF price
  <2>5. price \in minPrice .. minPrice + Shift - 1 /\ ~ Empty(LevelAt(price))
    BY <2>1, <2>3 DEF Occupied
  <2>6. /\ minPrice + Shift < lastPrice /\ lastPrice <= maxPrice /\ lastPrice \in Int
        /\ \A p \in minPrice .. maxPrice : p < lastPrice => LevelAt(p).total >= 0
    BY <1>1, <1>4, ShiftFacts
  <2>7. price \in minPrice .. maxPrice /\ price < lastPrice
    BY <1>2, <2>5, <2>6
  <2>8. Buy * LevelAt(price).total > 0
    <3>1. LevelAt(price).total >= 0 /\ LevelAt(price).total # 0 /\ LevelAt(price).total \in Int
      BY <1>1, <1>2, <2>5, <2>6, <2>7, LevelIsGood DEF Empty
    <3> QED
      BY <3>1, NamesOfSides
  <2>9. \A p \in minPrice .. maxPrice : p < price => p \in Leaving(Buy)
    BY <1>2, <2>1, <2>5
  <2>10. Abstract!Worst(Buy) = price
    BY <1>3, <2>3, <2>7, <2>8, <2>9, NamesOfSides
  <2> QED
    BY <1>1, <2>4, <2>7, <2>8, <2>10, NamesOfSides, ExpireOrderRefines
<1>5. CASE MustShiftDown(lastPrice) /\ Occupied(Sell) # {} /\ ExpireOrder(Sell)
  <2> DEFINE price == Max(Occupied(Sell))
  <2>1. Leaving(Sell) = maxPrice - Shift + 1 .. maxPrice
    BY NamesOfSides DEF Leaving
  <2>6. /\ lastPrice < maxPrice - Shift /\ minPrice <= lastPrice /\ lastPrice \in Int
        /\ \A p \in minPrice .. maxPrice : p > lastPrice => LevelAt(p).total <= 0
    BY <1>1, <1>5, ShiftFacts
  <2>2. Occupied(Sell) \in SUBSET (0 .. maxPrice)
    BY <1>2, <2>1, <2>6 DEF Occupied
  <2>3. price \in Occupied(Sell) /\ \A p \in Occupied(Sell) : p <= price
    BY <1>2, <1>5, <2>2, MaxIs
  <2>4. /\ levels' = [levels EXCEPT ![IndexOf(price)] = PopFront(Sell, LevelAt(price))]
        /\ ev' = LevelExpired(price, Front(LevelAt(price)).id) /\ UNCHANGED window
    BY <1>5, NamesOfSides DEF ExpireOrder
  <2> HIDE DEF price
  <2>5. price \in maxPrice - Shift + 1 .. maxPrice /\ ~ Empty(LevelAt(price))
    BY <2>1, <2>3 DEF Occupied
  <2>7. price \in minPrice .. maxPrice /\ price > lastPrice
    BY <1>2, <2>5, <2>6
  <2>8. Sell * LevelAt(price).total > 0
    <3>1. LevelAt(price).total <= 0 /\ LevelAt(price).total # 0 /\ LevelAt(price).total \in Int
      BY <1>1, <1>2, <2>5, <2>6, <2>7, LevelIsGood DEF Empty
    <3> QED
      BY <3>1, NamesOfSides
  <2>9. \A p \in minPrice .. maxPrice : p > price => p \in Leaving(Sell)
    BY <1>2, <2>1, <2>5
  <2>10. Abstract!Worst(Sell) = price
    BY <1>3, <2>3, <2>7, <2>8, <2>9, NamesOfSides
  <2> QED
    BY <1>1, <2>4, <2>7, <2>8, <2>10, NamesOfSides, ExpireOrderRefines
<1> QED
  BY <1>4, <1>5 DEF Expire

(* The book shows the same orders when the window has moved.               *)
LEMMA RestingMoves ==
  ASSUME Fits, Fits', NEW d \in Int, minPrice' = minPrice + d, maxPrice' = maxPrice + d,
         \A p \in minPrice + d .. maxPrice + d :
           LevelAt(p)' = IF p \in minPrice .. maxPrice THEN LevelAt(p) ELSE NewLevel,
         \A p \in minPrice .. maxPrice : p \notin minPrice + d .. maxPrice + d => Empty(LevelAt(p))
  PROVE  Resting' = Resting
<1>1. minPrice \in Int /\ maxPrice \in Int
  BY DEF Fits
<1>2. ASSUME NEW s \in Sides, NEW p \in Prices
      PROVE  Resting'[s][p] = Resting[s][p]
  <2>1. p \in Int /\ ~ (s * 0 > 0)
    BY Constants, NamesOfSides DEF Prices
  <2>2. Resting'[s][p] = IF p \in minPrice + d .. maxPrice + d /\ s * LevelAt(p)'.total > 0
                         THEN Shown(LevelAt(p)'.fifo) ELSE <<>>
    <3>1. InWindow(p)' <=> p \in minPrice + d .. maxPrice + d
      BY <1>1, <2>1 DEF InWindow
    <3> QED
      BY <3>1, Zenon DEF Resting, RestingAt, Shown
  <2>3. Resting[s][p] = IF p \in minPrice .. maxPrice /\ s * LevelAt(p).total > 0
                        THEN Shown(LevelAt(p).fifo) ELSE <<>>
    BY RestingIs
  <2>4. CASE p \in minPrice + d .. maxPrice + d /\ p \in minPrice .. maxPrice
    BY <2>2, <2>3, <2>4
  <2>5. CASE p \in minPrice + d .. maxPrice + d /\ p \notin minPrice .. maxPrice
    BY <2>1, <2>2, <2>3, <2>5 DEF NewLevel
  <2>6. CASE p \notin minPrice + d .. maxPrice + d /\ p \in minPrice .. maxPrice
    BY <2>1, <2>2, <2>3, <2>6 DEF Empty
  <2>7. CASE p \notin minPrice + d .. maxPrice + d /\ p \notin minPrice .. maxPrice
    BY <2>2, <2>3, <2>7
  <2> QED
    BY <2>4, <2>5, <2>6, <2>7
<1> QED
  BY <1>2, RestingType

(* MoveWindow.                                                             *)
LEMMA MoveWindowRefines ==
  ASSUME IInv, MoveWindow
  PROVE  Abstract!Recentre
<1>1. /\ pc = "shift" /\ ev = None /\ pc' = "rest" /\ req' = req /\ left' = left
  BY DEF MoveWindow, Reached
<1>2. /\ Fits /\ LevelsGood /\ RingFollows /\ CallType /\ WindowFollows
      /\ Shift \in Nat \ {0} /\ MinPrice \in Nat
      /\ minPrice \in Nat /\ maxPrice \in Nat /\ minIndex \in Nat
  BY Apart, Constants DEF Fits
<1>3. Abstract!Busy /\ ~ Abstract!CanTrade /\ Taker' = Taker
  <2>1. Taker' = Taker
    BY <1>1 DEF Taker
  <2> QED
    BY <1>1, <1>2, <2>1, ReadyOrBusy, CannotTrade
<1>4. CASE MustShiftUp(lastPrice) /\ Occupied(Buy) = {} /\ ShiftUp
  <2>1. /\ minIndex' = (minIndex + Shift) % Size
        /\ minPrice' = minPrice + Shift /\ maxPrice' = maxPrice + Shift /\ levels' = levels
        /\ ev' = LevelsCreated(maxPrice' - (Shift - 1), maxPrice')
    BY <1>4 DEF ShiftUp
  <2>2. \A p \in minPrice .. maxPrice : p \notin minPrice + Shift .. maxPrice + Shift => Empty(LevelAt(p))
    <3>1. \A p \in Leaving(Buy) : Empty(LevelAt(p))
      BY <1>4 DEF Occupied
    <3> QED
      BY <1>2, <3>1 DEF Leaving
  <2>3. Shift \in Int /\ minPrice + Shift >= 0
    BY <1>2
  <2>4. /\ Fits'
        /\ \A p \in minPrice + Shift .. maxPrice + Shift :
             LevelAt(p)' = IF p \in minPrice .. maxPrice THEN LevelAt(p) ELSE NewLevel
    BY <1>2, <2>1, <2>2, <2>3, WindowMoves
  <2>5. Resting' = Resting
    BY <1>2, <2>1, <2>2, <2>3, <2>4, RestingMoves
  <2>6. ev'.type = "LevelsCreated" /\ ev'.to - ev'.from = Shift - 1
    BY <1>2, <2>1 DEF LevelsCreated
  <2> QED
    BY <1>3, <2>5, <2>6 DEF Abstract!Recentre
<1>5. CASE MustShiftDown(lastPrice) /\ Occupied(Sell) = {} /\ ShiftDown
  <2>0. PICK d \in Int : d = -Shift
    BY <1>2
  <2>1. /\ minIndex' = (minIndex + d) % Size
        /\ minPrice' = minPrice + d /\ maxPrice' = maxPrice + d /\ levels' = levels
        /\ ev' = LevelsCreated(minPrice', minPrice' + (Shift - 1))
    <3>1. minIndex + d = minIndex - Shift /\ minPrice + d = minPrice - Shift /\ maxPrice + d = maxPrice - Shift
      BY <1>2, <2>0
    <3> QED
      BY <1>5, <3>1 DEF ShiftDown
  <2>2. \A p \in minPrice .. maxPrice : p \notin minPrice + d .. maxPrice + d => Empty(LevelAt(p))
    <3>1. \A p \in Leaving(Sell) : Empty(LevelAt(p))
      BY <1>5 DEF Occupied
    <3>2. Leaving(Sell) = maxPrice - Shift + 1 .. maxPrice
      BY NamesOfSides DEF Leaving
    <3> QED
      BY <1>2, <2>0, <3>1, <3>2
  <2>3. minPrice + d >= 0
    <3>1. minPrice - Shift >= MinPrice
      BY <1>5 DEF MustShiftDown
    <3> QED
      BY <1>2, <2>0, <3>1
  <2>4. /\ Fits'
        /\ \A p \in minPrice + d .. maxPrice + d :
             LevelAt(p)' = IF p \in minPrice .. maxPrice THEN LevelAt(p) ELSE NewLevel
    BY <1>2, <2>0, <2>1, <2>2, <2>3, WindowMoves
  <2>5. Resting' = Resting
    BY <1>2, <2>0, <2>1, <2>2, <2>4, RestingMoves
  <2>6. ev'.type = "LevelsCreated" /\ ev'.to - ev'.from = Shift - 1
    BY <1>2, <2>0, <2>1 DEF LevelsCreated
  <2> QED
    BY <1>3, <2>5, <2>6 DEF Abstract!Recentre
<1> QED
  BY <1>4, <1>5 DEF MoveWindow

(* Rest: the request is done, what is left of it rests or comes back.      *)
LEMMA RestRefines ==
  ASSUME RInv, Rest
  PROVE  Abstract!Finish \/ Abstract!Return \/ Abstract!RestOrder
<1>0. PICK side, id, price, qty, level :
        /\ side = req.side /\ id = req.id /\ price = req.price /\ qty = left
        /\ level = LevelAt(price)
  OBVIOUS
<1>1. /\ IInv /\ TradeIsCovered /\ Fits /\ LevelsGood /\ RingFollows /\ CallType /\ SidesAgree
      /\ pc = "rest" /\ ev = None
  BY Apart DEF RInv, Rest, Reached
<1>2. /\ side \in Sides /\ id \in Ids /\ price \in Prices /\ price \in Nat
      /\ req.kind \in {"limit", "ioc", "fok"} /\ qty \in 0 .. MaxQty /\ MaxQty \in Nat
  BY <1>0, <1>1, RequestType, Constants DEF Trading, CallType
<1>3. /\ Taker.kind = req.kind /\ Taker.side = side /\ Taker.id = id /\ Taker.price = price
      /\ Taker.left = qty
  BY <1>0, <1>1, TakerIs
<1>4. Abstract!Busy /\ ~ Abstract!CanTrade /\ Taker' = Abstract!NoOrder
  BY <1>1, ReadyOrBusy, CannotTrade, NextTaker DEF Rest
<1>5. CASE qty = 0 \/ req.kind = "fok"
  <2>1. qty = 0
    BY <1>0, <1>1, <1>5 DEF TradeIsCovered
  <2>2. Resting' = Resting /\ ev' = ev
    BY <1>0, <1>5, RestingStays DEF Rest
  <2> QED
    BY <1>3, <1>4, <2>1, <2>2 DEF Abstract!Finish
<1>6. ASSUME qty # 0, req.kind # "fok", UNCHANGED bookVars,
             NEW reason, ev' = CreateRejected(id, qty, reason)
      PROVE  Abstract!Return
  <2>1. Resting' = Resting
    BY <1>6, RestingStays
  <2>2. ev'.type = "CreateRejected" /\ ev'.id = id /\ ev'.qty = qty
    BY <1>6 DEF CreateRejected
  <2>3. qty > 0
    BY <1>2, <1>6
  <2> QED
    BY <1>3, <1>4, <1>6, <2>1, <2>2, <2>3 DEF Abstract!Return
<1>7. ASSUME qty # 0, req.kind = "limit", InWindow(price), ~ Full(level),
             NEW slot, slot = PushSlot(level, id), NEW new, new = PushAt(side, level, id, qty, slot),
             levels' = [levels EXCEPT ![IndexOf(price)] = new], UNCHANGED window,
             ev' = CreateAccepted(id, slot, qty)
      PROVE  Abstract!RestOrder
  <2>1. qty \in 1 .. MaxQty /\ qty > 0
    BY <1>2, <1>7
  <2>2. price \in minPrice .. maxPrice /\ side * level.total >= 0
    BY <1>0, <1>1, <1>2, <1>7, InWindowIs DEF SidesAgree
  <2>3. Good(level)
    BY <1>0, <1>1, <1>2, LevelIsGood
  <2>4. Good(new) /\ side * new.total > 0
    BY <1>2, <1>7, <2>1, <2>2, <2>3, PushIsGood
  <2>5. side * new.total >= 0
    <3>1. side * new.total \in Int
      BY <1>2, <2>4, OfGood, SideSigns
    <3> QED
      BY <2>4, <3>1
  <2>6. Fits' /\ Becomes(price, new)
    BY <1>1, <1>7, <2>2, <2>4, OneLevel DEF Becomes
  <2>7. Resting' = [Resting EXCEPT ![side][price] = Shown(new.fifo)]
    BY <1>0, <1>1, <1>2, <1>7, <2>2, <2>4, <2>5, <2>6, BookBecomes
  <2>8. Resting[side][price] = Shown(level.fifo) /\ level.fifo \in Seq(RestingOrders)
    BY <1>0, <1>1, <1>2, <2>2, QueueAt
  <2>9. slot \in Slots
    BY <1>2, <1>7, <2>3, PushSlotIsFree DEF FreeSlots
  <2>10. Shown(new.fifo) = Append(Shown(level.fifo), [id |-> id, qty |-> qty])
    <3>1. PICK o : o = [slot |-> slot, id |-> id, qty |-> qty]
      OBVIOUS
    <3>2. o \in RestingOrders
      BY <1>2, <2>1, <2>9, <3>1 DEF RestingOrders
    <3>3. new.fifo = Append(level.fifo, o)
      BY <1>7, <3>1 DEF PushAt
    <3>4. Shown(Append(level.fifo, o)) = Append(Shown(level.fifo), [id |-> o.id, qty |-> o.qty])
      BY <2>8, <3>2, ShownAppend
    <3> QED
      BY <3>1, <3>3, <3>4
  <2>11. Resting' = [Resting EXCEPT ![side][price] = Append(Resting[side][price], [id |-> id, qty |-> qty])]
    BY <2>7, <2>8, <2>10
  <2>12. ev'.type = "CreateAccepted" /\ ev'.id = id /\ ev'.qty = qty
    BY <1>7 DEF CreateAccepted
  <2> HIDE DEF Resting, Taker
  <2> QED
    BY <1>3, <1>4, <1>7, <2>1, <2>11, <2>12 DEF Abstract!RestOrder
<1>8. CASE qty # 0 /\ req.kind = "ioc"
  <2>1. ev' = CreateRejected(id, qty, "IOC") /\ UNCHANGED bookVars
    BY <1>0, <1>8 DEF Rest, Reject
  <2> QED
    BY <1>6, <1>8, <2>1
<1>9. CASE qty # 0 /\ req.kind = "limit"
  <2>1. InsertOrder(side, id, price, qty)
    BY <1>0, <1>9 DEF Rest
  <2>2. CASE ~ InWindow(price)
    <3>1. ev' = CreateRejected(id, qty, "Price") /\ UNCHANGED bookVars
      BY <2>1, <2>2 DEF InsertOrder, Reject
    <3> QED
      BY <1>6, <1>9, <3>1
  <2>3. CASE InWindow(price) /\ Full(level)
    <3>1. ev' = CreateRejected(id, qty, "Buffer") /\ UNCHANGED bookVars
      BY <1>0, <2>1, <2>3 DEF InsertOrder, Reject
    <3> QED
      BY <1>6, <1>9, <3>1
  <2>4. CASE InWindow(price) /\ ~ Full(level)
    <3>1. PICK slot, new : slot = PushSlot(level, id) /\ new = PushAt(side, level, id, qty, slot)
      OBVIOUS
    <3>2. /\ levels' = [levels EXCEPT ![IndexOf(price)] = new]
          /\ ev' = CreateAccepted(id, slot, qty) /\ UNCHANGED window
      BY <1>0, <2>1, <2>4, <3>1 DEF InsertOrder
    <3> QED
      BY <1>7, <1>9, <2>4, <3>1, <3>2
  <2> QED
    BY <2>2, <2>3, <2>4
<1> QED
  BY <1>2, <1>5, <1>8, <1>9

(* Update.                                                                 *)
LEMMA UpdateRefines ==
  ASSUME IInv, NEW side \in Sides, NEW id, NEW price, NEW newQty, NEW slot,
         Update(side, id, price, newQty, slot),
         ValidId(id) /\ ValidPrice(price) /\ ValidQty(newQty) => id \in Ids /\ price \in Prices /\ newQty \in Qtys
  PROVE  Abstract!Refuse \/ Abstract!Update
<1>0. PICK level, found, place, new :
        /\ level = LevelAt(price) /\ found = Candidates(level, id, slot)
        /\ place = FirstProbed(id, found) /\ new = UpdateAt(side, level, newQty, place)
  OBVIOUS
<1>1. /\ pc = "idle" /\ ev = None /\ Ready /\ UNCHANGED callVars
      /\ Fits /\ LevelsGood /\ RingFollows /\ CallType
  BY Apart DEF Update, Ready
<1>2. CASE UNCHANGED bookVars /\ \E reason : ev' = UpdateRejected(id, reason)
  <2>1. ev'.type = "UpdateRejected"
    BY <1>2 DEF UpdateRejected
  <2> QED
    BY <1>1, <1>2, <2>1, RefusalRefines
<1>3. CASE /\ ValidId(id) /\ ValidPrice(price) /\ ValidQty(newQty)
           /\ InWindow(price) /\ ~ (side * level.total <= 0) /\ found # {}
           /\ levels' = [levels EXCEPT ![IndexOf(price)] = new]
           /\ ev' = UpdateAccepted(id)
           /\ UNCHANGED <<window, bits>>
  <2>1. id \in Ids /\ price \in Prices /\ price \in Int /\ newQty \in Qtys /\ newQty \in 1 .. MaxQty
    BY <1>3, Constants DEF Prices, Qtys
  <2>2. /\ Good(level) /\ side * level.total > 0 /\ side * level.total >= 0
        /\ price \in minPrice .. maxPrice
    <3>1. Good(level) /\ level.total \in Int
      BY <1>0, <1>1, <2>1, LevelIsGood
    <3>2. side * level.total \in Int
      BY <3>1, SideSigns
    <3> QED
      BY <1>1, <1>3, <2>1, <3>1, <3>2, InWindowIs
  <2>3. place \in SlotsOf(level, id)
    BY <1>0, <1>3, <2>1, <2>2, FoundSlot
  <2>4. Good(new) /\ side * new.total > 0
    BY <1>0, <2>1, <2>2, <2>3, UpdateIsGood
  <2>5. side * new.total >= 0
    <3>1. side * new.total \in Int
      BY <2>4, OfGood, SideSigns
    <3> QED
      BY <2>4, <3>1
  <2>6. Fits' /\ Becomes(price, new)
    BY <1>1, <1>3, <2>2, <2>4, OneLevel DEF Becomes
  <2>7. Resting' = [Resting EXCEPT ![side][price] = Shown(new.fifo)]
    BY <1>0, <1>1, <1>3, <2>2, <2>4, <2>5, <2>6, BookBecomes
  <2>8. Resting[side][price] = Shown(level.fifo) /\ level.fifo \in Seq(RestingOrders)
    BY <1>0, <1>1, <2>2, QueueAt
  <2>9. PICK i \in 1 .. Len(level.fifo) : i = PlaceOf(level, place) /\ level.fifo[i].id = id
    BY <2>2, <2>3, PlaceIs
  <2>10. i \in DOMAIN Resting[side][price] /\ Resting[side][price][i].id = id
    <3>1. i \in DOMAIN Shown(level.fifo)
      BY <2>8, <2>9, ShownIs
    <3>2. Shown(level.fifo)[i] = [id |-> level.fifo[i].id, qty |-> level.fifo[i].qty]
      BY <2>8, <2>9, ShownIs
    <3>3. Shown(level.fifo)[i].id = id
      BY <2>9, <3>2
    <3> QED
      BY <2>8, <3>1, <3>3
  <2>11. Shown(new.fifo) = Changed(Resting[side][price], i, newQty)
    <3>1. new.fifo = Changed(level.fifo, i, newQty)
      BY <1>0, <2>9 DEF UpdateAt, Changed
    <3> QED
      BY <2>8, <3>1, ShownChange
  <2>12. Resting' = [Resting EXCEPT ![side][price][i].qty = newQty]
    BY <2>7, <2>11, Zenon DEF Changed
  <2>13. ev' = Abstract!UpdateAccepted(Resting[side][price][i].id)
    BY <1>3, <2>10, AbstractEvents
  <2>14. Abstract!Ready /\ Taker' = Taker /\ side \in Abstract!Sides
    BY <1>1, ReadyOrBusy, NextTaker, AbstractNames
  <2> HIDE DEF Resting, Taker
  <2> QED
    BY <2>1, <2>10, <2>12, <2>13, <2>14 DEF Abstract!Update
<1> QED
  BY <1>0, <1>2, <1>3 DEF Update, UpdateOrder, Reject

(* Cancel.                                                                 *)
LEMMA CancelRefines ==
  ASSUME IInv, NEW side \in Sides, NEW id, NEW price, NEW slot,
         Cancel(side, id, price, slot),
         ValidId(id) /\ ValidPrice(price) /\ ValidSlot(slot) => id \in Ids /\ price \in Prices
  PROVE  Abstract!Refuse \/ Abstract!Cancel
<1>0. PICK level, found, place, new :
        /\ level = LevelAt(price) /\ found = Candidates(level, id, slot)
        /\ place = FirstProbed(id, found) /\ new = CancelAt(side, level, place)
  OBVIOUS
<1>1. /\ pc = "idle" /\ ev = None /\ Ready /\ UNCHANGED callVars
      /\ Fits /\ LevelsGood /\ RingFollows /\ CallType
  BY Apart DEF Cancel, Ready
<1>2. CASE UNCHANGED bookVars /\ \E reason : ev' = CancelRejected(id, reason)
  <2>1. ev'.type = "CancelRejected"
    BY <1>2 DEF CancelRejected
  <2> QED
    BY <1>1, <1>2, <2>1, RefusalRefines
<1>3. CASE /\ ValidId(id) /\ ValidPrice(price) /\ ValidSlot(slot)
           /\ InWindow(price) /\ ~ (side * level.total <= 0) /\ found # {}
           /\ levels' = [levels EXCEPT ![IndexOf(price)] = new]
           /\ ev' = CancelAccepted(id)
           /\ UNCHANGED window
  <2>1. id \in Ids /\ price \in Prices /\ price \in Int
    BY <1>3, Constants DEF Prices
  <2>2. /\ Good(level) /\ side * level.total > 0 /\ side * level.total >= 0
        /\ price \in minPrice .. maxPrice
    <3>1. Good(level) /\ level.total \in Int
      BY <1>0, <1>1, <2>1, LevelIsGood
    <3>2. side * level.total \in Int
      BY <3>1, SideSigns
    <3> QED
      BY <1>1, <1>3, <2>1, <3>1, <3>2, InWindowIs
  <2>3. place \in SlotsOf(level, id)
    BY <1>0, <1>3, <2>1, <2>2, FoundSlot
  <2>4. Good(new) /\ side * new.total >= 0
    BY <1>0, <2>1, <2>2, <2>3, CancelIsGood
  <2>6. Fits' /\ Becomes(price, new)
    BY <1>1, <1>3, <2>2, <2>4, OneLevel DEF Becomes
  <2>7. Resting' = [Resting EXCEPT ![side][price] = Shown(new.fifo)]
    BY <1>0, <1>1, <1>3, <2>2, <2>4, <2>6, BookBecomes
  <2>8. Resting[side][price] = Shown(level.fifo) /\ level.fifo \in Seq(RestingOrders)
    BY <1>0, <1>1, <2>2, QueueAt
  <2>9. PICK i \in 1 .. Len(level.fifo) : i = PlaceOf(level, place) /\ level.fifo[i].id = id
    BY <2>2, <2>3, PlaceIs
  <2>10. i \in DOMAIN Resting[side][price] /\ Resting[side][price][i].id = id
    <3>1. i \in DOMAIN Shown(level.fifo)
      BY <2>8, <2>9, ShownIs
    <3>2. Shown(level.fifo)[i] = [id |-> level.fifo[i].id, qty |-> level.fifo[i].qty]
      BY <2>8, <2>9, ShownIs
    <3>3. Shown(level.fifo)[i].id = id
      BY <2>9, <3>2
    <3> QED
      BY <2>8, <3>1, <3>3
  <2>11. Shown(new.fifo) = Without(Resting[side][price], i)
    <3>1. new.fifo = Without(level.fifo, i)
      BY <1>0, <2>9 DEF CancelAt, Without
    <3> QED
      BY <2>8, <3>1, ShownWithout
  <2>12. Resting' = [Resting EXCEPT ![side][price] = Without(Resting[side][price], i)]
    BY <2>7, <2>11
  <2>13. ev' = Abstract!CancelAccepted(Resting[side][price][i].id)
    BY <1>3, <2>10, AbstractEvents
  <2>14. Abstract!Ready /\ Taker' = Taker /\ side \in Abstract!Sides
    BY <1>1, ReadyOrBusy, NextTaker, AbstractNames
  <2> HIDE DEF Resting, Taker
  <2> QED
    BY <2>1, <2>10, <2>12, <2>13, <2>14 DEF Abstract!Cancel, Without
<1> QED
  BY <1>0, <1>2, <1>3 DEF Cancel, CancelOrder, Reject

(* Every step of the engine is one of the abstract book or none of its.    *)
LEMMA StepRefines ==
  ASSUME RInv, [Next]_vars
  PROVE  [Abstract!Next]_(Abstract!vars)
<1>0. IInv
  BY DEF RInv
<1>1. CASE Create
  <2>1. Abstract!Refuse \/ Abstract!Enter
    BY <1>1, CreateIs, InsertRefines
  <2> QED
    BY <2>1 DEF Abstract!Next
<1>2. CASE Amend
  <2>1. Abstract!Refuse \/ Abstract!Update \/ Abstract!Cancel
    BY <1>0, <1>2, AmendIs, UpdateRefines, CancelRefines
  <2> QED
    BY <2>1 DEF Abstract!Next
<1>3. CASE Fill
  BY <1>3, FillRefines DEF Abstract!Next
<1>4. CASE Expire
  BY <1>0, <1>4, ExpireRefines DEF Abstract!Next
<1>5. CASE MoveWindow
  BY <1>0, <1>5, MoveWindowRefines DEF Abstract!Next
<1>6. CASE Rest
  BY <1>6, RestRefines DEF Abstract!Next
<1>7. CASE Pushed
  BY <1>7, PushedRefines DEF Abstract!Next
<1>8. CASE Match \/ KeepWindow \/ UNCHANGED vars
  <2>1. /\ UNCHANGED <<bookVars, ev>>
        /\ (pc = "idle" <=> pc' = "idle") /\ req' = req /\ left' = left
    BY <1>8 DEF Match, KeepWindow, Reached, vars, callVars
  <2> QED
    BY <2>1, StepStutters
<1> QED
  BY <1>1, <1>2, <1>3, <1>4, <1>5, <1>6, <1>7, <1>8 DEF Next, Engine

(* The constructor makes an abstract book without orders.                  *)
LEMMA InitRefines ==
  ASSUME Init
  PROVE  Abstract!Init
<1>1. IInv /\ Fits /\ pc = "idle" /\ ev = None
  BY InitSound, Apart DEF Init
<1>2. ASSUME NEW s \in Sides, NEW p \in Prices
      PROVE  Resting[s][p] = <<>>
  <2>1. p \in Int /\ ~ (s * 0 > 0)
    BY Constants, NamesOfSides DEF Prices
  <2>2. LevelAt(p) = NewLevel
    BY <1>1, <2>1, IndexType DEF Init, BookInit, LevelAt
  <2> QED
    BY <1>1, <2>1, <2>2, RestingIs DEF NewLevel
<1>3. Resting = [s \in Sides |-> [p \in Prices |-> <<>>]]
  BY <1>2, RestingType
<1>4. Taker = Abstract!NoOrder
  BY <1>1, AbstractNames DEF Taker
<1> QED
  BY <1>1, <1>3, <1>4, AbstractNames DEF Abstract!Init

(* Ring, window, masks, totals and slots together implement the abstract   *)
(* book: price before time, trades within limits, orders that rest, change *)
(* and leave where they should, and expire only from the worst price.      *)
THEOREM RefinesBook == Spec => IsMatchingBook
<1>1. Init => Abstract!Init
  BY InitRefines
<1>2. RInv /\ [Next]_vars => [Abstract!Next]_(Abstract!vars)
  BY StepRefines
<1> QED
  BY <1>1, <1>2, Covered, PTL DEF Spec, IsMatchingBook, Abstract!Spec

-----------------------------------------------------------------------------
(* A reader's view and the book, both at one moment.                       *)

BookType(R) == \A s \in Sides, p \in Prices : R[s][p] \in Seq(ShownOrders)
IsIn(R, id) == \E s \in Sides, p \in Prices : \E i \in DOMAIN R[s][p] : R[s][p][i].id = id
OneEach(R) ==
  \A s1, s2 \in Sides, p1, p2 \in Prices :
    \A i \in DOMAIN R[s1][p1], j \in DOMAIN R[s2][p2] :
      R[s1][p1][i].id = R[s2][p2][j].id => s1 = s2 /\ p1 = p2 /\ i = j

(* A view tells what is in a book. *)
Tells(F, R) ==
  /\ F \in [Ids -> 0 .. MaxQty]
  /\ \A id \in Ids : ~ IsIn(R, id) => F[id] = 0
  /\ \A s \in Sides, p \in Prices : \A i \in DOMAIN R[s][p] : F[R[s][p][i].id] = R[s][p][i].qty

(* The orders of a book but those with an identifier are in another one.   *)
Carries(R, T, id) ==
  \A s \in Sides, p \in Prices : \A i \in DOMAIN R[s][p] :
    R[s][p][i].id # id => \E j \in DOMAIN T[s][p] : T[s][p][j] = R[s][p][i]

(* The queues of a book are sequences of orders.                           *)
LEMMA OrderIn ==
  ASSUME NEW R, BookType(R), NEW s \in Sides, NEW p \in Prices
  PROVE  /\ R[s][p] \in Seq(ShownOrders) /\ Len(R[s][p]) \in Nat /\ DOMAIN R[s][p] = 1 .. Len(R[s][p])
         /\ \A i \in DOMAIN R[s][p] : /\ R[s][p][i] \in ShownOrders
                                      /\ R[s][p][i].id \in Ids /\ R[s][p][i].qty \in 1 .. MaxQty
<1>1. R[s][p] \in Seq(ShownOrders)
  BY DEF BookType
<1>2. \A i \in DOMAIN R[s][p] : R[s][p][i] \in ShownOrders
  BY <1>1
<1>3. \A o \in ShownOrders : o.id \in Ids /\ o.qty \in 1 .. MaxQty
  BY DEF ShownOrders
<1> QED
  BY <1>1, <1>2, <1>3

(* When the orders of one identifier change, so does the view at that one. *)
LEMMA Retold ==
  ASSUME NEW R, NEW T, BookType(R), BookType(T), NEW id \in Ids, NEW new \in 0 .. MaxQty,
         Carries(R, T, id), Carries(T, R, id),
         \A s \in Sides, p \in Prices : \A i \in DOMAIN T[s][p] : T[s][p][i].id = id => T[s][p][i].qty = new,
         ~ IsIn(T, id) => new = 0,
         NEW F, Tells(F, R)
  PROVE  Tells([F EXCEPT ![id] = new], T)
<1> DEFINE G == [F EXCEPT ![id] = new]
<1>1. F \in [Ids -> 0 .. MaxQty]
  BY DEF Tells
<1>2. /\ G \in [Ids -> 0 .. MaxQty] /\ G[id] = new
      /\ \A x \in Ids : x # id => G[x] = F[x]
  BY <1>1
<1> HIDE DEF G
<1>3. ASSUME NEW x \in Ids, ~ IsIn(T, x)
      PROVE  G[x] = 0
  <2>1. CASE x = id
    BY <1>2, <1>3, <2>1
  <2>2. CASE x # id
    <3>1. ~ IsIn(R, x)
      BY <1>3, <2>2 DEF IsIn, Carries
    <3> QED
      BY <1>2, <2>2, <3>1 DEF Tells
  <2> QED
    BY <2>1, <2>2
<1>4. ASSUME NEW s \in Sides, NEW p \in Prices, NEW i \in DOMAIN T[s][p]
      PROVE  G[T[s][p][i].id] = T[s][p][i].qty
  <2>1. T[s][p][i].id \in Ids
    BY OrderIn
  <2>2. CASE T[s][p][i].id = id
    BY <1>2, <2>2
  <2>3. CASE T[s][p][i].id # id
    <3>1. PICK j \in DOMAIN R[s][p] : R[s][p][j] = T[s][p][i]
      BY <2>3 DEF Carries
    <3>2. F[R[s][p][j].id] = R[s][p][j].qty
      BY DEF Tells
    <3> QED
      BY <1>2, <2>1, <2>3, <3>1, <3>2
  <2> QED
    BY <2>2, <2>3
<1> QED
  BY <1>2, <1>3, <1>4 DEF Tells, G

(* An order leaves the book.                                               *)
LEMMA OneLeaves ==
  ASSUME NEW R, NEW T, BookType(R), OneEach(R),
         NEW s \in Sides, NEW p \in Prices, NEW i \in DOMAIN R[s][p], NEW gone, gone = R[s][p][i].id,
         \A s1 \in Sides, p1 \in Prices : s1 # s \/ p1 # p => T[s1][p1] = R[s1][p1],
         T[s][p] = Without(R[s][p], i)
  PROVE  /\ gone \in Ids /\ BookType(T) /\ OneEach(T)
         /\ \A id : IsIn(T, id) => IsIn(R, id)
         /\ \A F : Tells(F, R) => Tells([F EXCEPT ![gone] = 0], T)
<1>1. /\ R[s][p] \in Seq(ShownOrders) /\ Len(R[s][p]) \in Nat /\ i \in 1 .. Len(R[s][p]) /\ R[s][p][i].id \in Ids
      /\ DOMAIN R[s][p] = 1 .. Len(R[s][p])
  BY OrderIn
<1>2. PICK q, n : q = R[s][p] /\ n = Len(q)
  OBVIOUS
<1>3. /\ T[s][p] \in Seq(ShownOrders) /\ DOMAIN T[s][p] = 1 .. n - 1 /\ n \in Nat /\ i \in 1 .. n
      /\ \A k \in 1 .. n - 1 : T[s][p][k] = IF k < i THEN q[k] ELSE q[k + 1]
  <2>1. /\ Without(q, i) \in Seq(ShownOrders) /\ Len(Without(q, i)) = n - 1
        /\ \A k \in 1 .. n - 1 : Without(q, i)[k] = IF k < i THEN q[k] ELSE q[k + 1]
    BY <1>1, <1>2, WithoutIs
  <2>2. DOMAIN Without(q, i) = 1 .. Len(Without(q, i))
    BY <2>1
  <2> QED
    BY <1>1, <1>2, <2>1, <2>2
<1>4. BookType(T)
  BY <1>3 DEF BookType
<1> DEFINE Old(s1, p1, k) == IF s1 = s /\ p1 = p /\ ~ (k < i) THEN k + 1 ELSE k
<1>5. ASSUME NEW s1 \in Sides, NEW p1 \in Prices, NEW k \in DOMAIN T[s1][p1]
      PROVE  /\ Old(s1, p1, k) \in DOMAIN R[s1][p1] /\ T[s1][p1][k] = R[s1][p1][Old(s1, p1, k)] /\ k \in Int
             /\ ~ (s1 = s /\ p1 = p /\ Old(s1, p1, k) = i)
  <2>1. CASE s1 = s /\ p1 = p
    <3>1. k \in 1 .. n - 1 /\ T[s][p][k] = IF k < i THEN q[k] ELSE q[k + 1]
      BY <1>3, <2>1
    <3>2. CASE k < i
      <4>1. k \in 1 .. n /\ k # i
        BY <1>3, <3>1, <3>2
      <4> QED
        BY <1>1, <1>2, <2>1, <3>1, <3>2, <4>1
    <3>3. CASE ~ (k < i)
      <4>1. k + 1 \in 1 .. n /\ k + 1 # i
        BY <1>3, <3>1, <3>3
      <4> QED
        BY <1>1, <1>2, <2>1, <3>1, <3>3, <4>1
    <3> QED
      BY <3>2, <3>3
  <2>2. CASE s1 # s \/ p1 # p
    <3>1. T[s1][p1] = R[s1][p1]
      BY <2>2
    <3>2. DOMAIN R[s1][p1] = 1 .. Len(R[s1][p1]) /\ Len(R[s1][p1]) \in Nat
      BY OrderIn
    <3> QED
      BY <2>2, <3>1, <3>2
  <2> QED
    BY <2>1, <2>2
<1>6. ASSUME NEW s1 \in Sides, NEW p1 \in Prices, NEW j \in DOMAIN R[s1][p1], ~ (s1 = s /\ p1 = p /\ j = i)
      PROVE  \E k \in DOMAIN T[s1][p1] : T[s1][p1][k] = R[s1][p1][j]
  <2>1. CASE s1 = s /\ p1 = p
    <3>1. j \in 1 .. n /\ j # i
      BY <1>1, <1>2, <1>6, <2>1
    <3>2. CASE j < i
      <4>1. j \in 1 .. n - 1
        BY <1>3, <3>1, <3>2
      <4> QED
        BY <1>2, <1>3, <2>1, <3>2, <4>1
    <3>3. CASE ~ (j < i)
      <4>1. PICK l : l = j - 1 /\ l \in 1 .. n - 1 /\ ~ (l < i) /\ l + 1 = j
        BY <1>3, <3>1, <3>3
      <4>2. T[s][p][l] = q[l + 1] /\ l \in DOMAIN T[s][p]
        BY <1>3, <4>1
      <4> QED
        BY <1>2, <2>1, <4>1, <4>2
    <3> QED
      BY <3>2, <3>3
  <2>2. CASE s1 # s \/ p1 # p
    BY <2>2
  <2> QED
    BY <2>1, <2>2
<1>7. OneEach(T)
  <2> SUFFICES ASSUME NEW s1 \in Sides, NEW s2 \in Sides, NEW p1 \in Prices, NEW p2 \in Prices,
                      NEW k \in DOMAIN T[s1][p1], NEW l \in DOMAIN T[s2][p2],
                      T[s1][p1][k].id = T[s2][p2][l].id
               PROVE  s1 = s2 /\ p1 = p2 /\ k = l
    BY DEF OneEach
  <2>1. R[s1][p1][Old(s1, p1, k)].id = R[s2][p2][Old(s2, p2, l)].id
    BY <1>5
  <2>2. Old(s1, p1, k) \in DOMAIN R[s1][p1] /\ Old(s2, p2, l) \in DOMAIN R[s2][p2] /\ k \in Int /\ l \in Int
    BY <1>5
  <2>3. s1 = s2 /\ p1 = p2 /\ Old(s1, p1, k) = Old(s2, p2, l)
    <3> HIDE DEF Old
    <3> QED
      BY <2>1, <2>2 DEF OneEach
  <2>4. i \in Int
    BY <1>3
  <2> QED
    BY <2>2, <2>3, <2>4
<1>8. \A id : IsIn(T, id) => IsIn(R, id)
  <2> HIDE DEF Old
  <2> QED
    BY <1>5 DEF IsIn
<1>9. ASSUME NEW s1 \in Sides, NEW p1 \in Prices, NEW k \in DOMAIN T[s1][p1]
      PROVE  T[s1][p1][k].id # gone
  <2> HIDE DEF Old
  <2> QED
    BY <1>2, <1>5 DEF OneEach
<1>10. Carries(R, T, gone)
  BY <1>2, <1>6 DEF Carries
<1>11. Carries(T, R, gone)
  <2> HIDE DEF Old
  <2> QED
    BY <1>5 DEF Carries
<1>12. ASSUME NEW F, Tells(F, R)
       PROVE  Tells([F EXCEPT ![gone] = 0], T)
  <2>1. 0 \in 0 .. MaxQty /\ gone \in Ids
    BY <1>1, <1>2, Constants
  <2> QED
    BY <1>4, <1>9, <1>10, <1>11, <1>12, <2>1, Retold
<1> QED
  BY <1>1, <1>2, <1>4, <1>7, <1>8, <1>12

(* The quantity of one changes.                                            *)
LEMMA OneChanges ==
  ASSUME NEW R, NEW T, BookType(R), OneEach(R),
         NEW s \in Sides, NEW p \in Prices, NEW i \in DOMAIN R[s][p], NEW id, id = R[s][p][i].id,
         NEW new \in 1 .. MaxQty,
         \A s1 \in Sides, p1 \in Prices : s1 # s \/ p1 # p => T[s1][p1] = R[s1][p1],
         T[s][p] = Changed(R[s][p], i, new)
  PROVE  /\ id \in Ids /\ BookType(T) /\ OneEach(T)
         /\ \A x : IsIn(T, x) => IsIn(R, x)
         /\ \A F : Tells(F, R) => Tells([F EXCEPT ![id] = new], T)
<1>1. /\ R[s][p] \in Seq(ShownOrders) /\ Len(R[s][p]) \in Nat /\ R[s][p][i].id \in Ids
      /\ R[s][p][i] \in ShownOrders
  BY OrderIn
<1>2. PICK q : q = R[s][p]
  OBVIOUS
<1>3. /\ T[s][p] \in Seq(ShownOrders) /\ DOMAIN T[s][p] = DOMAIN R[s][p]
      /\ T[s][p][i].id = id /\ T[s][p][i].qty = new
      /\ \A k \in DOMAIN R[s][p] : k # i => T[s][p][k] = R[s][p][k]
  <2> DEFINE o == [q[i] EXCEPT !.qty = new]
  <2>1. o.id = q[i].id /\ o.qty = new /\ o \in ShownOrders
    BY <1>1, <1>2 DEF ShownOrders
  <2>2. Changed(q, i, new) = [q EXCEPT ![i] = o]
    BY DEF Changed
  <2> HIDE DEF o
  <2>3. [q EXCEPT ![i] = o] \in Seq(ShownOrders)
    BY <1>1, <1>2, <2>1
  <2>4. DOMAIN [q EXCEPT ![i] = o] = DOMAIN q /\ [q EXCEPT ![i] = o][i] = o
        /\ \A k \in DOMAIN q : k # i => [q EXCEPT ![i] = o][k] = q[k]
    BY <1>2
  <2> QED
    BY <1>2, <2>1, <2>2, <2>3, <2>4
<1>4. BookType(T)
  BY <1>3 DEF BookType
<1>5. ASSUME NEW s1 \in Sides, NEW p1 \in Prices
      PROVE  /\ DOMAIN T[s1][p1] = DOMAIN R[s1][p1]
             /\ \A k \in DOMAIN R[s1][p1] : /\ T[s1][p1][k].id = R[s1][p1][k].id
                                            /\ T[s1][p1][k].id # id => T[s1][p1][k] = R[s1][p1][k]
                                            /\ T[s1][p1][k].id = id => T[s1][p1][k].qty = new
  <2>1. CASE s1 = s /\ p1 = p
    <3> SUFFICES ASSUME NEW k \in DOMAIN R[s][p]
                 PROVE  /\ T[s][p][k].id = R[s][p][k].id
                        /\ T[s][p][k].id # id => T[s][p][k] = R[s][p][k]
                        /\ T[s][p][k].id = id => T[s][p][k].qty = new
      BY <1>3, <2>1
    <3>1. CASE k = i
      BY <1>2, <1>3, <3>1
    <3>2. CASE k # i
      <4>1. R[s][p][k].id # id
        BY <1>2, <3>2 DEF OneEach
      <4> QED
        BY <1>3, <3>2, <4>1
    <3> QED
      BY <3>1, <3>2
  <2>2. CASE s1 # s \/ p1 # p
    <3>1. T[s1][p1] = R[s1][p1]
      BY <2>2
    <3>2. \A k \in DOMAIN R[s1][p1] : R[s1][p1][k].id # id
      BY <1>2, <2>2 DEF OneEach
    <3> QED
      BY <3>1, <3>2
  <2> QED
    BY <2>1, <2>2
<1>6. OneEach(T)
  BY <1>5 DEF OneEach
<1>7. \A x : IsIn(T, x) <=> IsIn(R, x)
  BY <1>5 DEF IsIn
<1>8. Carries(R, T, id) /\ Carries(T, R, id) /\ IsIn(T, id)
  <2>1. IsIn(R, id)
    BY <1>2 DEF IsIn
  <2> QED
    BY <1>5, <1>7, <2>1 DEF Carries
<1>9. ASSUME NEW F, Tells(F, R)
      PROVE  Tells([F EXCEPT ![id] = new], T)
  <2>1. new \in 0 .. MaxQty /\ id \in Ids
    BY <1>1, <1>2, Constants
  <2> QED
    BY <1>4, <1>5, <1>8, <1>9, <2>1, Retold
<1> QED
  BY <1>1, <1>2, <1>4, <1>6, <1>7, <1>9

(* An order with a new identifier joins a queue.                           *)
LEMMA OneJoins ==
  ASSUME NEW R, NEW T, BookType(R), OneEach(R),
         NEW s \in Sides, NEW p \in Prices, NEW id \in Ids, NEW qty \in 1 .. MaxQty, ~ IsIn(R, id),
         \A s1 \in Sides, p1 \in Prices : s1 # s \/ p1 # p => T[s1][p1] = R[s1][p1],
         T[s][p] = Append(R[s][p], [id |-> id, qty |-> qty])
  PROVE  /\ BookType(T) /\ OneEach(T)
         /\ \A F : Tells(F, R) => Tells([F EXCEPT ![id] = qty], T)
<1>1. R[s][p] \in Seq(ShownOrders) /\ Len(R[s][p]) \in Nat /\ DOMAIN R[s][p] = 1 .. Len(R[s][p])
  BY OrderIn
<1>2. PICK o, q, n : o = [id |-> id, qty |-> qty] /\ q = R[s][p] /\ n = Len(R[s][p])
  OBVIOUS
<1>3. o \in ShownOrders /\ o.id = id /\ o.qty = qty
  BY <1>2 DEF ShownOrders
<1>4. /\ T[s][p] \in Seq(ShownOrders) /\ DOMAIN T[s][p] = 1 .. n + 1 /\ n \in Nat
      /\ T[s][p][n + 1] = o /\ \A k \in 1 .. n : T[s][p][k] = R[s][p][k]
  <2>1. Append(q, o) \in Seq(ShownOrders) /\ Len(Append(q, o)) = n + 1 /\ Append(q, o)[n + 1] = o
        /\ \A k \in 1 .. n : Append(q, o)[k] = q[k]
    BY <1>1, <1>2, <1>3
  <2>2. DOMAIN Append(q, o) = 1 .. n + 1
    BY <2>1
  <2> QED
    BY <1>1, <1>2, <2>1, <2>2
<1>5. BookType(T)
  BY <1>4 DEF BookType
<1>6. ASSUME NEW s1 \in Sides, NEW p1 \in Prices, NEW k \in DOMAIN T[s1][p1]
      PROVE  \/ k \in DOMAIN R[s1][p1] /\ T[s1][p1][k] = R[s1][p1][k] /\ T[s1][p1][k].id # id
             \/ s1 = s /\ p1 = p /\ k = n + 1 /\ T[s1][p1][k] = o
  <2>1. CASE s1 = s /\ p1 = p
    <3>1. k \in 1 .. n \/ k = n + 1
      BY <1>4, <2>1
    <3>2. k \in 1 .. n => k \in DOMAIN R[s1][p1] /\ T[s1][p1][k] = R[s1][p1][k]
      BY <1>1, <1>2, <1>4, <2>1
    <3> QED
      BY <1>4, <2>1, <3>1, <3>2 DEF IsIn
  <2>2. CASE s1 # s \/ p1 # p
    BY <2>2 DEF IsIn
  <2> QED
    BY <2>1, <2>2
<1>7. ASSUME NEW s1 \in Sides, NEW p1 \in Prices, NEW k \in DOMAIN R[s1][p1]
      PROVE  k \in DOMAIN T[s1][p1] /\ T[s1][p1][k] = R[s1][p1][k]
  <2>1. CASE s1 = s /\ p1 = p
    <3>1. k \in 1 .. n /\ k \in 1 .. n + 1
      BY <1>1, <1>2, <2>1
    <3> QED
      BY <1>4, <2>1, <3>1
  <2>2. CASE s1 # s \/ p1 # p
    BY <2>2
  <2> QED
    BY <2>1, <2>2
<1>8. OneEach(T)
  <2> SUFFICES ASSUME NEW s1 \in Sides, NEW s2 \in Sides, NEW p1 \in Prices, NEW p2 \in Prices,
                      NEW k \in DOMAIN T[s1][p1], NEW l \in DOMAIN T[s2][p2],
                      T[s1][p1][k].id = T[s2][p2][l].id
               PROVE  s1 = s2 /\ p1 = p2 /\ k = l
    BY DEF OneEach
  <2>1. CASE T[s1][p1][k].id = id
    <3>1. s1 = s /\ p1 = p /\ k = n + 1
      BY <1>6, <2>1
    <3>2. T[s2][p2][l].id = id
      BY <2>1
    <3>3. s2 = s /\ p2 = p /\ l = n + 1
      BY <1>6, <3>2
    <3> QED
      BY ONLY <3>1, <3>3
  <2>2. CASE T[s1][p1][k].id # id
    <3>1. k \in DOMAIN R[s1][p1] /\ T[s1][p1][k] = R[s1][p1][k]
      BY <1>3, <1>6, <2>2
    <3>2. l \in DOMAIN R[s2][p2] /\ T[s2][p2][l] = R[s2][p2][l]
      BY <1>3, <1>6, <2>2
    <3> QED
      BY <3>1, <3>2 DEF OneEach
  <2> QED
    BY <2>1, <2>2
<1>9. Carries(R, T, id) /\ Carries(T, R, id) /\ IsIn(T, id)
  <2>1. n + 1 \in DOMAIN T[s][p]
    BY <1>4
  <2>2. IsIn(T, id)
    BY <1>3, <1>4, <2>1 DEF IsIn
  <2>3. Carries(R, T, id)
    BY <1>7 DEF Carries
  <2>4. Carries(T, R, id)
    BY <1>3, <1>6 DEF Carries
  <2> QED
    BY <2>2, <2>3, <2>4
<1>10. \A s1 \in Sides, p1 \in Prices : \A k \in DOMAIN T[s1][p1] : T[s1][p1][k].id = id => T[s1][p1][k].qty = qty
  BY <1>3, <1>6
<1>11. ASSUME NEW F, Tells(F, R)
       PROVE  Tells([F EXCEPT ![id] = qty], T)
  <2>1. qty \in 0 .. MaxQty
    BY Constants
  <2> QED
    BY <1>5, <1>9, <1>10, <1>11, <2>1, Retold
<1> QED
  BY <1>5, <1>8, <1>11

-----------------------------------------------------------------------------
(* The book of the engine.                                                 *)

(* A queue of shown orders at each side and price.                         *)
LEMMA RestingTyped ==
  ASSUME Fits, LevelsGood, CallType
  PROVE  BookType(Resting)
<1> SUFFICES ASSUME NEW s \in Sides, NEW p \in Prices
             PROVE  Resting[s][p] \in Seq(ShownOrders)
  BY DEF BookType
<1>1. p \in Int
  BY Constants DEF Prices
<1>2. Good(LevelAt(p))
  BY <1>1, LevelIsGood
<1>3. Shown(LevelAt(p).fifo) \in Seq(ShownOrders)
  BY <1>2, OfGood, ShownIs
<1>4. <<>> \in Seq(ShownOrders)
  OBVIOUS
<1>5. Resting[s][p] = IF p \in minPrice .. maxPrice /\ s * LevelAt(p).total > 0
                      THEN Shown(LevelAt(p).fifo) ELSE <<>>
  BY RestingIs
<1> QED
  BY <1>3, <1>4, <1>5, Zenon

(* The orders of the window's levels are those of the book.                *)
LEMMA OrdersAre ==
  ASSUME Fits, LevelsGood, CallType
  PROVE  /\ \A p \in minPrice .. maxPrice : p \in Prices /\ \A order \in OrdersAt(p) :
              \E s \in Sides : \E i \in DOMAIN Resting[s][p] :
                Resting[s][p][i] = [id |-> order.id, qty |-> order.qty]
         /\ \A s \in Sides, p \in Prices : \A i \in DOMAIN Resting[s][p] :
              /\ p \in minPrice .. maxPrice
              /\ \E order \in OrdersAt(p) : Resting[s][p][i] = [id |-> order.id, qty |-> order.qty]
<1>1. ASSUME NEW p \in minPrice .. maxPrice
      PROVE  /\ p \in Prices /\ p \in Int
             /\ OrdersAt(p) = {LevelAt(p).fifo[i] : i \in 1 .. Len(LevelAt(p).fifo)}
             /\ LevelAt(p).fifo \in Seq(RestingOrders) /\ LevelAt(p).total \in Int
             /\ LevelAt(p).total = 0 <=> LevelAt(p).fifo = <<>>
  <2>1. p \in Prices /\ p \in Int
    BY WindowPrices
  <2>2. Good(LevelAt(p))
    BY <2>1, LevelIsGood
  <2>3. Indices(LevelAt(p)) = 1 .. Len(LevelAt(p).fifo)
    BY <2>2, OfGood
  <2> QED
    BY <2>1, <2>2, <2>3, OfGood DEF OrdersAt
<1>2. ASSUME NEW p \in minPrice .. maxPrice, NEW order \in OrdersAt(p)
      PROVE  \E s \in Sides : \E i \in DOMAIN Resting[s][p] :
               Resting[s][p][i] = [id |-> order.id, qty |-> order.qty]
  <2> DEFINE level == LevelAt(p)
  <2>1. PICK i \in 1 .. Len(level.fifo) : order = level.fifo[i]
    BY <1>1
  <2>2. level.fifo \in Seq(RestingOrders) /\ level.fifo # <<>> /\ level.total \in Int /\ level.total # 0
    BY <1>1, <2>1
  <2> HIDE DEF level
  <2>3. PICK s \in Sides : s * level.total > 0
    <3>1. -1 \in Sides /\ 1 \in Sides
      BY NamesOfSides
    <3>2. (-1) * level.total > 0 \/ 1 * level.total > 0
      BY <2>2
    <3> QED
      BY <3>1, <3>2
  <2>4. Resting[s][p] = Shown(level.fifo)
    BY <1>1, <2>3, RestingIs DEF level
  <2> QED
    BY <2>1, <2>2, <2>4, ShownIs
<1>3. ASSUME NEW s \in Sides, NEW p \in Prices, NEW i \in DOMAIN Resting[s][p]
      PROVE  /\ p \in minPrice .. maxPrice
             /\ \E order \in OrdersAt(p) : Resting[s][p][i] = [id |-> order.id, qty |-> order.qty]
  <2>1. /\ p \in minPrice .. maxPrice
        /\ Resting[s][p] = Shown(LevelAt(p).fifo)
    <3>1. DOMAIN <<>> = {}
      OBVIOUS
    <3> QED
      BY <3>1, RestingIs
  <2>2. LevelAt(p).fifo \in Seq(RestingOrders)
    BY <1>1, <2>1
  <2>3. /\ i \in 1 .. Len(LevelAt(p).fifo)
        /\ Shown(LevelAt(p).fifo)[i] = [id |-> LevelAt(p).fifo[i].id, qty |-> LevelAt(p).fifo[i].qty]
    BY <2>1, <2>2, ShownIs
  <2>4. LevelAt(p).fifo[i] \in OrdersAt(p)
    BY <1>1, <2>1, <2>3
  <2> QED
    BY <2>1, <2>3, <2>4
<1> QED
  BY <1>1, <1>2, <1>3

(* An order is live when it is in the book.                                *)
LEMMA LiveIs ==
  ASSUME IInv, NEW id
  PROVE  Live(id) <=> IsIn(Resting, id)
<1>1. Fits /\ LevelsGood /\ CallType
  BY Apart
<1>2. ASSUME Live(id)
      PROVE  IsIn(Resting, id)
  <2>1. PICK p \in minPrice .. maxPrice : \E order \in OrdersAt(p) : order.id = id
    BY <1>2 DEF Live
  <2>2. PICK order \in OrdersAt(p) : order.id = id
    BY <2>1
  <2>3. p \in Prices
    BY <1>1, OrdersAre
  <2>4. PICK s \in Sides : \E i \in DOMAIN Resting[s][p] :
          Resting[s][p][i] = [id |-> order.id, qty |-> order.qty]
    BY <1>1, OrdersAre
  <2>5. PICK i \in DOMAIN Resting[s][p] : Resting[s][p][i] = [id |-> order.id, qty |-> order.qty]
    BY <2>4
  <2>6. Resting[s][p][i].id = id
    BY <2>2, <2>5
  <2> HIDE DEF Resting
  <2> QED
    BY <2>3, <2>6 DEF IsIn
<1>3. ASSUME IsIn(Resting, id)
      PROVE  Live(id)
  <2>1. PICK s \in Sides, p \in Prices : \E i \in DOMAIN Resting[s][p] : Resting[s][p][i].id = id
    BY <1>3 DEF IsIn
  <2>2. PICK i \in DOMAIN Resting[s][p] : Resting[s][p][i].id = id
    BY <2>1
  <2>3. p \in minPrice .. maxPrice
    BY <1>1, OrdersAre
  <2>4. PICK order \in OrdersAt(p) : Resting[s][p][i] = [id |-> order.id, qty |-> order.qty]
    BY <1>1, OrdersAre
  <2>5. order.id = id
    BY <2>2, <2>4
  <2> QED
    BY <2>3, <2>5 DEF Live
<1> QED
  BY <1>2, <1>3

(* What a view that tells what is in the book knows of the levels.         *)
LEMMA TellsLevels ==
  ASSUME IInv, NEW F, Tells(F, Resting)
  PROVE  /\ \A id \in Ids : ~ Live(id) => F[id] = 0
         /\ \A price \in minPrice .. maxPrice : \A order \in OrdersAt(price) : F[order.id] = order.qty
<1>1. Fits /\ LevelsGood /\ CallType
  BY Apart
<1>2. ASSUME NEW p \in minPrice .. maxPrice, NEW order \in OrdersAt(p)
      PROVE  F[order.id] = order.qty
  <2>1. p \in Prices
    BY <1>1, OrdersAre
  <2>2. PICK s \in Sides : \E i \in DOMAIN Resting[s][p] :
          Resting[s][p][i] = [id |-> order.id, qty |-> order.qty]
    BY <1>1, OrdersAre
  <2>3. PICK i \in DOMAIN Resting[s][p] : Resting[s][p][i] = [id |-> order.id, qty |-> order.qty]
    BY <2>2
  <2>4. F[Resting[s][p][i].id] = Resting[s][p][i].qty
    BY <2>1 DEF Tells
  <2> QED
    BY <2>3, <2>4
<1>3. ASSUME NEW id \in Ids, ~ Live(id)
      PROVE  F[id] = 0
  <2>1. ~ IsIn(Resting, id)
    BY <1>3, LiveIs
  <2> QED
    BY <2>1 DEF Tells
<1> QED
  BY <1>2, <1>3

-----------------------------------------------------------------------------
(* The steps of the engine.                                                *)

(* What each event makes of a view.                                        *)
LEMMA AfterIs ==
  ASSUME NEW e, NEW F
  PROVE  /\ e.type = "CreateAccepted" => After(e, F) = [F EXCEPT ![e.id] = e.qty]
         /\ e.type = "Trade" => After(e, F) = [F EXCEPT ![e.taker] = F[e.taker] - e.qty]
         /\ e.type \in {"CancelAccepted", "LevelExpired"} => After(e, F) = [F EXCEPT ![e.id] = 0]
         /\ e.type \notin {"CreateAccepted", "Trade", "CancelAccepted", "LevelExpired"} => After(e, F) = F
BY DEF After

(* The order at work, if there is one, is not in the book. *)
WorkIsNew == pc # "idle" => ~ IsIn(Resting, req.id)

(* A view that told what was in the book does so after the event of the    *)
(* step.                                                                   *)
StillTold == \A F : Tells(F, Resting) => Tells(After(ev', F), Resting')

(* Of an event that leaves the book alone, an acceptance or a refusal.     *)
LEMMA NothingNew ==
  ASSUME Resting' = Resting,
         ev'.type \notin {"CreateAccepted", "Trade", "CancelAccepted", "LevelExpired"}
  PROVE  StillTold /\ (OneEach(Resting) => OneEach(Resting'))
<1> HIDE DEF Resting
<1> QED
  BY AfterIs DEF StillTold

(* The book has a queue for each side and price.                           *)
LEMMA BookShape == \A R : R = Resting => R = [s \in Sides |-> [p \in Prices |-> R[s][p]]]
BY RestingType

(* A Trade takes from the order it names what the fill takes from it.      *)
LEMMA FillTells ==
  ASSUME RInv, OneEach(Resting), WorkIsNew, Fill
  PROVE  OneEach(Resting') /\ WorkIsNew' /\ StillTold
<1>0. PICK side, price, level, after :
        /\ side = req.side /\ price = BestPrice /\ level = LevelAt(price)
        /\ after = FillFront(side, level, Smaller(left, Front(level).qty))
  OBVIOUS
<1>1. IInv /\ Fits /\ LevelsGood /\ CallType /\ pc = "fill" /\ req' = req
  BY Apart DEF RInv, Fill, Reached
<1>2. /\ side \in Sides /\ price \in Prices /\ level.fifo # <<>> /\ Good(level)
      /\ left \in 1 .. MaxQty
      /\ Resting[Opposite(side)][price] = Shown(level.fifo)
  BY <1>0, <1>1, FillFacts
<1>3. PICK s : s = Opposite(side) /\ s \in Sides /\ s = -side
  BY <1>2, MinusSide, NamesOfSides
<1>4. PICK q : q = Resting[s][price]
  OBVIOUS
<1>5. /\ q \in Seq(ShownOrders) /\ q # <<>> /\ 1 \in 1 .. Len(q) /\ Head(q) = q[1]
      /\ DOMAIN q = 1 .. Len(q) /\ q[1].id \in Ids /\ q[1].qty \in 1 .. MaxQty
  <2>1. q \in Seq(ShownOrders) /\ q # <<>>
    BY <1>2, <1>3, <1>4, OfGood, ShownIs
  <2>2. 1 \in 1 .. Len(q) /\ Head(q) = q[1] /\ DOMAIN q = 1 .. Len(q) /\ q[1] \in ShownOrders
    BY <2>1
  <2> QED
    BY <2>1, <2>2 DEF ShownOrders
<1>6. PICK qty : qty = IF left < q[1].qty THEN left ELSE q[1].qty
  OBVIOUS
<1>7. /\ ev' = Trade(price, qty, req.id, q[1].id)
      /\ Resting' = [Resting EXCEPT ![s][price] = IF qty = q[1].qty THEN Tail(q)
                                                  ELSE [q EXCEPT ![1].qty = @ - qty]]
  <2>1. Abstract!Match
    BY FillRefines
  <2>2. Taker.left = left /\ Taker.side = side /\ Taker.id = req.id
    BY <1>0, <1>1, TakerIs
  <2>3. Abstract!Best(-side) = price
    BY <1>0, <1>1, AbstractBest
  <2> HIDE DEF Resting, Taker
  <2> DEFINE Put(B, at, best, line) == [B EXCEPT ![at][best] = line]
             Less(line, min) == [line EXCEPT ![1].qty = @ - min]
  <2>4. PICK at, best, line, min :
          /\ at = -Taker.side /\ best = Abstract!Best(at) /\ line = Resting[at][best]
          /\ min = IF Taker.left < Head(line).qty THEN Taker.left ELSE Head(line).qty
          /\ ev' = Abstract!Trade(best, min, Taker.id, Head(line).id)
          /\ Resting' = Put(Resting, at, best, IF min = Head(line).qty THEN Tail(line) ELSE Less(line, min))
    BY <2>1 DEF Abstract!Match
  <2> HIDE DEF Put, Less
  <2>5. at = s /\ best = price
    BY <1>3, <2>2, <2>3, <2>4
  <2>6. line = q /\ Head(q) = q[1]
    BY <1>4, <1>5, <2>4, <2>5
  <2>7. min = qty
    BY <1>6, <2>2, <2>4, <2>6
  <2>8. ev' = Trade(price, qty, req.id, q[1].id)
    BY <2>2, <2>4, <2>5, <2>6, <2>7, AbstractEvents
  <2>9. Resting' = Put(Resting, s, price, IF qty = q[1].qty THEN Tail(q) ELSE Less(q, qty))
    BY <2>4, <2>5, <2>6, <2>7
  <2> QED
    BY <2>8, <2>9 DEF Put, Less
<1>8. PICK R, T : R = Resting /\ T = Resting'
  OBVIOUS
<1>9. PICK new : new = IF qty = q[1].qty THEN Tail(q) ELSE [q EXCEPT ![1].qty = @ - qty]
  OBVIOUS
<1>10. T = [R EXCEPT ![s][price] = new]
  BY <1>7, <1>8, <1>9
<1>11. /\ T[s][price] = new /\ R[s][price] = q
       /\ \A s1 \in Sides, p1 \in Prices : s1 # s \/ p1 # price => T[s1][p1] = R[s1][p1]
  <2>1. R = [s1 \in Sides |-> [p1 \in Prices |-> R[s1][p1]]]
    BY <1>8, BookShape
  <2> QED
    BY <1>2, <1>3, <1>4, <1>8, <1>10, <2>1
<1>12. /\ ev'.type = "Trade" /\ ev'.qty = qty /\ ev'.taker = q[1].id
  BY <1>7 DEF Trade
<1>13. \A F : Tells(F, Resting) => F[q[1].id] = q[1].qty
  BY <1>2, <1>3, <1>4, <1>5 DEF Tells
<1>14. BookType(Resting)
  BY <1>1, RestingTyped
<1>15. PICK full, rest, front : full = q[1].qty /\ rest = full - qty /\ front = q[1].id
  OBVIOUS
<1>16. /\ OneEach(T) /\ \A id : IsIn(T, id) => IsIn(R, id)
       /\ \A F : Tells(F, R) => Tells([F EXCEPT ![front] = rest], T)
  <2>1. BookType(R) /\ OneEach(R)
    BY <1>8, <1>14
  <2>2. 1 \in DOMAIN R[s][price] /\ front = R[s][price][1].id
    BY <1>5, <1>11, <1>15
  <2>3. \A s1 \in Sides, p1 \in Prices : s1 # s \/ p1 # price => T[s1][p1] = R[s1][p1]
    BY <1>11
  <2>4. CASE qty = full
    <3>1. Tail(q) = Without(q, 1)
      BY <1>5, TailIsWithout
    <3>2. T[s][price] = Without(R[s][price], 1)
      BY <1>9, <1>11, <1>15, <2>4, <3>1
    <3>3. rest = 0
      BY <1>5, <1>15, <2>4
    <3>4. /\ OneEach(T) /\ \A id : IsIn(T, id) => IsIn(R, id)
          /\ \A F : Tells(F, R) => Tells([F EXCEPT ![front] = 0], T)
      BY <1>2, <1>3, <2>1, <2>2, <2>3, <3>2, OneLeaves
    <3> QED
      BY <3>3, <3>4
  <2>5. CASE qty # full
    <3>1. rest \in 1 .. MaxQty
      BY <1>2, <1>5, <1>6, <1>15, <2>5, Constants
    <3>2. [q EXCEPT ![1].qty = @ - qty] = Changed(q, 1, rest)
      BY <1>15 DEF Changed
    <3>3. T[s][price] = Changed(R[s][price], 1, rest)
      BY <1>9, <1>11, <1>15, <2>5, <3>2
    <3> QED
      BY <1>2, <1>3, <2>1, <2>2, <2>3, <3>1, <3>3, OneChanges
  <2> QED
    BY <2>4, <2>5
<1>17. StillTold
  <2> SUFFICES ASSUME NEW F, Tells(F, Resting)
               PROVE  Tells(After(ev', F), Resting')
    BY DEF StillTold
  <2>1. F[front] = full
    BY <1>13, <1>15
  <2>2. After(ev', F) = [F EXCEPT ![front] = F[front] - qty]
    BY <1>12, <1>15, AfterIs
  <2>3. After(ev', F) = [F EXCEPT ![front] = rest]
    BY <1>15, <2>1, <2>2
  <2> QED
    BY <1>8, <1>16, <2>3
<1> HIDE DEF Resting
<1>18. OneEach(Resting')
  BY <1>8, <1>16
<1>19. WorkIsNew'
  BY <1>1, <1>8, <1>16 DEF WorkIsNew
<1> QED
  BY <1>17, <1>18, <1>19

(* An order that leaves the book is told by its identifier.                *)
LEMMA LeavingTells ==
  ASSUME BookType(Resting), OneEach(Resting),
         NEW s \in Sides, NEW p \in Prices, NEW i \in DOMAIN Resting[s][p],
         Resting' = [Resting EXCEPT ![s][p] = Without(Resting[s][p], i)],
         ev'.type \in {"CancelAccepted", "LevelExpired"}, ev'.id = Resting[s][p][i].id
  PROVE  OneEach(Resting') /\ StillTold /\ \A id : IsIn(Resting', id) => IsIn(Resting, id)
<1>1. PICK R, T : R = Resting /\ T = Resting'
  OBVIOUS
<1>2. PICK q, gone : q = Without(R[s][p], i) /\ gone = R[s][p][i].id
  OBVIOUS
<1>3. /\ T[s][p] = Without(R[s][p], i)
      /\ \A s1 \in Sides, p1 \in Prices : s1 # s \/ p1 # p => T[s1][p1] = R[s1][p1]
  <2>1. T = [R EXCEPT ![s][p] = q]
    BY <1>1, <1>2
  <2>2. /\ T[s][p] = q
        /\ \A s1 \in Sides, p1 \in Prices : s1 # s \/ p1 # p => T[s1][p1] = R[s1][p1]
    <3>1. R = [s1 \in Sides |-> [p1 \in Prices |-> R[s1][p1]]]
      BY <1>1, BookShape
    <3> QED
      BY <2>1, <3>1
  <2> QED
    BY <1>2, <2>2
<1>4. BookType(R) /\ OneEach(R) /\ i \in DOMAIN R[s][p]
  BY <1>1
<1>5. /\ OneEach(T) /\ \A id : IsIn(T, id) => IsIn(R, id)
      /\ \A F : Tells(F, R) => Tells([F EXCEPT ![gone] = 0], T)
  BY <1>2, <1>3, <1>4, OneLeaves
<1>6. ev'.id = gone
  BY <1>1, <1>2
<1>7. \A F : After(ev', F) = [F EXCEPT ![gone] = 0]
  BY <1>6, AfterIs
<1> QED
  BY <1>1, <1>5, <1>7 DEF StillTold

(* LevelExpired names the order that leaves with its level.                *)
LEMMA ExpireTells ==
  ASSUME IInv, OneEach(Resting), WorkIsNew, Expire
  PROVE  OneEach(Resting') /\ WorkIsNew' /\ StillTold
<1>1. Fits /\ LevelsGood /\ CallType /\ pc = "shift" /\ req' = req
  BY Apart DEF Expire, Reached, callVars
<1>2. PICK s \in Sides :
        /\ Abstract!Occupied(s) # {}
        /\ ev' = LevelExpired(Abstract!Worst(s), Head(Resting[s][Abstract!Worst(s)]).id)
        /\ Resting' = [Resting EXCEPT ![s][Abstract!Worst(s)] = Tail(Resting[s][Abstract!Worst(s)])]
  <2>1. Abstract!Expire
    BY ExpireRefines
  <2> HIDE DEF Resting
  <2> QED
    BY <2>1, AbstractNames, AbstractEvents DEF Abstract!Expire
<1>3. PICK p : p = Abstract!Worst(s)
  OBVIOUS
<1>4. p \in Prices /\ Resting[s][p] # <<>>
  <2>1. Abstract!Occupied(s) \in SUBSET Prices
    BY DEF Abstract!Occupied
  <2>2. Prices \in SUBSET Nat /\ Prices \in SUBSET (0 .. MaxPrice) /\ MaxPrice \in Nat
    BY Constants DEF Prices
  <2>3. Min(Abstract!Occupied(s)) \in Abstract!Occupied(s) /\ Max(Abstract!Occupied(s)) \in Abstract!Occupied(s)
    BY <1>2, <2>1, <2>2, MinIs, MaxIs
  <2>4. p \in Abstract!Occupied(s)
    BY <1>3, <2>3, AbstractNames DEF Abstract!Worst
  <2> QED
    BY <2>4 DEF Abstract!Occupied
<1>5. PICK q : q = Resting[s][p]
  OBVIOUS
<1>6. BookType(Resting)
  BY <1>1, RestingTyped
<1>7. q \in Seq(ShownOrders) /\ q # <<>> /\ 1 \in DOMAIN q /\ 1 \in 1 .. Len(q) /\ Head(q) = q[1]
  <2>1. q \in Seq(ShownOrders) /\ q # <<>>
    BY <1>4, <1>5, <1>6, OrderIn
  <2> QED
    BY <2>1
<1>8. Resting' = [Resting EXCEPT ![s][p] = Without(Resting[s][p], 1)]
  <2>1. Tail(q) = Without(q, 1)
    BY <1>7, TailIsWithout
  <2> HIDE DEF Resting
  <2> QED
    BY <1>2, <1>3, <1>5, <2>1
<1>9. ev'.type \in {"CancelAccepted", "LevelExpired"} /\ ev'.id = Resting[s][p][1].id
  BY <1>2, <1>3, <1>5, <1>7 DEF LevelExpired
<1>10. OneEach(Resting') /\ StillTold /\ \A id : IsIn(Resting', id) => IsIn(Resting, id)
  <2> HIDE DEF Resting
  <2> QED
    BY <1>4, <1>5, <1>6, <1>7, <1>8, <1>9, LeavingTells
<1> QED
  BY <1>1, <1>10 DEF WorkIsNew

(* LevelsCreated tells of no order.                                        *)
LEMMA MoveWindowTells ==
  ASSUME IInv, OneEach(Resting), WorkIsNew, MoveWindow
  PROVE  OneEach(Resting') /\ WorkIsNew' /\ StillTold
<1>1. pc = "shift" /\ req' = req
  BY DEF MoveWindow, Reached
<1>2. Resting' = Resting /\ ev'.type = "LevelsCreated"
  BY MoveWindowRefines DEF Abstract!Recentre
<1>3. StillTold /\ OneEach(Resting')
  BY <1>2, NothingNew
<1> HIDE DEF Resting
<1>4. WorkIsNew'
  BY <1>1, <1>2 DEF WorkIsNew
<1> QED
  BY <1>3, <1>4

(* CreateAccepted tells the quantity that is left, and that rests.         *)
LEMMA RestTells ==
  ASSUME RInv, OneEach(Resting), WorkIsNew, Rest
  PROVE  OneEach(Resting') /\ WorkIsNew' /\ StillTold
<1>1. IInv /\ Fits /\ LevelsGood /\ CallType /\ pc = "rest" /\ pc' = "idle" /\ ev = None
  BY Apart DEF RInv, Rest, Reached
<1>2. /\ Taker.side = req.side /\ Taker.id = req.id /\ Taker.price = req.price /\ Taker.left = left
  BY <1>1, TakerIs
<1>3. WorkIsNew'
  BY <1>1 DEF WorkIsNew
<1>4. CASE Abstract!Finish \/ Abstract!Return
  <2>1. Resting' = Resting /\ ev'.type \in {"None", "CreateRejected"}
    BY <1>1, <1>4 DEF Abstract!Finish, Abstract!Return, None
  <2> QED
    BY <1>3, <2>1, NothingNew
<1>5. CASE Abstract!RestOrder
  <2>1. PICK s, p, id, qty : s = req.side /\ p = req.price /\ id = req.id /\ qty = left
    OBVIOUS
  <2>2. s \in Sides /\ p \in Prices /\ id \in Ids /\ qty \in 1 .. MaxQty /\ ~ IsIn(Resting, id)
    <3>1. left \in Nat /\ left <= MaxQty /\ left > 0
      BY <1>1, <1>2, <1>5, Constants DEF CallType, Abstract!RestOrder
    <3> QED
      BY <1>1, <2>1, <3>1, RequestType, Constants DEF Trading, WorkIsNew
  <2>3. /\ ev'.type = "CreateAccepted" /\ ev'.id = id /\ ev'.qty = qty
        /\ Resting' = [Resting EXCEPT ![s][p] = Append(Resting[s][p], [id |-> id, qty |-> qty])]
    <3> HIDE DEF Resting, Taker
    <3> QED
      BY <1>2, <1>5, <2>1 DEF Abstract!RestOrder
  <2>4. PICK R, T : R = Resting /\ T = Resting'
    OBVIOUS
  <2>5. /\ T[s][p] = Append(R[s][p], [id |-> id, qty |-> qty])
        /\ \A s1 \in Sides, p1 \in Prices : s1 # s \/ p1 # p => T[s1][p1] = R[s1][p1]
    <3>1. PICK q : q = Append(R[s][p], [id |-> id, qty |-> qty])
      OBVIOUS
    <3>2. T = [R EXCEPT ![s][p] = q]
      BY <2>3, <2>4, <3>1
    <3>3. /\ T[s][p] = q
          /\ \A s1 \in Sides, p1 \in Prices : s1 # s \/ p1 # p => T[s1][p1] = R[s1][p1]
      <4>1. R = [s1 \in Sides |-> [p1 \in Prices |-> R[s1][p1]]]
        BY <2>4, BookShape
      <4> QED
        BY <2>2, <3>2, <4>1
    <3> QED
      BY <3>1, <3>3
  <2>6. BookType(R) /\ OneEach(R) /\ ~ IsIn(R, id)
    BY <1>1, <2>2, <2>4, RestingTyped
  <2>7. OneEach(T) /\ \A F : Tells(F, R) => Tells([F EXCEPT ![id] = qty], T)
    BY <2>2, <2>5, <2>6, OneJoins
  <2>8. \A F : After(ev', F) = [F EXCEPT ![id] = qty]
    BY <2>3, AfterIs
  <2> QED
    BY <1>3, <2>4, <2>7, <2>8 DEF StillTold
<1> QED
  BY <1>4, <1>5, RestRefines

(* Whatever the engine does inside a request, it tells.                    *)
LEMMA EngineTells ==
  ASSUME RInv, OneEach(Resting), WorkIsNew, Engine
  PROVE  OneEach(Resting') /\ WorkIsNew' /\ StillTold
<1>1. IInv
  BY DEF RInv
<1>2. CASE Match \/ KeepWindow
  <2>1. UNCHANGED bookVars /\ ev' = None /\ pc # "idle" /\ req' = req
    BY <1>2 DEF Match, KeepWindow, Reached
  <2>2. Resting' = Resting
    BY <2>1, RestingStays
  <2>3. ev'.type = "None"
    BY <2>1 DEF None
  <2>4. StillTold /\ OneEach(Resting')
    BY <2>2, <2>3, NothingNew
  <2>5. WorkIsNew'
    <3> HIDE DEF Resting
    <3> QED
      BY <2>1, <2>2 DEF WorkIsNew
  <2> QED
    BY <2>4, <2>5
<1> QED
  BY <1>1, <1>2, FillTells, ExpireTells, MoveWindowTells, RestTells DEF Engine

-----------------------------------------------------------------------------
(* The client's calls.                                                     *)

(* CancelAccepted names the order that leaves.                             *)
LEMMA CancelTells ==
  ASSUME IInv, OneEach(Resting), NEW side \in Sides, NEW price \in ClientPrices, NEW id \in Ids,
         Cancel(side, id, price, NoSlot)
  PROVE  OneEach(Resting') /\ WorkIsNew' /\ StillTold
<1>1. Fits /\ LevelsGood /\ CallType /\ pc = "idle" /\ pc' = "idle"
  BY Apart DEF Cancel, Ready, callVars
<1>2. WorkIsNew'
  BY <1>1 DEF WorkIsNew
<1>3. price \in Prices
  BY TradeEngineAssumption DEF Prices
<1>4. CASE Abstract!Refuse
  <2>1. Resting' = Resting /\ ev'.type \in {"CreateRejected", "UpdateRejected", "CancelRejected"}
    BY <1>4 DEF Abstract!Refuse
  <2> QED
    BY <1>2, <2>1, NothingNew
<1>5. CASE Abstract!Cancel
  <2>1. PICK s \in Sides, p \in Prices : \E i \in DOMAIN Resting[s][p] :
          /\ ev' = CancelAccepted(Resting[s][p][i].id)
          /\ Resting' = [Resting EXCEPT ![s][p] = Without(Resting[s][p], i)]
    <3> HIDE DEF Resting
    <3> QED
      BY <1>5, AbstractNames, AbstractEvents DEF Abstract!Cancel, Without
  <2>2. PICK i \in DOMAIN Resting[s][p] :
          /\ ev' = CancelAccepted(Resting[s][p][i].id)
          /\ Resting' = [Resting EXCEPT ![s][p] = Without(Resting[s][p], i)]
    BY <2>1
  <2>3. ev'.type \in {"CancelAccepted", "LevelExpired"} /\ ev'.id = Resting[s][p][i].id
    BY <2>2 DEF CancelAccepted
  <2>4. BookType(Resting)
    BY <1>1, RestingTyped
  <2> HIDE DEF Resting
  <2> QED
    BY <1>2, <2>2, <2>3, <2>4, LeavingTells
<1> QED
  BY <1>3, <1>4, <1>5, CancelRefines

(* A new order is nowhere in the book while the engine works on it.        *)
LEMMA InsertTells ==
  ASSUME RInv, OneEach(Resting), NEW side \in Sides, NEW price \in ClientPrices, NEW id \in Ids,
         NEW kind \in {"limit", "ioc", "fok"}, NEW qty \in Qtys,
         Insert(kind, side, id, price, qty), ~ Live(id)
  PROVE  OneEach(Resting') /\ WorkIsNew' /\ StillTold
<1>1. IInv /\ CallType /\ pc = "idle" /\ ev = None
  BY Apart DEF RInv, Insert, Ready
<1>2. ~ IsIn(Resting, id)
  BY <1>1, LiveIs
<1>3. CASE Refuse(CreateRejected(id, qty, "Request")) \/ Refuse(CreateRejected(id, qty, "FOK"))
  <2>1. Resting' = Resting /\ pc' = "idle"
    BY <1>1, <1>3, RestingStays DEF Refuse, Reject, callVars
  <2>2. ev'.type = "CreateRejected"
    BY <1>3 DEF Refuse, Reject, CreateRejected
  <2>3. WorkIsNew'
    BY <2>1 DEF WorkIsNew
  <2> QED
    BY <2>1, <2>2, <2>3, NothingNew
<1>4. CASE BeginTrade(kind, side, id, price, qty)
  <2>1. req'.id = id /\ UNCHANGED bookVars /\ ev' = None
    BY <1>1, <1>4 DEF BeginTrade
  <2>2. Resting' = Resting
    BY <2>1, RestingStays
  <2>3. ev'.type = "None"
    BY <2>1 DEF None
  <2>4. StillTold /\ OneEach(Resting')
    BY <2>2, <2>3, NothingNew
  <2>5. WorkIsNew'
    <3> HIDE DEF Resting
    <3> QED
      BY <1>2, <2>1, <2>2 DEF WorkIsNew
  <2> QED
    BY <2>4, <2>5
<1> QED
  BY <1>3, <1>4 DEF Insert

-----------------------------------------------------------------------------
(* What a reader is going to see.                                          *)

(* The views that a sequence of events makes of a first one.               *)
Trail(f, S, v) ==
  /\ f = [k \in 0 .. Len(S) |-> f[k]]
  /\ f[0] = v /\ \A k \in 1 .. Len(S) : f[k] = After(S[k], f[k - 1])

(* Any events, from any view: there is a trail of views after each.        *)
LEMMA TrailExists ==
  ASSUME NEW S, Len(S) \in Nat, NEW v
  PROVE  \E f : Trail(f, S, v)
<1> DEFINE Partial(f, n) == /\ f = [k \in 0 .. n |-> f[k]]
                            /\ f[0] = v /\ \A k \in 1 .. n : f[k] = After(S[k], f[k - 1])
           N == {n \in Nat : \E f : Partial(f, n)}
<1>1. 0 \in N
  <2>1. Partial([k \in 0 .. 0 |-> v], 0)
    OBVIOUS
  <2> QED
    BY <2>1
<1>2. ASSUME NEW n \in 0 .. Len(S) - 1, n \in N
      PROVE  n + 1 \in N
  <2>1. PICK f : Partial(f, n)
    BY <1>2
  <2>2. PICK last : last = After(S[n + 1], f[n])
    OBVIOUS
  <2> DEFINE g == [k \in 0 .. n + 1 |-> IF k = n + 1 THEN last ELSE f[k]]
  <2>3. n \in Nat
    OBVIOUS
  <2>4. g = [k \in 0 .. n + 1 |-> g[k]] /\ g[0] = v
    BY <2>1, <2>3
  <2>5. ASSUME NEW k \in 1 .. n + 1
        PROVE  g[k] = After(S[k], g[k - 1])
    <3>1. CASE k = n + 1
      <4>1. g[k] = last /\ g[k - 1] = f[n]
        BY <2>3, <3>1
      <4> QED
        BY <2>2, <3>1, <4>1
    <3>2. CASE k # n + 1
      <4>1. k \in 1 .. n /\ k - 1 \in 0 .. n + 1 /\ k - 1 # n + 1 /\ k \in 0 .. n + 1
        BY <2>3, <3>2
      <4>2. g[k] = f[k] /\ g[k - 1] = f[k - 1]
        BY <3>2, <4>1
      <4> QED
        BY <2>1, <4>1, <4>2
    <3> QED
      BY <3>1, <3>2
  <2> HIDE DEF g
  <2>6. Partial(g, n + 1)
    BY <2>4, <2>5
  <2> HIDE DEF Partial
  <2>7. n + 1 \in Nat /\ \E h : Partial(h, n + 1)
    BY <2>3, <2>6
  <2> QED
    BY <2>7
<1>3. Len(S) \in 0 .. Len(S)
  OBVIOUS
<1>4. Len(S) \in N
  <2> HIDE DEF N
  <2> QED
    BY <1>1, <1>2, <1>3, UpTo
<1> QED
  BY <1>4 DEF Trail

(* Two trails of which one's events go on as the other's.                  *)
LEMMA TrailsAgree ==
  ASSUME NEW S, NEW T, Len(S) \in Nat, Len(T) \in Nat, Len(S) <= Len(T), \A k \in 1 .. Len(S) : S[k] = T[k],
         NEW v, NEW f, NEW g, Trail(f, S, v), Trail(g, T, v)
  PROVE  \A k \in 0 .. Len(S) : f[k] = g[k]
<1> DEFINE N == {k \in Nat : f[k] = g[k]}
<1>1. 0 \in N
  BY DEF Trail
<1>2. ASSUME NEW k \in 0 .. Len(S) - 1, k \in N
      PROVE  k + 1 \in N
  <2>1. k + 1 \in 1 .. Len(S) /\ k + 1 \in 1 .. Len(T) /\ (k + 1) - 1 = k /\ k + 1 \in Nat
    OBVIOUS
  <2>2. f[k + 1] = After(S[k + 1], f[k]) /\ g[k + 1] = After(T[k + 1], g[k]) /\ S[k + 1] = T[k + 1]
    BY <2>1 DEF Trail
  <2> QED
    BY <1>2, <2>1, <2>2
<1>3. \A k \in 0 .. Len(S) : k \in N
  <2> HIDE DEF N
  <2> QED
    BY <1>1, <1>2, UpTo
<1> QED
  BY <1>3

(* When an event has been read, the trail is one shorter.                  *)
LEMMA TrailsTail ==
  ASSUME NEW S, Len(S) \in Nat \ {0}, NEW T, Len(T) = Len(S) - 1, \A k \in 1 .. Len(T) : T[k] = S[k + 1],
         NEW v, NEW w, w = After(S[1], v), NEW f, NEW g, Trail(f, S, v), Trail(g, T, w)
  PROVE  \A k \in 0 .. Len(T) : g[k] = f[k + 1]
<1> DEFINE N == {k \in Nat : g[k] = f[k + 1]}
<1>1. 0 \in N
  <2>1. 1 \in 1 .. Len(S)
    OBVIOUS
  <2>2. f[1] = After(S[1], f[1 - 1]) /\ f[0] = v /\ g[0] = w
    BY <2>1 DEF Trail
  <2> QED
    BY <2>2
<1>2. ASSUME NEW k \in 0 .. Len(T) - 1, k \in N
      PROVE  k + 1 \in N
  <2>1. /\ k + 1 \in 1 .. Len(T) /\ (k + 1) + 1 \in 1 .. Len(S) /\ (k + 1) - 1 = k /\ k + 1 \in Nat
        /\ ((k + 1) + 1) - 1 = k + 1
    OBVIOUS
  <2>2. g[k + 1] = After(T[k + 1], g[k]) /\ f[(k + 1) + 1] = After(S[(k + 1) + 1], f[k + 1])
    BY <2>1 DEF Trail
  <2> QED
    BY <1>2, <2>1, <2>2
<1>3. \A k \in 0 .. Len(T) : k \in N
  <2> HIDE DEF N
  <2>1. Len(T) \in Nat
    OBVIOUS
  <2> QED
    BY <1>1, <1>2, <2>1, UpTo
<1> QED
  BY <1>3

(* The trail that the recursive function makes.                            *)
Made(S, v) == CHOOSE h : h = [k \in 0 .. Len(S) |-> IF k = 0 THEN v ELSE After(S[k], h[k - 1])]

(* It is the one that the recursive function defines.                      *)
LEMMA MadeIs ==
  ASSUME NEW S, Len(S) \in Nat, NEW v
  PROVE  Trail(Made(S, v), S, v)
<1> DEFINE IsOne(h) == h = [k \in 0 .. Len(S) |-> IF k = 0 THEN v ELSE After(S[k], h[k - 1])]
           u == CHOOSE h : IsOne(h)
<1>1. PICK f : Trail(f, S, v)
  BY TrailExists
<1>2. IsOne(f)
  BY <1>1 DEF Trail
<1>3. Made(S, v) = u
  BY Zenon DEF Made
<1>4. u = [k \in 0 .. Len(S) |-> IF k = 0 THEN v ELSE After(S[k], u[k - 1])]
  BY <1>2, Zenon
<1> HIDE DEF u
<1>5. Trail(u, S, v)
  BY <1>4 DEF Trail
<1> QED
  BY <1>3, <1>5, Zenon

(* Seen is the trail of the events on their way.                           *)
LEMMA SeenIs == Seen = Made(InFlight, view) /\ Seen' = Made(InFlight', view')
BY Zenon DEF Seen, Made

(* The events on their way.                                                *)
OnTheirWay(q, e) == IF e = None THEN q ELSE Append(q, e)

LEMMA InFlightIs == InFlight = OnTheirWay(queue, ev) /\ InFlight' = OnTheirWay(queue', ev')
BY DEF InFlight, OnTheirWay

(* How many they are, and which.                                           *)
LEMMA EventsAre ==
  ASSUME NEW E, NEW q \in Seq(E), NEW e
  PROVE  /\ Len(OnTheirWay(q, e)) = IF e = None THEN Len(q) ELSE Len(q) + 1
         /\ \A k \in 1 .. Len(q) : OnTheirWay(q, e)[k] = q[k]
         /\ e # None => OnTheirWay(q, e)[Len(q) + 1] = e
         /\ Len(q) \in Nat /\ Len(OnTheirWay(q, e)) \in Nat
<1>1. PICK D : D = E \cup {e}
  OBVIOUS
<1>2. q \in Seq(D) /\ e \in D
  BY <1>1
<1>3. /\ Len(Append(q, e)) = Len(q) + 1 /\ Append(q, e)[Len(q) + 1] = e
      /\ \A k \in 1 .. Len(q) : Append(q, e)[k] = q[k]
      /\ Len(q) \in Nat
  BY <1>2
<1> QED
  BY <1>3 DEF OnTheirWay

(* A sequence is one of its elements.                                      *)
LEMMA SeqOfElements ==
  ASSUME NEW E, NEW q \in Seq(E)
  PROVE  q \in Seq({q[i] : i \in DOMAIN q})
<1>1. Len(q) \in Nat /\ q = [i \in 1 .. Len(q) |-> q[i]] /\ DOMAIN q = 1 .. Len(q)
  OBVIOUS
<1>2. q \in [1 .. Len(q) -> {q[i] : i \in DOMAIN q}]
  BY <1>1
<1> QED
  BY <1>1, <1>2

(* The inductive invariant of the stream: a sound engine, and a reader who *)
(* will have seen, at the end of what is on its way, what is in the book.  *)
StreamInv ==
  /\ RInv
  /\ OneEach(Resting) /\ WorkIsNew
  /\ queue \in Seq({queue[i] : i \in DOMAIN queue}) /\ Len(queue) <= QueueSize
  /\ \A k \in 0 .. Len(InFlight) : Seen[k] \in [Ids -> 0 .. MaxQty]
  /\ Tells(Foreseen, Resting)

(* A step of the thread that trades puts at most one event on its way.     *)
LEMMA StepKeepsStream ==
  ASSUME StreamInv, ev = None, queue' = queue, view' = view,
         RInv', OneEach(Resting'), WorkIsNew', StillTold
  PROVE  StreamInv'
<1>1. PICK E, q, v, e : E = {queue[i] : i \in DOMAIN queue} /\ q = queue /\ v = view /\ e = ev'
  OBVIOUS
<1>2. PICK n, S, T : n = Len(q) /\ S = OnTheirWay(q, None) /\ T = OnTheirWay(q, e)
  OBVIOUS
<1>3. InFlight = S /\ InFlight' = T
  BY <1>1, <1>2, InFlightIs
<1>4. q \in Seq(E)
  BY <1>1 DEF StreamInv
<1>5. /\ n \in Nat /\ Len(S) = n /\ Len(T) = (IF e = None THEN n ELSE n + 1) /\ Len(T) \in Nat
      /\ \A k \in 1 .. n : S[k] = T[k]
      /\ e # None => T[n + 1] = e
  BY <1>2, <1>4, EventsAre
<1>6. PICK f, g : f = Made(S, v) /\ g = Made(T, v)
  OBVIOUS
<1>7. Seen = f /\ Seen' = g
  BY <1>1, <1>3, <1>6, SeenIs
<1>8. Trail(f, S, v) /\ Trail(g, T, v)
  BY <1>5, <1>6, MadeIs
<1>9. \A k \in 0 .. n : f[k] = g[k]
  <2>1. Len(S) \in Nat /\ Len(T) \in Nat /\ Len(S) <= Len(T) /\ \A k \in 1 .. Len(S) : S[k] = T[k]
    BY <1>5
  <2>2. \A k \in 0 .. Len(S) : f[k] = g[k]
    BY <1>8, <2>1, TrailsAgree
  <2> QED
    BY <1>5, <2>2
<1>10. Foreseen = f[n] /\ Foreseen' = g[Len(T)]
  BY <1>3, <1>5, <1>7 DEF Foreseen
<1>11. g[Len(T)] = After(e, f[n])
  <2>1. CASE e = None
    <3>1. After(e, f[n]) = f[n]
      BY <2>1, AfterIs DEF None
    <3> QED
      BY <1>5, <1>9, <2>1, <3>1
  <2>2. CASE e # None
    <3>1. n + 1 \in 1 .. Len(T) /\ (n + 1) - 1 = n /\ n \in 0 .. n
      BY <1>5, <2>2
    <3>2. g[n + 1] = After(T[n + 1], g[n])
      BY <1>8, <3>1 DEF Trail
    <3> QED
      BY <1>5, <1>9, <2>2, <3>1, <3>2
  <2> QED
    BY <2>1, <2>2
<1>12. Tells(Foreseen', Resting')
  BY <1>1, <1>10, <1>11 DEF StreamInv, StillTold
<1>13. \A k \in 0 .. Len(T) : g[k] \in [Ids -> 0 .. MaxQty]
  <2> SUFFICES ASSUME NEW k \in 0 .. Len(T)
               PROVE  g[k] \in [Ids -> 0 .. MaxQty]
    OBVIOUS
  <2>1. CASE k = Len(T)
    BY <1>10, <1>12, <2>1 DEF Tells
  <2>2. CASE k # Len(T)
    <3>1. k \in 0 .. n
      BY <1>5, <2>2
    <3>2. \A j \in 0 .. n : f[j] \in [Ids -> 0 .. MaxQty]
      BY <1>3, <1>5, <1>7 DEF StreamInv
    <3> QED
      BY <1>9, <3>1, <3>2
  <2> QED
    BY <2>1, <2>2
<1>14. queue' \in Seq({queue'[i] : i \in DOMAIN queue'}) /\ Len(queue') <= QueueSize
  BY DEF StreamInv
<1>15. \A k \in 0 .. Len(InFlight') : Seen'[k] \in [Ids -> 0 .. MaxQty]
  BY <1>3, <1>7, <1>13
<1> QED
  BY <1>12, <1>14, <1>15 DEF StreamInv

(* The step that takes an event from the engine into the queue.            *)
LEMMA PushKeepsStream ==
  ASSUME StreamInv, Push, RInv'
  PROVE  StreamInv'
<1>1. /\ ev # None /\ ev' = None /\ Len(queue) # QueueSize /\ queue' = Append(queue, ev)
      /\ view' = view /\ pc' = pc /\ req' = req /\ Resting' = Resting
  BY RestingStays DEF Push, QueueFull, callVars
<1>2. InFlight' = InFlight
  BY <1>1 DEF InFlight
<1>3. Seen' = Seen /\ Foreseen' = Foreseen
  BY <1>1, <1>2, SeenIs DEF Foreseen
<1>4. PICK E, q, e : E = {queue[i] : i \in DOMAIN queue} /\ q = queue /\ e = ev
  OBVIOUS
<1>5. q \in Seq(E) /\ Len(q) <= QueueSize /\ Len(q) # QueueSize
  BY <1>1, <1>4 DEF StreamInv
<1>6. Append(q, e) \in Seq(E \cup {e}) /\ Len(Append(q, e)) <= QueueSize
  BY <1>5, EventStreamAssumption
<1>7. queue' \in Seq({queue'[i] : i \in DOMAIN queue'}) /\ Len(queue') <= QueueSize
  BY <1>1, <1>4, <1>6, SeqOfElements
<1>8. OneEach(Resting') /\ WorkIsNew' /\ Tells(Foreseen', Resting')
  <2> HIDE DEF Resting
  <2> QED
    BY <1>1, <1>3 DEF StreamInv, WorkIsNew
<1>9. \A k \in 0 .. Len(InFlight') : Seen'[k] \in [Ids -> 0 .. MaxQty]
  BY <1>2, <1>3 DEF StreamInv
<1> QED
  BY <1>7, <1>8, <1>9 DEF StreamInv

(* The step that takes one from the queue to the reader.                   *)
LEMMA PopKeepsStream ==
  ASSUME StreamInv, Pop, RInv'
  PROVE  StreamInv'
<1>1. /\ queue # <<>> /\ queue' = Tail(queue) /\ view' = After(Head(queue), view)
      /\ UNCHANGED bookVars /\ ev' = ev /\ pc' = pc /\ req' = req /\ Resting' = Resting
  BY RestingStays DEF Pop, vars, callVars
<1>2. PICK E, q, v, e : E = {queue[i] : i \in DOMAIN queue} /\ q = queue /\ v = view /\ e = ev
  OBVIOUS
<1>3. PICK n, r, S, T : n = Len(q) /\ r = Tail(q) /\ S = OnTheirWay(q, e) /\ T = OnTheirWay(r, e)
  OBVIOUS
<1>4. InFlight = S /\ InFlight' = T
  BY <1>1, <1>2, <1>3, InFlightIs
<1>5. /\ q \in Seq(E) /\ q # <<>> /\ n \in Nat \ {0} /\ n <= QueueSize /\ Head(q) = q[1]
      /\ r \in Seq(E) /\ Len(r) = n - 1 /\ \A k \in 1 .. n - 1 : r[k] = q[k + 1]
  <2>1. q \in Seq(E) /\ q # <<>> /\ Len(q) <= QueueSize
    BY <1>1, <1>2 DEF StreamInv
  <2> QED
    BY <1>3, <2>1
<1>6. /\ Len(S) = (IF e = None THEN n ELSE n + 1) /\ Len(T) = (IF e = None THEN n - 1 ELSE n)
      /\ \A k \in 1 .. n : S[k] = q[k]
      /\ e # None => S[n + 1] = e
      /\ \A k \in 1 .. n - 1 : T[k] = r[k]
      /\ e # None => T[n] = e
  <2>1. /\ Len(S) = (IF e = None THEN n ELSE n + 1)
        /\ \A k \in 1 .. n : S[k] = q[k]
        /\ e # None => S[n + 1] = e
    BY <1>3, <1>5, EventsAre
  <2>2. r \in Seq(E) /\ T = OnTheirWay(r, e)
    BY <1>3, <1>5
  <2>3. /\ Len(T) = (IF e = None THEN Len(r) ELSE Len(r) + 1)
        /\ \A k \in 1 .. Len(r) : T[k] = r[k]
        /\ e # None => T[Len(r) + 1] = e
    BY <2>2, EventsAre
  <2>4. Len(r) = n - 1 /\ Len(r) + 1 = n
    BY <1>5
  <2> QED
    BY <2>1, <2>3, <2>4
<1>7. Len(S) \in Nat \ {0} /\ Len(T) \in Nat /\ Len(T) = Len(S) - 1 /\ S[1] = Head(q)
  BY <1>5, <1>6
<1>8. ASSUME NEW k \in 1 .. Len(T)
      PROVE  T[k] = S[k + 1]
  <2>1. CASE k \in 1 .. n - 1
    <3>1. k + 1 \in 1 .. n
      BY <1>5, <2>1
    <3> QED
      BY <1>5, <1>6, <2>1, <3>1
  <2>2. CASE k \notin 1 .. n - 1
    <3>1. k = n /\ e # None
      BY <1>5, <1>6, <2>2
    <3> QED
      BY <1>6, <3>1
  <2> QED
    BY <2>1, <2>2
<1>9. PICK w, f, g : w = After(S[1], v) /\ f = Made(S, v) /\ g = Made(T, w)
  OBVIOUS
<1>10. Seen = f /\ Seen' = g
  <2>1. view' = w
    BY <1>1, <1>2, <1>7, <1>9
  <2> QED
    BY <1>2, <1>4, <1>9, <2>1, SeenIs
<1>11. Trail(f, S, v) /\ Trail(g, T, w)
  BY <1>7, <1>9, MadeIs
<1>12. \A k \in 0 .. Len(T) : g[k] = f[k + 1]
  BY <1>7, <1>8, <1>9, <1>11, TrailsTail
<1>13. Foreseen = f[Len(S)] /\ Foreseen' = g[Len(T)] /\ Foreseen' = Foreseen
  <2>1. Len(T) \in 0 .. Len(T) /\ Len(T) + 1 = Len(S)
    BY <1>7
  <2> QED
    BY <1>4, <1>10, <1>12, <2>1 DEF Foreseen
<1>14. \A k \in 0 .. Len(T) : g[k] \in [Ids -> 0 .. MaxQty]
  <2>1. \A k \in 0 .. Len(S) : f[k] \in [Ids -> 0 .. MaxQty]
    BY <1>4, <1>10 DEF StreamInv
  <2>2. \A k \in 0 .. Len(T) : k + 1 \in 0 .. Len(S)
    BY <1>7
  <2> QED
    BY <1>12, <2>1, <2>2
<1>15. \A k \in 0 .. Len(InFlight') : Seen'[k] \in [Ids -> 0 .. MaxQty]
  BY <1>4, <1>10, <1>14
<1>16. queue' \in Seq({queue'[i] : i \in DOMAIN queue'}) /\ Len(queue') <= QueueSize
  <2>1. queue' = r /\ Len(r) <= QueueSize
    BY <1>1, <1>2, <1>3, <1>5, EventStreamAssumption
  <2>2. r \in Seq({r[i] : i \in DOMAIN r})
    BY <1>5, SeqOfElements
  <2> QED
    BY <2>1, <2>2
<1>17. OneEach(Resting') /\ WorkIsNew' /\ Tells(Foreseen', Resting')
  <2> HIDE DEF Resting
  <2> QED
    BY <1>1, <1>13 DEF StreamInv, WorkIsNew
<1> QED
  BY <1>15, <1>16, <1>17 DEF StreamInv

(* The stream's steps are steps of the engine, or none.                    *)
LEMMA StreamSteps ==
  ASSUME [StreamNext]_streamVars
  PROVE  [Next]_vars
<1>1. CASE Call
  <2>1. PICK side \in Sides, price \in ClientPrices, id \in Ids :
          IF Live(id) THEN Cancel(side, id, price, NoSlot)
          ELSE \E kind \in Requests \ {"update", "cancel"}, qty \in Qtys : Insert(kind, side, id, price, qty)
    BY <1>1 DEF Call
  <2>2. CASE Live(id)
    <3>1. Amend
      BY <2>1, <2>2 DEF Amend
    <3> QED
      BY <3>1 DEF Next
  <2>3. CASE ~ Live(id)
    <3>1. PICK kind \in Requests \ {"update", "cancel"}, qty \in Qtys : Insert(kind, side, id, price, qty)
      BY <2>1, <2>3
    <3>2. kind \in {"limit", "ioc", "fok"}
      BY TradeEngineAssumption DEF Kinds
    <3>3. PICK r : r = <<id, price, qty>>
      OBVIOUS
    <3>4. r \in WellFormed /\ r[1] = id /\ r[2] = price /\ r[3] = qty
      BY <2>3, <3>3 DEF WellFormed
    <3>5. Insert(kind, side, r[1], r[2], r[3])
      BY <3>1, <3>4
    <3>6. Create
      BY <3>2, <3>4, <3>5 DEF Create
    <3> QED
      BY <3>6 DEF Next
  <2> QED
    BY <2>2, <2>3
<1>2. CASE Work
  BY <1>2 DEF Work, Next
<1>3. CASE Push
  BY <1>3 DEF Push, Pushed, Next
<1>4. CASE Retry \/ Pop \/ UNCHANGED streamVars
  BY <1>4 DEF Retry, Pop, streamVars
<1> QED
  BY <1>1, <1>2, <1>3, <1>4 DEF StreamNext

(* A step of the engine, of its client, of the queue or of the reader.     *)
LEMMA StreamStep ==
  ASSUME StreamInv, [StreamNext]_streamVars
  PROVE  StreamInv'
<1>1. RInv /\ IInv /\ OneEach(Resting) /\ WorkIsNew
  BY DEF StreamInv, RInv
<1>2. RInv'
  BY <1>1, StreamSteps, StepCovered
<1>3. CASE Call
  <2>1. queue' = queue /\ view' = view
    BY <1>3 DEF Call
  <2>2. PICK side \in Sides, price \in ClientPrices, id \in Ids :
          IF Live(id) THEN Cancel(side, id, price, NoSlot)
          ELSE \E kind \in Requests \ {"update", "cancel"}, qty \in Qtys : Insert(kind, side, id, price, qty)
    BY <1>3 DEF Call
  <2>3. CASE Live(id)
    <3>1. Cancel(side, id, price, NoSlot)
      BY <2>2, <2>3
    <3>2. ev = None
      BY <3>1 DEF Cancel, Ready
    <3> QED
      BY <1>1, <1>2, <2>1, <3>1, <3>2, CancelTells, StepKeepsStream
  <2>4. CASE ~ Live(id)
    <3>1. PICK kind \in Requests \ {"update", "cancel"}, qty \in Qtys : Insert(kind, side, id, price, qty)
      BY <2>2, <2>4
    <3>2. kind \in {"limit", "ioc", "fok"}
      BY TradeEngineAssumption DEF Kinds
    <3>3. ev = None
      BY <3>1 DEF Insert, Ready
    <3> QED
      BY <1>1, <1>2, <2>1, <2>4, <3>1, <3>2, <3>3, InsertTells, StepKeepsStream
  <2> QED
    BY <2>3, <2>4
<1>4. CASE Work
  <2>1. Engine /\ queue' = queue /\ view' = view
    BY <1>4 DEF Work
  <2>2. ev = None
    BY <2>1 DEF Engine, Match, Fill, Expire, MoveWindow, KeepWindow, Rest, Reached
  <2> QED
    BY <1>1, <1>2, <2>1, <2>2, EngineTells, StepKeepsStream
<1>5. CASE Push
  BY <1>2, <1>5, PushKeepsStream
<1>6. CASE Pop
  BY <1>2, <1>6, PopKeepsStream
<1>7. CASE Retry \/ UNCHANGED streamVars
  <2>1. /\ UNCHANGED bookVars /\ ev' = ev /\ queue' = queue /\ view' = view /\ pc' = pc /\ req' = req
    BY <1>7 DEF Retry, streamVars, vars, callVars
  <2>2. Resting' = Resting /\ InFlight' = InFlight
    BY <2>1, RestingStays DEF InFlight
  <2>3. Seen' = Seen /\ Foreseen' = Foreseen
    BY <2>1, <2>2, SeenIs DEF Foreseen
  <2>4. OneEach(Resting') /\ WorkIsNew' /\ Tells(Foreseen', Resting')
    <3> HIDE DEF Resting
    <3> QED
      BY <2>1, <2>2, <2>3 DEF StreamInv, WorkIsNew
  <2>5. /\ queue' \in Seq({queue'[i] : i \in DOMAIN queue'}) /\ Len(queue') <= QueueSize
        /\ \A k \in 0 .. Len(InFlight') : Seen'[k] \in [Ids -> 0 .. MaxQty]
    BY <2>1, <2>2, <2>3 DEF StreamInv
  <2> QED
    BY <1>2, <2>4, <2>5 DEF StreamInv
<1> QED
  BY <1>3, <1>4, <1>5, <1>6, <1>7 DEF StreamNext

(* At the start the book, the queue and the view are empty.                *)
LEMMA StreamStart ==
  ASSUME StreamInit
  PROVE  StreamInv
<1>1. RInv /\ IInv /\ ev = None /\ pc = "idle"
  BY InitCovered DEF StreamInit, Init, RInv
<1>2. \A s \in Sides, p \in Prices : Resting[s][p] = <<>>
  BY InitRefines, AbstractNames DEF StreamInit, Abstract!Init
<1>3. DOMAIN <<>> = {}
  OBVIOUS
<1>4. OneEach(Resting) /\ WorkIsNew
  BY <1>1, <1>2, <1>3 DEF OneEach, WorkIsNew
<1>5. PICK v : v = [id \in Ids |-> 0]
  OBVIOUS
<1>6. v \in [Ids -> 0 .. MaxQty] /\ \A id \in Ids : v[id] = 0
  BY <1>5, Constants
<1>7. Tells(v, Resting)
  BY <1>2, <1>3, <1>6 DEF Tells
<1>8. InFlight = <<>> /\ Len(<<>>) = 0 /\ queue = <<>> /\ view = v
  BY <1>1, <1>5 DEF InFlight, StreamInit
<1>9. Trail(Seen, <<>>, v)
  BY <1>8, SeenIs, MadeIs
<1>10. Seen[0] = v /\ Foreseen = v
  BY <1>8, <1>9 DEF Trail, Foreseen
<1>11. \A k \in 0 .. Len(InFlight) : Seen[k] \in [Ids -> 0 .. MaxQty]
  BY <1>6, <1>8, <1>10
<1>12. queue \in Seq({queue[i] : i \in DOMAIN queue}) /\ Len(queue) <= QueueSize
  <2>1. <<>> \in Seq({})
    OBVIOUS
  <2> QED
    BY <1>8, <2>1, SeqOfElements, EventStreamAssumption
<1> QED
  BY <1>1, <1>4, <1>7, <1>10, <1>11, <1>12 DEF StreamInv

(* The inductive invariant of the engine with its reader.                  *)
THEOREM StreamInvariance == StreamSpec => []StreamInv
<1>1. StreamInit => StreamInv
  BY StreamStart
<1>2. StreamInv /\ [StreamNext]_streamVars => StreamInv'
  BY StreamStep
<1> QED
  BY <1>1, <1>2, PTL DEF StreamSpec

(* Whoever reads the events knows what is in the book: of every order that *)
(* rests there its quantity, and of every other that it does not.          *)
THEOREM ReadersKnow == StreamSpec => []ReaderKnows
<1>1. StreamInv => ReaderKnows
  <2> SUFFICES ASSUME StreamInv
               PROVE  ReaderKnows
    OBVIOUS
  <2>1. IInv /\ Tells(Foreseen, Resting) /\ Len(queue) <= QueueSize
    BY DEF StreamInv, RInv
  <2>2. Len(InFlight) \in Nat
    BY InFlightIs, EventsAre DEF StreamInv
  <2>3. Trail(Seen, InFlight, view)
    BY <2>2, SeenIs, MadeIs
  <2>4. view = Seen[0] /\ 0 \in 0 .. Len(InFlight)
    BY <2>2, <2>3 DEF Trail
  <2>5. view \in [Ids -> 0 .. MaxQty]
    BY <2>4 DEF StreamInv
  <2> QED
    BY <2>1, <2>5, TellsLevels DEF ReaderKnows
<1> QED
  BY <1>1, StreamInvariance, PTL
=============================================================================
