------------------------ MODULE IterProducts_proofs ------------------------
(***************************************************************************)
(* Proofs about IterProducts, for pools of every number and size: the      *)
(* iterator stays within the pools, walks the products in odometer order   *)
(* without a gap, and implements the enumeration of all products.          *)
(***************************************************************************)
EXTENDS IterProducts, OrderLemmas

-----------------------------------------------------------------------------
(* A product is a choice of one index below the size of each pool.         *)
LEMMA ProductsCharacterized ==
    ASSUME NEW s \in Seq(Nat)
    PROVE  \A v : v \in ProductsOf(s) <=>
                    /\ s # <<>>
                    /\ v \in [1 .. Len(s) -> Nat]
                    /\ \A p \in 1 .. Len(s) : v[p] < s[p]
<1> DEFINE Index == UNION {0 .. (s[p] - 1) : p \in DOMAIN s}
<1>1. DOMAIN s = 1 .. Len(s) /\ \A p \in 1 .. Len(s) : s[p] \in Nat
  OBVIOUS
<1>2. \A i \in Nat, p \in 1 .. Len(s) : i < s[p] => i \in Index
  <2> SUFFICES ASSUME NEW i \in Nat, NEW p \in 1 .. Len(s), i < s[p]
               PROVE  i \in Index
    OBVIOUS
  <2>1. i \in 0 .. (s[p] - 1)
    BY <1>1
  <2>2. QED
    BY <1>1, <2>1
<1>3. Index \subseteq Nat
  BY <1>1
<1> HIDE DEF Index
<1>4. ProductsOf(s) = {v \in [DOMAIN s -> Index] :
                          s # <<>> /\ \A p \in DOMAIN s : v[p] < s[p]}
  BY DEF ProductsOf, Index
<1>5. ASSUME NEW v \in ProductsOf(s)
      PROVE  /\ s # <<>>
             /\ v \in [1 .. Len(s) -> Nat]
             /\ \A p \in 1 .. Len(s) : v[p] < s[p]
  BY <1>1, <1>3, <1>4
<1>6. ASSUME NEW v \in [1 .. Len(s) -> Nat], s # <<>>,
             \A p \in 1 .. Len(s) : v[p] < s[p]
      PROVE  v \in ProductsOf(s)
  <2>1. \A p \in 1 .. Len(s) : v[p] \in Index
    BY <1>2, <1>6
  <2>2. v \in [1 .. Len(s) -> Index]
    BY <2>1
  <2>3. QED
    BY <1>1, <1>4, <1>6, <2>2
<1>7. QED
  BY <1>5, <1>6

(* The order of the walk is total and strict.                              *)
LEMMA PrecedesTotal ==
    ASSUME NEW s \in Seq(Nat), NEW u \in ProductsOf(s), NEW v \in ProductsOf(s),
           u # v
    PROVE  Precedes(u, v) \/ Precedes(v, u)
<1> DEFINE D == 1 .. Len(s)
           Differ == {p \in D : u[p] # v[p]}
<1>1. u \in [D -> Nat] /\ v \in [D -> Nat]
  BY ProductsCharacterized
<1>2. Differ # {} /\ Differ \in SUBSET (1 .. Len(s))
  BY <1>1
<1>3. PICK p \in Differ : \A k \in Differ : k <= p
  <2>1. Len(s) \in Nat
    OBVIOUS
  <2> HIDE DEF Differ
  <2>2. QED
    BY <1>2, <2>1, GreatestElement
<1>4. \A q \in D : q > p => u[q] = v[q]
  BY <1>3
<1>5. u[p] < v[p] \/ v[p] < u[p]
  BY <1>1
<1>6. QED
  BY <1>1, <1>4, <1>5 DEF Precedes

LEMMA PrecedesStrict ==
    ASSUME NEW s \in Seq(Nat), NEW u \in ProductsOf(s), NEW v \in ProductsOf(s),
           Precedes(u, v)
    PROVE  u # v /\ ~Precedes(v, u)
<1>1. u \in [1 .. Len(s) -> Nat] /\ v \in [1 .. Len(s) -> Nat]
  BY ProductsCharacterized
<1>2. PICK p \in 1 .. Len(s) :
        u[p] < v[p] /\ \A q \in 1 .. Len(s) : q > p => u[q] = v[q]
  BY <1>1 DEF Precedes
<1>3. u # v
  BY <1>1, <1>2
<1>4. ASSUME NEW q \in 1 .. Len(s),
             v[q] < u[q], \A r \in 1 .. Len(s) : r > q => v[r] = u[r]
      PROVE  FALSE
  <2>1. q > p \/ q = p \/ p > q
    OBVIOUS
  <2>2. u[p] \in Nat /\ v[p] \in Nat /\ u[q] \in Nat /\ v[q] \in Nat
    BY <1>1
  <2>3. QED
    BY <1>2, <1>4, <2>1, <2>2
<1>5. QED
  BY <1>1, <1>3, <1>4 DEF Precedes

-----------------------------------------------------------------------------
(* The odometer's three moves.                                             *)

(* No product comes before the first one.                                  *)
LEMMA FirstIsLeast ==
    ASSUME pool_sizes \in Seq(Nat), ~NoMoreProducts, ~HaveEmptyPool
    PROVE  /\ First \in ProductsOf(pool_sizes)
           /\ \A v \in ProductsOf(pool_sizes) : ~Precedes(v, First)
<1>1. /\ pool_sizes # <<>>
      /\ DOMAIN pool_sizes = 1 .. Len(pool_sizes)
      /\ \A p \in 1 .. Len(pool_sizes) : pool_sizes[p] \in Nat /\ pool_sizes[p] # 0
  BY DEF NoMoreProducts, HaveEmptyPool
<1>2. First = [p \in 1 .. Len(pool_sizes) |-> 0]
  BY <1>1 DEF First
<1>3. First \in ProductsOf(pool_sizes)
  <2>1. First \in [1 .. Len(pool_sizes) -> Nat]
    BY <1>2
  <2>2. \A p \in 1 .. Len(pool_sizes) : First[p] < pool_sizes[p]
    BY <1>1, <1>2
  <2>3. QED
    BY <1>1, <2>1, <2>2, ProductsCharacterized
<1>4. ASSUME NEW v \in ProductsOf(pool_sizes), Precedes(v, First)
      PROVE  FALSE
  <2>1. v \in [1 .. Len(pool_sizes) -> Nat]
    BY ProductsCharacterized
  <2>2. PICK p \in 1 .. Len(pool_sizes) : v[p] < First[p]
    BY <1>2, <1>4 DEF Precedes
  <2>3. QED
    BY <1>2, <2>1, <2>2
<1>5. QED
  BY <1>3, <1>4

(* Advancing leads to the immediate successor: what comes before it is the *)
(* current product and what came before that.                              *)
LEMMA IncrementIsSuccessor ==
    ASSUME pool_sizes \in Seq(Nat), next \in ProductsOf(pool_sizes),
           NEW p \in DOMAIN pool_sizes, CarryStopsAt(p)
    PROVE  /\ Increment(p) \in ProductsOf(pool_sizes)
           /\ \A v \in ProductsOf(pool_sizes) :
                 Precedes(v, Increment(p)) <=> v = next \/ Precedes(v, next)
<1> DEFINE D == 1 .. Len(pool_sizes)
           succ == Increment(p)
<1>1. DOMAIN pool_sizes = D /\ p \in D /\ \A q \in D : pool_sizes[q] \in Nat
  OBVIOUS
<1>2. /\ pool_sizes # <<>>
      /\ next \in [D -> Nat] /\ DOMAIN next = D
      /\ \A q \in D : next[q] \in Nat /\ next[q] < pool_sizes[q]
  BY ProductsCharacterized
<1>3. /\ next[p] + 1 < pool_sizes[p]
      /\ \A q \in D : q < p => next[q] + 1 = pool_sizes[q]
  <2>1. /\ next[p] + 1 # pool_sizes[p]
        /\ \A q \in D : q < p => next[q] + 1 = pool_sizes[q]
    BY <1>1 DEF CarryStopsAt
  <2>2. next[p] \in Nat /\ pool_sizes[p] \in Nat /\ next[p] < pool_sizes[p]
    BY <1>1, <1>2
  <2>3. QED
    BY <2>1, <2>2
<1>4. succ = [q \in D |-> IF q < p THEN 0
                          ELSE IF q = p THEN next[q] + 1 ELSE next[q]]
  BY <1>1 DEF Increment
<1> HIDE DEF succ
<1>5. succ \in [D -> Nat] /\ DOMAIN succ = D
  BY <1>1, <1>2, <1>4
<1>6. /\ succ[p] = next[p] + 1
      /\ \A q \in D : q < p => succ[q] = 0
      /\ \A q \in D : q > p => succ[q] = next[q]
  BY <1>1, <1>4
<1>7. \A v \in ProductsOf(pool_sizes) :
        /\ v \in [D -> Nat]
        /\ \A q \in D : v[q] \in Nat /\ v[q] < pool_sizes[q]
  BY ProductsCharacterized
<1>8. succ \in ProductsOf(pool_sizes)
  <2>1. ASSUME NEW q \in D PROVE succ[q] < pool_sizes[q]
    <3>1. q < p \/ q = p \/ q > p
      BY <1>1
    <3>2. /\ next[q] \in Nat /\ pool_sizes[q] \in Nat
          /\ next[q] < pool_sizes[q]
      BY <1>1, <1>2
    <3>3. succ[q] = 0 \/ succ[q] = next[q] \/ (q = p /\ succ[q] = next[q] + 1)
      BY <1>6, <3>1
    <3>4. QED
      BY <1>3, <3>2, <3>3
  <2>2. QED
    BY <1>2, <1>5, <2>1, ProductsCharacterized
<1>9. Precedes(next, succ)
  <2>1. next[p] < succ[p]
    BY <1>1, <1>2, <1>6
  <2>2. QED
    BY <1>1, <1>5, <1>6, <2>1 DEF Precedes
<1>10. ASSUME NEW v \in ProductsOf(pool_sizes), Precedes(v, next)
       PROVE  Precedes(v, succ)
  <2>1. PICK k \in D : v[k] < next[k] /\ \A q \in D : q > k => v[q] = next[q]
    <3>1. DOMAIN next = D
      BY <1>2
    <3>2. \E k \in DOMAIN next :
             v[k] < next[k] /\ \A q \in DOMAIN next : q > k => v[q] = next[q]
      BY <1>10 DEF Precedes
    <3>3. QED
      BY <3>1, <3>2
  <2>2. v[k] \in Nat /\ next[k] \in Nat /\ v[p] \in Nat /\ next[p] \in Nat
    BY <1>1, <1>2, <1>7
  <2>3. CASE k >= p
    <3>1. v[k] < succ[k]
      <4>1. CASE k = p
        <5>1. v[k] < next[k] /\ succ[k] = next[k] + 1
          BY <1>6, <2>1, <4>1
        <5>2. QED
          BY <2>2, <5>1
      <4>2. CASE k > p
        <5>1. v[k] < next[k] /\ succ[k] = next[k]
          BY <1>6, <2>1, <4>2
        <5>2. QED
          BY <2>2, <5>1
      <4>3. k = p \/ k > p
        BY <1>1, <2>3
      <4>4. QED
        BY <4>1, <4>2, <4>3
    <3>2. \A q \in D : q > k => v[q] = succ[q]
      BY <1>1, <1>6, <2>1, <2>3
    <3>3. QED
      BY <1>5, <3>1, <3>2 DEF Precedes
  <2>4. CASE k < p
    <3>1. v[p] < succ[p]
      BY <1>1, <1>6, <2>1, <2>2, <2>4
    <3>2. \A q \in D : q > p => v[q] = succ[q]
      BY <1>1, <1>6, <2>1, <2>4
    <3>3. QED
      BY <1>1, <1>5, <3>1, <3>2 DEF Precedes
  <2>5. QED
    BY <1>1, <2>3, <2>4
<1>11. ASSUME NEW v \in ProductsOf(pool_sizes), Precedes(v, succ), v # next
       PROVE  Precedes(v, next)
  <2>1. PICK k \in D : v[k] < succ[k] /\ \A q \in D : q > k => v[q] = succ[q]
    BY <1>5, <1>11 DEF Precedes
  <2>2. v[k] \in Nat /\ next[k] \in Nat /\ v[p] \in Nat /\ next[p] \in Nat
    BY <1>1, <1>2, <1>7
  <2>3. k >= p
    <3>1. ~(k < p)
      BY <1>6, <2>1, <2>2
    <3>2. QED
      BY <1>1, <3>1
  <2>4. \A q \in D : q > k => v[q] = next[q]
    BY <1>1, <1>6, <2>1, <2>3
  <2>5. CASE v[k] < next[k]
    BY <1>2, <2>4, <2>5 DEF Precedes
  <2>6. CASE ~(v[k] < next[k])
    (* Then k = p, v agrees with next from pool p on, and below p every    *)
    (* index of next is the last one of its pool.                          *)
    <3>1. k = p /\ v[p] = next[p]
      BY <1>1, <1>6, <2>1, <2>2, <2>3, <2>6
    <3>2. ASSUME NEW q \in D PROVE ~(next[q] < v[q])
      <4>1. q < p \/ q = p \/ q > p
        BY <1>1
      <4>2. /\ next[q] \in Nat /\ v[q] \in Nat /\ pool_sizes[q] \in Nat
            /\ v[q] < pool_sizes[q]
        BY <1>1, <1>2, <1>7
      <4>3. CASE q < p
        BY <1>3, <4>2, <4>3
      <4>4. CASE q >= p
        BY <1>1, <2>4, <3>1, <4>2, <4>4
      <4>5. QED
        BY <1>1, <4>1, <4>3, <4>4
    <3>3. ~Precedes(next, v)
      BY <1>7, <3>2 DEF Precedes
    <3>4. QED
      BY <1>11, <3>3, PrecedesTotal
  <2>7. QED
    BY <2>5, <2>6
<1>12. QED
  BY <1>8, <1>9, <1>10, <1>11 DEF succ

(* When every pool wraps, the current product is the last one.             *)
LEMMA OverflowIsLast ==
    ASSUME pool_sizes \in Seq(Nat), next \in ProductsOf(pool_sizes),
           \A p \in DOMAIN pool_sizes : ~CarryStopsAt(p)
    PROVE  \A v \in ProductsOf(pool_sizes) : v = next \/ Precedes(v, next)
<1> DEFINE D == 1 .. Len(pool_sizes)
           Unfinished == {q \in D : next[q] + 1 # pool_sizes[q]}
<1>1. DOMAIN pool_sizes = D /\ \A q \in D : pool_sizes[q] \in Nat
  OBVIOUS
<1>2. \A v \in ProductsOf(pool_sizes) :
        /\ v \in [D -> Nat]
        /\ \A q \in D : v[q] \in Nat /\ v[q] < pool_sizes[q]
  BY ProductsCharacterized
<1>3. Unfinished = {}
  <2> SUFFICES ASSUME Unfinished # {} PROVE FALSE
    OBVIOUS
  <2>1. Unfinished \in SUBSET Nat
    OBVIOUS
  <2> HIDE DEF Unfinished
  <2>2. PICK p \in Unfinished : \A q \in Unfinished : p <= q
    BY <2>1, LeastElement
  <2>3. p \in D /\ next[p] + 1 # pool_sizes[p]
    BY DEF Unfinished
  <2>4. \A q \in D : q < p => next[q] + 1 = pool_sizes[q]
    BY <2>2, <2>3 DEF Unfinished
  <2>5. QED
    BY <1>1, <2>3, <2>4 DEF CarryStopsAt
<1>4. ASSUME NEW v \in ProductsOf(pool_sizes), v # next
      PROVE  Precedes(v, next)
  <2>1. ASSUME NEW q \in D PROVE ~(next[q] < v[q])
    <3>1. next[q] + 1 = pool_sizes[q]
      BY <1>3
    <3>2. next[q] \in Nat /\ v[q] \in Nat /\ v[q] < pool_sizes[q]
      BY <1>2
    <3>3. QED
      BY <3>1, <3>2
  <2>2. ~Precedes(next, v)
    BY <1>2, <2>1 DEF Precedes
  <2>3. QED
    BY <1>4, <2>2, PrecedesTotal
<1>5. QED
  BY <1>4

-----------------------------------------------------------------------------
(* The inductive invariant: with the types, the products returned are at   *)
(* every moment a complete initial segment of the odometer's walk.         *)
IInv == TypeOK /\ NoProductSkipped

LEMMA GivenIsPoolSizes ==
    ASSUME TypeOK, ~NoMoreProducts
    PROVE  given = pool_sizes /\ pool_sizes \in Seq(Nat)
BY PoolSizesAssumption DEF TypeOK, NoMoreProducts

LEMMA InitIInv == Init => IInv
<1> SUFFICES ASSUME Init PROVE IInv
  OBVIOUS
<1>1. ProductsOf(<<>>) = {}
  BY DEF ProductsOf
<1>2. QED
  BY <1>1 DEF Init, IInv, TypeOK, NoProductSkipped, NoMoreProducts, EndOfSequence

(* Every path of GetNext keeps the segment complete.                       *)
LEMMA GetNextIInv == IInv /\ [GetNext]_vars => IInv'
<1> SUFFICES ASSUME IInv, [GetNext]_vars PROVE IInv'
  OBVIOUS
<1> USE DEF IInv
<1>1. CASE EndAgain \/ UNCHANGED vars
  BY <1>1 DEF EndAgain, vars, TypeOK, NoProductSkipped, NoMoreProducts
<1>2. CASE StartWithEmptyPool
  <2>1. given = pool_sizes /\ pool_sizes \in Seq(Nat)
    BY <1>2, GivenIsPoolSizes DEF StartWithEmptyPool
  <2>2. ProductsOf(pool_sizes) = {}
    <3>1. PICK p \in 1 .. Len(pool_sizes) : pool_sizes[p] = 0
      BY <1>2, <2>1 DEF StartWithEmptyPool, HaveEmptyPool
    <3>2. \A v \in ProductsOf(pool_sizes) : v[p] \in Nat /\ v[p] < 0
      BY <2>1, <3>1, ProductsCharacterized
    <3>3. QED
      BY <3>2
  <2>3. emitted = {}
    BY <2>1, <2>2 DEF TypeOK
  <2>4. pool_sizes' = <<>> /\ next' = <<>> /\ given' = given /\ emitted' = emitted
    BY <1>2 DEF StartWithEmptyPool, SetNoMoreProducts, EndOfSequence
  <2>5. QED
    BY <2>1, <2>2, <2>3, <2>4
       DEF TypeOK, NoProductSkipped, NoMoreProducts, EndOfSequence
<1>3. CASE Start
  <2>1. given = pool_sizes /\ pool_sizes \in Seq(Nat)
    BY <1>3, GivenIsPoolSizes DEF Start
  <2>2. emitted = {}
    BY <1>3 DEF Start, NoProductSkipped
  <2>3. /\ next' = First /\ emitted' = emitted \cup {First}
        /\ pool_sizes' = pool_sizes /\ given' = given
    BY <1>3 DEF Start, Return
  <2>4. /\ First \in ProductsOf(given)
        /\ \A v \in ProductsOf(given) : ~Precedes(v, First)
    BY <1>3, <2>1, FirstIsLeast DEF Start
  <2>5. TypeOK'
    BY <2>1, <2>2, <2>3, <2>4 DEF TypeOK
  <2>6. First # EndOfSequence
    BY <1>3, <2>1 DEF Start, NoMoreProducts, First, EndOfSequence
  <2>7. emitted' = {v \in ProductsOf(given) : v = First \/ Precedes(v, First)}
    BY <2>2, <2>3, <2>4
  <2>8. ~NoMoreProducts /\ ~NoMoreProducts'
    BY <1>3, <2>3 DEF Start, NoMoreProducts
  <2>9. QED
    BY <2>3, <2>5, <2>6, <2>7, <2>8 DEF NoProductSkipped, EndOfSequence
<1>4. CASE Advance
  <2>1. given = pool_sizes /\ pool_sizes \in Seq(Nat)
    BY <1>4, GivenIsPoolSizes DEF Advance
  <2>2. PICK p \in DOMAIN pool_sizes : CarryStopsAt(p) /\ Return(Increment(p))
    BY <1>4 DEF Advance
  <2> DEFINE succ == Increment(p)
  <2>3. /\ next' = succ /\ emitted' = emitted \cup {succ}
        /\ pool_sizes' = pool_sizes /\ given' = given
    BY <2>2 DEF Return
  <2>4. next \in ProductsOf(pool_sizes) /\ next # EndOfSequence
    BY <1>4, <2>1 DEF Advance, TypeOK
  <2>5. /\ succ \in ProductsOf(given)
        /\ \A v \in ProductsOf(given) :
              Precedes(v, succ) <=> v = next \/ Precedes(v, next)
    BY <2>1, <2>2, <2>4, IncrementIsSuccessor
  <2>6. succ # EndOfSequence
    BY <1>4, <2>1 DEF Advance, NoMoreProducts, Increment, EndOfSequence
  <2>7. ~NoMoreProducts /\ ~NoMoreProducts'
    BY <1>4, <2>3 DEF Advance, NoMoreProducts
  <2> HIDE DEF succ
  <2>8. TypeOK'
    BY <2>3, <2>5 DEF TypeOK
  <2>9. emitted = {v \in ProductsOf(given) : v = next \/ Precedes(v, next)}
    BY <2>4, <2>7 DEF NoProductSkipped
  <2>10. emitted' = {v \in ProductsOf(given) : v = succ \/ Precedes(v, succ)}
    BY <2>3, <2>5, <2>9
  <2>11. QED
    BY <2>3, <2>6, <2>7, <2>8, <2>10 DEF NoProductSkipped, EndOfSequence
<1>5. CASE Overflow
  <2>1. given = pool_sizes /\ pool_sizes \in Seq(Nat)
    BY <1>5, GivenIsPoolSizes DEF Overflow
  <2>2. next \in ProductsOf(pool_sizes) /\ next # EndOfSequence
    BY <1>5, <2>1 DEF Overflow, TypeOK
  <2>3. \A v \in ProductsOf(given) : v = next \/ Precedes(v, next)
    BY <1>5, <2>1, <2>2, OverflowIsLast DEF Overflow
  <2>4. emitted = ProductsOf(given)
    BY <1>5, <2>2, <2>3 DEF Overflow, NoProductSkipped
  <2>5. pool_sizes' = <<>> /\ next' = <<>> /\ given' = given /\ emitted' = emitted
    BY <1>5 DEF Overflow, SetNoMoreProducts, EndOfSequence
  <2>6. QED
    BY <2>4, <2>5 DEF TypeOK, NoProductSkipped, NoMoreProducts, EndOfSequence
<1>6. QED
  BY <1>1, <1>2, <1>3, <1>4, <1>5 DEF GetNext

(* Every returned product indexes the caller's pools.                      *)
THEOREM TypeCorrect == Spec => []TypeOK
<1>1. IInv => TypeOK
  BY DEF IInv
<1>2. QED
  BY <1>1, InitIInv, GetNextIInv, PTL DEF Spec

(* The walk leaves no gap, and ends only when every product was returned.  *)
THEOREM WalkIsComplete == Spec => []NoProductSkipped
<1>1. IInv => NoProductSkipped
  BY DEF IInv
<1>2. QED
  BY <1>1, InitIInv, GetNextIInv, PTL DEF Spec

-----------------------------------------------------------------------------
(* A call of GetNext that returns a product returns one not yet emitted,   *)
(* and one that reports the end does so when none is left.                 *)
LEMMA GetNextImplementsEnumeration ==
    IInv /\ IInv' /\ [GetNext]_vars => [Enum!Next]_(Enum!vars)
<1> SUFFICES ASSUME IInv, IInv', [GetNext]_vars
             PROVE  Enum!Next \/ UNCHANGED Enum!vars
  OBVIOUS
<1> USE DEF IInv, Enum!Next, Enum!vars
<1>1. CASE EndAgain \/ UNCHANGED vars
  BY <1>1 DEF EndAgain, vars, NoMoreProducts
<1>2. CASE StartWithEmptyPool \/ Overflow
  <2>1. /\ pool_sizes' = <<>> /\ given' = given /\ emitted' = emitted
        /\ pool_sizes # <<>>
    BY <1>2 DEF StartWithEmptyPool, Overflow, SetNoMoreProducts, NoMoreProducts
  <2>2. given # <<>>
    BY <2>1 DEF TypeOK
  <2>3. emitted' = ProductsOf(given')
    BY <2>1 DEF NoProductSkipped, NoMoreProducts
  <2>4. Enum!End
    BY <2>1, <2>2, <2>3 DEF Enum!End, NoMoreProducts
  <2>5. QED
    BY <2>4
<1>3. ASSUME ~NoMoreProducts, given = pool_sizes, pool_sizes \in Seq(Nat),
             NEW product \in ProductsOf(given), product \notin emitted,
             Return(product)
      PROVE  Enum!Emit
  BY <1>3 DEF Return, Enum!Emit, NoMoreProducts
<1>4. CASE Start
  <2>1. ~NoMoreProducts /\ given = pool_sizes /\ pool_sizes \in Seq(Nat)
    BY <1>4, GivenIsPoolSizes DEF Start
  <2>2. emitted = {} /\ Return(First)
    BY <1>4 DEF Start, NoProductSkipped
  <2>3. First \in ProductsOf(given)
    BY <1>4, <2>1, FirstIsLeast DEF Start
  <2>4. QED
    BY <1>3, <2>1, <2>2, <2>3
<1>5. CASE Advance
  <2>1. ~NoMoreProducts /\ given = pool_sizes /\ pool_sizes \in Seq(Nat)
    BY <1>5, GivenIsPoolSizes DEF Advance
  <2>2. PICK p \in DOMAIN pool_sizes : CarryStopsAt(p) /\ Return(Increment(p))
    BY <1>5 DEF Advance
  <2> DEFINE succ == Increment(p)
  <2>3. next \in ProductsOf(given) /\ next # EndOfSequence
    BY <1>5, <2>1 DEF Advance, TypeOK
  <2>4. succ \in ProductsOf(given) /\ Precedes(next, succ)
    BY <2>1, <2>2, <2>3, IncrementIsSuccessor
  <2> HIDE DEF succ
  <2>5. succ # next /\ ~Precedes(succ, next)
    BY <2>1, <2>3, <2>4, PrecedesStrict
  <2>6. succ \notin emitted
    BY <2>1, <2>3, <2>5 DEF NoProductSkipped
  <2>7. QED
    BY <1>3, <2>1, <2>2, <2>4, <2>6 DEF succ
<1>6. QED
  BY <1>1, <1>2, <1>4, <1>5 DEF GetNext

(* IterProducts implements the enumeration of all products.                *)
THEOREM IteratorImplementsEnumeration == Spec => ImplementsEnumeration
<1>1. Init => Enum!Init
  BY DEF Init, Enum!Init, NoMoreProducts
<1>2. QED
  BY <1>1, InitIInv, GetNextIInv, GetNextImplementsEnumeration, PTL
     DEF Spec, ImplementsEnumeration, Enum!Spec

=============================================================================
