---------------------------- MODULE OrderLemmas ----------------------------
(***************************************************************************)
(* Least and greatest elements of sets of numbers, which stand in for      *)
(* induction in the proofs of this project, and facts about lists.         *)
(***************************************************************************)
EXTENDS Lists, FiniteSetTheorems, SequenceTheorems, TLAPS, WellFoundedInduction

(* The least-number principle for sets.                                    *)
LEMMA LeastElement ==
    ASSUME NEW S \in SUBSET Nat, S # {}
    PROVE  \E m \in S : \A n \in S : m <= n
<1>1. \A x, y \in Nat : y < x => <<y, x>> \in OpToRel(<, Nat)
  BY DEF OpToRel
<1>2. PICK R : /\ IsWellFoundedOn(R, Nat)
               /\ \A x, y \in Nat : y < x => <<y, x>> \in R
  BY <1>1, NatLessThanWellFounded, Zenon
<1>3. PICK m \in S : \A n \in S : <<n, m>> \notin R
  BY <1>2, WFMin, Zenon
<1>4. \A n \in S : ~(n < m)
  BY <1>2, <1>3
<1>5. QED
  BY <1>4

(* A nonempty set of pool numbers has a last one.                          *)
LEMMA GreatestElement ==
    ASSUME NEW n \in Nat, NEW S \in SUBSET (1 .. n), S # {}
    PROVE  \E m \in S : \A k \in S : k <= m
<1> DEFINE T == {n - k : k \in S}
<1>1. T \in SUBSET Nat /\ T # {}
  <2>1. \A k \in S : n - k \in Nat
    OBVIOUS
  <2>2. QED
    BY <2>1
<1>2. PICK t \in T : \A u \in T : t <= u
  BY <1>1, LeastElement
<1>3. PICK m \in S : t = n - m
  OBVIOUS
<1>4. ASSUME NEW k \in S PROVE k <= m
  <2>1. n - k \in T
    OBVIOUS
  <2>2. t <= n - k
    BY <1>2, <2>1
  <2>3. QED
    BY <1>3, <2>2
<1>5. QED
  BY <1>4

-----------------------------------------------------------------------------
(* What Sublist keeps of a list.                                           *)

LEMMA RangeTyped ==
    ASSUME NEW T, NEW s \in Seq(T)
    PROVE  s \in Seq(RangeOf(s))
<1>1. /\ Len(s) \in Nat /\ DOMAIN s = 1 .. Len(s)
      /\ s = [i \in 1 .. Len(s) |-> s[i]]
  BY LenProperties
<1>2. \A i \in 1 .. Len(s) : s[i] \in RangeOf(s)
  BY <1>1 DEF RangeOf
<1>3. s \in [1 .. Len(s) -> RangeOf(s)]
  BY <1>1, <1>2
<1>4. QED
  BY <1>1, <1>3

LEMMA SublistFacts ==
    ASSUME NEW T, NEW list \in Seq(T), NEW S, NEW sub, sub = Sublist(list, S)
    PROVE  /\ sub \in Seq(RangeOf(list)) /\ Len(sub) \in Nat /\ DOMAIN sub = 1 .. Len(sub)
           /\ RangeOf(sub) = {x \in RangeOf(list) : x \in S}
           /\ \A k, l \in DOMAIN sub : k <= l =>
                \E i, j \in DOMAIN list : i <= j /\ sub[k] = list[i] /\ sub[l] = list[j]
<1>1. DOMAIN list = 1 .. Len(list) /\ Len(list) \in Nat
  BY LenProperties
<1> DEFINE kept == {i \in DOMAIN list : list[i] \in S}
           N == Cardinality(kept)
           UpTo(i) == {j \in kept : j <= i}
           R(i) == Cardinality(UpTo(i))
           rank == [i \in kept |-> R(i)]
<1>2. IsFiniteSet(kept) /\ N \in Nat /\ \A i \in kept : i \in Nat
  <2>1. kept \subseteq 1 .. Len(list) /\ IsFiniteSet(1 .. Len(list))
    BY <1>1, FS_Interval
  <2>2. IsFiniteSet(kept)
    BY <2>1, FS_Subset
  <2>3. QED
    BY <1>1, <2>1, <2>2, FS_CardinalityType
<1>3. sub = [k \in 1 .. N |-> list[CHOOSE i \in kept : R(i) = k]]
  BY DEF Sublist
<1>4. \A i \in kept : i \in DOMAIN list /\ list[i] \in S
  OBVIOUS
<1>5. \A i \in DOMAIN list : list[i] \in S => i \in kept
  OBVIOUS
<1> HIDE DEF kept
<1>6. \A i \in kept : IsFiniteSet(UpTo(i)) /\ R(i) \in Nat /\ UpTo(i) \subseteq kept
  BY <1>2, FS_Subset, FS_CardinalityType
<1>7. ASSUME NEW i \in kept, NEW j \in kept, i < j PROVE R(i) < R(j)
  <2>1. UpTo(i) \cup {j} \subseteq UpTo(j) /\ j \notin UpTo(i)
    BY <1>2, <1>7
  <2>2. Cardinality(UpTo(i) \cup {j}) = R(i) + 1
    BY <1>6, <2>1, FS_AddElement
  <2>3. Cardinality(UpTo(i) \cup {j}) <= R(j)
    BY <1>6, <2>1, FS_Subset
  <2> HIDE DEF R, UpTo
  <2>4. QED
    BY <1>6, <2>2, <2>3
<1>8. \A i \in kept : R(i) \in 1 .. N
  <2> SUFFICES ASSUME NEW i \in kept PROVE R(i) \in 1 .. N
    OBVIOUS
  <2>1. R(i) <= N
    BY <1>2, <1>6, FS_Subset
  <2>2. R(i) # 0
    <3>1. i \in UpTo(i)
      BY <1>2
    <3>2. QED
      BY <1>6, <3>1, FS_EmptySet
  <2> HIDE DEF R, UpTo, N
  <2>3. QED
    BY <1>2, <1>6, <2>1, <2>2
<1> HIDE DEF R, UpTo
<1>9. \A k \in 1 .. N : \E i \in kept : R(i) = k
  <2>1. rank \in [kept -> 1 .. N]
    BY <1>8
  <2>2. \A i, j \in kept : rank[i] = rank[j] => i = j
    BY <1>2, <1>6, <1>7
  <2>3. rank \in Injection(kept, 1 .. N)
    BY <2>1, <2>2 DEF Injection, IsInjective
  <2>4. IsFiniteSet(1 .. N) /\ Cardinality(1 .. N) = N
    BY <1>2, FS_Interval
  <2>5. rank \in Surjection(kept, 1 .. N)
    BY <2>3, <2>4, FS_Injection
  <2>6. QED
    BY <2>5 DEF Surjection
<1> DEFINE At(k) == CHOOSE i \in kept : R(i) = k
<1>10. \A k \in 1 .. N : At(k) \in kept /\ R(At(k)) = k
  BY <1>9
<1>11. \A k \in 1 .. N : sub[k] = list[At(k)]
  BY <1>3
<1>12. DOMAIN sub = 1 .. N
  BY <1>3
<1> HIDE DEF At, N
<1>13. \A k \in 1 .. N : At(k) \in DOMAIN list /\ sub[k] = list[At(k)] /\ list[At(k)] \in S
  BY <1>4, <1>10, <1>11
<1>14. \A k, l \in 1 .. N : k <= l => At(k) <= At(l)
  BY <1>2, <1>7, <1>10
<1>15. sub \in [1 .. N -> RangeOf(list)]
  <2>1. \A k \in 1 .. N : sub[k] \in RangeOf(list)
    BY <1>13 DEF RangeOf
  <2>2. sub = [k \in 1 .. N |-> sub[k]]
    BY <1>3, <1>12
  <2>3. QED
    BY <2>1, <2>2
<1>16. sub \in Seq(RangeOf(list)) /\ Len(sub) = N
  BY <1>2, <1>15
<1>17. RangeOf(sub) \subseteq {x \in RangeOf(list) : x \in S}
  BY <1>12, <1>13 DEF RangeOf
<1>18. ASSUME NEW i \in DOMAIN list, list[i] \in S PROVE list[i] \in RangeOf(sub)
  <2>1. i \in kept
    BY <1>5, <1>18
  <2>2. R(i) \in 1 .. N
    BY <1>8, <2>1
  <2>3. At(R(i)) = i
    BY <1>2, <1>6, <1>7, <1>10, <2>1, <2>2
  <2>4. QED
    BY <1>12, <1>13, <2>2, <2>3 DEF RangeOf
<1>19. RangeOf(sub) = {x \in RangeOf(list) : x \in S}
  BY <1>17, <1>18 DEF RangeOf
<1>20. QED
  BY <1>2, <1>12, <1>13, <1>14, <1>16, <1>19

-----------------------------------------------------------------------------
(* What is left of a list once its first n elements were taken.            *)
LeftOf(left, asked, n) ==
    /\ left \in Seq(RangeOf(asked))
    /\ n \in Nat /\ n + Len(left) = Len(asked)
    /\ \A k \in 1 .. Len(left) : left[k] = asked[n + k]

LEMMA RestIsLeft ==
    ASSUME NEW asked, NEW left, NEW n, LeftOf(left, asked, n), left # <<>>
    PROVE  /\ LeftOf(Tail(left), asked, n + 1)
           /\ Head(left) = asked[n + 1] /\ Head(left) \in RangeOf(asked)
<1> DEFINE S == RangeOf(asked)
<1>1. left \in Seq(S) /\ n \in Nat /\ n + Len(left) = Len(asked)
      /\ \A k \in 1 .. Len(left) : left[k] = asked[n + k]
  BY DEF LeftOf
<1> HIDE DEF S
<1>2. Len(left) \in Nat /\ Len(left) > 0 /\ Head(left) = left[1] /\ left[1] \in S
  BY <1>1
<1>3. Tail(left) \in Seq(S) /\ Len(Tail(left)) = Len(left) - 1
      /\ \A k \in 1 .. Len(left) - 1 : Tail(left)[k] = left[k + 1]
  BY <1>1
<1>4. \A k \in 1 .. Len(left) - 1 : k + 1 \in 1 .. Len(left) /\ n + (k + 1) = (n + 1) + k
  BY <1>1, <1>2
<1>5. \A k \in 1 .. Len(Tail(left)) : Tail(left)[k] = asked[(n + 1) + k]
  BY <1>1, <1>3, <1>4
<1>6. (n + 1) + Len(Tail(left)) = Len(asked)
  BY <1>1, <1>2, <1>3
<1>7. QED
  BY <1>1, <1>2, <1>3, <1>5, <1>6 DEF LeftOf, S

=============================================================================
