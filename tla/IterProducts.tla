---------------------------- MODULE IterProducts ----------------------------
(***************************************************************************)
(* protobag/Utils/IterProducts.hpp: an iterator over the cross product of  *)
(* several pools.  Each step is one call of GetNext; the value it returns  *)
(* is the new value of `next`, where <<>> is EndOfSequence.                *)
(***************************************************************************)
EXTENDS Products

CONSTANT PoolSizes    \* the pool size lists the constructor may be given

ASSUME PoolSizesAssumption == PoolSizes \subseteq Seq(Nat)

VARIABLES pool_sizes, \* _pool_sizes; emptied once the products run out
          next,       \* _next.indices, the product returned last
          given,      \* history: the constructor's argument
          emitted     \* history: every product returned so far

vars == <<pool_sizes, next, given, emitted>>

EndOfSequence == <<>>

Init ==
    /\ pool_sizes \in PoolSizes
    /\ next = EndOfSequence
    /\ given = pool_sizes
    /\ emitted = {}

NoMoreProducts == pool_sizes = <<>>

AllPoolsEmpty ==                                            \* mutant
    \A p \in DOMAIN pool_sizes : pool_sizes[p] = 0

HaveEmptyPool == \E p \in DOMAIN pool_sizes : pool_sizes[p] = 0

First == [p \in DOMAIN pool_sizes |-> 0]

StartOver ==                                                \* mutant
    /\ next' = EndOfSequence
    /\ UNCHANGED <<pool_sizes, given, emitted>>

SetNoMoreProducts ==
    /\ pool_sizes' = <<>>
    /\ next' = EndOfSequence
    /\ UNCHANGED <<given, emitted>>

Return(product) ==
    /\ next' = product
    /\ emitted' = emitted \cup {product}
    /\ UNCHANGED <<pool_sizes, given>>

CarryStopsLate(p) ==                                        \* mutant
    /\ next[p] # pool_sizes[p]
    /\ \A q \in DOMAIN pool_sizes : q < p => next[q] = pool_sizes[q]

(* The increment carries past every pool it wraps and stops at pool p.     *)
CarryStopsAt(p) ==
    /\ next[p] + 1 # pool_sizes[p]
    /\ \A q \in DOMAIN pool_sizes : q < p => next[q] + 1 = pool_sizes[q]

IncrementWithoutReset(p) == [next EXCEPT ![p] = @ + 1]      \* mutant

Increment(p) ==
    [q \in DOMAIN pool_sizes |->
        IF q < p THEN 0 ELSE IF q = p THEN next[q] + 1 ELSE next[q]]

-----------------------------------------------------------------------------
(* GetNext, by the path it takes.                                          *)

EndAgain == NoMoreProducts /\ UNCHANGED vars

StartWithEmptyPool ==
    /\ ~NoMoreProducts /\ next = EndOfSequence
    /\ HaveEmptyPool
    /\ SetNoMoreProducts

Start ==
    /\ ~NoMoreProducts /\ next = EndOfSequence
    /\ ~HaveEmptyPool
    /\ Return(First)

Advance ==
    /\ ~NoMoreProducts /\ next # EndOfSequence
    /\ \E p \in DOMAIN pool_sizes : CarryStopsAt(p) /\ Return(Increment(p))

Overflow ==
    /\ ~NoMoreProducts /\ next # EndOfSequence
    /\ \A p \in DOMAIN pool_sizes : ~CarryStopsAt(p)
    /\ SetNoMoreProducts

GetNext == EndAgain \/ StartWithEmptyPool \/ Start \/ Advance \/ Overflow

Spec == Init /\ [][GetNext]_vars

(* The caller, FindMinCostBundle, calls GetNext until the sequence ends.   *)
FairSpec == Spec /\ WF_vars(GetNext)

-----------------------------------------------------------------------------
(* Types: the indices returned are valid positions in the caller's pools.  *)
TypeOK ==
    /\ given \in PoolSizes
    /\ pool_sizes \in {given, <<>>}
    /\ next \in ProductsOf(given) \cup {EndOfSequence}
    /\ emitted \subseteq ProductsOf(given)

(* GetNext walks the products in odometer order with no gap: at any time   *)
(* those returned are exactly the ones up to the current one, and when the *)
(* iterator reports the end all of them have been returned.                *)
NoProductSkipped ==
    /\ NoMoreProducts => emitted = ProductsOf(given)
    /\ ~NoMoreProducts =>
        emitted = {v \in ProductsOf(given) :
                      next # EndOfSequence /\ (v = next \/ Precedes(v, next))}

(* The iterator implements the enumeration of all products: GetNext never  *)
(* returns a product twice, which would make FindMinCostBundle loop for    *)
(* ever, and reports the end only when none is left.                       *)
Enum == INSTANCE Enumeration
            WITH all <- ProductsOf(given), ended <- NoMoreProducts /\ given # <<>>
ImplementsEnumeration == Enum!Spec

(* Called often enough, GetNext reaches the end of the sequence.           *)
Exhausted == <>NoMoreProducts

=============================================================================
