------------------------------ MODULE Products ------------------------------
(***************************************************************************)
(* Index vectors over a list of pools, and the order in which the odometer *)
(* of protobag/Utils/IterProducts.hpp walks through them.  Pools are       *)
(* numbered 1..Len(sizes); an index counts from 0, as it does in the code. *)
(***************************************************************************)
EXTENDS Lists

(* Every way to pick one index from each pool.  A list without pools, or   *)
(* with an empty one, has no products: the constructor accepts both.       *)
ProductsOf(sizes) ==
    LET Index == UNION {0 .. (sizes[p] - 1) : p \in DOMAIN sizes}
    IN  {v \in [DOMAIN sizes -> Index] :
            sizes # <<>> /\ \A p \in DOMAIN sizes : v[p] < sizes[p]}

(* The walk increments pool 1 fastest, so the LAST pool in which two       *)
(* vectors differ decides which of them is emitted first.                  *)
Precedes(u, v) ==
    \E p \in DOMAIN v :
        /\ u[p] < v[p]
        /\ \A q \in DOMAIN v : q > p => u[q] = v[q]

=============================================================================
