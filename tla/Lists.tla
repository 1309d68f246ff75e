-------------------------------- MODULE Lists --------------------------------
(***************************************************************************)
(* What the program does with a std::vector of which only the elements and *)
(* their order matter.                                                     *)
(***************************************************************************)
EXTENDS Integers, Sequences, FiniteSets

RangeOf(seq) == {seq[i] : i \in DOMAIN seq}

(* The elements of a list that are in a set, in their order.               *)
Sublist(list, set) ==
    LET kept == {i \in DOMAIN list : list[i] \in set}
        Rank(i) == Cardinality({j \in kept : j <= i})
    IN  [k \in 1 .. Cardinality(kept) |-> list[CHOOSE i \in kept : Rank(i) = k]]

=============================================================================
