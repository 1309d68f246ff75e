---------------------------- MODULE Enumeration ----------------------------
(***************************************************************************)
(* What IterProducts promises its caller: the members of a set, each of    *)
(* them once and in no promised order, then the end of the sequence.       *)
(***************************************************************************)
VARIABLES all,      \* the set to enumerate, fixed at construction
          emitted,  \* the members returned so far
          ended     \* whether the end of the sequence has been reported

vars == <<all, emitted, ended>>

Init == emitted = {} /\ ended = FALSE

Emit ==
    /\ ~ended
    /\ \E p \in all \ emitted : emitted' = emitted \cup {p}
    /\ UNCHANGED <<all, ended>>

End ==
    /\ emitted = all
    /\ ended' = TRUE
    /\ UNCHANGED <<all, emitted>>

Next == Emit \/ End

Spec == Init /\ [][Next]_vars

=============================================================================
