---------------------------- MODULE MCPreDefense ----------------------------
(* Small sets of rows and handlers for TLC. *)
EXTENDS PreDefense, TLC

CONSTANT Bound

\* A bound: where rows may be or have been completed too early, there are few.
FewEarly ==
    at = Earlier \/ early # {} =>
        Cardinality({s \in Submissions : status[s] # "none"}) <= Bound

Symmetry == Permutations(Submissions) \cup Permutations(Handlers)
=============================================================================
