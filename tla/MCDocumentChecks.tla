-------------------------- MODULE MCDocumentChecks --------------------------
(* Small sets of documents, issues and handlers for TLC. *)
EXTENDS DocumentChecks, Naturals, FiniteSets, TLC

Symmetry ==
    Permutations(Documents) \cup Permutations(Issues) \cup Permutations(Handlers)

\* A bound: one document at most is overruled or has its approval cut off;
\* the others keep what the properties promise.
FewExceptions == Cardinality(cut) + Cardinality(overruled) <= 1

\* A bound: of two requests under way, one at most is a submission or writes
\* issues or scores, the other decides.
OneWriter ==
    Cardinality({h \in Handlers : request[h].op \in
      {"create", "ensure", "add", "issue", "scores"}}) <= 1
=============================================================================
