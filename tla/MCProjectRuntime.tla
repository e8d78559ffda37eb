-------------------------- MODULE MCProjectRuntime --------------------------
(***************************************************************************)
(* TLC instance of ProjectRuntime: a three-step workflow with a loop back, *)
(* a state with a duration, a state with both kinds of deadline, and POST  *)
(* actions on leaving one state and entering the next.                     *)
(***************************************************************************)
EXTENDS ProjectRuntime, TLC

CONSTANTS draft, review, done

MCStates == {draft, review, done}
MCTransitions == {[from |-> draft, to |-> review],
                  [from |-> review, to |-> draft],
                  [from |-> review, to |-> done]}
MCFinal == {done}
MCDuration == {draft, review}
MCFixed == {review}
MCExit == {draft}
MCEnter == {review}


\* Requests are alike, and so are schedulers.
Symmetry == Permutations(Callers) \cup Permutations(Schedulers)
=============================================================================
