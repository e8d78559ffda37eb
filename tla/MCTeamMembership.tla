-------------------------- MODULE MCTeamMembership --------------------------
(***************************************************************************)
(* TeamMembership for TLC: users, teams and callers are interchangeable.   *)
(***************************************************************************)
EXTENDS TeamMembership, TLC

Symmetry ==
    Permutations(Users) \cup Permutations(Teams) \cup Permutations(Callers)

\* The bound of the run with two teams, which says nothing of teams that
\* were disturbed.
Undisturbed == disturbed = {}

\* The bound of the run with one team: the successors of a state in which two
\* invitations were answered or expired are left out.
FewAnswers ==
    Cardinality({<<t, u>> \in Teams \X Users :
                    invite[t][u] \in {"accepted", "declined", "expired"}}) <= 1
=============================================================================
