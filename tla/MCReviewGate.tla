---------------------------- MODULE MCReviewGate ----------------------------
(* Review states as the migrations seed them, for TLC. *)
EXTENDS ReviewGate, TLC

CONSTANTS r1, r2, r3, dean, clerk

MCRoles ==
    [r \in Reviewers |-> CASE r = r1 -> <<"teacher", "commission">>
                          [] r = r2 -> <<"commission">>
                          [] OTHER  -> <<"student", "norm_control">>]

MCTo == "pass" :> "done" @@ "fail" :> "work"

\* Migration 30 inserts its transitions without conditions.
Unconditioned == "pass" :> "nothing" @@ "fail" :> "failed"

\* Migration 16 makes both exits depend on the gate's flags.
Conditioned == "pass" :> "passed" @@ "fail" :> "failed"
=============================================================================
