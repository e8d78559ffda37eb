----------------------------- MODULE ReviewGate -----------------------------
(***************************************************************************)
(* The vote of the teachers on one review state of a project, and the      *)
(* REVIEW_GATE action that guards the way out of it:                       *)
(*                                                                         *)
(*   - reviewers vote through ReviewService.SubmitReview: it writes the    *)
(*     vote and then counts, in two statements;                            *)
(*   - a finalizer executes a transition: workflow_service fetches the     *)
(*     project, evaluates the transition's conditions on the fetched data, *)
(*     counts the votes in the gate and sends the move and the gate's      *)
(*     flags back as a CommitTransition;                                   *)
(*   - administrators move and roll back the project meanwhile.            *)
(*                                                                         *)
(* The project is at "review", before it ("work") or past it ("done").     *)
(* ProjectRuntime models what is left out here: histories, deadlines,      *)
(* statuses and the moves between the other states.                        *)
(***************************************************************************)
EXTENDS Integers, Sequences, FiniteSets, FiniteSetsExt

CONSTANTS
    Reviewers,      \* the users who may try to vote
    RolesOf,        \* the roles of each: the base role, then the department's
    ReviewerRoles,  \* review_config.reviewer_roles
    MinReviewers,   \* review_config.min_reviewers
    GradeType,      \* review_config.grade_type: "score" or "admission"
    PassingScore,   \* review_config.passing_score
    Grades,         \* the scores, or the decisions, that are submitted
    Staff,          \* executions that can be in flight at the same time
    Finalizers,     \* those of Staff whose role is finalizer_role
    Exits,          \* the transitions out of the review state
    To,             \* where each exit leads
    Needs,          \* the flag each exit's conditions ask for
    MaxRollbacks    \* bound on the rollbacks from the review state

Places == {"work", "review", "done"}

ASSUME ReviewAssumption ==
    /\ RolesOf \in [Reviewers -> Seq(STRING)]
    /\ MinReviewers \in Int
    /\ GradeType \in {"score", "admission"}
    /\ GradeType = "score" => Grades \subseteq 0 .. 100
    /\ GradeType = "admission" => Grades = {"approved", "rejected"}
    /\ PassingScore \in Nat
    /\ Finalizers \subseteq Staff
    /\ To \in [Exits -> Places \ {"review"}]
    /\ Needs \in [Exits -> {"nothing", "passed", "failed"}]
    /\ MaxRollbacks \in Nat

ASSUME FiniteAssumption == IsFiniteSet(Reviewers)

VARIABLES
    at,          \* where the project is
    vote,        \* its rows of project_state_reviews, by reviewer
    flags,       \* what the gate left in the project's data
    submitting,  \* reviewers whose vote is written and not yet counted
    answered,    \* whether a reviewer was answered that all have voted
    task,        \* what each execution has read and decided
    rollbacks    \* rollbacks from the review state so far

vars == <<at, vote, flags, submitting, answered, task, rollbacks>>
-----------------------------------------------------------------------------
(***************************************************************************)
(* `epoch' is the number of rollbacks before the vote was cast; the table  *)
(* has the time of the vote instead.  A patch is what the gate adds to the *)
(* project's data; `roles' and `epochs' say whose votes it counted and     *)
(* `epoch' when (the code keeps no such thing).                            *)
(***************************************************************************)
Ballots == [role : ReviewerRoles, grade : Grades, epoch : Nat]

Patches == [result : {"passed", "failed"}, total : Nat,
            roles : SUBSET ReviewerRoles, epochs : SUBSET Nat, epoch : Nat]

NoFlags == [set |-> FALSE]
Recorded == [set : {TRUE}, patch : Patches]
Flags == {NoFlags} \cup Recorded

Idle == [step |-> "idle"]
Tasks == {Idle}
         \cup [step : {"looked"}, seen : Flags]
         \cup [step : {"gated"}, exit : Exits, patch : Patches]

TypeOK ==
    /\ at \in Places
    /\ DOMAIN vote \subseteq Reviewers
    /\ \A r \in DOMAIN vote : vote[r] \in Ballots
    /\ flags \in Flags
    /\ submitting \subseteq Reviewers
    /\ answered \in {"nobody", "somebody", "lost"}
    /\ task \in [Staff -> Tasks]
    /\ rollbacks \in Nat

Init ==
    /\ at = "work"
    /\ vote = [r \in {} |-> {}]
    /\ flags = NoFlags
    /\ submitting = {}
    /\ answered = "nobody"
    /\ task = [s \in Staff |-> Idle]
    /\ rollbacks = 0
-----------------------------------------------------------------------------
Voters == DOMAIN vote

\* The number of votes that are enough; 0 stands for the number of roles.
Required == IF MinReviewers <= 0 THEN Cardinality(ReviewerRoles)
            ELSE MinReviewers

AllVoted == Cardinality(Voters) >= Required

With(grade) == {r \in Voters : vote[r].grade = grade}

Score(r) == vote[r].grade

\* The average is at least passing_score; a tie of decisions is a pass.
Passes ==
    IF GradeType = "score"
    THEN MapThenSumSet(Score, Voters) >= PassingScore * Cardinality(Voters)
    ELSE Cardinality(With("approved")) >= Cardinality(With("rejected"))

\* The first of the caller's roles that is a reviewer role.
Matched(r, role) ==
    \E i \in DOMAIN RolesOf[r] :
        /\ role = RolesOf[r][i]
        /\ \A j \in 1 .. i - 1 : RolesOf[r][j] \notin ReviewerRoles

(***************************************************************************)
(* SubmitReview checks the role and the grade, and never where the project *)
(* is.  The row of a reviewer is overwritten.                              *)
(***************************************************************************)
Upsert(r, ballot) ==
    vote' = [q \in Voters \cup {r} |-> IF q = r THEN ballot ELSE vote[q]]

\* A plausible bug: the votes are counted before the new one is written.
CountThenUpsert(r, role, grade) ==
    /\ Matched(r, role)
    /\ r \notin submitting
    /\ Upsert(r, [role |-> role, grade |-> grade, epoch |-> rollbacks])
    /\ answered' = IF AllVoted THEN "somebody" ELSE answered
    /\ UNCHANGED <<at, flags, submitting, task, rollbacks>>

SubmitReview(r, role, grade) ==
    /\ Matched(r, role)
    /\ r \notin submitting
    /\ Upsert(r, [role |-> role, grade |-> grade, epoch |-> rollbacks])
    /\ submitting' = submitting \cup {r}
    /\ UNCHANGED <<at, flags, answered, task, rollbacks>>

\* The second half of SubmitReview: count, and answer the reviewer.
ComputeSummary(r) ==
    /\ r \in submitting
    /\ submitting' = submitting \ {r}
    /\ answered' = IF AllVoted THEN "somebody" ELSE answered
    /\ UNCHANGED <<at, vote, flags, task, rollbacks>>

\* The answer is lost: the count fails, or the reviewer's call breaks.
LoseAnswer(r) ==
    /\ r \in submitting
    /\ submitting' = submitting \ {r}
    /\ answered' = IF answered = "nobody" THEN "lost" ELSE answered
    /\ UNCHANGED <<at, vote, flags, task, rollbacks>>
-----------------------------------------------------------------------------
\* A student's transition into the review state.
Enter ==
    /\ at = "work"
    /\ at' = "review"
    /\ UNCHANGED <<vote, flags, submitting, answered, task, rollbacks>>

\* ExecuteTransition fetches the project: its state and its data.
GetProjectRuntime(s) ==
    /\ task[s] = Idle
    /\ at = "review"
    /\ task' = [task EXCEPT ![s] = [step |-> "looked", seen |-> flags]]
    /\ UNCHANGED <<at, vote, flags, submitting, answered, rollbacks>>

\* A plausible bug: a transition without conditions waits for a flag.
AllowedByFlag(exit, seen) == seen.set /\ seen.patch.result = Needs[exit]

(***************************************************************************)
(* evaluateCondition, on the data fetched before the gate runs: an absent  *)
(* flag fails the condition.                                               *)
(***************************************************************************)
Allowed(exit, seen) ==
    \/ Needs[exit] = "nothing"
    \/ /\ seen.set
       /\ seen.patch.result = Needs[exit]

\* A plausible bug: a failed vote keeps the result it had before it ended.
PatchPending == [result |-> IF Passes THEN "passed" ELSE "pending",
                 total |-> Cardinality(Voters),
                 roles |-> {vote[r].role : r \in Voters},
                 epochs |-> {vote[r].epoch : r \in Voters},
                 epoch |-> rollbacks]

\* The data the gate adds to the project.
Patch == [result |-> IF Passes THEN "passed" ELSE "failed",
          total |-> Cardinality(Voters),
          roles |-> {vote[r].role : r \in Voters},
          epochs |-> {vote[r].epoch : r \in Voters},
          epoch |-> rollbacks]

\* A plausible bug: the gate records the count and does not block on it.
RecordOnly == TRUE

\* What makes the gate succeed, and with it every PRE action of the exit.
GateOpens == AllVoted

\* The engine: the conditions of the exit, then the gate on ON_EXIT.
ReviewGateExecute(s, exit) ==
    /\ task[s].step = "looked"
    /\ Allowed(exit, task[s].seen)
    /\ s \in Finalizers
    /\ GateOpens
    /\ task' = [task EXCEPT ![s] = [step |-> "gated", exit |-> exit,
                                    patch |-> Patch]]
    /\ UNCHANGED <<at, vote, flags, submitting, answered, rollbacks>>

\* CommitTransition: the move and the merge of the patch, if the project is
\* still where the execution found it.
CommitTransition(s) ==
    /\ task[s].step = "gated"
    /\ at = "review"
    /\ at' = To[task[s].exit]
    /\ flags' = [set |-> TRUE, patch |-> task[s].patch]
    /\ task' = [task EXCEPT ![s] = Idle]
    /\ UNCHANGED <<vote, submitting, answered, rollbacks>>

\* A refused, failed or lost execution.
Abandon(s) ==
    /\ task[s] # Idle
    /\ task' = [task EXCEPT ![s] = Idle]
    /\ UNCHANGED <<at, vote, flags, submitting, answered, rollbacks>>
-----------------------------------------------------------------------------
(***************************************************************************)
(* AdvanceProjectWorkflow, SetProjectWorkflowState and admin_service's     *)
(* AdvanceProjectByWorkflowEvent evaluate no condition and run no gate.    *)
(***************************************************************************)
AdminMove(place) ==
    /\ place # at
    /\ at' = place
    /\ UNCHANGED <<vote, flags, submitting, answered, task, rollbacks>>

\* RollbackProjectWorkflow from the review state: the votes stay.
RollbackProjectWorkflow ==
    /\ at = "review"
    /\ rollbacks < MaxRollbacks
    /\ at' = "work"
    /\ rollbacks' = rollbacks + 1
    /\ UNCHANGED <<vote, flags, submitting, answered, task>>
-----------------------------------------------------------------------------
Vote ==
    \E r \in Reviewers :
        \/ \E role \in ReviewerRoles, grade \in Grades :
               SubmitReview(r, role, grade)
        \/ ComputeSummary(r)
        \/ LoseAnswer(r)

Finalize ==
    \E s \in Staff :
        \/ GetProjectRuntime(s)
        \/ \E exit \in Exits : ReviewGateExecute(s, exit)
        \/ CommitTransition(s)
        \/ Abandon(s)

Next ==
    \/ Vote
    \/ Enter
    \/ Finalize
    \/ \E place \in Places : AdminMove(place)
    \/ RollbackProjectWorkflow

Spec == Init /\ [][Next]_vars

(***************************************************************************)
(* The finalizers keep trying, whatever becomes of their calls, and one of *)
(* infinitely many executions gets through.                                *)
(***************************************************************************)
Persistence ==
    \A s \in Finalizers :
        /\ WF_vars(GetProjectRuntime(s))
        /\ SF_vars(\E exit \in Exits : ReviewGateExecute(s, exit))
        /\ SF_vars(CommitTransition(s))

FairSpec == Spec /\ Persistence
-----------------------------------------------------------------------------
\* Enough votes, said without the code's count.
Enough == \E some \in SUBSET Voters : Cardinality(some) = Required

(***************************************************************************)
(* When enough votes are in and every reviewer has his answer, one of the  *)
(* answers said so, however the votes interleaved: nobody is left waiting  *)
(* for a finalizer who was never told.  A lost answer is the one excuse.   *)
(***************************************************************************)
SomebodyIsTold ==
    Voters # {} /\ Enough /\ submitting = {} => answered # "nobody"

(***************************************************************************)
(* A verdict in the project's data, or on its way there, counted enough    *)
(* votes, and votes that are still there: the gate is never passed on      *)
(* fewer, whatever happens between the count and the commit.               *)
(***************************************************************************)
Founded(patch, votes) ==
    /\ patch.total >= Required
    /\ patch.total <= votes
    /\ patch.roles # {} \/ patch.total = 0

VerdictNeedsVotes ==
    /\ flags.set => Founded(flags.patch, Cardinality(Voters))
    /\ \A s \in Staff : task[s].step = "gated" =>
           Founded(task[s].patch, Cardinality(Voters))

(***************************************************************************)
(* A project whose reviewers have voted is finalized, or moved by an       *)
(* administrator.  It holds where an exit has no condition on the flags.   *)
(***************************************************************************)
VotedIsFinalized == (at = "review" /\ Enough) ~> (at # "review")

(***************************************************************************)
(* With min_reviewers = 0 a verdict counts a vote of every reviewer role.  *)
(* The code counts votes, of whatever role.                                *)
(***************************************************************************)
EveryRoleVoted ==
    MinReviewers = 0 /\ flags.set => flags.patch.roles = ReviewerRoles

(***************************************************************************)
(* A verdict counts no vote cast before the last rollback.  The code keeps *)
(* the votes over a rollback.                                              *)
(***************************************************************************)
OldVotesDoNotDecide ==
    flags.set => flags.patch.epochs \subseteq {flags.patch.epoch}
=============================================================================
