----------------------------- MODULE PeopleProofs -----------------------------
(***************************************************************************)
(* Proofs about the two places where a project waits for what people       *)
(* decide: the vote on a review state (ReviewGate, in the first half) and  *)
(* the choice of a supervisor (SupervisorRequests, in the second half).    *)
(* Neither model reads a variable of the other.                            *)
(***************************************************************************)
EXTENDS ReviewGate, SupervisorRequests, FiniteSetTheorems, TLAPS

\* Votes come from the reviewers, of whom there are finitely many.
LEMMA FiniteVoters == TypeOK => IsFiniteSet(Voters)
BY FiniteAssumption, FS_Subset DEF TypeOK, Voters

\* The code's count agrees with what enough votes are.
LEMMA CountIsEnough == TypeOK /\ Enough => AllVoted
<1> SUFFICES ASSUME TypeOK, Enough PROVE AllVoted
    OBVIOUS
<1>1. IsFiniteSet(Voters)
    BY FiniteVoters
<1>2. PICK some \in SUBSET Voters : Cardinality(some) = Required
    BY DEF Enough
<1>3. IsFiniteSet(some) /\ Cardinality(some) <= Cardinality(Voters)
    BY <1>1, FS_Subset
<1>4. Cardinality(some) \in Nat /\ Cardinality(Voters) \in Nat
    BY <1>1, <1>3, FS_CardinalityType
<1> QED
    BY <1>2, <1>3, <1>4 DEF AllVoted

\* What the gate would record now is a patch.
LEMMA PatchType == TypeOK => Patch \in Patches
<1> SUFFICES ASSUME TypeOK PROVE Patch \in Patches
    OBVIOUS
<1>1. Cardinality(Voters) \in Nat
    BY FiniteVoters, FS_CardinalityType
<1>2. {vote[r].role : r \in Voters} \subseteq ReviewerRoles
    BY DEF TypeOK, Voters, Ballots
<1>3. {vote[r].epoch : r \in Voters} \subseteq Nat
    BY DEF TypeOK, Voters, Ballots
<1>4. rollbacks \in Nat
    BY DEF TypeOK
<1> QED
    BY <1>1, <1>2, <1>3, <1>4 DEF Patch, Patches

-----------------------------------------------------------------------------
LEMMA InitTypes == Init => TypeOK
BY ReviewAssumption DEF Init, TypeOK, Places, Flags, Tasks, Idle

LEMMA StepTypes == TypeOK /\ [Next]_vars => TypeOK'
<1> SUFFICES ASSUME TypeOK, [Next]_vars PROVE TypeOK'
    OBVIOUS
<1> USE DEF TypeOK
<1>1. ASSUME NEW r \in Reviewers, NEW role \in ReviewerRoles,
             NEW grade \in Grades, SubmitReview(r, role, grade)
      PROVE  TypeOK'
  <2>1. [role |-> role, grade |-> grade, epoch |-> rollbacks] \in Ballots
      BY DEF Ballots
  <2>2. DOMAIN vote' \subseteq Reviewers
      BY <1>1 DEF SubmitReview, Upsert, Voters
  <2>3. \A q \in DOMAIN vote' : vote'[q] \in Ballots
      BY <1>1, <2>1 DEF SubmitReview, Upsert, Voters
  <2> QED
      BY <1>1, <2>2, <2>3 DEF SubmitReview
<1>2. ASSUME NEW r \in Reviewers, ComputeSummary(r) PROVE TypeOK'
    BY <1>2 DEF ComputeSummary
<1>3. ASSUME NEW r \in Reviewers, LoseAnswer(r) PROVE TypeOK'
    BY <1>3 DEF LoseAnswer
<1>4. CASE Enter
    BY <1>4 DEF Enter, Places
<1>5. ASSUME NEW s \in Staff, GetProjectRuntime(s) PROVE TypeOK'
    BY <1>5 DEF GetProjectRuntime, Tasks
<1>6. ASSUME NEW s \in Staff, NEW exit \in Exits, ReviewGateExecute(s, exit)
      PROVE  TypeOK'
  <2>1. [step |-> "gated", exit |-> exit, patch |-> Patch] \in Tasks
      BY PatchType DEF Tasks
  <2> QED
      BY <1>6, <2>1 DEF ReviewGateExecute
<1>7. ASSUME NEW s \in Staff, CommitTransition(s) PROVE TypeOK'
  <2>1. task[s].exit \in Exits /\ task[s].patch \in Patches
      BY <1>7 DEF CommitTransition, Tasks, Idle
  <2>2. at' \in Places
      BY <1>7, <2>1, ReviewAssumption DEF CommitTransition
  <2>3. flags' \in Flags
      BY <1>7, <2>1 DEF CommitTransition, Flags, Recorded
  <2> QED
      BY <1>7, <2>2, <2>3 DEF CommitTransition, Tasks
<1>8. ASSUME NEW s \in Staff, Abandon(s) PROVE TypeOK'
    BY <1>8 DEF Abandon, Tasks
<1>9. ASSUME NEW place \in Places, AdminMove(place) PROVE TypeOK'
    BY <1>9 DEF AdminMove
<1>10. CASE RollbackProjectWorkflow
    BY <1>10 DEF RollbackProjectWorkflow, Places
<1>11. CASE UNCHANGED vars
    BY <1>11 DEF vars
<1> QED
    BY <1>1, <1>2, <1>3, <1>4, <1>5, <1>6, <1>7, <1>8, <1>9, <1>10, <1>11
    DEF Next, Vote, Finalize

(***************************************************************************)
(* The rows, the flags and every execution in flight keep their types.     *)
(***************************************************************************)
THEOREM TypeCorrect == Spec => []TypeOK
BY InitTypes, StepTypes, PTL DEF Spec
-----------------------------------------------------------------------------
\* A step that leaves the votes alone leaves alone what is said of them.
LEMMA SameVotes ==
    ASSUME vote' = vote
    PROVE  Voters' = Voters /\ Enough' = Enough
BY DEF Voters, Enough, Required

LEMMA StepTold ==
    TypeOK /\ SomebodyIsTold /\ [Next]_vars => SomebodyIsTold'
<1> SUFFICES ASSUME TypeOK, SomebodyIsTold, [Next]_vars,
                    Voters' # {}, Enough', submitting' = {}
             PROVE  answered' # "nobody"
    BY DEF SomebodyIsTold
<1> USE DEF SomebodyIsTold
<1>1. ASSUME NEW r \in Reviewers, NEW role \in ReviewerRoles,
             NEW grade \in Grades, SubmitReview(r, role, grade)
      PROVE  FALSE
    BY <1>1 DEF SubmitReview
<1>2. ASSUME NEW r \in Reviewers, ComputeSummary(r)
      PROVE  answered' = "somebody"
    BY <1>2, SameVotes, CountIsEnough DEF ComputeSummary
<1>3. ASSUME NEW r \in Reviewers, LoseAnswer(r)
      PROVE  answered' # "nobody"
    BY <1>3 DEF LoseAnswer
<1>4. ASSUME UNCHANGED <<vote, submitting, answered>>
      PROVE  answered' # "nobody"
    BY <1>4, SameVotes
<1>5. \/ Vote
      \/ UNCHANGED <<vote, submitting, answered>>
    BY DEF Next, Enter, Finalize, GetProjectRuntime, ReviewGateExecute,
           CommitTransition, Abandon, AdminMove, RollbackProjectWorkflow, vars
<1> QED
    BY <1>1, <1>2, <1>3, <1>4, <1>5 DEF Vote

(***************************************************************************)
(* Of the reviewers whose answers arrive, one learns that enough votes are *)
(* in: the write comes before the count in each of them, so the last count *)
(* sees every vote.                                                        *)
(***************************************************************************)
THEOREM LastVoterIsTold == Spec => []SomebodyIsTold
<1>1. Init => SomebodyIsTold
    BY DEF Init, SomebodyIsTold, Voters
<1> QED
    BY <1>1, InitTypes, StepTypes, StepTold, PTL DEF Spec
-----------------------------------------------------------------------------
\* No step takes a vote away.
LEMMA VotesStay == TypeOK /\ [Next]_vars => Voters \subseteq Voters'
<1> SUFFICES ASSUME [Next]_vars PROVE Voters \subseteq Voters'
    OBVIOUS
<1>1. ASSUME NEW r \in Reviewers, NEW role \in ReviewerRoles,
             NEW grade \in Grades, SubmitReview(r, role, grade)
      PROVE  Voters \subseteq Voters'
    BY <1>1 DEF SubmitReview, Upsert, Voters
<1>2. CASE vote' = vote
    BY <1>2, SameVotes
<1> QED
    BY <1>1, <1>2
    DEF Next, Vote, ComputeSummary, LoseAnswer, Enter, Finalize,
        GetProjectRuntime, ReviewGateExecute, CommitTransition, Abandon,
        AdminMove, RollbackProjectWorkflow, vars

\* So the count only grows, and a founded patch stays founded.
LEMMA FoundedStays ==
    ASSUME TypeOK, [Next]_vars
    PROVE  \A patch \in Patches :
               Founded(patch, Cardinality(Voters)) =>
                   Founded(patch, Cardinality(Voters'))
<1>1. TypeOK'
    BY StepTypes
<1>2. IsFiniteSet(Voters')
    BY <1>1, FiniteAssumption, FS_Subset DEF TypeOK, Voters
<1>3. Voters \subseteq Voters' /\ IsFiniteSet(Voters)
    BY VotesStay, FiniteVoters
<1>4. Cardinality(Voters) <= Cardinality(Voters')
    BY <1>2, <1>3, FS_Subset
<1>5. Cardinality(Voters) \in Nat /\ Cardinality(Voters') \in Nat
    BY <1>2, <1>3, FS_CardinalityType
<1> QED
    BY <1>4, <1>5 DEF Founded, Patches

\* A patch the gate makes is founded.
LEMMA GateIsFounded ==
    ASSUME TypeOK, AllVoted
    PROVE  Founded(Patch, Cardinality(Voters))
<1>1. IsFiniteSet(Voters)
    BY FiniteVoters
<1>2. Cardinality(Voters) \in Nat /\ (Cardinality(Voters) = 0 <=> Voters = {})
    BY <1>1, FS_CardinalityType, FS_EmptySet
<1>3. Voters # {} => {vote[r].role : r \in Voters} # {}
    OBVIOUS
<1> QED
    BY <1>2, <1>3 DEF Founded, Patch, AllVoted

LEMMA StepVerdict ==
    TypeOK /\ VerdictNeedsVotes /\ [Next]_vars => VerdictNeedsVotes'
<1> SUFFICES ASSUME TypeOK, VerdictNeedsVotes, [Next]_vars
             PROVE  VerdictNeedsVotes'
    OBVIOUS
<1>1. flags.set => Founded(flags.patch, Cardinality(Voters'))
  <2>1. ASSUME flags.set PROVE flags.patch \in Patches
    <3>1. flags # NoFlags
      <4>1. NoFlags.set = FALSE
          BY DEF NoFlags
      <4> QED
          BY <2>1, <4>1, Zenon
    <3> QED
        BY <3>1 DEF TypeOK, Flags, Recorded
  <2> QED
      BY <2>1, FoundedStays DEF VerdictNeedsVotes
<1>2. \A s \in Staff : task[s].step = "gated" =>
          Founded(task[s].patch, Cardinality(Voters'))
  <2>1. \A s \in Staff : task[s].step = "gated" => task[s].patch \in Patches
      BY DEF TypeOK, Tasks, Idle
  <2> QED
      BY <2>1, FoundedStays DEF VerdictNeedsVotes
<1>3. ASSUME NEW s \in Staff, NEW exit \in Exits, ReviewGateExecute(s, exit)
      PROVE  VerdictNeedsVotes'
  <2>1. Founded(Patch, Cardinality(Voters)) /\ Patch \in Patches
      BY <1>3, GateIsFounded, PatchType DEF ReviewGateExecute, GateOpens
  <2>2. PICK patch : patch = Patch
      OBVIOUS
  <2>3. Founded(patch, Cardinality(Voters'))
      BY <2>1, <2>2, FoundedStays
  <2>4. task' = [task EXCEPT ![s] = [step |-> "gated", exit |-> exit,
                                     patch |-> patch]]
      BY <1>3, <2>2 DEF ReviewGateExecute
  <2>5. \A t \in Staff : task'[t].step = "gated" =>
            Founded(task'[t].patch, Cardinality(Voters'))
      BY <1>2, <2>3, <2>4 DEF TypeOK
  <2> QED
      BY <1>1, <1>3, <2>5 DEF VerdictNeedsVotes, ReviewGateExecute
<1>4. ASSUME NEW s \in Staff, CommitTransition(s) PROVE VerdictNeedsVotes'
  <2>1. Founded(flags'.patch, Cardinality(Voters'))
      BY <1>2, <1>4 DEF CommitTransition
  <2>2. \A t \in Staff : task'[t] \in {Idle, task[t]}
      BY <1>4 DEF CommitTransition, TypeOK
  <2>3. \A t \in Staff : task'[t].step = "gated" =>
            Founded(task'[t].patch, Cardinality(Voters'))
      BY <1>2, <2>2 DEF Idle
  <2> QED
      BY <2>1, <2>3 DEF VerdictNeedsVotes
<1>5. ASSUME flags' = flags,
             \A t \in Staff : task'[t].step = "gated" => task'[t] = task[t]
      PROVE  VerdictNeedsVotes'
  <2>1. \A t \in Staff : task'[t].step = "gated" =>
            Founded(task'[t].patch, Cardinality(Voters'))
      BY <1>2, <1>5
  <2> QED
      BY <1>1, <1>5, <2>1 DEF VerdictNeedsVotes
<1>6. ASSUME NEW s \in Staff, GetProjectRuntime(s) \/ Abandon(s)
      PROVE  VerdictNeedsVotes'
  <2>1. \A t \in Staff : task'[t].step = "gated" => task'[t] = task[t]
      BY <1>6 DEF GetProjectRuntime, Abandon, Idle, TypeOK
  <2> QED
      BY <1>5, <1>6, <2>1 DEF GetProjectRuntime, Abandon
<1>7. CASE UNCHANGED <<flags, task>>
    BY <1>5, <1>7
<1> QED
    BY <1>3, <1>4, <1>6, <1>7
    DEF Next, Vote, SubmitReview, ComputeSummary, LoseAnswer, Enter, Finalize,
        AdminMove, RollbackProjectWorkflow, vars

(***************************************************************************)
(* No verdict is recorded, or under way, on fewer votes than the review    *)
(* configuration asks for.                                                 *)
(***************************************************************************)
THEOREM VerdictFounded == Spec => []VerdictNeedsVotes
<1>1. Init => VerdictNeedsVotes
    BY DEF Init, VerdictNeedsVotes, NoFlags, Idle
<1> QED
    BY <1>1, InitTypes, StepTypes, StepVerdict, PTL DEF Spec
-----------------------------------------------------------------------------
\* Nobody has got through the gate, and nobody has seen that anybody did.
NobodyPassed ==
    /\ ~flags.set
    /\ \A s \in Staff : task[s].step # "gated"

ShutInv ==
    /\ NobodyPassed
    /\ \A s \in Staff : task[s].step = "looked" => ~task[s].seen.set

(***************************************************************************)
(* VotedIsFinalized needs an exit without a condition on the flags.  Where *)
(* every exit has one, no execution ever gets through the gate, whoever    *)
(* votes, tries and rolls back: the conditions are evaluated on the data   *)
(* fetched before the gate runs, and only the gate's own commit would put  *)
(* the flags there.  Only an administrator gets such a project out of its  *)
(* review state.                                                           *)
(***************************************************************************)
THEOREM ConditionedExitsStayShut ==
    ASSUME \A exit \in Exits : Needs[exit] # "nothing"
    PROVE  Spec => []NobodyPassed
<1>1. NoFlags.set = FALSE /\ Idle.step = "idle"
    BY DEF NoFlags, Idle
<1>2. Init => ShutInv
    BY <1>1 DEF Init, ShutInv, NobodyPassed
<1>3. TypeOK /\ ShutInv /\ [Next]_vars => ShutInv'
  <2> SUFFICES ASSUME TypeOK, ShutInv, [Next]_vars PROVE ShutInv'
      OBVIOUS
  <2>1. ASSUME NEW s \in Staff, GetProjectRuntime(s) PROVE ShutInv'
    <3>1. ~flags.set
        BY DEF ShutInv, NobodyPassed
    <3>2. /\ task'[s].step = "looked" /\ task'[s].seen = flags
          /\ \A t \in Staff \ {s} : task'[t] = task[t]
        BY <2>1 DEF GetProjectRuntime, TypeOK
    <3>3. \A t \in Staff : task'[t].step # "gated"
        BY <3>2 DEF ShutInv, NobodyPassed
    <3>4. \A t \in Staff : task'[t].step = "looked" => ~task'[t].seen.set
      <4>1. \A t \in Staff \ {s} : task'[t].step = "looked" => ~task'[t].seen.set
          BY <3>2 DEF ShutInv
      <4>2. ~task'[s].seen.set
          BY <3>1, <3>2, Zenon
      <4> QED
          BY <4>1, <4>2, Zenon
    <3> QED
        BY <2>1, <3>1, <3>3, <3>4 DEF GetProjectRuntime, ShutInv, NobodyPassed
  <2>2. ASSUME NEW s \in Staff, NEW exit \in Exits, ReviewGateExecute(s, exit)
        PROVE  FALSE
      BY <2>2 DEF ReviewGateExecute, Allowed, ShutInv
  <2>3. ASSUME NEW s \in Staff, CommitTransition(s) PROVE FALSE
      BY <2>3 DEF CommitTransition, ShutInv, NobodyPassed
  <2>4. ASSUME NEW s \in Staff, Abandon(s) PROVE ShutInv'
    <3>1. \A t \in Staff : task'[t] \in {Idle, task[t]}
        BY <2>4 DEF Abandon, TypeOK
    <3> QED
        BY <1>1, <2>4, <3>1 DEF Abandon, ShutInv, NobodyPassed
  <2>5. CASE UNCHANGED <<flags, task>>
      BY <2>5 DEF ShutInv, NobodyPassed
  <2> QED
      BY <2>1, <2>2, <2>3, <2>4, <2>5
      DEF Next, Vote, SubmitReview, ComputeSummary, LoseAnswer, Enter,
          Finalize, AdminMove, RollbackProjectWorkflow, vars
<1>4. ShutInv => NobodyPassed
    BY DEF ShutInv
<1> QED
    BY <1>2, <1>3, <1>4, InitTypes, StepTypes, PTL DEF Spec
-----------------------------------------------------------------------------
(***************************************************************************)
(* Roles.  With min_reviewers = 0 the code means a vote of every reviewer  *)
(* role and counts votes, so EveryRoleVoted has a counterexample.  Here is *)
(* when it holds: a department in which no role has two reviewers.  Then a *)
(* reviewer's vote stands for his role alone, and as many votes as roles   *)
(* are the votes of all of them, however often they are overwritten.       *)
(***************************************************************************)
OneReviewerPerRole ==
    \A role \in ReviewerRoles : \A r, q \in Reviewers :
        Matched(r, role) /\ Matched(q, role) => r = q

VotesAreMatched == \A r \in Voters : Matched(r, vote[r].role)

RolesAreComplete ==
    MinReviewers = 0 =>
        /\ flags.set => flags.patch.roles = ReviewerRoles
        /\ \A s \in Staff : task[s].step = "gated" =>
               task[s].patch.roles = ReviewerRoles

RolesInv == VotesAreMatched /\ RolesAreComplete

\* When the count is enough, the votes are those of all roles.
LEMMA VotesOfAllRoles ==
    ASSUME OneReviewerPerRole, IsFiniteSet(ReviewerRoles),
           TypeOK, VotesAreMatched, AllVoted, MinReviewers = 0
    PROVE  Patch.roles = ReviewerRoles
<1> DEFINE f == [r \in Voters |-> vote[r].role]
<1>1. \A r \in Voters : r \in Reviewers /\ vote[r].role \in ReviewerRoles
    BY DEF TypeOK, Voters, Ballots
<1>2. f \in Injection(Voters, ReviewerRoles)
  <2>1. f \in [Voters -> ReviewerRoles]
      BY <1>1
  <2>2. \A r, q \in Voters : f[r] = f[q] => r = q
      BY <1>1 DEF VotesAreMatched, OneReviewerPerRole
  <2> QED
      BY <2>1, <2>2 DEF Injection, IsInjective
<1>3. IsFiniteSet(Voters)
    BY FiniteVoters
<1>4. Cardinality(Voters) >= Cardinality(ReviewerRoles)
    BY DEF AllVoted, Required
<1>5. Cardinality(Voters) \in Nat /\ Cardinality(ReviewerRoles) \in Nat
    BY <1>3, FS_CardinalityType
<1> HIDE DEF f
<1>6. f \in Surjection(Voters, ReviewerRoles)
    BY <1>2, <1>4, <1>5, FS_Injection
<1>7. \A role \in ReviewerRoles : \E r \in Voters : f[r] = role
    BY <1>6 DEF Surjection
<1>8. \A role \in ReviewerRoles : \E r \in Voters : vote[r].role = role
    BY <1>7 DEF f
<1> QED
    BY <1>1, <1>8 DEF Patch

LEMMA StepMatched ==
    TypeOK /\ VotesAreMatched /\ [Next]_vars => VotesAreMatched'
<1> SUFFICES ASSUME TypeOK, VotesAreMatched, [Next]_vars
             PROVE  VotesAreMatched'
    OBVIOUS
<1>1. ASSUME NEW r \in Reviewers, NEW role \in ReviewerRoles,
             NEW grade \in Grades, SubmitReview(r, role, grade)
      PROVE  VotesAreMatched'
  <2>1. /\ Voters' = Voters \cup {r} /\ vote'[r].role = role
        /\ \A q \in Voters \ {r} : vote'[q] = vote[q]
      BY <1>1 DEF SubmitReview, Upsert, Voters
  <2> QED
      BY <1>1, <2>1 DEF VotesAreMatched, SubmitReview, Matched
<1>2. CASE vote' = vote
    BY <1>2, SameVotes DEF VotesAreMatched, Matched
<1> QED
    BY <1>1, <1>2
    DEF Next, Vote, ComputeSummary, LoseAnswer, Enter, Finalize,
        GetProjectRuntime, ReviewGateExecute, CommitTransition, Abandon,
        AdminMove, RollbackProjectWorkflow, vars

THEOREM OneReviewerPerRoleSuffices ==
    ASSUME OneReviewerPerRole, IsFiniteSet(ReviewerRoles)
    PROVE  Spec => []EveryRoleVoted
<1>1. Init => RolesInv
    BY DEF Init, RolesInv, VotesAreMatched, RolesAreComplete, Voters,
           NoFlags, Idle
<1>2. TypeOK /\ RolesInv /\ [Next]_vars => RolesInv'
  <2> SUFFICES ASSUME TypeOK, RolesInv, [Next]_vars, MinReviewers = 0
               PROVE  RolesAreComplete'
      BY StepMatched DEF RolesInv, RolesAreComplete
  <2>0. RolesAreComplete
      BY DEF RolesInv
  <2>1. ASSUME NEW s \in Staff, NEW exit \in Exits, ReviewGateExecute(s, exit)
        PROVE  RolesAreComplete'
    <3>1. Patch.roles = ReviewerRoles
        BY <2>1, VotesOfAllRoles DEF ReviewGateExecute, GateOpens, RolesInv
    <3>2. PICK patch : patch = Patch
        OBVIOUS
    <3>3. task' = [task EXCEPT ![s] = [step |-> "gated", exit |-> exit,
                                       patch |-> patch]]
        BY <2>1, <3>2 DEF ReviewGateExecute
    <3>4. \A t \in Staff : task'[t].step = "gated" =>
              task'[t].patch.roles = ReviewerRoles
        BY <2>0, <3>1, <3>2, <3>3 DEF RolesAreComplete, TypeOK
    <3> QED
        BY <2>0, <2>1, <3>4 DEF RolesAreComplete, ReviewGateExecute
  <2>2. ASSUME NEW s \in Staff, CommitTransition(s) PROVE RolesAreComplete'
    <3>1. flags'.patch.roles = ReviewerRoles
        BY <2>0, <2>2 DEF CommitTransition, RolesAreComplete
    <3>2. \A t \in Staff : task'[t] \in {Idle, task[t]}
        BY <2>2 DEF CommitTransition, TypeOK
    <3>3. \A t \in Staff : task'[t].step = "gated" =>
              task'[t].patch.roles = ReviewerRoles
        BY <2>0, <3>2 DEF Idle, RolesAreComplete
    <3> QED
        BY <3>1, <3>3 DEF RolesAreComplete
  <2>3. ASSUME NEW s \in Staff, GetProjectRuntime(s) \/ Abandon(s)
        PROVE  RolesAreComplete'
    <3>1. \A t \in Staff : task'[t].step = "gated" => task'[t] = task[t]
        BY <2>3 DEF GetProjectRuntime, Abandon, Idle, TypeOK
    <3> QED
        BY <2>0, <2>3, <3>1
        DEF RolesAreComplete, GetProjectRuntime, Abandon
  <2>4. CASE UNCHANGED <<flags, task>>
      BY <2>0, <2>4 DEF RolesAreComplete
  <2> QED
      BY <2>1, <2>2, <2>3, <2>4
      DEF Next, Vote, SubmitReview, ComputeSummary, LoseAnswer, Enter,
          Finalize, AdminMove, RollbackProjectWorkflow, vars
<1>3. RolesInv => EveryRoleVoted
    BY DEF RolesInv, RolesAreComplete, EveryRoleVoted
<1> QED
    BY <1>1, <1>2, <1>3, InitTypes, StepTypes, PTL DEF Spec
-----------------------------------------------------------------------------
\* The choice of a supervisor.

\* What is idle or absent is told apart by its tag.
LEMMA SelectionTags ==
    /\ NoWork.at = "idle" /\ Absent.status = "absent"
    /\ NoWork \notin Jobs /\ Absent \notin Entries
    /\ \A job \in Jobs : job.at \in Steps /\ job.at # "idle"
BY DEF NoWork, Absent, Jobs, Entries, Steps, Decided

\* The limits that can apply are numbers, and what a check takes is one.
LEMMA SelectionLimits ==
    /\ Limits \subseteq Nat /\ 0 \in Limits
    /\ SelectionTypeOK =>
         \A s \in Supervisors : EffectiveLimits(s) \subseteq Limits
BY LimitsAreNumbers DEF Limits, EffectiveLimits, SelectionTypeOK

\* A job is made of a team, a supervisor and what it names.
LEMMA SelectionMakes ==
    ASSUME NEW c, c.team \in Teams, c.supervisor \in Supervisors,
           c.names \in Names
    PROVE  /\ \A step \in Steps, k \in Rows \cup {None}, v \in Decided :
                Work(step, k, v, c) \in Jobs
           /\ \A status \in Decided \cup {"pending"} :
                Row(status, c) \in Entries
BY SelectionLimits DEF Work, Row, Jobs, Entries

\* What a loss of the project of t leaves of a request.
LEMMA SelectionLoss ==
    ASSUME NEW t \in Teams
    PROVE  /\ \A job \in Jobs :
                /\ Lose(t, job) \in Jobs
                /\ Lose(t, job).at = job.at /\ Lose(t, job).row = job.row
                /\ Lose(t, job).verdict = job.verdict
                /\ Lose(t, job).team = job.team
                /\ Lose(t, job).supervisor = job.supervisor
                /\ Lose(t, job).max = job.max
                /\ Lose(t, job).names = "none" <=> job.names = "none"
                /\ Lose(t, job).names = "project" =>
                     job.names = "project" /\ job.team # t
           /\ \A entry \in Entries :
                /\ Lose(t, entry) \in Entries
                /\ Lose(t, entry).status = entry.status
                /\ Lose(t, entry).team = entry.team
                /\ Lose(t, entry).names = "none" <=> entry.names = "none"
                /\ Lose(t, entry).names = "project" =>
                     entry.names = "project" /\ entry.team # t
           /\ Lose(t, NoWork) = NoWork /\ Lose(t, Absent) = Absent
<1>1. ASSUME NEW job \in Jobs
      PROVE  /\ Lose(t, job) \in Jobs
             /\ Lose(t, job).at = job.at /\ Lose(t, job).row = job.row
             /\ Lose(t, job).verdict = job.verdict
             /\ Lose(t, job).team = job.team
             /\ Lose(t, job).supervisor = job.supervisor
             /\ Lose(t, job).max = job.max
             /\ Lose(t, job).names = "none" <=> job.names = "none"
             /\ Lose(t, job).names = "project" =>
                  job.names = "project" /\ job.team # t
  <2>1. CASE job.team = t /\ job.names = "project"
    <3>1. job # NoWork /\ job # Absent
        BY DEF Jobs, NoWork, Absent
    <3>2. Lose(t, job) = [job EXCEPT !.names = "lost"]
        BY <2>1, <3>1 DEF Lose
    <3> QED
        BY <2>1, <3>2 DEF Jobs, Names
  <2>2. CASE ~(job.team = t /\ job.names = "project")
    <3>1. Lose(t, job) = job
        BY <2>2 DEF Lose
    <3> QED
        BY <2>2, <3>1
  <2> QED
      BY <2>1, <2>2
<1>2. ASSUME NEW entry \in Entries
      PROVE  /\ Lose(t, entry) \in Entries
             /\ Lose(t, entry).status = entry.status
             /\ Lose(t, entry).team = entry.team
             /\ Lose(t, entry).names = "none" <=> entry.names = "none"
             /\ Lose(t, entry).names = "project" =>
                  entry.names = "project" /\ entry.team # t
  <2>1. CASE entry.team = t /\ entry.names = "project"
    <3>1. entry # NoWork /\ entry # Absent
        BY DEF Entries, NoWork, Absent
    <3>2. Lose(t, entry) = [entry EXCEPT !.names = "lost"]
        BY <2>1, <3>1 DEF Lose
    <3> QED
        BY <2>1, <3>2 DEF Entries, Names
  <2>2. CASE ~(entry.team = t /\ entry.names = "project")
    <3>1. Lose(t, entry) = entry
        BY <2>2 DEF Lose
    <3> QED
        BY <2>2, <3>1
  <2> QED
      BY <2>1, <2>2
<1>3. Lose(t, NoWork) = NoWork /\ Lose(t, Absent) = Absent
    BY DEF Lose
<1> QED
    BY <1>1, <1>2, <1>3
-----------------------------------------------------------------------------
LEMMA SelectionInitTypes == SelectionInit => SelectionTypeOK
BY SelectionLimits, LimitsAreNumbers
DEF SelectionInit, SelectionTypeOK, ProjectStates

\* What a handler does keeps the types ...
LEMMA SelectionHandlerTypes ==
    ASSUME SelectionTypeOK, NEW h \in Handlers, Begin(h) \/ Proceed(h)
    PROVE  SelectionTypeOK'
<1> USE SelectionTags, SelectionLimits
    DEF SelectionTypeOK, Ask, GoTo, Answer, teams
<1>a. ASSUME request[h] \in Jobs, NEW step \in Steps
      PROVE  [request[h] EXCEPT !.at = step] \in Jobs
    BY <1>a DEF Jobs
<1>1. ASSUME NEW c \in Contents, CreateSupervisorRequest(h, c)
      PROVE  SelectionTypeOK'
  <2>1. Work("others", None, "declined", c) \in Jobs
      BY SelectionMakes DEF Steps, Decided, Contents
  <2> QED
      BY <1>1, <2>1 DEF CreateSupervisorRequest
<1>2. CASE LookForOthers(h)
    BY <1>2, <1>a DEF LookForOthers, Steps
<1>3. ASSUME NEW k \in Rows, InsertRequest(h, k) PROVE SelectionTypeOK'
  <2>1. request[h] \in Jobs
      BY <1>3 DEF InsertRequest
  <2>2. Row("pending", request[h]) \in Entries
      BY <2>1, SelectionMakes DEF Jobs
  <2> QED
      BY <1>3, <2>2 DEF InsertRequest
<1>4. ASSUME NEW k \in Rows, Decline(h, k) PROVE SelectionTypeOK'
  <2>1. row[k] \in Entries
      BY <1>4 DEF Decline
  <2>2. Work("save", k, "declined", row[k]) \in Jobs
      BY <2>1, SelectionMakes DEF Steps, Decided, Entries
  <2> QED
      BY <1>4, <2>2 DEF Decline
<1>5. ASSUME NEW k \in Rows, Approve(h, k) PROVE SelectionTypeOK'
  <2>1. row[k] \in Entries
      BY <1>5 DEF Approve
  <2>2. PICK names \in Names :
            request' = [request EXCEPT ![h] =
              Work("accept", k, "approved", [row[k] EXCEPT !.names = names])]
      BY <1>5, <2>1 DEF Approve, Names, Entries
  <2> DEFINE c == [row[k] EXCEPT !.names = names]
  <2>3. c.team \in Teams /\ c.supervisor \in Supervisors /\ c.names \in Names
      BY <2>1 DEF Entries
  <2>4. Work("accept", k, "approved", c) \in Jobs
      BY <2>3, SelectionMakes DEF Steps, Decided
  <2> QED
      BY <1>5, <2>2, <2>4 DEF Approve
<1>6. CASE CheckAccepted(h)
  <2>1. (IF request[h].names = "none" THEN "create" ELSE "assign") \in Steps
      BY DEF Steps
  <2> QED
      BY <1>6, <1>a, <2>1 DEF CheckAccepted
<1>7. CASE CreateProject(h)
  <2>1. request[h] \in Jobs
      BY <1>7 DEF CreateProject
  <2>2. [request[h] EXCEPT !.at = "move", !.names = "project"] \in Jobs
      BY <2>1 DEF Jobs, Steps, Names
  <2>3. project' \in [Teams -> ProjectStates]
      BY <1>7 DEF CreateProject, ProjectStates
  <2> QED
      BY <1>7, <2>2, <2>3 DEF CreateProject
<1>8. CASE MoveProject(h)
  <2>1. [request[h] EXCEPT !.at = "assign"] \in Jobs
      BY <1>8, <1>a DEF MoveProject, Steps
  <2>2. project' \in [Teams -> ProjectStates]
      BY <1>8 DEF MoveProject, ProjectStates
  <2> QED
      BY <1>8, <2>1, <2>2 DEF MoveProject
<1>9. ASSUME NEW t \in Teams, NEW s \in Supervisors,
             AppointSupervisor(h, [team |-> t, supervisor |-> s,
                                   names |-> "none"])
      PROVE  SelectionTypeOK'
  <2> DEFINE c == [team |-> t, supervisor |-> s, names |-> "none"]
  <2>1. Work("assign", None, "approved", c) \in Jobs
      BY SelectionMakes DEF Steps, Decided, Names
  <2> QED
      BY <1>9, <2>1 DEF AppointSupervisor
<1>10. CASE GetTeamContext(h)
    BY <1>10, <1>a DEF GetTeamContext, Steps
<1>11. CASE CheckSupervisorCapacity(h)
  <2>1. request[h] \in Jobs
      BY <1>11 DEF CheckSupervisorCapacity
  <2>2. PICK max \in Limits :
            request' = [request EXCEPT ![h] =
              [request[h] EXCEPT !.at = "lookup", !.max = max]]
      BY <1>11, <2>1 DEF CheckSupervisorCapacity, Jobs
  <2>3. [request[h] EXCEPT !.at = "lookup", !.max = max] \in Jobs
      BY <2>1 DEF Jobs, Steps
  <2> QED
      BY <1>11, <2>2, <2>3 DEF CheckSupervisorCapacity
<1>12. CASE GetSupervisorAssignment(h)
  <2>1. (IF assigned[request[h].team] = None THEN "first" ELSE "replace")
            \in Steps
      BY DEF Steps
  <2> QED
      BY <1>12, <1>a, <2>1 DEF GetSupervisorAssignment
<1>13. CASE WriteAssignment(h)
  <2>1. request[h] \in Jobs
      BY <1>13 DEF WriteAssignment
  <2>2. /\ request[h].team \in Teams /\ request[h].supervisor \in Supervisors
        /\ request[h].max \in Limits
        /\ [request[h] EXCEPT !.at = "save", !.max = 0] \in Jobs
      BY <2>1 DEF Jobs, Steps
  <2>3. request' \in [Handlers -> Jobs \cup {NoWork}]
      BY <1>13, <2>2 DEF WriteAssignment
  <2> QED
      BY <1>13, <2>2, <2>3 DEF WriteAssignment
<1>14. CASE UpdateSupervisorRequest(h)
  <2>1. request[h] \in Jobs
      BY <1>14 DEF UpdateSupervisorRequest
  <2>2. Row(request[h].verdict, request[h]) \in Entries
      BY <2>1, SelectionMakes DEF Jobs
  <2> QED
      BY <1>14, <2>2 DEF UpdateSupervisorRequest
<1>15. CASE GiveUp(h)
    BY <1>15 DEF GiveUp
<1> QED
    BY <1>1, <1>2, <1>3, <1>4, <1>5, <1>6, <1>7, <1>8, <1>9, <1>10, <1>11,
       <1>12, <1>13, <1>14, <1>15
    DEF Begin, Proceed

\* ... and so does what administrators do.
LEMMA SelectionAdminTypes ==
    ASSUME SelectionTypeOK, Administer
    PROVE  SelectionTypeOK'
<1> USE SelectionTags, SelectionLimits DEF SelectionTypeOK
<1>1. ASSUME NEW t \in Teams, NEW s \in Supervisors, UpdateTeamByAdmin(t, s)
      PROVE  SelectionTypeOK'
    BY <1>1 DEF UpdateTeamByAdmin
<1>2. ASSUME NEW t \in Teams, DeleteTeamByAdmin(t) PROVE SelectionTypeOK'
  <2>1. \A job \in Jobs : [job EXCEPT !.at = "first"] \in Jobs
      BY DEF Jobs, Steps
  <2>2. request' \in [Handlers -> Jobs \cup {NoWork}]
      BY <1>2, <2>1 DEF DeleteTeamByAdmin
  <2> QED
      BY <1>2, <2>2 DEF DeleteTeamByAdmin, Delete
<1>3. ASSUME NEW t \in Teams, DeleteTeam(t) PROVE SelectionTypeOK'
    BY <1>3 DEF DeleteTeam, Delete
<1>4. ASSUME NEW s \in Supervisors, NEW max \in 0..MaxLimit,
             UpdateSupervisorMaxTeams(s, max)
      PROVE  SelectionTypeOK'
    BY <1>4 DEF UpdateSupervisorMaxTeams
<1>5. ASSUME NEW t \in Teams, CreateProjectAdmin(t) PROVE SelectionTypeOK'
    BY <1>5 DEF CreateProjectAdmin, ProjectStates
<1>6. ASSUME NEW t \in Teams, LoseProject(t)
      PROVE  /\ row' \in [Rows -> Entries \cup {Absent}]
             /\ request' \in [Handlers -> Jobs \cup {NoWork}]
    BY <1>6, SelectionLoss DEF LoseProject
<1>7. ASSUME NEW t \in Teams, DeleteProject(t) PROVE SelectionTypeOK'
    BY <1>6, <1>7 DEF DeleteProject, LoseProject, ProjectStates
<1>8. ASSUME NEW t \in Teams, NEW other \in Teams, UpdateProject(t, other)
      PROVE  SelectionTypeOK'
    BY <1>6, <1>8 DEF UpdateProject, LoseProject, ProjectStates
<1>9. ASSUME NEW t \in Teams, UpdateTeam(t) PROVE SelectionTypeOK'
    BY <1>9 DEF UpdateTeam
<1> QED
    BY <1>1, <1>2, <1>3, <1>4, <1>5, <1>7, <1>8, <1>9 DEF Administer

LEMMA SelectionStepTypes ==
    SelectionTypeOK /\ [SelectionNext]_selectionVars => SelectionTypeOK'
<1>1. SelectionTypeOK /\ UNCHANGED selectionVars => SelectionTypeOK'
    BY DEF SelectionTypeOK, selectionVars, teams
<1> QED
    BY <1>1, SelectionHandlerTypes, SelectionAdminTypes DEF SelectionNext

(***************************************************************************)
(* The requests, assignments, limits and projects of the teams, and every  *)
(* handler in flight, keep their types.                                    *)
(***************************************************************************)
THEOREM SelectionTypeCorrect == SelectionSpec => []SelectionTypeOK
BY SelectionInitTypes, SelectionStepTypes, PTL DEF SelectionSpec
-----------------------------------------------------------------------------
\* A team has a supervisor until it is deleted.
Supervised(t) == assigned[t] # None \/ t \in gone

\* What a handler can rely on: the project that it or its request names is
\* there, and before it writes an approval the team has its supervisor.
WorkIsSound(h) ==
    LET r == request[h] IN
    r # NoWork =>
      /\ r.names = "project" => project[r.team] # "none"
      /\ r.at = "move" => r.names # "none"
      /\ r.at \in {"assign", "check", "lookup", "first", "replace"}
           /\ r.row # None => r.names # "none"
      /\ r.at = "save" /\ r.verdict = "approved" =>
           r.names # "none" /\ Supervised(r.team)

\* What a row says of its team is true.
RowIsSound(k) ==
    row[k] # Absent =>
      /\ row[k].names = "project" => project[row[k].team] # "none"
      /\ row[k].status = "approved" =>
           row[k].names # "none" /\ Supervised(row[k].team)

SelectionInv ==
    /\ SelectionTypeOK
    /\ \A h \in Handlers : WorkIsSound(h)
    /\ \A k \in Rows : RowIsSound(k)

\* A team keeps a supervisor as long as it is there.
LEMMA SelectionGrows ==
    ASSUME SelectionTypeOK, SelectionNext
    PROVE  \A t \in Teams : Supervised(t) => Supervised(t)'
<1> USE SelectionTags DEF SelectionTypeOK, Supervised, teams
<1>1. ASSUME NEW h \in Handlers, WriteAssignment(h)
      PROVE  \A t \in Teams : Supervised(t) => Supervised(t)'
  <2>1. request[h] \in Jobs
      BY <1>1 DEF WriteAssignment
  <2>2. request[h].supervisor # None
      BY <2>1, NoneIsNothing DEF Jobs
  <2> QED
      BY <1>1, <2>2 DEF WriteAssignment
<1>2. ASSUME NEW h \in Handlers, Begin(h) \/ Proceed(h)
      PROVE  WriteAssignment(h) \/ UNCHANGED <<assigned, gone>>
    BY <1>2
    DEF Begin, Proceed, CreateSupervisorRequest, LookForOthers, InsertRequest,
        Decline, Approve, CheckAccepted, CreateProject, MoveProject,
        AppointSupervisor, GetTeamContext, CheckSupervisorCapacity,
        GetSupervisorAssignment, UpdateSupervisorRequest, GiveUp
<1>3. CASE Administer
    BY <1>3, NoneIsNothing
    DEF Administer, UpdateTeamByAdmin, DeleteTeamByAdmin, DeleteTeam,
        Delete, UpdateTeam, UpdateSupervisorMaxTeams, CreateProjectAdmin, DeleteProject,
        UpdateProject, LoseProject
<1> QED
    BY <1>1, <1>2, <1>3 DEF SelectionNext

\* So a step that takes no project away preserves what is true of the
\* handlers and rows it leaves alone ...
LEMMA SelectionFrame ==
    ASSUME SelectionInv, SelectionNext,
           \A t \in Teams : project[t] # "none" => project'[t] # "none"
    PROVE  /\ \A h \in Handlers : request'[h] = request[h] => WorkIsSound(h)'
           /\ \A k \in Rows : row'[k] = row[k] => RowIsSound(k)'
<1> USE SelectionTags DEF SelectionInv, SelectionTypeOK
<1>0. \A t \in Teams : Supervised(t) => Supervised(t)'
    BY SelectionGrows
<1>1. ASSUME NEW h \in Handlers, request'[h] = request[h]
      PROVE  WorkIsSound(h)'
  <2>1. request[h] # NoWork => request[h].team \in Teams
      BY DEF Jobs
  <2> QED
      BY <1>0, <1>1, <2>1 DEF WorkIsSound
<1>2. ASSUME NEW k \in Rows, row'[k] = row[k]
      PROVE  RowIsSound(k)'
  <2>1. row[k] # Absent => row[k].team \in Teams
      BY DEF Entries
  <2> QED
      BY <1>0, <1>2, <2>1 DEF RowIsSound
<1> QED
    BY <1>1, <1>2

\* ... and one that takes a project away makes them name it no longer.
LEMMA SelectionLoses ==
    ASSUME SelectionInv, NEW t \in Teams, LoseProject(t),
           \A other \in Teams \ {t} :
             project[other] # "none" => project'[other] # "none"
    PROVE  /\ \A h \in Handlers : WorkIsSound(h)'
           /\ \A k \in Rows : RowIsSound(k)'
<1> USE SelectionTags DEF SelectionInv, SelectionTypeOK
<1>1. \A other \in Teams : Supervised(other)' <=> Supervised(other)
    BY DEF LoseProject, Supervised
<1>2. ASSUME NEW h \in Handlers PROVE WorkIsSound(h)'
  <2>1. CASE request[h] = NoWork
    <3>1. request'[h] = NoWork
        BY <2>1, SelectionLoss DEF LoseProject
    <3> QED
        BY <3>1 DEF WorkIsSound
  <2>2. CASE request[h] # NoWork
    <3>1. request[h] \in Jobs /\ request[h].team \in Teams
        BY <2>2 DEF Jobs
    <3>2. request'[h] = Lose(t, request[h])
        BY DEF LoseProject
    <3>3. /\ request'[h].at = request[h].at
          /\ request'[h].row = request[h].row
          /\ request'[h].verdict = request[h].verdict
          /\ request'[h].team = request[h].team
          /\ request'[h].names = "none" <=> request[h].names = "none"
          /\ request'[h].names = "project" =>
               request[h].names = "project" /\ request[h].team # t
        BY <3>1, <3>2, SelectionLoss
    <3>4. WorkIsSound(h)
        OBVIOUS
    <3> QED
        BY <1>1, <2>2, <3>1, <3>3, <3>4 DEF WorkIsSound
  <2> QED
      BY <2>1, <2>2
<1>3. ASSUME NEW k \in Rows PROVE RowIsSound(k)'
  <2>1. CASE row[k] = Absent
    <3>1. row'[k] = Absent
        BY <2>1, SelectionLoss DEF LoseProject
    <3> QED
        BY <3>1 DEF RowIsSound
  <2>2. CASE row[k] # Absent
    <3>1. row[k] \in Entries /\ row[k].team \in Teams
        BY <2>2 DEF Entries
    <3>2. row'[k] = Lose(t, row[k])
        BY DEF LoseProject
    <3>3. /\ row'[k].status = row[k].status /\ row'[k].team = row[k].team
          /\ row'[k].names = "none" <=> row[k].names = "none"
          /\ row'[k].names = "project" =>
               row[k].names = "project" /\ row[k].team # t
        BY <3>1, <3>2, SelectionLoss
    <3>4. RowIsSound(k)
        OBVIOUS
    <3> QED
        BY <1>1, <2>2, <3>1, <3>3, <3>4 DEF RowIsSound
  <2> QED
      BY <2>1, <2>2
<1> QED
    BY <1>2, <1>3

\* A handler without work, and a row that is not there, say nothing.
LEMMA NothingIsSound ==
    /\ \A h \in Handlers : request'[h] = NoWork => WorkIsSound(h)'
    /\ \A k \in Rows : row[k] = Absent => RowIsSound(k)
BY DEF WorkIsSound, RowIsSound

LEMMA SelectionHandlerStep ==
    ASSUME SelectionInv, NEW h \in Handlers, Begin(h) \/ Proceed(h)
    PROVE  SelectionInv'
<1> USE SelectionTags DEF SelectionTypeOK, Ask, GoTo, Answer, teams
<1>0. SelectionTypeOK /\ SelectionTypeOK'
    BY SelectionHandlerTypes DEF SelectionInv
<1>a. WorkIsSound(h) /\ \A k \in Rows : RowIsSound(k)
    BY DEF SelectionInv
\* It is enough to look at the handler that moves and the row it writes.
<1>f. ASSUME \A t \in Teams : project[t] # "none" => project'[t] # "none",
             WorkIsSound(h)',
             \A g \in Handlers \ {h} : request'[g] = request[g],
             \A k \in Rows : row'[k] = row[k] \/ RowIsSound(k)'
      PROVE  SelectionInv'
  <2>1. SelectionNext
      BY DEF SelectionNext
  <2> QED
      BY <1>0, <1>f, <2>1, SelectionFrame DEF SelectionInv
<1>1. ASSUME NEW c \in Contents, CreateSupervisorRequest(h, c)
      PROVE  SelectionInv'
  <2>1. WorkIsSound(h)'
      BY <1>0, <1>1 DEF CreateSupervisorRequest, WorkIsSound, Work
  <2> QED
      BY <1>0, <1>1, <1>f, <2>1 DEF CreateSupervisorRequest
<1>2. CASE LookForOthers(h)
  <2>1. request'[h] = [request[h] EXCEPT !.at = "insert"] /\ request[h] \in Jobs
      BY <1>0, <1>2 DEF LookForOthers
  <2>2. WorkIsSound(h)'
      BY <1>2, <1>a, <2>1 DEF LookForOthers, WorkIsSound, Jobs
  <2> QED
      BY <1>0, <1>2, <1>f, <2>2 DEF LookForOthers
<1>3. ASSUME NEW k \in Rows, InsertRequest(h, k) PROVE SelectionInv'
  <2>1. WorkIsSound(h)'
      BY <1>0, <1>3, NothingIsSound DEF InsertRequest
  <2>2. RowIsSound(k)'
    <3>1. row'[k] = Row("pending", request[h]) /\ request[h] # NoWork
        BY <1>0, <1>3 DEF InsertRequest
    <3> QED
        BY <1>3, <1>a, <3>1 DEF InsertRequest, RowIsSound, WorkIsSound, Row
  <2> QED
      BY <1>0, <1>3, <1>f, <2>1, <2>2 DEF InsertRequest
<1>4. ASSUME NEW k \in Rows, Decline(h, k) PROVE SelectionInv'
  <2>1. WorkIsSound(h)'
      BY <1>0, <1>4, <1>a DEF Decline, WorkIsSound, RowIsSound, Work
  <2> QED
      BY <1>0, <1>4, <1>f, <2>1 DEF Decline
<1>5. ASSUME NEW k \in Rows, Approve(h, k) PROVE SelectionInv'
  <2>0. row[k] \in Entries
      BY <1>0, <1>5 DEF Approve
  <2>1. PICK names \in {"none", "lost", row[k].names} :
            /\ request' = [request EXCEPT ![h] =
                 Work("accept", k, "approved", [row[k] EXCEPT !.names = names])]
            /\ names = "project" => row[k].names = "project"
      BY <1>5 DEF Approve
  <2>2. /\ request'[h].names = names /\ request'[h].team = row[k].team
        /\ request'[h].at = "accept"
      BY <1>0, <2>0, <2>1 DEF Work, Entries
  <2>3. WorkIsSound(h)'
      BY <1>5, <1>a, <2>0, <2>1, <2>2 DEF Approve, WorkIsSound, RowIsSound
  <2> QED
      BY <1>0, <1>5, <1>f, <2>3 DEF Approve
<1>6. CASE CheckAccepted(h)
  <2>1. PICK step \in {"create", "assign"} :
            /\ request'[h] = [request[h] EXCEPT !.at = step]
            /\ step = "assign" => request[h].names # "none"
      BY <1>0, <1>6 DEF CheckAccepted
  <2>2. request[h] \in Jobs
      BY <1>0, <1>6 DEF CheckAccepted
  <2>3. WorkIsSound(h)'
      BY <1>6, <1>a, <2>1, <2>2 DEF CheckAccepted, WorkIsSound, Jobs
  <2> QED
      BY <1>0, <1>6, <1>f, <2>3 DEF CheckAccepted
<1>7. CASE CreateProject(h)
  <2>1. request[h] \in Jobs
      BY <1>0, <1>7 DEF CreateProject
  <2>2. /\ request'[h] = [request[h] EXCEPT !.at = "move", !.names = "project"]
        /\ project'[request[h].team] # "none"
      BY <1>0, <1>7, <2>1 DEF CreateProject, Jobs
  <2>3. WorkIsSound(h)'
      BY <2>1, <2>2 DEF WorkIsSound, Jobs
  <2> QED
      BY <1>0, <1>7, <1>f, <2>3 DEF CreateProject
<1>8. CASE MoveProject(h)
  <2>1. request[h] \in Jobs
      BY <1>0, <1>8 DEF MoveProject
  <2>2. /\ request'[h] = [request[h] EXCEPT !.at = "assign"]
        /\ \A t \in Teams : project[t] # "none" => project'[t] # "none"
      BY <1>0, <1>8 DEF MoveProject
  <2>3. WorkIsSound(h)'
      BY <1>8, <1>a, <2>1, <2>2 DEF MoveProject, WorkIsSound, Jobs
  <2> QED
      BY <1>0, <1>8, <1>f, <2>2, <2>3 DEF MoveProject
<1>9. ASSUME NEW t \in Teams, NEW s \in Supervisors,
             AppointSupervisor(h, [team |-> t, supervisor |-> s,
                                   names |-> "none"])
      PROVE  SelectionInv'
  <2>1. WorkIsSound(h)'
      BY <1>0, <1>9 DEF AppointSupervisor, WorkIsSound, Work
  <2> QED
      BY <1>0, <1>9, <1>f, <2>1 DEF AppointSupervisor
\* On the way to the assignment a request keeps what it names.
<1>10. ASSUME request[h] \in Jobs,
              request[h].at \in {"assign", "check", "lookup"},
              request'[h] \in Jobs,
              request'[h].at \in {"check", "lookup", "first", "replace"},
              request'[h].row = request[h].row,
              request'[h].team = request[h].team,
              request'[h].names = request[h].names,
              \A g \in Handlers \ {h} : request'[g] = request[g],
              row' = row, teams' = teams
       PROVE  SelectionInv'
  <2>1. WorkIsSound(h)'
      BY <1>10, <1>a DEF WorkIsSound
  <2> QED
      BY <1>0, <1>10, <1>f, <2>1
<1>11. CASE GetTeamContext(h)
  <2>1. request[h] \in Jobs
      BY <1>0, <1>11 DEF GetTeamContext
  <2>2. request'[h] = [request[h] EXCEPT !.at = "check"]
      BY <1>0, <1>11 DEF GetTeamContext
  <2>3. /\ request'[h] \in Jobs /\ request'[h].at = "check"
        /\ request'[h].row = request[h].row
        /\ request'[h].team = request[h].team
        /\ request'[h].names = request[h].names
      BY <2>1, <2>2 DEF Jobs, Steps
  <2> QED
      BY <1>0, <1>10, <1>11, <2>1, <2>3 DEF GetTeamContext
<1>12. CASE CheckSupervisorCapacity(h)
  <2>1. request[h] \in Jobs
      BY <1>0, <1>12 DEF CheckSupervisorCapacity
  <2>2. PICK max \in Limits :
            request' = [request EXCEPT ![h] =
              [request[h] EXCEPT !.at = "lookup", !.max = max]]
      BY <1>0, <1>12, <2>1, SelectionLimits DEF CheckSupervisorCapacity, Jobs
  <2>3. /\ request'[h] \in Jobs /\ request'[h].at = "lookup"
        /\ request'[h].row = request[h].row
        /\ request'[h].team = request[h].team
        /\ request'[h].names = request[h].names
    <3>1. request'[h] = [request[h] EXCEPT !.at = "lookup", !.max = max]
        BY <1>0, <2>2
    <3>2. [request[h] EXCEPT !.at = "lookup", !.max = max] \in Jobs
        BY <2>1 DEF Jobs, Steps
    <3> QED
        BY <2>1, <3>1, <3>2 DEF Jobs
  <2> QED
      BY <1>0, <1>10, <1>12, <2>1, <2>3 DEF CheckSupervisorCapacity
<1>13. CASE GetSupervisorAssignment(h)
  <2>1. request[h] \in Jobs
      BY <1>0, <1>13 DEF GetSupervisorAssignment
  <2>2. PICK step \in {"first", "replace"} :
            request'[h] = [request[h] EXCEPT !.at = step]
      BY <1>0, <1>13 DEF GetSupervisorAssignment
  <2>3. /\ request'[h] \in Jobs /\ request'[h].at = step
        /\ request'[h].row = request[h].row
        /\ request'[h].team = request[h].team
        /\ request'[h].names = request[h].names
      BY <2>1, <2>2 DEF Jobs, Steps
  <2> QED
      BY <1>0, <1>10, <1>13, <2>1, <2>3 DEF GetSupervisorAssignment
<1>14. CASE WriteAssignment(h)
  <2>1. request[h] \in Jobs /\ request[h].supervisor # None
      BY <1>0, <1>14, NoneIsNothing DEF WriteAssignment, Jobs
  <2>2. assigned'[request[h].team] # None
      BY <1>0, <1>14, <2>1 DEF WriteAssignment, Jobs
  <2>3. CASE request[h].row = None
    <3>1. WorkIsSound(h)'
        BY <1>0, <1>14, <2>3, NothingIsSound DEF WriteAssignment
    <3> QED
        BY <1>0, <1>14, <1>f, <2>3, <3>1 DEF WriteAssignment
  <2>4. CASE request[h].row # None
    <3>1. /\ request'[h] = [request[h] EXCEPT !.at = "save", !.max = 0]
          /\ project' = project
        BY <1>0, <1>14, <2>4 DEF WriteAssignment
    <3>2. WorkIsSound(h)'
        BY <1>14, <1>a, <2>1, <2>2, <2>4, <3>1
        DEF WriteAssignment, WorkIsSound, Jobs, Supervised
    <3> QED
        BY <1>0, <1>14, <1>f, <2>4, <3>2 DEF WriteAssignment
  <2> QED
      BY <2>3, <2>4
<1>15. CASE UpdateSupervisorRequest(h)
  <2>1. WorkIsSound(h)'
      BY <1>0, <1>15, NothingIsSound DEF UpdateSupervisorRequest
  <2>2. ASSUME NEW k \in Rows, row'[k] # row[k] PROVE RowIsSound(k)'
    <3>1. /\ k = request[h].row /\ request[h] # NoWork
          /\ row'[k] = Row(request[h].verdict, request[h])
          /\ project' = project /\ assigned' = assigned /\ gone' = gone
        BY <1>0, <1>15, <2>2 DEF UpdateSupervisorRequest
    <3> QED
        BY <1>15, <1>a, <3>1
        DEF UpdateSupervisorRequest, RowIsSound, WorkIsSound, Row, Supervised
  <2> QED
      BY <1>0, <1>15, <1>f, <2>1, <2>2 DEF UpdateSupervisorRequest
<1>16. CASE GiveUp(h)
  <2>1. WorkIsSound(h)'
      BY <1>0, <1>16, NothingIsSound DEF GiveUp
  <2> QED
      BY <1>0, <1>16, <1>f, <2>1 DEF GiveUp
<1> QED
    BY <1>1, <1>2, <1>3, <1>4, <1>5, <1>6, <1>7, <1>8, <1>9, <1>11, <1>12,
       <1>13, <1>14, <1>15, <1>16
    DEF Begin, Proceed

LEMMA SelectionAdminStep ==
    ASSUME SelectionInv, Administer
    PROVE  SelectionInv'
<1> USE DEF SelectionTypeOK
<1>0. SelectionTypeOK /\ SelectionTypeOK' /\ SelectionNext
    BY SelectionAdminTypes DEF SelectionInv, SelectionNext
<1>1. ASSUME row' = row, request' = request,
             \A t \in Teams : project[t] # "none" => project'[t] # "none"
      PROVE  SelectionInv'
    BY <1>0, <1>1, SelectionFrame DEF SelectionInv
<1>2. ASSUME NEW t \in Teams, DeleteTeamByAdmin(t) PROVE SelectionInv'
  <2>1. row' = row /\ project' = project
      BY <1>2 DEF DeleteTeamByAdmin
  <2>2. ASSUME NEW h \in Handlers, request'[h] # request[h]
        PROVE  WorkIsSound(h)'
    <3>1. /\ request'[h] = [request[h] EXCEPT !.at = "first"]
          /\ request[h].at = "replace"
        BY <1>2, <2>2 DEF DeleteTeamByAdmin
    <3>2. request[h] \in Jobs
        BY <1>0, <3>1, SelectionTags
    <3>3. WorkIsSound(h)
        BY DEF SelectionInv
    <3> QED
        BY <2>1, <3>1, <3>2, <3>3, SelectionTags DEF WorkIsSound, Jobs
  <2> QED
      BY <1>0, <2>1, <2>2, SelectionFrame DEF SelectionInv
<1>3. ASSUME NEW t \in Teams, DeleteProject(t) PROVE SelectionInv'
  <2>1. \A other \in Teams \ {t} :
          project[other] # "none" => project'[other] # "none"
      BY <1>0, <1>3 DEF DeleteProject
  <2> QED
      BY <1>0, <1>3, <2>1, SelectionLoses DEF DeleteProject, SelectionInv
<1>4. ASSUME NEW t \in Teams, NEW other \in Teams, UpdateProject(t, other)
      PROVE  SelectionInv'
  <2>1. \A u \in Teams \ {t} : project[u] # "none" => project'[u] # "none"
      BY <1>0, <1>4 DEF UpdateProject
  <2> QED
      BY <1>0, <1>4, <2>1, SelectionLoses DEF UpdateProject, SelectionInv
<1>5. ASSUME NEW t \in Teams, CreateProjectAdmin(t) PROVE SelectionInv'
    BY <1>0, <1>1, <1>5 DEF CreateProjectAdmin
<1> QED
    BY <1>1, <1>2, <1>3, <1>4, <1>5
    DEF Administer, UpdateTeamByAdmin, DeleteTeam, UpdateTeam,
        UpdateSupervisorMaxTeams

LEMMA SelectionInvHolds == SelectionSpec => []SelectionInv
<1>1. SelectionInit => SelectionInv
  <2> SUFFICES ASSUME SelectionInit PROVE SelectionInv
      OBVIOUS
  <2>1. \A h \in Handlers : WorkIsSound(h)
      BY DEF SelectionInit, WorkIsSound
  <2> QED
      BY <2>1, SelectionInitTypes, NothingIsSound
      DEF SelectionInit, SelectionInv
<1>2. SelectionInv /\ UNCHANGED selectionVars => SelectionInv'
  <2> SUFFICES ASSUME SelectionInv, UNCHANGED selectionVars
               PROVE  SelectionInv'
      OBVIOUS
  <2>1. SelectionTypeOK'
      BY SelectionStepTypes DEF SelectionInv
  <2> QED
      BY <2>1
      DEF SelectionInv, WorkIsSound, RowIsSound, Supervised, selectionVars,
          teams
<1>3. SelectionInv /\ [SelectionNext]_selectionVars => SelectionInv'
    BY <1>2, SelectionHandlerStep, SelectionAdminStep DEF SelectionNext
<1> QED
    BY <1>1, <1>3, PTL DEF SelectionSpec

(***************************************************************************)
(* An approved request has all of its effects, however the decisions about *)
(* it overlap, fail half way and overwrite each other, whatever            *)
(* administrators do meanwhile: its team has a supervisor unless it has    *)
(* been deleted, and what it names is a project of its team unless that    *)
(* has been taken away.                                                    *)
(***************************************************************************)
THEOREM ApprovalIsComplete == SelectionSpec => []ApprovedIsComplete
<1>1. SelectionInv => ApprovedIsComplete
    BY SelectionTags
    DEF SelectionInv, RowIsSound, ApprovedIsComplete, Supervised
<1> QED
    BY <1>1, SelectionInvHolds, PTL
-----------------------------------------------------------------------------
\* Handlers that have found fewer teams of a supervisor than a limit of at
\* most max allows.
Passed(s, max) ==
    {h \in Handlers : /\ request[h].at \in {"lookup", "first", "replace"}
                      /\ request[h].supervisor = s
                      /\ 0 < request[h].max /\ request[h].max <= max}

\* At most n of them at a time.
FewPass(n) ==
    \A s \in Supervisors, max \in Limits \ {0} : Cardinality(Passed(s, max)) <= n

\* Places taken and places promised: whoever found one found it below the
\* limit, and what was promised since is held by the other handlers.
LoadInv(s, max, n) ==
    /\ IsFiniteSet(TeamsOf(s))
    /\ Cardinality(Checked(s, max)) + Cardinality(Passed(s, max)) < max + n

AllLoads(n) == \A s \in Supervisors, max \in Limits \ {0} : LoadInv(s, max, n)

\* The teams that were checked are among the teams, and promises are few.
LEMMA LoadsAreFinite ==
    ASSUME NEW s \in Supervisors, NEW max \in Limits \ {0},
           IsFiniteSet(TeamsOf(s))
    PROVE  /\ Cardinality(TeamsOf(s)) \in Nat
           /\ IsFiniteSet(Checked(s, max))
           /\ Cardinality(Checked(s, max)) \in Nat
           /\ Cardinality(Checked(s, max)) <= Cardinality(TeamsOf(s))
           /\ IsFiniteSet(Passed(s, max))
           /\ Cardinality(Passed(s, max)) \in Nat
<1>1. Checked(s, max) \in SUBSET TeamsOf(s) /\ Passed(s, max) \in SUBSET Handlers
    BY DEF Checked, Passed
<1> QED
    BY <1>1, FewAtATime, FS_Subset, FS_CardinalityType

\* Fewer checked teams and fewer promises.
LEMMA LoadShrinks ==
    ASSUME NEW n \in Nat, NEW s \in Supervisors, NEW max \in Limits \ {0},
           LoadInv(s, max, n), IsFiniteSet(TeamsOf(s))',
           Checked(s, max)' \subseteq Checked(s, max),
           Passed(s, max)' \subseteq Passed(s, max)
    PROVE  LoadInv(s, max, n)'
<1>1. /\ IsFiniteSet(Checked(s, max)) /\ Cardinality(Checked(s, max)) \in Nat
      /\ IsFiniteSet(Passed(s, max)) /\ Cardinality(Passed(s, max)) \in Nat
    BY LoadsAreFinite DEF LoadInv
<1>2. /\ Cardinality(Checked(s, max)') <= Cardinality(Checked(s, max))
      /\ Cardinality(Checked(s, max)') \in Nat
      /\ Cardinality(Passed(s, max)') <= Cardinality(Passed(s, max))
      /\ Cardinality(Passed(s, max)') \in Nat
    BY <1>1, FS_Subset, FS_CardinalityType
<1> QED
    BY <1>1, <1>2, SelectionLimits DEF LoadInv

\* One more promise, made below the limit.
LEMMA LoadPromised ==
    ASSUME NEW n \in Nat, NEW s \in Supervisors, NEW max \in Limits \ {0},
           LoadInv(s, max, n), TeamsOf(s)' = TeamsOf(s),
           Checked(s, max)' = Checked(s, max),
           Cardinality(TeamsOf(s)) < max,
           Passed(s, max)' \in SUBSET Handlers,
           Cardinality(Passed(s, max)') <= n
    PROVE  LoadInv(s, max, n)'
<1>1. /\ Cardinality(TeamsOf(s)) \in Nat
      /\ Cardinality(Checked(s, max)) \in Nat
      /\ Cardinality(Checked(s, max)) <= Cardinality(TeamsOf(s))
    BY LoadsAreFinite DEF LoadInv
<1>2. Cardinality(Passed(s, max)') \in Nat
    BY FewAtATime, FS_Subset, FS_CardinalityType
<1> QED
    BY <1>1, <1>2, SelectionLimits DEF LoadInv

\* A promise that is kept.
LEMMA LoadTaken ==
    ASSUME NEW n \in Nat, NEW s \in Supervisors, NEW max \in Limits \ {0},
           LoadInv(s, max, n), IsFiniteSet(TeamsOf(s))', NEW t \in Teams,
           Checked(s, max)' \subseteq Checked(s, max) \cup {t},
           NEW h \in Passed(s, max),
           Passed(s, max)' \subseteq Passed(s, max) \ {h}
    PROVE  LoadInv(s, max, n)'
<1>1. /\ IsFiniteSet(Checked(s, max)) /\ Cardinality(Checked(s, max)) \in Nat
      /\ IsFiniteSet(Passed(s, max)) /\ Cardinality(Passed(s, max)) \in Nat
    BY LoadsAreFinite DEF LoadInv
<1>2. /\ IsFiniteSet(Checked(s, max) \cup {t})
      /\ Cardinality(Checked(s, max) \cup {t}) <= Cardinality(Checked(s, max)) + 1
      /\ Cardinality(Checked(s, max) \cup {t}) \in Nat
  <2>1. /\ IsFiniteSet(Checked(s, max) \cup {t})
        /\ Cardinality(Checked(s, max) \cup {t}) =
             IF t \in Checked(s, max) THEN Cardinality(Checked(s, max))
             ELSE Cardinality(Checked(s, max)) + 1
      BY <1>1, FS_AddElement
  <2> QED
      BY <1>1, <2>1
<1>3. /\ Cardinality(Checked(s, max)') <= Cardinality(Checked(s, max) \cup {t})
      /\ Cardinality(Checked(s, max)') \in Nat
    BY <1>2, FS_Subset, FS_CardinalityType
<1>4. /\ IsFiniteSet(Passed(s, max) \ {h})
      /\ Cardinality(Passed(s, max) \ {h}) = Cardinality(Passed(s, max)) - 1
    BY <1>1, FS_RemoveElement
<1>5. /\ Cardinality(Passed(s, max)') <= Cardinality(Passed(s, max)) - 1
      /\ Cardinality(Passed(s, max)') \in Nat
    BY <1>4, FS_Subset, FS_CardinalityType
<1> QED
    BY <1>1, <1>2, <1>3, <1>5, SelectionLimits DEF LoadInv

\* A handler's step.
LEMMA LoadHandlerStep ==
    ASSUME NEW n \in Nat, SelectionTypeOK, FewPass(n)',
           NEW s \in Supervisors, NEW max \in Limits \ {0}, LoadInv(s, max, n),
           NEW h \in Handlers, Begin(h) \/ Proceed(h)
    PROVE  LoadInv(s, max, n)'
<1> USE SelectionTags DEF SelectionTypeOK, Ask, GoTo, Answer, teams
<1> DEFINE Late == {"lookup", "first", "replace"}
\* The handler makes no promise.
<1>a. ASSUME assigned' = assigned, under' = under,
             \A g \in Handlers \ {h} : request'[g] = request[g],
             request'[h].at \in Late =>
               /\ request[h].at \in Late
               /\ request'[h].supervisor = request[h].supervisor
               /\ request'[h].max = request[h].max
      PROVE  LoadInv(s, max, n)'
  <2>1. TeamsOf(s)' = TeamsOf(s) /\ Checked(s, max)' = Checked(s, max)
      BY <1>a DEF TeamsOf, Checked
  <2>2. Passed(s, max)' \subseteq Passed(s, max)
      BY <1>a DEF Passed
  <2> QED
      BY <2>1, <2>2, LoadShrinks DEF LoadInv
<1>1. ASSUME NEW c \in Contents, CreateSupervisorRequest(h, c)
      PROVE  LoadInv(s, max, n)'
    BY <1>1, <1>a DEF CreateSupervisorRequest, Work
<1>2. ASSUME NEW step \in Steps \ Late, GoTo(h, step), request[h] \in Jobs,
             assigned' = assigned, under' = under
      PROVE  LoadInv(s, max, n)'
  <2>1. request'[h].at = step
      BY <1>2 DEF Jobs
  <2> QED
      BY <1>2, <1>a, <2>1
<1>3. CASE LookForOthers(h) \/ CheckAccepted(h) \/ MoveProject(h)
             \/ GetTeamContext(h)
  <2>1. /\ request[h] \in Jobs /\ assigned' = assigned /\ under' = under
        /\ \E step \in {"insert", "create", "assign", "check"} : GoTo(h, step)
      BY <1>3 DEF LookForOthers, CheckAccepted, MoveProject, GetTeamContext
  <2> QED
      BY <1>2, <2>1 DEF Steps
<1>4. CASE CreateProject(h)
  <2>1. request[h] \in Jobs
      BY <1>4 DEF CreateProject
  <2>2. request'[h] = [request[h] EXCEPT !.at = "move", !.names = "project"]
      BY <1>4 DEF CreateProject
  <2>3. request'[h].at = "move"
      BY <2>1, <2>2 DEF Jobs
  <2> QED
      BY <1>4, <1>a, <2>3 DEF CreateProject
<1>5. ASSUME NEW k \in Rows, Decline(h, k) \/ Approve(h, k)
      PROVE  LoadInv(s, max, n)'
    BY <1>5, <1>a DEF Decline, Approve, Work
<1>6. ASSUME NEW t \in Teams, NEW x \in Supervisors,
             AppointSupervisor(h, [team |-> t, supervisor |-> x,
                                   names |-> "none"])
      PROVE  LoadInv(s, max, n)'
    BY <1>6, <1>a DEF AppointSupervisor, Work
<1>7. CASE CheckSupervisorCapacity(h)
  <2>0. request[h] \in Jobs
      BY <1>7 DEF CheckSupervisorCapacity
  <2>1. PICK m \in Limits :
            /\ Allows(m, request[h].supervisor)
            /\ request'[h] = [request[h] EXCEPT !.at = "lookup", !.max = m]
            /\ \A g \in Handlers \ {h} : request'[g] = request[g]
            /\ assigned' = assigned /\ under' = under
      BY <1>7, <2>0, SelectionLimits DEF CheckSupervisorCapacity, Jobs
  <2>2. /\ request'[h].supervisor = request[h].supervisor
        /\ request'[h].max = m
      BY <2>0, <2>1 DEF Jobs
  <2>3. TeamsOf(s)' = TeamsOf(s) /\ Checked(s, max)' = Checked(s, max)
      BY <2>1 DEF TeamsOf, Checked
  <2>4. CASE request[h].supervisor = s /\ 0 < m /\ m <= max
    <3>1. Cardinality(TeamsOf(s)) \in Nat /\ m \in Nat /\ max \in Nat
        BY LoadsAreFinite, SelectionLimits DEF LoadInv
    <3>2. Cardinality(TeamsOf(s)) < max
        BY <2>1, <2>4, <3>1 DEF Allows
    <3>3. Passed(s, max)' \in SUBSET Handlers /\ Cardinality(Passed(s, max)') <= n
        BY SelectionLimits DEF Passed, FewPass
    <3> QED
        BY <2>3, <3>2, <3>3, LoadPromised
  <2>5. CASE ~(request[h].supervisor = s /\ 0 < m /\ m <= max)
    <3>1. Passed(s, max)' \subseteq Passed(s, max)
        BY <2>1, <2>2, <2>5 DEF Passed
    <3> QED
        BY <2>3, <3>1, LoadShrinks DEF LoadInv
  <2> QED
      BY <2>4, <2>5
<1>8. CASE GetSupervisorAssignment(h)
  <2>1. PICK step \in Late : GoTo(h, step)
      BY <1>8 DEF GetSupervisorAssignment
  <2>2. request[h] \in Jobs /\ request[h].at \in Late
      BY <1>8 DEF GetSupervisorAssignment
  <2>3. /\ request'[h].supervisor = request[h].supervisor
        /\ request'[h].max = request[h].max
      BY <2>1, <2>2 DEF Jobs
  <2> QED
      BY <1>8, <1>a, <2>2, <2>3 DEF GetSupervisorAssignment
<1>9. CASE WriteAssignment(h)
  <2> DEFINE r == request[h]
  <2>1. /\ r \in Jobs /\ r.team \in Teams /\ r.max \in Limits
        /\ r.at \in {"first", "replace"}
      BY <1>9 DEF WriteAssignment, Jobs
  <2>2. /\ assigned' = [assigned EXCEPT ![r.team] = r.supervisor]
        /\ under' = [under EXCEPT ![r.team] = r.max]
        /\ request'[h] \in {NoWork, [r EXCEPT !.at = "save", !.max = 0]}
        /\ \A g \in Handlers \ {h} : request'[g] = request[g]
      BY <1>9 DEF WriteAssignment
  <2>3. request'[h].at \notin Late
      BY <2>1, <2>2 DEF Jobs
  <2>4. Passed(s, max)' \subseteq Passed(s, max) \ {h}
      BY <2>2, <2>3 DEF Passed
  <2>5. IsFiniteSet(TeamsOf(s))'
    <3>1. TeamsOf(s)' \subseteq TeamsOf(s) \cup {r.team}
        BY <2>1, <2>2 DEF TeamsOf
    <3>2. IsFiniteSet(TeamsOf(s) \cup {r.team})
        BY FS_AddElement DEF LoadInv
    <3> QED
        BY <3>1, <3>2, FS_Subset
  <2>6. CASE r.supervisor = s /\ 0 < r.max /\ r.max <= max
    <3>1. h \in Passed(s, max)
        BY <2>1, <2>6 DEF Passed
    <3>2. Checked(s, max)' \subseteq Checked(s, max) \cup {r.team}
        BY <2>1, <2>2 DEF Checked, TeamsOf
    <3> QED
        BY <2>1, <2>4, <2>5, <3>1, <3>2, LoadTaken
  <2>7. CASE ~(r.supervisor = s /\ 0 < r.max /\ r.max <= max)
    <3>1. Checked(s, max)' \subseteq Checked(s, max)
        BY <2>1, <2>2, <2>7 DEF Checked, TeamsOf
    <3> QED
        BY <2>4, <2>5, <3>1, LoadShrinks
  <2> QED
      BY <2>6, <2>7
<1>10. CASE \/ \E k \in Rows : InsertRequest(h, k)
            \/ UpdateSupervisorRequest(h) \/ GiveUp(h)
    BY <1>10, <1>a DEF InsertRequest, UpdateSupervisorRequest, GiveUp
<1> QED
    BY <1>1, <1>3, <1>4, <1>5, <1>6, <1>7, <1>8, <1>9, <1>10
    DEF Begin, Proceed

\* What administrators do takes checked assignments away and adds none.
LEMMA LoadAdminStep ==
    ASSUME NEW n \in Nat, SelectionTypeOK, Administer,
           NEW s \in Supervisors, NEW max \in Limits \ {0}, LoadInv(s, max, n)
    PROVE  LoadInv(s, max, n)'
<1> USE SelectionTags DEF SelectionTypeOK
<1>0. max \in Nat /\ 0 \in Limits
    BY SelectionLimits
<1>1. ASSUME NEW t \in Teams, NEW x \in Supervisors, UpdateTeamByAdmin(t, x)
      PROVE  LoadInv(s, max, n)'
  <2>1. TeamsOf(s)' \subseteq TeamsOf(s) \cup {t}
      BY <1>1 DEF UpdateTeamByAdmin, TeamsOf
  <2>2. IsFiniteSet(TeamsOf(s))'
      BY <2>1, FS_AddElement, FS_Subset DEF LoadInv
  <2>3. /\ Checked(s, max)' \subseteq Checked(s, max)
        /\ Passed(s, max)' = Passed(s, max)
      BY <1>1 DEF UpdateTeamByAdmin, Checked, TeamsOf, Passed
  <2> QED
      BY <2>2, <2>3, LoadShrinks
<1>2. ASSUME NEW t \in Teams, DeleteTeamByAdmin(t)
      PROVE  LoadInv(s, max, n)'
  <2>1. TeamsOf(s)' \subseteq TeamsOf(s)
      BY <1>2, NoneIsNothing DEF DeleteTeamByAdmin, TeamsOf
  <2>2. IsFiniteSet(TeamsOf(s))'
      BY <2>1, FS_Subset DEF LoadInv
  <2>3. Checked(s, max)' \subseteq Checked(s, max)
      BY <1>2, NoneIsNothing DEF DeleteTeamByAdmin, Checked, TeamsOf
  <2>4. ASSUME NEW h \in Handlers
        PROVE  /\ request[h] = NoWork => request'[h] = NoWork
               /\ request[h] \in Jobs =>
                    /\ request'[h].at \in {"lookup", "first", "replace"} =>
                         request[h].at \in {"lookup", "first", "replace"}
                    /\ request'[h].supervisor = request[h].supervisor
                    /\ request'[h].max = request[h].max
      BY <1>2 DEF DeleteTeamByAdmin, Jobs
  <2>5. Passed(s, max)' \subseteq Passed(s, max)
      BY <2>4 DEF Passed
  <2> QED
      BY <2>2, <2>3, <2>5, LoadShrinks
<1>3. ASSUME assigned' = assigned, under' = under, request' = request
      PROVE  LoadInv(s, max, n)'
    BY <1>3 DEF LoadInv, Checked, TeamsOf, Passed
<1>4. ASSUME NEW t \in Teams, LoseProject(t) PROVE LoadInv(s, max, n)'
  <2>1. TeamsOf(s)' = TeamsOf(s) /\ Checked(s, max)' = Checked(s, max)
      BY <1>4 DEF LoseProject, TeamsOf, Checked
  <2>2. ASSUME NEW h \in Handlers
        PROVE  /\ request[h] = NoWork => request'[h] = NoWork
               /\ request[h] \in Jobs =>
                    /\ request'[h].at = request[h].at
                    /\ request'[h].supervisor = request[h].supervisor
                    /\ request'[h].max = request[h].max
      BY <1>4, SelectionLoss DEF LoseProject
  <2>3. Passed(s, max)' \subseteq Passed(s, max)
      BY <2>2 DEF Passed
  <2> QED
      BY <2>1, <2>3, LoadShrinks DEF LoadInv
<1> QED
    BY <1>1, <1>2, <1>3, <1>4
    DEF Administer, DeleteTeam, UpdateTeam, UpdateSupervisorMaxTeams,
        CreateProjectAdmin,
        DeleteProject, UpdateProject

LEMMA LoadStep ==
    ASSUME NEW n \in Nat
    PROVE  SelectionTypeOK /\ FewPass(n)' /\ AllLoads(n)
             /\ [SelectionNext]_selectionVars => AllLoads(n)'
<1>1. AllLoads(n) /\ UNCHANGED selectionVars => AllLoads(n)'
    BY DEF AllLoads, LoadInv, Checked, TeamsOf, Passed, selectionVars, teams
<1> QED
    BY <1>1, LoadHandlerStep, LoadAdminStep DEF AllLoads, SelectionNext

LEMMA LoadInit ==
    ASSUME NEW n \in Nat
    PROVE  SelectionInit => AllLoads(n)
<1> SUFFICES ASSUME SelectionInit,
                    NEW s \in Supervisors, NEW max \in Limits \ {0}
             PROVE  LoadInv(s, max, n)
    BY DEF AllLoads
<1>1. TeamsOf(s) = {} /\ Checked(s, max) = {}
    BY NoneIsNothing DEF SelectionInit, TeamsOf, Checked
<1>2. Passed(s, max) = {}
    BY SelectionTags DEF SelectionInit, Passed
<1> QED
    BY <1>1, <1>2, FS_EmptySet, SelectionLimits DEF LoadInv

LEMMA LoadMeans ==
    ASSUME NEW n \in Nat
    PROVE  AllLoads(n) =>
             \A s \in Supervisors, max \in Limits \ {0} :
               Cardinality(Checked(s, max)) < max + n
<1> SUFFICES ASSUME NEW s \in Supervisors, NEW max \in Limits \ {0},
                    LoadInv(s, max, n)
             PROVE  Cardinality(Checked(s, max)) < max + n
    BY DEF AllLoads
<1>1. /\ Cardinality(Checked(s, max)) \in Nat
      /\ Cardinality(Passed(s, max)) \in Nat /\ max \in Nat
    BY LoadsAreFinite, SelectionLimits DEF LoadInv
<1> QED
    BY <1>1 DEF LoadInv

(***************************************************************************)
(* Of the assignments that were checked against a limit, a supervisor has  *)
(* more than that limit by less than the number of handlers that stand     *)
(* between the check and the write together: when they come one by one, no *)
(* checked assignment passes a limit.                                      *)
(***************************************************************************)
THEOREM OvershootIsOverlap ==
    ASSUME NEW n \in Nat
    PROVE  SelectionSpec /\ []FewPass(n) =>
             [](\A s \in Supervisors, max \in Limits \ {0} :
                  Cardinality(Checked(s, max)) < max + n)
<1>1. SelectionInit => AllLoads(n)
    BY LoadInit
<1>2. SelectionTypeOK /\ FewPass(n)' /\ AllLoads(n)
        /\ [SelectionNext]_selectionVars => AllLoads(n)'
    BY LoadStep
<1>3. AllLoads(n) => \A s \in Supervisors, max \in Limits \ {0} :
                       Cardinality(Checked(s, max)) < max + n
    BY LoadMeans
<1> QED
    BY <1>1, <1>2, <1>3, SelectionTypeCorrect, PTL DEF SelectionSpec

(***************************************************************************)
(* However many handlers pass the capacity check on one and the same       *)
(* count, and whatever is assigned without a check, the assignments that   *)
(* were checked exceed their limit by less than the number of handlers.    *)
(***************************************************************************)
THEOREM LoadStaysBounded == SelectionSpec => []LoadIsBounded
<1> DEFINE H == Cardinality(Handlers)
<1>1. H \in Nat /\ FewPass(H)'
  <2>1. \A s \in Supervisors, max \in Limits \ {0} :
          Passed(s, max)' \in SUBSET Handlers
      BY DEF Passed
  <2> QED
      BY <2>1, FewAtATime, FS_Subset, FS_CardinalityType DEF FewPass
<1>2. SelectionInit => AllLoads(H)
    BY <1>1, LoadInit
<1>3. SelectionTypeOK /\ AllLoads(H) /\ [SelectionNext]_selectionVars
        => AllLoads(H)'
    BY <1>1, LoadStep
<1>4. AllLoads(H) => LoadIsBounded
    BY <1>1, LoadMeans DEF LoadIsBounded
<1> QED
    BY <1>2, <1>3, <1>4, SelectionTypeCorrect, PTL DEF SelectionSpec
-----------------------------------------------------------------------------
\* No two requests in flight are about one row.
Apart ==
    \A g, h \in Handlers :
      /\ g # h /\ request[g] # NoWork /\ request[h] # NoWork
      /\ request[g].row # None
      => request[g].row # request[h].row

\* What a decision is about is still undecided.
Undecided ==
    \A h \in Handlers : request[h] # NoWork /\ request[h].row # None =>
      row[request[h].row].status = "pending"

\* What is decided stays so.
Final ==
    \A k \in Rows :
      row[k].status \in Decided => row'[k].status = row[k].status

LEMMA UndecidedHandlerStep ==
    ASSUME Apart, SelectionTypeOK, Undecided,
           NEW h \in Handlers, Begin(h) \/ Proceed(h)
    PROVE  Undecided' /\ Final
<1> USE SelectionTags
    DEF SelectionTypeOK, Ask, GoTo, Answer, Undecided, Final, teams
<1>a. ASSUME row' = row, \A g \in Handlers \ {h} : request'[g] = request[g],
             request'[h] # NoWork /\ request'[h].row # None =>
               row[request'[h].row].status = "pending"
      PROVE  Undecided' /\ Final
    BY <1>a
\* A row that is written is not decided, and no other request is about it.
<1>b. ASSUME request'[h] = NoWork, NEW k \in Rows,
             \A g \in Handlers \ {h} : request'[g] = request[g],
             \A j \in Rows \ {k} : row'[j] = row[j],
             row[k].status \notin Decided,
             \A g \in Handlers \ {h} : request[g] # NoWork => request[g].row # k
      PROVE  Undecided' /\ Final
  <2>1. ASSUME NEW g \in Handlers, request'[g] # NoWork, request'[g].row # None
        PROVE  row'[request'[g].row].status = "pending"
    <3>1. g # h /\ request'[g] = request[g] /\ request[g] \in Jobs
        BY <1>b, <2>1
    <3>2. request[g].row \in Rows \ {k}
        BY <1>b, <2>1, <3>1 DEF Jobs
    <3> QED
        BY <1>b, <2>1, <3>1, <3>2
  <2> QED
      BY <1>b, <2>1
\* A handler that goes on with its row.
<1>c. ASSUME row' = row, \A g \in Handlers \ {h} : request'[g] = request[g],
             request[h] # NoWork,
             request'[h] # NoWork => request'[h].row = request[h].row
      PROVE  Undecided' /\ Final
    BY <1>a, <1>c
<1> HIDE DEF Undecided, Final
<1>1. ASSUME NEW c \in Contents, CreateSupervisorRequest(h, c)
      PROVE  Undecided' /\ Final
    BY <1>1, <1>a DEF CreateSupervisorRequest, Work
<1>2. ASSUME NEW step, GoTo(h, step), row' = row, request[h] \in Jobs
      PROVE  Undecided' /\ Final
  <2>1. request'[h].row = request[h].row
      BY <1>2 DEF Jobs
  <2> QED
      BY <1>2, <1>c, <2>1
<1>3. CASE \/ LookForOthers(h) \/ CheckAccepted(h) \/ MoveProject(h)
           \/ GetTeamContext(h) \/ GetSupervisorAssignment(h)
  <2>1. row' = row /\ request[h] \in Jobs
      BY <1>3 DEF LookForOthers, CheckAccepted, MoveProject, GetTeamContext,
                  GetSupervisorAssignment
  <2>2. \E step : GoTo(h, step)
    <3> HIDE DEF GoTo
    <3> QED
        BY <1>3 DEF LookForOthers, CheckAccepted, MoveProject, GetTeamContext,
                    GetSupervisorAssignment
  <2> QED
      BY <1>2, <2>1, <2>2
<1>4. CASE CreateProject(h) \/ CheckSupervisorCapacity(h) \/ WriteAssignment(h)
  <2>1. row' = row /\ request[h] \in Jobs
      BY <1>4 DEF CreateProject, CheckSupervisorCapacity, WriteAssignment
  <2>2. /\ \A g \in Handlers \ {h} : request'[g] = request[g]
        /\ \/ request'[h] = NoWork
           \/ request'[h] = [request[h] EXCEPT !.at = "move", !.names = "project"]
           \/ \E max : request'[h] =
                         [request[h] EXCEPT !.at = "lookup", !.max = max]
           \/ request'[h] = [request[h] EXCEPT !.at = "save", !.max = 0]
      BY <1>4 DEF CreateProject, CheckSupervisorCapacity, WriteAssignment
  <2>3. request'[h] # NoWork => request'[h].row = request[h].row
      BY <2>1, <2>2 DEF Jobs
  <2> QED
      BY <1>c, <2>1, <2>2, <2>3
<1>5. ASSUME NEW k \in Rows, InsertRequest(h, k) PROVE Undecided' /\ Final
  <2>1. row[k].status \notin Decided
      BY <1>5 DEF InsertRequest, Decided
  <2>2. \A g \in Handlers : request[g] # NoWork => request[g].row # k
      BY <1>5, NoneIsNothing DEF InsertRequest, Undecided
  <2> QED
      BY <1>5, <1>b, <2>1, <2>2 DEF InsertRequest
<1>6. ASSUME NEW k \in Rows, Decline(h, k) \/ Approve(h, k)
      PROVE  Undecided' /\ Final
    BY <1>6, <1>a DEF Decline, Approve, Work
<1>7. ASSUME NEW t \in Teams, NEW s \in Supervisors,
             AppointSupervisor(h, [team |-> t, supervisor |-> s,
                                   names |-> "none"])
      PROVE  Undecided' /\ Final
    BY <1>7, <1>a DEF AppointSupervisor, Work
<1>8. CASE UpdateSupervisorRequest(h)
  <2>1. request[h] # NoWork /\ request'[h] = NoWork
      BY <1>8 DEF UpdateSupervisorRequest
  <2>2. CASE request[h].row \in Rows
    <3>1. row[request[h].row].status \notin Decided
        BY <2>1, <2>2, NoneIsNothing DEF Undecided, Decided
    <3>2. \A g \in Handlers \ {h} :
            request[g] # NoWork => request[g].row # request[h].row
        BY <2>1, <2>2, NoneIsNothing DEF Apart
    <3> QED
        BY <1>8, <1>b, <2>1, <2>2, <3>1, <3>2 DEF UpdateSupervisorRequest
  <2>3. CASE request[h].row \notin Rows
      BY <1>8, <1>a, <2>1, <2>3 DEF UpdateSupervisorRequest
  <2> QED
      BY <2>2, <2>3
<1>9. CASE GiveUp(h)
    BY <1>9, <1>a DEF GiveUp
<1> QED
    BY <1>1, <1>3, <1>4, <1>5, <1>6, <1>7, <1>8, <1>9 DEF Begin, Proceed

\* Administrators decide no request.
LEMMA UndecidedAdminStep ==
    ASSUME SelectionTypeOK, Undecided, Administer
    PROVE  Undecided' /\ Final
<1> USE SelectionTags DEF SelectionTypeOK
<1>1. ASSUME \A k \in Rows : row'[k].status = row[k].status,
             \A h \in Handlers :
               /\ request[h] = NoWork => request'[h] = NoWork
               /\ request[h] \in Jobs => request'[h].row = request[h].row
      PROVE  Undecided' /\ Final
  <2>1. ASSUME NEW h \in Handlers, request'[h] # NoWork, request'[h].row # None
        PROVE  row'[request'[h].row].status = "pending"
    <3>1. request[h] \in Jobs /\ request'[h].row = request[h].row
        BY <1>1, <2>1
    <3>2. request[h].row \in Rows
        BY <2>1, <3>1 DEF Jobs
    <3>3. row[request[h].row].status = "pending"
        BY <2>1, <3>1 DEF Undecided
    <3> QED
        BY <1>1, <3>1, <3>2, <3>3
  <2> QED
      BY <1>1, <2>1 DEF Undecided, Final
<1>2. ASSUME NEW t \in Teams, LoseProject(t) PROVE Undecided' /\ Final
  <2>1. \A k \in Rows : row'[k].status = row[k].status
      BY <1>2, SelectionLoss DEF LoseProject
  <2>2. \A h \in Handlers :
          /\ request[h] = NoWork => request'[h] = NoWork
          /\ request[h] \in Jobs => request'[h].row = request[h].row
      BY <1>2, SelectionLoss DEF LoseProject
  <2> QED
      BY <1>1, <2>1, <2>2
<1>3. ASSUME NEW t \in Teams, DeleteTeamByAdmin(t) PROVE Undecided' /\ Final
  <2>1. \A h \in Handlers :
          /\ request[h] = NoWork => request'[h] = NoWork
          /\ request[h] \in Jobs => request'[h].row = request[h].row
      BY <1>3 DEF DeleteTeamByAdmin, Jobs
  <2> QED
      BY <1>1, <1>3, <2>1 DEF DeleteTeamByAdmin
<1>4. ASSUME row' = row, request' = request PROVE Undecided' /\ Final
    BY <1>1, <1>4
<1> QED
    BY <1>2, <1>3, <1>4
    DEF Administer, UpdateTeamByAdmin, DeleteTeam, UpdateTeam,
        UpdateSupervisorMaxTeams,
        CreateProjectAdmin, DeleteProject, UpdateProject

(***************************************************************************)
(* A decision is overwritten only by one that was under way together with  *)
(* it: as long as no two requests about one row overlap, what is decided   *)
(* stays so.                                                               *)
(***************************************************************************)
THEOREM ApartDecisionsAreFinal ==
    SelectionSpec /\ []Apart => DecisionsAreFinal
<1>1. SelectionInit => Undecided
    BY DEF SelectionInit, Undecided
<1>2. SelectionTypeOK /\ Apart /\ Undecided /\ [SelectionNext]_selectionVars =>
        Undecided' /\ [Final]_selectionVars
  <2>1. Undecided /\ UNCHANGED selectionVars => Undecided'
      BY DEF Undecided, selectionVars
  <2> QED
      BY <2>1, UndecidedHandlerStep, UndecidedAdminStep DEF SelectionNext
<1> QED
    BY <1>1, <1>2, SelectionTypeCorrect, PTL
    DEF SelectionSpec, DecisionsAreFinal, Final
=============================================================================
