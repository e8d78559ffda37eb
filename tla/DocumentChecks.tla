--------------------------- MODULE DocumentChecks ---------------------------
(***************************************************************************)
(* Norm control and antiplagiat: the two checks that admin_service makes   *)
(* of the documents of one project.  A document is a row of                *)
(* admin_submissions; its check is a row of norm_control_checks or of      *)
(* antiplagiat_checks, after the state the project was in when it was      *)
(* submitted.  Several documents of a state may be under way at once.      *)
(*                                                                         *)
(* An approval is two transactions: the first writes check and submission, *)
(* the second moves the project; when the second fails a third one takes   *)
(* the first back.  All requests here are made by the assigned checker,    *)
(* who may have several under way; those of others are refused.            *)
(***************************************************************************)
CONSTANTS
    Documents,      \* submissions of the project
    Issues,         \* ids of the critical issues of one document
    Handlers        \* requests that can be in flight at the same time

Stages == {"NORM_CONTROL", "ANTIPLAGIAT"}

\* The path of migration 30 for a workflow without ECONOMICS.
After(stage) == IF stage = "NORM_CONTROL" THEN "ANTIPLAGIAT" ELSE "DEFENSE"

\* "DEFENSE" stands for every state outside the two stages.
States == Stages \cup {"DEFENSE"}

VARIABLES
    at,          \* projects.current_state_name
    stage,       \* the state each document was submitted in
    submission,  \* status in admin_submissions, "none" before the insert
    check,       \* status of the check, "none" before the insert
    issue,       \* norm control: the critical issues of each document
    scores,      \* antiplagiat: how its scores compare with the limits
    request,     \* what each handler has checked and has still to do
    moved,       \* documents whose approval moved the project
    cut,         \* documents whose approval was cut off half way
    overruled    \* documents that ReviewSubmission gave a status

vars == <<at, stage, submission, check, issue, scores, request, moved, cut,
          overruled>>
-----------------------------------------------------------------------------
CheckStatuses == {"none", "submitted", "in_review", "returned", "approved"}
Verdicts == {"approved", "rejected", "revision_requested"}

\* Of an issue it matters whether it is critical and unresolved.
IssueStates == {"none", "open", "settled"}

\* "unset" as long as one of the two scores is NULL.
ScoreStates == {"unset", "good", "bad"}

Idle == [op |-> "none"]

Requests ==
    {Idle}
    \cup [op : {"create"}, stage : Stages]
    \cup [op : {"ensure", "start", "approve", "return", "advance", "undo"},
          doc : Documents]
    \cup [op : {"add"}, doc : Documents, value : {"open", "settled"}]
    \cup [op : {"issue"}, doc : Documents, issue : Issues, value : IssueStates]
    \cup [op : {"scores"}, doc : Documents, value : ScoreStates]

TypeOK ==
    /\ at \in States
    /\ stage \in [Documents -> Stages]
    /\ submission \in [Documents -> Verdicts \cup {"none", "pending"}]
    /\ check \in [Documents -> CheckStatuses]
    /\ issue \in [Documents -> [Issues -> IssueStates]]
    /\ scores \in [Documents -> ScoreStates]
    /\ request \in [Handlers -> Requests]
    /\ moved \subseteq Documents
    /\ cut \subseteq Documents
    /\ overruled \subseteq Documents

Init ==
    /\ at = "NORM_CONTROL"
    /\ stage = [d \in Documents |-> "NORM_CONTROL"]
    /\ submission = [d \in Documents |-> "none"]
    /\ check = [d \in Documents |-> "none"]
    /\ issue = [d \in Documents |-> [i \in Issues |-> "none"]]
    /\ scores = [d \in Documents |-> "unset"]
    /\ request = [h \in Handlers |-> Idle]
    /\ moved = {}
    /\ cut = {}
    /\ overruled = {}
-----------------------------------------------------------------------------
Ask(h, r) == request' = [request EXCEPT ![h] = r]

Answer(h) == Ask(h, Idle)

SetCheck(d, status) == check' = [check EXCEPT ![d] = status]

SetSubmission(d, status) == submission' = [submission EXCEPT ![d] = status]

\* Ensure...CheckForSubmission: ON CONFLICT DO NOTHING.
EnsureCheck(d) ==
    SetCheck(d, IF check[d] = "none" THEN "submitted" ELSE check[d])

\* assert...Submission and assertProjectIn...: the document was submitted in
\* the state the project is in.
InStage(d) == submission[d] # "none" /\ stage[d] = at

\* What stands against an approval.
Clean(d) ==
    IF stage[d] = "NORM_CONTROL" THEN \A i \in Issues : issue[d][i] # "open"
                                 ELSE scores[d] = "good"
-----------------------------------------------------------------------------
\* SubmitDocumentForStep reads the state of the project ...
SubmitDocumentForStep(h) ==
    /\ request[h] = Idle
    /\ at \in Stages
    /\ Ask(h, [op |-> "create", stage |-> at])
    /\ UNCHANGED <<at, stage, submission, check, issue, scores, moved, cut,
                   overruled>>

\* ... inserts the submission ...
CreateSubmission(h, d) ==
    /\ request[h].op = "create"
    /\ submission[d] = "none"
    /\ stage' = [stage EXCEPT ![d] = request[h].stage]
    /\ SetSubmission(d, "pending")
    /\ Ask(h, [op |-> "ensure", doc |-> d])
    /\ UNCHANGED <<at, check, issue, scores, moved, cut, overruled>>

\* ... and the check.
CreateCheck(h) ==
    /\ request[h].op = "ensure"
    /\ EnsureCheck(request[h].doc)
    /\ Answer(h)
    /\ UNCHANGED <<at, stage, submission, issue, scores, moved, cut, overruled>>

\* NormGetDocument and AntiplagGetDocument, and the requests that look for a
\* check before they are refused, create a missing one.
GetDocument(d) ==
    /\ submission[d] # "none"
    /\ check[d] = "none"
    /\ EnsureCheck(d)
    /\ UNCHANGED <<at, stage, submission, issue, scores, request, moved, cut,
                   overruled>>

\* The checks in front of the transactions of start, approve and return.
Decide(h, d, op) ==
    /\ request[h] = Idle
    /\ InStage(d)
    /\ EnsureCheck(d)
    /\ Ask(h, [op |-> op, doc |-> d])
    /\ UNCHANGED <<at, stage, submission, issue, scores, moved, cut, overruled>>

StartReview(h) ==
    /\ request[h].op = "start"
    /\ check[request[h].doc] = "submitted"
    /\ SetCheck(request[h].doc, "in_review")
    /\ Answer(h)
    /\ UNCHANGED <<at, stage, submission, issue, scores, moved, cut, overruled>>

\* A plausible bug: the submission's word for the check.
ReturnRejected(h) ==
    LET d == request[h].doc IN
    /\ request[h].op = "return"
    /\ check[d] = "in_review"
    /\ SetCheck(d, "revision_requested")
    /\ SetSubmission(d, "revision_requested")
    /\ Answer(h)
    /\ UNCHANGED <<at, stage, issue, scores, moved, cut, overruled>>

\* NormReturn and AntiplagReturn; the second one's ANTIPLAGIAT_REJECTED
\* leads back to the same state.
Return(h) ==
    LET d == request[h].doc IN
    /\ request[h].op = "return"
    /\ check[d] = "in_review"
    /\ SetCheck(d, "returned")
    /\ SetSubmission(d, IF stage[d] = "NORM_CONTROL"
                          THEN "revision_requested" ELSE "pending")
    /\ Answer(h)
    /\ UNCHANGED <<at, stage, issue, scores, moved, cut, overruled>>
-----------------------------------------------------------------------------
\* Issues and scores: a handler looks at the check, and writes later without
\* looking again.

NormAddIssue(h, d, value) ==
    /\ request[h] = Idle
    /\ stage[d] = "NORM_CONTROL"
    /\ InStage(d)
    /\ check[d] = "in_review"
    /\ Ask(h, [op |-> "add", doc |-> d, value |-> value])
    /\ UNCHANGED <<at, stage, submission, check, issue, scores, moved, cut,
                   overruled>>

CreateNormIssue(h, i) ==
    LET r == request[h] IN
    /\ r.op = "add"
    /\ issue[r.doc][i] = "none"
    /\ issue' = [issue EXCEPT ![r.doc][i] = r.value]
    /\ Answer(h)
    /\ UNCHANGED <<at, stage, submission, check, scores, moved, cut, overruled>>

\* NormUpdateIssue, and NormDeleteIssue with the value "none"; where the
\* project is does not matter to them.
ChangeIssue(h, d, i, value) ==
    /\ request[h] = Idle
    /\ issue[d][i] # "none"
    /\ check[d] = "in_review"
    /\ Ask(h, [op |-> "issue", doc |-> d, issue |-> i, value |-> value])
    /\ UNCHANGED <<at, stage, submission, check, issue, scores, moved, cut,
                   overruled>>

\* Save inserts the issue again when it has been deleted meanwhile.
WriteIssue(h) ==
    LET r == request[h] IN
    /\ r.op = "issue"
    /\ issue' = [issue EXCEPT ![r.doc][r.issue] = r.value]
    /\ Answer(h)
    /\ UNCHANGED <<at, stage, submission, check, scores, moved, cut, overruled>>

\* AntiplagSetScores reads the check; with one of the scores still missing
\* the result may be "unset".
AntiplagSetScores(h, d, value) ==
    /\ request[h] = Idle
    /\ stage[d] = "ANTIPLAGIAT"
    /\ InStage(d)
    /\ check[d] = "in_review"
    /\ value = "unset" => scores[d] = "unset"
    /\ Ask(h, [op |-> "scores", doc |-> d, value |-> value])
    /\ UNCHANGED <<at, stage, submission, check, issue, scores, moved, cut,
                   overruled>>

\* The row is written whole, with the status it was read with.
UpdateAntiplagCheck(h) ==
    LET r == request[h] IN
    /\ r.op = "scores"
    /\ SetCheck(r.doc, "in_review")
    /\ scores' = [scores EXCEPT ![r.doc] = r.value]
    /\ Answer(h)
    /\ UNCHANGED <<at, stage, submission, issue, moved, cut, overruled>>
-----------------------------------------------------------------------------
\* Approval.

\* A plausible bug: an approval may be repeated.
ApproveAgain(h) ==
    LET d == request[h].doc IN
    /\ request[h].op = "approve"
    /\ check[d] \in {"in_review", "approved"}
    /\ Clean(d)
    /\ SetCheck(d, "approved")
    /\ SetSubmission(d, "approved")
    /\ Ask(h, [op |-> "advance", doc |-> d])
    /\ UNCHANGED <<at, stage, issue, scores, moved, cut, overruled>>

\* NormApprove and AntiplagApprove: the transaction ...
Approve(h) ==
    LET d == request[h].doc IN
    /\ request[h].op = "approve"
    /\ check[d] = "in_review"
    /\ Clean(d)
    /\ SetCheck(d, "approved")
    /\ SetSubmission(d, "approved")
    /\ Ask(h, [op |-> "advance", doc |-> d])
    /\ UNCHANGED <<at, stage, issue, scores, moved, cut, overruled>>

\* ... AdvanceProjectByWorkflowEvent, which looks for a transition of the
\* stage's event from where the project now is ...
Advance(h) ==
    LET d == request[h].doc IN
    /\ request[h].op = "advance"
    /\ at = stage[d]
    /\ at' = After(at)
    /\ moved' = moved \cup {d}
    /\ Answer(h)
    /\ UNCHANGED <<stage, submission, check, issue, scores, cut, overruled>>

\* ... or an error: no transition, no team leader, no database.
AdvanceFails(h) ==
    /\ request[h].op = "advance"
    /\ Ask(h, [request[h] EXCEPT !.op = "undo"])
    /\ UNCHANGED <<at, stage, submission, check, issue, scores, moved, cut,
                   overruled>>

\* Plausible bugs: half of the approval is taken back.
UndoSubmissionOnly(h) ==
    /\ request[h].op = "undo"
    /\ SetSubmission(request[h].doc, "pending")
    /\ Answer(h)
    /\ UNCHANGED <<at, stage, check, issue, scores, moved, cut, overruled>>
UndoCheckOnly(h) ==
    /\ request[h].op = "undo"
    /\ SetCheck(request[h].doc, "in_review")
    /\ Answer(h)
    /\ UNCHANGED <<at, stage, submission, issue, scores, moved, cut, overruled>>

\* The approval is taken back, whatever the rows hold by now.
Undo(h) ==
    /\ request[h].op = "undo"
    /\ SetCheck(request[h].doc, "in_review")
    /\ SetSubmission(request[h].doc, "pending")
    /\ Answer(h)
    /\ UNCHANGED <<at, stage, issue, scores, moved, cut, overruled>>

\* A refused check, a failed statement, the end of the process; errors of
\* Undo's transaction are ignored.
Abandon(h) ==
    /\ request[h] # Idle
    /\ Answer(h)
    /\ cut' = IF request[h].op \in {"advance", "undo"}
                THEN cut \cup {request[h].doc} ELSE cut
    /\ UNCHANGED <<at, stage, submission, check, issue, scores, moved,
                   overruled>>
-----------------------------------------------------------------------------
\* The general review of submissions knows nothing of the checks.
ReviewSubmission(d, verdict) ==
    /\ submission[d] # "none"
    /\ SetSubmission(d, verdict)
    /\ overruled' = overruled \cup {d}
    /\ UNCHANGED <<at, stage, check, issue, scores, request, moved, cut>>

\* Administrators move the project, forward or back (ProjectRuntime).
AdminMove(to) ==
    /\ at' = to
    /\ UNCHANGED <<stage, submission, check, issue, scores, request, moved, cut,
                   overruled>>
-----------------------------------------------------------------------------
Begin(h, d) ==
    \/ \E op \in {"start", "approve", "return"} : Decide(h, d, op)
    \/ \E value \in {"open", "settled"} : NormAddIssue(h, d, value)
    \/ \E i \in Issues, value \in IssueStates : ChangeIssue(h, d, i, value)
    \/ \E value \in ScoreStates : AntiplagSetScores(h, d, value)

Proceed(h) ==
    \/ \E d \in Documents : CreateSubmission(h, d)
    \/ CreateCheck(h)
    \/ StartReview(h)
    \/ Return(h)
    \/ \E i \in Issues : CreateNormIssue(h, i)
    \/ WriteIssue(h)
    \/ UpdateAntiplagCheck(h)
    \/ Approve(h)
    \/ Advance(h)
    \/ AdvanceFails(h)
    \/ Undo(h)
    \/ Abandon(h)

Next ==
    \/ \E h \in Handlers : \/ SubmitDocumentForStep(h)
                           \/ \E d \in Documents : Begin(h, d)
                           \/ Proceed(h)
    \/ \E d \in Documents, verdict \in Verdicts : ReviewSubmission(d, verdict)
    \/ \E d \in Documents : GetDocument(d)
    \/ \E to \in States : AdminMove(to)

Spec == Init /\ [][Next]_vars
-----------------------------------------------------------------------------
\* Properties.

\* A request has approved d and not yet moved the project or given up.
Moving(h, d) == request[h].op \in {"advance", "undo"} /\ request[h].doc = d

(***************************************************************************)
(* "Take the approval back so that it does not stay approved"              *)
(* (NormApprove): once nobody works on an approved document, it has moved  *)
(* the project.  Whether the move failed or another document or an         *)
(* administrator was faster, approval and move come together or not at     *)
(* all; only an approval that was cut off may stay without its move.       *)
(***************************************************************************)
ApprovedHasMoved ==
    \A d \in Documents \ cut :
      check[d] = "approved" /\ (\A h \in Handlers : ~Moving(h, d)) =>
        d \in moved

(***************************************************************************)
(* The document that brought the project out of norm control stays         *)
(* approved: no repeated approval, late return or compensation of another  *)
(* request takes that back.                                                *)
(***************************************************************************)
PassedStaysApproved ==
    \A d \in moved : stage[d] = "NORM_CONTROL" => check[d] = "approved"

(***************************************************************************)
(* The check of a document in norm control and its submission say the same *)
(* in every state, also while an approval is being taken back, unless      *)
(* ReviewSubmission has overruled it.                                      *)
(***************************************************************************)
SubmissionAgrees ==
    \A d \in Documents \ overruled : stage[d] = "NORM_CONTROL" =>
      /\ check[d] = "approved" <=> submission[d] = "approved"
      /\ check[d] = "returned" <=> submission[d] = "revision_requested"

(***************************************************************************)
(* "Cannot approve: unresolved critical issues exist" (NormApprove).  An   *)
(* issue whose handler looked at the check before the approval is written  *)
(* after it.                                                               *)
(***************************************************************************)
ApprovedIsClean ==
    \A d \in Documents : check[d] = "approved" => Clean(d)

(***************************************************************************)
(* Scores are set of a document in review only ("document is not           *)
(* in_review", AntiplagSetScores).  Scores that were being set while the   *)
(* document was approved put it back in review.                            *)
(***************************************************************************)
ScoresKeepDecisions ==
    [][\A d \in Documents :
         scores'[d] # scores[d] => check[d] = "in_review"]_vars

\* ApprovedHasMoved without the exception: a process that ends between the
\* two transactions leaves an approval that nobody can repeat.
NothingStaysApproved ==
    \A d \in Documents :
      check[d] = "approved" /\ (\A h \in Handlers : ~Moving(h, d)) =>
        d \in moved
=============================================================================
