------------------------ MODULE DocumentChecksProofs ------------------------
(***************************************************************************)
(* Theorems about DocumentChecks, for any documents, issues and number of  *)
(* requests under way.                                                     *)
(***************************************************************************)
EXTENDS DocumentChecks, TLAPS

-----------------------------------------------------------------------------
\* What a request of each kind holds.
LEMMA RequestFields ==
    ASSUME NEW r \in Requests
    PROVE  /\ r.op = "create" => r.stage \in Stages
           /\ r.op \in {"ensure", "start", "approve", "return", "advance",
                        "undo"}
                => r.doc \in Documents /\ r = [op |-> r.op, doc |-> r.doc]
           /\ r.op \in {"add", "issue", "scores"} => r.doc \in Documents
           /\ r.op = "add" => r.value \in {"open", "settled"}
           /\ r.op = "issue" => r.issue \in Issues /\ r.value \in IssueStates
           /\ r.op = "scores" => r.value \in ScoreStates
BY DEF Requests, Idle

\* One request replaced by another of the right kind.
LEMMA AskTypes ==
    ASSUME TypeOK, NEW h \in Handlers, NEW r \in Requests, Ask(h, r)
    PROVE  request' \in [Handlers -> Requests]
BY DEF TypeOK, Ask

LEMMA AnswerTypes ==
    ASSUME TypeOK, NEW h \in Handlers, Answer(h)
    PROVE  request' \in [Handlers -> Requests]
<1>1. Idle \in Requests
  BY DEF Requests
<1> QED
  BY <1>1, AskTypes DEF Answer

LEMMA CheckTypes ==
    ASSUME TypeOK, NEW d \in Documents,
           \/ EnsureCheck(d)
           \/ \E s \in CheckStatuses : SetCheck(d, s)
    PROVE  check' \in [Documents -> CheckStatuses]
BY DEF TypeOK, EnsureCheck, SetCheck, CheckStatuses

LEMMA StepTypes == TypeOK /\ [Next]_vars => TypeOK'
<1> SUFFICES ASSUME TypeOK, [Next]_vars PROVE TypeOK'
  OBVIOUS
<1> USE DEF Verdicts
<1>1. ASSUME NEW h \in Handlers, SubmitDocumentForStep(h) PROVE TypeOK'
  <2>1. [op |-> "create", stage |-> at] \in Requests
    BY <1>1 DEF SubmitDocumentForStep, Requests
  <2> QED
    BY <1>1, <2>1, AskTypes DEF SubmitDocumentForStep, TypeOK
<1>2. ASSUME NEW h \in Handlers, NEW d \in Documents, CreateSubmission(h, d)
      PROVE  TypeOK'
  <2>1. [op |-> "ensure", doc |-> d] \in Requests
    BY DEF Requests
  <2>2. request[h].stage \in Stages
    BY <1>2, RequestFields DEF CreateSubmission, TypeOK
  <2> QED
    BY <1>2, <2>1, <2>2, AskTypes DEF CreateSubmission, SetSubmission, TypeOK
<1>3. ASSUME NEW h \in Handlers, CreateCheck(h) PROVE TypeOK'
  <2>1. request[h].doc \in Documents
    BY <1>3, RequestFields DEF CreateCheck, TypeOK
  <2> QED
    BY <1>3, <2>1, CheckTypes, AnswerTypes DEF CreateCheck, TypeOK
<1>4. ASSUME NEW d \in Documents, GetDocument(d) PROVE TypeOK'
  BY <1>4, CheckTypes DEF GetDocument, TypeOK
<1>5. ASSUME NEW h \in Handlers, NEW d \in Documents,
             NEW op \in {"start", "approve", "return"}, Decide(h, d, op)
      PROVE  TypeOK'
  <2>1. [op |-> op, doc |-> d] \in Requests
    BY DEF Requests
  <2> QED
    BY <1>5, <2>1, CheckTypes, AskTypes DEF Decide, TypeOK
<1>6. ASSUME NEW h \in Handlers, StartReview(h) PROVE TypeOK'
  <2>1. request[h].doc \in Documents
    BY <1>6, RequestFields DEF StartReview, TypeOK
  <2> QED
    BY <1>6, <2>1, CheckTypes, AnswerTypes
    DEF StartReview, TypeOK, CheckStatuses
<1>7. ASSUME NEW h \in Handlers, Return(h) PROVE TypeOK'
  <2>1. request[h].doc \in Documents
    BY <1>7, RequestFields DEF Return, TypeOK
  <2> QED
    BY <1>7, <2>1, CheckTypes, AnswerTypes
    DEF Return, SetSubmission, TypeOK, CheckStatuses
<1>8. ASSUME NEW h \in Handlers, NEW d \in Documents,
             NEW value \in {"open", "settled"}, NormAddIssue(h, d, value)
      PROVE  TypeOK'
  <2>1. [op |-> "add", doc |-> d, value |-> value] \in Requests
    BY DEF Requests
  <2> QED
    BY <1>8, <2>1, AskTypes DEF NormAddIssue, TypeOK
<1>9. ASSUME NEW h \in Handlers, NEW i \in Issues, CreateNormIssue(h, i)
      PROVE  TypeOK'
  <2>1. request[h].doc \in Documents /\ request[h].value \in IssueStates
    BY <1>9, RequestFields DEF CreateNormIssue, TypeOK, IssueStates
  <2> QED
    BY <1>9, <2>1, AnswerTypes DEF CreateNormIssue, TypeOK
<1>10. ASSUME NEW h \in Handlers, NEW d \in Documents, NEW i \in Issues,
              NEW value \in IssueStates, ChangeIssue(h, d, i, value)
       PROVE  TypeOK'
  <2>1. [op |-> "issue", doc |-> d, issue |-> i, value |-> value] \in Requests
    BY DEF Requests
  <2> QED
    BY <1>10, <2>1, AskTypes DEF ChangeIssue, TypeOK
<1>11. ASSUME NEW h \in Handlers, WriteIssue(h) PROVE TypeOK'
  <2>1. /\ request[h].doc \in Documents
        /\ request[h].issue \in Issues
        /\ request[h].value \in IssueStates
    BY <1>11, RequestFields DEF WriteIssue, TypeOK
  <2> QED
    BY <1>11, <2>1, AnswerTypes DEF WriteIssue, TypeOK
<1>12. ASSUME NEW h \in Handlers, NEW d \in Documents,
              NEW value \in ScoreStates, AntiplagSetScores(h, d, value)
       PROVE  TypeOK'
  <2>1. [op |-> "scores", doc |-> d, value |-> value] \in Requests
    BY DEF Requests
  <2> QED
    BY <1>12, <2>1, AskTypes DEF AntiplagSetScores, TypeOK
<1>13. ASSUME NEW h \in Handlers, UpdateAntiplagCheck(h) PROVE TypeOK'
  <2>1. request[h].doc \in Documents /\ request[h].value \in ScoreStates
    BY <1>13, RequestFields DEF UpdateAntiplagCheck, TypeOK
  <2> QED
    BY <1>13, <2>1, CheckTypes, AnswerTypes
    DEF UpdateAntiplagCheck, TypeOK, CheckStatuses
<1>14. ASSUME NEW h \in Handlers, Approve(h) PROVE TypeOK'
  <2>1. request[h].doc \in Documents
    BY <1>14, RequestFields DEF Approve, TypeOK
  <2>2. [op |-> "advance", doc |-> request[h].doc] \in Requests
    BY <2>1 DEF Requests
  <2> QED
    BY <1>14, <2>1, <2>2, CheckTypes, AskTypes
    DEF Approve, SetSubmission, TypeOK, CheckStatuses
<1>15. ASSUME NEW h \in Handlers, Advance(h) PROVE TypeOK'
  <2>1. request[h].doc \in Documents
    BY <1>15, RequestFields DEF Advance, TypeOK
  <2> QED
    BY <1>15, <2>1, AnswerTypes DEF Advance, After, States, Stages, TypeOK
<1>16. ASSUME NEW h \in Handlers, AdvanceFails(h) PROVE TypeOK'
  <2>1. [request[h] EXCEPT !.op = "undo"] \in Requests
    BY <1>16, RequestFields DEF AdvanceFails, TypeOK, Requests
  <2> QED
    BY <1>16, <2>1, AskTypes DEF AdvanceFails, TypeOK
<1>17. ASSUME NEW h \in Handlers, Undo(h) PROVE TypeOK'
  <2>1. request[h].doc \in Documents
    BY <1>17, RequestFields DEF Undo, TypeOK
  <2> QED
    BY <1>17, <2>1, CheckTypes, AnswerTypes
    DEF Undo, SetSubmission, TypeOK, CheckStatuses
<1>18. ASSUME NEW h \in Handlers, Abandon(h) PROVE TypeOK'
  <2>1. request[h].op \in {"advance", "undo"} => request[h].doc \in Documents
    BY RequestFields DEF TypeOK
  <2> QED
    BY <1>18, <2>1, AnswerTypes DEF Abandon, TypeOK
<1>19. ASSUME NEW d \in Documents, NEW verdict \in Verdicts,
              ReviewSubmission(d, verdict)
       PROVE  TypeOK'
  BY <1>19 DEF ReviewSubmission, SetSubmission, TypeOK
<1>20. ASSUME NEW to \in States, AdminMove(to) PROVE TypeOK'
  BY <1>20 DEF AdminMove, TypeOK
<1>21. CASE UNCHANGED vars
  BY <1>21 DEF vars, TypeOK
<1> QED
  BY <1>1, <1>2, <1>3, <1>4, <1>5, <1>6, <1>7, <1>8, <1>9, <1>10, <1>11,
     <1>12, <1>13, <1>14, <1>15, <1>16, <1>17, <1>18, <1>19, <1>20, <1>21
  DEF Next, Begin, Proceed

LEMMA InitTypes == Init => TypeOK
BY DEF Init, TypeOK, States, Stages, CheckStatuses, Requests, ScoreStates,
       IssueStates

(***************************************************************************)
(* Type correctness: rows, checks, issues and requests keep their shapes.  *)
(***************************************************************************)
THEOREM TypeCorrect == Spec => []TypeOK
BY InitTypes, StepTypes, PTL DEF Spec
-----------------------------------------------------------------------------
(***************************************************************************)
(* The inductive invariant.  A document that is not there yet has nothing  *)
(* said about it.  Of a document in norm control, an approval that has     *)
(* not yet moved the project is alone, and the check says approved until   *)
(* that very request takes it back; scores are never set of it.            *)
(***************************************************************************)
About(h, d) ==
    request[h].op \notin {"none", "create"} /\ request[h].doc = d

AbsentInv ==
    \A d \in Documents : submission[d] = "none" =>
      /\ check[d] = "none"
      /\ d \notin moved
      /\ \A h \in Handlers : ~About(h, d)

ScoresInv ==
    \A h \in Handlers, d \in Documents :
      request[h].op = "scores" /\ request[h].doc = d =>
        stage[d] = "ANTIPLAGIAT"

MovingInv ==
    \A h \in Handlers, d \in Documents :
      Moving(h, d) /\ stage[d] = "NORM_CONTROL" =>
        /\ check[d] = "approved"
        /\ d \notin moved
        /\ \A k \in Handlers : Moving(k, d) => k = h

IInv ==
    /\ TypeOK
    /\ AbsentInv
    /\ ScoresInv
    /\ MovingInv
    /\ ApprovedHasMoved
    /\ PassedStaysApproved
    /\ SubmissionAgrees

LEMMA InitIInv == Init => IInv
<1> SUFFICES ASSUME Init PROVE IInv
  OBVIOUS
<1> USE DEF Init, Idle
<1>1. TypeOK
  BY InitTypes
<1>2. AbsentInv /\ ScoresInv /\ MovingInv
  BY DEF AbsentInv, ScoresInv, MovingInv, About, Moving
<1>3. ApprovedHasMoved /\ PassedStaysApproved /\ SubmissionAgrees
  BY DEF ApprovedHasMoved, PassedStaysApproved, SubmissionAgrees
<1> QED
  BY <1>1, <1>2, <1>3 DEF IInv

\* The requests after one of them was replaced.
LEMMA Replaced ==
    ASSUME TypeOK, NEW h \in Handlers, NEW r, Ask(h, r)
    PROVE  \A k \in Handlers : request'[k] = IF k = h THEN r ELSE request[k]
BY DEF TypeOK, Ask

(***************************************************************************)
(* Steps that leave check, submission, stage and the approvals under way   *)
(* alone keep the invariant.                                               *)
(***************************************************************************)
LEMMA QuietKeeps ==
    ASSUME IInv, TypeOK',
           UNCHANGED <<stage, submission, check, moved, cut, overruled>>,
           \A k \in Handlers, d \in Documents :
             /\ Moving(k, d)' <=> Moving(k, d)
             /\ About(k, d)' => submission[d] # "none"
             /\ request'[k].op = "scores" /\ request'[k].doc = d =>
                  stage[d] = "ANTIPLAGIAT"
    PROVE  IInv'
<1>1. AbsentInv' /\ ScoresInv'
  BY DEF IInv, AbsentInv, ScoresInv
<1>2. MovingInv'
  BY DEF IInv, MovingInv
<1>3. ApprovedHasMoved'
  BY DEF IInv, ApprovedHasMoved
<1>4. PassedStaysApproved' /\ SubmissionAgrees'
  BY DEF IInv, PassedStaysApproved, SubmissionAgrees
<1> QED
  BY <1>1, <1>2, <1>3, <1>4 DEF IInv

LEMMA RequestSteps ==
    ASSUME IInv, TypeOK', NEW h \in Handlers,
           \/ SubmitDocumentForStep(h)
           \/ \E d \in Documents :
                \/ \E value \in {"open", "settled"} : NormAddIssue(h, d, value)
                \/ \E i \in Issues, value \in IssueStates :
                     ChangeIssue(h, d, i, value)
                \/ \E value \in ScoreStates : AntiplagSetScores(h, d, value)
           \/ \E i \in Issues : CreateNormIssue(h, i)
           \/ WriteIssue(h)
           \/ AdvanceFails(h)
    PROVE  IInv'
<1> USE DEF About, Moving
<1>1. CASE SubmitDocumentForStep(h)
  <2>1. \A k \in Handlers : request'[k] =
          IF k = h THEN [op |-> "create", stage |-> at] ELSE request[k]
    BY <1>1, Replaced DEF SubmitDocumentForStep, IInv
  <2> QED
    BY <1>1, <2>1, QuietKeeps
    DEF SubmitDocumentForStep, IInv, AbsentInv, ScoresInv, Idle
<1>2. ASSUME NEW d \in Documents, NEW value \in {"open", "settled"},
             NormAddIssue(h, d, value)
      PROVE  IInv'
  <2>1. \A k \in Handlers : request'[k] =
          IF k = h THEN [op |-> "add", doc |-> d, value |-> value]
                   ELSE request[k]
    BY <1>2, Replaced DEF NormAddIssue, IInv
  <2> QED
    BY <1>2, <2>1, QuietKeeps
    DEF NormAddIssue, InStage, IInv, AbsentInv, ScoresInv, Idle
<1>3. ASSUME NEW d \in Documents, NEW i \in Issues, NEW value \in IssueStates,
             ChangeIssue(h, d, i, value)
      PROVE  IInv'
  <2>1. \A k \in Handlers : request'[k] =
          IF k = h
            THEN [op |-> "issue", doc |-> d, issue |-> i, value |-> value]
            ELSE request[k]
    BY <1>3, Replaced DEF ChangeIssue, IInv
  <2>2. submission[d] # "none"
    BY <1>3 DEF ChangeIssue, IInv, AbsentInv
  <2> QED
    BY <1>3, <2>1, <2>2, QuietKeeps
    DEF ChangeIssue, IInv, AbsentInv, ScoresInv, Idle
<1>4. ASSUME NEW d \in Documents, NEW value \in ScoreStates,
             AntiplagSetScores(h, d, value)
      PROVE  IInv'
  <2>1. \A k \in Handlers : request'[k] =
          IF k = h THEN [op |-> "scores", doc |-> d, value |-> value]
                   ELSE request[k]
    BY <1>4, Replaced DEF AntiplagSetScores, IInv
  <2> QED
    BY <1>4, <2>1, QuietKeeps
    DEF AntiplagSetScores, InStage, IInv, AbsentInv, ScoresInv, Idle
<1>5. CASE (\E i \in Issues : CreateNormIssue(h, i)) \/ WriteIssue(h)
  <2>1. \A k \in Handlers : request'[k] = IF k = h THEN Idle ELSE request[k]
    BY <1>5, Replaced DEF CreateNormIssue, WriteIssue, Answer, IInv
  <2>2. request[h].op \in {"add", "issue"}
    BY <1>5 DEF CreateNormIssue, WriteIssue
  <2>3. UNCHANGED <<stage, submission, check, moved, cut, overruled>>
    BY <1>5 DEF CreateNormIssue, WriteIssue
  <2> QED
    BY <2>1, <2>2, <2>3, QuietKeeps DEF IInv, AbsentInv, ScoresInv, Idle
<1>6. CASE AdvanceFails(h)
  <2>1. \A k \in Handlers : request'[k] =
          IF k = h THEN [request[h] EXCEPT !.op = "undo"] ELSE request[k]
    BY <1>6, Replaced DEF AdvanceFails, IInv
  <2>2. request[h] = [op |-> "advance", doc |-> request[h].doc]
    BY <1>6, RequestFields DEF AdvanceFails, IInv, TypeOK
  <2>3. request'[h] = [op |-> "undo", doc |-> request[h].doc]
    BY <2>1, <2>2
  <2>4. \A k \in Handlers : k # h => request'[k] = request[k]
    BY <2>1
  <2> QED
    BY <1>6, <2>2, <2>3, <2>4, QuietKeeps
    DEF AdvanceFails, IInv, AbsentInv, ScoresInv
<1> QED
  BY <1>1, <1>2, <1>3, <1>4, <1>5, <1>6

\* Steps that decide about a document, one lemma each.

\* A new document is in no request and was never approved.
LEMMA CreateSubmissionKeeps ==
    ASSUME IInv, TypeOK', NEW h \in Handlers, NEW d \in Documents,
           CreateSubmission(h, d)
    PROVE  IInv'
<1> USE DEF About, Moving
<1>1. \A k \in Handlers : request'[k] =
          IF k = h
            THEN [op |-> "ensure", doc |-> d]
            ELSE request[k]
  BY Replaced DEF CreateSubmission, Answer, IInv
<1>2. \A e \in Documents : submission'[e] =
          IF e = d
            THEN "pending"
            ELSE submission[e]
  BY DEF CreateSubmission, SetSubmission, IInv, TypeOK
<1>3. \A e \in Documents \ {d} : stage'[e] = stage[e]
  BY DEF CreateSubmission, IInv, TypeOK
<1>4. UNCHANGED <<check, moved, cut, overruled>>
  BY DEF CreateSubmission
<1>5. request[h].op = "create" /\ submission[d] = "none"
  BY DEF CreateSubmission
<1>6. AbsentInv' /\ ScoresInv'
  BY <1>1, <1>2, <1>3, <1>4, <1>5
  DEF IInv, AbsentInv, ScoresInv, Idle
<1>7. MovingInv'
  BY <1>1, <1>2, <1>3, <1>4, <1>5
  DEF IInv, AbsentInv, MovingInv, ScoresInv, Idle
<1>8. ApprovedHasMoved'
  BY <1>1, <1>2, <1>3, <1>4, <1>5
  DEF IInv, AbsentInv, ApprovedHasMoved, Idle
<1>9. PassedStaysApproved'
  BY <1>1, <1>2, <1>3, <1>4, <1>5
  DEF IInv, AbsentInv, ScoresInv, MovingInv, PassedStaysApproved,
      Idle, TypeOK
<1>10. SubmissionAgrees'
  BY <1>1, <1>2, <1>3, <1>4, <1>5
  DEF IInv, AbsentInv, ScoresInv, MovingInv, SubmissionAgrees, Idle
<1> QED
  BY <1>6, <1>7, <1>8, <1>9, <1>10 DEF IInv

\* A missing check is created.
LEMMA CreateCheckKeeps ==
    ASSUME IInv, TypeOK', NEW h \in Handlers, CreateCheck(h)
    PROVE  IInv'
<1> USE DEF About, Moving
<1>1. request[h].doc \in Documents
  BY RequestFields DEF CreateCheck, IInv, TypeOK
<1>2. \A k \in Handlers : request'[k] = IF k = h THEN Idle ELSE request[k]
  BY Replaced DEF CreateCheck, Answer, IInv
<1>3. \A e \in Documents : check'[e] =
          IF e = request[h].doc
            THEN (IF check[e] = "none"
                    THEN "submitted" ELSE check[e])
            ELSE check[e]
  BY <1>1 DEF CreateCheck, SetCheck, EnsureCheck, IInv, TypeOK
<1>4. UNCHANGED <<stage, submission, moved, cut, overruled>>
  BY DEF CreateCheck
<1>5. request[h].op = "ensure"
  BY DEF CreateCheck
<1>6. AbsentInv' /\ ScoresInv'
  BY <1>1, <1>2, <1>3, <1>4, <1>5
  DEF IInv, AbsentInv, ScoresInv, Idle
<1>7. MovingInv'
  BY <1>1, <1>2, <1>3, <1>4, <1>5
  DEF IInv, AbsentInv, MovingInv, ScoresInv, Idle
<1>8. ApprovedHasMoved'
  BY <1>1, <1>2, <1>3, <1>4, <1>5
  DEF IInv, AbsentInv, ApprovedHasMoved, Idle
<1>9. PassedStaysApproved'
  BY <1>1, <1>2, <1>3, <1>4, <1>5
  DEF IInv, AbsentInv, ScoresInv, MovingInv, PassedStaysApproved,
      Idle, TypeOK
<1>10. SubmissionAgrees'
  BY <1>1, <1>2, <1>3, <1>4, <1>5
  DEF IInv, AbsentInv, ScoresInv, MovingInv, SubmissionAgrees, Idle
<1> QED
  BY <1>6, <1>7, <1>8, <1>9, <1>10 DEF IInv

\* The same without a request.
LEMMA GetDocumentKeeps ==
    ASSUME IInv, TypeOK', NEW d \in Documents, GetDocument(d)
    PROVE  IInv'
<1> USE DEF About, Moving
<1>1. UNCHANGED <<request, stage, submission, moved, cut, overruled>>
  BY DEF GetDocument
<1>2. \A e \in Documents : check'[e] = IF e = d THEN "submitted" ELSE check[e]
  BY DEF GetDocument, EnsureCheck, SetCheck, IInv, TypeOK
<1>3. submission[d] # "none" /\ check[d] = "none"
  BY DEF GetDocument
<1>4. AbsentInv' /\ ScoresInv'
  BY <1>1, <1>2, <1>3
  DEF IInv, AbsentInv, ScoresInv, Idle
<1>5. MovingInv'
  BY <1>1, <1>2, <1>3
  DEF IInv, AbsentInv, MovingInv, ScoresInv, Idle
<1>6. ApprovedHasMoved'
  BY <1>1, <1>2, <1>3
  DEF IInv, AbsentInv, ApprovedHasMoved, Idle
<1>7. PassedStaysApproved'
  BY <1>1, <1>2, <1>3
  DEF IInv, AbsentInv, ScoresInv, MovingInv, PassedStaysApproved,
      Idle, TypeOK
<1>8. SubmissionAgrees'
  BY <1>1, <1>2, <1>3
  DEF IInv, AbsentInv, ScoresInv, MovingInv, SubmissionAgrees, Idle
<1> QED
  BY <1>4, <1>5, <1>6, <1>7, <1>8 DEF IInv

\* A request that is about to start, approve or return.
LEMMA DecideKeeps ==
    ASSUME IInv, TypeOK', NEW h \in Handlers, NEW d \in Documents,
           NEW op \in {"start", "approve", "return"}, Decide(h, d, op)
    PROVE  IInv'
<1> USE DEF About, Moving
<1>1. \A k \in Handlers : request'[k] =
          IF k = h
            THEN [op |-> op, doc |-> d]
            ELSE request[k]
  BY Replaced DEF Decide, Answer, IInv
<1>2. \A e \in Documents : check'[e] =
          IF e = d /\ check[e] = "none" THEN "submitted" ELSE check[e]
  BY DEF Decide, EnsureCheck, SetCheck, IInv, TypeOK
<1>3. request[h].op = "none" /\ submission[d] # "none"
  BY DEF Decide, InStage, Idle
<1>4. UNCHANGED <<stage, submission, moved, cut, overruled>>
  BY DEF Decide
<1>5. AbsentInv' /\ ScoresInv'
  BY <1>1, <1>2, <1>3, <1>4
  DEF IInv, AbsentInv, ScoresInv, Idle
<1>6. MovingInv'
  BY <1>1, <1>2, <1>3, <1>4
  DEF IInv, AbsentInv, MovingInv, ScoresInv, Idle
<1>7. ApprovedHasMoved'
  BY <1>1, <1>2, <1>3, <1>4
  DEF IInv, AbsentInv, ApprovedHasMoved, Idle
<1>8. PassedStaysApproved'
  BY <1>1, <1>2, <1>3, <1>4
  DEF IInv, AbsentInv, ScoresInv, MovingInv, PassedStaysApproved,
      Idle, TypeOK
<1>9. SubmissionAgrees'
  BY <1>1, <1>2, <1>3, <1>4
  DEF IInv, AbsentInv, ScoresInv, MovingInv, SubmissionAgrees, Idle
<1> QED
  BY <1>5, <1>6, <1>7, <1>8, <1>9 DEF IInv

\* The checker takes a document.
LEMMA StartReviewKeeps ==
    ASSUME IInv, TypeOK', NEW h \in Handlers, StartReview(h)
    PROVE  IInv'
<1> USE DEF About, Moving
<1>1. request[h].doc \in Documents
  BY RequestFields DEF StartReview, IInv, TypeOK
<1>2. \A k \in Handlers : request'[k] = IF k = h THEN Idle ELSE request[k]
  BY Replaced DEF StartReview, Answer, IInv
<1>3. \A e \in Documents : check'[e] =
          IF e = request[h].doc
            THEN "in_review"
            ELSE check[e]
  BY <1>1 DEF StartReview, SetCheck, IInv, TypeOK
<1>4. UNCHANGED <<stage, submission, moved, cut, overruled>>
  BY DEF StartReview
<1>5. request[h].op = "start" /\ check[request[h].doc] = "submitted"
  BY DEF StartReview
<1>6. AbsentInv' /\ ScoresInv'
  BY <1>1, <1>2, <1>3, <1>4, <1>5
  DEF IInv, AbsentInv, ScoresInv, Idle
<1>7. MovingInv'
  BY <1>1, <1>2, <1>3, <1>4, <1>5
  DEF IInv, AbsentInv, MovingInv, ScoresInv, Idle
<1>8. ApprovedHasMoved'
  BY <1>1, <1>2, <1>3, <1>4, <1>5
  DEF IInv, AbsentInv, ApprovedHasMoved, Idle
<1>9. PassedStaysApproved'
  BY <1>1, <1>2, <1>3, <1>4, <1>5
  DEF IInv, AbsentInv, ScoresInv, MovingInv, PassedStaysApproved,
      Idle, TypeOK
<1>10. SubmissionAgrees'
  BY <1>1, <1>2, <1>3, <1>4, <1>5
  DEF IInv, AbsentInv, ScoresInv, MovingInv, SubmissionAgrees, Idle
<1> QED
  BY <1>6, <1>7, <1>8, <1>9, <1>10 DEF IInv

\* A document is returned.
LEMMA ReturnKeeps ==
    ASSUME IInv, TypeOK', NEW h \in Handlers, Return(h)
    PROVE  IInv'
<1> USE DEF About, Moving
<1>1. request[h].doc \in Documents
  BY RequestFields DEF Return, IInv, TypeOK
<1>2. \A k \in Handlers : request'[k] = IF k = h THEN Idle ELSE request[k]
  BY Replaced DEF Return, Answer, IInv
<1>3. \A e \in Documents : check'[e] =
          IF e = request[h].doc
            THEN "returned"
            ELSE check[e]
  BY <1>1 DEF Return, SetCheck, IInv, TypeOK
<1>4. \A e \in Documents : submission'[e] =
          IF e = request[h].doc
            THEN (IF stage[e] = "NORM_CONTROL"
                    THEN "revision_requested" ELSE "pending")
            ELSE submission[e]
  BY <1>1 DEF Return, SetSubmission, IInv, TypeOK
<1>5. UNCHANGED <<stage, moved, cut, overruled>>
  BY DEF Return
<1>6. request[h].op = "return" /\ check[request[h].doc] = "in_review"
  BY DEF Return
<1>7. AbsentInv' /\ ScoresInv'
  BY <1>1, <1>2, <1>3, <1>4, <1>5, <1>6
  DEF IInv, AbsentInv, ScoresInv, Idle
<1>8. MovingInv'
  BY <1>1, <1>2, <1>3, <1>4, <1>5, <1>6
  DEF IInv, AbsentInv, MovingInv, ScoresInv, Idle
<1>9. ApprovedHasMoved'
  BY <1>1, <1>2, <1>3, <1>4, <1>5, <1>6
  DEF IInv, AbsentInv, ApprovedHasMoved, Idle
<1>10. PassedStaysApproved'
  BY <1>1, <1>2, <1>3, <1>4, <1>5, <1>6
  DEF IInv, AbsentInv, ScoresInv, MovingInv, PassedStaysApproved,
      Idle, TypeOK
<1>11. SubmissionAgrees'
  BY <1>1, <1>2, <1>3, <1>4, <1>5, <1>6
  DEF IInv, AbsentInv, ScoresInv, MovingInv, SubmissionAgrees, Idle
<1> QED
  BY <1>7, <1>8, <1>9, <1>10, <1>11 DEF IInv

\* Scores are written with the whole check.
LEMMA UpdateAntiplagCheckKeeps ==
    ASSUME IInv, TypeOK', NEW h \in Handlers, UpdateAntiplagCheck(h)
    PROVE  IInv'
<1> USE DEF About, Moving
<1>1. request[h].doc \in Documents
  BY RequestFields DEF UpdateAntiplagCheck, IInv, TypeOK
<1>2. \A k \in Handlers : request'[k] = IF k = h THEN Idle ELSE request[k]
  BY Replaced DEF UpdateAntiplagCheck, Answer, IInv
<1>3. \A e \in Documents : check'[e] =
          IF e = request[h].doc
            THEN "in_review"
            ELSE check[e]
  BY <1>1 DEF UpdateAntiplagCheck, SetCheck, IInv, TypeOK
<1>4. UNCHANGED <<stage, submission, moved, cut, overruled>>
  BY DEF UpdateAntiplagCheck
<1>5. request[h].op = "scores"
  BY DEF UpdateAntiplagCheck
<1>6. AbsentInv' /\ ScoresInv'
  BY <1>1, <1>2, <1>3, <1>4, <1>5
  DEF IInv, AbsentInv, ScoresInv, Idle
<1>7. MovingInv'
  BY <1>1, <1>2, <1>3, <1>4, <1>5
  DEF IInv, AbsentInv, MovingInv, ScoresInv, Idle
<1>8. ApprovedHasMoved'
  BY <1>1, <1>2, <1>3, <1>4, <1>5
  DEF IInv, AbsentInv, ApprovedHasMoved, Idle
<1>9. PassedStaysApproved'
  BY <1>1, <1>2, <1>3, <1>4, <1>5
  DEF IInv, AbsentInv, ScoresInv, MovingInv, PassedStaysApproved,
      Idle, TypeOK
<1>10. SubmissionAgrees'
  BY <1>1, <1>2, <1>3, <1>4, <1>5
  DEF IInv, AbsentInv, ScoresInv, MovingInv, SubmissionAgrees, Idle
<1> QED
  BY <1>6, <1>7, <1>8, <1>9, <1>10 DEF IInv

\* A document is approved: nobody else has approved it.
LEMMA ApproveKeeps ==
    ASSUME IInv, TypeOK', NEW h \in Handlers, Approve(h)
    PROVE  IInv'
<1> USE DEF About, Moving
<1>1. request[h].doc \in Documents
  BY RequestFields DEF Approve, IInv, TypeOK
<1>2. \A k \in Handlers : request'[k] =
          IF k = h
            THEN [op |-> "advance", doc |-> request[h].doc]
            ELSE request[k]
  BY Replaced DEF Approve, Answer, IInv
<1>3. \A e \in Documents : check'[e] =
          IF e = request[h].doc
            THEN "approved"
            ELSE check[e]
  BY <1>1 DEF Approve, SetCheck, IInv, TypeOK
<1>4. \A e \in Documents : submission'[e] =
          IF e = request[h].doc
            THEN "approved"
            ELSE submission[e]
  BY <1>1 DEF Approve, SetSubmission, IInv, TypeOK
<1>5. UNCHANGED <<stage, moved, cut, overruled>>
  BY DEF Approve
<1>6. request[h].op = "approve" /\ check[request[h].doc] = "in_review"
  BY DEF Approve
<1>7. AbsentInv' /\ ScoresInv'
  BY <1>1, <1>2, <1>3, <1>4, <1>5, <1>6
  DEF IInv, AbsentInv, ScoresInv, Idle
<1>8. MovingInv'
  BY <1>1, <1>2, <1>3, <1>4, <1>5, <1>6
  DEF IInv, AbsentInv, MovingInv, ScoresInv, Idle, PassedStaysApproved
<1>9. ApprovedHasMoved'
  BY <1>1, <1>2, <1>3, <1>4, <1>5, <1>6
  DEF IInv, AbsentInv, ApprovedHasMoved, Idle
<1>10. PassedStaysApproved'
  BY <1>1, <1>2, <1>3, <1>4, <1>5, <1>6
  DEF IInv, AbsentInv, ScoresInv, MovingInv, PassedStaysApproved,
      Idle, TypeOK
<1>11. SubmissionAgrees'
  BY <1>1, <1>2, <1>3, <1>4, <1>5, <1>6
  DEF IInv, AbsentInv, ScoresInv, MovingInv, SubmissionAgrees, Idle
<1> QED
  BY <1>7, <1>8, <1>9, <1>10, <1>11 DEF IInv

\* The project leaves the stage of the document.
LEMMA AdvanceKeeps ==
    ASSUME IInv, TypeOK', NEW h \in Handlers, Advance(h)
    PROVE  IInv'
<1> USE DEF About, Moving
<1>1. request[h].doc \in Documents
  BY RequestFields DEF Advance, IInv, TypeOK
<1>2. \A k \in Handlers : request'[k] = IF k = h THEN Idle ELSE request[k]
  BY Replaced DEF Advance, Answer, IInv
<1>3. UNCHANGED <<stage, submission, check, cut, overruled>>
  BY DEF Advance
<1>4. moved' = moved \cup {request[h].doc} /\ request[h].op = "advance"
  BY DEF Advance
<1>5. AbsentInv' /\ ScoresInv'
  BY <1>1, <1>2, <1>3, <1>4
  DEF IInv, AbsentInv, ScoresInv, Idle
<1>6. MovingInv'
  BY <1>1, <1>2, <1>3, <1>4
  DEF IInv, AbsentInv, MovingInv, ScoresInv, Idle
<1>7. ApprovedHasMoved'
  BY <1>1, <1>2, <1>3, <1>4
  DEF IInv, AbsentInv, ApprovedHasMoved, Idle
<1>8. PassedStaysApproved'
  BY <1>1, <1>2, <1>3, <1>4
  DEF IInv, AbsentInv, ScoresInv, MovingInv, PassedStaysApproved,
      Idle, TypeOK
<1>9. SubmissionAgrees'
  BY <1>1, <1>2, <1>3, <1>4
  DEF IInv, AbsentInv, ScoresInv, MovingInv, SubmissionAgrees, Idle
<1> QED
  BY <1>5, <1>6, <1>7, <1>8, <1>9 DEF IInv

\* The only request that may takes the approval back.
LEMMA UndoKeeps ==
    ASSUME IInv, TypeOK', NEW h \in Handlers, Undo(h)
    PROVE  IInv'
<1> USE DEF About, Moving
<1>1. request[h].doc \in Documents
  BY RequestFields DEF Undo, IInv, TypeOK
<1>2. \A k \in Handlers : request'[k] = IF k = h THEN Idle ELSE request[k]
  BY Replaced DEF Undo, Answer, IInv
<1>3. \A e \in Documents : check'[e] =
          IF e = request[h].doc
            THEN "in_review"
            ELSE check[e]
  BY <1>1 DEF Undo, SetCheck, IInv, TypeOK
<1>4. \A e \in Documents : submission'[e] =
          IF e = request[h].doc
            THEN "pending"
            ELSE submission[e]
  BY <1>1 DEF Undo, SetSubmission, IInv, TypeOK
<1>5. UNCHANGED <<stage, moved, cut, overruled>>
  BY DEF Undo
<1>6. request[h].op = "undo"
  BY DEF Undo
<1>7. AbsentInv' /\ ScoresInv'
  BY <1>1, <1>2, <1>3, <1>4, <1>5, <1>6
  DEF IInv, AbsentInv, ScoresInv, Idle
<1>8. MovingInv'
  BY <1>1, <1>2, <1>3, <1>4, <1>5, <1>6
  DEF IInv, AbsentInv, MovingInv, ScoresInv, Idle
<1>9. ApprovedHasMoved'
  BY <1>1, <1>2, <1>3, <1>4, <1>5, <1>6
  DEF IInv, AbsentInv, ApprovedHasMoved, Idle
<1>10. PassedStaysApproved'
  BY <1>1, <1>2, <1>3, <1>4, <1>5, <1>6
  DEF IInv, AbsentInv, ScoresInv, MovingInv, PassedStaysApproved,
      Idle, TypeOK
<1>11. SubmissionAgrees'
  BY <1>1, <1>2, <1>3, <1>4, <1>5, <1>6
  DEF IInv, AbsentInv, ScoresInv, MovingInv, SubmissionAgrees, Idle
<1> QED
  BY <1>7, <1>8, <1>9, <1>10, <1>11 DEF IInv

\* A request ends early; an approval cut off is noted.
LEMMA AbandonKeeps ==
    ASSUME IInv, TypeOK', NEW h \in Handlers, Abandon(h)
    PROVE  IInv'
<1> USE DEF About, Moving
<1>1. \A k \in Handlers : request'[k] = IF k = h THEN Idle ELSE request[k]
  BY Replaced DEF Abandon, Answer, IInv
<1>2. UNCHANGED <<stage, submission, check, moved, overruled>>
  BY DEF Abandon
<1>3. cut \subseteq cut'
  BY DEF Abandon
<1>4. \A d \in Documents : Moving(h, d) => d \in cut'
  BY DEF Abandon
<1>5. AbsentInv' /\ ScoresInv'
  BY <1>1, <1>2, <1>3, <1>4
  DEF IInv, AbsentInv, ScoresInv, Idle
<1>6. MovingInv'
  BY <1>1, <1>2, <1>3, <1>4
  DEF IInv, AbsentInv, MovingInv, ScoresInv, Idle
<1>7. ApprovedHasMoved'
  BY <1>1, <1>2, <1>3, <1>4
  DEF IInv, AbsentInv, ApprovedHasMoved, Idle
<1>8. PassedStaysApproved'
  BY <1>1, <1>2, <1>3, <1>4
  DEF IInv, AbsentInv, ScoresInv, MovingInv, PassedStaysApproved,
      Idle, TypeOK
<1>9. SubmissionAgrees'
  BY <1>1, <1>2, <1>3, <1>4
  DEF IInv, AbsentInv, ScoresInv, MovingInv, SubmissionAgrees, Idle
<1> QED
  BY <1>5, <1>6, <1>7, <1>8, <1>9 DEF IInv

\* The general review writes a status of its own.
LEMMA ReviewSubmissionKeeps ==
    ASSUME IInv, TypeOK', NEW d \in Documents, NEW verdict \in Verdicts,
           ReviewSubmission(d, verdict)
    PROVE  IInv'
<1> USE DEF About, Moving
<1>1. UNCHANGED <<request, stage, check, moved, cut>>
  BY DEF ReviewSubmission
<1>2. \A e \in Documents \ {d} : submission'[e] = submission[e]
  BY DEF ReviewSubmission, SetSubmission, IInv, TypeOK
<1>3. submission[d] # "none"
  BY DEF ReviewSubmission
<1>4. overruled' = overruled \cup {d}
  BY DEF ReviewSubmission
<1>5. submission'[d] # "none"
  BY DEF ReviewSubmission, SetSubmission, Verdicts, IInv, TypeOK
<1>6. AbsentInv' /\ ScoresInv'
  BY <1>1, <1>2, <1>3, <1>4, <1>5
  DEF IInv, AbsentInv, ScoresInv, Idle
<1>7. MovingInv'
  BY <1>1, <1>2, <1>3, <1>4, <1>5
  DEF IInv, AbsentInv, MovingInv, ScoresInv, Idle
<1>8. ApprovedHasMoved'
  BY <1>1, <1>2, <1>3, <1>4, <1>5
  DEF IInv, AbsentInv, ApprovedHasMoved, Idle
<1>9. PassedStaysApproved'
  BY <1>1, <1>2, <1>3, <1>4, <1>5
  DEF IInv, AbsentInv, ScoresInv, MovingInv, PassedStaysApproved,
      Idle, TypeOK
<1>10. SubmissionAgrees'
  BY <1>1, <1>2, <1>3, <1>4, <1>5
  DEF IInv, AbsentInv, ScoresInv, MovingInv, SubmissionAgrees, Idle
<1> QED
  BY <1>6, <1>7, <1>8, <1>9, <1>10 DEF IInv

LEMMA StepIInv == IInv /\ [Next]_vars => IInv'
<1> SUFFICES ASSUME IInv, [Next]_vars PROVE IInv'
  OBVIOUS
<1>1. TypeOK'
  BY StepTypes DEF IInv
<1>2. ASSUME NEW h \in Handlers, NEW d \in Documents, Begin(h, d)
      PROVE  IInv'
  BY <1>1, <1>2, DecideKeeps, RequestSteps DEF Begin
<1>3. ASSUME NEW h \in Handlers, Proceed(h) PROVE IInv'
  BY <1>1, <1>3, RequestSteps, CreateSubmissionKeeps, CreateCheckKeeps,
     StartReviewKeeps, ReturnKeeps, UpdateAntiplagCheckKeeps, ApproveKeeps,
     AdvanceKeeps, UndoKeeps, AbandonKeeps DEF Proceed
<1>4. ASSUME NEW h \in Handlers, SubmitDocumentForStep(h) PROVE IInv'
  BY <1>1, <1>4, RequestSteps
<1>5. CASE (\E to \in States : AdminMove(to)) \/ UNCHANGED vars
  <2>1. UNCHANGED <<stage, submission, check, request, moved, cut, overruled>>
    BY <1>5 DEF AdminMove, vars
  <2> QED
    BY <1>1, <2>1, QuietKeeps DEF IInv, AbsentInv, ScoresInv, Moving, About
<1> QED
  BY <1>1, <1>2, <1>3, <1>4, <1>5, GetDocumentKeeps, ReviewSubmissionKeeps
  DEF Next

LEMMA Invariance == Spec => []IInv
BY InitIInv, StepIInv, PTL DEF Spec

(***************************************************************************)
(* No approved document is left behind without the move that its approval  *)
(* stands for, unless the request that approved it was cut off.            *)
(***************************************************************************)
THEOREM ApprovedMove == Spec => []ApprovedHasMoved
<1>1. IInv => ApprovedHasMoved
  BY DEF IInv
<1> QED
  BY <1>1, Invariance, PTL

(***************************************************************************)
(* The document that brought a project through norm control stays          *)
(* approved, however many approvals, returns and compensations overlap.    *)
(***************************************************************************)
THEOREM PassedStay == Spec => []PassedStaysApproved
<1>1. IInv => PassedStaysApproved
  BY DEF IInv
<1> QED
  BY <1>1, Invariance, PTL

(***************************************************************************)
(* Check and submission of a document in norm control never disagree,      *)
(* unless the general review has overruled the check.                      *)
(***************************************************************************)
THEOREM Agreement == Spec => []SubmissionAgrees
<1>1. IInv => SubmissionAgrees
  BY DEF IInv
<1> QED
  BY <1>1, Invariance, PTL
-----------------------------------------------------------------------------
(***************************************************************************)
(* What goes wrong only when requests about one document overlap.          *)
(***************************************************************************)
Apart ==
    \A g, h \in Handlers, d \in Documents : About(g, d) /\ About(h, d) => g = h

\* The requests that write what they saw the check in review for.
Late(r) == r.op \in {"add", "issue", "scores"}

\* Their document is still in review.
InReviewInv ==
    \A h \in Handlers : Late(request[h]) => check[request[h].doc] = "in_review"

ScoresOfReviewed ==
    \A d \in Documents : scores'[d] # scores[d] => check[d] = "in_review"

LEMMA LateStay ==
    ASSUME TypeOK, InReviewInv, NEW h \in Handlers,
           \A k \in Handlers \ {h} : request'[k] = request[k],
           \A k \in Handlers \ {h}, d \in Documents :
             About(k, d) /\ check[d] = "in_review" => check'[d] = "in_review",
           Late(request'[h]) => check'[request'[h].doc] = "in_review"
    PROVE  InReviewInv'
<1>1. ASSUME NEW k \in Handlers \ {h}, Late(request[k])
      PROVE  check'[request[k].doc] = "in_review"
  <2>1. request[k].doc \in Documents /\ About(k, request[k].doc)
    BY <1>1, RequestFields DEF Late, About, TypeOK
  <2> QED
    BY <1>1, <2>1 DEF InReviewInv
<1> QED
  BY <1>1 DEF InReviewInv

LEMMA CleanStay ==
    ASSUME ApprovedIsClean,
           \A d \in Documents : check'[d] = "approved" =>
             \/ Clean(d)'
             \/ /\ check[d] = "approved"
                /\ stage'[d] = stage[d]
                /\ issue'[d] = issue[d]
                /\ scores'[d] = scores[d]
    PROVE  ApprovedIsClean'
BY DEF ApprovedIsClean, Clean

\* A request that was written down, and nothing else.
LEMMA QuietRequest ==
    ASSUME TypeOK, InReviewInv, ApprovedIsClean, NEW h \in Handlers,
           UNCHANGED <<stage, check, issue, scores>>,
           \A k \in Handlers \ {h} : request'[k] = request[k],
           Late(request'[h]) => check[request'[h].doc] = "in_review"
    PROVE  InReviewInv' /\ ApprovedIsClean' /\ ScoresOfReviewed
BY LateStay, CleanStay DEF ScoresOfReviewed

\* The handler h has the document d to itself, and its request is not one
\* that writes late.
LEMMA AloneWithDocument ==
    ASSUME TypeOK, Apart, InReviewInv, NEW h \in Handlers,
           NEW d \in Documents, About(h, d), ~Late(request'[h]),
           \A k \in Handlers \ {h} : request'[k] = request[k],
           \A e \in Documents \ {d} : check'[e] = check[e]
    PROVE  InReviewInv'
BY LateStay DEF Apart

LEMMA ApartStep ==
    ASSUME TypeOK, AbsentInv, Apart, InReviewInv, ApprovedIsClean, [Next]_vars
    PROVE  InReviewInv' /\ ApprovedIsClean' /\ ScoresOfReviewed
<1>1. ASSUME NEW h \in Handlers, SubmitDocumentForStep(h)
      PROVE  InReviewInv' /\ ApprovedIsClean' /\ ScoresOfReviewed
  BY <1>1, QuietRequest DEF SubmitDocumentForStep, Ask, Late, TypeOK
<1>2. ASSUME NEW h \in Handlers, NEW d \in Documents, CreateSubmission(h, d)
      PROVE  InReviewInv' /\ ApprovedIsClean' /\ ScoresOfReviewed
  <2>1. check[d] = "none"
    BY <1>2 DEF CreateSubmission, AbsentInv
  <2>2. InReviewInv'
    BY <1>2, LateStay DEF CreateSubmission, Ask, Late, TypeOK
  <2>3. ApprovedIsClean'
    BY <1>2, <2>1, CleanStay DEF CreateSubmission, TypeOK
  <2> QED
    BY <1>2, <2>2, <2>3 DEF CreateSubmission, ScoresOfReviewed
<1>3. ASSUME NEW d \in Documents, EnsureCheck(d),
             UNCHANGED <<stage, issue, scores>>,
             \/ UNCHANGED request
             \/ \E h \in Handlers : \E r : Ask(h, r) /\ ~Late(r)
      PROVE  InReviewInv' /\ ApprovedIsClean' /\ ScoresOfReviewed
  <2>1. \A e \in Documents : \/ check'[e] = check[e]
                             \/ check[e] = "none" /\ check'[e] = "submitted"
    BY <1>3 DEF EnsureCheck, SetCheck, TypeOK
  <2>2. InReviewInv'
    <3>1. CASE UNCHANGED request
      <4>1. \A k \in Handlers : Late(request[k]) => request[k].doc \in Documents
        BY RequestFields DEF Late, TypeOK
      <4> QED
        BY <2>1, <3>1, <4>1 DEF InReviewInv
    <3>2. CASE \E h \in Handlers : \E r : Ask(h, r) /\ ~Late(r)
      BY <2>1, <3>2, LateStay DEF Ask, TypeOK
    <3> QED
      BY <1>3, <3>1, <3>2
  <2> QED
    BY <1>3, <2>1, <2>2, CleanStay DEF ScoresOfReviewed
<1>4. ASSUME NEW h \in Handlers, CreateCheck(h)
      PROVE  InReviewInv' /\ ApprovedIsClean' /\ ScoresOfReviewed
  <2>1. request[h].doc \in Documents
    BY <1>4, RequestFields DEF CreateCheck, TypeOK
  <2>2. Ask(h, Idle) /\ ~Late(Idle)
    BY <1>4 DEF CreateCheck, Answer, Idle, Late
  <2> QED
    BY <1>3, <1>4, <2>1, <2>2 DEF CreateCheck
<1>5. ASSUME NEW h \in Handlers, NEW d \in Documents,
             NEW op \in {"start", "approve", "return"}, Decide(h, d, op)
      PROVE  InReviewInv' /\ ApprovedIsClean' /\ ScoresOfReviewed
  <2>1. Ask(h, [op |-> op, doc |-> d]) /\ ~Late([op |-> op, doc |-> d])
    BY <1>5 DEF Decide, Late
  <2> QED
    BY <1>3, <1>5, <2>1 DEF Decide
<1>6. ASSUME NEW d \in Documents, GetDocument(d)
      PROVE  InReviewInv' /\ ApprovedIsClean' /\ ScoresOfReviewed
  BY <1>3, <1>6 DEF GetDocument
<1>7. ASSUME NEW h \in Handlers,
             \/ StartReview(h) \/ Return(h) \/ Approve(h) \/ Undo(h)
             \/ UpdateAntiplagCheck(h)
      PROVE  InReviewInv' /\ ApprovedIsClean' /\ ScoresOfReviewed
  <2>0. PICK d : d = request[h].doc
    OBVIOUS
  <2>1. d \in Documents /\ About(h, d)
    BY <1>7, <2>0, RequestFields
    DEF StartReview, Return, Approve, Undo, UpdateAntiplagCheck, About, TypeOK
  <2>2. \E r : Ask(h, r) /\ ~Late(r)
    BY <1>7 DEF StartReview, Return, Approve, Undo, UpdateAntiplagCheck,
                Answer, Idle, Late
  <2>3. /\ \A e \in Documents \ {d} : check'[e] = check[e]
        /\ UNCHANGED <<stage, issue>>
        /\ Approve(h) => Clean(d)
        /\ check'[d] = "approved" => Approve(h)
        /\ \A e \in Documents : scores'[e] # scores[e] =>
             e = d /\ UpdateAntiplagCheck(h)
    BY <1>7, <2>0, <2>1
    DEF StartReview, Return, Approve, Undo, UpdateAntiplagCheck, SetCheck, TypeOK
  <2>4. Approve(h) => UNCHANGED scores
    BY DEF Approve
  <2>5. InReviewInv'
    BY <2>1, <2>2, <2>3, AloneWithDocument DEF Ask, TypeOK
  <2>6. UpdateAntiplagCheck(h) => check[d] = "in_review"
    BY <2>0 DEF UpdateAntiplagCheck, InReviewInv, Late
  <2>7. ApprovedIsClean'
    <3>1. Approve(h) => Clean(d)'
      BY <2>3, <2>4 DEF Clean
    <3> QED
      BY <2>3, <3>1, CleanStay
  <2> QED
    BY <2>3, <2>5, <2>6, <2>7 DEF ScoresOfReviewed
<1>8. ASSUME NEW h \in Handlers, NEW d \in Documents,
             \/ \E value \in {"open", "settled"} : NormAddIssue(h, d, value)
             \/ \E i \in Issues, value \in IssueStates :
                  ChangeIssue(h, d, i, value)
             \/ \E value \in ScoreStates : AntiplagSetScores(h, d, value)
      PROVE  InReviewInv' /\ ApprovedIsClean' /\ ScoresOfReviewed
  <2>1. \E r : Ask(h, r) /\ r.doc = d
    <3>1. ASSUME NEW value, NormAddIssue(h, d, value) PROVE \E r : Ask(h, r) /\ r.doc = d
      BY <3>1 DEF NormAddIssue
    <3>2. ASSUME NEW i, NEW value, ChangeIssue(h, d, i, value)
          PROVE  \E r : Ask(h, r) /\ r.doc = d
      BY <3>2 DEF ChangeIssue
    <3>3. ASSUME NEW value, AntiplagSetScores(h, d, value)
          PROVE  \E r : Ask(h, r) /\ r.doc = d
      BY <3>3 DEF AntiplagSetScores
    <3> QED
      BY <1>8, <3>1, <3>2, <3>3
  <2>2. /\ check[d] = "in_review"
        /\ UNCHANGED <<stage, check, issue, scores>>
    BY <1>8 DEF NormAddIssue, ChangeIssue, AntiplagSetScores
  <2> QED
    BY <2>1, <2>2, QuietRequest DEF Ask, TypeOK
<1>9. ASSUME NEW h \in Handlers,
             (\E i \in Issues : CreateNormIssue(h, i)) \/ WriteIssue(h)
      PROVE  InReviewInv' /\ ApprovedIsClean' /\ ScoresOfReviewed
  <2> DEFINE d == request[h].doc
  <2>1. Ask(h, Idle) /\ ~Late(Idle)
    BY <1>9 DEF CreateNormIssue, WriteIssue, Answer, Idle, Late
  <2>2. /\ check[d] = "in_review"
        /\ UNCHANGED <<stage, check, scores>>
        /\ \A e \in Documents \ {d} : issue'[e] = issue[e]
    BY <1>9 DEF CreateNormIssue, WriteIssue, InReviewInv, Late, TypeOK
  <2>3. InReviewInv'
    BY <2>1, <2>2, LateStay DEF Ask, TypeOK
  <2> QED
    BY <2>2, <2>3, CleanStay DEF ScoresOfReviewed
<1>10. ASSUME NEW h \in Handlers, Advance(h) \/ AdvanceFails(h) \/ Abandon(h)
       PROVE  InReviewInv' /\ ApprovedIsClean' /\ ScoresOfReviewed
  <2>1. \E r : Ask(h, r) /\ ~Late(r)
    <3>1. CASE AdvanceFails(h)
      <4>1. request[h] = [op |-> "advance", doc |-> request[h].doc]
        BY <3>1, RequestFields DEF AdvanceFails, TypeOK
      <4>2. Ask(h, [op |-> "undo", doc |-> request[h].doc])
        BY <3>1, <4>1 DEF AdvanceFails
      <4> QED
        BY <4>2 DEF Late
    <3>2. CASE Advance(h) \/ Abandon(h)
      BY <3>2 DEF Advance, Abandon, Answer, Idle, Late
    <3> QED
      BY <1>10, <3>1, <3>2
  <2>2. UNCHANGED <<stage, check, issue, scores>>
    BY <1>10 DEF Advance, AdvanceFails, Abandon
  <2> QED
    BY <2>1, <2>2, QuietRequest DEF Ask, TypeOK
<1>11. ASSUME UNCHANGED <<stage, check, issue, scores, request>>
       PROVE  InReviewInv' /\ ApprovedIsClean' /\ ScoresOfReviewed
  BY <1>11 DEF InReviewInv, ApprovedIsClean, Clean, ScoresOfReviewed
<1> QED
  BY <1>1, <1>2, <1>4, <1>5, <1>6, <1>7, <1>8, <1>9, <1>10, <1>11
  DEF Next, Begin, Proceed, ReviewSubmission, AdminMove, vars

LEMMA ApartInit == Init => InReviewInv /\ ApprovedIsClean
BY DEF Init, Idle, Late, InReviewInv, ApprovedIsClean

(***************************************************************************)
(* "Cannot approve: unresolved critical issues exist": as long as no two   *)
(* requests about one document overlap, an approved document is clean, and *)
(* stays so.                                                               *)
(***************************************************************************)
THEOREM ApartApprovedIsClean == Spec /\ []Apart => []ApprovedIsClean
<1>1. IInv /\ Apart /\ InReviewInv /\ ApprovedIsClean /\ [Next]_vars =>
        InReviewInv' /\ ApprovedIsClean'
  BY ApartStep DEF IInv
<1> QED
  BY <1>1, ApartInit, Invariance, PTL DEF Spec

(***************************************************************************)
(* Scores change only of a document that is in review, as long as no two   *)
(* requests about one document overlap: the row that AntiplagSetScores     *)
(* writes back whole is then the row as it is.                             *)
(***************************************************************************)
THEOREM ApartScoresKeepDecisions == Spec /\ []Apart => ScoresKeepDecisions
<1>1. IInv /\ Apart /\ InReviewInv /\ ApprovedIsClean /\ [Next]_vars =>
        /\ InReviewInv' /\ ApprovedIsClean'
        /\ [\A d \in Documents :
              scores'[d] # scores[d] => check[d] = "in_review"]_vars
  BY ApartStep DEF IInv, ScoresOfReviewed
<1> QED
  BY <1>1, ApartInit, Invariance, PTL DEF Spec, ScoresKeepDecisions
=============================================================================
