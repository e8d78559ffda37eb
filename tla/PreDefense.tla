----------------------------- MODULE PreDefense -----------------------------
(***************************************************************************)
(* The two pre-defenses of one project in admin_service.  The project      *)
(* comes from an earlier state, goes through PRE_DEFENSE_1,                *)
(* PRE_DEFENSE_1_REVIEW, PRE_DEFENSE_2, PRE_DEFENSE_2_REVIEW and leaves    *)
(* for NORM_CONTROL.  A row of admin_pre_defense_submissions says nothing  *)
(* of the pre-defense it is for, and may be created, graded and completed  *)
(* before the project has reached one: the handlers move whatever          *)
(* pre-defense the project is in, or nothing.  Two ghosts say what the row *)
(* does not: `about' which pre-defense it is for, `early' whether its      *)
(* completion found the project before both.                               *)
(*                                                                         *)
(* A handler reads its row, writes the whole row back later, and makes its *)
(* calls in between, each in a transaction of its own.  ReviewGate models  *)
(* the vote that may also move the project, ProjectRuntime the moves an    *)
(* administrator makes, which are left out here.                           *)
(***************************************************************************)
EXTENDS Integers, Sequences, FiniteSets

CONSTANTS
    Submissions,    \* rows of admin_pre_defense_submissions
    Handlers        \* handlers that can be in flight at the same time

Phases == {1, 2}

Upload(p) == IF p = 1 THEN "PRE_DEFENSE_1" ELSE "PRE_DEFENSE_2"
Review(p) == IF p = 1 THEN "PRE_DEFENSE_1_REVIEW" ELSE "PRE_DEFENSE_2_REVIEW"
After(p)  == IF p = 1 THEN Upload(2) ELSE "NORM_CONTROL"

\* TOPIC_APPROVAL, the state before, stands for all the earlier ones.
Earlier   == "TOPIC_APPROVAL"
States    == {Upload(p) : p \in Phases} \cup {Review(p) : p \in Phases}
             \cup {Earlier, After(2)}

VARIABLES
    at,          \* projects.current_state_name
    status,      \* the status of each row, "none" before it is created
    about,       \* the pre-defense each row is for: the one the project was
                 \* in, or had before it, when the row was created
    early,       \* rows completed while the project was in an earlier state
    queue,       \* phases with a pending row in admin_submissions
    heard,       \* phases that the commission has graded or voted on
    request      \* what each handler has read and has still to do

vars == <<at, status, about, early, queue, heard, request>>
-----------------------------------------------------------------------------
\* An event of the workflow: what happened in which pre-defense.
Events == {"SUBMITTED", "PASSED", "FAILED"} \X Phases

From(ev) == IF ev[1] = "SUBMITTED" THEN Upload(ev[2]) ELSE Review(ev[2])

\* A plausible bug: a failure leads to a state the workflow does not have.
ToRejected(ev) == CASE ev[1] = "SUBMITTED" -> Review(ev[2])
                    [] ev[1] = "PASSED"    -> After(ev[2])
                    [] ev[1] = "FAILED"    -> "REJECTED"

To(ev) == CASE ev[1] = "SUBMITTED" -> Review(ev[2])
            [] ev[1] = "PASSED"    -> After(ev[2])
            [] ev[1] = "FAILED"    -> Upload(ev[2])

\* The project has left pre-defense p and those before it.
Beyond(p, state) ==
    /\ state # Earlier
    /\ \A q \in 1 .. p : state # Upload(q) /\ state # Review(q)

\* The pre-defense the project is in or comes to next; the second one when
\* it has left both.
Phase(state) == IF Beyond(1, state) THEN 2 ELSE 1

Statuses == {"none", "pending", "scheduled", "graded", "completed", "failed"}
Active == {"pending", "scheduled"}
Final == {"completed", "failed"}

Idle == [op |-> "none"]

\* `todo' are the events a handler has still to apply to the project.
Requests ==
    {Idle}
    \cup [op : {"schedule", "reschedule"}, sub : Submissions]
    \cup [op : {"grade"}, sub : Submissions]
    \cup [op : {"plan", "advance", "finish"}, sub : Submissions,
          by : {"grade", "complete", "repeat"}, pass : BOOLEAN,
          todo : Seq(Events)]
    \cup [op : {"ensure", "create", "perform"}, phase : Phases]

TypeOK ==
    /\ at \in States
    /\ status \in [Submissions -> Statuses]
    /\ about \in [Submissions -> Phases]
    /\ early \subseteq Submissions
    /\ queue \subseteq Phases
    /\ heard \subseteq Phases
    /\ request \in [Handlers -> Requests]

Init ==
    /\ at = Earlier
    /\ status = [s \in Submissions |-> "none"]
    /\ about = [s \in Submissions |-> 1]
    /\ early = {}
    /\ queue = {}
    /\ heard = {}
    /\ request = [h \in Handlers |-> Idle]
-----------------------------------------------------------------------------
Ask(h, r) == request' = [request EXCEPT ![h] = r]

Answer(h) == Ask(h, Idle)

Save(s, value) == status' = [status EXCEPT ![s] = value]

Insert(s, value, phase) ==
    /\ status[s] = "none"
    /\ Save(s, value)
    /\ about' = [about EXCEPT ![s] = phase]

\* SubmitPreDefense asks for nothing but the project's team.
SubmitPreDefense(h, s) ==
    /\ request[h] = Idle
    /\ Insert(s, "pending", Phase(at))
    /\ UNCHANGED <<at, early, queue, heard, request>>

\* The reads of SchedulePreDefense, ReschedulePreDefense, GradePreDefense.
\* No code writes the status "rescheduled" that the first also allows.
ReadRow(h, s) ==
    /\ request[h] = Idle
    /\ \/ status[s] = "pending" /\ Ask(h, [op |-> "schedule", sub |-> s])
       \/ status[s] = "scheduled" /\ Ask(h, [op |-> "reschedule", sub |-> s])
       \/ status[s] = "scheduled" /\ Ask(h, [op |-> "grade", sub |-> s])
    /\ UNCHANGED <<at, status, about, early, queue, heard>>

\* Schedule and reschedule: the row is written whole.
SaveSchedule(h) ==
    /\ request[h].op \in {"schedule", "reschedule"}
    /\ Save(request[h].sub, "scheduled")
    /\ Answer(h)
    /\ UNCHANGED <<at, about, early, queue, heard>>

\* What a handler that is about to move the project has to do.
Planned(s, by, pass) ==
    [op |-> "plan", sub |-> s, by |-> by, pass |-> pass, todo |-> <<>>]

(***************************************************************************)
(* MarkPreDefenseWorkflowSubmissionReviewed selects by step_id and sets    *)
(* reviewed_by, which admin_submissions does not have (its columns are     *)
(* state_id and reviewer_id).  The statement fails, the caller logs it.    *)
(***************************************************************************)
MarkPreDefenseWorkflowSubmissionReviewed == UNCHANGED queue

\* GradePreDefense writes the grade.
SaveGrade(h) ==
    /\ request[h].op = "grade"
    /\ LET s == request[h].sub
       IN  /\ Save(s, "graded")
           /\ heard' = heard \cup {about[s]}
           /\ Ask(h, Planned(s, "grade", TRUE))
    /\ MarkPreDefenseWorkflowSubmissionReviewed
    /\ UNCHANGED <<at, about, early>>

\* A plausible bug: a pre-defense is completed before it is graded.
CompleteUngraded(h, s, pass) ==
    /\ request[h] = Idle
    /\ \/ /\ status[s] \in {"scheduled", "graded"}
          /\ Ask(h, Planned(s, "complete", pass))
       \/ /\ status[s] = (IF pass THEN "completed" ELSE "failed")
          /\ Ask(h, Planned(s, "repeat", pass))
    /\ UNCHANGED <<at, status, about, early, queue, heard>>

(***************************************************************************)
(* CompletePreDefense reads the row: a graded one is completed; one that   *)
(* is final may be completed again with the same result.  "conditional"    *)
(* is a "completed" of another name.                                       *)
(***************************************************************************)
CompletePreDefense(h, s, pass) ==
    /\ request[h] = Idle
    /\ \/ /\ status[s] = "graded"
          /\ Ask(h, Planned(s, "complete", pass))
       \/ /\ status[s] = (IF pass THEN "completed" ELSE "failed")
          /\ Ask(h, Planned(s, "repeat", pass))
    /\ UNCHANGED <<at, status, about, early, queue, heard>>
-----------------------------------------------------------------------------
(***************************************************************************)
(* advancePreDefenseCurrentPhase: the events are chosen by the state the   *)
(* project is in, from its upload state only if the caller allows it.      *)
(***************************************************************************)
Gate(p, pass) == <<IF pass THEN "PASSED" ELSE "FAILED", p>>

Plan(state, pass, fromUpload) ==
    IF \E p \in Phases : state = Review(p)
    THEN <<Gate(Phase(state), pass)>>
    ELSE IF fromUpload /\ \E p \in Phases : state = Upload(p)
    THEN <<<<"SUBMITTED", Phase(state)>>, Gate(Phase(state), pass)>>
    ELSE <<>>

\* The request r, a step further.
Moving(op, r, todo) ==
    [op |-> op, sub |-> r.sub, by |-> r.by, pass |-> r.pass, todo |-> todo]

\* The handler reads the project's state.  With nothing to do, before the
\* pre-defenses as after them, a completion goes on to its last write, for
\* it does not look at what it was told; the others have ended.
PlanAdvance(h) ==
    /\ request[h].op = "plan"
    /\ LET r == request[h]
           todo == Plan(at, r.pass, r.by # "repeat")
       IN  IF todo # <<>>
           THEN Ask(h, Moving("advance", r, todo))
           ELSE IF r.by = "complete"
           THEN Ask(h, Moving("finish", r, <<>>))
           ELSE Answer(h)
    /\ early' = early \cup {s \in {request[h].sub} :
                             request[h].by = "complete" /\ at = Earlier}
    /\ UNCHANGED <<at, status, about, queue, heard>>

\* A plausible bug: the last write does not wait for the project to move.
FinishAnyway(h) ==
    /\ request[h].op = "advance"
    /\ at' = at
    /\ Ask(h, Moving("finish", request[h], <<>>))
    /\ UNCHANGED <<status, about, early, queue, heard>>

\* One AdvanceProjectByWorkflowEvent: it locks the project and looks for a
\* transition from where the project now is.
Advance(h) ==
    /\ request[h].op = "advance"
    /\ LET r == request[h]
       IN  /\ at = From(Head(r.todo))
           /\ at' = To(Head(r.todo))
           /\ IF Tail(r.todo) # <<>>
              THEN Ask(h, Moving("advance", r, Tail(r.todo)))
              ELSE IF r.by = "repeat"
              THEN Answer(h)
              ELSE Ask(h, Moving("finish", r, <<>>))
    /\ UNCHANGED <<status, about, early, queue, heard>>

\* The last write of GradePreDefense and CompletePreDefense.
Finish(h) ==
    /\ request[h].op = "finish"
    /\ Save(request[h].sub, IF request[h].pass THEN "completed" ELSE "failed")
    /\ Answer(h)
    /\ MarkPreDefenseWorkflowSubmissionReviewed
    /\ UNCHANGED <<at, about, early, heard>>

\* A transition that is not found, a statement that fails or the end of the
\* process: what was written stays.
Abandon(h) ==
    /\ request[h] # Idle
    /\ Answer(h)
    /\ UNCHANGED <<at, status, about, early, queue, heard>>
-----------------------------------------------------------------------------
\* SubmitDocumentForStep: a row for the general queue, and in an upload
\* state the pre-defense it asks for.
SubmitDocumentForStep(h, p) ==
    /\ request[h] = Idle
    /\ queue' = queue \cup {p}
    /\ \/ at = Upload(p) /\ Ask(h, [op |-> "ensure", phase |-> p])
       \/ at = Review(p) /\ UNCHANGED request
    /\ UNCHANGED <<at, status, about, early, heard>>

\* EnsurePreDefenseSubmissionForSubmission looks for an active row ...
LookForActive(h) ==
    /\ request[h].op = "ensure"
    /\ Ask(h, [request[h] EXCEPT !.op =
                 IF \E s \in Submissions : status[s] \in Active
                 THEN "perform" ELSE "create"])
    /\ UNCHANGED <<at, status, about, early, queue, heard>>

\* ... and creates a scheduled one if there is none.
CreateScheduled(h, s) ==
    /\ request[h].op = "create"
    /\ Insert(s, "scheduled", request[h].phase)
    /\ Ask(h, [request[h] EXCEPT !.op = "perform"])
    /\ UNCHANGED <<at, early, queue, heard>>

\* tryPerformIfAvailable; a failure is logged (Abandon).
Perform(h) ==
    /\ request[h].op = "perform"
    /\ at = Upload(request[h].phase)
    /\ at' = Review(request[h].phase)
    /\ Answer(h)
    /\ UNCHANGED <<status, about, early, queue, heard>>

\* ReviewSubmission takes a row out of the general queue.
ReviewSubmission(p) ==
    /\ p \in queue
    /\ queue' = queue \ {p}
    /\ UNCHANGED <<at, status, about, early, heard, request>>

\* The project reaches its first pre-defense: TOPIC_APPROVED, which a review
\* of the topic or an execution (ProjectRuntime) applies.
ReachPreDefense ==
    /\ at = Earlier
    /\ at' = Upload(1)
    /\ UNCHANGED <<status, about, early, queue, heard, request>>

\* The vote of the commission: the module ReviewGate.
FinalizeReview(p, pass) ==
    /\ at = Review(p)
    /\ at' = To(Gate(p, pass))
    /\ heard' = heard \cup {p}
    /\ UNCHANGED <<status, about, early, queue, request>>
-----------------------------------------------------------------------------
HandlerStep(h) ==
    \/ \E s \in Submissions :
           \/ SubmitPreDefense(h, s)
           \/ ReadRow(h, s)
           \/ \E pass \in BOOLEAN : CompletePreDefense(h, s, pass)
           \/ CreateScheduled(h, s)
    \/ \E p \in Phases : SubmitDocumentForStep(h, p)
    \/ SaveSchedule(h)
    \/ SaveGrade(h)
    \/ PlanAdvance(h)
    \/ Advance(h)
    \/ Finish(h)
    \/ LookForActive(h)
    \/ Perform(h)
    \/ Abandon(h)

Next ==
    \/ \E h \in Handlers : HandlerStep(h)
    \/ ReachPreDefense
    \/ \E p \in Phases : ReviewSubmission(p)
    \/ \E p \in Phases, pass \in BOOLEAN : FinalizeReview(p, pass)

Spec == Init /\ [][Next]_vars
-----------------------------------------------------------------------------
(***************************************************************************)
(* No project leaves the first pre-defense without a grade or a vote of    *)
(* the commission about it, whatever handlers overlap, fail or repeat.     *)
(***************************************************************************)
FirstPhaseIsHeard == Beyond(1, at) => 1 \in heard

(***************************************************************************)
(* "The workflow is moved before the final update ... if it did not move,  *)
(* the pre-defense will NOT become completed" (CompletePreDefense): when a *)
(* row says completed, the project has left the pre-defense the row is     *)
(* about.  It need not have: a row that is completed before the project    *)
(* has come to a pre-defense moves nothing.                                *)
(***************************************************************************)
CompletedMeansMoved ==
    \A s \in Submissions :
        status[s] = "completed" => Beyond(about[s], at)

(***************************************************************************)
(* That is the only way: a completion that found the project in one of the *)
(* pre-defenses, or after both, says completed only of a project that has  *)
(* left the pre-defense of its row, whatever else overlaps, fails in       *)
(* between or is repeated.                                                 *)
(***************************************************************************)
CompletedInTimeMeansMoved ==
    \A s \in Submissions \ early :
        status[s] = "completed" => Beyond(about[s], at)

(***************************************************************************)
(* "The second pre-defense cannot be skipped by accident"                  *)
(* (advancePreDefenseCurrentPhase).  It is: by two grades at once, by a    *)
(* completion that follows an interrupted grade, by a second row.          *)
(***************************************************************************)
SecondPhaseIsHeard == Beyond(2, at) => 2 \in heard

(***************************************************************************)
(* A repeated completion is idempotent: it moves the project only out of   *)
(* the pre-defense its row is about.  Once the second materials are in it  *)
(* passes the second pre-defense instead.                                  *)
(***************************************************************************)
RepeatStaysInPhase ==
    [][\A h \in Handlers :
          Advance(h) /\ request[h].by = "repeat"
              => Phase(at) = about[request[h].sub]]_vars

(***************************************************************************)
(* A graded pre-defense does not stay in the general queue: when every row *)
(* is final and nothing is in flight, nothing is pending there.            *)
(***************************************************************************)
QueueIsCleared ==
    (\A h \in Handlers : request[h] = Idle) /\ at = After(2)
        /\ (\A s \in Submissions : status[s] \in Final)
    => queue = {}

(***************************************************************************)
(* Only a scheduled pre-defense is rescheduled: a row that is final stays  *)
(* final.  A reschedule that read it before the grade writes it back.      *)
(***************************************************************************)
FinalStaysFinal ==
    [][\A s \in Submissions : status[s] \in Final => status'[s] \in Final]_vars
=============================================================================
