--------------------------- MODULE ProjectRuntime ---------------------------
(***************************************************************************)
(* One project of project_service and everybody who moves it along its     *)
(* workflow:                                                               *)
(*                                                                         *)
(*   - students, through Service.PerformAction and the ExecuteTransition   *)
(*     call of workflow_service (runtimegrpc, engine);                     *)
(*   - administrators, through Advance/Rollback/SetProjectWorkflowState    *)
(*     (service_admin_runtime.go);                                         *)
(*   - admin_service, which moves the row itself after a review            *)
(*     (AdvanceProjectByWorkflowEvent);                                    *)
(*   - ArchiveProject and DeleteProject;                                   *)
(*   - the deadline schedulers of the project_service replicas.            *)
(*                                                                         *)
(* The row lives in project_service; workflow_service decides on a         *)
(* snapshot it fetched over gRPC and sends the decision back as a          *)
(* CommitTransition.  Every caller is therefore a small process: read,     *)
(* decide, commit, with the other processes running in between.            *)
(*                                                                         *)
(* Time is abstract: a deadline is `due' once the clock has passed it.     *)
(* A request may be given up at any step (Abandon): a refused condition, a *)
(* failed PRE action, a closed connection, a killed process.               *)
(***************************************************************************)
EXTENDS Naturals, Sequences, FiniteSets

CONSTANTS
    States,          \* the states of the project's workflow
    InitialState,    \* the state CreateProject picks
    FinalStates,     \* states with is_final
    Transitions,     \* the workflow's transitions: records [from, to]
    DurationStates,  \* states with duration_days > 0
    FixedStates,     \* states with a fixed_deadline
    ExitPost,        \* states with a POST action on ON_EXIT
    EnterPost,       \* states with a POST action on ON_ENTER
    Callers,         \* requests that can be in flight at the same time
    Schedulers,      \* replicas running DeadlineScheduler
    MaxHistory       \* bound on the number of moves of a project

ASSUME WorkflowAssumption ==
    /\ InitialState \in States
    /\ FinalStates \subseteq States
    /\ Transitions \subseteq [from : States, to : States]
    /\ DurationStates \subseteq States
    /\ FixedStates \subseteq States
    /\ ExitPost \subseteq States
    /\ EnterPost \subseteq States
    /\ MaxHistory \in Nat

\* Status words that are not the name of a state.
ASSUME NamesAssumption ==
    {"active", "completed", "archived", "cancelled"} \cap States = {}

VARIABLES
    project,   \* the row of table projects
    deadline,  \* its deadline_at and deadline_processed columns
    history,   \* its rows of table state_histories, oldest first
    outbox,    \* rows of table outbox_events, oldest first
    request,   \* what each caller has read and decided so far
    ticking    \* schedulers that have the project on their list

vars == <<project, deadline, history, outbox, request, ticking>>
-----------------------------------------------------------------------------
\* The statuses nothing should be done to a project in.
Inactive == {"completed", "cancelled", "archived"}

Statuses == States \cup Inactive \cup {"active"}

Vias == {"execute", "advance", "event", "rollback", "set"}

Moves == [from : States, to : States, via : Vias]

(***************************************************************************)
(* `arm' numbers the times a deadline was written (0: deadline_at is       *)
(* NULL) and `owner' is the state it was computed for.  The code keeps     *)
(* neither; they tell deadlines apart in the properties.                   *)
(***************************************************************************)
Deadlines == [arm : Nat, owner : States, due : BOOLEAN, processed : BOOLEAN]

PostRows  == [type : {"post"}, trigger : {"ON_EXIT", "ON_ENTER"},
              state : States, move : Nat]
AlarmRows == [type : {"alarm"}, state : States, arm : Nat]
Rows      == PostRows \cup AlarmRows \cup {[type |-> "created"]}

(***************************************************************************)
(* A CommitTransitionRequest: `posts' are the triggers of its non-empty    *)
(* action groups, in order; `status' is SetStatus with "" already replaced *)
(* by the name of the new state, as CommitTransition does.                 *)
(***************************************************************************)
Commits == [expect : States, to : States, via : Vias, status : Statuses,
            timed : BOOLEAN, posts : Seq({"ON_EXIT", "ON_ENTER"})]

Idle == [step |-> "idle"]

Requests ==
    {Idle}
    \cup [step : {"chosen"}, transition : Transitions]
    \cup [step : {"recall"}, at : States, status : Statuses]
    \cup [step : {"commit"}, body : Commits]

TypeOK ==
    /\ project \in [row : {"none", "present", "deleted"},
                    state : States, status : Statuses]
    /\ deadline \in Deadlines
    /\ history \in Seq(Moves)
    /\ outbox \in Seq(Rows)
    /\ request \in [Callers -> Requests]
    /\ ticking \subseteq Schedulers

Init ==
    /\ project = [row |-> "none", state |-> InitialState,
                  status |-> InitialState]
    /\ deadline = [arm |-> 0, owner |-> InitialState,
                   due |-> FALSE, processed |-> FALSE]
    /\ history = << >>
    /\ outbox = << >>
    /\ request = [c \in Callers |-> Idle]
    /\ ticking = {}
-----------------------------------------------------------------------------
Present == project.row = "present"

Timed(s) == s \in DurationStates \cup FixedStates

(***************************************************************************)
(* The deadline of a state that has just been entered.  A duration counts  *)
(* from now and cannot be over yet; a fixed date may lie in the past.      *)
(* CreateProject and the engine prefer the duration when a state has both, *)
(* computeDeadline of the admin panel the fixed date: so `past' may be     *)
(* TRUE only for a fixed date that is actually used.                       *)
(***************************************************************************)
PastPossible(s, via) ==
    s \in FixedStates /\ (via = "execute" => s \notin DurationStates)

Rearm(s, past) == [arm |-> deadline.arm + 1, owner |-> s,
                   due |-> past, processed |-> FALSE]

\* The project row and its ProjectCreated event, one transaction.
CreateProject ==
    /\ project.row = "none"
    /\ project' = [project EXCEPT !.row = "present"]
    /\ IF Timed(InitialState)
         THEN \E past \in BOOLEAN :
                /\ past => PastPossible(InitialState, "execute")
                /\ deadline' = Rearm(InitialState, past)
         ELSE UNCHANGED deadline
    /\ outbox' = Append(outbox, [type |-> "created"])
    /\ UNCHANGED <<history, request, ticking>>
-----------------------------------------------------------------------------
\* Requests that end in a CommitTransition.

Become(c, r) == request' = [request EXCEPT ![c] = r]

\* PerformAction: the row is read, an inactive project refused, and one of
\* the transitions that leave the state just read is chosen.
PerformAction(c, t) ==
    /\ request[c] = Idle
    /\ Present
    /\ project.status \notin Inactive
    /\ t.from = project.state
    /\ Become(c, [step |-> "chosen", transition |-> t])
    /\ UNCHANGED <<project, deadline, history, outbox, ticking>>

\* ON_EXIT actions taken from the state that is entered.
GroupsOfTarget(from, to) ==
    (IF to \in ExitPost THEN <<"ON_EXIT">> ELSE << >>)
    \o (IF to \in EnterPost THEN <<"ON_ENTER">> ELSE << >>)

Groups(from, to) ==
    (IF from \in ExitPost THEN <<"ON_EXIT">> ELSE << >>)
    \o (IF to \in EnterPost THEN <<"ON_ENTER">> ELSE << >>)

\* A status left empty unless the target is final.
ExecuteBodyUnnamed(t) ==
    [expect |-> project.state, to |-> t.to, via |-> "execute",
     status |-> IF t.to \in FinalStates THEN "completed" ELSE "",
     timed |-> Timed(t.to), posts |-> Groups(t.from, t.to)]

ExecuteBody(t) ==
    [expect |-> project.state, to |-> t.to, via |-> "execute",
     status |-> IF t.to \in FinalStates THEN "completed" ELSE t.to,
     timed |-> Timed(t.to), posts |-> Groups(t.from, t.to)]

\* A transition taken out of whatever state the project is in.
LeavesAny(t) == TRUE

Leaves(t) == t.from = project.state

\* ExecuteTransition, called by PerformAction: a fresh snapshot, whose state
\* the chosen transition must leave.  Its status is not looked at.
ExecuteTransition(c) ==
    /\ request[c].step = "chosen"
    /\ Present
    /\ Leaves(request[c].transition)
    /\ Become(c, [step |-> "commit",
                  body |-> ExecuteBody(request[c].transition)])
    /\ UNCHANGED <<project, deadline, history, outbox, ticking>>

\* adminSetState: any state of the workflow.  A completed project that
\* leaves its final state becomes "active".
SetBody(s) ==
    [expect |-> project.state, to |-> s, via |-> "set",
     status |-> IF s \in FinalStates THEN "completed"
                ELSE IF project.status = "completed" THEN "active" ELSE s,
     timed |-> Timed(s), posts |-> << >>]

AdvanceBody(t) ==
    [expect |-> project.state, to |-> t.to, via |-> "advance",
     status |-> IF t.to \in FinalStates THEN "completed" ELSE t.to,
     timed |-> Timed(t.to), posts |-> << >>]

\* AdvanceProjectWorkflow along a transition that leaves the snapshot's
\* state, whether named, found by its target or simply the first one.
AdminAdvance(c, t) ==
    /\ request[c] = Idle
    /\ Present
    /\ project.status \notin {"archived", "cancelled"}
    /\ t.from = project.state
    /\ Become(c, [step |-> "commit", body |-> AdvanceBody(t)])
    /\ UNCHANGED <<project, deadline, history, outbox, ticking>>

\* AdvanceProjectWorkflow to a state no transition leads to.
AdminForce(c, s) ==
    /\ request[c] = Idle
    /\ Present
    /\ project.status \notin {"archived", "cancelled"}
    /\ [from |-> project.state, to |-> s] \notin Transitions
    /\ Become(c, [step |-> "commit", body |-> SetBody(s)])
    /\ UNCHANGED <<project, deadline, history, outbox, ticking>>

\* SetProjectWorkflowState.
AdminSet(c, s) ==
    /\ request[c] = Idle
    /\ Present
    /\ Become(c, [step |-> "commit", body |-> SetBody(s)])
    /\ UNCHANGED <<project, deadline, history, outbox, ticking>>

\* A rollback that leaves the status as it was.
RollbackBodySameStatus(at, status, s) ==
    [expect |-> at, to |-> s, via |-> "rollback", status |-> status,
     timed |-> FALSE, posts |-> << >>]

\* A rollback never carries a new deadline and never completes a project.
RollbackBody(at, status, s) ==
    [expect |-> at, to |-> s, via |-> "rollback",
     status |-> IF status = "completed" THEN "active" ELSE s,
     timed |-> FALSE, posts |-> << >>]

\* RollbackProjectWorkflow with a transition or a state in the request.
AdminRollbackTo(c, s) ==
    /\ request[c] = Idle
    /\ Present
    /\ Become(c, [step |-> "commit",
                  body |-> RollbackBody(project.state, project.status, s)])
    /\ UNCHANGED <<project, deadline, history, outbox, ticking>>

\* RollbackProjectWorkflow without a target: first the snapshot ...
AdminRollback(c) ==
    /\ request[c] = Idle
    /\ Present
    /\ Become(c, [step |-> "recall", at |-> project.state,
                  status |-> project.status])
    /\ UNCHANGED <<project, deadline, history, outbox, ticking>>

\* the positions of the (at most five) newest moves that ended in s
RecentArrivals(s) ==
    {i \in DOMAIN history : i + 5 > Len(history) /\ history[i].to = s}

\* ... then, in a second call, the history.
AdminRecall(c) ==
    /\ request[c].step = "recall"
    /\ Present
    /\ \E i \in RecentArrivals(request[c].at) :
         /\ \A j \in RecentArrivals(request[c].at) : j <= i
         /\ Become(c, [step |-> "commit",
                       body |-> RollbackBody(request[c].at, request[c].status,
                                             history[i].from)])
    /\ UNCHANGED <<project, deadline, history, outbox, ticking>>

\* The rows of the action groups, written with the state just entered.
PostRow(trigger, s, n) ==
    [type |-> "post", trigger |-> trigger, state |-> s, move |-> n]

\* A move that leaves no row.
RecordNothing(from, to, via) == UNCHANGED history

Record(from, to, via) ==
    history' = Append(history, [from |-> from, to |-> to, via |-> via])

\* A commit that trusts its snapshot.
ExpectAnything(body) == TRUE

AsExpected(body) == project.state = body.expect

\* CommitTransition, one transaction on the locked row.  The status the
\* project has by now is not looked at.
CommitTransition(c) ==
    LET body == request[c].body
        n    == Len(history) + 1
    IN  /\ request[c].step = "commit"
        /\ Present
        /\ AsExpected(body)
        /\ n <= MaxHistory
        /\ project' = [project EXCEPT !.state = body.to,
                                      !.status = body.status]
        /\ IF body.timed
             THEN \E past \in BOOLEAN :
                    /\ past => PastPossible(body.to, body.via)
                    /\ deadline' = Rearm(body.to, past)
             ELSE UNCHANGED deadline
        /\ Record(body.expect, body.to, body.via)
        /\ outbox' = outbox \o [i \in DOMAIN body.posts |->
                                  PostRow(body.posts[i], body.to, n)]
        /\ Become(c, Idle)
        /\ UNCHANGED ticking

\* The request ends without a commit: refused, failed or lost.
Abandon(c) ==
    /\ request[c] # Idle
    /\ Become(c, Idle)
    /\ UNCHANGED <<project, deadline, history, outbox, ticking>>
-----------------------------------------------------------------------------
\* Writers of the row that need no snapshot.

\* admin_service moves the locked row along a transition of its state.
AdvanceProjectByWorkflowEvent(t) ==
    /\ Present
    /\ t.from = project.state
    /\ Len(history) < MaxHistory
    /\ project' = [project EXCEPT !.state = t.to, !.status = t.to]
    /\ Record(t.from, t.to, "event")
    /\ UNCHANGED <<deadline, outbox, request, ticking>>

ArchiveProject ==
    /\ Present
    /\ project.status # "archived"
    /\ project' = [project EXCEPT !.status = "archived"]
    /\ UNCHANGED <<deadline, history, outbox, request, ticking>>

\* The history goes with the row (ON DELETE CASCADE), the outbox does not.
DeleteProject ==
    /\ Present
    /\ project.status = "archived"
    /\ project' = [project EXCEPT !.row = "deleted"]
    /\ history' = << >>
    /\ UNCHANGED <<deadline, outbox, request, ticking>>
-----------------------------------------------------------------------------
\* Deadlines.

DeadlinePasses ==
    /\ Present
    /\ deadline.arm > 0
    /\ ~deadline.due
    /\ deadline' = [deadline EXCEPT !.due = TRUE]
    /\ UNCHANGED <<project, history, outbox, request, ticking>>

Expired ==
    /\ Present
    /\ project.status \notin Inactive
    /\ deadline.arm > 0
    /\ deadline.due
    /\ ~deadline.processed

\* A tick lists the projects with an expired deadline ...
SchedulerLists(d) ==
    /\ d \notin ticking
    /\ Expired
    /\ ticking' = ticking \cup {d}
    /\ UNCHANGED <<project, deadline, history, outbox, request>>

\* A recheck that trusts the list; one that overlooks the projects that
\* have the name of their state as status.
TrustTheList == Present /\ deadline.arm > 0
OnlyActive == Expired /\ project.status = "active"

StillExpired == Expired

MarkProcessed == deadline' = [deadline EXCEPT !.processed = TRUE]

\* ... and then, per project, locks the row, looks again and writes
\* deadline_processed and the event in one transaction.
SchedulerFires(d) ==
    /\ d \in ticking
    /\ StillExpired
    /\ MarkProcessed
    /\ outbox' = Append(outbox, [type |-> "alarm", state |-> project.state,
                                 arm |-> deadline.arm])
    /\ ticking' = ticking \ {d}
    /\ UNCHANGED <<project, history, request>>

\* Nothing to do any more; or the transaction failed, or the replica died.
SchedulerSkips(d) ==
    /\ d \in ticking
    /\ ticking' = ticking \ {d}
    /\ UNCHANGED <<project, deadline, history, outbox, request>>
-----------------------------------------------------------------------------
Student(c) ==
    \/ \E t \in Transitions : PerformAction(c, t)
    \/ ExecuteTransition(c)

Admin(c) ==
    \/ \E t \in Transitions : AdminAdvance(c, t)
    \/ \E s \in States : AdminForce(c, s) \/ AdminSet(c, s)
                           \/ AdminRollbackTo(c, s)
    \/ AdminRollback(c)
    \/ AdminRecall(c)

Direct ==
    \/ CreateProject
    \/ \E t \in Transitions : AdvanceProjectByWorkflowEvent(t)
    \/ ArchiveProject
    \/ DeleteProject

Scheduler(d) == SchedulerLists(d) \/ SchedulerFires(d) \/ SchedulerSkips(d)

Next ==
    \/ \E c \in Callers : \/ Student(c)
                          \/ Admin(c)
                          \/ CommitTransition(c)
                          \/ Abandon(c)
    \/ Direct
    \/ DeadlinePasses
    \/ \E d \in Schedulers : Scheduler(d)

Spec == Init /\ [][Next]_vars

(***************************************************************************)
(* The schedulers tick every minute as long as a replica runs, and a       *)
(* transaction of theirs that is tried again and again succeeds at last.   *)
(***************************************************************************)
FairSpec ==
    /\ Spec
    /\ \A d \in Schedulers : /\ WF_vars(SchedulerLists(d))
                             /\ SF_vars(SchedulerFires(d))
-----------------------------------------------------------------------------
\* Properties.

(***************************************************************************)
(* The rows of state_histories form one unbroken path from the initial to  *)
(* the current state, although every mover decided on a snapshot: the      *)
(* expected state and the row lock of CommitTransition see to it.          *)
(***************************************************************************)
HistoryIsAPath ==
    Present =>
      /\ history = << >> => project.state = InitialState
      /\ history # << >> => /\ history[1].from = InitialState
                            /\ history[Len(history)].to = project.state
      /\ \A i \in 1 .. Len(history) - 1 : history[i].to = history[i + 1].from

(***************************************************************************)
(* Students, reviewers and an ordinary advance of the admin panel move a   *)
(* project along transitions of its workflow only, whatever happened       *)
(* between the choice of the transition and its commit.                    *)
(***************************************************************************)
MovesFollowTheWorkflow ==
    \A i \in DOMAIN history :
      history[i].via \in {"execute", "advance", "event"} =>
        [from |-> history[i].from, to |-> history[i].to] \in Transitions

PostIndices(n, g) ==
    {k \in DOMAIN outbox : /\ outbox[k].type = "post"
                           /\ outbox[k].move = n
                           /\ outbox[k].trigger = g}

(***************************************************************************)
(* The outbox holds exactly the post-commit work of the recorded moves: an *)
(* executed transition has one row for each of its action groups, for the  *)
(* state it led to, and no other move has any.                             *)
(***************************************************************************)
OutboxMatchesHistory ==
    /\ Present =>
         \A n \in DOMAIN history, g \in {"ON_EXIT", "ON_ENTER"} :
           (\E k \in PostIndices(n, g) : outbox[k].state = history[n].to)
             <=> /\ history[n].via = "execute"
                 /\ g = "ON_EXIT"  => history[n].from \in ExitPost
                 /\ g = "ON_ENTER" => history[n].to \in EnterPost
    /\ \A j, k \in DOMAIN outbox :
         /\ outbox[j].type = "post" /\ outbox[k].type = "post"
         /\ outbox[j].move = outbox[k].move
         /\ outbox[j].trigger = outbox[k].trigger
         => j = k

(***************************************************************************)
(* However many schedulers have the project on their list, one deadline    *)
(* raises at most one WorkflowDeadlineReached event.                       *)
(***************************************************************************)
OneAlarmPerDeadline ==
    \A j, k \in DOMAIN outbox :
      /\ outbox[j].type = "alarm" /\ outbox[k].type = "alarm"
      /\ outbox[j].arm = outbox[k].arm
      => j = k

(***************************************************************************)
(* The status column agrees with the state: a state's name is the current  *)
(* state's, and only a project in a final state is completed -- although   *)
(* the status of a move was computed from an older snapshot.               *)
(***************************************************************************)
StatusAgrees ==
    /\ project.status \in States => project.status = project.state
    /\ project.status = "completed" => project.state \in FinalStates

(***************************************************************************)
(* An alarm is raised only for a deadline that is over, and never for a    *)
(* project that was archived or completed, or given a new deadline, after  *)
(* the scheduler had put it on its list.                                   *)
(***************************************************************************)
AlarmsAreDue ==
    [][\A k \in DOMAIN outbox' \ DOMAIN outbox :
         outbox'[k].type = "alarm" =>
           /\ deadline.due /\ outbox'[k].arm = deadline.arm
           /\ project.status \notin Inactive]_vars

(***************************************************************************)
(* A deadline that is over does not stay unprocessed: it is processed,     *)
(* replaced, or its project becomes inactive.                              *)
(***************************************************************************)
ExpiredDeadlineIsHandled == Expired ~> ~Expired

(***************************************************************************)
(* Seen from outside, snapshots and optimistic commits are indivisible     *)
(* moves: the runtime implements the ledger.                               *)
(***************************************************************************)
Ledger == INSTANCE WorkflowLedger
            WITH at <- project.state, trail <- history,
                 erased <- project.row = "deleted"

ImplementsLedger == Ledger!LedgerSpec

(***************************************************************************)
(* PerformAction's own words (service.go:125): "cannot perform action on   *)
(* inactive project".                                                      *)
(***************************************************************************)
InactiveIsNotActedOn ==
    [][\A i \in DOMAIN history' \ DOMAIN history :
         history'[i].via = "execute" => project.status \notin Inactive]_vars

(***************************************************************************)
(* The deadline event names the stage whose deadline it is, as the text of *)
(* its default notification says (worker.go).                              *)
(***************************************************************************)
AlarmNamesItsStage ==
    [][\A k \in DOMAIN outbox' \ DOMAIN outbox :
         outbox'[k].type = "alarm" =>
           outbox'[k].state = deadline.owner]_vars
=============================================================================
