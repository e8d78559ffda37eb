--------------------------- MODULE OutboxDelivery ---------------------------
(***************************************************************************)
(* How workflow_service carries out the events of the workflow-actions     *)
(* topic: every instance runs a Poller (outboxpoller/poller.go) that       *)
(* claims rows of outbox_events and hands them, one after the other, to    *)
(* the Worker (postcommit/worker.go), which starts a row of                *)
(* workflow_action_runs for each action before it executes the action.     *)
(*                                                                         *)
(* A claim is a lease of ten minutes, counted for the whole batch from the *)
(* moment it was claimed: `late' says that it is over.  setStatus and      *)
(* markProcessed name a row by its id only, whoever holds it by then.      *)
(*                                                                         *)
(* The database is PostgreSQL, and a statement that fails aborts its       *)
(* transaction.  tryStartOrResumeRun inserts the run first and, when the   *)
(* key exists, reads it in the same transaction; that read is refused, so  *)
(* an existing run of any status ends in an error and the code after it,   *)
(* which would resume or skip the run, is never reached.                   *)
(***************************************************************************)
EXTENDS Naturals, FiniteSets

CONSTANTS
    Events,     \* ids of the outbox rows, ordered like the ids
    Pollers,    \* instances of workflow_service
    Keys,       \* actions to execute, by what identifies their execution
    Keyed,      \* those with a dedup key: all but the default notification
    ActionsOf,  \* the enabled actions of each event
    Broken,     \* events that always fail: bad payload, project deleted
    BatchSize,  \* rows per claim
    MaxFaults   \* bound on the events that meet a failure

ASSUME OutboxAssumption ==
    /\ Events \subseteq Nat
    /\ Keyed \subseteq Keys
    /\ ActionsOf \in [Events -> SUBSET Keys]
    /\ Broken \subseteq Events
    /\ BatchSize \in Nat \ {0}
    /\ MaxFaults \in Nat

VARIABLES
    row,      \* table outbox_events: the status of each row and its lease
    run,      \* table workflow_action_runs: the status under each key
    poller,   \* what each poller holds and where it is
    done,     \* how often an action was executed: 0, 1, or 2 for more
    faulted   \* events that met a failure (each one does so once at most)

vars == <<row, run, poller, done, faulted>>
-----------------------------------------------------------------------------
RowStatuses == {"absent", "pending", "processing", "processed"}
RunStatuses == {"none", "running", "succeeded", "failed"}

(***************************************************************************)
(* `batch' holds the rows claimed and not yet finished, the first of them  *)
(* in hand; `left' the actions of that row still to do; `doing' the action *)
(* being executed, if any.                                                 *)
(***************************************************************************)
PollerStates == [step : {"idle", "claim", "begin", "act"},
                 batch : SUBSET Events, left : SUBSET Keys,
                 doing : {{}} \cup {{k} : k \in Keys}]

Resting == [step |-> "idle", batch |-> {}, left |-> {}, doing |-> {}]

TypeOK ==
    /\ row \in [Events -> [status : RowStatuses, late : BOOLEAN]]
    /\ run \in [Keyed -> RunStatuses]
    /\ poller \in [Pollers -> PollerStates]
    /\ done \in [Keys -> 0 .. 2]
    /\ faulted \subseteq Events

Init ==
    /\ row = [e \in Events |-> [status |-> "absent", late |-> FALSE]]
    /\ run = [k \in Keyed |-> "none"]
    /\ poller = [p \in Pollers |-> Resting]
    /\ done = [k \in Keys |-> 0]
    /\ faulted = {}
-----------------------------------------------------------------------------
\* The row in hand: rows are handled in the order of their ids.
InHand(p, e) ==
    /\ e \in poller[p].batch
    /\ \A other \in poller[p].batch : e <= other

Held(e) == \E p \in Pollers : e \in poller[p].batch

Faulty(e) ==
    /\ e \notin faulted
    /\ Cardinality(faulted) < MaxFaults
    /\ faulted' = faulted \cup {e}

SetStatus(e, status) == row' = [row EXCEPT ![e].status = status]

\* The row in hand is finished with, whatever came of it.
NextRow(p, e) ==
    poller' = [poller EXCEPT ![p] =
                 [step  |-> IF poller[p].batch = {e} THEN "idle" ELSE "begin",
                  batch |-> poller[p].batch \ {e},
                  left  |-> {}, doing |-> {}]]

\* project_service commits an event.
Publish(e) ==
    /\ row[e].status = "absent"
    /\ SetStatus(e, "pending")
    /\ UNCHANGED <<run, poller, done, faulted>>
-----------------------------------------------------------------------------
\* The poller.

\* A requeue that never gives a row back.
RequeueNothing == UNCHANGED row

\* Rows whose lease is over become pending again, whoever claimed them.
RequeueStuck ==
    row' = [e \in Events |->
              IF row[e].status = "processing" /\ row[e].late
                THEN [status |-> "pending", late |-> FALSE]
                ELSE row[e]]

Tick(p) ==
    /\ poller[p].step = "idle"
    /\ RequeueStuck
    /\ poller' = [poller EXCEPT ![p].step = "claim"]
    /\ UNCHANGED <<run, done, faulted>>

Pending == {e \in Events : row[e].status = "pending"}

\* The BatchSize pending rows with the smallest ids, or all of them.
IsBatch(batch) ==
    /\ batch \subseteq Pending
    /\ Cardinality(batch) <= BatchSize
    /\ \A e \in Pending \ batch :
         /\ Cardinality(batch) = BatchSize
         /\ \A b \in batch : b < e

\* A claim that only reads the rows.
ReadOnly(batch) == UNCHANGED row

MarkClaimed(batch) ==
    row' = [e \in Events |->
              IF e \in batch THEN [status |-> "processing", late |-> FALSE]
                             ELSE row[e]]

\* fetchAndClaimBatch, one transaction; rows another claim has locked are
\* no longer pending when this one commits.
FetchAndClaimBatch(p) ==
    /\ poller[p].step = "claim"
    /\ \E batch \in SUBSET Events :
         /\ IsBatch(batch)
         /\ MarkClaimed(batch)
         /\ poller' = [poller EXCEPT ![p] =
                         [Resting EXCEPT
                            !.step  = IF batch = {} THEN "idle" ELSE "begin",
                            !.batch = batch]]
    /\ UNCHANGED <<run, done, faulted>>

\* Worker.Handle: the payload, the actions and the project are read.
Handle(p, e) ==
    /\ poller[p].step = "begin"
    /\ InHand(p, e)
    /\ e \notin Broken
    /\ poller' = [poller EXCEPT ![p].step = "act", ![p].left = ActionsOf[e]]
    /\ UNCHANGED <<row, run, done, faulted>>

\* The row goes back to pending when Handle returns an error, unless that
\* update fails as well.
GiveBack(p, e) ==
    /\ SetStatus(e, "pending") \/ UNCHANGED row
    /\ NextRow(p, e)

HandleBroken(p, e) ==
    /\ poller[p].step = "begin"
    /\ InHand(p, e)
    /\ e \in Broken
    /\ GiveBack(p, e)
    /\ UNCHANGED <<run, done, faulted>>

\* One of the reads fails this time.
HandleFails(p, e) ==
    /\ poller[p].step = "begin"
    /\ InHand(p, e)
    /\ e \notin Broken
    /\ Faulty(e)
    /\ GiveBack(p, e)
    /\ UNCHANGED <<run, done>>
-----------------------------------------------------------------------------
\* The worker.

Acting(p, e) ==
    /\ poller[p].step = "act"
    /\ poller[p].doing = {}
    /\ InHand(p, e)

\* A failed run that may be started again without looking at its attempts.
NotSucceeded(k) == run[k] # "succeeded"

NotStarted(k) == run[k] = "none"

\* tryStartOrResumeRun inserts the run ...
StartRun(p, k) ==
    /\ \E e \in Events : Acting(p, e)
    /\ k \in poller[p].left \cap Keyed
    /\ NotStarted(k)
    /\ run' = [run EXCEPT ![k] = "running"]
    /\ poller' = [poller EXCEPT ![p].doing = {k}]
    /\ UNCHANGED <<row, done, faulted>>

\* ... or finds one, whatever its status, and fails.
StartRefused(p, e) ==
    /\ Acting(p, e)
    /\ \E k \in poller[p].left \cap Keyed : ~NotStarted(k)
    /\ GiveBack(p, e)
    /\ UNCHANGED <<run, done, faulted>>

\* The default deadline notification is executed without a run.
StartUnkeyed(p, k) ==
    /\ \E e \in Events : Acting(p, e)
    /\ k \in poller[p].left \ Keyed
    /\ poller' = [poller EXCEPT ![p].doing = {k}]
    /\ UNCHANGED <<row, run, done, faulted>>

\* markSucceeded and markFailed; their own errors are ignored, and without
\* a run they change nothing.
Mark(k, status) ==
    \/ UNCHANGED run
    \/ k \in Keyed /\ run' = [run EXCEPT ![k] = status]

CountExecution(k) ==
    done' = [done EXCEPT ![k] = IF @ < 2 THEN @ + 1 ELSE @]

\* executeOne: success, or a failure that is not to be retried.
Execute(p, k) ==
    /\ poller[p].doing = {k}
    /\ CountExecution(k)
    /\ Mark(k, "succeeded") \/ Mark(k, "failed")
    /\ poller' = [poller EXCEPT ![p].doing = {}, ![p].left = @ \ {k}]
    /\ UNCHANGED <<row, faulted>>

\* A retryable failure that lets the event pass.
PassOver(p, e, k) ==
    /\ poller' = [poller EXCEPT ![p].doing = {}, ![p].left = @ \ {k}]
    /\ UNCHANGED row

StopEvent(p, e, k) == GiveBack(p, e)

\* executeOne: a retryable failure, or (nothing executed) no such plugin.
ExecuteFails(p, e, k) ==
    /\ poller[p].doing = {k}
    /\ InHand(p, e)
    /\ Faulty(e)
    /\ CountExecution(k) \/ UNCHANGED done
    /\ Mark(k, "failed")
    /\ StopEvent(p, e, k)

\* A configuration without a status, used as it is.
NoStatus == ""

\* processed_status, with the default that New fills in.
ProcessedStatus == "processed"

\* markProcessed, which may fail.
Finish(p, e) ==
    /\ Acting(p, e)
    /\ poller[p].left = {}
    /\ \/ SetStatus(e, ProcessedStatus) /\ UNCHANGED faulted
       \/ Faulty(e) /\ UNCHANGED row
    /\ NextRow(p, e)
    /\ UNCHANGED <<run, done>>
-----------------------------------------------------------------------------
\* Failures of instances.

\* The instance dies; its claims wait for their leases to end.
Crash(p, e) ==
    /\ InHand(p, e)
    /\ Faulty(e)
    /\ poller' = [poller EXCEPT ![p] = Resting]
    /\ UNCHANGED <<row, run, done>>

\* The lease of a row nobody holds any more ends ...
LeaseEnds(e) ==
    /\ row[e].status = "processing"
    /\ ~row[e].late
    /\ ~Held(e)
    /\ row' = [row EXCEPT ![e].late = TRUE]
    /\ UNCHANGED <<run, poller, done, faulted>>

\* ... or of a row whose holder is slow.
LeaseRunsOut(e) ==
    /\ row[e].status = "processing"
    /\ ~row[e].late
    /\ Held(e)
    /\ Faulty(e)
    /\ row' = [row EXCEPT ![e].late = TRUE]
    /\ UNCHANGED <<run, poller, done>>
-----------------------------------------------------------------------------
Work(p) ==
    \/ Tick(p)
    \/ FetchAndClaimBatch(p)
    \/ \E e \in Events : \/ Handle(p, e) \/ HandleBroken(p, e)
                         \/ StartRefused(p, e) \/ Finish(p, e)
    \/ \E k \in Keys : StartRun(p, k) \/ StartUnkeyed(p, k) \/ Execute(p, k)

Fail(p) ==
    \E e \in Events : \/ HandleFails(p, e)
                      \/ \E k \in Keys : ExecuteFails(p, e, k)
                      \/ Crash(p, e)

Next ==
    \/ \E e \in Events : Publish(e) \/ LeaseEnds(e) \/ LeaseRunsOut(e)
    \/ \E p \in Pollers : Work(p) \/ Fail(p)

Spec == Init /\ [][Next]_vars

(***************************************************************************)
(* Start ticks as long as the instance lives, a call returns at last, and  *)
(* time passes.  Nothing is assumed of failures.                           *)
(***************************************************************************)
FairSpec ==
    /\ Spec
    /\ \A p \in Pollers : WF_vars(Work(p))
    /\ \A e \in Events : WF_vars(LeaseEnds(e))
-----------------------------------------------------------------------------
\* Properties.

(***************************************************************************)
(* An action with a dedup key is executed at most once, although leases    *)
(* run out, instances die after the execution, and one event may be in the *)
(* hands of two instances.                                                 *)
(***************************************************************************)
RunsAtMostOnce == \A k \in Keyed : done[k] <= 1

(***************************************************************************)
(* An event is processed only when each of its actions has been executed,  *)
(* by whichever instance.                                                  *)
(***************************************************************************)
ProcessedMeansExecuted ==
    \A e \in Events :
      row[e].status = "processed" => \A k \in ActionsOf[e] : done[k] >= 1

(***************************************************************************)
(* Two instances hold the same row only after its lease ran out under the  *)
(* first of them.                                                          *)
(***************************************************************************)
ClaimsAreExclusive ==
    \A p, q \in Pollers :
      p # q => poller[p].batch \cap poller[q].batch \subseteq faulted

(***************************************************************************)
(* As long as fewer rows than a batch fail for good, every other event is  *)
(* taken up: it ends processed, or one of its actions has a run.           *)
(***************************************************************************)
EventsAreTakenUp ==
    \A e \in Events \ Broken :
      row[e].status = "pending" ~>
        \/ row[e].status = "processed"
        \/ \E k \in ActionsOf[e] \cap Keyed : run[k] # "none"

(***************************************************************************)
(* fetchAndClaimBatch's comment (poller.go:176): "This prevents duplicates *)
(* across multiple workflow_service instances."                            *)
(***************************************************************************)
NoDuplicates ==
    \A p, q \in Pollers : p # q => poller[p].batch \cap poller[q].batch = {}

(***************************************************************************)
(* tryStartOrResumeRun's comment on a failed run (worker.go): "allow retry *)
(* if attempts < maxRetries"; no run has more than one attempt here.       *)
(***************************************************************************)
FailedRunsAreRetried ==
    \A e \in Events : \A k \in ActionsOf[e] \cap Keyed :
      (row[e].status = "pending" /\ run[k] = "failed") ~> run[k] # "failed"
=============================================================================
