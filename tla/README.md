# DiplomaFlow in TLA+

DiplomaFlow runs the diploma projects of a university: students form teams,
choose a topic and a supervisor, and carry their project through a workflow of
states (pre-defenses, norm control, antiplagiat, defense) under deadlines and
reviews. It is a set of Go services that call each other over gRPC and keep
their state in one PostgreSQL database. This directory holds TLA+ models of its
core, the TLC runs that check them and theorems that TLAPS proves.

Source paths below are relative to the repository. `PROJECT.json` maps every
definition to the lines it stands for.

## Contents

1. [The system](#the-system)
2. [The modules](#the-modules)
3. [What is checked](#what-is-checked)
4. [Bounds and fairness](#bounds-and-fairness)
5. [What is proved](#what-is-proved)
6. [What the models found](#what-the-models-found)
7. [What is not modelled](#what-is-not-modelled)
8. [Plan](#plan)
9. [Running it](#running-it)

## The system

| component | state it keeps | operations | meets |
|---|---|---|---|
| project_service (`internal/project`) | `projects`, `state_histories`, `outbox_events` | create, PerformAction, CommitTransition, archive, delete, deadline scheduler | workflow_service, by gRPC in both directions |
| workflow_service, engine (`internal/workflow/engine`, `runtimegrpc`) | none: it decides on a snapshot of the project | ExecuteTransition: conditions, PRE actions, the commit | project_service, plugins |
| workflow_service, admin panel (`service_admin_runtime.go`) | none | advance, force, set, roll back a project | project_service |
| workflow_service, reviews (`service_review.go`, `repo_review.go`, `plugins/builtin/review_gate.go`) | `project_state_reviews` | vote, count, gate | engine |
| workflow_service, outbox (`outboxpoller`, `postcommit`) | `outbox_events` (claims), `workflow_action_runs` | poll, claim, run POST actions, retry | plugins, notification_service |
| workflow_service, definitions (`service.go`, `department_config*`) | workflows, states, transitions, actions | create, change, activate, validate | everybody, as constants |
| team_service (`internal/team`) | `teams`, `team_members`, `team_invites` | create, invite, answer, join, leave, remove, transfer, lock, delete | engine's LOCK_TEAM plugin |
| admin_service, pre-defense (`internal/admin/service_pre_defense*.go`) | `admin_pre_defense_submissions`, `admin_submissions` | submit, schedule, grade, complete, reschedule | project rows, directly |
| admin_service, documents (`service_norm_control.go`, `service_antiplagiat.go`) | `norm_control_checks`, `norm_control_issues`, antiplagiat checks | start, add issues or scores, approve, return | project rows, workflow_service |
| admin_service, supervision (`service.go`) | supervisor requests, assignments, topic registrations, grades | request, respond, assign, review a topic | project_service, team_service |
| task_service (`internal/task`) | boards, columns, tasks, deadline runs | CRUD, move, remind | notification_service, realtime |
| file_service (`internal/file`) | a directory, `file_metadata` | upload, delete, download, sweep temporary files | api_gateway, by streams |
| realtime hub (`internal/gateway/ws`, `internal/realtime`) | connections, rooms, queues | register, join, leave, send, broadcast | Redis channel, chat_service |
| auth, notification, chat, form, university services | their own tables | CRUD | each other, a little |
| api_gateway (`internal/gateway`) | none but the hub | HTTP to gRPC, streaming of files | every service |

What makes the system hard:

* **Snapshots across services.** workflow_service decides on what it fetched;
  the row may have moved when the decision arrives. project_service compares the
  state under a row lock, but not the status; admin_service moves the row by
  itself.
* **Unlocked reads.** Most handlers read, check and write in separate
  statements; what protects them is a handful of unique indexes.
* **Sequences of transactions.** A grade moves the project in one transaction
  and completes its row in the next one; a call or a process may fail between.
* **Replicas.** The deadline scheduler and the outbox poller run in every
  replica; a claim is a lease that can end under its holder.
* **Whole rows.** `gorm.Save` writes back every column that was read.
* **Two stores.** The file service keeps a directory and a table in step without
  a transaction over both, while a sweeper deletes what looks abandoned.
* **Goroutines.** The hub's goroutines share maps, channels and one read-write
  lock; a slow or dead connection must not stop the others.

What each component must guarantee is stated in the comments of the properties
of its module; `PROJECT.json` lists the hazards at their lines with the
properties that cover them.

## The modules

| module | models | composed with |
|---|---|---|
| `ProjectRuntime` | one project and all its movers: students, administrators, admin_service, archive and delete, the schedulers | implements `WorkflowLedger` |
| `WorkflowLedger` | what a project's workflow promises: indivisible moves along a recorded path | |
| `OutboxDelivery` | the outbox, its pollers in several instances, the worker and the runs of its actions | takes up the events that `ProjectRuntime` writes |
| `TeamMembership` | teams, members, leaders, invitations, the lock | the LOCK_TEAM action of the outbox calls `LockTeamComposition` |
| `ReviewGate` | the vote on a review state, the gate in front of its exits, moves by others | its exits are executions of `ProjectRuntime` |
| `PreDefense` | the rows, the general queue and the moves of the two pre-defenses | `AdvanceProjectByWorkflowEvent` of `ProjectRuntime`, the vote of `ReviewGate` |
| `DocumentChecks` | norm control and antiplagiat: submissions, checks, issues, scores, approvals and their compensation | the move is `AdvanceProjectByWorkflowEvent` of `ProjectRuntime`, `AdminMove` its forced moves and rollbacks |
| `SupervisorRequests` | a team's requests for a supervisor, from the team, the teacher or staff, and the project, moves and assignment that follow an approval; what administrators do to teams, assignments, limits and projects beside it | creates the projects of `ProjectRuntime`; its moves are `AdvanceProjectByWorkflowEvent` |
| `FileStore` | directory and table of the file service: uploads, deletions, downloads, the sweeper, the end of the process | implements `FileCatalog` |
| `FileCatalog` | what the file service promises: a file is listed whole or not at all, and never comes back | |
| `RealtimeHub` | the hub's connections, rooms and queues, and the goroutines that read, write and send | sends what chat_service saved and what the Redis channel delivers |

`MC<Module>` instantiates a module for TLC and `<Module>Proofs` holds its
theorems; those of `ReviewGate` and `SupervisorRequests` are in `PeopleProofs`.
How state and actions correspond to the code:

* A table is a variable, a row one of its values, a transaction one action. What
  a handler remembers between its statements is its entry in `request` (`task`
  in `ReviewGate`, `poller` in `OutboxDelivery`); an action with a caller as
  parameter is one step of a handler.
* A handler that reads and checks before it writes is an action for the reads
  and one for each write. Handlers that do everything in one transaction
  (`CommitTransition`, `AcceptInvite`, `FetchAndClaimBatch`) are one action.
* `Abandon` (`GiveUp` in `SupervisorRequests`) is every way in which a request ends early: a refused check, a
  statement or call that fails, a process that dies. What it wrote stays.
* Unique indexes are guards (`MayLead`) or part of a variable's shape (a user
  has one entry in `member`).
* Times are abstract: a deadline is `due`, an invitation or a lease is `late`.
* Ghosts: `arm`, `owner`, `via` and `move` in `ProjectRuntime`; `faulted` and
  `done` in `OutboxDelivery`; `disturbed` in `TeamMembership`; `answered`,
  `epoch`, `roles` and `epochs` in `ReviewGate`; `about`, `early` and `heard` in
  `PreDefense`; `under`, and that a team in `back` was in `gone` before, in
  `SupervisorRequests`; `moved`, `cut` and `overruled` in `DocumentChecks`; `deleted` in
  `FileStore`; `last`, `seen` and the numbers of the frames in `RealtimeHub`. No guard
  that models the code looks at one of them, with one exception that is a bound:
  an event meets at most one failure (`faulted`).

**ProjectRuntime.** PerformAction reads the project and chooses a transition,
ExecuteTransition reads it again and decides, CommitTransition compares
`current_state_id` under the row lock and writes row, history, deadline and
outbox. The administrators' calls end in the same commit from snapshots of their
own; a rollback without a target reads the history in a second call.
`AdvanceProjectByWorkflowEvent` of admin_service writes the row in a transaction
of its own. `WorkflowLedger` knows a current state and a path only; the
refinement mapping takes `at` from the row and `trail` from the history.

**OutboxDelivery.** A poller gives back the rows whose lease is over, claims a
batch and hands its rows to the worker one by one. The worker starts a run for
every keyed action and executes it. `tryStartOrResumeRun` inserts before it
reads: on PostgreSQL the read after a refused insert fails, so a second attempt
at a run ends in an error whatever the run's status is (`StartRefused`).

**TeamMembership.** All handlers that change members, leaders, invitations,
the lock or a team's row. What the handlers guarantee only as long as nobody
interferes is stated with `disturbed`, the teams on which requests overlapped,
were cut off, or skipped the size check because workflow_service did not answer.
admin_service writes team members as well (`AddTeamMember`, the members of
`UpdateTeamByAdmin`, `DeleteTeamByAdmin`), past the lock, the limit and the
choice of a leader: these writers lie outside this module, and its properties say
nothing of a team they have touched.

**ReviewGate.** A reviewer's vote is written and then counted; an execution
fetches the project, evaluates the conditions of the chosen exit on the fetched
data, counts in the gate, and commits the move with the gate's flags. A vote
keeps the number of rollbacks before it as `epoch`.

**PreDefense.** Grade and completion plan their events by the state they find
the project in, apply each in a transaction, and then write their row. `about`
is the pre-defense a row was created in, which the code does not record. The
project starts before its first pre-defense, in `Earlier`, which stands for all
those states: `SubmitPreDefense` looks at no state, so rows may be created,
scheduled, graded and completed there. `Plan` is empty before the pre-defenses
and after them (the default branch of `advancePreDefenseCurrentPhase`), and
`CompletePreDefense` goes on to its last write all the same; `early` are the
rows that were completed so. The forced moves and rollbacks of administrators, which can
take a project past a pre-defense or back into one, are modelled in
`ProjectRuntime` and left out here: the properties are about what the
pre-defense handlers, the documents and the vote do.

**DocumentChecks.** One module for both checks, which are written alike: the
stage of a document tells which table its check is in. `Decide` is what stands
in front of the transactions of start, approve and return; the transactions look
at the check's status again, the writes of issues and scores do not. An approval
is `Approve`, then `Advance` or `AdvanceFails` and `Undo`. Only the assigned
checker's requests are modelled; a check has one checker from its start on.

**SupervisorRequests.** A handler's entry in `request` is the step it comes to
next; a decision goes through `create`, `move`, `assign`, the look-up of the
project it has just made, and `save`, and ends early wherever the code returns.
The request is written back whole, with the status its handler read.
Administrators interfere at any time: `UpdateTeamByAdmin` sets a supervisor
without a capacity check; `DeleteTeamByAdmin` removes the assignment and leaves
the requests, `DeleteTeam` leaves both; a rename that was under way inserts the
deleted team again (`UpdateTeam`: `Save` finds no row to update); limits are set
and taken away; projects are created, deleted and given to other teams. A check
takes the supervisor's own limit or else the department's, which counts as none
when it cannot be read (`EffectiveLimits`); `under` remembers which limit an
assignment was checked against, 0 for none.

Simplified there: one department, whose limit `Default` does not change; a check
reads the count and the limit in one step; later moves of the project are left
out (`waits` includes a project that was moved by somebody else); the checks that
administrators' handlers make of a team are left out too, because the team may
be deleted right after them. `PeopleProofs`
extends this module and `ReviewGate`, hence the names `SelectionSpec`,
`SelectionTypeOK` and the like.

**FileStore.** An upload writes its parts to a temporary file, renames it,
inserts the row and answers; if the insert fails it removes the file, which may
fail too. `Crash` ends every handler and keeps disk and table. The refinement
mapping to `FileCatalog` calls a file listed when it has its row and its file, and
broken when that file is not whole, a status no catalog has. Some whole files
cannot get a row (`fits`): the gateway sends an Office document's MIME type,
which is longer than the column `file_type`, VARCHAR(50), that once held the
extension.

**RealtimeHub.** The handler of a connection, its write pump and the senders are
processes. A send holds the lock for reading over all recipients, so the actions
that take it for writing wait for `Locked`. A channel is a bounded queue with a
`closed` flag; sending on or closing a closed one sets `panic`.

## What is checked

| run | module, configuration | shows |
|---|---|---|
| project_runtime | `MCProjectRuntime`, `ProjectRuntime.cfg` | Two callers decide on snapshots of one project while archiving, deletion, review decisions and a scheduler run in between: the history stays a path, the outbox matches it, and the whole implements the ledger. Checks `TypeOK`, `HistoryIsAPath`, `MovesFollowTheWorkflow`, `OutboxMatchesHistory`, `StatusAgrees`, `ImplementsLedger`. |
| project_deadline | `MCProjectRuntime`, `ProjectRuntimeLive.cfg` | Two schedulers of a moving project fire no deadline twice and none that is not due, and an expired deadline does not stay unprocessed although schedulers fail and the project keeps moving. Checks `OneAlarmPerDeadline`, `AlarmsAreDue`, `ExpiredDeadlineIsHandled`. |
| project_archived | `MCProjectRuntime`, `ProjectRuntimeArchived.cfg` | counterexample: An action whose snapshot is older than ArchiveProject moves the archived project and makes it active again. Checks `InactiveIsNotActedOn`. |
| outbox_delivery | `MCOutboxDelivery`, `OutboxDelivery.cfg` | Two instances poll an outbox with a repeated transition, an action without a dedup key and an event that always fails, while up to two events meet a crash, a failed call, a lost update or an expired lease; no event waits for ever. Checks `TypeOK`, `RunsAtMostOnce`, `ProcessedMeansExecuted`, `ClaimsAreExclusive`, `EventsAreTakenUp`. |
| outbox_retry | `MCOutboxDelivery`, `OutboxDeliveryRetry.cfg` | counterexample: A run that failed once is never retried: each later attempt ends in the aborted transaction. Checks `FailedRunsAreRetried`. |
| team_membership | `MCTeamMembership`, `TeamMembership.cfg` | Two requests at a time, answers to invitations and the lock on one team and three students: whatever goes wrong with a team went wrong because its requests overlapped, failed or could not check the limit. Checks `TypeOK`, `SizeLimit`, `OneLeader`, `NoGhosts`, `LockedStaysTheSame`. |
| review_gate | `MCReviewGate`, `ReviewGate.cfg` | Two reviewers with a vote and one without, two executions, admin moves and a rollback, with an exit that has no conditions (as migration 30 inserts it): the last voter is told, no verdict is recorded on too few votes, and finalizers who keep trying get a project out once enough have voted. Checks `TypeOK`, `SomebodyIsTold`, `VerdictNeedsVotes`, `VotedIsFinalized`. |
| supervisor_requests | `MCSupervisorRequests`, `SupervisorRequests.cfg` | Two handlers create, approve, reject and cancel requests and appoint a supervisor, in any interleaving and with a failure after any step, while administrators set supervisors and limits, delete teams and create, delete and reassign projects: a request is approved only when all of it is done, and what was checked against a limit exceeds it by less than the requests in flight. Checks `SelectionTypeOK`, `ApprovedIsComplete`, `LoadIsBounded`. |
| predefense | `MCPreDefense`, `PreDefense.cfg` | Three rows, created before or after the project reaches its first pre-defense, and two handlers that overlap, fail and repeat: nobody leaves the first pre-defense unheard, and a row that was not completed too early says completed only of a project that has moved. Checks `TypeOK`, `FirstPhaseIsHeard`, `CompletedInTimeMeansMoved`. |
| document_checks | `MCDocumentChecks`, `DocumentChecks.cfg` | Two documents of one project under two overlapping requests: whatever fails between an approval and the move, no document stays approved without its move (unless the approval was cut off), the one that moved the project stays approved, and check and submission agree. Checks `TypeOK`, `ApprovedHasMoved`, `PassedStaysApproved`, `SubmissionAgrees`. |
| file_store | `MCFileStore`, `FileStore.cfg` | Two uploads, a deletion and a download run against the sweeper, failing statements and removals, and the end of the process: directory and table implement the catalog, and no temporary file stays. Checks `TypeOK`, `ImplementsCatalog`, `TempFilesGo`. |
| realtime_hub | `MCRealtimeHub`, `RealtimeHub.cfg` | A connection comes, joins, leaves and breaks in every way while events and chat messages are sent to it and to a second, slow one: nothing panics, events stay in order, and what is dead is forgotten. Checks `TypeOK`, `NoPanic`, `EventsInOrder`, `DeadConnectionsLeave`. |

Every property of a passing run is accompanied by a mutant: an operator next to
a definition that changes it as a plausible bug would (its comment says which).
With it in the definition's place, TLC finds the property violated.

Some configurations are not among the runs and are meant to be run by hand; all
but the first end in a counterexample:

| configuration | property | shows |
|---|---|---|
| `TeamMembershipPair.cfg` | `OneLeader` | holds for two teams that share their students, as long as no team was disturbed |
| `ProjectRuntimeStage.cfg` | `AlarmNamesItsStage` | a move without a deadline keeps the old one, whose event names the new stage |
| `OutboxDeliveryTwice.cfg` | `NoDuplicates` | a batch that outlives its lease is claimed a second time |
| `TeamMembershipLock.cfg` | `LockForbidsAnyChange` | a join that passed its checks before the lock is inserted after it |
| `TeamMembershipLeave.cfg` | `LeadersHandOver` | `ux_team_leader` refuses the new leader while the old one still is leader, so no leader can leave |
| `TeamMembershipResend.cfg` | `ExpiredIsSentAgain` | an expired invitation stays PENDING and blocks the next one |
| `ReviewGateRoles.cfg` | `EveryRoleVoted` | two votes of one role stand for two roles |
| `ReviewGateStale.cfg` | `OldVotesDoNotDecide` | votes from before a rollback open the gate again |
| `ReviewGateStuck.cfg` | `VotedIsFinalized` | with both exits conditioned on the gate's flags, as migration 16 seeds them, the execution that would set the flags is refused for want of them |
| `PreDefenseByHand.cfg` | `CompletedMeansMoved` | a pre-defense that is submitted, scheduled, graded and completed before the project has reached one is completed without a move: `CompletePreDefense` does not look at what it is told |
| | `SecondPhaseIsHeard` | a grade that finds the project in the second pre-defense already takes it past that one |
| | `QueueIsCleared` | a graded pre-defense stays pending in the general queue: the statement names columns the table does not have |
| | `RepeatStaysInPhase` | a repeated completion of the first pre-defense passes the second |
| | `FinalStaysFinal` | a reschedule writes back the row it read before the grade |
| `DocumentChecksByHand.cfg` | `NothingStaysApproved` | an approval that is interrupted before its move can never be repeated |
| | `ApprovedIsClean` | a critical issue is written to a document that was approved meanwhile |
| | `ScoresKeepDecisions` | scores set during an approval put the document back in review |
| `SupervisorRequestsByHand.cfg` | `SelectedHasSupervisor` | the last capacity check refuses a supervisor after the project was moved past the selection |
| | `DecisionsAreFinal` | an approval overwrites a cancellation it had not read |
| `FileStoreByHand.cfg` | `NoFileWithoutRow` | a process that ends between rename and insert leaves a file that no sweeper looks for |
| | `DownloadsAreWhole` | a file deleted after `GetFileInfo` is sent as an empty attachment |
| | `WholeUploadsAreSaved` | an Office document is refused without any fault: its MIME type does not fit its column |
| `RealtimeHubChat.cfg` | `ChatInOrder` | two chat messages are saved in one order and sent in the other |

A configuration with several properties has one of them active and the others
as comments: each is to be tried alone.

## Bounds and fairness

| run | bounds | why they are enough |
|---|---|---|
| project_runtime | 3 states with a loop back, one with both kinds of deadline; 2 callers, 1 scheduler, `MaxHistory` = 2 moves | a conflict needs two snapshots and one move between them; a second move shows what a stale commit, rollback or recall does to the path |
| project_deadline | 1 caller, 2 schedulers | the caller rearms, archives and moves under two schedulers that have both listed the project |
| outbox_delivery | 3 events, 2 instances, batches of 2, `MaxFaults` = 2 | a transition with a keyed action and one without, its repetition (same key) and an event that always fails compete for two batches; two failures include a crash after an expired lease; the broken row comes back for ever and takes one seat of two |
| outbox_retry | 2 independent events, one failure | one failure is what a retry is for |
| team_membership | 3 students, 1 team, limit 2, 2 requests; `FewAnswers` does not go on from a state with two answered invitations | the last seat, three candidates for it, and every pair of handlers |
| review_gate | 2 reviewers with a vote, 1 without, 2 executions (one by a finalizer), 1 rollback | as many votes as are required, cast before or after a rollback |
| supervisor_requests | 3 teams, 1 supervisor, 2 rows, 2 handlers, a limit of 1 team of the department and of the supervisor's own; `FewThings`: one team asks, one team at most is deleted, and there are at most `Bound` = 3 requests, assignments, projects, own limits and deleted teams together, or only the asking team has a project or supervisor; own limits and projects do not occur together | two decisions about one team's request or its two requests, while its project comes and goes; two handlers that pass a limit together after another team was assigned with or without a check; requests of other teams meet these only through the limit |
| predefense | 3 rows, 2 handlers; `FewEarly`: at most `Bound` = 2 rows before the project reaches its first pre-defense and where one was completed too early | two rows for the first pre-defense and one for the second; two handlers suffice for every finding, a third only adds interleavings |
| document_checks | 2 documents, 1 issue, 2 handlers; `FewExceptions`: one document at most is overruled or has its approval cut off; `OneWriter`: one request at most is a submission or writes issues or scores | two documents of one stage compete for the move, or two requests for one document; exceptions concern only the document they happen to |
| file_store | 2 uploads of `MaxParts` = 2 parts or one too many (`LargeOnly`), 1 deletion, 1 download | a file is complete, cut off or too large; the two uploads only meet in the sweeper, which holds one name at a time |
| realtime_hub | 2 connections of 2 users in one conversation and one topic, queues of 1, 2 frames, 2 senders; the second connection, once made, lasts (`SecondLasts`) | a full queue needs one frame in it and one that follows; whatever happens to one connection happens while the other one is sent to |

Fairness is stated only where the code keeps trying:

* `ProjectRuntime!FairSpec`: a scheduler ticks every minute (weak fairness of
  listing), and one of infinitely many attempts of its transaction succeeds
  (strong fairness of firing, because a failure takes the project off its list).
* `OutboxDelivery!FairSpec`: the poll loop runs as long as its instance lives
  and its calls return; leases end because time passes. Nothing is assumed of
  failures, which `MaxFaults` bounds.
* `ReviewGate!FairSpec`: finalizers keep trying and one of infinitely many
  executions goes through. Nothing is assumed of reviewers or administrators.
* `FileStore!FairSpec`: time passes for a file that is not written to, the
  sweeper's ticker comes back to every old file, and one of infinitely many
  removals succeeds. Nothing is assumed of clients: an upload may stall for ever.
* `RealtimeHub!FairSpec`: goroutines run, and reads and writes meet their
  deadlines. Go's `RWMutex` keeps new readers out while a writer waits, hence
  strong fairness of the actions that take the lock for writing.

`CHECK_DEADLOCK FALSE` stands where the modelled world may really come to rest:
a deleted project, a team with nothing left to do.

## What is proved

The theorems hold for every value of the constants that the modules' `ASSUME`s
admit (a workflow with any states, any number of callers, teams, rows,
instances), and not only for the instances that TLC checks.

| theorem | states | by |
|---|---|---|
| `ProjectRuntimeProofs!TypeCorrect` | `TypeOK` | Rows, requests in flight and the outbox keep their types, for every workflow. |
| `ProjectRuntimeProofs!HistoryPath` | `HistoryIsAPath` | The history is one path from the initial to the current state, however many callers decide on stale snapshots. |
| `ProjectRuntimeProofs!FollowWorkflow` | `MovesFollowTheWorkflow` | Executed, ordinarily advanced and review-driven moves are transitions of the workflow. |
| `ProjectRuntimeProofs!LedgerRefinement` | `ImplementsLedger` | The runtime with its snapshots and optimistic commits implements the ledger of indivisible moves. |
| `ProjectRuntimeProofs!StatusAndState` | `StatusAgrees` | The status column agrees with the state, although it was computed from a snapshot: every body in flight agrees with itself. |
| `ProjectRuntimeProofs!AlarmsAreSingle` | `OneAlarmPerDeadline` | One deadline raises at most one event, however many schedulers have listed the project. |
| `ProjectRuntimeProofs!OutboxAndHistory` | `OutboxMatchesHistory` | The outbox holds exactly the post-commit rows of the recorded moves: every body in flight carries the groups of its own move, and no row names a move that is not recorded yet. |
| `ProjectRuntimeProofs!AlarmsOnTime` | `AlarmsAreDue` | An alarm is raised only for the deadline there is, once it is over, and never for an inactive project, whatever happened since the scheduler listed it. |
| `ProjectRuntimeProofs!AlarmsOfOtherStages` |  | A deadline event names another stage than the one that set the deadline only after a rollback, a move of admin_service or a move to a stage without a deadline. |
| `ProjectRuntimeProofs!OnlyArchivedAreActedOn` |  | Where nothing leaves a final state, only archiving while a request of a student is in flight lets it move a project that is inactive. |
| `OutboxDeliveryProofs!TypeCorrect` | `TypeOK` | The outbox, the runs and the pollers keep their types, for every outbox and number of instances. |
| `OutboxDeliveryProofs!AtMostOnce` | `RunsAtMostOnce` | An action with a dedup key is executed at most once, whatever fails: inductive invariant StartedFirst, AloneInAction and DoneWasStarted. |
| `OutboxDeliveryProofs!CompleteWhenProcessed` | `ProcessedMeansExecuted` | No event is marked processed with an action of it unexecuted. |
| `OutboxDeliveryProofs!ExclusiveClaims` | `ClaimsAreExclusive` | Two instances hold one row only after a failure of its event. |
| `OutboxDeliveryProofs!ExactlyOnce` |  | When an event is processed, each of its actions with a dedup key was executed exactly once, whatever failed before. |
| `OutboxDeliveryProofs!TimelyClaimsAreExclusive` |  | As long as no lease ends under the instance that holds the row, no row is held by two instances. |
| `TeamMembershipProofs!TypeCorrect` | `TypeOK` | Team rows, memberships, invitations and requests keep their types, for any users and teams. |
| `TeamMembershipProofs!LockedComposition` | `LockedStaysTheSame` | A locked team keeps its members as long as its requests do not overlap, for any number of teams, students and requests: inductive invariant AloneInv, CheckedInv, FreshInv. |
| `TeamMembershipProofs!TeamsStaySmall` | `SizeLimit` | A team whose requests did not overlap never exceeds the size limit, for every limit and number of students: SoundInv says what holds between two writes of a request. |
| `TeamMembershipProofs!TeamsAreLed` | `OneLeader` | Such a team has exactly one leader whenever nobody is at work on it, through creations, transfers and departures. |
| `TeamMembershipProofs!NobodyIsLeftBehind` | `NoGhosts` | A deleted team of this kind keeps neither members nor pending invitations. |
| `TeamMembershipProofs!LeadersNeverLeave` |  | A leader of such a team never gets out of it except with the whole team: the promotion of LeaveTeam meets the unique index every time. |
| `PeopleProofs!TypeCorrect` | `TypeOK` | Votes, flags and executions in flight keep their types, for every review configuration. |
| `PeopleProofs!LastVoterIsTold` | `SomebodyIsTold` | Whatever the order of the votes, somebody whose answer arrives is told that enough are in. |
| `PeopleProofs!VerdictFounded` | `VerdictNeedsVotes` | No verdict is recorded or under way on fewer votes than the configuration asks for: votes are never taken away, so a count stays good until its commit. |
| `PeopleProofs!ConditionedExitsStayShut` |  | Where every exit of the review state has a condition on the flags of the gate, no execution ever gets through the gate: the deadlock of the seeded transitions, for every configuration. |
| `PeopleProofs!OneReviewerPerRoleSuffices` |  | Where no two reviewers have the same role, no verdict leaves out a role: the counterexample to EveryRoleVoted needs two. |
| `PreDefenseProofs!TypeCorrect` | `TypeOK` | Rows, queue and requests in flight keep their types, and a handler that moves the project has one of the two plans of its pre-defense to do it by. |
| `PreDefenseProofs!FirstIsHeard` | `FirstPhaseIsHeard` | No project leaves the first pre-defense without a grade or a vote about it, for any number of rows and handlers. |
| `PreDefenseProofs!CompletedInTimeMoved` | `CompletedInTimeMeansMoved` | A row that was not completed while the project was still before its pre-defenses says completed only when the project has left the pre-defense the row is about: completing too early is the one way to violate CompletedMeansMoved. |
| `PreDefenseProofs!OwnPlansSuffice` |  | The second pre-defense is skipped, and a repeated completion hits another pre-defense, only by a handler that plans its moves while the project is in another pre-defense than the row is about. |
| `PreDefenseProofs!ApartFinalStaysFinal` |  | As long as no two requests about one row overlap, what a grade or a completion decided stays decided: the counterexample to FinalStaysFinal needs an overlap. |
| `DocumentChecksProofs!TypeCorrect` | `TypeOK` | The rows of the documents and the requests in flight keep their types. |
| `DocumentChecksProofs!ApprovedMove` | `ApprovedHasMoved` | Once no request works on an approved document, the project has left its stage: a request that approves either moves the project or is alone in taking the approval back. |
| `DocumentChecksProofs!PassedStay` | `PassedStaysApproved` | The document that brought a project through norm control stays approved, for any number of documents and overlapping requests. |
| `DocumentChecksProofs!Agreement` | `SubmissionAgrees` | Check and submission of a document in norm control never disagree, also while an approval is being taken back. |
| `DocumentChecksProofs!ApartApprovedIsClean` |  | As long as no two requests about one document overlap, an approved document has no critical issue open. |
| `DocumentChecksProofs!ApartScoresKeepDecisions` |  | As long as no two requests about one document overlap, scores change only of a document in review. |
| `PeopleProofs!SelectionTypeCorrect` | `SelectionTypeOK` | Requests, projects, assignments, limits and what each handler has still to do keep their types, for any teams, supervisors and limits. |
| `PeopleProofs!ApprovalIsComplete` | `ApprovedIsComplete` | An approved request names a project, the one its team has unless that was deleted or given away, and the team has a supervisor unless it was deleted, wherever other decisions were interrupted and whatever administrators do beside them. |
| `PeopleProofs!LoadStaysBounded` | `LoadIsBounded` | Of the assignments that were checked against a limit, no supervisor has more beyond it than checks passed at the same time can add, for any number of handlers, teams and limits, changes of limits, failures to read one and assignments without a check. |
| `PeopleProofs!OvershootIsOverlap` |  | If never more than n handlers stand behind a capacity check at once, the assignments checked against a limit do not exceed it by n or more teams: with n = 1 they respect it. Assignments that were checked against nothing are not counted. |
| `PeopleProofs!ApartDecisionsAreFinal` |  | As long as no two handlers work on one request, a decision is final: the counterexample found by hand needs an overlap. |
| `FileStoreProofs!TypeCorrect` | `TypeOK` | The file store keeps its types, and no file grows beyond the limit. |
| `FileStoreProofs!CatalogRefinement` | `ImplementsCatalog` | The directory and the table implement the catalog, whatever fails and whenever the process ends. |
| `FileStoreProofs!GoneForGood` |  | A file that was deleted or given up is never listed again, whatever requests are still in flight; what was reported deleted is gone. |
| `FileStoreProofs!TidyStoreHasNoStrays` |  | A file without a row is left behind only by a process that ends between rename and row, or by a removal that fails. |
| `RealtimeHubProofs!TypeCorrect` | `TypeOK` | The hub keeps its types, and no queue grows beyond its capacity. |
| `RealtimeHubProofs!NoGoroutinePanics` | `NoPanic` | No send meets a closed channel and no channel is closed twice, whatever connections come and go while others send. |
| `RealtimeHubProofs!EventsStayInOrder` | `EventsInOrder` | Events reach every peer in the order of the Redis channel, also past full queues. |
| `RealtimeHubProofs!LoneChatStaysInOrder` |  | Chat messages reach every peer in the order they were saved unless one is saved while another one is still being sent. |

How the arguments go:

* *ProjectRuntime.* A commit is accepted only if its `expect` is the current
  state, so a new history row begins where the last one ended. That it is a
  transition needs to know of a pending commit that its pair is one
  (`PendingFollowsTheWorkflow`: every `execute`, `advance` or `event` body in
  flight names a transition).
  The refinement maps each commit and each move of admin_service to one step of
  the ledger and everything else to a stutter.
* *OutboxDelivery.* That no keyed action is executed twice rests on three parts:
  what has been executed had a run (`DoneWasStarted`), a poller executes only
  what it has started (`StartedFirst`), and no two pollers execute the same key
  (`AloneInAction`); the insert with its unique key keeps all three.
* *TeamMembership.* `LockedStaysTheSame` is an action property. It needs that an
  undisturbed team has one request at most (`AloneInv`), that a request that
  will change members has seen the team unlocked and it still is
  (`CheckedInv`), and that only teams that exist are locked (`FreshInv`).
* *ReviewGate.* Votes are never taken away, so a count that was enough stays
  enough until its commit; `LastVoterIsTold` counts the reviewers who have voted
  and not yet been answered.
* *PreDefense.* No row is about the second pre-defense before the project is in
  it (`RowsInv`), so what a handler knows of its row (`RequestsInv`) survives
  every step of the others: no event leads back, `heard` only grows and a row
  that exists stays (`Grows`).
* *DocumentChecks.* Of a document in norm control the request that has approved
  it is alone until it has moved the project or taken the approval back
  (`MovingInv`), because an approval needs the check in review under the row
  lock and nothing but that request brings it back there. In antiplagiat the
  late scores do, so two approvals of one document may be under way;
  `ApprovedHasMoved` holds nevertheless.
* *SupervisorRequests.* A request is written last: whoever is about to write
  `approved` names a project that is there and has the assignment behind it
  (`WorkIsSound`), and a row that says so keeps them (`RowIsSound`). What takes
  something away accounts for it: a team loses its assignment only with its
  row (`Supervised`), and whoever named a project that is taken away names it no
  longer (`SelectionLoses`). For the load, the assignments checked against a
  limit of at most `max` are counted together with the handlers that have passed
  such a check and not yet used it: whoever passed found all teams of the
  supervisor, and so the checked ones, below the limit (`LoadInv`).
  Administrators only take checked assignments away (`LoadAdminStep`).
* *RealtimeHub.* Three parts. The maps agree with the handlers (`IndexesInv`), a
  channel is closed only when its handler has left them (`ClosedInv`), and what
  is left of a send are registered connections, because nobody leaves during
  one (`RecipientsInv`): so no frame goes to a closed channel. For the order of
  the frames of one source, what is written is older than what is queued, that
  is in ascending order and older than what is being sent, the newest frame of
  all (`WrittenInv`, `QueuedInv`, `NewestInv`), provided that frames are under
  way one at a time (`OneAtATime`). The dispatcher guarantees this for
  events (`DispatcherInv`); nothing does for chat messages.
* *FileStore.* A file that is listed is whole because the row follows the rename
  of a complete temporary file (`UploadInv`); a deletion works on a file that
  was listed (`DeletionInv`); an open file keeps its parts (`DownloadInv`).

More on two modules from above. Of *ProjectRuntime*, `StatusAgrees` needs that
every body in flight agrees with itself (`PendingAgrees`), `OneAlarmPerDeadline` that
no alarm is later than the deadline there is (`AlarmsInv`), and `OutboxMatchesHistory`
that a body in flight carries the groups of its own move (`PendingPosts`) and no
row names a move that is not recorded yet (`NoFuturePosts`). Of *TeamMembership*,
the size, the leader and the ghosts are proved together: `Stage` says what
holds before each write of a lone request (before a `promote` or `demote` the old leader is
the only one, before a `raise` there is none, before a `join` there is room), and
`Sound` that a team at rest has one leader and is not too large.

Two consequences of the results above. `ExactlyOnce`: when an event is processed,
each of its keyed actions was executed exactly once. `GoneForGood`: no request in
flight brings a file back that was deleted or given up; it follows from the
refinement of `FileCatalog`.

### What the counterexamples need

A counterexample shows that something can go wrong, not what else it takes. For
most of those listed under *What is checked* a theorem says so: without the
one circumstance it names, the property holds for every value of the constants
and whatever else fails or overlaps.

| property | what it takes to violate it | theorem |
|---|---|---|
| `AlarmNamesItsStage` | the last move was a rollback, one of admin_service or one to a stage without a deadline, which leave the deadline as it is | `AlarmsOfOtherStages` |
| `InactiveIsNotActedOn` | the project is archived while a student's request is in flight; a completion meets the `expect` of the commit (assuming that nothing leaves a final state) | `OnlyArchivedAreActedOn` |
| `NoDuplicates` | a lease ends under an instance that still holds the row | `TimelyClaimsAreExclusive` |
| `EveryRoleVoted` | two reviewers have the same reviewer role | `OneReviewerPerRoleSuffices` |
| `CompletedMeansMoved` | a row is completed while the project is still before its pre-defenses | `CompletedInTimeMoved` |
| `SecondPhaseIsHeard`, `RepeatStaysInPhase` | a handler plans its moves while the project is in another pre-defense than its row is about, which the row does not record | `OwnPlansSuffice` |
| `FinalStaysFinal` | two requests about one pre-defense overlap | `ApartFinalStaysFinal` |
| `NothingStaysApproved` | an approval is cut off between its two transactions | `ApprovedMove` |
| `ApprovedIsClean` | two requests about one document overlap | `ApartApprovedIsClean` |
| `ScoresKeepDecisions` | the same | `ApartScoresKeepDecisions` |
| `DecisionsAreFinal` | two handlers work on one request for a supervisor | `ApartDecisionsAreFinal` |
| a supervisor's limit, among the assignments that were checked against it | two handlers stand behind a capacity check of one supervisor (by `n` teams: more than `n` handlers); without a check there is no bound | `OvershootIsOverlap` |
| `LockForbidsAnyChange` | two requests about the team overlap | `LockedComposition` |
| `NoFileWithoutRow` | the process ends between rename and row, or a removal fails that is not repeated | `TidyStoreHasNoStrays` |
| `ChatInOrder` | a second message is saved while the first one is being sent | `LoneChatStaysInOrder` |

The circumstance is a hypothesis on the behaviour (`[]Apart`, `[][TidyStep]_vars`)
or on the constants (`OneReviewerPerRole`), defined next to the theorem. None
is excluded by the code; each is what a repair would have to exclude, with a row
lock or a condition in the `UPDATE` in most cases.

Some properties fail without any circumstance, and of two of them it is proved that
they do so always. `LeadersHandOver`: a leader of an undisturbed team never gets out of it
except with the whole team (`LeadersNeverLeave`). `VotedIsFinalized` with the seeded
transitions: where every exit has a condition on the gate's flags, no execution
ever gets through the gate (`ConditionedExitsStayShut`). Of `ExpiredIsSentAgain`,
`OldVotesDoNotDecide`, `QueueIsCleared` and `WholeUploadsAreSaved`, which fail without an
overlap and without a fault, of `SelectedHasSupervisor`, which an approval that
ends half way or an administrator who deletes or replaces things may violate, and of `DownloadsAreWhole`, which fails with any broken
stream, there are the counterexamples alone.

Left to TLC: liveness under fairness (`ExpiredDeadlineIsHandled`,
`EventsAreTakenUp`, `VotedIsFinalized`, `DeadConnectionsLeave`, `TempFilesGo`), which
with `ENABLED` is out of the prover's reach. Every other property of a passing
run has its theorem.

## What the models found

`PROJECT.json` lists them under `findings` with the lines quoted; each one is a
run that ends in a counterexample:

* **project_archived** (`internal/project/service.go:221`): An action whose snapshot is older than ArchiveProject moves the archived project and makes it active again.
* **outbox_retry** (`internal/workflow/postcommit/worker.go:354`): A run that failed once is never retried: each later attempt ends in the aborted transaction.

## What is not modelled

* team_service (partly): all handlers that change members, leaders, invitations, the lock or a team row; RegenerateInviteCode is left out, because a join request names its team here, not the code it was found by; handler.go only translates messages.
* project_service (partly): creation, actions, commit, archive, deletion and the deadline scheduler of a project; the update of its title and the listings are left out.
* workflow_engine (partly): execution of a transition (checks on a snapshot, conditions, gate, commit) is modelled; GetAvailableTransitions and the deadline computation only by what they return, the wording of blocked reasons not at all.
* workflow_plugins (partly): the review gate, the team lock and, by its dedup key, every POST action; the other plugins only validate their input or call another service.
* workflow_definitions (not modelled): the definition of workflows, states, transitions, actions and department settings; a definition is a constant of the other modules. Planned: activation (two active workflows) and ValidateWorkflow.
* admin_documents (partly): submissions, checks, issues, scores, approval with its move and compensation, return; comments, checklists, history and statistics decide nothing and are left out.
* admin_supervision (partly): supervisor requests and assignments are a module of their own; AdvanceProjectByWorkflowEvent, SubmitDocumentForStep, tryPerformIfAvailable and ReviewSubmission are modelled where other components meet them; topic reviews and grades are left out.
* department_progress (not modelled): read-only statistics.
* task_service (not modelled): boards, columns, tasks and the deadline notifier; its hazards are listed, no module covers them.
* auth_service (not modelled): accounts, sessions, roles: authentication is not a subject of this project.
* notification_service (not modelled): one insert per notification, then best-effort push and publish: no state to get wrong between calls.
* chat_service (not modelled): conversations and messages; the sending of a message is part of RealtimeHub.
* form_service (not modelled): stores and returns form definitions, no interaction.
* university_service (not modelled): a catalogue of faculties and departments, create and read.
* api_gateway (partly): translates HTTP to gRPC and keeps no state but the hub; its WebSocket handlers and its streaming of files are modelled with the components behind them.
* shared_packages (not modelled): configuration, connections, interceptors, logs and metrics.
* generated_code (not modelled): protobuf code, generated.
* commands (not modelled): wiring of the services and the migration command.
* database_schema (partly): tables, unique indexes and seeded transitions of the modelled components.
* deployment (not modelled): containers and configuration.

Most of the repository's Go code is generated: the messages, stubs and validators
under `pkg/protobuf`. They hold no state and are not modelled; what a validator
refuses never reaches a handler.

Inside the modelled components: the wording of messages and notifications, the
contents of forms and documents, listings and other reads, authentication of the
callers. `ProcessWorkflowActionEvent` (gRPC) and `GetPendingEvents` /
`MarkEventProcessed` have no caller in the repository.

## Plan

In this order; the first nine are done.

1. `ProjectRuntime` with `WorkflowLedger` (refinement proved).
2. `OutboxDelivery`.
3. `TeamMembership`.
4. `ReviewGate`.
5. `PreDefense`.
6. `DocumentChecks`.
7. `SupervisorRequests`.
8. `FileStore` with `FileCatalog` (refinement proved).
9. `RealtimeHub`.
10. `TopicRegistration`: registration, review and the move that follows it, which
    a failure leaves undone.
11. `TaskBoard`: positions under overlapping moves, and the reminders, whose run
    is written before the call.
12. `WorkflowDefinition`: activation of a version, `ValidateWorkflow`'s
    reachability as a recursive function against a reference definition.
13. Rotation of refresh tokens, direct conversations.

Every safety property and action property of a run is proved. Theorems still
worth proving: that `OutboxDelivery` implements a plain queue of actions, and that
`ReviewGate` implements a vote that is closed in one step.

## Running it

    tlc -workers 2 -config ProjectRuntime.cfg MCProjectRuntime.tla
    tlapm ProjectRuntimeProofs.tla

The longest runs (`predefense`, `supervisor_requests`, `team_membership`,
`document_checks`) take
about two minutes on two cores; the proofs take a few minutes.
