------------------------ MODULE ProjectRuntimeProofs ------------------------
(***************************************************************************)
(* Proofs about ProjectRuntime, for every workflow, every number of        *)
(* requests in flight and of schedulers, and every length of history.      *)
(***************************************************************************)
EXTENDS ProjectRuntime, SequenceTheorems, TLAPS
-----------------------------------------------------------------------------
(***************************************************************************)
(* What the deciding services put into a CommitTransition is well formed.  *)
(***************************************************************************)
LEMMA BodyTypes ==
    ASSUME TypeOK
    PROVE  /\ \A t \in Transitions : ExecuteBody(t) \in Commits
           /\ \A t \in Transitions : AdvanceBody(t) \in Commits
           /\ \A s \in States : SetBody(s) \in Commits
           /\ \A at, s \in States, status \in Statuses :
                RollbackBody(at, status, s) \in Commits
<1> USE WorkflowAssumption
<1>1. ASSUME NEW t \in Transitions PROVE ExecuteBody(t) \in Commits
  <2>1. Groups(t.from, t.to) \in Seq({"ON_EXIT", "ON_ENTER"})
    <3> DEFINE G == {"ON_EXIT", "ON_ENTER"}
    <3>1. /\ << >> \in Seq(G)
          /\ <<"ON_EXIT">> \in Seq(G)
          /\ <<"ON_ENTER">> \in Seq(G)
      OBVIOUS
    <3>2. \A p, q \in Seq(G) : p \o q \in Seq(G)
      OBVIOUS
    <3> HIDE DEF G
    <3>3. /\ (IF t.from \in ExitPost THEN <<"ON_EXIT">> ELSE << >>) \in Seq(G)
          /\ (IF t.to \in EnterPost THEN <<"ON_ENTER">> ELSE << >>) \in Seq(G)
      BY <3>1
    <3>4. Groups(t.from, t.to) \in Seq(G)
      BY <3>2, <3>3 DEF Groups
    <3> QED
      BY <3>4 DEF G
  <2>2. t.to \in States
    OBVIOUS
  <2> QED
    BY <2>1, <2>2 DEF ExecuteBody, Commits, TypeOK, Timed, Vias, Statuses, Inactive
<1>2. ASSUME NEW t \in Transitions PROVE AdvanceBody(t) \in Commits
  BY DEF AdvanceBody, Commits, TypeOK, Timed, Vias, Statuses, Inactive
<1>3. ASSUME NEW s \in States PROVE SetBody(s) \in Commits
  BY DEF SetBody, Commits, TypeOK, Timed, Vias, Statuses, Inactive
<1>4. ASSUME NEW at \in States, NEW s \in States, NEW status \in Statuses
      PROVE RollbackBody(at, status, s) \in Commits
  BY DEF RollbackBody, Commits, Vias, Statuses, Inactive
<1> QED
  BY <1>1, <1>2, <1>3, <1>4

\* A request that waits to be committed carries a well-formed body.
LEMMA CommitHasBody ==
    ASSUME TypeOK, NEW c \in Callers, request[c].step = "commit"
    PROVE  request[c].body \in Commits
BY DEF TypeOK, Requests, Idle

LEMMA RearmType ==
    ASSUME TypeOK, NEW s \in States, NEW past \in BOOLEAN
    PROVE  Rearm(s, past) \in Deadlines
BY DEF TypeOK, Rearm, Deadlines

(***************************************************************************)
(* The tables and the requests in flight keep their types.                 *)
(***************************************************************************)
THEOREM TypeCorrect == Spec => []TypeOK
<1> USE WorkflowAssumption
<1>1. Init => TypeOK
  BY DEF Init, TypeOK, Statuses, Deadlines, Requests, Moves, Rows
<1>2. TypeOK /\ [Next]_vars => TypeOK'
  <2> SUFFICES ASSUME TypeOK, [Next]_vars PROVE TypeOK'
    OBVIOUS
  <2> USE BodyTypes
  <2>1. ASSUME NEW c \in Callers, NEW t \in Transitions, PerformAction(c, t)
        PROVE TypeOK'
    BY <2>1 DEF PerformAction, Become, TypeOK, Requests
  <2>2. ASSUME NEW c \in Callers, ExecuteTransition(c) PROVE TypeOK'
    <3>1. request[c].transition \in Transitions
      BY <2>2 DEF ExecuteTransition, TypeOK, Requests, Idle
    <3> QED
      BY <2>2, <3>1 DEF ExecuteTransition, Become, TypeOK, Requests
  <2>3. ASSUME NEW c \in Callers, NEW t \in Transitions, AdminAdvance(c, t)
        PROVE TypeOK'
    BY <2>3 DEF AdminAdvance, Become, TypeOK, Requests
  <2>4. ASSUME NEW c \in Callers, NEW s \in States,
               AdminForce(c, s) \/ AdminSet(c, s)
        PROVE TypeOK'
    BY <2>4 DEF AdminForce, AdminSet, Become, TypeOK, Requests
  <2>5. ASSUME NEW c \in Callers, NEW s \in States, AdminRollbackTo(c, s)
        PROVE TypeOK'
    <3>1. project.state \in States /\ project.status \in Statuses
      BY DEF TypeOK
    <3> QED
      BY <2>5, <3>1 DEF AdminRollbackTo, Become, TypeOK, Requests
  <2>6. ASSUME NEW c \in Callers, AdminRollback(c) PROVE TypeOK'
    BY <2>6 DEF AdminRollback, Become, TypeOK, Requests
  <2>7. ASSUME NEW c \in Callers, AdminRecall(c) PROVE TypeOK'
    <3>1. request[c].at \in States /\ request[c].status \in Statuses
      BY <2>7 DEF AdminRecall, TypeOK, Requests, Idle
    <3>2. PICK i \in RecentArrivals(request[c].at) :
             Become(c, [step |-> "commit",
                        body |-> RollbackBody(request[c].at,
                                              request[c].status,
                                              history[i].from)])
      BY <2>7 DEF AdminRecall
    <3>3. history[i].from \in States
      <4>1. i \in 1 .. Len(history) /\ history \in Seq(Moves)
        BY DEF RecentArrivals, TypeOK
      <4>2. history[i] \in Moves
        BY <4>1
      <4> QED
        BY <4>2 DEF Moves
    <3> QED
      BY <2>7, <3>1, <3>2, <3>3 DEF AdminRecall, Become, TypeOK, Requests
  <2>8. ASSUME NEW c \in Callers, CommitTransition(c) PROVE TypeOK'
    <3> DEFINE body == request[c].body
    <3>1. body \in Commits
      BY <2>8, CommitHasBody DEF CommitTransition
    <3>2. project' \in [row : {"none", "present", "deleted"},
                        state : States, status : Statuses]
      BY <2>8, <3>1 DEF CommitTransition, TypeOK, Commits
    <3>3. deadline' \in Deadlines
      BY <2>8, <3>1, RearmType DEF CommitTransition, TypeOK, Commits
    <3>4. history' \in Seq(Moves)
      BY <2>8, <3>1 DEF CommitTransition, Record, TypeOK, Commits, Moves
    <3>5. outbox' \in Seq(Rows)
      <4> DEFINE rows == [i \in DOMAIN body.posts |->
                            PostRow(body.posts[i], body.to, Len(history) + 1)]
      <4>1. body.posts \in Seq({"ON_EXIT", "ON_ENTER"}) /\ body.to \in States
        BY <3>1 DEF Commits
      <4>2. Len(history) + 1 \in Nat
        BY DEF TypeOK
      <4>3. \A i \in 1 .. Len(body.posts) : rows[i] \in Rows
        BY <4>1, <4>2 DEF PostRow, Rows, PostRows
      <4>4. rows \in Seq(Rows)
        <5>1. DOMAIN body.posts = 1 .. Len(body.posts)
          BY <4>1
        <5>2. rows = [i \in 1 .. Len(body.posts) |-> rows[i]]
          BY <5>1
        <5>3. rows \in [1 .. Len(body.posts) -> Rows]
          BY <5>2, <4>3
        <5>4. Len(body.posts) \in Nat
          BY <4>1
        <5> QED
          BY <5>3, <5>4, SeqDef
      <4> QED
        BY <2>8, <4>4 DEF CommitTransition, TypeOK
    <3>6. request' \in [Callers -> Requests] /\ ticking' \subseteq Schedulers
      BY <2>8 DEF CommitTransition, Become, TypeOK, Requests
    <3> QED
      BY <3>2, <3>3, <3>4, <3>5, <3>6 DEF TypeOK
  <2>9. ASSUME NEW c \in Callers, Abandon(c) PROVE TypeOK'
    BY <2>9 DEF Abandon, Become, TypeOK, Requests
  <2>10. CASE CreateProject
    <3>1. deadline' \in Deadlines
      BY <2>10, RearmType DEF CreateProject, TypeOK
    <3>2. outbox' \in Seq(Rows)
      BY <2>10 DEF CreateProject, TypeOK, Rows
    <3> QED
      BY <2>10, <3>1, <3>2 DEF CreateProject, TypeOK
  <2>11. ASSUME NEW t \in Transitions, AdvanceProjectByWorkflowEvent(t)
         PROVE TypeOK'
    <3>1. t.from \in States /\ t.to \in States
      OBVIOUS
    <3>2. history' \in Seq(Moves)
      BY <2>11, <3>1
         DEF AdvanceProjectByWorkflowEvent, Record, TypeOK, Moves, Vias
    <3> QED
      BY <2>11, <3>1, <3>2
         DEF AdvanceProjectByWorkflowEvent, TypeOK, Statuses
  <2>12. CASE ArchiveProject
    BY <2>12 DEF ArchiveProject, TypeOK, Statuses, Inactive
  <2>13. CASE DeleteProject
    BY <2>13 DEF DeleteProject, TypeOK
  <2>14. CASE DeadlinePasses
    BY <2>14 DEF DeadlinePasses, TypeOK, Deadlines
  <2>15. ASSUME NEW d \in Schedulers, SchedulerLists(d) \/ SchedulerSkips(d)
         PROVE TypeOK'
    BY <2>15 DEF SchedulerLists, SchedulerSkips, TypeOK
  <2>16. ASSUME NEW d \in Schedulers, SchedulerFires(d) PROVE TypeOK'
    <3>1. deadline' \in Deadlines /\ deadline.arm \in Nat
      BY <2>16 DEF SchedulerFires, MarkProcessed, TypeOK, Deadlines
    <3>2. outbox' \in Seq(Rows)
      BY <2>16, <3>1 DEF SchedulerFires, TypeOK, Rows, AlarmRows
    <3> QED
      BY <2>16, <3>1, <3>2 DEF SchedulerFires, TypeOK
  <2>17. CASE UNCHANGED vars
    BY <2>17 DEF vars, TypeOK
  <2> QED
    BY <2>1, <2>2, <2>3, <2>4, <2>5, <2>6, <2>7, <2>8, <2>9, <2>10, <2>11,
       <2>12, <2>13, <2>14, <2>15, <2>16, <2>17
       DEF Next, Student, Admin, Direct, Scheduler
<1> QED
  BY <1>1, <1>2, PTL DEF Spec

-----------------------------------------------------------------------------
(***************************************************************************)
(* The history is a path, and follows the workflow.                        *)
(*                                                                         *)
(* Neither property is inductive.  A commit extends the path only because  *)
(* the row has no history before it is created and none after it is        *)
(* deleted; and it follows the workflow only because the body that waits   *)
(* to be committed already did when it was decided.                        *)
(***************************************************************************)
HistoryOnlyOfPresent ==
    /\ ~Present => history = << >>
    /\ project.row = "none" => project.state = InitialState

PendingFollowsTheWorkflow ==
    \A c \in Callers :
      /\ request[c].step = "commit"
      /\ request[c].body.via \in {"execute", "advance", "event"}
      => [from |-> request[c].body.expect, to |-> request[c].body.to]
           \in Transitions

PathInv == HistoryOnlyOfPresent /\ HistoryIsAPath

WorkflowInv == PendingFollowsTheWorkflow /\ MovesFollowTheWorkflow

\* Only a handful of steps touch the row or its history.
LEMMA Movers ==
    ASSUME [Next]_vars
    PROVE  \/ UNCHANGED <<project, history>>
           \/ CreateProject
           \/ \E c \in Callers : CommitTransition(c)
           \/ \E t \in Transitions : AdvanceProjectByWorkflowEvent(t)
           \/ ArchiveProject
           \/ DeleteProject
BY DEF Next, vars, Student, Admin, Direct, Scheduler, PerformAction,
       ExecuteTransition, AdminAdvance, AdminForce, AdminSet,
       AdminRollbackTo, AdminRollback, AdminRecall, Abandon, DeadlinePasses,
       SchedulerLists, SchedulerFires, SchedulerSkips

\* Appending a move that starts at the end of a path leaves a path.
LEMMA PathGrows ==
    ASSUME TypeOK, PathInv, Present, Present',
           NEW to \in States, NEW via \in Vias,
           project'.state = to, Record(project.state, to, via)
    PROVE  PathInv'
<1> DEFINE n == Len(history)
           move == [from |-> project.state, to |-> to, via |-> via]
<1>1. project.state \in States /\ history \in Seq(Moves)
  BY DEF TypeOK
<1>2. move \in Moves
  BY <1>1 DEF Moves
<1>3. history' = Append(history, move)
  BY DEF Record
<1>4. /\ Len(history') = n + 1 /\ n \in Nat
      /\ \A i \in 1 .. n : history'[i] = history[i]
      /\ history'[n + 1] = move
  BY <1>1, <1>2, <1>3
<1> HIDE DEF move
<1>5. move.from = project.state /\ move.to = to
  BY DEF move
<1>6. history' # << >>
  BY <1>4
<1>7. history'[1].from = InitialState
  <2>1. CASE history = << >>
    BY <2>1, <1>4, <1>5 DEF PathInv, HistoryIsAPath
  <2>2. CASE history # << >>
    <3>1. n >= 1
      BY <2>2, <1>1, EmptySeq
    <3> QED
      BY <2>2, <3>1, <1>4 DEF PathInv, HistoryIsAPath
  <2> QED
    BY <2>1, <2>2
<1>8. history'[Len(history')].to = project'.state
  BY <1>4, <1>5
<1>9. ASSUME NEW i \in 1 .. Len(history') - 1
      PROVE  history'[i].to = history'[i + 1].from
  <2>1. CASE i < n
    <3>1. i \in 1 .. n - 1 /\ i + 1 \in 1 .. n /\ i \in 1 .. n
      BY <2>1, <1>4
    <3> QED
      BY <3>1, <1>4 DEF PathInv, HistoryIsAPath
  <2>2. CASE i = n
    <3>1. n >= 1
      BY <2>2, <1>4
    <3>2. history # << >>
      BY <3>1
    <3> QED
      BY <2>2, <3>1, <3>2, <1>4, <1>5 DEF PathInv, HistoryIsAPath
  <2> QED
    BY <2>1, <2>2, <1>4
<1> QED
  BY <1>6, <1>7, <1>8, <1>9
     DEF PathInv, HistoryOnlyOfPresent, HistoryIsAPath, Present

\* The row and its history always fit each other.
LEMMA PathOfHistory == Spec => []PathInv
<1>1. Init => PathInv
  BY DEF Init, PathInv, HistoryOnlyOfPresent, HistoryIsAPath, Present
<1>2. TypeOK /\ PathInv /\ [Next]_vars => PathInv'
  <2> SUFFICES ASSUME TypeOK, PathInv, [Next]_vars PROVE PathInv'
    OBVIOUS
  <2>1. CASE UNCHANGED <<project, history>>
    BY <2>1 DEF PathInv, HistoryOnlyOfPresent, HistoryIsAPath, Present
  <2>2. CASE CreateProject
    <3>1. /\ project'.state = project.state /\ project'.row = "present"
          /\ history' = history
      BY <2>2 DEF CreateProject, TypeOK
    <3>2. history = << >> /\ project.state = InitialState
      BY <2>2 DEF CreateProject, PathInv, HistoryOnlyOfPresent, Present
    <3> QED
      BY <3>1, <3>2
         DEF PathInv, HistoryOnlyOfPresent, HistoryIsAPath, Present
  <2>3. ASSUME NEW c \in Callers, CommitTransition(c) PROVE PathInv'
    <3> DEFINE body == request[c].body
    <3>1. body.to \in States /\ body.via \in Vias
      BY <2>3, CommitHasBody DEF CommitTransition, Commits
    <3>2. Present /\ Present' /\ project'.state = body.to
      BY <2>3 DEF CommitTransition, Present, TypeOK
    <3>3. Record(project.state, body.to, body.via)
      BY <2>3 DEF CommitTransition, AsExpected
    <3> QED
      BY <3>1, <3>2, <3>3, PathGrows
  <2>4. ASSUME NEW t \in Transitions, AdvanceProjectByWorkflowEvent(t)
        PROVE PathInv'
    <3>1. t.to \in States /\ "event" \in Vias
      BY WorkflowAssumption DEF Vias
    <3>2. Present /\ Present' /\ project'.state = t.to
      BY <2>4 DEF AdvanceProjectByWorkflowEvent, Present, TypeOK
    <3>3. Record(project.state, t.to, "event")
      BY <2>4 DEF AdvanceProjectByWorkflowEvent
    <3> QED
      BY <3>1, <3>2, <3>3, PathGrows
  <2>5. CASE ArchiveProject
    BY <2>5 DEF ArchiveProject, PathInv, HistoryOnlyOfPresent,
                HistoryIsAPath, Present, TypeOK
  <2>6. CASE DeleteProject
    BY <2>6 DEF DeleteProject, PathInv, HistoryOnlyOfPresent,
                HistoryIsAPath, Present, TypeOK
  <2> QED
    BY <2>1, <2>2, <2>3, <2>4, <2>5, <2>6, Movers
<1> QED
  BY <1>1, <1>2, TypeCorrect, PTL DEF Spec

(***************************************************************************)
(* The state histories form one unbroken path to the current state.        *)
(***************************************************************************)
THEOREM HistoryPath == Spec => []HistoryIsAPath
<1>1. PathInv => HistoryIsAPath
  BY DEF PathInv
<1> QED
  BY <1>1, PathOfHistory, PTL
-----------------------------------------------------------------------------
\* Where a body that waits to be committed comes from.
Decided(body) ==
    \/ \E t \in Transitions :
         t.from = project.state /\ body \in {ExecuteBody(t), AdvanceBody(t)}
    \/ \E s \in States : body = SetBody(s)
    \/ \E at, s \in States, status \in Statuses :
         body = RollbackBody(at, status, s)

LEMMA Deciders ==
    ASSUME TypeOK, [Next]_vars, NEW e \in Callers,
           request'[e] # request[e], request'[e].step = "commit"
    PROVE  Decided(request'[e].body)
<1> USE WorkflowAssumption
<1>1. ASSUME NEW c \in Callers, NEW r, Become(c, r)
      PROVE  e = c /\ request'[e] = r
  BY <1>1 DEF Become, TypeOK
<1>2. ASSUME NEW c \in Callers, NEW t \in Transitions, PerformAction(c, t)
      PROVE  FALSE
  <2>1. request'[e] = [step |-> "chosen", transition |-> t]
    BY <1>1, <1>2 DEF PerformAction
  <2> QED
    BY <2>1
<1>3. ASSUME NEW c \in Callers, ExecuteTransition(c)
      PROVE  Decided(request'[e].body)
  <2>1. request[c].transition \in Transitions
    BY <1>3 DEF ExecuteTransition, TypeOK, Requests, Idle
  <2>2. request'[e] = [step |-> "commit",
                       body |-> ExecuteBody(request[c].transition)]
    BY <1>1, <1>3 DEF ExecuteTransition
  <2> QED
    BY <1>3, <2>1, <2>2 DEF ExecuteTransition, Leaves, Decided
<1>4. ASSUME NEW c \in Callers, NEW t \in Transitions, AdminAdvance(c, t)
      PROVE  Decided(request'[e].body)
  <2>1. request'[e] = [step |-> "commit", body |-> AdvanceBody(t)]
    BY <1>1, <1>4 DEF AdminAdvance
  <2> QED
    BY <1>4, <2>1 DEF AdminAdvance, Decided
<1>5. ASSUME NEW c \in Callers, NEW s \in States,
             AdminForce(c, s) \/ AdminSet(c, s)
      PROVE  Decided(request'[e].body)
  <2>1. request'[e] = [step |-> "commit", body |-> SetBody(s)]
    BY <1>1, <1>5 DEF AdminForce, AdminSet
  <2> QED
    BY <2>1 DEF Decided
<1>6. ASSUME NEW c \in Callers, NEW s \in States, AdminRollbackTo(c, s)
      PROVE  Decided(request'[e].body)
  <2>1. request'[e] =
          [step |-> "commit",
           body |-> RollbackBody(project.state, project.status, s)]
    BY <1>1, <1>6 DEF AdminRollbackTo
  <2>2. project.state \in States /\ project.status \in Statuses
    BY DEF TypeOK
  <2> QED
    BY <2>1, <2>2 DEF Decided
<1>7. ASSUME NEW c \in Callers, AdminRollback(c) PROVE FALSE
  <2>1. request'[e] = [step |-> "recall", at |-> project.state,
                       status |-> project.status]
    BY <1>1, <1>7 DEF AdminRollback
  <2> QED
    BY <2>1
<1>8. ASSUME NEW c \in Callers, AdminRecall(c)
      PROVE  Decided(request'[e].body)
  <2>1. request[c].at \in States /\ request[c].status \in Statuses
    BY <1>8 DEF AdminRecall, TypeOK, Requests, Idle
  <2>2. PICK i \in RecentArrivals(request[c].at) :
           Become(c, [step |-> "commit",
                      body |-> RollbackBody(request[c].at, request[c].status,
                                            history[i].from)])
    BY <1>8 DEF AdminRecall
  <2>3. history[i] \in Moves
    <3>1. i \in 1 .. Len(history) /\ history \in Seq(Moves)
      BY DEF RecentArrivals, TypeOK
    <3> QED
      BY <3>1
  <2>4. request'[e] = [step |-> "commit",
                       body |-> RollbackBody(request[c].at, request[c].status,
                                             history[i].from)]
    BY <1>1, <2>2
  <2> QED
    BY <2>1, <2>3, <2>4 DEF Decided, Moves
<1>9. ASSUME NEW c \in Callers, CommitTransition(c) \/ Abandon(c)
      PROVE FALSE
  <2>1. request'[e] = Idle
    BY <1>1, <1>9 DEF CommitTransition, Abandon
  <2> QED
    BY <2>1 DEF Idle
<1>10. ~UNCHANGED request
  OBVIOUS
<1> QED
  BY <1>2, <1>3, <1>4, <1>5, <1>6, <1>7, <1>8, <1>9, <1>10
     DEF Next, vars, Student, Admin, Direct, Scheduler, CreateProject,
         AdvanceProjectByWorkflowEvent, ArchiveProject, DeleteProject,
         DeadlinePasses, SchedulerLists, SchedulerFires, SchedulerSkips

LEMMA PendingStep ==
    ASSUME TypeOK, PendingFollowsTheWorkflow, [Next]_vars
    PROVE  PendingFollowsTheWorkflow'
<1> SUFFICES ASSUME NEW e \in Callers, request'[e].step = "commit",
                    request'[e].body.via \in {"execute", "advance", "event"}
             PROVE  [from |-> request'[e].body.expect,
                     to |-> request'[e].body.to] \in Transitions
  BY DEF PendingFollowsTheWorkflow
<1>1. CASE request'[e] = request[e]
  BY <1>1 DEF PendingFollowsTheWorkflow
<1>2. CASE request'[e] # request[e]
  <2>1. Decided(request'[e].body)
    BY <1>2, Deciders
  <2>2. PICK t \in Transitions :
          /\ t.from = project.state
          /\ request'[e].body \in {ExecuteBody(t), AdvanceBody(t)}
    <3>1. ASSUME NEW s \in States, request'[e].body = SetBody(s)
          PROVE  FALSE
      <4>1. request'[e].body.via = "set"
        BY <3>1 DEF SetBody
      <4> QED
        BY <4>1
    <3>2. ASSUME NEW at \in States, NEW status \in Statuses, NEW s \in States,
                 request'[e].body = RollbackBody(at, status, s)
          PROVE  FALSE
      <4>1. request'[e].body.via = "rollback"
        BY <3>2 DEF RollbackBody
      <4> QED
        BY <4>1
    <3> QED
      BY <2>1, <3>1, <3>2 DEF Decided
  <2>3. t = [from |-> t.from, to |-> t.to]
    BY WorkflowAssumption
  <2>4. request'[e].body.expect = t.from /\ request'[e].body.to = t.to
    BY <2>2 DEF ExecuteBody, AdvanceBody
  <2> QED
    BY <2>3, <2>4
<1> QED
  BY <1>1, <1>2

\* A move appended to the history follows the workflow if it has to.
LEMMA FollowGrows ==
    ASSUME TypeOK, MovesFollowTheWorkflow, NEW from \in States,
           NEW to \in States, NEW via \in Vias, Record(from, to, via),
           via \in {"execute", "advance", "event"} =>
             [from |-> from, to |-> to] \in Transitions
    PROVE  MovesFollowTheWorkflow'
<1> DEFINE move == [from |-> from, to |-> to, via |-> via]
<1>1. move \in Moves /\ history \in Seq(Moves)
  BY DEF Moves, TypeOK
<1>2. history' = Append(history, move)
  BY DEF Record
<1>3. /\ DOMAIN history' = 1 .. Len(history) + 1
      /\ DOMAIN history = 1 .. Len(history) /\ Len(history) \in Nat
      /\ \A i \in 1 .. Len(history) : history'[i] = history[i]
      /\ history'[Len(history) + 1] = move
  BY <1>1, <1>2
<1> QED
  BY <1>3 DEF MovesFollowTheWorkflow

(***************************************************************************)
(* Students, reviewers and ordinary advances only take transitions of the  *)
(* workflow.                                                               *)
(***************************************************************************)
THEOREM FollowWorkflow == Spec => []MovesFollowTheWorkflow
<1> USE WorkflowAssumption
<1>1. Init => WorkflowInv
  BY DEF Init, WorkflowInv, PendingFollowsTheWorkflow,
         MovesFollowTheWorkflow, Idle
<1>2. TypeOK /\ WorkflowInv /\ [Next]_vars => WorkflowInv'
  <2> SUFFICES ASSUME TypeOK, WorkflowInv, [Next]_vars
               PROVE  MovesFollowTheWorkflow'
    BY PendingStep DEF WorkflowInv
  <2>1. CASE UNCHANGED history
    BY <2>1 DEF WorkflowInv, MovesFollowTheWorkflow
  <2>2. ASSUME NEW c \in Callers, CommitTransition(c)
        PROVE  MovesFollowTheWorkflow'
    <3> DEFINE body == request[c].body
    <3>1. /\ body.expect \in States /\ body.to \in States
          /\ body.via \in Vias
      BY <2>2, CommitHasBody DEF CommitTransition, Commits
    <3>2. body.via \in {"execute", "advance", "event"} =>
            [from |-> body.expect, to |-> body.to] \in Transitions
      BY <2>2 DEF CommitTransition, WorkflowInv, PendingFollowsTheWorkflow
    <3>3. Record(body.expect, body.to, body.via)
      BY <2>2 DEF CommitTransition
    <3> QED
      BY <3>1, <3>2, <3>3, FollowGrows DEF WorkflowInv
  <2>3. ASSUME NEW t \in Transitions, AdvanceProjectByWorkflowEvent(t)
        PROVE  MovesFollowTheWorkflow'
    <3>1. /\ t = [from |-> t.from, to |-> t.to]
          /\ t.from \in States /\ t.to \in States /\ "event" \in Vias
      BY DEF Vias
    <3>2. Record(t.from, t.to, "event")
      BY <2>3 DEF AdvanceProjectByWorkflowEvent
    <3> QED
      BY <3>1, <3>2, FollowGrows DEF WorkflowInv
  <2>4. CASE DeleteProject
    BY <2>4 DEF DeleteProject, MovesFollowTheWorkflow
  <2> QED
    BY <2>1, <2>2, <2>3, <2>4, Movers DEF CreateProject, ArchiveProject
<1>3. WorkflowInv => MovesFollowTheWorkflow
  BY DEF WorkflowInv
<1> QED
  BY <1>1, <1>2, <1>3, TypeCorrect, PTL DEF Spec
-----------------------------------------------------------------------------
(***************************************************************************)
(* The status column agrees with the state.                                *)
(*                                                                         *)
(* A status is computed from a snapshot and written with the state it was  *)
(* computed for, so it is enough that each body in flight agrees with      *)
(* itself.                                                                 *)
(***************************************************************************)
Agree(status, state) ==
    /\ status \in States => status = state
    /\ status = "completed" => state \in FinalStates

PendingAgrees ==
    \A c \in Callers : request[c].step = "commit" =>
      Agree(request[c].body.status, request[c].body.to)

\* What a state's name, or a word that is no state's name, agrees with.
LEMMA NamesAgree ==
    ASSUME NEW s \in States
    PROVE  /\ Agree(s, s)
           /\ \A status \in {"active", "archived", "cancelled"} : Agree(status, s)
           /\ s \in FinalStates => Agree("completed", s)
BY NamesAssumption DEF Agree

LEMMA BodiesAgree ==
    ASSUME TypeOK
    PROVE  /\ \A t \in Transitions : Agree(ExecuteBody(t).status, t.to)
           /\ \A t \in Transitions : Agree(AdvanceBody(t).status, t.to)
           /\ \A s \in States : Agree(SetBody(s).status, s)
           /\ \A at, s \in States, status \in Statuses :
                Agree(RollbackBody(at, status, s).status, s)
<1>1. \A t \in Transitions : t.to \in States
  BY WorkflowAssumption
<1> QED
  BY <1>1, NamesAgree
  DEF ExecuteBody, AdvanceBody, SetBody, RollbackBody

LEMMA DecidedAgrees ==
    ASSUME TypeOK, NEW body, Decided(body)
    PROVE  Agree(body.status, body.to)
<1>1. /\ \A t \in Transitions : ExecuteBody(t).to = t.to /\ AdvanceBody(t).to = t.to
      /\ \A s \in States : SetBody(s).to = s
      /\ \A at, s \in States, status \in Statuses :
           RollbackBody(at, status, s).to = s
  BY DEF ExecuteBody, AdvanceBody, SetBody, RollbackBody
<1> QED
  BY <1>1, BodiesAgree DEF Decided

LEMMA PendingAgreesStep ==
    ASSUME TypeOK, PendingAgrees, [Next]_vars
    PROVE  PendingAgrees'
<1> SUFFICES ASSUME NEW c \in Callers, request'[c].step = "commit"
             PROVE  Agree(request'[c].body.status, request'[c].body.to)
  BY DEF PendingAgrees, Agree
<1>1. CASE request'[c] = request[c]
  BY <1>1 DEF PendingAgrees
<1>2. CASE request'[c] # request[c]
  BY <1>2, Deciders, DecidedAgrees
<1> QED
  BY <1>1, <1>2

(***************************************************************************)
(* A status that is a state's name is the current state's, and only a      *)
(* project in a final state is completed.                                  *)
(***************************************************************************)
THEOREM StatusAndState == Spec => []StatusAgrees
<1> USE WorkflowAssumption
<1>1. Init => StatusAgrees /\ PendingAgrees
  BY NamesAssumption DEF Init, StatusAgrees, PendingAgrees, Idle
<1>2. TypeOK /\ StatusAgrees /\ PendingAgrees /\ [Next]_vars => StatusAgrees'
  <2> SUFFICES ASSUME TypeOK, StatusAgrees, PendingAgrees, [Next]_vars
               PROVE  StatusAgrees'
    OBVIOUS
  <2>1. CASE UNCHANGED <<project, history>>
    BY <2>1 DEF StatusAgrees
  <2>2. CASE CreateProject
    BY <2>2 DEF CreateProject, StatusAgrees, TypeOK
  <2>3. ASSUME NEW c \in Callers, CommitTransition(c) PROVE StatusAgrees'
    BY <2>3 DEF CommitTransition, PendingAgrees, Agree, StatusAgrees, TypeOK
  <2>4. ASSUME NEW t \in Transitions, AdvanceProjectByWorkflowEvent(t)
        PROVE  StatusAgrees'
    <3>1. t.to \in States /\ t.to # "completed"
      BY NamesAssumption
    <3> QED
      BY <2>4, <3>1 DEF AdvanceProjectByWorkflowEvent, StatusAgrees, TypeOK
  <2>5. CASE ArchiveProject
    BY <2>5, NamesAssumption DEF ArchiveProject, StatusAgrees, TypeOK
  <2>6. CASE DeleteProject
    BY <2>6 DEF DeleteProject, StatusAgrees, TypeOK
  <2> QED
    BY <2>1, <2>2, <2>3, <2>4, <2>5, <2>6, Movers
<1> QED
  BY <1>1, <1>2, PendingAgreesStep, TypeCorrect, PTL DEF Spec
-----------------------------------------------------------------------------
(***************************************************************************)
(* One alarm per deadline: what has been raised is not later than the      *)
(* deadline there is, and if it is this one's the row says processed.      *)
(***************************************************************************)
IsAlarm(row) == row.type = "alarm"

AlarmsInv ==
    \A k \in DOMAIN outbox : IsAlarm(outbox[k]) =>
      /\ outbox[k].arm <= deadline.arm
      /\ outbox[k].arm = deadline.arm => deadline.processed

\* Where the rows of a longer outbox come from.
LEMMA Appended ==
    ASSUME NEW old \in Seq(Rows), NEW rows \in Seq(Rows)
    PROVE  LET new == old \o rows IN
           \A k \in DOMAIN new :
             \/ k \in DOMAIN old /\ new[k] = old[k]
             \/ /\ k \notin DOMAIN old
                /\ \E i \in DOMAIN rows : new[k] = rows[i]
OBVIOUS

LEMMA AppendedOne ==
    ASSUME NEW old \in Seq(Rows), NEW row \in Rows
    PROVE  /\ DOMAIN Append(old, row) = DOMAIN old \cup {Len(old) + 1}
           /\ Len(old) + 1 \notin DOMAIN old
           /\ \A k \in DOMAIN old : Append(old, row)[k] = old[k]
           /\ Append(old, row)[Len(old) + 1] = row
OBVIOUS

\* The rows that one step adds to the outbox.
PostsOf(body) == [i \in DOMAIN body.posts |->
                    PostRow(body.posts[i], body.to, Len(history) + 1)]

LEMMA PostsAreRows ==
    ASSUME TypeOK, NEW body \in Commits
    PROVE  /\ PostsOf(body) \in Seq(Rows)
           /\ DOMAIN PostsOf(body) = DOMAIN body.posts
           /\ \A i \in DOMAIN PostsOf(body) : PostsOf(body)[i].type = "post"
<1>1. body.posts \in Seq({"ON_EXIT", "ON_ENTER"}) /\ body.to \in States
  BY DEF Commits
<1>2. Len(history) + 1 \in Nat
  BY DEF TypeOK
<1>3. \A i \in 1 .. Len(body.posts) : /\ PostsOf(body)[i] \in Rows
                                      /\ PostsOf(body)[i].type = "post"
  BY <1>1, <1>2 DEF PostsOf, PostRow, Rows, PostRows
<1>4. DOMAIN body.posts = 1 .. Len(body.posts) /\ Len(body.posts) \in Nat
  BY <1>1
<1>5. PostsOf(body) = [i \in 1 .. Len(body.posts) |-> PostsOf(body)[i]]
  BY <1>4 DEF PostsOf
<1>6. PostsOf(body) \in [1 .. Len(body.posts) -> Rows]
  BY <1>3, <1>5
<1> QED
  BY <1>3, <1>4, <1>5, <1>6, SeqDef

\* The steps that concern outbox or deadline.
LEMMA Writers ==
    ASSUME [Next]_vars
    PROVE  \/ UNCHANGED <<deadline, outbox>>
           \/ CreateProject
           \/ \E c \in Callers : CommitTransition(c)
           \/ DeadlinePasses
           \/ \E d \in Schedulers : SchedulerFires(d)
BY DEF Next, vars, Student, Admin, Direct, Scheduler, PerformAction,
       ExecuteTransition, AdminAdvance, AdminForce, AdminSet,
       AdminRollbackTo, AdminRollback, AdminRecall, Abandon,
       AdvanceProjectByWorkflowEvent, ArchiveProject, DeleteProject,
       SchedulerLists, SchedulerSkips

\* A deadline stays, or a later one takes its place.
LEMMA DeadlineGrows ==
    ASSUME TypeOK, CreateProject \/ \E c \in Callers : CommitTransition(c)
    PROVE  deadline' = deadline \/ deadline'.arm = deadline.arm + 1
<1>1. \A s \in States, past \in BOOLEAN :
        Rearm(s, past).arm = deadline.arm + 1
  BY DEF Rearm
<1>2. CASE CreateProject
  BY <1>1, <1>2, WorkflowAssumption DEF CreateProject
<1>3. ASSUME NEW c \in Callers, CommitTransition(c)
      PROVE  deadline' = deadline \/ deadline'.arm = deadline.arm + 1
  <2>1. request[c].body.to \in States
    BY <1>3, CommitHasBody DEF CommitTransition, Commits
  <2>2. \/ deadline' = deadline
        \/ \E past \in BOOLEAN : deadline' = Rearm(request[c].body.to, past)
    BY <1>3, Zenon DEF CommitTransition
  <2> QED
    BY <1>1, <2>1, <2>2
<1> QED
  BY <1>2, <1>3

OneAlarm == OneAlarmPerDeadline /\ AlarmsInv

\* Rows that are no alarms, and a deadline that is this one or a later one.
LEMMA NoAlarmAdded ==
    ASSUME TypeOK, OneAlarm,
           \A k \in DOMAIN outbox' :
             \/ k \in DOMAIN outbox /\ outbox'[k] = outbox[k]
             \/ ~IsAlarm(outbox'[k]),
           \/ deadline'.arm = deadline.arm + 1
           \/ /\ deadline'.arm = deadline.arm
              /\ deadline.processed => deadline'.processed
    PROVE  OneAlarm'
<1>1. deadline.arm \in Nat
  BY DEF TypeOK, Deadlines
<1>2. \A k \in DOMAIN outbox : IsAlarm(outbox[k]) => outbox[k].arm \in Nat
  <2>1. \A k \in DOMAIN outbox : outbox[k] \in Rows
    BY DEF TypeOK
  <2> QED
    BY <2>1 DEF IsAlarm, Rows, PostRows, AlarmRows
<1>3. OneAlarmPerDeadline'
  BY DEF OneAlarm, OneAlarmPerDeadline, IsAlarm
<1>4. AlarmsInv'
  BY <1>1, <1>2 DEF OneAlarm, AlarmsInv, IsAlarm
<1> QED
  BY <1>3, <1>4 DEF OneAlarm

LEMMA AlarmStep ==
    ASSUME TypeOK, OneAlarm, [Next]_vars
    PROVE  OneAlarm'
<1>1. CASE UNCHANGED <<deadline, outbox>>
  BY <1>1 DEF OneAlarm, OneAlarmPerDeadline, AlarmsInv, IsAlarm
<1>2. CASE CreateProject
  <2> DEFINE row == [type |-> "created"]
  <2>1. row \in Rows /\ ~IsAlarm(row)
    BY DEF Rows, IsAlarm
  <2>2. outbox' = Append(outbox, row) /\ outbox \in Seq(Rows)
    BY <1>2 DEF CreateProject, TypeOK
  <2> HIDE DEF row
  <2>3. \A k \in DOMAIN outbox' :
          \/ k \in DOMAIN outbox /\ outbox'[k] = outbox[k]
          \/ ~IsAlarm(outbox'[k])
    BY <2>1, <2>2, AppendedOne
  <2>4. \/ deadline'.arm = deadline.arm + 1
        \/ /\ deadline'.arm = deadline.arm
           /\ deadline.processed => deadline'.processed
    BY <1>2, DeadlineGrows
  <2> QED
    BY <2>3, <2>4, NoAlarmAdded
<1>3. ASSUME NEW c \in Callers, CommitTransition(c) PROVE OneAlarm'
  <2> DEFINE body == request[c].body
             rows == PostsOf(body)
  <2>1. body \in Commits
    BY <1>3, CommitHasBody DEF CommitTransition
  <2>2. rows \in Seq(Rows) /\ \A i \in DOMAIN rows : ~IsAlarm(rows[i])
    BY <2>1, PostsAreRows DEF IsAlarm
  <2>3. outbox' = outbox \o rows /\ outbox \in Seq(Rows)
    BY <1>3 DEF CommitTransition, PostsOf, TypeOK
  <2> HIDE DEF rows
  <2>4. \A k \in DOMAIN outbox' :
          \/ k \in DOMAIN outbox /\ outbox'[k] = outbox[k]
          \/ \E i \in DOMAIN rows : outbox'[k] = rows[i]
    BY <2>2, <2>3, Appended
  <2>5. \A k \in DOMAIN outbox' :
          \/ k \in DOMAIN outbox /\ outbox'[k] = outbox[k]
          \/ ~IsAlarm(outbox'[k])
    BY <2>2, <2>4
  <2>6. \/ deadline'.arm = deadline.arm + 1
        \/ /\ deadline'.arm = deadline.arm
           /\ deadline.processed => deadline'.processed
    BY <1>3, DeadlineGrows
  <2> QED
    BY <2>5, <2>6, NoAlarmAdded
<1>4. CASE DeadlinePasses
  <2>1. /\ outbox' = outbox /\ deadline'.arm = deadline.arm
        /\ deadline.processed => deadline'.processed
    BY <1>4 DEF DeadlinePasses, TypeOK, Deadlines
  <2> QED
    BY <2>1, NoAlarmAdded
<1>5. ASSUME NEW d \in Schedulers, SchedulerFires(d) PROVE OneAlarm'
  <2> DEFINE row == [type |-> "alarm", state |-> project.state,
                     arm |-> deadline.arm]
             n == Len(outbox) + 1
  <2>1. row \in Rows /\ IsAlarm(row) /\ row.arm = deadline.arm
    BY DEF Rows, AlarmRows, IsAlarm, TypeOK, Deadlines
  <2>2. outbox' = Append(outbox, row) /\ outbox \in Seq(Rows)
    BY <1>5 DEF SchedulerFires, TypeOK
  <2>3. ~deadline.processed /\ deadline'.processed
        /\ deadline'.arm = deadline.arm
    BY <1>5 DEF SchedulerFires, StillExpired, Expired, MarkProcessed,
                TypeOK, Deadlines
  <2> HIDE DEF row
  <2>4. /\ DOMAIN outbox' = DOMAIN outbox \cup {n} /\ n \notin DOMAIN outbox
        /\ \A k \in DOMAIN outbox : outbox'[k] = outbox[k]
        /\ outbox'[n] = row
    BY <2>1, <2>2, AppendedOne
  <2> HIDE DEF n
  <2>5. \A k \in DOMAIN outbox : IsAlarm(outbox[k]) =>
          outbox[k].arm # deadline.arm
    BY <2>3 DEF OneAlarm, AlarmsInv
  <2>6. OneAlarmPerDeadline'
    BY <2>1, <2>4, <2>5 DEF OneAlarm, OneAlarmPerDeadline, IsAlarm
  <2>7. deadline.arm <= deadline.arm
    BY DEF TypeOK, Deadlines
  <2>8. AlarmsInv'
    BY <2>1, <2>3, <2>4, <2>7 DEF OneAlarm, AlarmsInv, IsAlarm
  <2> QED
    BY <2>6, <2>8 DEF OneAlarm
<1> QED
  BY <1>1, <1>2, <1>3, <1>4, <1>5, Writers

(***************************************************************************)
(* One deadline raises at most one WorkflowDeadlineReached event.          *)
(***************************************************************************)
THEOREM AlarmsAreSingle == Spec => []OneAlarmPerDeadline
<1>1. Init => OneAlarm
  BY DEF Init, OneAlarm, OneAlarmPerDeadline, AlarmsInv
<1>2. OneAlarm => OneAlarmPerDeadline
  BY DEF OneAlarm
<1> QED
  BY <1>1, <1>2, AlarmStep, TypeCorrect, PTL DEF Spec

(***************************************************************************)
(* An alarm is raised only for a deadline that is over, and never for a    *)
(* project that has become inactive or has a new deadline.                 *)
(***************************************************************************)
THEOREM AlarmsOnTime == Spec => AlarmsAreDue
<1> DEFINE Due == \A k \in DOMAIN outbox' \ DOMAIN outbox :
                    outbox'[k].type = "alarm" =>
                      /\ deadline.due /\ outbox'[k].arm = deadline.arm
                      /\ project.status \notin Inactive
<1>1. ASSUME TypeOK, [Next]_vars PROVE Due
  <2>1. outbox \in Seq(Rows)
    BY <1>1 DEF TypeOK
  <2>2. CASE UNCHANGED <<deadline, outbox>> \/ DeadlinePasses
    BY <2>2 DEF DeadlinePasses
  <2>3. CASE CreateProject
    <3> DEFINE row == [type |-> "created"]
    <3>1. row \in Rows /\ row.type # "alarm"
      BY DEF Rows
    <3>2. outbox' = Append(outbox, row)
      BY <2>3 DEF CreateProject
    <3> HIDE DEF row
    <3> QED
      BY <2>1, <3>1, <3>2, AppendedOne
  <2>4. ASSUME NEW c \in Callers, CommitTransition(c) PROVE Due
    <3> DEFINE rows == PostsOf(request[c].body)
    <3>1. request[c].body \in Commits
      BY <1>1, <2>4, CommitHasBody DEF CommitTransition
    <3>2. rows \in Seq(Rows) /\ \A i \in DOMAIN rows : rows[i].type # "alarm"
      BY <1>1, <3>1, PostsAreRows
    <3>3. outbox' = outbox \o rows
      BY <2>4 DEF CommitTransition, PostsOf
    <3> HIDE DEF rows
    <3> QED
      BY <2>1, <3>2, <3>3, Appended
  <2>5. ASSUME NEW d \in Schedulers, SchedulerFires(d) PROVE Due
    <3> DEFINE row == [type |-> "alarm", state |-> project.state,
                       arm |-> deadline.arm]
    <3>1. row \in Rows /\ row.arm = deadline.arm
      BY <1>1 DEF Rows, AlarmRows, TypeOK, Deadlines
    <3>2. outbox' = Append(outbox, row)
      BY <2>5 DEF SchedulerFires
    <3>3. deadline.due /\ project.status \notin Inactive
      BY <2>5 DEF SchedulerFires, StillExpired, Expired
    <3> HIDE DEF row
    <3> QED
      BY <2>1, <3>1, <3>2, <3>3, AppendedOne
  <2> QED
    BY <1>1, <2>2, <2>3, <2>4, <2>5, Writers
<1>2. TypeOK /\ [Next]_vars => [Due]_vars
  BY <1>1
<1> QED
  BY <1>2, TypeCorrect, PTL DEF Spec, AlarmsAreDue
-----------------------------------------------------------------------------
(***************************************************************************)
(* The outbox and the recorded moves.  A body that waits to be committed   *)
(* carries the groups of its own move, and no row names a move that has    *)
(* not been recorded, so the rows of a new move are all of them.           *)
(***************************************************************************)
Triggers == {"ON_EXIT", "ON_ENTER"}

IsPost(row) == row.type = "post"

PostsOfMove(body) ==
    IF body.via = "execute" THEN Groups(body.expect, body.to) ELSE << >>

PendingPosts ==
    \A c \in Callers : request[c].step = "commit" =>
      request[c].body.posts = PostsOfMove(request[c].body)

NoFuturePosts ==
    /\ project.row = "none" =>
         \A k \in DOMAIN outbox : ~IsPost(outbox[k])
    /\ Present =>
         \A k \in DOMAIN outbox : IsPost(outbox[k]) =>
           outbox[k].move <= Len(history)

MatchInv == OutboxMatchesHistory /\ NoFuturePosts

LEMMA PendingPostsStep ==
    ASSUME TypeOK, PendingPosts, [Next]_vars
    PROVE  PendingPosts'
<1> SUFFICES ASSUME NEW c \in Callers, request'[c].step = "commit"
             PROVE  request'[c].body.posts = PostsOfMove(request'[c].body)
  BY DEF PendingPosts, PostsOfMove, Groups
<1>1. CASE request'[c] = request[c]
  BY <1>1 DEF PendingPosts
<1>2. CASE request'[c] # request[c]
  <2>1. Decided(request'[c].body)
    BY <1>2, Deciders
  <2>2. /\ \A t \in Transitions : t.from = project.state =>
             ExecuteBody(t).posts = PostsOfMove(ExecuteBody(t))
        /\ \A t \in Transitions :
             AdvanceBody(t).posts = PostsOfMove(AdvanceBody(t))
        /\ \A s \in States : SetBody(s).posts = PostsOfMove(SetBody(s))
        /\ \A at, s \in States, status \in Statuses :
             RollbackBody(at, status, s).posts =
               PostsOfMove(RollbackBody(at, status, s))
    BY DEF ExecuteBody, AdvanceBody, SetBody, RollbackBody, PostsOfMove
  <2> QED
    BY <2>1, <2>2 DEF Decided
<1> QED
  BY <1>1, <1>2

\* Each group of a move is there once.
LEMMA GroupsOnce ==
    ASSUME NEW from \in States, NEW to \in States
    PROVE  /\ \A g \in Triggers :
                (\E i \in DOMAIN Groups(from, to) : Groups(from, to)[i] = g)
                  <=> /\ g = "ON_EXIT"  => from \in ExitPost
                      /\ g = "ON_ENTER" => to \in EnterPost
           /\ \A i, j \in DOMAIN Groups(from, to) :
                Groups(from, to)[i] = Groups(from, to)[j] => i = j
<1>1. CASE from \in ExitPost /\ to \in EnterPost
  <2> DEFINE p == <<"ON_EXIT">>
             q == <<"ON_ENTER">>
  <2>1. /\ p \in Seq(Triggers) /\ Len(p) = 1 /\ p[1] = "ON_EXIT"
        /\ q \in Seq(Triggers) /\ Len(q) = 1 /\ q[1] = "ON_ENTER"
    BY DEF Triggers
  <2>2. Groups(from, to) = p \o q
    BY <1>1, Zenon DEF Groups
  <2> HIDE DEF p, q
  <2>3. /\ DOMAIN (p \o q) = 1 .. 2
        /\ (p \o q)[1] = "ON_EXIT" /\ (p \o q)[2] = "ON_ENTER"
    <3>1. /\ p \o q \in Seq(Triggers) /\ Len(p \o q) = 2
          /\ \A i \in 1 .. 2 : (p \o q)[i] = IF i <= 1 THEN p[i] ELSE q[i - 1]
      BY <2>1, ConcatProperties
    <3> QED
      BY <2>1, <3>1
  <2> QED
    BY <1>1, <2>2, <2>3 DEF Triggers
<1>2. CASE from \in ExitPost /\ to \notin EnterPost
  <2>1. Groups(from, to) = <<"ON_EXIT">>
    BY <1>2 DEF Groups
  <2> QED
    BY <1>2, <2>1 DEF Triggers
<1>3. CASE from \notin ExitPost /\ to \in EnterPost
  <2>1. Groups(from, to) = <<"ON_ENTER">>
    BY <1>3 DEF Groups
  <2> QED
    BY <1>3, <2>1 DEF Triggers
<1>4. CASE from \notin ExitPost /\ to \notin EnterPost
  <2>1. Groups(from, to) = << >>
    BY <1>4 DEF Groups
  <2> QED
    BY <1>4, <2>1 DEF Triggers
<1> QED
  BY <1>1, <1>2, <1>3, <1>4

LEMMA PostsOnce ==
    ASSUME NEW body \in Commits, body.posts = PostsOfMove(body)
    PROVE  /\ \A g \in Triggers :
                (\E i \in DOMAIN body.posts : body.posts[i] = g)
                  <=> /\ body.via = "execute"
                      /\ g = "ON_EXIT"  => body.expect \in ExitPost
                      /\ g = "ON_ENTER" => body.to \in EnterPost
           /\ \A i, j \in DOMAIN body.posts :
                body.posts[i] = body.posts[j] => i = j
<1>1. body.expect \in States /\ body.to \in States
  BY DEF Commits
<1>2. CASE body.via = "execute"
  BY <1>1, <1>2, GroupsOnce DEF PostsOfMove
<1>3. CASE body.via # "execute"
  <2>1. body.posts = << >>
    BY <1>3 DEF PostsOfMove
  <2> QED
    BY <1>3, <2>1
<1> QED
  BY <1>2, <1>3

\* Steps that record no move and write no post.
LEMMA MatchKept ==
    ASSUME MatchInv,
           DOMAIN outbox \subseteq DOMAIN outbox',
           \A k \in DOMAIN outbox : outbox'[k] = outbox[k],
           \A k \in DOMAIN outbox' \ DOMAIN outbox : ~IsPost(outbox'[k]),
           Present' => Present /\ history' = history,
           project'.row = "none" => project.row = "none"
    PROVE  MatchInv'
<1>1. \A k \in DOMAIN outbox' : IsPost(outbox'[k]) =>
        k \in DOMAIN outbox /\ outbox'[k] = outbox[k]
  OBVIOUS
<1>2. NoFuturePosts'
  BY <1>1 DEF MatchInv, NoFuturePosts, IsPost
<1>3. ASSUME Present', NEW n \in DOMAIN history', NEW g \in Triggers
      PROVE  (\E k \in PostIndices(n, g)' : outbox'[k].state = history'[n].to)
               <=> /\ history'[n].via = "execute"
                   /\ g = "ON_EXIT"  => history'[n].from \in ExitPost
                   /\ g = "ON_ENTER" => history'[n].to \in EnterPost
  <2>1. /\ PostIndices(n, g)' = PostIndices(n, g)
        /\ \A k \in PostIndices(n, g) : outbox'[k] = outbox[k]
    BY <1>1 DEF PostIndices, IsPost
  <2>2. Present /\ history' = history
    BY <1>3
  <2> QED
    BY <2>1, <2>2 DEF MatchInv, OutboxMatchesHistory, Triggers
<1>4. ASSUME NEW j \in DOMAIN outbox', NEW k \in DOMAIN outbox',
             IsPost(outbox'[j]), IsPost(outbox'[k]),
             outbox'[j].move = outbox'[k].move,
             outbox'[j].trigger = outbox'[k].trigger
      PROVE  j = k
  BY <1>1, <1>4 DEF MatchInv, OutboxMatchesHistory, IsPost
<1> QED
  BY <1>2, <1>3, <1>4
     DEF MatchInv, OutboxMatchesHistory, Triggers, IsPost

\* Steps that record a move, with exactly the rows of its groups.
LEMMA MatchGrows ==
    ASSUME TypeOK, MatchInv, Present, Present',
           NEW from \in States, NEW to \in States, NEW via \in Vias,
           Record(from, to, via),
           DOMAIN outbox \subseteq DOMAIN outbox',
           \A k \in DOMAIN outbox : outbox'[k] = outbox[k],
           NEW groups \in SUBSET Triggers,
           \A k \in DOMAIN outbox' \ DOMAIN outbox :
             \E g \in groups : outbox'[k] = PostRow(g, to, Len(history) + 1),
           \A g \in groups : \E k \in DOMAIN outbox' \ DOMAIN outbox :
             outbox'[k] = PostRow(g, to, Len(history) + 1),
           \A j, k \in DOMAIN outbox' \ DOMAIN outbox :
             outbox'[j].trigger = outbox'[k].trigger => j = k,
           \A g \in Triggers : g \in groups
             <=> /\ via = "execute"
                 /\ g = "ON_EXIT"  => from \in ExitPost
                 /\ g = "ON_ENTER" => to \in EnterPost
    PROVE  MatchInv'
<1> DEFINE n == Len(history) + 1
           move == [from |-> from, to |-> to, via |-> via]
<1>1. /\ n \in Nat /\ n \notin DOMAIN history
      /\ Len(history') = n /\ DOMAIN history' = DOMAIN history \cup {n}
      /\ \A i \in DOMAIN history : history'[i] = history[i] /\ i < n
      /\ history'[n] = move
  <2>1. move \in Moves /\ history \in Seq(Moves)
    BY DEF Moves, TypeOK
  <2> QED
    BY <2>1 DEF Record
<1>2. /\ project.row # "none" /\ project'.row # "none"
      /\ \A k \in DOMAIN outbox : IsPost(outbox[k]) =>
           outbox[k].move \in Nat /\ outbox[k].move < n
  <2>1. \A k \in DOMAIN outbox : IsPost(outbox[k]) => outbox[k].move \in Nat
    BY DEF TypeOK, Rows, PostRows, AlarmRows, IsPost
  <2>2. Len(history) \in Nat
    BY DEF TypeOK
  <2> QED
    BY <2>1, <2>2 DEF MatchInv, NoFuturePosts, Present
<1>3. \A g \in groups :
        /\ PostRow(g, to, n).type = "post" /\ PostRow(g, to, n).trigger = g
        /\ PostRow(g, to, n).state = to /\ PostRow(g, to, n).move = n
  BY DEF PostRow
<1>4. move.from = from /\ move.to = to /\ move.via = via
  OBVIOUS
<1> HIDE DEF n, move
<1>5. \A k \in DOMAIN outbox' \ DOMAIN outbox :
        /\ IsPost(outbox'[k]) /\ outbox'[k].move = n
        /\ outbox'[k].state = to /\ outbox'[k].trigger \in groups
  BY <1>3 DEF n, IsPost
<1>6. NoFuturePosts'
  BY <1>1, <1>2, <1>5 DEF NoFuturePosts
<1>7. ASSUME NEW i \in DOMAIN history', NEW g \in Triggers
      PROVE  (\E k \in PostIndices(i, g)' : outbox'[k].state = history'[i].to)
               <=> /\ history'[i].via = "execute"
                   /\ g = "ON_EXIT"  => history'[i].from \in ExitPost
                   /\ g = "ON_ENTER" => history'[i].to \in EnterPost
  <2>1. CASE i \in DOMAIN history
    <3>1. \A k \in DOMAIN outbox' \ DOMAIN outbox : outbox'[k].move # i
      BY <2>1, <1>1, <1>5
    <3>2. /\ PostIndices(i, g)' = PostIndices(i, g)
          /\ \A k \in PostIndices(i, g) : outbox'[k] = outbox[k]
      BY <3>1 DEF PostIndices
    <3> QED
      BY <2>1, <1>1, <3>2 DEF MatchInv, OutboxMatchesHistory, Triggers
  <2>2. CASE i = n
    <3>1. \A k \in DOMAIN outbox' :
            k \in PostIndices(i, g)'
              <=> k \notin DOMAIN outbox /\ outbox'[k].trigger = g
      BY <2>2, <1>2, <1>5 DEF PostIndices, IsPost
    <3>2. (\E k \in PostIndices(i, g)' : outbox'[k].state = to)
            <=> g \in groups
      <4>1. PostIndices(i, g)' \subseteq DOMAIN outbox'
        BY DEF PostIndices
      <4> QED
        BY <4>1, <3>1, <1>3, <1>5 DEF n
    <3> QED
      BY <2>2, <3>2, <1>1, <1>4
  <2> QED
    BY <2>1, <2>2, <1>1
<1>8. ASSUME NEW j \in DOMAIN outbox', NEW k \in DOMAIN outbox',
             IsPost(outbox'[j]), IsPost(outbox'[k]),
             outbox'[j].move = outbox'[k].move,
             outbox'[j].trigger = outbox'[k].trigger
      PROVE  j = k
  <2>1. CASE j \in DOMAIN outbox /\ k \in DOMAIN outbox
    BY <2>1, <1>8 DEF MatchInv, OutboxMatchesHistory, IsPost
  <2>2. CASE j \notin DOMAIN outbox /\ k \notin DOMAIN outbox
    BY <2>2, <1>8
  <2>3. CASE ~(j \in DOMAIN outbox <=> k \in DOMAIN outbox)
    BY <2>3, <1>8, <1>1, <1>2, <1>5
  <2> QED
    BY <2>1, <2>2, <2>3
<1> QED
  BY <1>6, <1>7, <1>8
     DEF MatchInv, OutboxMatchesHistory, Triggers, IsPost

\* The rows of a longer outbox, one by one.
LEMMA AppendedAt ==
    ASSUME NEW old \in Seq(Rows), NEW rows \in Seq(Rows)
    PROVE  LET new == old \o rows IN
           /\ DOMAIN old \subseteq DOMAIN new
           /\ \A k \in DOMAIN old : new[k] = old[k]
           /\ \A k \in DOMAIN new \ DOMAIN old :
                /\ k \in Nat /\ k - Len(old) \in DOMAIN rows
                /\ new[k] = rows[k - Len(old)]
           /\ \A i \in DOMAIN rows :
                /\ Len(old) + i \in DOMAIN new \ DOMAIN old
                /\ new[Len(old) + i] = rows[i]
OBVIOUS

LEMMA MatchStep ==
    ASSUME TypeOK, PathInv, PendingPosts, MatchInv, [Next]_vars
    PROVE  MatchInv'
<1>1. CASE CreateProject
  <2> DEFINE row == [type |-> "created"]
  <2>1. row \in Rows /\ ~IsPost(row)
    BY DEF Rows, IsPost
  <2>2. outbox' = Append(outbox, row) /\ outbox \in Seq(Rows)
    BY <1>1 DEF CreateProject, TypeOK
  <2> HIDE DEF row
  <2>3. \A k \in DOMAIN outbox' : ~IsPost(outbox'[k])
    BY <1>1, <2>1, <2>2, AppendedOne
       DEF CreateProject, MatchInv, NoFuturePosts
  <2>4. history' = << >> /\ project'.row = "present"
    BY <1>1 DEF CreateProject, PathInv, HistoryOnlyOfPresent, Present, TypeOK
  <2> QED
    BY <2>3, <2>4
       DEF MatchInv, NoFuturePosts, OutboxMatchesHistory, IsPost
<1>2. ASSUME NEW c \in Callers, CommitTransition(c) PROVE MatchInv'
  <2> DEFINE body == request[c].body
             rows == PostsOf(body)
             groups == {body.posts[i] : i \in DOMAIN body.posts}
  <2>1. /\ body \in Commits /\ body.expect \in States /\ body.to \in States
        /\ body.via \in Vias /\ groups \in SUBSET Triggers
    <3>1. body \in Commits
      BY <1>2, CommitHasBody DEF CommitTransition
    <3>2. body.posts \in Seq(Triggers)
      BY <3>1 DEF Commits, Triggers
    <3> QED
      BY <3>1, <3>2 DEF Commits
  <2>2. body.posts = PostsOfMove(body)
    BY <1>2 DEF CommitTransition, PendingPosts
  <2>3. /\ rows \in Seq(Rows) /\ DOMAIN rows = DOMAIN body.posts
        /\ \A i \in DOMAIN rows :
             rows[i] = PostRow(body.posts[i], body.to, Len(history) + 1)
    BY <2>1, PostsAreRows DEF PostsOf
  <2>4. outbox' = outbox \o rows /\ outbox \in Seq(Rows)
    BY <1>2 DEF CommitTransition, PostsOf, TypeOK
  <2>5. /\ \A g \in Triggers :
             g \in groups <=> /\ body.via = "execute"
                              /\ g = "ON_EXIT"  => body.expect \in ExitPost
                              /\ g = "ON_ENTER" => body.to \in EnterPost
        /\ \A i, j \in DOMAIN body.posts :
             body.posts[i] = body.posts[j] => i = j
    <3>1. \A g \in Triggers :
            g \in groups <=> \E i \in DOMAIN body.posts : body.posts[i] = g
      OBVIOUS
    <3> QED
      BY <3>1, <2>1, <2>2, PostsOnce
  <2>6. /\ DOMAIN outbox \subseteq DOMAIN outbox'
        /\ \A k \in DOMAIN outbox : outbox'[k] = outbox[k]
        /\ \A k \in DOMAIN outbox' \ DOMAIN outbox :
             /\ k \in Nat /\ k - Len(outbox) \in DOMAIN rows
             /\ outbox'[k] = rows[k - Len(outbox)]
        /\ \A i \in DOMAIN rows :
             /\ Len(outbox) + i \in DOMAIN outbox' \ DOMAIN outbox
             /\ outbox'[Len(outbox) + i] = rows[i]
    <3> HIDE DEF rows
    <3> QED
      BY <2>3, <2>4, AppendedAt
  <2>7. Present /\ Present' /\ Record(body.expect, body.to, body.via)
    BY <1>2 DEF CommitTransition, Present, TypeOK
  <2> HIDE DEF rows, body
  <2>8. \A k \in DOMAIN outbox' \ DOMAIN outbox :
          \E g \in groups : outbox'[k] = PostRow(g, body.to, Len(history) + 1)
    BY <2>3, <2>6
  <2>9. \A g \in groups : \E k \in DOMAIN outbox' \ DOMAIN outbox :
          outbox'[k] = PostRow(g, body.to, Len(history) + 1)
    BY <2>3, <2>6
  <2>10. \A j, k \in DOMAIN outbox' \ DOMAIN outbox :
           outbox'[j].trigger = outbox'[k].trigger => j = k
    <3>1. Len(outbox) \in Nat
      BY <2>4
    <3>2. \A i \in DOMAIN rows : rows[i].trigger = body.posts[i]
      <4>1. \A g : PostRow(g, body.to, Len(history) + 1).trigger = g
        BY DEF PostRow
      <4> QED
        BY <2>3, <4>1
    <3> SUFFICES ASSUME NEW j \in DOMAIN outbox' \ DOMAIN outbox,
                        NEW k \in DOMAIN outbox' \ DOMAIN outbox,
                        outbox'[j].trigger = outbox'[k].trigger
                 PROVE  j = k
      OBVIOUS
    <3>3. j - Len(outbox) = k - Len(outbox)
      BY <2>3, <2>5, <2>6, <3>2
    <3> QED
      BY <2>6, <3>1, <3>3
  <2> HIDE DEF groups
  <2> QED
    BY <2>1, <2>5, <2>6, <2>7, <2>8, <2>9, <2>10, MatchGrows
<1>3. ASSUME NEW t \in Transitions, AdvanceProjectByWorkflowEvent(t)
      PROVE  MatchInv'
  <2> DEFINE from == t.from
             to == t.to
             via == "event"
             groups == {}
  <2>1. /\ from \in States /\ to \in States /\ via \in Vias
        /\ groups \in SUBSET Triggers
    BY WorkflowAssumption DEF Vias
  <2>2. Present /\ Present' /\ Record(from, to, via) /\ outbox' = outbox
    BY <1>3 DEF AdvanceProjectByWorkflowEvent, Present, TypeOK
  <2>3. /\ DOMAIN outbox \subseteq DOMAIN outbox'
        /\ \A k \in DOMAIN outbox : outbox'[k] = outbox[k]
        /\ DOMAIN outbox' \ DOMAIN outbox = {}
    BY <2>2
  <2>4. /\ \A g : g \notin groups
        /\ via # "execute"
    OBVIOUS
  <2> HIDE DEF from, to, via, groups
  <2> QED
    BY <2>1, <2>2, <2>3, <2>4, MatchGrows
<1>4. CASE UNCHANGED <<project, history, outbox>>
  BY <1>4, MatchKept DEF Present
<1>5. CASE ArchiveProject \/ DeleteProject
  <2>1. /\ outbox' = outbox /\ Present
        /\ Present' => history' = history
        /\ project'.row # "none"
    BY <1>5 DEF ArchiveProject, DeleteProject, Present, TypeOK
  <2> QED
    BY <2>1, MatchKept
<1>6. ASSUME NEW d \in Schedulers, SchedulerFires(d) PROVE MatchInv'
  <2> DEFINE row == [type |-> "alarm", state |-> project.state,
                     arm |-> deadline.arm]
  <2>1. row \in Rows /\ ~IsPost(row)
    BY DEF Rows, AlarmRows, IsPost, TypeOK, Deadlines
  <2>2. outbox' = Append(outbox, row) /\ outbox \in Seq(Rows)
    BY <1>6 DEF SchedulerFires, TypeOK
  <2>3. UNCHANGED <<project, history>>
    BY <1>6 DEF SchedulerFires
  <2> HIDE DEF row
  <2> QED
    BY <2>1, <2>2, <2>3, AppendedOne, MatchKept DEF Present
<1> QED
  <2>1. \/ UNCHANGED <<project, history, outbox>>
        \/ CreateProject
        \/ \E c \in Callers : CommitTransition(c)
        \/ \E t \in Transitions : AdvanceProjectByWorkflowEvent(t)
        \/ ArchiveProject \/ DeleteProject
        \/ \E d \in Schedulers : SchedulerFires(d)
    BY Movers, Writers DEF DeadlinePasses
  <2> QED
    BY <2>1, <1>1, <1>2, <1>3, <1>4, <1>5, <1>6

(***************************************************************************)
(* The outbox holds exactly the post-commit work of the recorded moves.    *)
(***************************************************************************)
THEOREM OutboxAndHistory == Spec => []OutboxMatchesHistory
<1>1. Init => PendingPosts /\ MatchInv
  BY DEF Init, PendingPosts, MatchInv, NoFuturePosts, OutboxMatchesHistory,
         Idle, Present
<1>2. MatchInv => OutboxMatchesHistory
  BY DEF MatchInv
<1> QED
  BY <1>1, <1>2, PendingPostsStep, MatchStep, PathOfHistory, TypeCorrect, PTL
     DEF Spec
-----------------------------------------------------------------------------
(***************************************************************************)
(* Snapshots and optimistic commits implement the ledger of indivisible    *)
(* moves.                                                                  *)
(***************************************************************************)
THEOREM LedgerRefinement == Spec => ImplementsLedger
<1> USE WorkflowAssumption
<1>1. Init => Ledger!LedgerInit
  BY DEF Init, Ledger!LedgerInit
<1>2. TypeOK /\ PendingFollowsTheWorkflow /\ [Next]_vars
        => [Ledger!LedgerNext]_(Ledger!ledger)
  <2> SUFFICES ASSUME TypeOK, PendingFollowsTheWorkflow, [Next]_vars
               PROVE  Ledger!LedgerNext \/ UNCHANGED Ledger!ledger
    OBVIOUS
  <2>1. CASE UNCHANGED <<project, history>>
    BY <2>1 DEF Ledger!ledger
  <2>2. CASE CreateProject \/ ArchiveProject
    BY <2>2 DEF CreateProject, ArchiveProject, Present, Ledger!ledger, TypeOK
  <2>3. ASSUME NEW c \in Callers, CommitTransition(c)
        PROVE  Ledger!LedgerNext
    <3> DEFINE body == request[c].body
    <3>1. body.to \in States /\ body.via \in Vias
      BY <2>3, CommitHasBody DEF CommitTransition, Commits
    <3>2. body.via \in {"execute", "advance", "event"} =>
            [from |-> project.state, to |-> body.to] \in Transitions
      BY <2>3 DEF CommitTransition, AsExpected, PendingFollowsTheWorkflow
    <3>3. Ledger!Move(body.to, body.via)
      BY <2>3, <3>1, <3>2
         DEF CommitTransition, AsExpected, Record, Present, TypeOK,
             Ledger!Move, Ledger!Workflow
    <3> QED
      BY <3>1, <3>3
         DEF Ledger!LedgerNext, Ledger!Workflow, Ledger!Override, Vias
  <2>4. ASSUME NEW t \in Transitions, AdvanceProjectByWorkflowEvent(t)
        PROVE  Ledger!LedgerNext
    <3>1. t = [from |-> t.from, to |-> t.to] /\ t.to \in States
      OBVIOUS
    <3>2. Ledger!Move(t.to, "event")
      BY <2>4, <3>1
         DEF AdvanceProjectByWorkflowEvent, Record, Present, TypeOK,
             Ledger!Move, Ledger!Workflow
    <3> QED
      BY <3>1, <3>2 DEF Ledger!LedgerNext, Ledger!Workflow
  <2>5. CASE DeleteProject
    BY <2>5 DEF DeleteProject, Present, TypeOK, Ledger!Erase,
                Ledger!LedgerNext
  <2> QED
    BY <2>1, <2>2, <2>3, <2>4, <2>5, Movers
<1>3. Init => PendingFollowsTheWorkflow
  BY DEF Init, PendingFollowsTheWorkflow, Idle
<1>4. TypeOK /\ PendingFollowsTheWorkflow /\ [Next]_vars
        => PendingFollowsTheWorkflow'
  BY PendingStep
<1> QED
  BY <1>1, <1>2, <1>3, <1>4, TypeCorrect, PTL
     DEF Spec, ImplementsLedger, Ledger!LedgerSpec
-----------------------------------------------------------------------------
(***************************************************************************)
(* Alarms that name another stage than the one whose deadline has passed:  *)
(* where they come from.  A rollback and a move of admin_service leave the *)
(* deadline as it is, and so does a move to a state that has none.         *)
(***************************************************************************)
KeepsDeadline(move) == move.via \in {"rollback", "event"} \/ ~Timed(move.to)

PendingTimed ==
    \A c \in Callers : request[c].step = "commit" =>
      (request[c].body.timed
         <=> Timed(request[c].body.to) /\ request[c].body.via # "rollback")

\* The deadline is the current stage's, or the last move has kept it.
OwnerInv ==
    /\ project.row = "none" => deadline.arm = 0
    /\ Present /\ deadline.arm > 0 =>
         \/ deadline.owner = project.state
         \/ history # << >> /\ KeepsDeadline(history[Len(history)])

LEMMA DecidedTimed ==
    ASSUME NEW body, Decided(body)
    PROVE  body.timed <=> Timed(body.to) /\ body.via # "rollback"
<1> USE DEF Timed
<1>1. ASSUME NEW t \in Transitions, body = ExecuteBody(t)
      PROVE  body.timed <=> Timed(body.to) /\ body.via # "rollback"
  BY <1>1 DEF ExecuteBody
<1>2. ASSUME NEW t \in Transitions, body = AdvanceBody(t)
      PROVE  body.timed <=> Timed(body.to) /\ body.via # "rollback"
  BY <1>2 DEF AdvanceBody
<1>3. ASSUME NEW s \in States, body = SetBody(s)
      PROVE  body.timed <=> Timed(body.to) /\ body.via # "rollback"
  BY <1>3 DEF SetBody
<1>4. ASSUME NEW at, NEW s, NEW status, body = RollbackBody(at, status, s)
      PROVE  body.timed <=> Timed(body.to) /\ body.via # "rollback"
  BY <1>4 DEF RollbackBody
<1> QED
  BY <1>1, <1>2, <1>3, <1>4, Zenon DEF Decided

LEMMA PendingTimedStep ==
    ASSUME TypeOK, PendingTimed, [Next]_vars
    PROVE  PendingTimed'
<1> SUFFICES ASSUME NEW c \in Callers, request'[c].step = "commit"
             PROVE  request'[c].body.timed
                      <=> /\ Timed(request'[c].body.to)
                          /\ request'[c].body.via # "rollback"
  BY DEF PendingTimed, Timed
<1>1. CASE request'[c] = request[c]
  BY <1>1 DEF PendingTimed
<1>2. CASE request'[c] # request[c]
  <2>1. Decided(request'[c].body)
    BY <1>2, Deciders
  <2> QED
    BY <2>1, DecidedTimed
<1> QED
  BY <1>1, <1>2

\* The newest move of a longer history.
LEMMA NewestMove ==
    ASSUME TypeOK, NEW from \in States, NEW to \in States, NEW via \in Vias,
           Record(from, to, via)
    PROVE  /\ history' # << >>
           /\ history'[Len(history')] = [from |-> from, to |-> to, via |-> via]
<1>1. history \in Seq(Moves) /\ [from |-> from, to |-> to, via |-> via] \in Moves
  BY DEF TypeOK, Moves
<1> QED
  BY <1>1 DEF Record

LEMMA OwnerStep ==
    ASSUME TypeOK, PathInv, PendingTimed, OwnerInv, [Next]_vars
    PROVE  OwnerInv'
<1> USE DEF OwnerInv, Present
<1>1. CASE UNCHANGED <<project, history, deadline>>
  BY <1>1
<1>2. CASE CreateProject
  <2>1. /\ project'.row = "present" /\ project'.state = InitialState
        /\ deadline.arm = 0
        /\ history' = history
    BY <1>2 DEF CreateProject, TypeOK, PathInv, HistoryOnlyOfPresent
  <2>2. deadline'.owner = InitialState \/ deadline' = deadline
    <3>1. CASE Timed(InitialState)
      BY <1>2, <3>1 DEF CreateProject, Rearm
    <3>2. CASE ~Timed(InitialState)
      BY <1>2, <3>2 DEF CreateProject
    <3> QED
      BY <3>1, <3>2
  <2> QED
    BY <2>1, <2>2
<1>3. ASSUME NEW c \in Callers, CommitTransition(c) PROVE OwnerInv'
  <2> DEFINE body == request[c].body
  <2>1. body \in Commits /\ request[c].step = "commit"
    BY <1>3, CommitHasBody DEF CommitTransition
  <2>2. body.expect \in States /\ body.to \in States /\ body.via \in Vias
    BY <2>1 DEF Commits
  <2>3. project'.row = "present" /\ project'.state = body.to
    BY <1>3 DEF CommitTransition, TypeOK
  <2>4. /\ history' # << >>
        /\ history'[Len(history')] =
             [from |-> body.expect, to |-> body.to, via |-> body.via]
    BY <1>3, <2>2, NewestMove DEF CommitTransition
  <2>5. CASE body.timed
    <3>1. deadline'.owner = body.to
      BY <1>3, <2>5 DEF CommitTransition, Rearm
    <3> QED
      BY <2>3, <3>1
  <2>6. CASE ~body.timed
    <3>1. ~Timed(body.to) \/ body.via = "rollback"
      BY <2>1, <2>6 DEF PendingTimed
    <3>2. KeepsDeadline(history'[Len(history')])
      BY <2>4, <3>1 DEF KeepsDeadline
    <3> QED
      BY <2>3, <2>4, <3>2 DEF KeepsDeadline, Timed
  <2> QED
    BY <2>5, <2>6
<1>4. ASSUME NEW t \in Transitions, AdvanceProjectByWorkflowEvent(t)
      PROVE  OwnerInv'
  <2>1. t.from \in States /\ t.to \in States /\ "event" \in Vias
    BY WorkflowAssumption DEF Vias
  <2>2. /\ history' # << >>
        /\ history'[Len(history')] =
             [from |-> t.from, to |-> t.to, via |-> "event"]
    BY <1>4, <2>1, NewestMove DEF AdvanceProjectByWorkflowEvent
  <2>3. project'.row = "present"
    BY <1>4 DEF AdvanceProjectByWorkflowEvent, TypeOK
  <2> QED
    BY <2>2, <2>3 DEF KeepsDeadline, Timed
<1>5. CASE ArchiveProject
  BY <1>5 DEF ArchiveProject, TypeOK
<1>6. CASE DeleteProject
  BY <1>6 DEF DeleteProject, TypeOK
<1>7. CASE DeadlinePasses
  BY <1>7 DEF DeadlinePasses, TypeOK, Deadlines
<1>8. ASSUME NEW d \in Schedulers, SchedulerFires(d) PROVE OwnerInv'
  BY <1>8 DEF SchedulerFires, MarkProcessed, TypeOK, Deadlines
<1> QED
  BY <1>1, <1>2, <1>3, <1>4, <1>5, <1>6, <1>7, <1>8, Movers, Writers

(***************************************************************************)
(* A deadline event names another stage than the one whose deadline has    *)
(* passed only if the project's last move was one that keeps the deadline: *)
(* a rollback, a move of admin_service, or a move to a stage that has      *)
(* none.  Workflows and operations without them have AlarmNamesItsStage.   *)
(***************************************************************************)
THEOREM AlarmsOfOtherStages ==
    Spec => [][\A k \in DOMAIN outbox' \ DOMAIN outbox :
                 outbox'[k].type = "alarm" =>
                   \/ outbox'[k].state = deadline.owner
                   \/ /\ history # << >>
                      /\ KeepsDeadline(history[Len(history)])]_vars
<1> DEFINE Named == \A k \in DOMAIN outbox' \ DOMAIN outbox :
                      outbox'[k].type = "alarm" =>
                        \/ outbox'[k].state = deadline.owner
                        \/ /\ history # << >>
                           /\ KeepsDeadline(history[Len(history)])
<1>1. Init => OwnerInv /\ PendingTimed
  BY DEF Init, OwnerInv, PendingTimed, Present, Idle
<1>2. ASSUME TypeOK, OwnerInv, [Next]_vars PROVE Named
  <2>1. SUFFICES ASSUME NEW k \in DOMAIN outbox' \ DOMAIN outbox,
                        outbox'[k].type = "alarm"
                 PROVE  /\ Present /\ deadline.arm > 0
                        /\ outbox'[k].state = project.state
    BY <1>2 DEF OwnerInv
  <2>2. outbox \in Seq(Rows)
    BY <1>2 DEF TypeOK
  <2>3. CASE UNCHANGED <<deadline, outbox>> \/ DeadlinePasses
    BY <2>1, <2>3 DEF DeadlinePasses
  <2>4. CASE CreateProject
    <3> DEFINE row == [type |-> "created"]
    <3>1. row \in Rows /\ row.type # "alarm"
      BY DEF Rows
    <3>2. outbox' = Append(outbox, row)
      BY <2>4 DEF CreateProject
    <3> HIDE DEF row
    <3> QED
      BY <2>1, <2>2, <3>1, <3>2, AppendedOne
  <2>5. ASSUME NEW c \in Callers, CommitTransition(c) PROVE FALSE
    <3> DEFINE rows == PostsOf(request[c].body)
    <3>1. request[c].body \in Commits
      BY <1>2, <2>5, CommitHasBody DEF CommitTransition
    <3>2. rows \in Seq(Rows) /\ \A i \in DOMAIN rows : rows[i].type # "alarm"
      BY <1>2, <3>1, PostsAreRows
    <3>3. outbox' = outbox \o rows
      BY <2>5 DEF CommitTransition, PostsOf
    <3> HIDE DEF rows
    <3> QED
      BY <2>1, <2>2, <3>2, <3>3, Appended
  <2>6. ASSUME NEW d \in Schedulers, SchedulerFires(d)
        PROVE  /\ Present /\ deadline.arm > 0
               /\ outbox'[k].state = project.state
    <3> DEFINE row == [type |-> "alarm", state |-> project.state,
                       arm |-> deadline.arm]
    <3>1. row \in Rows /\ row.state = project.state
      BY <1>2 DEF Rows, AlarmRows, TypeOK, Deadlines
    <3>2. outbox' = Append(outbox, row)
      BY <2>6 DEF SchedulerFires
    <3>3. Present /\ deadline.arm > 0
      BY <2>6 DEF SchedulerFires, StillExpired, Expired
    <3> HIDE DEF row
    <3> QED
      BY <2>1, <2>2, <3>1, <3>2, <3>3, AppendedOne
  <2> QED
    BY <1>2, <2>3, <2>4, <2>5, <2>6, Writers
<1>3. TypeOK /\ OwnerInv /\ [Next]_vars => [Named]_vars
  BY <1>2
<1>4. TypeOK /\ PathInv /\ OwnerInv /\ PendingTimed /\ [Next]_vars
        => OwnerInv' /\ PendingTimed'
  BY OwnerStep, PendingTimedStep
<1> QED
  BY <1>1, <1>3, <1>4, TypeCorrect, PathOfHistory, PTL DEF Spec
-----------------------------------------------------------------------------
(***************************************************************************)
(* A student's move of an inactive project: where it comes from.           *)
(***************************************************************************)

\* A student's request on its way from PerformAction to its commit.
Acting(r) ==
    \/ r.step = "chosen"
    \/ r.step = "commit" /\ r.body.via = "execute"

\* No project is archived while a student acts on it.
ArchivesAtRest == ArchiveProject => \A c \in Callers : ~Acting(request[c])

ArchivedAtRest == [][ArchivesAtRest]_vars

ActsOnActive ==
    \A i \in DOMAIN history' \ DOMAIN history :
      history'[i].via = "execute" => project.status \notin Inactive

ActingInv ==
    /\ project.status # "cancelled"
    /\ \A c \in Callers : request[c].step = "commit" =>
         request[c].body.status \notin {"archived", "cancelled"}
    /\ \A c \in Callers : Acting(request[c]) => project.status # "archived"

LEMMA DecidedIsActive ==
    ASSUME NEW body, Decided(body)
    PROVE  body.status \notin {"archived", "cancelled"}
<1> USE WorkflowAssumption, NamesAssumption
<1>1. \A t \in Transitions : /\ ExecuteBody(t).status \in {"completed", t.to}
                             /\ AdvanceBody(t).status \in {"completed", t.to}
                             /\ t.to \in States
  BY DEF ExecuteBody, AdvanceBody
<1>2. \A s : /\ SetBody(s).status \in {"completed", "active", s}
             /\ \A at, status :
                  RollbackBody(at, status, s).status \in {"active", s}
  BY DEF SetBody, RollbackBody
<1> HIDE DEF ExecuteBody, AdvanceBody, SetBody, RollbackBody
<1> QED
  BY <1>1, <1>2 DEF Decided

\* Requests that come to act were acting, or have just found the project
\* active.
LEMMA Actors ==
    ASSUME TypeOK, [Next]_vars, NEW c \in Callers, Acting(request'[c])
    PROVE  /\ Acting(request[c]) \/ project.status \notin Inactive
           /\ request'[c] # request[c] => project' = project
<1>1. CASE request'[c] = request[c]
  BY <1>1
<1>2. ASSUME request'[c] # request[c],
             NEW e \in Callers, NEW r, Become(e, r)
      PROVE  e = c /\ request'[c] = r
  BY <1>2 DEF Become, TypeOK
<1>3. CASE request'[c] # request[c]
  <2>1. ASSUME NEW e \in Callers, NEW t \in Transitions, PerformAction(e, t)
        PROVE  project.status \notin Inactive /\ project' = project
    BY <2>1 DEF PerformAction
  <2>2. ASSUME NEW e \in Callers, ExecuteTransition(e)
        PROVE  Acting(request[c]) /\ project' = project
    <3>1. e = c
      BY <1>2, <1>3, <2>2 DEF ExecuteTransition
    <3> QED
      BY <2>2, <3>1 DEF ExecuteTransition, Acting
  <2>3. ASSUME NEW e \in Callers, NEW body, body.via # "execute",
               Become(e, [step |-> "commit", body |-> body])
        PROVE  FALSE
    <3>1. request'[c] = [step |-> "commit", body |-> body]
      BY <1>2, <1>3, <2>3
    <3> QED
      BY <2>3, <3>1 DEF Acting
  <2>4. ASSUME NEW e \in Callers, Admin(e) PROVE FALSE
    <3>1. /\ \A t : AdvanceBody(t).via # "execute"
          /\ \A s : SetBody(s).via # "execute"
          /\ \A at, status, s : RollbackBody(at, status, s).via # "execute"
      BY DEF AdvanceBody, SetBody, RollbackBody
    <3>2. CASE AdminRollback(e)
      <4>1. request'[c].step = "recall"
        BY <1>2, <1>3, <3>2 DEF AdminRollback
      <4> QED
        BY <4>1 DEF Acting
    <3>3. CASE ~AdminRollback(e)
      <4> HIDE DEF Become
      <4> QED
        BY <2>3, <2>4, <3>1, <3>3
        DEF Admin, AdminAdvance, AdminForce, AdminSet, AdminRollbackTo,
            AdminRecall
    <3> QED
      BY <3>2, <3>3
  <2>5. ASSUME NEW e \in Callers, CommitTransition(e) \/ Abandon(e)
        PROVE  FALSE
    <3>1. request'[c] = Idle
      BY <1>2, <1>3, <2>5 DEF CommitTransition, Abandon
    <3> QED
      BY <3>1 DEF Acting, Idle
  <2> QED
    BY <1>3, <2>1, <2>2, <2>4, <2>5
    DEF Next, vars, Student, Direct, Scheduler, CreateProject,
        AdvanceProjectByWorkflowEvent, ArchiveProject, DeleteProject,
        DeadlinePasses, SchedulerLists, SchedulerFires, SchedulerSkips
<1> QED
  BY <1>1, <1>3

LEMMA ActingStep ==
    ASSUME TypeOK, ActingInv, [Next]_vars,
           ArchiveProject => \A c \in Callers : ~Acting(request[c])
    PROVE  ActingInv'
<1> USE WorkflowAssumption, NamesAssumption
<1>1. \A c \in Callers : request'[c].step = "commit" =>
        request'[c].body.status \notin {"archived", "cancelled"}
  <2> SUFFICES ASSUME NEW c \in Callers, request'[c].step = "commit"
               PROVE  request'[c].body.status \notin {"archived", "cancelled"}
    OBVIOUS
  <2>1. CASE request'[c] = request[c]
    BY <2>1 DEF ActingInv
  <2>2. CASE request'[c] # request[c]
    BY <2>2, Deciders, DecidedIsActive
  <2> QED
    BY <2>1, <2>2
<1>2. \/ project'.status = project.status
      \/ project'.status \notin {"archived", "cancelled"}
      \/ ArchiveProject /\ project'.status = "archived"
  <2>1. ASSUME NEW c \in Callers, CommitTransition(c)
        PROVE  project'.status \notin {"archived", "cancelled"}
    BY <2>1 DEF CommitTransition, ActingInv, TypeOK
  <2>2. ASSUME NEW t \in Transitions, AdvanceProjectByWorkflowEvent(t)
        PROVE  project'.status \notin {"archived", "cancelled"}
    <3>1. t.to \in States
      OBVIOUS
    <3> QED
      BY <2>2, <3>1 DEF AdvanceProjectByWorkflowEvent, TypeOK
  <2>3. CASE CreateProject \/ DeleteProject
    BY <2>3 DEF CreateProject, DeleteProject, TypeOK
  <2>4. CASE ArchiveProject
    BY <2>4 DEF ArchiveProject, TypeOK
  <2> QED
    BY <2>1, <2>2, <2>3, <2>4, Movers
<1>3. ASSUME NEW c \in Callers, Acting(request'[c])
      PROVE  project'.status # "archived"
  <2>1. Acting(request[c]) \/ project.status \notin Inactive
    BY <1>3, Actors
  <2>2. project.status # "archived"
    BY <2>1 DEF ActingInv, Inactive
  <2>3. CASE ArchiveProject
    <3>1. request' = request
      BY <2>3 DEF ArchiveProject
    <3> QED
      BY <1>3, <2>3, <3>1
  <2> QED
    BY <1>2, <2>2, <2>3
<1> QED
  BY <1>1, <1>2, <1>3 DEF ActingInv

LEMMA ActsStep ==
    ASSUME \A t \in Transitions : t.from \notin FinalStates,
           TypeOK, StatusAgrees, PendingFollowsTheWorkflow, ActingInv,
           [Next]_vars
    PROVE  ActsOnActive
<1>1. SUFFICES ASSUME NEW i \in DOMAIN history' \ DOMAIN history,
                      history'[i].via = "execute"
               PROVE  project.status \notin Inactive
  BY DEF ActsOnActive
<1>2. history \in Seq(Moves)
  BY DEF TypeOK
<1>3. CASE UNCHANGED <<project, history>> \/ CreateProject \/ ArchiveProject
           \/ DeleteProject
  <2>1. history' \in {history, << >>}
    BY <1>3 DEF CreateProject, ArchiveProject, DeleteProject
  <2> QED
    BY <1>1, <1>2, <2>1
<1>4. ASSUME NEW c \in Callers, CommitTransition(c)
      PROVE  project.status \notin Inactive
  <2> DEFINE body == request[c].body
             move == [from |-> body.expect, to |-> body.to, via |-> body.via]
  <2>1. body \in Commits /\ request[c].step = "commit"
    BY <1>4, CommitHasBody DEF CommitTransition
  <2>2. history' = Append(history, move)
    BY <1>4 DEF CommitTransition, Record
  <2>3. history'[i] = move
    <3> HIDE DEF move
    <3> QED
      BY <1>1, <1>2, <2>2
  <2>4. body.via = "execute"
    BY <1>1, <2>3
  <2>5. [from |-> body.expect, to |-> body.to] \in Transitions
    BY <2>1, <2>4 DEF PendingFollowsTheWorkflow
  <2>6. project.state \notin FinalStates
    BY <1>4, <2>5 DEF CommitTransition, AsExpected
  <2>7. project.status \notin {"archived", "cancelled"}
    BY <2>1, <2>4 DEF ActingInv, Acting
  <2> QED
    BY <2>6, <2>7 DEF StatusAgrees, Inactive
<1>5. ASSUME NEW t \in Transitions, AdvanceProjectByWorkflowEvent(t)
      PROVE  FALSE
  <2> DEFINE move == [from |-> t.from, to |-> t.to, via |-> "event"]
  <2>1. history' = Append(history, move) /\ move.via = "event"
    BY <1>5 DEF AdvanceProjectByWorkflowEvent, Record
  <2> HIDE DEF move
  <2> QED
    BY <1>1, <1>2, <2>1
<1> QED
  BY <1>3, <1>4, <1>5, Movers

(***************************************************************************)
(* "Cannot perform action on inactive project": in a workflow whose final  *)
(* states nothing leaves, the archiving of a project while a student's     *)
(* request is in flight is the only way in which one is moved by a student *)
(* after all.  A completion cannot do it: the commit expects a state that  *)
(* the project has left by then.                                           *)
(***************************************************************************)
THEOREM OnlyArchivedAreActedOn ==
    ASSUME \A t \in Transitions : t.from \notin FinalStates
    PROVE  Spec /\ ArchivedAtRest => InactiveIsNotActedOn
<1>1. Init => ActingInv /\ PendingFollowsTheWorkflow
  BY WorkflowAssumption, NamesAssumption
  DEF Init, ActingInv, PendingFollowsTheWorkflow, Acting, Idle
<1>2. TypeOK /\ [ArchivesAtRest]_vars => ArchivesAtRest
  BY DEF ArchivesAtRest, ArchiveProject, TypeOK, vars
<1>3. TypeOK /\ StatusAgrees /\ PendingFollowsTheWorkflow /\ ActingInv
        /\ [Next]_vars /\ ArchivesAtRest
      => /\ ActingInv' /\ PendingFollowsTheWorkflow'
         /\ [\A i \in DOMAIN history' \ DOMAIN history :
               history'[i].via = "execute" =>
                 project.status \notin Inactive]_vars
  BY ActsStep, ActingStep, PendingStep DEF ArchivesAtRest, ActsOnActive
<1> QED
  BY <1>1, <1>2, <1>3, TypeCorrect, StatusAndState, PTL
  DEF Spec, ArchivedAtRest, InactiveIsNotActedOn
=============================================================================
