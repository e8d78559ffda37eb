------------------------ MODULE OutboxDeliveryProofs ------------------------
(***************************************************************************)
(* Proofs about OutboxDelivery, for every outbox, every number of          *)
(* instances, every batch size and any number of failures.                 *)
(***************************************************************************)
EXTENDS OutboxDelivery, TLAPS
-----------------------------------------------------------------------------
\* The statuses of rows that the code writes.
LEMMA RowTypes ==
    ASSUME TypeOK, NEW e \in Events,
           NEW status \in {"pending", "processing", "processed"}
    PROVE  /\ SetStatus(e, status) =>
                row' \in [Events -> [status : RowStatuses, late : BOOLEAN]]
           /\ row[e].status \in RowStatuses /\ row[e].late \in BOOLEAN
BY DEF TypeOK, SetStatus, RowStatuses

LEMMA FaultyType ==
    ASSUME TypeOK, NEW e \in Events, Faulty(e) PROVE faulted' \subseteq Events
BY DEF TypeOK, Faulty

LEMMA ExecutionTypes ==
    ASSUME TypeOK, NEW k \in Keys
    PROVE  /\ CountExecution(k) => done' \in [Keys -> 0 .. 2]
           /\ \A status \in {"succeeded", "failed"} :
                Mark(k, status) => run' \in [Keyed -> RunStatuses]
<1>1. ASSUME CountExecution(k) PROVE done' \in [Keys -> 0 .. 2]
  <2>1. done[k] \in 0 .. 2
    BY DEF TypeOK
  <2>2. (IF done[k] < 2 THEN done[k] + 1 ELSE done[k]) \in 0 .. 2
    BY <2>1
  <2> QED
    BY <1>1, <2>2 DEF CountExecution, TypeOK
<1>2. ASSUME NEW status \in {"succeeded", "failed"}, Mark(k, status)
      PROVE  run' \in [Keyed -> RunStatuses]
  BY <1>2 DEF Mark, TypeOK, RunStatuses
<1> QED
  BY <1>1, <1>2

\* A step of one poller that leaves it in a state of its type.
LEMMA PollerType ==
    ASSUME TypeOK, NEW p \in Pollers, NEW new \in PollerStates,
           poller' = [poller EXCEPT ![p] = new]
    PROVE  poller' \in [Pollers -> PollerStates]
BY DEF TypeOK

LEMMA NextRowType ==
    ASSUME TypeOK, NEW p \in Pollers, NEW e \in Events, NextRow(p, e)
    PROVE  poller' \in [Pollers -> PollerStates]
<1>1. poller[p].batch \subseteq Events
  BY DEF TypeOK, PollerStates
<1>2. [step |-> IF poller[p].batch = {e} THEN "idle" ELSE "begin",
       batch |-> poller[p].batch \ {e}, left |-> {}, doing |-> {}]
        \in PollerStates
  BY <1>1 DEF PollerStates
<1> QED
  BY <1>2, PollerType DEF NextRow

LEMMA RestingType == Resting \in PollerStates
BY DEF Resting, PollerStates

(***************************************************************************)
(* The tables and the pollers keep their types.                            *)
(***************************************************************************)
THEOREM TypeCorrect == Spec => []TypeOK
<1> USE OutboxAssumption
<1>1. Init => TypeOK
  BY RestingType DEF Init, TypeOK, RowStatuses, RunStatuses
<1>2. TypeOK /\ [Next]_vars => TypeOK'
  <2> SUFFICES ASSUME TypeOK, [Next]_vars PROVE TypeOK'
    OBVIOUS
  <2>1. ASSUME NEW e \in Events,
               Publish(e) \/ LeaseEnds(e) \/ LeaseRunsOut(e)
        PROVE  TypeOK'
    <3>1. CASE Publish(e)
      BY <3>1, RowTypes DEF Publish, TypeOK
    <3>2. CASE LeaseEnds(e)
      BY <3>2 DEF LeaseEnds, TypeOK
    <3>3. CASE LeaseRunsOut(e)
      BY <3>3, FaultyType DEF LeaseRunsOut, TypeOK
    <3> QED
      BY <2>1, <3>1, <3>2, <3>3
  <2>2. ASSUME NEW p \in Pollers, Tick(p) PROVE TypeOK'
    <3>1. row' \in [Events -> [status : RowStatuses, late : BOOLEAN]]
      BY <2>2 DEF Tick, RequeueStuck, TypeOK, RowStatuses
    <3>2. [poller[p] EXCEPT !.step = "claim"] \in PollerStates
      BY DEF TypeOK, PollerStates
    <3>3. poller' = [poller EXCEPT ![p] =
                       [poller[p] EXCEPT !.step = "claim"]]
      BY <2>2 DEF Tick
    <3> QED
      BY <2>2, <3>1, <3>2, <3>3, PollerType DEF Tick, TypeOK
  <2>3. ASSUME NEW p \in Pollers, FetchAndClaimBatch(p) PROVE TypeOK'
    <3>1. PICK batch \in SUBSET Events :
            /\ MarkClaimed(batch)
            /\ poller' = [poller EXCEPT ![p] =
                 [Resting EXCEPT
                    !.step  = IF batch = {} THEN "idle" ELSE "begin",
                    !.batch = batch]]
      BY <2>3 DEF FetchAndClaimBatch
    <3>2. row' \in [Events -> [status : RowStatuses, late : BOOLEAN]]
      BY <3>1 DEF MarkClaimed, TypeOK, RowStatuses
    <3>3. [Resting EXCEPT !.step  = IF batch = {} THEN "idle" ELSE "begin",
                          !.batch = batch] \in PollerStates
      BY DEF Resting, PollerStates
    <3> QED
      BY <2>3, <3>1, <3>2, <3>3, PollerType DEF FetchAndClaimBatch, TypeOK
  <2>4. ASSUME NEW p \in Pollers, NEW e \in Events, Handle(p, e)
        PROVE  TypeOK'
    <3>1. [poller[p] EXCEPT !.step = "act", !.left = ActionsOf[e]]
            \in PollerStates
      BY DEF TypeOK, PollerStates
    <3>2. poller' = [poller EXCEPT ![p] =
                       [poller[p] EXCEPT !.step = "act",
                                         !.left = ActionsOf[e]]]
      BY <2>4 DEF Handle, TypeOK
    <3> QED
      BY <2>4, <3>1, <3>2, PollerType DEF Handle, TypeOK
  <2>5. ASSUME NEW p \in Pollers, NEW e \in Events,
               HandleBroken(p, e) \/ HandleFails(p, e) \/ StartRefused(p, e)
        PROVE  TypeOK'
    <3>1. poller' \in [Pollers -> PollerStates]
      BY <2>5, NextRowType
         DEF HandleBroken, HandleFails, StartRefused, GiveBack
    <3>2. faulted' \subseteq Events
      BY <2>5, FaultyType DEF HandleBroken, HandleFails, StartRefused, TypeOK
    <3>3. row' \in [Events -> [status : RowStatuses, late : BOOLEAN]]
      BY <2>5, RowTypes
         DEF HandleBroken, HandleFails, StartRefused, GiveBack, TypeOK
    <3> QED
      BY <2>5, <3>1, <3>2, <3>3
         DEF HandleBroken, HandleFails, StartRefused, TypeOK
  <2>6. ASSUME NEW p \in Pollers, NEW k \in Keys,
               StartRun(p, k) \/ StartUnkeyed(p, k)
        PROVE  TypeOK'
    <3>1. [poller[p] EXCEPT !.doing = {k}] \in PollerStates
      BY DEF TypeOK, PollerStates
    <3>2. poller' = [poller EXCEPT ![p] = [poller[p] EXCEPT !.doing = {k}]]
      BY <2>6 DEF StartRun, StartUnkeyed
    <3>3. run' \in [Keyed -> RunStatuses]
      BY <2>6 DEF StartRun, StartUnkeyed, TypeOK, RunStatuses
    <3> QED
      BY <2>6, <3>1, <3>2, <3>3, PollerType DEF StartRun, StartUnkeyed, TypeOK
  <2>7. ASSUME NEW p \in Pollers, NEW k \in Keys, Execute(p, k)
        PROVE  TypeOK'
    <3>1. [poller[p] EXCEPT !.doing = {}, !.left = @ \ {k}] \in PollerStates
      BY DEF TypeOK, PollerStates
    <3>2. poller' = [poller EXCEPT ![p] =
                       [poller[p] EXCEPT !.doing = {}, !.left = @ \ {k}]]
      BY <2>7 DEF Execute, TypeOK
    <3> QED
      BY <2>7, <3>1, <3>2, PollerType, ExecutionTypes DEF Execute, TypeOK
  <2>8. ASSUME NEW p \in Pollers, NEW e \in Events, NEW k \in Keys,
               ExecuteFails(p, e, k)
        PROVE  TypeOK'
    <3>1. NextRow(p, e) /\ (SetStatus(e, "pending") \/ UNCHANGED row)
      BY <2>8 DEF ExecuteFails, StopEvent, GiveBack
    <3>2. /\ row' \in [Events -> [status : RowStatuses, late : BOOLEAN]]
          /\ poller' \in [Pollers -> PollerStates]
          /\ faulted' \subseteq Events
      BY <2>8, <3>1, NextRowType, FaultyType, RowTypes
         DEF ExecuteFails, TypeOK
    <3>3. done' \in [Keys -> 0 .. 2] /\ run' \in [Keyed -> RunStatuses]
      BY <2>8, ExecutionTypes DEF ExecuteFails, TypeOK
    <3> QED
      BY <3>2, <3>3 DEF TypeOK
  <2>9. ASSUME NEW p \in Pollers, NEW e \in Events, Finish(p, e)
        PROVE  TypeOK'
    <3>1. row' \in [Events -> [status : RowStatuses, late : BOOLEAN]]
      BY <2>9, RowTypes DEF Finish, ProcessedStatus, TypeOK
    <3>2. faulted' \subseteq Events
      BY <2>9, FaultyType DEF Finish, TypeOK
    <3> QED
      BY <2>9, <3>1, <3>2, NextRowType DEF Finish, TypeOK
  <2>10. ASSUME NEW p \in Pollers, NEW e \in Events, Crash(p, e)
         PROVE  TypeOK'
    BY <2>10, RestingType, PollerType, FaultyType DEF Crash, TypeOK
  <2> QED
    BY <2>1, <2>2, <2>3, <2>4, <2>5, <2>6, <2>7, <2>8, <2>9, <2>10
       DEF Next, Work, Fail, vars, TypeOK
<1> QED
  BY <1>1, <1>2, PTL DEF Spec
-----------------------------------------------------------------------------
(***************************************************************************)
(* Executions.  A run stands between the pollers: whoever is executing an  *)
(* action with a key has inserted its run, nobody has executed it before,  *)
(* and nobody else is executing it.                                        *)
(***************************************************************************)
StartedFirst ==
    \A p \in Pollers : \A k \in poller[p].doing \cap Keyed :
      run[k] # "none" /\ done[k] = 0

AloneInAction ==
    \A p, q \in Pollers :
      p # q => poller[p].doing \cap poller[q].doing \cap Keyed = {}

DoneWasStarted ==
    \A k \in Keyed : done[k] <= 1 /\ (done[k] = 1 => run[k] # "none")

ExecutionInv == StartedFirst /\ AloneInAction /\ DoneWasStarted

\* An execution happens once because its poller is the only one at it.
LEMMA ExecutionStep ==
    ASSUME TypeOK, ExecutionInv, NEW p \in Pollers, NEW k \in Keys,
           poller[p].doing = {k},
           CountExecution(k) \/ UNCHANGED done,
           NEW status \in {"succeeded", "failed"}, Mark(k, status),
           \A q \in Pollers \ {p} : poller'[q].doing = poller[q].doing,
           poller'[p].doing = {}
    PROVE  ExecutionInv'
<1> USE OutboxAssumption
<1>1. \A j \in Keyed : run[j] # "none" => run'[j] # "none"
  BY DEF Mark, TypeOK
<1>2. \A j \in Keyed : j # k => done'[j] = done[j]
  BY DEF CountExecution, TypeOK
<1>3. k \in Keyed => /\ run[k] # "none" /\ done[k] = 0
                     /\ done'[k] \in {0, 1}
  BY DEF ExecutionInv, StartedFirst, CountExecution, TypeOK
<1>4. \A q \in Pollers \ {p} : \A j \in poller[q].doing \cap Keyed : j # k
  BY DEF ExecutionInv, AloneInAction
<1>5. StartedFirst'
  BY <1>1, <1>2, <1>4 DEF ExecutionInv, StartedFirst
<1>6. AloneInAction'
  BY DEF ExecutionInv, AloneInAction
<1>7. DoneWasStarted'
  BY <1>1, <1>2, <1>3 DEF ExecutionInv, DoneWasStarted
<1> QED
  BY <1>5, <1>6, <1>7 DEF ExecutionInv

\* Steps that execute nothing and start nothing.
LEMMA NoExecution ==
    ASSUME ExecutionInv, UNCHANGED <<run, done>>,
           \A q \in Pollers : poller'[q].doing \cap Keyed
                                \subseteq poller[q].doing
    PROVE  ExecutionInv'
BY DEF ExecutionInv, StartedFirst, AloneInAction, DoneWasStarted

LEMMA NextRowDoing ==
    ASSUME TypeOK, NEW p \in Pollers, NEW e \in Events, NextRow(p, e)
    PROVE  /\ poller'[p].doing = {}
           /\ \A q \in Pollers \ {p} : poller'[q] = poller[q]
           /\ poller'[p].batch = poller[p].batch \ {e}
           /\ poller'[p].step # "act"
BY DEF NextRow, TypeOK

(***************************************************************************)
(* An action with a dedup key is executed at most once.                    *)
(***************************************************************************)
THEOREM AtMostOnce == Spec => []RunsAtMostOnce
<1> USE OutboxAssumption
<1>1. Init => ExecutionInv
  BY DEF Init, ExecutionInv, StartedFirst, AloneInAction, DoneWasStarted,
         Resting
<1>2. TypeOK /\ ExecutionInv /\ [Next]_vars => ExecutionInv'
  <2> SUFFICES ASSUME TypeOK, ExecutionInv, [Next]_vars PROVE ExecutionInv'
    OBVIOUS
  <2>1. ASSUME NEW e \in Events,
               Publish(e) \/ LeaseEnds(e) \/ LeaseRunsOut(e)
        PROVE  ExecutionInv'
    BY <2>1, NoExecution DEF Publish, LeaseEnds, LeaseRunsOut
  <2>2. ASSUME NEW p \in Pollers, Tick(p) PROVE ExecutionInv'
    BY <2>2, NoExecution DEF Tick, TypeOK
  <2>3. ASSUME NEW p \in Pollers, FetchAndClaimBatch(p) PROVE ExecutionInv'
    BY <2>3, NoExecution DEF FetchAndClaimBatch, Resting, TypeOK
  <2>4. ASSUME NEW p \in Pollers, NEW e \in Events, Handle(p, e)
        PROVE  ExecutionInv'
    BY <2>4, NoExecution DEF Handle, TypeOK
  <2>5. ASSUME NEW p \in Pollers, NEW e \in Events,
               \/ HandleBroken(p, e) \/ HandleFails(p, e)
               \/ StartRefused(p, e) \/ Finish(p, e)
        PROVE  ExecutionInv'
    <3>1. NextRow(p, e) /\ UNCHANGED <<run, done>>
      BY <2>5 DEF HandleBroken, HandleFails, StartRefused, Finish, GiveBack
    <3> QED
      BY <3>1, NextRowDoing, NoExecution
  <2>6. ASSUME NEW p \in Pollers, NEW k \in Keys, StartRun(p, k)
        PROVE  ExecutionInv'
    <3>1. k \in Keyed /\ run[k] = "none" /\ done[k] = 0
      BY <2>6 DEF StartRun, NotStarted, ExecutionInv, DoneWasStarted, TypeOK
    <3>2. \A q \in Pollers : k \notin poller[q].doing
      BY <3>1 DEF ExecutionInv, StartedFirst
    <3>3. /\ run' = [run EXCEPT ![k] = "running"] /\ done' = done
          /\ poller'[p].doing = {k}
          /\ \A q \in Pollers \ {p} : poller'[q] = poller[q]
      BY <2>6 DEF StartRun, TypeOK
    <3>4. run'[k] = "running" /\ \A j \in Keyed \ {k} : run'[j] = run[j]
      BY <3>1, <3>3 DEF TypeOK
    <3>5. StartedFirst'
      BY <3>1, <3>2, <3>3, <3>4 DEF ExecutionInv, StartedFirst
    <3>6. AloneInAction'
      BY <3>2, <3>3 DEF ExecutionInv, AloneInAction
    <3>7. DoneWasStarted'
      BY <3>1, <3>3, <3>4 DEF ExecutionInv, DoneWasStarted
    <3> QED
      BY <3>5, <3>6, <3>7 DEF ExecutionInv
  <2>7. ASSUME NEW p \in Pollers, NEW k \in Keys, StartUnkeyed(p, k)
        PROVE  ExecutionInv'
    <3>1. poller'[p].doing \cap Keyed = {}
      BY <2>7 DEF StartUnkeyed, TypeOK
    <3>2. \A q \in Pollers \ {p} : poller'[q] = poller[q]
      BY <2>7 DEF StartUnkeyed, TypeOK
    <3> QED
      BY <2>7, <3>1, <3>2, NoExecution DEF StartUnkeyed
  <2>8. ASSUME NEW p \in Pollers, NEW k \in Keys, Execute(p, k)
        PROVE  ExecutionInv'
    <3>1. /\ poller'[p].doing = {}
          /\ \A q \in Pollers \ {p} : poller'[q] = poller[q]
      BY <2>8 DEF Execute, TypeOK
    <3> QED
      BY <2>8, <3>1, ExecutionStep DEF Execute
  <2>9. ASSUME NEW p \in Pollers, NEW e \in Events, NEW k \in Keys,
               ExecuteFails(p, e, k)
        PROVE  ExecutionInv'
    <3>1. NextRow(p, e)
      BY <2>9 DEF ExecuteFails, StopEvent, GiveBack
    <3> QED
      BY <2>9, <3>1, NextRowDoing, ExecutionStep DEF ExecuteFails
  <2>10. ASSUME NEW p \in Pollers, NEW e \in Events, Crash(p, e)
         PROVE  ExecutionInv'
    BY <2>10, NoExecution DEF Crash, Resting, TypeOK
  <2> QED
    BY <2>1, <2>2, <2>3, <2>4, <2>5, <2>6, <2>7, <2>8, <2>9, <2>10,
       NoExecution DEF Next, Work, Fail, vars
<1>3. ExecutionInv => RunsAtMostOnce
  BY DEF ExecutionInv, DoneWasStarted, RunsAtMostOnce
<1> QED
  BY <1>1, <1>2, <1>3, TypeCorrect, PTL DEF Spec
-----------------------------------------------------------------------------
(***************************************************************************)
(* Claims.  A row whose event met no failure is in status processing, with *)
(* a running lease, as long as a poller holds it, so no other poller can   *)
(* claim it.                                                               *)
(***************************************************************************)
HeldIsClaimed ==
    \A p \in Pollers : \A e \in poller[p].batch \ faulted :
      row[e].status = "processing" /\ ~row[e].late

ClaimInv == HeldIsClaimed /\ ClaimsAreExclusive

\* Steps that hold no more rows and touch only rows nobody else holds.
LEMMA ClaimStep ==
    ASSUME ClaimInv, faulted \subseteq faulted',
           \A q \in Pollers : poller'[q].batch \subseteq poller[q].batch,
           \A q \in Pollers : \A e \in poller'[q].batch \ faulted' :
             row'[e] = row[e]
    PROVE  ClaimInv'
BY DEF ClaimInv, HeldIsClaimed, ClaimsAreExclusive

\* A poller that is done with a row changes a row nobody else holds.
LEMMA ClaimGivenBack ==
    ASSUME TypeOK, ClaimInv, NEW p \in Pollers, NEW e \in Events,
           InHand(p, e), NextRow(p, e), faulted \subseteq faulted',
           NEW status,
           SetStatus(e, status) \/ UNCHANGED row
    PROVE  ClaimInv'
<1>1. \A q \in Pollers : poller'[q].batch \subseteq poller[q].batch
  BY NextRowDoing
<1>2. \A q \in Pollers : \A f \in poller'[q].batch \ faulted' : f # e
  <2>1. e \notin poller'[p].batch
    BY NextRowDoing
  <2>2. \A q \in Pollers \ {p} : e \in poller[q].batch => e \in faulted
    BY DEF ClaimInv, ClaimsAreExclusive, InHand
  <2> QED
    BY <2>1, <2>2, NextRowDoing
<1>3. \A q \in Pollers : poller'[q].batch \subseteq Events
  BY <1>1 DEF TypeOK, PollerStates
<1>4. \A f \in Events : f # e => row'[f] = row[f]
  BY DEF SetStatus, TypeOK
<1> QED
  BY <1>1, <1>2, <1>3, <1>4, ClaimStep

(***************************************************************************)
(* Two pollers hold one row only after a failure of its event.             *)
(***************************************************************************)
THEOREM ExclusiveClaims == Spec => []ClaimsAreExclusive
<1> USE OutboxAssumption
<1>1. Init => ClaimInv
  BY DEF Init, ClaimInv, HeldIsClaimed, ClaimsAreExclusive, Resting
<1>2. TypeOK /\ ClaimInv /\ [Next]_vars => ClaimInv'
  <2> SUFFICES ASSUME TypeOK, ClaimInv, [Next]_vars PROVE ClaimInv'
    OBVIOUS
  <2>0. \A q \in Pollers : poller[q].batch \subseteq Events
    BY DEF TypeOK, PollerStates
  <2>1. ASSUME NEW e \in Events, Publish(e) \/ LeaseEnds(e)
        PROVE  ClaimInv'
    <3>1. /\ UNCHANGED <<poller, faulted>>
          /\ \A f \in Events : f # e => row'[f] = row[f]
      BY <2>1 DEF Publish, LeaseEnds, SetStatus, TypeOK
    <3>2. \A q \in Pollers : e \in poller[q].batch => e \in faulted
      BY <2>1 DEF Publish, LeaseEnds, Held, ClaimInv, HeldIsClaimed
    <3> QED
      BY <2>0, <3>1, <3>2, ClaimStep
  <2>2. ASSUME NEW e \in Events, LeaseRunsOut(e) PROVE ClaimInv'
    <3>1. /\ UNCHANGED poller /\ faulted' = faulted \cup {e}
          /\ \A f \in Events : f # e => row'[f] = row[f]
      BY <2>2 DEF LeaseRunsOut, Faulty, TypeOK
    <3> QED
      BY <2>0, <3>1, ClaimStep
  <2>3. ASSUME NEW p \in Pollers, Tick(p) PROVE ClaimInv'
    <3>1. /\ UNCHANGED faulted
          /\ \A q \in Pollers : poller'[q].batch = poller[q].batch
      BY <2>3 DEF Tick, TypeOK
    <3>2. \A q \in Pollers : \A e \in poller[q].batch \ faulted :
            row'[e] = row[e]
      BY <2>0, <2>3 DEF Tick, RequeueStuck, ClaimInv, HeldIsClaimed
    <3> QED
      BY <3>1, <3>2, ClaimStep
  <2>4. ASSUME NEW p \in Pollers, FetchAndClaimBatch(p) PROVE ClaimInv'
    <3>1. PICK batch \in SUBSET Events :
            /\ IsBatch(batch)
            /\ MarkClaimed(batch)
            /\ poller' = [poller EXCEPT ![p] =
                 [Resting EXCEPT
                    !.step  = IF batch = {} THEN "idle" ELSE "begin",
                    !.batch = batch]]
      BY <2>4 DEF FetchAndClaimBatch
    <3>2. /\ UNCHANGED faulted
          /\ poller'[p].batch = batch
          /\ \A q \in Pollers \ {p} : poller'[q] = poller[q]
      BY <2>4, <3>1 DEF FetchAndClaimBatch, Resting, TypeOK
    <3>3. \A e \in batch : row[e].status = "pending"
      BY <3>1 DEF IsBatch, Pending
    <3>4. \A q \in Pollers : poller[q].batch \cap batch \subseteq faulted
      BY <3>3 DEF ClaimInv, HeldIsClaimed
    <3>5. \A e \in Events : row'[e] = IF e \in batch
                                      THEN [status |-> "processing",
                                            late |-> FALSE]
                                      ELSE row[e]
      BY <3>1 DEF MarkClaimed
    <3>6. HeldIsClaimed'
      <4>1. ASSUME NEW q \in Pollers, NEW e \in poller'[q].batch \ faulted
            PROVE  row'[e].status = "processing" /\ ~row'[e].late
        <5>1. e \in Events
          BY <2>0, <3>2
        <5>2. CASE e \in batch
          BY <3>5, <5>1, <5>2
        <5>3. CASE e \notin batch
          BY <3>2, <3>5, <5>1, <5>3 DEF ClaimInv, HeldIsClaimed
        <5> QED
          BY <5>2, <5>3
      <4> QED
        BY <3>2, <4>1 DEF HeldIsClaimed
    <3>7. ClaimsAreExclusive'
      BY <3>2, <3>4 DEF ClaimInv, ClaimsAreExclusive
    <3> QED
      BY <3>6, <3>7 DEF ClaimInv
  <2>5. ASSUME NEW p \in Pollers, NEW e \in Events,
               \/ HandleBroken(p, e) \/ HandleFails(p, e)
               \/ StartRefused(p, e) \/ Finish(p, e)
               \/ \E k \in Keys : ExecuteFails(p, e, k)
        PROVE  ClaimInv'
    <3>1. /\ InHand(p, e) /\ NextRow(p, e)
          /\ faulted \subseteq faulted'
          /\ \/ SetStatus(e, "pending") \/ SetStatus(e, "processed")
             \/ UNCHANGED row
      BY <2>5 DEF HandleBroken, HandleFails, StartRefused, Finish,
                  ExecuteFails, StopEvent, GiveBack, Acting, Faulty,
                  ProcessedStatus
    <3> QED
      BY <3>1, ClaimGivenBack
  <2>6. ASSUME NEW p \in Pollers, NEW e \in Events, Handle(p, e)
        PROVE  ClaimInv'
    BY <2>6, ClaimStep DEF Handle, TypeOK
  <2>7. ASSUME NEW p \in Pollers, NEW k \in Keys,
               StartRun(p, k) \/ StartUnkeyed(p, k) \/ Execute(p, k)
        PROVE  ClaimInv'
    <3>1. /\ UNCHANGED <<row, faulted>>
          /\ \A q \in Pollers : poller'[q].batch = poller[q].batch
      BY <2>7 DEF StartRun, StartUnkeyed, Execute, TypeOK, PollerStates
    <3> QED
      BY <3>1, ClaimStep
  <2>8. ASSUME NEW p \in Pollers, NEW e \in Events, Crash(p, e)
        PROVE  ClaimInv'
    <3>1. /\ poller'[p].batch = {} /\ faulted \subseteq faulted'
          /\ \A q \in Pollers \ {p} : poller'[q] = poller[q]
          /\ UNCHANGED row
      BY <2>8 DEF Crash, Faulty, Resting, TypeOK
    <3> QED
      BY <3>1, ClaimStep
  <2> QED
    <3>1. CASE UNCHANGED vars
      BY <3>1, ClaimStep DEF vars
    <3> QED
      BY <2>1, <2>2, <2>3, <2>4, <2>5, <2>6, <2>7, <2>8, <3>1
         DEF Next, Work, Fail
<1>3. ClaimInv => ClaimsAreExclusive
  BY DEF ClaimInv
<1> QED
  BY <1>1, <1>2, <1>3, TypeCorrect, PTL DEF Spec
-----------------------------------------------------------------------------
(***************************************************************************)
(* Completion.  Of the row in hand, every action that is no longer left to *)
(* do has been executed.                                                   *)
(***************************************************************************)
TakenWasDone ==
    \A p \in Pollers : \A e \in Events :
      poller[p].step = "act" /\ InHand(p, e) =>
        \A k \in ActionsOf[e] \ poller[p].left : done[k] >= 1

CompletionInv == TakenWasDone /\ ProcessedMeansExecuted

LEMMA DoneGrows ==
    ASSUME TypeOK, [Next]_vars
    PROVE  \A k \in Keys : done[k] >= 1 => done'[k] >= 1
<1>1. ASSUME NEW k \in Keys, CountExecution(k)
      PROVE  \A j \in Keys : done[j] >= 1 => done'[j] >= 1
  BY <1>1 DEF CountExecution, TypeOK
<1>2. CASE UNCHANGED done
  BY <1>2
<1> QED
  BY <1>1, <1>2
     DEF Next, Work, Fail, vars, Publish, LeaseEnds, LeaseRunsOut, Tick,
         FetchAndClaimBatch, Handle, HandleBroken, StartRefused, Finish,
         StartRun, StartUnkeyed, Execute, HandleFails, ExecuteFails, Crash

\* Only one row is in hand.
LEMMA OneInHand ==
    ASSUME NEW p \in Pollers, NEW e \in Events, NEW f \in Events,
           InHand(p, e), InHand(p, f)
    PROVE  e = f
BY OutboxAssumption DEF InHand

(***************************************************************************)
(* An event is processed only when all its actions have been executed.     *)
(***************************************************************************)
THEOREM CompleteWhenProcessed == Spec => []ProcessedMeansExecuted
<1> USE OutboxAssumption
<1>1. Init => CompletionInv
  BY DEF Init, CompletionInv, TakenWasDone, ProcessedMeansExecuted, Resting
<1>2. TypeOK /\ CompletionInv /\ [Next]_vars => CompletionInv'
  <2> SUFFICES ASSUME TypeOK, CompletionInv, [Next]_vars
               PROVE  CompletionInv'
    OBVIOUS
  <2>1. \A k \in Keys : done[k] >= 1 => done'[k] >= 1
    BY DoneGrows
  <2>2. \A e \in Events : ActionsOf[e] \subseteq Keys
    OBVIOUS
  <2> DEFINE OldRows == \A e \in Events : row'[e].status = "processed" =>
                                 row[e].status = "processed"
  <2>4. ASSUME OldRows PROVE ProcessedMeansExecuted'
    BY <2>1, <2>2, <2>4 DEF CompletionInv, ProcessedMeansExecuted
  <2>5. ASSUME NEW p \in Pollers, NEW e \in Events, Finish(p, e)
        PROVE  CompletionInv'
    <3>1. /\ poller[p].step = "act" /\ InHand(p, e) /\ poller[p].left = {}
          /\ NextRow(p, e)
      BY <2>5 DEF Finish, Acting
    <3>2. \A k \in ActionsOf[e] : done'[k] >= 1
      BY <2>1, <2>2, <3>1 DEF CompletionInv, TakenWasDone
    <3>3. \A f \in Events : f # e => row'[f] = row[f]
      BY <2>5 DEF Finish, SetStatus, TypeOK
    <3>4. ProcessedMeansExecuted'
      BY <2>1, <2>2, <3>2, <3>3 DEF CompletionInv, ProcessedMeansExecuted
    <3>5. \A q \in Pollers : poller'[q].step # "act" \/ UNCHANGED poller[q]
      BY <3>1, NextRowDoing
    <3>6. TakenWasDone'
      BY <2>1, <2>2, <3>5 DEF CompletionInv, TakenWasDone, InHand
    <3> QED
      BY <3>4, <3>6 DEF CompletionInv
  <2>6. ASSUME NEW p \in Pollers, NEW e \in Events, Handle(p, e)
        PROVE  CompletionInv'
    <3>1. /\ poller'[p].left = ActionsOf[e]
          /\ poller'[p].batch = poller[p].batch
          /\ \A q \in Pollers \ {p} : poller'[q] = poller[q]
          /\ InHand(p, e) /\ UNCHANGED row
      BY <2>6 DEF Handle, TypeOK
    <3>2. \A f \in Events : InHand(p, f)' => f = e
      BY <3>1, OneInHand DEF InHand
    <3>3. TakenWasDone'
      BY <2>1, <2>2, <3>1, <3>2 DEF CompletionInv, TakenWasDone, InHand
    <3> QED
      BY <2>4, <3>1, <3>3 DEF CompletionInv
  <2>7. ASSUME NEW p \in Pollers, NEW k \in Keys, Execute(p, k)
        PROVE  CompletionInv'
    <3>1. /\ done'[k] >= 1
          /\ poller'[p].left = poller[p].left \ {k}
          /\ poller'[p].batch = poller[p].batch
          /\ poller'[p].step = poller[p].step
          /\ \A q \in Pollers \ {p} : poller'[q] = poller[q]
          /\ UNCHANGED row
      BY <2>7 DEF Execute, CountExecution, TypeOK
    <3>2. TakenWasDone'
      BY <2>1, <2>2, <3>1 DEF CompletionInv, TakenWasDone, InHand
    <3> QED
      BY <2>4, <3>1, <3>2 DEF CompletionInv
  <2>8. ASSUME NEW p \in Pollers, NEW e \in Events,
               \/ HandleBroken(p, e) \/ HandleFails(p, e)
               \/ StartRefused(p, e) \/ \E k \in Keys : ExecuteFails(p, e, k)
        PROVE  CompletionInv'
    <3>1. NextRow(p, e) /\ (SetStatus(e, "pending") \/ UNCHANGED row)
      BY <2>8 DEF HandleBroken, HandleFails, StartRefused, ExecuteFails,
                  StopEvent, GiveBack
    <3>2. OldRows
      BY <3>1 DEF SetStatus, TypeOK
    <3>3. \A q \in Pollers : poller'[q].step # "act" \/ UNCHANGED poller[q]
      BY <3>1, NextRowDoing
    <3>4. TakenWasDone'
      BY <2>1, <2>2, <3>3 DEF CompletionInv, TakenWasDone, InHand
    <3> QED
      BY <2>4, <3>2, <3>4 DEF CompletionInv
  <2>9. ASSUME NEW p \in Pollers,
               \/ Tick(p) \/ FetchAndClaimBatch(p)
               \/ \E e \in Events : Crash(p, e)
        PROVE  CompletionInv'
    <3>1. OldRows
      <4>1. RequeueStuck => OldRows
        BY DEF RequeueStuck
      <4>2. ASSUME NEW batch \in SUBSET Events, MarkClaimed(batch)
            PROVE  OldRows
        BY <4>2 DEF MarkClaimed
      <4> QED
        BY <2>9, <4>1, <4>2 DEF Tick, FetchAndClaimBatch, Crash
    <3>2. \A q \in Pollers : poller'[q].step # "act" \/ UNCHANGED poller[q]
      <4>1. ASSUME NEW new, poller' = [poller EXCEPT ![p] = new],
                   new.step # "act"
            PROVE  \A q \in Pollers : \/ poller'[q].step # "act"
                                      \/ UNCHANGED poller[q]
        BY <4>1 DEF TypeOK
      <4>2. CASE Tick(p)
        BY <4>2 DEF Tick, TypeOK, PollerStates
      <4>3. CASE FetchAndClaimBatch(p)
        BY <4>1, <4>3 DEF FetchAndClaimBatch, Resting
      <4>4. CASE \E e \in Events : Crash(p, e)
        BY <4>1, <4>4 DEF Crash, Resting
      <4> QED
        BY <2>9, <4>2, <4>3, <4>4
    <3>3. TakenWasDone'
      BY <2>1, <2>2, <3>2 DEF CompletionInv, TakenWasDone, InHand
    <3> QED
      BY <2>4, <3>1, <3>3 DEF CompletionInv
  <2>11. ASSUME NEW p \in Pollers, NEW k \in Keys,
                StartRun(p, k) \/ StartUnkeyed(p, k)
         PROVE  CompletionInv'
    <3>1. OldRows
      BY <2>11 DEF StartRun, StartUnkeyed
    <3>2. /\ poller'[p].batch = poller[p].batch
          /\ poller'[p].left = poller[p].left
          /\ poller'[p].step = poller[p].step
          /\ \A q \in Pollers \ {p} : poller'[q] = poller[q]
      BY <2>11 DEF StartRun, StartUnkeyed, TypeOK, PollerStates
    <3>3. TakenWasDone'
      BY <2>1, <2>2, <3>2 DEF CompletionInv, TakenWasDone, InHand
    <3> QED
      BY <2>4, <3>1, <3>3 DEF CompletionInv
  <2>10. ASSUME NEW e \in Events,
                Publish(e) \/ LeaseEnds(e) \/ LeaseRunsOut(e)
         PROVE  CompletionInv'
    <3>1. OldRows /\ UNCHANGED poller
      BY <2>10 DEF Publish, LeaseEnds, LeaseRunsOut, SetStatus, TypeOK
    <3>2. TakenWasDone'
      BY <2>1, <2>2, <3>1 DEF CompletionInv, TakenWasDone, InHand
    <3> QED
      BY <2>4, <3>1, <3>2 DEF CompletionInv
  <2>12. CASE UNCHANGED vars
    BY <2>12 DEF vars, CompletionInv, TakenWasDone, ProcessedMeansExecuted,
                 InHand
  <2> QED
    BY <2>5, <2>6, <2>7, <2>8, <2>9, <2>10, <2>11, <2>12
       DEF Next, Work, Fail
<1>3. CompletionInv => ProcessedMeansExecuted
  BY DEF CompletionInv
<1> QED
  BY <1>1, <1>2, <1>3, TypeCorrect, PTL DEF Spec
-----------------------------------------------------------------------------
(***************************************************************************)
(* Exactly once.  The two results above together: when an event is         *)
(* processed, each of its actions with a dedup key was executed once.      *)
(***************************************************************************)
ProcessedExactlyOnce ==
    \A e \in Events :
      row[e].status = "processed" =>
        \A k \in ActionsOf[e] \cap Keyed : done[k] = 1

THEOREM ExactlyOnce == Spec => []ProcessedExactlyOnce
<1>1. TypeOK /\ RunsAtMostOnce /\ ProcessedMeansExecuted
        => ProcessedExactlyOnce
  BY OutboxAssumption
     DEF TypeOK, RunsAtMostOnce, ProcessedMeansExecuted, ProcessedExactlyOnce
<1> QED
  BY <1>1, TypeCorrect, AtMostOnce, CompleteWhenProcessed, PTL
-----------------------------------------------------------------------------
(***************************************************************************)
(* Duplicates.  NoDuplicates, which the comment on fetchAndClaimBatch      *)
(* promises, has a counterexample; this shows that there is no other.  As  *)
(* long as no lease is over while a poller still holds the row, whatever   *)
(* else fails and however often instances die, no row is held twice.       *)
(***************************************************************************)
HoldersAreInTime == \A e \in Events : Held(e) => ~row[e].late

HeldIsProcessing ==
    \A e \in Events : Held(e) => row[e].status = "processing"

TimelyInv == HeldIsProcessing /\ NoDuplicates

\* Steps that hold no more rows and leave the rows still held alone.
LEMMA TimelyStep ==
    ASSUME TypeOK, TimelyInv,
           \A q \in Pollers : poller'[q].batch \subseteq poller[q].batch,
           \A q \in Pollers : \A e \in poller'[q].batch :
             row'[e].status = row[e].status
    PROVE  TimelyInv'
<1>1. \A q \in Pollers : poller[q].batch \subseteq Events
  BY DEF TypeOK, PollerStates
<1> QED
  BY <1>1 DEF TimelyInv, HeldIsProcessing, NoDuplicates, Held

THEOREM TimelyClaimsAreExclusive ==
    Spec /\ []HoldersAreInTime => []NoDuplicates
<1> USE OutboxAssumption
<1>1. Init => TimelyInv
  BY DEF Init, TimelyInv, HeldIsProcessing, Held, NoDuplicates, Resting
<1>2. TypeOK /\ HoldersAreInTime /\ TimelyInv /\ [Next]_vars => TimelyInv'
  <2> SUFFICES ASSUME TypeOK, HoldersAreInTime, TimelyInv, [Next]_vars
               PROVE  TimelyInv'
    OBVIOUS
  <2>0. \A q \in Pollers : poller[q].batch \subseteq Events
    BY DEF TypeOK, PollerStates
  <2>1. ASSUME NEW e \in Events,
               Publish(e) \/ LeaseEnds(e) \/ LeaseRunsOut(e)
        PROVE  TimelyInv'
    <3>1. CASE Publish(e)
      <4>1. ~Held(e)
        BY <3>1 DEF Publish, TimelyInv, HeldIsProcessing
      <4>2. /\ UNCHANGED poller
            /\ \A f \in Events : f # e => row'[f] = row[f]
        BY <3>1 DEF Publish, SetStatus, TypeOK
      <4> QED
        BY <2>0, <4>1, <4>2, TimelyStep DEF Held
    <3>2. CASE LeaseEnds(e) \/ LeaseRunsOut(e)
      <4>1. /\ UNCHANGED poller
            /\ \A f \in Events : row'[f].status = row[f].status
        BY <3>2 DEF LeaseEnds, LeaseRunsOut, TypeOK
      <4> QED
        BY <2>0, <4>1, TimelyStep
    <3> QED
      BY <2>1, <3>1, <3>2
  <2>2. ASSUME NEW p \in Pollers, Tick(p) PROVE TimelyInv'
    <3>1. \A q \in Pollers : poller'[q].batch = poller[q].batch
      BY <2>2 DEF Tick, TypeOK
    <3>2. \A q \in Pollers : \A e \in poller[q].batch : row'[e] = row[e]
      BY <2>0, <2>2 DEF Tick, RequeueStuck, HoldersAreInTime, Held
    <3> QED
      BY <3>1, <3>2, TimelyStep
  <2>3. ASSUME NEW p \in Pollers, FetchAndClaimBatch(p) PROVE TimelyInv'
    <3>1. PICK batch \in SUBSET Events :
            /\ IsBatch(batch)
            /\ MarkClaimed(batch)
            /\ poller' = [poller EXCEPT ![p] =
                 [Resting EXCEPT
                    !.step  = IF batch = {} THEN "idle" ELSE "begin",
                    !.batch = batch]]
      BY <2>3 DEF FetchAndClaimBatch
    <3>2. /\ poller'[p].batch = batch
          /\ \A q \in Pollers \ {p} : poller'[q] = poller[q]
      BY <3>1 DEF Resting, TypeOK
    <3>3. \A q \in Pollers : poller[q].batch \cap batch = {}
      BY <3>1 DEF IsBatch, Pending, TimelyInv, HeldIsProcessing, Held
    <3>4. \A e \in Events :
            row'[e] = IF e \in batch
                        THEN [status |-> "processing", late |-> FALSE]
                        ELSE row[e]
      BY <3>1 DEF MarkClaimed
    <3>5. HeldIsProcessing'
      BY <3>2, <3>4 DEF TimelyInv, HeldIsProcessing, Held
    <3>6. NoDuplicates'
      BY <3>2, <3>3 DEF TimelyInv, NoDuplicates
    <3> QED
      BY <3>5, <3>6 DEF TimelyInv
  <2>4. ASSUME NEW p \in Pollers, NEW e \in Events,
               \/ HandleBroken(p, e) \/ HandleFails(p, e)
               \/ StartRefused(p, e) \/ Finish(p, e)
               \/ \E k \in Keys : ExecuteFails(p, e, k)
        PROVE  TimelyInv'
    <3>1. /\ InHand(p, e) /\ NextRow(p, e)
          /\ \/ SetStatus(e, "pending") \/ SetStatus(e, "processed")
             \/ UNCHANGED row
      BY <2>4 DEF HandleBroken, HandleFails, StartRefused, Finish,
                  ExecuteFails, StopEvent, GiveBack, Acting, ProcessedStatus
    <3>2. \A q \in Pollers : poller'[q].batch \subseteq poller[q].batch
      BY <3>1, NextRowDoing
    <3>3. \A q \in Pollers : e \notin poller'[q].batch
      BY <3>1, NextRowDoing DEF TimelyInv, NoDuplicates, InHand
    <3>4. \A f \in Events : f # e => row'[f] = row[f]
      BY <3>1 DEF SetStatus, TypeOK
    <3> QED
      BY <2>0, <3>2, <3>3, <3>4, TimelyStep
  <2>5. ASSUME NEW p \in Pollers, NEW e \in Events, Handle(p, e)
        PROVE  TimelyInv'
    BY <2>5, TimelyStep DEF Handle, TypeOK
  <2>6. ASSUME NEW p \in Pollers, NEW k \in Keys,
               StartRun(p, k) \/ StartUnkeyed(p, k) \/ Execute(p, k)
        PROVE  TimelyInv'
    <3>1. /\ UNCHANGED row
          /\ \A q \in Pollers : poller'[q].batch = poller[q].batch
      BY <2>6 DEF StartRun, StartUnkeyed, Execute, TypeOK, PollerStates
    <3> QED
      BY <3>1, TimelyStep
  <2>7. ASSUME NEW p \in Pollers, NEW e \in Events, Crash(p, e)
        PROVE  TimelyInv'
    <3>1. /\ poller'[p].batch = {} /\ UNCHANGED row
          /\ \A q \in Pollers \ {p} : poller'[q] = poller[q]
      BY <2>7 DEF Crash, Resting, TypeOK
    <3> QED
      BY <3>1, TimelyStep
  <2>8. CASE UNCHANGED vars
    BY <2>8, TimelyStep DEF vars
  <2> QED
    BY <2>1, <2>2, <2>3, <2>4, <2>5, <2>6, <2>7, <2>8 DEF Next, Work, Fail
<1>3. TimelyInv => NoDuplicates
  BY DEF TimelyInv
<1> QED
  BY <1>1, <1>2, <1>3, TypeCorrect, PTL DEF Spec
=============================================================================
