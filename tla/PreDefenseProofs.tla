-------------------------- MODULE PreDefenseProofs --------------------------
(***************************************************************************)
(* Theorems about PreDefense, for any number of rows and of handlers in    *)
(* flight.                                                                 *)
(*                                                                         *)
(* TypeCorrect          rows, queue and requests keep their types.         *)
(* FirstIsHeard         nobody leaves the first pre-defense unheard,       *)
(* CompletedInTimeMoved and a row completed in time means that the project *)
(*                      moved.                                             *)
(* OwnPlansSuffice      what SecondPhaseIsHeard and RepeatStaysInPhase     *)
(*                      need, which have counterexamples,                  *)
(* ApartFinalStaysFinal and what FinalStaysFinal needs.                    *)
(***************************************************************************)
EXTENDS PreDefense, TLAPS

\* The sequences of events a handler may still have to apply.
Plans(pass) ==
    {<<Gate(p, pass)>> : p \in Phases}
    \cup {<<<<"SUBMITTED", p>>, Gate(p, pass)>> : p \in Phases}

LEMMA GateType ==
    ASSUME NEW p \in Phases, NEW pass \in BOOLEAN
    PROVE  Gate(p, pass) \in Events
BY DEF Gate, Events

LEMMA PlansAreEvents ==
    ASSUME NEW pass \in BOOLEAN, NEW todo \in Plans(pass)
    PROVE  /\ todo \in Seq(Events)
           /\ todo # <<>>
           /\ Head(todo) \in Events
           /\ Tail(todo) \in Seq(Events)
           /\ Tail(todo) # <<>> => Tail(todo) \in Plans(pass)
           /\ Tail(todo) = <<>> => \E p \in Phases : Head(todo) = Gate(p, pass)
<1>1. CASE \E p \in Phases : todo = <<Gate(p, pass)>>
  <2>1. PICK p \in Phases : todo = <<Gate(p, pass)>>
      BY <1>1
  <2>2. Gate(p, pass) \in Events
      BY GateType
  <2> QED
      BY <2>1, <2>2
<1>2. CASE \E p \in Phases : todo = <<<<"SUBMITTED", p>>, Gate(p, pass)>>
  <2>1. PICK p \in Phases : todo = <<<<"SUBMITTED", p>>, Gate(p, pass)>>
      BY <1>2
  <2>2. Gate(p, pass) \in Events /\ <<"SUBMITTED", p>> \in Events
      BY GateType DEF Events
  <2>3. /\ Head(todo) = <<"SUBMITTED", p>>
        /\ Tail(todo) = <<Gate(p, pass)>>
        /\ todo \in Seq(Events)
      BY <2>1, <2>2
  <2> QED
      BY <2>2, <2>3 DEF Plans
<1> QED
    BY <1>1, <1>2 DEF Plans

LEMMA PhaseType == ASSUME NEW state PROVE Phase(state) \in Phases
BY DEF Phase, Phases

\* advancePreDefenseCurrentPhase plans for the pre-defense it finds, and
\* finds nothing to do from an upload state only if it was told to.
LEMMA PlanType ==
    ASSUME NEW state \in States, NEW pass \in BOOLEAN, NEW fromUpload \in BOOLEAN
    PROVE  /\ Plan(state, pass, fromUpload) # <<>>
                => Plan(state, pass, fromUpload) \in Plans(pass)
           /\ fromUpload /\ Plan(state, pass, fromUpload) = <<>>
                => state \in {Earlier, After(2)}
<1>1. Phase(state) \in Phases
    BY PhaseType
<1>2. <<Gate(Phase(state), pass)>> \in Plans(pass)
    BY <1>1 DEF Plans
<1>3. <<<<"SUBMITTED", Phase(state)>>, Gate(Phase(state), pass)>> \in Plans(pass)
    BY <1>1 DEF Plans
<1>4. \/ \E p \in Phases : state = Review(p)
      \/ \E p \in Phases : state = Upload(p)
      \/ state \in {Earlier, After(2)}
    BY DEF States
<1>5. \A x, y : <<x>> # <<>> /\ <<x, y>> # <<>>
    OBVIOUS
<1> QED
    BY <1>2, <1>3, <1>4, <1>5 DEF Plan

LEMMA ToType == ASSUME NEW ev \in Events PROVE To(ev) \in States
BY DEF Events, To, States, Phases, After

\* The states in which each pre-defense is behind the project.
LEMMA BeyondFirst ==
    ASSUME NEW state
    PROVE  Beyond(1, state) <=>
               state # Earlier /\ state # Upload(1) /\ state # Review(1)
BY DEF Beyond

LEMMA LeftBoth == ASSUME NEW p \in Phases PROVE Beyond(p, After(2))
BY DEF Phases, Beyond, Earlier, Upload, Review, After

\* No transition takes a project back to a pre-defense it has left.
LEMMA NeverBack ==
    ASSUME NEW p \in Phases, NEW ev \in Events, Beyond(p, From(ev))
    PROVE  Beyond(p, To(ev))
BY DEF Events, Phases, Beyond, From, To, Earlier, Upload, Review, After

\* A pass leaves the pre-defense that a row is about, if no row is about
\* the second one before the project is in it.
LEMMA PassLeaves ==
    ASSUME NEW p \in Phases, NEW q \in Phases,
           Beyond(1, Review(q)) \/ p = 1
    PROVE  Beyond(p, To(Gate(q, TRUE)))
BY DEF Phases, Beyond, To, Gate, Earlier, Upload, Review, After

LEMMA StatesType ==
    /\ \A p \in Phases : Upload(p) \in States /\ Review(p) \in States
    /\ \A p \in Phases, pass \in BOOLEAN : To(Gate(p, pass)) \in States
<1>1. \A p \in Phases : Upload(p) \in States /\ Review(p) \in States
    BY DEF States
<1>2. \A p \in Phases, pass \in BOOLEAN : To(Gate(p, pass)) \in States
    BY ToType, GateType
<1> QED
    BY <1>1, <1>2
-----------------------------------------------------------------------------
\* A handler that is moving the project has a plan to move it by.
PlannedInv ==
    \A h \in Handlers :
        request[h].op = "advance" => request[h].todo \in Plans(request[h].pass)

TypeInv == TypeOK /\ PlannedInv

LEMMA InitTypes == Init => TypeInv
BY DEF Init, TypeInv, PlannedInv, TypeOK, States, Phases, Statuses, Requests, Idle

\* What each kind of request holds.
LEMMA RequestFields ==
    ASSUME TypeOK, NEW h \in Handlers
    PROVE  /\ request[h].op \in {"schedule", "reschedule", "grade", "plan",
                                 "advance", "finish"}
                => request[h].sub \in Submissions
           /\ request[h].op \in {"plan", "advance", "finish"}
                => /\ request[h].pass \in BOOLEAN
                   /\ request[h].by \in {"grade", "complete", "repeat"}
                   /\ request[h].todo \in Seq(Events)
           /\ request[h].op \in {"ensure", "create", "perform"}
                => /\ request[h].phase \in Phases
                   /\ request[h] = [op |-> request[h].op,
                                    phase |-> request[h].phase]
BY DEF TypeOK, Requests, Idle

\* A request that is put down in its type keeps the types.
LEMMA AskTypes ==
    ASSUME TypeInv, NEW h \in Handlers, NEW r \in Requests,
           r.op = "advance" => r.todo \in Plans(r.pass),
           Ask(h, r)
    PROVE  request' \in [Handlers -> Requests] /\ PlannedInv'
<1>1. request' \in [Handlers -> Requests]
    BY DEF TypeInv, TypeOK, Ask
<1>2. request'[h] = r /\ \A g \in Handlers : g # h => request'[g] = request[g]
    BY DEF TypeInv, TypeOK, Ask
<1> QED
    BY <1>1, <1>2 DEF TypeInv, PlannedInv

LEMMA IdleType == Idle \in Requests /\ Idle.op = "none"
BY DEF Requests, Idle

LEMMA StepTypes == TypeInv /\ [Next]_vars => TypeInv'
<1> SUFFICES ASSUME TypeInv, [Next]_vars PROVE TypeInv'
    OBVIOUS
<1>0. TypeOK
    BY DEF TypeInv
<1>1. ASSUME NEW h \in Handlers, NEW s \in Submissions, SubmitPreDefense(h, s)
      PROVE  TypeInv'
    BY <1>1, PhaseType
    DEF SubmitPreDefense, Insert, Save, Statuses, TypeInv, TypeOK, PlannedInv
<1>2. ASSUME NEW h \in Handlers, NEW s \in Submissions, ReadRow(h, s)
      PROVE  TypeInv'
  <2>1. PICK op \in {"schedule", "reschedule", "grade"} :
            Ask(h, [op |-> op, sub |-> s])
      BY <1>2 DEF ReadRow
  <2>2. [op |-> op, sub |-> s] \in Requests
      BY DEF Requests
  <2>3. request' \in [Handlers -> Requests] /\ PlannedInv'
      BY <2>1, <2>2, AskTypes
  <2> QED
      BY <1>0, <1>2, <2>3 DEF ReadRow, TypeInv, TypeOK
<1>3. ASSUME NEW h \in Handlers, SaveSchedule(h) PROVE TypeInv'
  <2>1. request' \in [Handlers -> Requests] /\ PlannedInv'
      BY <1>3, IdleType, AskTypes DEF SaveSchedule, Answer
  <2> QED
      BY <1>0, <1>3, <2>1 DEF SaveSchedule, Save, Statuses, TypeInv, TypeOK
<1>4. ASSUME NEW h \in Handlers, SaveGrade(h) PROVE TypeInv'
  <2>1. request[h].sub \in Submissions
      BY <1>0, <1>4, RequestFields DEF SaveGrade
  <2>2. /\ Planned(request[h].sub, "grade", TRUE) \in Requests
        /\ Planned(request[h].sub, "grade", TRUE).op = "plan"
      BY <2>1 DEF Planned, Requests
  <2>3. request' \in [Handlers -> Requests] /\ PlannedInv'
      BY <1>4, <2>2, AskTypes DEF SaveGrade
  <2> QED
      BY <1>0, <1>4, <2>1, <2>3
      DEF SaveGrade, Save, Statuses, TypeInv, TypeOK,
          MarkPreDefenseWorkflowSubmissionReviewed
<1>5. ASSUME NEW h \in Handlers, NEW s \in Submissions, NEW pass \in BOOLEAN,
             CompletePreDefense(h, s, pass)
      PROVE  TypeInv'
  <2>1. PICK by \in {"complete", "repeat"} : Ask(h, Planned(s, by, pass))
      BY <1>5 DEF CompletePreDefense
  <2>2. Planned(s, by, pass) \in Requests /\ Planned(s, by, pass).op = "plan"
      BY DEF Planned, Requests
  <2>3. request' \in [Handlers -> Requests] /\ PlannedInv'
      BY <2>1, <2>2, AskTypes
  <2> QED
      BY <1>0, <1>5, <2>3 DEF CompletePreDefense, TypeInv, TypeOK
<1>6. ASSUME NEW h \in Handlers, PlanAdvance(h) PROVE TypeInv'
  <2> DEFINE r == request[h]
             todo == Plan(at, r.pass, r.by # "repeat")
             next == Moving("advance", r, todo)
             last == Moving("finish", r, <<>>)
  <2>1. /\ r.sub \in Submissions /\ r.pass \in BOOLEAN
        /\ r.by \in {"grade", "complete", "repeat"} /\ r.todo \in Seq(Events)
      BY <1>0, <1>6, RequestFields DEF PlanAdvance
  <2>2. at \in States
      BY <1>0 DEF TypeOK
  <2>3. todo # <<>> => todo \in Plans(r.pass) /\ todo \in Seq(Events)
      BY <2>1, <2>2, PlanType, PlansAreEvents
  <2> HIDE DEF todo
  <2>4. /\ todo # <<>> => next \in Requests
        /\ last \in Requests
      BY <2>1, <2>3 DEF Requests, Moving
  <2>6. \/ todo # <<>> /\ Ask(h, next)
        \/ Ask(h, last)
        \/ Ask(h, Idle)
      BY <1>6 DEF PlanAdvance, Answer, todo
  <2>7. next.op = "advance" /\ next.todo = todo /\ next.pass = r.pass
        /\ last.op = "finish"
      BY DEF Moving
  <2> HIDE DEF next, last
  <2>8. request' \in [Handlers -> Requests] /\ PlannedInv'
      BY <2>3, <2>4, <2>6, <2>7, IdleType, AskTypes
  <2>9. early' \subseteq Submissions
      BY <1>0, <1>6, <2>1 DEF PlanAdvance, TypeOK
  <2> QED
      BY <1>0, <1>6, <2>8, <2>9 DEF PlanAdvance, TypeInv, TypeOK
<1>7. ASSUME NEW h \in Handlers, Advance(h) PROVE TypeInv'
  <2> DEFINE r == request[h]
             next == Moving("advance", r, Tail(r.todo))
             last == Moving("finish", r, <<>>)
  <2>1. /\ r.op = "advance"
        /\ r.sub \in Submissions /\ r.pass \in BOOLEAN
        /\ r.by \in {"grade", "complete", "repeat"} /\ r.todo \in Seq(Events)
        /\ r.todo \in Plans(r.pass)
      BY <1>0, <1>7, RequestFields DEF Advance, TypeInv, PlannedInv
  <2>2. /\ Head(r.todo) \in Events
        /\ Tail(r.todo) \in Seq(Events)
        /\ Tail(r.todo) # <<>> => Tail(r.todo) \in Plans(r.pass)
      BY <2>1, PlansAreEvents
  <2>3. at' \in States
      BY <1>7, <2>2, ToType DEF Advance
  <2>4. next \in Requests /\ last \in Requests
      BY <2>1, <2>2 DEF Requests, Moving
  <2>6. \/ Tail(r.todo) # <<>> /\ Ask(h, next)
        \/ Ask(h, last)
        \/ Ask(h, Idle)
      BY <1>7 DEF Advance, Answer
  <2>7. next.todo = Tail(r.todo) /\ next.pass = r.pass /\ last.op = "finish"
      BY DEF Moving
  <2> HIDE DEF next, last
  <2>8. request' \in [Handlers -> Requests] /\ PlannedInv'
      BY <2>2, <2>4, <2>6, <2>7, IdleType, AskTypes
  <2> QED
      BY <1>0, <1>7, <2>3, <2>8 DEF Advance, TypeInv, TypeOK
<1>8. ASSUME NEW h \in Handlers, Finish(h) PROVE TypeInv'
  <2>1. request' \in [Handlers -> Requests] /\ PlannedInv'
      BY <1>8, IdleType, AskTypes DEF Finish, Answer
  <2> QED
      BY <1>0, <1>8, <2>1
      DEF Finish, Save, Statuses, TypeInv, TypeOK,
          MarkPreDefenseWorkflowSubmissionReviewed
<1>9. ASSUME NEW h \in Handlers, Abandon(h) PROVE TypeInv'
  <2>1. request' \in [Handlers -> Requests] /\ PlannedInv'
      BY <1>9, IdleType, AskTypes DEF Abandon, Answer
  <2> QED
      BY <1>0, <1>9, <2>1 DEF Abandon, TypeInv, TypeOK
<1>10. ASSUME NEW h \in Handlers, NEW p \in Phases, SubmitDocumentForStep(h, p)
       PROVE  TypeInv'
  <2>1. [op |-> "ensure", phase |-> p] \in Requests
      BY DEF Requests
  <2>2. request' \in [Handlers -> Requests] /\ PlannedInv'
    <3>1. CASE Ask(h, [op |-> "ensure", phase |-> p])
        BY <2>1, <3>1, AskTypes
    <3>2. CASE UNCHANGED request
        BY <3>2 DEF TypeInv, TypeOK, PlannedInv
    <3> QED
        BY <1>10, <3>1, <3>2 DEF SubmitDocumentForStep
  <2> QED
      BY <1>0, <1>10, <2>2 DEF SubmitDocumentForStep, TypeInv, TypeOK
<1>11. ASSUME NEW h \in Handlers, LookForActive(h) PROVE TypeInv'
  <2>1. request[h].phase \in Phases
        /\ request[h] = [op |-> "ensure", phase |-> request[h].phase]
      BY <1>0, <1>11, RequestFields DEF LookForActive
  <2>2. PICK op \in {"perform", "create"} :
            Ask(h, [op |-> op, phase |-> request[h].phase])
      BY <1>11, <2>1 DEF LookForActive
  <2>3. [op |-> op, phase |-> request[h].phase] \in Requests
      BY <2>1 DEF Requests
  <2>4. request' \in [Handlers -> Requests] /\ PlannedInv'
      BY <2>2, <2>3, AskTypes
  <2> QED
      BY <1>0, <1>11, <2>4 DEF LookForActive, TypeInv, TypeOK
<1>12. ASSUME NEW h \in Handlers, NEW s \in Submissions, CreateScheduled(h, s)
       PROVE  TypeInv'
  <2>1. request[h].phase \in Phases
        /\ request[h] = [op |-> "create", phase |-> request[h].phase]
      BY <1>0, <1>12, RequestFields DEF CreateScheduled
  <2>2. /\ Ask(h, [op |-> "perform", phase |-> request[h].phase])
        /\ [op |-> "perform", phase |-> request[h].phase] \in Requests
      BY <1>12, <2>1 DEF CreateScheduled, Requests
  <2>3. request' \in [Handlers -> Requests] /\ PlannedInv'
      BY <2>2, AskTypes
  <2> QED
      BY <1>0, <1>12, <2>1, <2>3
      DEF CreateScheduled, Insert, Save, Statuses, TypeInv, TypeOK
<1>13. ASSUME NEW h \in Handlers, Perform(h) PROVE TypeInv'
  <2>1. request[h].phase \in Phases
      BY <1>0, <1>13, RequestFields DEF Perform
  <2>2. request' \in [Handlers -> Requests] /\ PlannedInv'
      BY <1>13, IdleType, AskTypes DEF Perform, Answer
  <2> QED
      BY <1>0, <1>13, <2>1, <2>2, StatesType DEF Perform, TypeInv, TypeOK
<1>14. ASSUME NEW p \in Phases, ReviewSubmission(p) PROVE TypeInv'
    BY <1>14 DEF ReviewSubmission, TypeInv, TypeOK, PlannedInv
<1>15. ASSUME NEW p \in Phases, NEW pass \in BOOLEAN, FinalizeReview(p, pass)
       PROVE  TypeInv'
    BY <1>15, StatesType DEF FinalizeReview, TypeInv, TypeOK, PlannedInv
<1>16. CASE UNCHANGED vars
    BY <1>16 DEF vars, TypeInv, TypeOK, PlannedInv
<1>17. CASE ReachPreDefense
    BY <1>17, StatesType
    DEF ReachPreDefense, Phases, TypeInv, TypeOK, PlannedInv
<1> QED
    BY <1>1, <1>2, <1>3, <1>4, <1>5, <1>6, <1>7, <1>8, <1>9, <1>10, <1>11,
       <1>12, <1>13, <1>14, <1>15, <1>16, <1>17
    DEF Next, HandlerStep

(***************************************************************************)
(* Every variable keeps its type.                                          *)
(***************************************************************************)
THEOREM TypeCorrect == Spec => []TypeOK
<1>1. TypeInv => TypeOK
    BY DEF TypeInv
<1> QED
    BY <1>1, InitTypes, StepTypes, PTL DEF Spec
-----------------------------------------------------------------------------
\* What a handler knows that has read its row: the row exists, and a row
\* that is graded was graded in a pre-defense the project was in.
RequestOK(r, state, st, ab, hd, er) ==
    /\ r.op \in {"ensure", "create", "perform"} => Beyond(1, state) \/ r.phase = 1
    /\ r.op \in {"plan", "advance", "finish"} => 1 \in hd
    /\ r.op \in {"schedule", "reschedule", "grade", "plan", "advance", "finish"}
         => st[r.sub] # "none"
    /\ r.op = "finish" /\ r.pass => r.sub \in er \/ Beyond(ab[r.sub], state)

\* No row is about the second pre-defense before the project is in it.
RowOK(s, state, st, ab, hd, er) ==
    /\ Beyond(1, state) \/ ab[s] = 1
    /\ st[s] \in {"graded", "completed", "failed"} => 1 \in hd
    /\ st[s] = "completed" => s \in er \/ Beyond(ab[s], state)

RequestsInv ==
    \A h \in Handlers : RequestOK(request[h], at, status, about, heard, early)

RowsInv == \A s \in Submissions : RowOK(s, at, status, about, heard, early)

IInv == TypeInv /\ RequestsInv /\ RowsInv /\ FirstPhaseIsHeard

\* What no step takes back.
Grows ==
    /\ \A p \in Phases : Beyond(p, at) => Beyond(p, at')
    /\ heard \subseteq heard'
    /\ early \subseteq early'
    /\ \A s \in Submissions :
          status[s] # "none" => status'[s] # "none" /\ about'[s] = about[s]

LEMMA InitIInv == Init => IInv
<1> SUFFICES ASSUME Init PROVE IInv
    OBVIOUS
<1>1. TypeInv
    BY InitTypes
<1>2. ~Beyond(1, Earlier)
    BY BeyondFirst
<1> QED
    BY <1>1, <1>2
    DEF Init, IInv, RequestsInv, RowsInv, FirstPhaseIsHeard, RequestOK, RowOK, Idle

\* The other requests survive a step in which one handler has put down its own.
LEMMA RequestsSurvive ==
    ASSUME IInv, Grows, NEW h \in Handlers, NEW r, Ask(h, r),
           RequestOK(r, at', status', about', heard', early')
    PROVE  RequestsInv'
<1>1. TypeOK /\ 1 \in Phases
    BY DEF IInv, TypeInv, Phases
<1> SUFFICES ASSUME NEW g \in Handlers
             PROVE  RequestOK(request'[g], at', status', about', heard', early')
    BY DEF RequestsInv
<1>2. CASE g = h
    BY <1>1, <1>2 DEF Ask, TypeOK
<1>3. CASE g # h
  <2>1. request'[g] = request[g]
      BY <1>1, <1>3 DEF Ask, TypeOK
  <2>2. RequestOK(request[g], at, status, about, heard, early)
      BY DEF IInv, RequestsInv
  <2>3. request[g].op \in {"schedule", "reschedule", "grade", "plan",
                           "advance", "finish"}
            => request[g].sub \in Submissions /\ about[request[g].sub] \in Phases
      BY <1>1, RequestFields DEF TypeOK
  <2> QED
      BY <1>1, <2>1, <2>2, <2>3 DEF RequestOK, Grows
<1> QED
    BY <1>2, <1>3

LEMMA RequestsStay ==
    ASSUME IInv, Grows, UNCHANGED request
    PROVE  RequestsInv'
<1>1. TypeOK /\ 1 \in Phases
    BY DEF IInv, TypeInv, Phases
<1> SUFFICES ASSUME NEW g \in Handlers
             PROVE  RequestOK(request'[g], at', status', about', heard', early')
    BY DEF RequestsInv
<1>2. RequestOK(request[g], at, status, about, heard, early)
    BY DEF IInv, RequestsInv
<1>3. request[g].op \in {"schedule", "reschedule", "grade", "plan",
                         "advance", "finish"}
          => request[g].sub \in Submissions /\ about[request[g].sub] \in Phases
    BY <1>1, RequestFields DEF TypeOK
<1> QED
    BY <1>1, <1>2, <1>3 DEF RequestOK, Grows

\* The rows survive a step that writes at most one of them.
LEMMA RowsSurvive ==
    ASSUME IInv, Grows, NEW s \in Submissions,
           \A other \in Submissions : other # s =>
               status'[other] = status[other] /\ about'[other] = about[other],
           RowOK(s, at', status', about', heard', early')
    PROVE  RowsInv'
<1> SUFFICES ASSUME NEW other \in Submissions, other # s
             PROVE  RowOK(other, at', status', about', heard', early')
    BY DEF RowsInv
<1>1. about[other] \in Phases /\ 1 \in Phases
    BY DEF IInv, TypeInv, TypeOK, Phases
<1> QED
    BY <1>1 DEF IInv, RowsInv, RowOK, Grows

LEMMA RowsStay ==
    ASSUME IInv, Grows, UNCHANGED <<status, about>>
    PROVE  RowsInv'
<1> SUFFICES ASSUME NEW s \in Submissions
             PROVE  RowOK(s, at', status', about', heard', early')
    BY DEF RowsInv
<1>1. about[s] \in Phases /\ 1 \in Phases
    BY DEF IInv, TypeInv, TypeOK, Phases
<1> QED
    BY <1>1 DEF IInv, RowsInv, RowOK, Grows

LEMMA IdleOK ==
    \A state, st, ab, hd, er : RequestOK(Idle, state, st, ab, hd, er)
BY DEF RequestOK, Idle
-----------------------------------------------------------------------------
\* The steps that leave the project where it is.
LEMMA QuietSteps ==
    ASSUME IInv, NEW h \in Handlers,
           \/ \E s \in Submissions : SubmitPreDefense(h, s) \/ ReadRow(h, s)
                                     \/ CreateScheduled(h, s)
           \/ \E s \in Submissions, pass \in BOOLEAN : CompletePreDefense(h, s, pass)
           \/ \E p \in Phases : SubmitDocumentForStep(h, p)
           \/ SaveSchedule(h) \/ SaveGrade(h) \/ PlanAdvance(h) \/ Finish(h)
           \/ LookForActive(h) \/ Abandon(h)
    PROVE  RequestsInv' /\ RowsInv' /\ FirstPhaseIsHeard'
<1>0. TypeOK /\ 1 \in Phases /\ RequestOK(request[h], at, status, about, heard, early)
    BY DEF IInv, TypeInv, RequestsInv, Phases
<1>1. ASSUME NEW s \in Submissions, SubmitPreDefense(h, s)
      PROVE  RequestsInv' /\ RowsInv' /\ FirstPhaseIsHeard'
  <2>1. Grows
      BY <1>0, <1>1 DEF SubmitPreDefense, Insert, Save, Grows, TypeOK
  <2>2. RowOK(s, at', status', about', heard', early')
      BY <1>0, <1>1 DEF SubmitPreDefense, Insert, Save, TypeOK, RowOK, Phase
  <2>3. \A other \in Submissions : other # s =>
            status'[other] = status[other] /\ about'[other] = about[other]
      BY <1>0, <1>1 DEF SubmitPreDefense, Insert, Save, TypeOK
  <2> QED
      BY <1>1, <2>1, <2>2, <2>3, RowsSurvive, RequestsStay
      DEF SubmitPreDefense, IInv, FirstPhaseIsHeard
<1>2. ASSUME NEW s \in Submissions, ReadRow(h, s)
      PROVE  RequestsInv' /\ RowsInv' /\ FirstPhaseIsHeard'
  <2>1. Grows /\ UNCHANGED <<at, status, about, heard, early>>
      BY <1>2 DEF ReadRow, Grows
  <2>2. PICK op \in {"schedule", "reschedule", "grade"} :
            Ask(h, [op |-> op, sub |-> s])
      BY <1>2 DEF ReadRow
  <2>3. RequestOK([op |-> op, sub |-> s], at', status', about', heard', early')
      BY <1>2, <2>1 DEF ReadRow, RequestOK
  <2> QED
      BY <2>1, <2>2, <2>3, RowsStay, RequestsSurvive DEF IInv, FirstPhaseIsHeard
<1>3. ASSUME NEW s \in Submissions, CreateScheduled(h, s)
      PROVE  RequestsInv' /\ RowsInv' /\ FirstPhaseIsHeard'
  <2>1. request[h].phase \in Phases
        /\ request[h] = [op |-> "create", phase |-> request[h].phase]
      BY <1>0, <1>3, RequestFields DEF CreateScheduled
  <2>2. Ask(h, [op |-> "perform", phase |-> request[h].phase])
      BY <1>3, <2>1 DEF CreateScheduled
  <2>3. Grows
      BY <1>0, <1>3 DEF CreateScheduled, Insert, Save, Grows, TypeOK
  <2>4. Beyond(1, at) \/ request[h].phase = 1
      BY <1>0, <1>3 DEF CreateScheduled, RequestOK
  <2>5. RequestOK([op |-> "perform", phase |-> request[h].phase],
                  at', status', about', heard', early')
      BY <1>3, <2>4 DEF CreateScheduled, RequestOK
  <2>6. RowOK(s, at', status', about', heard', early')
      BY <1>0, <1>3, <2>4 DEF CreateScheduled, Insert, Save, TypeOK, RowOK
  <2>7. \A other \in Submissions : other # s =>
            status'[other] = status[other] /\ about'[other] = about[other]
      BY <1>0, <1>3 DEF CreateScheduled, Insert, Save, TypeOK
  <2> QED
      BY <1>3, <2>2, <2>3, <2>5, <2>6, <2>7, RowsSurvive, RequestsSurvive
      DEF CreateScheduled, IInv, FirstPhaseIsHeard
<1>4. ASSUME NEW s \in Submissions, NEW pass \in BOOLEAN,
             CompletePreDefense(h, s, pass)
      PROVE  RequestsInv' /\ RowsInv' /\ FirstPhaseIsHeard'
  <2>1. Grows /\ UNCHANGED <<at, status, about, heard, early>>
      BY <1>4 DEF CompletePreDefense, Grows
  <2>2. PICK by \in {"complete", "repeat"} : Ask(h, Planned(s, by, pass))
      BY <1>4 DEF CompletePreDefense
  <2>3. status[s] \in {"graded", "completed", "failed"}
      BY <1>4 DEF CompletePreDefense
  <2>4. 1 \in heard
      BY <2>3 DEF IInv, RowsInv, RowOK
  <2>5. RequestOK(Planned(s, by, pass), at', status', about', heard', early')
      BY <2>1, <2>3, <2>4 DEF RequestOK, Planned
  <2> QED
      BY <2>1, <2>2, <2>5, RowsStay, RequestsSurvive DEF IInv, FirstPhaseIsHeard
<1>5. ASSUME NEW p \in Phases, SubmitDocumentForStep(h, p)
      PROVE  RequestsInv' /\ RowsInv' /\ FirstPhaseIsHeard'
  <2>1. Grows /\ UNCHANGED <<at, status, about, heard, early>>
      BY <1>5 DEF SubmitDocumentForStep, Grows
  <2>2. at = Upload(p) => Beyond(1, at) \/ p = 1
      BY BeyondFirst DEF Phases, Earlier, Upload, Review
  <2>3. at = Upload(p) =>
            RequestOK([op |-> "ensure", phase |-> p], at', status', about', heard', early')
      BY <2>1, <2>2 DEF RequestOK
  <2> QED
      BY <1>5, <2>1, <2>3, RowsStay, RequestsSurvive, RequestsStay
      DEF SubmitDocumentForStep, IInv, FirstPhaseIsHeard
<1>6. ASSUME SaveSchedule(h)
      PROVE  RequestsInv' /\ RowsInv' /\ FirstPhaseIsHeard'
  <2>1. request[h].sub \in Submissions
      BY <1>0, <1>6, RequestFields DEF SaveSchedule
  <2>2. Grows
      BY <1>0, <1>6, <2>1 DEF SaveSchedule, Save, Grows, TypeOK
  <2>3. RowOK(request[h].sub, at', status', about', heard', early')
      BY <1>0, <1>6, <2>1 DEF SaveSchedule, Save, TypeOK, IInv, RowsInv, RowOK
  <2>4. \A other \in Submissions : other # request[h].sub =>
            status'[other] = status[other] /\ about'[other] = about[other]
      BY <1>0, <1>6 DEF SaveSchedule, Save, TypeOK
  <2> QED
      BY <1>6, <2>1, <2>2, <2>3, <2>4, IdleOK, RowsSurvive, RequestsSurvive
      DEF SaveSchedule, Answer, IInv, FirstPhaseIsHeard
<1>7. ASSUME SaveGrade(h)
      PROVE  RequestsInv' /\ RowsInv' /\ FirstPhaseIsHeard'
  <2> DEFINE s == request[h].sub
  <2>1. s \in Submissions
      BY <1>0, <1>7, RequestFields DEF SaveGrade
  <2>2. Grows
      BY <1>0, <1>7, <2>1 DEF SaveGrade, Save, Grows, TypeOK
  <2>3. 1 \in heard'
    <3>1. CASE about[s] = 1
        BY <1>7, <3>1 DEF SaveGrade
    <3>2. CASE Beyond(1, at)
        BY <1>7, <3>2 DEF SaveGrade, IInv, FirstPhaseIsHeard
    <3> QED
        BY <2>1, <3>1, <3>2 DEF IInv, RowsInv, RowOK
  <2>4. status'[s] = "graded" /\ about' = about /\ at' = at
      BY <1>0, <1>7, <2>1 DEF SaveGrade, Save, TypeOK
  <2>5. RowOK(s, at', status', about', heard', early')
      BY <2>1, <2>3, <2>4 DEF IInv, RowsInv, RowOK
  <2>6. \A other \in Submissions : other # s =>
            status'[other] = status[other] /\ about'[other] = about[other]
      BY <1>0, <1>7 DEF SaveGrade, Save, TypeOK
  <2>7. RequestOK(Planned(s, "grade", TRUE), at', status', about', heard', early')
      BY <2>3, <2>4 DEF RequestOK, Planned
  <2>8. Ask(h, Planned(s, "grade", TRUE))
      BY <1>7 DEF SaveGrade
  <2> HIDE DEF s
  <2> QED
      BY <2>1, <2>2, <2>3, <2>5, <2>6, <2>7, <2>8, RowsSurvive, RequestsSurvive
      DEF FirstPhaseIsHeard
<1>8. ASSUME PlanAdvance(h)
      PROVE  RequestsInv' /\ RowsInv' /\ FirstPhaseIsHeard'
  <2> DEFINE r == request[h]
             todo == Plan(at, r.pass, r.by # "repeat")
  <2>1. /\ r.op = "plan" /\ r.sub \in Submissions /\ r.pass \in BOOLEAN
        /\ r.by \in {"grade", "complete", "repeat"}
      BY <1>0, <1>8, RequestFields DEF PlanAdvance
  <2>2. Grows /\ UNCHANGED <<at, status, about, heard>>
      BY <1>8 DEF PlanAdvance, Grows
  <2>3. 1 \in heard /\ status[r.sub] # "none"
      BY <1>0, <2>1 DEF RequestOK
  <2>4. RequestOK(Moving("advance", r, todo), at', status', about', heard', early')
      BY <2>2, <2>3 DEF RequestOK, Moving
  <2>5. todo = <<>> /\ r.by = "complete" => at \in {Earlier, After(2)}
    <3>1. at \in States
        BY <1>0 DEF TypeOK
    <3> QED
        BY <2>1, <3>1, PlanType
  <2>6. /\ at = After(2) => Beyond(about[r.sub], at)
        /\ at = Earlier /\ r.by = "complete" => r.sub \in early'
      BY <1>0, <1>8, <2>1, LeftBoth DEF TypeOK, PlanAdvance
  <2>7. todo = <<>> /\ r.by = "complete"
            => RequestOK(Moving("finish", r, <<>>), at', status', about', heard', early')
      BY <2>2, <2>3, <2>5, <2>6 DEF RequestOK, Moving
  <2>8. \E q : Ask(h, q) /\ RequestOK(q, at', status', about', heard', early')
      BY <1>8, <2>4, <2>7, IdleOK DEF PlanAdvance, Answer
  <2> QED
      BY <2>2, <2>8, RowsStay, RequestsSurvive DEF IInv, FirstPhaseIsHeard
<1>9. ASSUME Finish(h)
      PROVE  RequestsInv' /\ RowsInv' /\ FirstPhaseIsHeard'
  <2> DEFINE s == request[h].sub
  <2>1. s \in Submissions /\ request[h].pass \in BOOLEAN
      BY <1>0, <1>9, RequestFields DEF Finish
  <2>2. Grows
      BY <1>0, <1>9, <2>1 DEF Finish, Save, Grows, TypeOK
  <2>3. /\ status'[s] = (IF request[h].pass THEN "completed" ELSE "failed")
        /\ UNCHANGED <<at, about, heard, early>>
      BY <1>0, <1>9, <2>1 DEF Finish, Save, TypeOK
  <2>4. 1 \in heard /\ (request[h].pass => s \in early \/ Beyond(about[s], at))
      BY <1>0, <1>9 DEF Finish, RequestOK
  <2>5. RowOK(s, at', status', about', heard', early')
      BY <2>1, <2>3, <2>4 DEF IInv, RowsInv, RowOK
  <2>6. \A other \in Submissions : other # s =>
            status'[other] = status[other] /\ about'[other] = about[other]
      BY <1>0, <1>9 DEF Finish, Save, TypeOK
  <2>7. Ask(h, Idle)
      BY <1>9 DEF Finish, Answer
  <2> HIDE DEF s
  <2> QED
      BY <2>1, <2>2, <2>3, <2>5, <2>6, <2>7, IdleOK, RowsSurvive, RequestsSurvive
      DEF IInv, FirstPhaseIsHeard
<1>10. ASSUME LookForActive(h)
       PROVE  RequestsInv' /\ RowsInv' /\ FirstPhaseIsHeard'
  <2>1. Grows /\ UNCHANGED <<at, status, about, heard, early>>
      BY <1>10 DEF LookForActive, Grows
  <2>2. request[h].phase \in Phases
        /\ request[h] = [op |-> "ensure", phase |-> request[h].phase]
      BY <1>0, <1>10, RequestFields DEF LookForActive
  <2>3. PICK op \in {"perform", "create"} :
            Ask(h, [op |-> op, phase |-> request[h].phase])
      BY <1>10, <2>2 DEF LookForActive
  <2>4. RequestOK([op |-> op, phase |-> request[h].phase],
                  at', status', about', heard', early')
      BY <1>0, <1>10, <2>1 DEF LookForActive, RequestOK
  <2> QED
      BY <2>1, <2>3, <2>4, RowsStay, RequestsSurvive DEF IInv, FirstPhaseIsHeard
<1>11. ASSUME Abandon(h)
       PROVE  RequestsInv' /\ RowsInv' /\ FirstPhaseIsHeard'
  <2>1. Grows /\ UNCHANGED <<at, status, about, heard, early>>
      BY <1>11 DEF Abandon, Grows
  <2> QED
      BY <1>11, <2>1, IdleOK, RowsStay, RequestsSurvive
      DEF Abandon, Answer, IInv, FirstPhaseIsHeard
<1> QED
    BY <1>1, <1>2, <1>3, <1>4, <1>5, <1>6, <1>7, <1>8, <1>9, <1>10, <1>11

\* The one step of a handler that moves the project for a row.
LEMMA AdvanceStep ==
    ASSUME IInv, NEW h \in Handlers, Advance(h)
    PROVE  RequestsInv' /\ RowsInv' /\ FirstPhaseIsHeard'
<1> DEFINE r == request[h]
           s == request[h].sub
           ev == Head(request[h].todo)
           rest == Tail(request[h].todo)
<1>1. /\ TypeOK /\ PlannedInv /\ 1 \in Phases
      /\ RequestOK(r, at, status, about, heard, early)
      /\ r.op = "advance"
    BY DEF Advance, IInv, TypeInv, RequestsInv, Phases
<1>2. /\ s \in Submissions /\ r.pass \in BOOLEAN /\ about[s] \in Phases
      /\ r.todo \in Plans(r.pass)
    BY <1>1, RequestFields DEF PlannedInv, TypeOK
<1>3. /\ ev \in Events
      /\ rest = <<>> => \E p \in Phases : ev = Gate(p, r.pass)
    BY <1>2, PlansAreEvents
<1>4. at = From(ev) /\ at' = To(ev) /\ UNCHANGED <<status, about, heard, early>>
    BY DEF Advance
<1>5. Grows
    BY <1>3, <1>4, NeverBack DEF Grows
<1>6. 1 \in heard /\ status[s] # "none"
    BY <1>1 DEF RequestOK
<1>7. RequestOK(Moving("advance", r, rest), at', status', about', heard', early')
    BY <1>4, <1>6 DEF RequestOK, Moving
<1>8. rest = <<>> /\ r.pass => Beyond(about[s], at')
  <2> SUFFICES ASSUME rest = <<>>, r.pass PROVE Beyond(about[s], at')
      OBVIOUS
  <2>1. PICK p \in Phases : ev = Gate(p, TRUE)
      BY <1>2, <1>3
  <2>2. at = Review(p)
      BY <1>4, <2>1 DEF From, Gate
  <2>3. Beyond(1, Review(p)) \/ about[s] = 1
      BY <1>2, <2>2 DEF IInv, RowsInv, RowOK
  <2> QED
      BY <1>2, <1>4, <2>1, <2>3, PassLeaves
<1>9. rest = <<>>
          => RequestOK(Moving("finish", r, <<>>), at', status', about', heard', early')
    BY <1>4, <1>6, <1>8 DEF RequestOK, Moving
<1>10. \E q : Ask(h, q) /\ RequestOK(q, at', status', about', heard', early')
    BY <1>7, <1>9, IdleOK DEF Advance, Answer
<1> QED
    BY <1>4, <1>5, <1>6, <1>10, RowsStay, RequestsSurvive DEF FirstPhaseIsHeard

\* The submission of materials and the vote move it for no row.
LEMMA OtherMoves ==
    ASSUME IInv,
           \/ \E h \in Handlers : Perform(h)
           \/ ReachPreDefense
           \/ \E p \in Phases : ReviewSubmission(p)
           \/ \E p \in Phases, pass \in BOOLEAN : FinalizeReview(p, pass)
           \/ UNCHANGED vars
    PROVE  RequestsInv' /\ RowsInv' /\ FirstPhaseIsHeard'
<1>1. ASSUME NEW h \in Handlers, Perform(h)
      PROVE  RequestsInv' /\ RowsInv' /\ FirstPhaseIsHeard'
  <2>1. request[h].phase \in Phases
      BY <1>1, RequestFields DEF Perform, IInv, TypeInv
  <2>2. \A p, q \in Phases : Beyond(p, Upload(q)) => Beyond(p, Review(q))
      BY DEF Phases, Beyond, Earlier, Upload, Review
  <2>3. Beyond(1, Review(request[h].phase)) => Beyond(1, Upload(request[h].phase))
      BY <2>1 DEF Phases, Beyond, Earlier, Upload, Review
  <2>4. Grows /\ UNCHANGED <<status, about, heard, early>> /\ Ask(h, Idle)
      BY <1>1, <2>1, <2>2 DEF Perform, Answer, Grows
  <2> QED
      BY <1>1, <2>3, <2>4, IdleOK, RowsStay, RequestsSurvive
      DEF Perform, IInv, FirstPhaseIsHeard
<1>2. ASSUME NEW p \in Phases, ReviewSubmission(p)
      PROVE  RequestsInv' /\ RowsInv' /\ FirstPhaseIsHeard'
  <2>1. Grows
      BY <1>2 DEF ReviewSubmission, Grows
  <2> QED
      BY <1>2, <2>1, RowsStay, RequestsStay
      DEF ReviewSubmission, IInv, FirstPhaseIsHeard
<1>3. ASSUME NEW p \in Phases, NEW pass \in BOOLEAN, FinalizeReview(p, pass)
      PROVE  RequestsInv' /\ RowsInv' /\ FirstPhaseIsHeard'
  <2>1. From(Gate(p, pass)) = Review(p) /\ Gate(p, pass) \in Events
      BY GateType DEF From, Gate
  <2>2. Grows
      BY <1>3, <2>1, NeverBack DEF FinalizeReview, Grows
  <2>3. Beyond(1, at) \/ p = 1
      BY <1>3, BeyondFirst DEF FinalizeReview, Phases, Earlier, Upload, Review
  <2>4. 1 \in heard'
      BY <1>3, <2>3 DEF FinalizeReview, IInv, FirstPhaseIsHeard
  <2> QED
      BY <1>3, <2>2, <2>4, RowsStay, RequestsStay
      DEF FinalizeReview, FirstPhaseIsHeard
<1>4. CASE UNCHANGED vars
    BY <1>4 DEF vars, IInv, RequestsInv, RowsInv, FirstPhaseIsHeard
<1>5. CASE ReachPreDefense
  <2>1. /\ ~Beyond(1, at')
        /\ \A p : ~Beyond(p, at)
      BY <1>5, BeyondFirst DEF ReachPreDefense, Beyond
  <2>2. Grows
      BY <1>5, <2>1 DEF ReachPreDefense, Grows
  <2> QED
      BY <1>5, <2>1, <2>2, RowsStay, RequestsStay
      DEF ReachPreDefense, FirstPhaseIsHeard
<1> QED
    BY <1>1, <1>2, <1>3, <1>4, <1>5

LEMMA StepIInv == IInv /\ [Next]_vars => IInv'
<1> SUFFICES ASSUME IInv, [Next]_vars PROVE IInv'
    OBVIOUS
<1>1. TypeInv'
    BY StepTypes DEF IInv
<1>2. RequestsInv' /\ RowsInv' /\ FirstPhaseIsHeard'
    BY QuietSteps, AdvanceStep, OtherMoves DEF Next, HandlerStep
<1> QED
    BY <1>1, <1>2 DEF IInv

(***************************************************************************)
(* No project leaves the first pre-defense without a grade or a vote of    *)
(* the commission about it, however many handlers overlap: a row is about  *)
(* the second pre-defense only once the project is in it, so every row     *)
(* that a handler completes before that was graded in the first.           *)
(***************************************************************************)
THEOREM FirstIsHeard == Spec => []FirstPhaseIsHeard
<1>1. IInv => FirstPhaseIsHeard
    BY DEF IInv
<1> QED
    BY <1>1, InitIInv, StepIInv, PTL DEF Spec

(***************************************************************************)
(* When a row says completed and its completion did not find the project   *)
(* before both pre-defenses, the project has left the pre-defense the row  *)
(* is about: whoever writes it has moved the project out of a review state *)
(* of that pre-defense or of a later one, and no event leads back.         *)
(***************************************************************************)
THEOREM CompletedInTimeMoved == Spec => []CompletedInTimeMeansMoved
<1>1. IInv => CompletedInTimeMeansMoved
    BY DEF IInv, RowsInv, RowOK, CompletedInTimeMeansMoved
<1> QED
    BY <1>1, InitIInv, StepIInv, PTL DEF Spec
-----------------------------------------------------------------------------
(***************************************************************************)
(* Moves out of the wrong pre-defense.  A handler chooses the events by    *)
(* the state in which it finds the project; its row does not record which  *)
(* pre-defense it is about, so nothing compares them.  That is all that    *)
(* makes SecondPhaseIsHeard and RepeatStaysInPhase fail.                   *)
(***************************************************************************)
PlansForItsRow ==
    \A h \in Handlers :
        request[h].op = "plan" /\ request'[h].op = "advance" =>
            Phase(at) = about[request[h].sub]

\* Every row that was graded was heard, and whoever is about to move the
\* project for a row moves it out of the pre-defense that was.
MoverOK(r, ab, hd) ==
    /\ r.op \in {"plan", "advance", "finish"} => ab[r.sub] \in hd
    /\ r.op = "advance" =>
         \A i \in 1 .. Len(r.todo) : r.todo[i][2] = ab[r.sub]

GradedAreHeard ==
    \A s \in Submissions :
        status[s] \in {"graded"} \cup Final => about[s] \in heard

OwnInv ==
    /\ GradedAreHeard
    /\ \A h \in Handlers : MoverOK(request[h], about, heard)
    /\ SecondPhaseIsHeard

\* What no step takes back of what these say.
Kept ==
    /\ heard \subseteq heard'
    /\ \A s \in Submissions : status[s] # "none" => about'[s] = about[s]

LEMMA StepKeeps == TypeOK /\ [Next]_vars => Kept
<1> SUFFICES ASSUME TypeOK, [Next]_vars PROVE Kept
    OBVIOUS
<1>1. heard \subseteq heard'
    BY DEF Next, HandlerStep, SubmitPreDefense, ReadRow, CompletePreDefense,
           CreateScheduled, SubmitDocumentForStep, SaveSchedule, SaveGrade,
           PlanAdvance, Advance, Finish, LookForActive, Perform, Abandon,
           ReviewSubmission, ReachPreDefense, FinalizeReview, vars
<1>2. about' = about \/ \E s \in Submissions : \E value, p : Insert(s, value, p)
    BY DEF Next, HandlerStep, SubmitPreDefense, ReadRow, CompletePreDefense,
           CreateScheduled, SubmitDocumentForStep, SaveSchedule, SaveGrade,
           PlanAdvance, Advance, Finish, LookForActive, Perform, Abandon,
           ReviewSubmission, ReachPreDefense, FinalizeReview, vars
<1> QED
    BY <1>1, <1>2 DEF Kept, Insert, TypeOK

\* A plan is made of events of the pre-defense the project is in.
LEMMA PlanPhase ==
    ASSUME NEW state, NEW pass, NEW fromUpload,
           NEW i \in 1 .. Len(Plan(state, pass, fromUpload))
    PROVE  Plan(state, pass, fromUpload)[i][2] = Phase(state)
BY DEF Plan, Gate

LEMMA FromPhase ==
    ASSUME NEW ev \in Events
    PROVE  /\ Phase(From(ev)) = ev[2]
           /\ Beyond(2, To(ev)) => ev[2] = 2
BY DEF Events, Phases, Phase, From, To, Beyond, Earlier, Upload, Review, After

\* The requests of the others and the rows keep what OwnInv says of them.
LEMMA MoversSurvive ==
    ASSUME IInv, Kept, OwnInv, NEW h \in Handlers, NEW r, Ask(h, r),
           MoverOK(r, about', heard')
    PROVE  \A g \in Handlers : MoverOK(request[g], about, heard)'
<1> SUFFICES ASSUME NEW g \in Handlers
             PROVE  MoverOK(request'[g], about', heard')
    OBVIOUS
<1>1. TypeOK
    BY DEF IInv, TypeInv
<1>2. CASE g = h
    BY <1>1, <1>2 DEF Ask, TypeOK
<1>3. CASE g # h
  <2>1. request'[g] = request[g]
      BY <1>1, <1>3 DEF Ask, TypeOK
  <2>2. request[g].op \in {"plan", "advance", "finish"} =>
            /\ request[g].sub \in Submissions
            /\ status[request[g].sub] # "none"
      BY <1>1, RequestFields DEF IInv, RequestsInv, RequestOK
  <2>3. request[g].op \in {"plan", "advance", "finish"} =>
            about'[request[g].sub] = about[request[g].sub]
      BY <2>2 DEF Kept
  <2> QED
      BY <2>1, <2>3 DEF OwnInv, MoverOK, Kept
<1> QED
    BY <1>2, <1>3

LEMMA MoversStay ==
    ASSUME IInv, Kept, OwnInv, UNCHANGED request
    PROVE  \A g \in Handlers : MoverOK(request[g], about, heard)'
<1> SUFFICES ASSUME NEW g \in Handlers
             PROVE  MoverOK(request[g], about', heard')
    OBVIOUS
<1>1. request[g].op \in {"plan", "advance", "finish"} =>
          /\ request[g].sub \in Submissions
          /\ status[request[g].sub] # "none"
    BY RequestFields DEF IInv, TypeInv, RequestsInv, RequestOK
<1>2. request[g].op \in {"plan", "advance", "finish"} =>
          about'[request[g].sub] = about[request[g].sub]
    BY <1>1 DEF Kept
<1> QED
    BY <1>2 DEF OwnInv, MoverOK, Kept

\* A step whose rows are what they were, or written as they should be.
LEMMA OwnSurvives ==
    ASSUME IInv, OwnInv, Kept, NEW h \in Handlers, NEW r, Ask(h, r),
           MoverOK(r, about', heard'), GradedAreHeard', SecondPhaseIsHeard'
    PROVE  OwnInv'
BY MoversSurvive DEF OwnInv

\* The steps that leave the project where it is, but for the plan.
LEMMA OwnQuietSteps ==
    ASSUME IInv, OwnInv, Kept, NEW h \in Handlers,
           \/ \E s \in Submissions : SubmitPreDefense(h, s) \/ ReadRow(h, s)
                                     \/ CreateScheduled(h, s)
           \/ \E s \in Submissions, pass \in BOOLEAN : CompletePreDefense(h, s, pass)
           \/ \E p \in Phases : SubmitDocumentForStep(h, p)
           \/ SaveSchedule(h) \/ SaveGrade(h) \/ Finish(h)
           \/ LookForActive(h) \/ Perform(h) \/ Abandon(h)
    PROVE  OwnInv'
<1>0. TypeOK
    BY DEF IInv, TypeInv
<1>1. MoverOK(Idle, about', heard')
    BY DEF MoverOK, Idle
<1>2. ASSUME NEW s \in Submissions, SubmitPreDefense(h, s)
      PROVE  OwnInv'
  <2>1. GradedAreHeard'
      BY <1>0, <1>2 DEF SubmitPreDefense, Insert, Save, TypeOK, OwnInv,
                        GradedAreHeard, Final
  <2> QED
      BY <1>2, <2>1, MoversStay DEF SubmitPreDefense, OwnInv, SecondPhaseIsHeard
<1>3. ASSUME NEW s \in Submissions, ReadRow(h, s)
      PROVE  OwnInv'
  <2>1. PICK op \in {"schedule", "reschedule", "grade"} :
            Ask(h, [op |-> op, sub |-> s])
      BY <1>3 DEF ReadRow
  <2>2. MoverOK([op |-> op, sub |-> s], about', heard')
      BY DEF MoverOK
  <2> QED
      BY <1>3, <2>1, <2>2, OwnSurvives
      DEF ReadRow, OwnInv, GradedAreHeard, SecondPhaseIsHeard
<1>4. ASSUME NEW s \in Submissions, CreateScheduled(h, s)
      PROVE  OwnInv'
  <2>1. request[h] = [op |-> "create", phase |-> request[h].phase]
      BY <1>0, <1>4, RequestFields DEF CreateScheduled
  <2>2. Ask(h, [op |-> "perform", phase |-> request[h].phase])
      BY <1>4, <2>1 DEF CreateScheduled
  <2>3. MoverOK([op |-> "perform", phase |-> request[h].phase], about', heard')
      BY DEF MoverOK
  <2>4. GradedAreHeard'
      BY <1>0, <1>4 DEF CreateScheduled, Insert, Save, TypeOK, OwnInv,
                        GradedAreHeard, Final
  <2> QED
      BY <1>4, <2>2, <2>3, <2>4, OwnSurvives
      DEF CreateScheduled, OwnInv, SecondPhaseIsHeard
<1>5. ASSUME NEW s \in Submissions, NEW pass \in BOOLEAN,
             CompletePreDefense(h, s, pass)
      PROVE  OwnInv'
  <2>1. PICK by \in {"complete", "repeat"} : Ask(h, Planned(s, by, pass))
      BY <1>5 DEF CompletePreDefense
  <2>2. about[s] \in heard
      BY <1>5 DEF CompletePreDefense, OwnInv, GradedAreHeard, Final
  <2>3. MoverOK(Planned(s, by, pass), about', heard')
      BY <1>5, <2>2 DEF CompletePreDefense, MoverOK, Planned
  <2> QED
      BY <1>5, <2>1, <2>3, OwnSurvives
      DEF CompletePreDefense, OwnInv, GradedAreHeard, SecondPhaseIsHeard
<1>6. ASSUME NEW p \in Phases, SubmitDocumentForStep(h, p)
      PROVE  OwnInv'
  <2>1. MoverOK([op |-> "ensure", phase |-> p], about', heard')
      BY DEF MoverOK
  <2> QED
      BY <1>6, <2>1, OwnSurvives, MoversStay
      DEF SubmitDocumentForStep, OwnInv, GradedAreHeard, SecondPhaseIsHeard
<1>7. ASSUME SaveSchedule(h) PROVE OwnInv'
  <2>1. GradedAreHeard'
      BY <1>0, <1>7 DEF SaveSchedule, Save, TypeOK, OwnInv, GradedAreHeard, Final
  <2> QED
      BY <1>1, <1>7, <2>1, OwnSurvives
      DEF SaveSchedule, Answer, OwnInv, SecondPhaseIsHeard
<1>8. ASSUME SaveGrade(h) PROVE OwnInv'
  <2> DEFINE s == request[h].sub
  <2>1. s \in Submissions
      BY <1>0, <1>8, RequestFields DEF SaveGrade
  <2>2. /\ heard' = heard \cup {about[s]} /\ about' = about /\ at' = at
        /\ \A other \in Submissions \ {s} : status'[other] = status[other]
      BY <1>0, <1>8, <2>1 DEF SaveGrade, Save, TypeOK
  <2>3. Ask(h, Planned(s, "grade", TRUE))
      BY <1>8 DEF SaveGrade
  <2> HIDE DEF s
  <2>4. MoverOK(Planned(s, "grade", TRUE), about', heard')
      BY <2>2 DEF MoverOK, Planned
  <2>5. GradedAreHeard' /\ SecondPhaseIsHeard'
      BY <2>2 DEF OwnInv, GradedAreHeard, SecondPhaseIsHeard
  <2> QED
      BY <2>3, <2>4, <2>5, OwnSurvives
<1>9. ASSUME Finish(h) PROVE OwnInv'
  <2> DEFINE s == request[h].sub
  <2>1. s \in Submissions
      BY <1>0, <1>9, RequestFields DEF Finish
  <2>2. about[s] \in heard
      BY <1>9 DEF Finish, OwnInv, MoverOK
  <2>3. /\ UNCHANGED <<at, about, heard, early>> /\ Ask(h, Idle)
        /\ \A other \in Submissions \ {s} : status'[other] = status[other]
      BY <1>0, <1>9, <2>1 DEF Finish, Save, Answer, TypeOK
  <2> HIDE DEF s
  <2>4. GradedAreHeard' /\ SecondPhaseIsHeard'
      BY <2>2, <2>3 DEF OwnInv, GradedAreHeard, SecondPhaseIsHeard
  <2> QED
      BY <1>1, <2>3, <2>4, OwnSurvives
<1>10. ASSUME LookForActive(h) PROVE OwnInv'
  <2>1. request[h] = [op |-> "ensure", phase |-> request[h].phase]
      BY <1>0, <1>10, RequestFields DEF LookForActive
  <2>2. PICK op \in {"perform", "create"} :
            Ask(h, [op |-> op, phase |-> request[h].phase])
      BY <1>10, <2>1 DEF LookForActive
  <2>3. MoverOK([op |-> op, phase |-> request[h].phase], about', heard')
      BY DEF MoverOK
  <2> QED
      BY <1>10, <2>2, <2>3, OwnSurvives
      DEF LookForActive, OwnInv, GradedAreHeard, SecondPhaseIsHeard
<1>11. ASSUME Perform(h) PROVE OwnInv'
  <2>1. request[h].phase \in Phases
      BY <1>0, <1>11, RequestFields DEF Perform
  <2>2. ~Beyond(2, Review(request[h].phase))
      BY <2>1 DEF Phases, Beyond, Upload, Review
  <2> QED
      BY <1>1, <1>11, <2>2, OwnSurvives
      DEF Perform, Answer, OwnInv, GradedAreHeard, SecondPhaseIsHeard
<1>12. ASSUME Abandon(h) PROVE OwnInv'
    BY <1>1, <1>12, OwnSurvives
    DEF Abandon, Answer, OwnInv, GradedAreHeard, SecondPhaseIsHeard
<1> QED
    BY <1>2, <1>3, <1>4, <1>5, <1>6, <1>7, <1>8, <1>9, <1>10, <1>11, <1>12

\* What the hypothesis is about: the plan is for the handler's own row.
LEMMA OwnPlan ==
    ASSUME IInv, OwnInv, Kept, PlansForItsRow, NEW h \in Handlers, PlanAdvance(h)
    PROVE  OwnInv'
<1> DEFINE r == request[h]
           todo == Plan(at, r.pass, r.by # "repeat")
<1>1. /\ TypeOK /\ r.op = "plan" /\ about[r.sub] \in heard
      /\ UNCHANGED <<at, status, about, heard>>
    BY DEF PlanAdvance, IInv, TypeInv, OwnInv, MoverOK
<1>2. GradedAreHeard' /\ SecondPhaseIsHeard'
    BY <1>1 DEF OwnInv, GradedAreHeard, SecondPhaseIsHeard
<1>3. CASE todo # <<>>
  <2>1. Ask(h, Moving("advance", r, todo))
      BY <1>3 DEF PlanAdvance
  <2>2. Phase(at) = about[r.sub]
      BY <1>1, <2>1 DEF Ask, Moving, TypeOK, PlansForItsRow
  <2>3. MoverOK(Moving("advance", r, todo), about', heard')
      BY <1>1, <2>2, PlanPhase DEF MoverOK, Moving
  <2> QED
      BY <1>2, <2>1, <2>3, OwnSurvives
<1>4. CASE todo = <<>>
  <2>1. Ask(h, Moving("finish", r, <<>>)) \/ Ask(h, Idle)
      BY <1>4 DEF PlanAdvance, Answer
  <2>2. MoverOK(Moving("finish", r, <<>>), about', heard')
        /\ MoverOK(Idle, about', heard')
      BY <1>1 DEF MoverOK, Moving, Idle
  <2> QED
      BY <1>2, <2>1, <2>2, OwnSurvives
<1> QED
    BY <1>3, <1>4

\* Such a plan moves the project out of the pre-defense the row is about.
LEMMA OwnAdvance ==
    ASSUME IInv, OwnInv, Kept, NEW h \in Handlers, Advance(h)
    PROVE  OwnInv' /\ Phase(at) = about[request[h].sub]
<1> DEFINE r == request[h]
           rest == Tail(request[h].todo)
<1>1. /\ TypeOK /\ r.op = "advance" /\ r.todo \in Plans(r.pass)
      /\ r.pass \in BOOLEAN
    BY RequestFields DEF Advance, IInv, TypeInv, PlannedInv
<1>2. /\ r.todo \in Seq(Events) /\ r.todo # <<>> /\ Head(r.todo) \in Events
    BY <1>1, PlansAreEvents
<1>3. /\ about[r.sub] \in heard /\ Head(r.todo)[2] = about[r.sub]
      /\ \A i \in 1 .. Len(rest) : rest[i][2] = about[r.sub]
    BY <1>1, <1>2 DEF OwnInv, MoverOK
<1>4. /\ at = From(Head(r.todo)) /\ at' = To(Head(r.todo))
      /\ UNCHANGED <<status, about, heard, early>>
    BY DEF Advance
<1>5. Phase(at) = about[r.sub] /\ (Beyond(2, at') => about[r.sub] = 2)
    BY <1>2, <1>3, <1>4, FromPhase
<1>6. GradedAreHeard' /\ SecondPhaseIsHeard'
    BY <1>3, <1>4, <1>5 DEF OwnInv, GradedAreHeard, SecondPhaseIsHeard
<1>7. /\ MoverOK(Moving("advance", r, rest), about', heard')
      /\ MoverOK(Moving("finish", r, <<>>), about', heard')
      /\ MoverOK(Idle, about', heard')
    BY <1>3, <1>4 DEF MoverOK, Moving, Idle
<1>8. \E q : Ask(h, q) /\ MoverOK(q, about', heard')
    BY <1>7 DEF Advance, Answer
<1> QED
    BY <1>5, <1>6, <1>8, OwnSurvives

LEMMA OwnStep ==
    IInv /\ OwnInv /\ [Next]_vars /\ [PlansForItsRow]_vars
      => /\ OwnInv'
         /\ \A h \in Handlers : Advance(h) => Phase(at) = about[request[h].sub]
<1> SUFFICES ASSUME IInv, OwnInv, [Next]_vars, [PlansForItsRow]_vars
             PROVE  /\ OwnInv'
                    /\ \A h \in Handlers :
                         Advance(h) => Phase(at) = about[request[h].sub]
    OBVIOUS
<1>1. Kept
    BY StepKeeps DEF IInv, TypeInv
<1>2. ASSUME NEW p \in Phases, NEW pass \in BOOLEAN, FinalizeReview(p, pass)
      PROVE  OwnInv'
  <2>1. To(Gate(p, pass)) \in {Upload(1), Upload(2), After(2)}
        /\ (To(Gate(p, pass)) = After(2) => p = 2)
      BY DEF To, Gate, Phases, Upload, After
  <2>2. Beyond(2, at') => p = 2
      BY <1>2, <2>1 DEF FinalizeReview, Beyond
  <2> QED
      BY <1>1, <1>2, <2>2, MoversStay
      DEF FinalizeReview, OwnInv, GradedAreHeard, SecondPhaseIsHeard
<1>3. ASSUME NEW p \in Phases, ReviewSubmission(p) PROVE OwnInv'
    BY <1>1, <1>3, MoversStay
    DEF ReviewSubmission, OwnInv, GradedAreHeard, SecondPhaseIsHeard
<1>4. ASSUME UNCHANGED vars PROVE OwnInv'
    BY <1>4 DEF vars, OwnInv, GradedAreHeard, SecondPhaseIsHeard
<1>5. ASSUME NEW h \in Handlers, PlanAdvance(h) PROVE OwnInv'
  <2>1. PlansForItsRow \/ UNCHANGED vars
      OBVIOUS
  <2> QED
      BY <1>1, <1>4, <1>5, <2>1, OwnPlan
<1>6. ASSUME NEW h \in Handlers, HandlerStep(h) PROVE OwnInv'
    BY <1>1, <1>5, <1>6, OwnQuietSteps, OwnAdvance DEF HandlerStep
<1>7. \A h \in Handlers : Advance(h) => Phase(at) = about[request[h].sub]
    BY <1>1, OwnAdvance
<1>8. ASSUME ReachPreDefense PROVE OwnInv'
  <2>1. ~Beyond(2, at')
      BY <1>8 DEF ReachPreDefense, Beyond
  <2> QED
      BY <1>1, <1>8, <2>1, MoversStay
      DEF ReachPreDefense, OwnInv, GradedAreHeard, SecondPhaseIsHeard
<1> QED
    BY <1>2, <1>3, <1>4, <1>6, <1>7, <1>8 DEF Next

(***************************************************************************)
(* "The second pre-defense cannot be skipped by accident", and a repeated  *)
(* completion moves the project only out of the pre-defense its row is     *)
(* about: both hold, whatever else overlaps, fails or is repeated, unless  *)
(* a handler plans a move when the project is in another pre-defense than  *)
(* the handler's row is about.                                             *)
(***************************************************************************)
THEOREM OwnPlansSuffice ==
    Spec /\ [][PlansForItsRow]_vars
      => []SecondPhaseIsHeard /\ RepeatStaysInPhase
<1>1. Init => OwnInv
    BY DEF Init, OwnInv, GradedAreHeard, Final, MoverOK, Idle, SecondPhaseIsHeard,
           Beyond, Upload, Phases
<1>2. IInv /\ OwnInv /\ [Next]_vars /\ [PlansForItsRow]_vars
        => /\ OwnInv'
           /\ [\A h \in Handlers :
                 Advance(h) /\ request[h].by = "repeat"
                     => Phase(at) = about[request[h].sub]]_vars
    BY OwnStep
<1>3. OwnInv => SecondPhaseIsHeard
    BY DEF OwnInv
<1> QED
    BY <1>1, <1>2, <1>3, InitIInv, StepIInv, PTL DEF Spec, RepeatStaysInPhase
-----------------------------------------------------------------------------
\* The request is about a row it has read.
HasRow(r) == r.op \in {"schedule", "reschedule", "grade",
                       "plan", "advance", "finish"}

\* No two requests in flight are about one row.
Apart ==
    \A g, h \in Handlers :
        /\ g # h /\ HasRow(request[g]) /\ HasRow(request[h])
        => request[g].sub # request[h].sub

\* What a handler is about to schedule or grade has not been graded since
\* the handler read it.
UngradedInv ==
    \A h \in Handlers :
        request[h].op \in {"schedule", "reschedule", "grade"}
            => status[request[h].sub] \in Active

FinalRowsStay ==
    \A s \in Submissions : status[s] \in Final => status'[s] \in Final

\* A request that is no longer, or not yet, about a row knows nothing of one.
LEMMA UngradedStays ==
    ASSUME UngradedInv, status' = status,
           NEW h \in Handlers,
           \A g \in Handlers \ {h} : request'[g] = request[g],
           request'[h].op \in {"schedule", "reschedule", "grade"}
               => status[request'[h].sub] \in Active
    PROVE  UngradedInv' /\ FinalRowsStay
BY DEF UngradedInv, FinalRowsStay

\* Nobody else is about to write the row a handler writes.
LEMMA UngradedSurvives ==
    ASSUME TypeInv, UngradedInv, NEW h \in Handlers, NEW s \in Submissions,
           \A t \in Submissions \ {s} : status'[t] = status[t],
           \A g \in Handlers \ {h} :
               /\ request'[g] = request[g]
               /\ HasRow(request[g]) => request[g].sub # s,
           request'[h].op \notin {"schedule", "reschedule", "grade"},
           status[s] \notin Final \/ status'[s] \in Final
    PROVE  UngradedInv' /\ FinalRowsStay
<1>1. ASSUME NEW g \in Handlers,
             request'[g].op \in {"schedule", "reschedule", "grade"}
      PROVE  status'[request'[g].sub] \in Active
  <2>1. g # h /\ request'[g] = request[g]
      BY <1>1
  <2>2. HasRow(request[g])
      BY <1>1, <2>1 DEF HasRow
  <2>3. request[g].sub \in Submissions \ {s}
      BY <2>1, <2>2, RequestFields DEF HasRow, TypeInv
  <2> QED
      BY <1>1, <2>1, <2>3 DEF UngradedInv
<1> QED
    BY <1>1 DEF UngradedInv, FinalRowsStay

LEMMA ApartStep ==
    ASSUME TypeInv, Apart, UngradedInv, [Next]_vars
    PROVE  UngradedInv' /\ FinalRowsStay
<1>0. TypeOK
    BY DEF TypeInv
<1>1. ASSUME NEW h \in Handlers, NEW s \in Submissions, SubmitPreDefense(h, s)
      PROVE  UngradedInv' /\ FinalRowsStay
    BY <1>0, <1>1, RequestFields
    DEF SubmitPreDefense, Insert, Save, TypeOK, UngradedInv, FinalRowsStay,
        Active, Final
<1>2. ASSUME NEW h \in Handlers, NEW s \in Submissions, ReadRow(h, s)
      PROVE  UngradedInv' /\ FinalRowsStay
  <2>1. status[s] \in Active
      BY <1>2 DEF ReadRow, Active
  <2>2. PICK op : Ask(h, [op |-> op, sub |-> s])
      BY <1>2 DEF ReadRow
  <2> QED
      BY <1>0, <1>2, <2>1, <2>2, UngradedStays DEF ReadRow, Ask, TypeOK
<1>3. ASSUME NEW h \in Handlers, SaveSchedule(h) \/ SaveGrade(h) \/ Finish(h)
      PROVE  UngradedInv' /\ FinalRowsStay
  <2> DEFINE s == request[h].sub
  <2>1. HasRow(request[h]) /\ s \in Submissions
      BY <1>0, <1>3, RequestFields DEF SaveSchedule, SaveGrade, Finish, HasRow
  <2>2. \A g \in Handlers \ {h} : HasRow(request[g]) => request[g].sub # s
      BY <2>1 DEF Apart
  <2>3. /\ \A t \in Submissions \ {s} : status'[t] = status[t]
        /\ \A g \in Handlers \ {h} : request'[g] = request[g]
      BY <1>0, <1>3
      DEF SaveSchedule, SaveGrade, Finish, Save, Answer, Ask, TypeOK
  <2>4. request'[h] = Idle \/ request'[h] = Planned(s, "grade", TRUE)
      BY <1>0, <1>3 DEF SaveSchedule, SaveGrade, Finish, Answer, Ask, TypeOK
  <2>5. request'[h].op \notin {"schedule", "reschedule", "grade"}
      BY <2>4 DEF Idle, Planned
  <2>6. status[s] \notin Final \/ status'[s] \in Final
    <3>1. CASE SaveSchedule(h) \/ SaveGrade(h)
        BY <3>1 DEF SaveSchedule, SaveGrade, UngradedInv, Active, Final
    <3>2. CASE Finish(h)
        BY <1>0, <2>1, <3>2 DEF Finish, Save, TypeOK, Final
    <3> QED
        BY <1>3, <3>1, <3>2
  <2> HIDE DEF s
  <2> QED
      BY <2>1, <2>2, <2>3, <2>5, <2>6, UngradedSurvives
<1>4. ASSUME NEW h \in Handlers, NEW s \in Submissions, NEW pass \in BOOLEAN,
             CompletePreDefense(h, s, pass)
      PROVE  UngradedInv' /\ FinalRowsStay
  <2>1. PICK by : Ask(h, Planned(s, by, pass))
      BY <1>4 DEF CompletePreDefense
  <2> QED
      BY <1>0, <1>4, <2>1, UngradedStays
      DEF CompletePreDefense, Planned, Ask, TypeOK
<1>5. ASSUME NEW h \in Handlers, PlanAdvance(h) \/ Advance(h)
      PROVE  UngradedInv' /\ FinalRowsStay
  <2>1. status' = status
        /\ \/ request' = [request EXCEPT ![h] = Idle]
           \/ \E op \in {"advance", "finish"} : \E todo :
                request' = [request EXCEPT ![h] = Moving(op, request[h], todo)]
    <3>1. CASE PlanAdvance(h)
      <4> DEFINE todo == Plan(at, request[h].pass, request[h].by # "repeat")
      <4>1. \/ Ask(h, Moving("advance", request[h], todo))
            \/ Ask(h, Moving("finish", request[h], <<>>))
            \/ Ask(h, Idle)
          BY <3>1 DEF PlanAdvance, Answer
      <4> HIDE DEF todo
      <4> QED
          BY <3>1, <4>1 DEF PlanAdvance, Ask
    <3>2. CASE Advance(h)
        BY <3>2 DEF Advance, Answer, Ask
    <3> QED
        BY <1>5, <3>1, <3>2
  <2> QED
      BY <1>0, <2>1, UngradedStays DEF Moving, Idle, TypeOK
<1>6. ASSUME NEW h \in Handlers, Perform(h) \/ Abandon(h)
      PROVE  UngradedInv' /\ FinalRowsStay
    BY <1>0, <1>6, UngradedStays
    DEF Perform, Abandon, Answer, Ask, Idle, TypeOK
<1>7. ASSUME NEW h \in Handlers, NEW p \in Phases, SubmitDocumentForStep(h, p)
      PROVE  UngradedInv' /\ FinalRowsStay
  <2>1. CASE Ask(h, [op |-> "ensure", phase |-> p])
      BY <1>0, <1>7, <2>1, UngradedStays DEF SubmitDocumentForStep, Ask, TypeOK
  <2>2. CASE UNCHANGED request
      BY <1>7, <2>2 DEF SubmitDocumentForStep, UngradedInv, FinalRowsStay
  <2> QED
      BY <1>7, <2>1, <2>2 DEF SubmitDocumentForStep
<1>8. ASSUME NEW h \in Handlers, LookForActive(h) PROVE UngradedInv' /\ FinalRowsStay
  <2>1. request[h] = [op |-> "ensure", phase |-> request[h].phase]
      BY <1>0, <1>8, RequestFields DEF LookForActive
  <2>2. PICK op \in {"perform", "create"} :
            Ask(h, [op |-> op, phase |-> request[h].phase])
      BY <1>8, <2>1 DEF LookForActive
  <2> QED
      BY <1>0, <1>8, <2>2, UngradedStays DEF LookForActive, Ask, TypeOK
<1>9. ASSUME NEW h \in Handlers, NEW s \in Submissions, CreateScheduled(h, s)
      PROVE  UngradedInv' /\ FinalRowsStay
  <2>1. request[h] = [op |-> "create", phase |-> request[h].phase]
      BY <1>0, <1>9, RequestFields DEF CreateScheduled
  <2>2. Ask(h, [op |-> "perform", phase |-> request[h].phase])
      BY <1>9, <2>1 DEF CreateScheduled
  <2> QED
      BY <1>0, <1>9, <2>2, RequestFields
      DEF CreateScheduled, Insert, Save, Ask, TypeOK, UngradedInv,
          FinalRowsStay, Active, Final
<1>10. ASSUME UNCHANGED <<status, request>> PROVE UngradedInv' /\ FinalRowsStay
    BY <1>10 DEF UngradedInv, FinalRowsStay
<1> QED
    BY <1>1, <1>2, <1>3, <1>4, <1>5, <1>6, <1>7, <1>8, <1>9, <1>10
    DEF Next, HandlerStep, ReviewSubmission, ReachPreDefense, FinalizeReview, vars

(***************************************************************************)
(* A row that is final is taken back only by a handler that had read it    *)
(* before it was: as long as no two requests about one row overlap, what   *)
(* GradePreDefense and CompletePreDefense have decided stays decided.      *)
(***************************************************************************)
THEOREM ApartFinalStaysFinal == Spec /\ []Apart => FinalStaysFinal
<1>1. Init => UngradedInv
    BY DEF Init, Idle, UngradedInv
<1>2. TypeInv /\ Apart /\ UngradedInv /\ [Next]_vars =>
        /\ UngradedInv'
        /\ [\A s \in Submissions : status[s] \in Final => status'[s] \in Final]_vars
    BY ApartStep DEF FinalRowsStay
<1> QED
    BY <1>1, <1>2, InitTypes, StepTypes, PTL DEF Spec, FinalStaysFinal
=============================================================================
