------------------------- MODULE SupervisorRequests -------------------------
(***************************************************************************)
(* How a team gets its supervisor (admin_service).  A team, or a teacher   *)
(* who claims it, writes a request; the teacher approves or rejects it,    *)
(* the team may cancel it, and staff may appoint a supervisor without one. *)
(* An approval creates the project of a team that has none, moves it on,   *)
(* assigns the supervisor and at last writes the request; each of these is *)
(* a statement or a call of its own, and any of them may fail or be the    *)
(* last one before the process ends.                                       *)
(*                                                                         *)
(* Every check is a read before a write without a lock, and the request is *)
(* written back whole, as it was read.  Meanwhile administrators set and   *)
(* remove supervisors without any check, delete teams, and create, delete  *)
(* and reassign projects.                                                  *)
(*                                                                         *)
(* The specification is called SelectionSpec so that its proofs can stand  *)
(* in one module, PeopleProofs, with those of ReviewGate.                  *)
(***************************************************************************)
EXTENDS Integers, FiniteSets

CONSTANTS
    Teams,
    Supervisors,
    Rows,        \* rows of admin_supervisor_requests
    Handlers,    \* requests to the service that can be in flight together
    Default,     \* limit of the department, 0 for none
    MaxLimit,    \* largest limit that a supervisor can be given
    None         \* no supervisor, no row

ASSUME LimitsAreNumbers == Default \in Nat /\ MaxLimit \in Nat
ASSUME NoneIsNothing == None \notin Supervisors /\ None \notin Rows

\* A server has finitely many requests in flight.
ASSUME FewAtATime == IsFiniteSet(Handlers)

VARIABLES
    row,         \* the requests
    assigned,    \* admin_supervisor_assignments: UNIQUE (team_id)
    under,       \* ghost: the limit that an assignment was checked against
    limit,       \* a supervisor's own limit, 0 for none
    project,     \* state of each team's project: UNIQUE (team_id)
    gone,        \* teams that have been deleted
    back,        \* those among them whose row a rename has inserted again
    request      \* what each handler has read and has still to do

teams == <<assigned, under, limit, project, gone, back>>
selectionVars == <<row, teams, request>>
-----------------------------------------------------------------------------
\* "rejected" and "cancelled" are not told apart by any check.
Decided == {"approved", "declined"}

\* A request names its team's project or, team-first, none.  "lost": the
\* project it named has been deleted or been given to another team.
Names == {"none", "project", "lost"}

Contents == [team : Teams, supervisor : Supervisors, names : Names]

Absent == [status |-> "absent"]

Row(status, c) == [status |-> status, team |-> c.team,
                   supervisor |-> c.supervisor, names |-> c.names]

Entries == [status : Decided \cup {"pending"}, team : Teams,
            supervisor : Supervisors, names : Names]

\* The team has no project, or one that waits for its team and supervisor,
\* or one that an approval has moved on from there.
ProjectStates == {"none", "waits", "moved"}

\* The limits that can ever apply to a supervisor.
Limits == {Default} \cup 0..MaxLimit

Steps == {"others", "insert", "accept", "create", "move", "assign",
          "check", "lookup", "first", "replace", "save"}

NoWork == [at |-> "idle"]

\* "row" is the request that is decided, "verdict" what will be written to it
\* and "max" the limit that the capacity has been checked against.
Work(at, k, v, c) == [at |-> at, row |-> k, verdict |-> v, team |-> c.team,
                      supervisor |-> c.supervisor, names |-> c.names, max |-> 0]

Jobs == [at : Steps, row : Rows \cup {None}, verdict : Decided, team : Teams,
         supervisor : Supervisors, names : Names, max : Limits]

SelectionTypeOK ==
    /\ row \in [Rows -> Entries \cup {Absent}]
    /\ assigned \in [Teams -> Supervisors \cup {None}]
    /\ under \in [Teams -> Limits]
    /\ limit \in [Supervisors -> 0..MaxLimit]
    /\ project \in [Teams -> ProjectStates]
    /\ gone \subseteq Teams
    /\ back \subseteq gone
    /\ request \in [Handlers -> Jobs \cup {NoWork}]

SelectionInit ==
    /\ row = [k \in Rows |-> Absent]
    /\ assigned = [t \in Teams |-> None]
    /\ under = [t \in Teams |-> 0]
    /\ limit = [s \in Supervisors |-> 0]
    /\ project = [t \in Teams |-> "none"]
    /\ gone = {}
    /\ back = {}
    /\ request = [h \in Handlers |-> NoWork]
-----------------------------------------------------------------------------
Ask(h, r) == request' = [request EXCEPT ![h] = r]

GoTo(h, at) == Ask(h, [request[h] EXCEPT !.at = at])

Answer(h) == Ask(h, NoWork)

Exists(t) == t \notin gone \/ t \in back

TeamsOf(s) == {t \in Teams : assigned[t] = s}

\* What a check takes for the limit: the supervisor's own one or else the
\* department's, which counts as none when workflow_service does not answer.
EffectiveLimits(s) == IF limit[s] > 0 THEN {limit[s]} ELSE {Default, 0}

\* A plausible bug: the limit is passed before it is seen.
AllowsAbove(max, s) == max = 0 \/ Cardinality(TeamsOf(s)) <= max

\* checkSupervisorCapacity
Allows(max, s) == max = 0 \/ Cardinality(TeamsOf(s)) < max

HasRoom(s) == \E max \in EffectiveLimits(s) : Allows(max, s)

Of(t, status) == {k \in Rows : row[k].status = status /\ row[k].team = t}
-----------------------------------------------------------------------------
\* A new request: capacity, then the team's other requests, then the insert.
CreateSupervisorRequest(h, c) ==
    /\ request[h] = NoWork
    /\ Exists(c.team)
    /\ c.names = "none" \/ (c.names = "project" /\ project[c.team] # "none")
    /\ HasRoom(c.supervisor)
    /\ Ask(h, Work("others", None, "declined", c))
    /\ UNCHANGED <<row, teams>>

\* HasPendingSupervisorRequest and HasApprovedSupervisor.
LookForOthers(h) ==
    /\ request[h].at = "others"
    /\ Of(request[h].team, "pending") = {}
    /\ Of(request[h].team, "approved") = {}
    /\ GoTo(h, "insert")
    /\ UNCHANGED <<row, teams>>

InsertRequest(h, k) ==
    /\ request[h].at = "insert"
    /\ row[k] = Absent
    /\ row' = [row EXCEPT ![k] = Row("pending", request[h])]
    /\ Answer(h)
    /\ UNCHANGED teams
-----------------------------------------------------------------------------
\* The supervisor rejects or the team cancels what it reads as pending.
Decline(h, k) ==
    /\ request[h] = NoWork
    /\ row[k].status = "pending"
    /\ Ask(h, Work("save", k, "declined", row[k]))
    /\ UNCHANGED <<row, teams>>

\* RespondToSupervisorRequest, approve: read; the reference to a project that
\* was deleted has become NULL, that to one with another team has not ...
Approve(h, k) ==
    /\ request[h] = NoWork
    /\ row[k].status = "pending"
    /\ \E names \in IF row[k].names = "lost" THEN {"none", "lost"}
                    ELSE {row[k].names} :
         Ask(h, Work("accept", k, "approved", [row[k] EXCEPT !.names = names]))
    /\ UNCHANGED <<row, teams>>

\* ... check the team and the capacity ...
CheckAccepted(h) ==
    /\ request[h].at = "accept"
    /\ Exists(request[h].team)
    /\ HasRoom(request[h].supervisor)
    /\ GoTo(h, IF request[h].names = "none" THEN "create" ELSE "assign")
    /\ UNCHANGED <<row, teams>>

\* A plausible bug: a new project is a draft, which the workflow does not know.
CreateDraft(h) ==
    LET t == request[h].team IN
    /\ request[h].at = "create"
    /\ project[t] = "none"
    /\ project' = [project EXCEPT ![t] = "draft"]
    /\ Ask(h, [request[h] EXCEPT !.at = "move", !.names = "project"])
    /\ UNCHANGED <<row, assigned, under, limit, gone, back>>

\* ... then createProjectForTeamOnApprove: the second project of a team is
\* refused by the index (the team is looked up once more; it may be deleted
\* between that and the call) ...
CreateProject(h) ==
    LET t == request[h].team IN
    /\ request[h].at = "create"
    /\ project[t] = "none"
    /\ project' = [project EXCEPT ![t] = "waits"]
    /\ Ask(h, [request[h] EXCEPT !.at = "move", !.names = "project"])
    /\ UNCHANGED <<row, assigned, under, limit, gone, back>>

\* ... and is moved on, best effort: TEAM_FORMED and then SUPERVISOR_SELECTED
\* (the lock of the team, best effort as well, is part of TeamMembership).
MoveProject(h) ==
    LET t == request[h].team IN
    /\ request[h].at = "move"
    /\ project' \in IF request[h].names = "project"
                    THEN {project, [project EXCEPT ![t] = "moved"]}
                    ELSE {project}
    /\ GoTo(h, "assign")
    /\ UNCHANGED <<row, assigned, under, limit, gone, back>>
-----------------------------------------------------------------------------
\* AssignSupervisor, for staff or for an approval: ...
AppointSupervisor(h, c) ==
    /\ request[h] = NoWork
    /\ Ask(h, Work("assign", None, "approved", c))
    /\ UNCHANGED <<row, teams>>

\* ... it looks for the team ...
GetTeamContext(h) ==
    /\ request[h].at = "assign"
    /\ Exists(request[h].team)
    /\ GoTo(h, "check")
    /\ UNCHANGED <<row, teams>>

\* ... checks the capacity itself ...
CheckSupervisorCapacity(h) ==
    /\ request[h].at = "check"
    /\ \E max \in EffectiveLimits(request[h].supervisor) :
         /\ Allows(max, request[h].supervisor)
         /\ Ask(h, [request[h] EXCEPT !.at = "lookup", !.max = max])
    /\ UNCHANGED <<row, teams>>

\* ... looks for a row of the team ...
GetSupervisorAssignment(h) ==
    /\ request[h].at = "lookup"
    /\ GoTo(h, IF assigned[request[h].team] = None THEN "first" ELSE "replace")
    /\ UNCHANGED <<row, teams>>

\* ... and inserts one, which the index refuses if there is one by now, or
\* writes the one it found.
WriteAssignment(h) ==
    LET r == request[h] IN
    /\ r.at \in {"first", "replace"}
    /\ r.at = "first" => assigned[r.team] = None
    /\ assigned' = [assigned EXCEPT ![r.team] = r.supervisor]
    /\ under' = [under EXCEPT ![r.team] = r.max]
    /\ Ask(h, IF r.row = None THEN NoWork
              ELSE [r EXCEPT !.at = "save", !.max = 0])
    /\ UNCHANGED <<row, limit, project, gone, back>>

\* A plausible bug: an approval is recorded before the supervisor is assigned.
SaveAtOnce(h) ==
    LET r == request[h] IN
    /\ r.at \in {"save", "lookup"} /\ r.row # None
    /\ row' = [row EXCEPT ![r.row] = Row(r.verdict, r)]
    /\ Answer(h)
    /\ UNCHANGED teams

\* UpdateSupervisorRequest writes the whole row, whatever it holds by now.
UpdateSupervisorRequest(h) ==
    LET r == request[h] IN
    /\ r.at = "save"
    /\ row' = [row EXCEPT ![r.row] = Row(r.verdict, r)]
    /\ Answer(h)
    /\ UNCHANGED teams

\* A refused check, a failed statement or call, the end of the process.
GiveUp(h) ==
    /\ request[h] # NoWork
    /\ Answer(h)
    /\ UNCHANGED <<row, teams>>
-----------------------------------------------------------------------------
\* Administrators.  They look for the team before, in a statement of its own,
\* so that it may be deleted by the time they write.

\* UpdateTeamByAdmin sets a supervisor and checks no limit.
UpdateTeamByAdmin(t, s) ==
    /\ assigned' = [assigned EXCEPT ![t] = s]
    /\ under' = [under EXCEPT ![t] = 0]
    /\ UNCHANGED <<row, limit, project, gone, back, request>>

Delete(t) == gone' = gone \cup {t} /\ back' = back \ {t}

\* DeleteTeamByAdmin removes the assignment and leaves the requests and the
\* project.  Who had found the row writes it again: Save inserts what is no
\* longer there.
DeleteTeamByAdmin(t) ==
    /\ assigned' = [assigned EXCEPT ![t] = None]
    /\ under' = [under EXCEPT ![t] = 0]
    /\ Delete(t)
    /\ request' = [h \in Handlers |->
                     IF request[h].at = "replace" /\ request[h].team = t
                     THEN [request[h] EXCEPT !.at = "first"]
                     ELSE request[h]]
    /\ UNCHANGED <<row, limit, project>>

\* The leader's DeleteTeam (team_service) leaves the assignment as well.
DeleteTeam(t) ==
    /\ Delete(t)
    /\ UNCHANGED <<row, assigned, under, limit, project, request>>

\* A leader's UpdateTeam (team_service) had read the team before that, and
\* saves it whole.
UpdateTeam(t) ==
    /\ t \in gone
    /\ back' = back \cup {t}
    /\ UNCHANGED <<row, assigned, under, limit, project, gone, request>>

UpdateSupervisorMaxTeams(s, max) ==
    /\ limit' = [limit EXCEPT ![s] = max]
    /\ UNCHANGED <<row, assigned, under, project, gone, back, request>>

CreateProjectAdmin(t) ==
    /\ project[t] = "none"
    /\ project' = [project EXCEPT ![t] = "waits"]
    /\ UNCHANGED <<row, assigned, under, limit, gone, back, request>>

\* The requests that name the project of t name it no longer.
Lose(t, r) ==
    IF r \notin {NoWork, Absent} /\ r.team = t /\ r.names = "project"
    THEN [r EXCEPT !.names = "lost"]
    ELSE r

LoseProject(t) ==
    /\ project[t] # "none"
    /\ row' = [k \in Rows |-> Lose(t, row[k])]
    /\ request' = [h \in Handlers |-> Lose(t, request[h])]
    /\ UNCHANGED <<assigned, under, limit, gone, back>>

\* An archived project is deleted; ON DELETE SET NULL.
DeleteProject(t) ==
    /\ LoseProject(t)
    /\ project' = [project EXCEPT ![t] = "none"]

\* UpdateProject gives the project of one team to another.
UpdateProject(t, other) ==
    /\ LoseProject(t)
    /\ project[other] = "none"
    /\ project' = [project EXCEPT ![t] = "none", ![other] = project[t]]
-----------------------------------------------------------------------------
Begin(h) ==
    \/ \E c \in Contents : CreateSupervisorRequest(h, c)
    \/ \E k \in Rows : Decline(h, k) \/ Approve(h, k)
    \/ \E t \in Teams, s \in Supervisors :
         AppointSupervisor(h, [team |-> t, supervisor |-> s, names |-> "none"])

Proceed(h) ==
    \/ LookForOthers(h)
    \/ \E k \in Rows : InsertRequest(h, k)
    \/ CheckAccepted(h)
    \/ CreateProject(h)
    \/ MoveProject(h)
    \/ GetTeamContext(h)
    \/ CheckSupervisorCapacity(h)
    \/ GetSupervisorAssignment(h)
    \/ WriteAssignment(h)
    \/ UpdateSupervisorRequest(h)
    \/ GiveUp(h)

Administer ==
    \/ \E t \in Teams, s \in Supervisors : UpdateTeamByAdmin(t, s)
    \/ \E t \in Teams : DeleteTeamByAdmin(t) \/ DeleteTeam(t)
    \/ \E t \in Teams : UpdateTeam(t)
    \/ \E s \in Supervisors, max \in 0..MaxLimit :
         UpdateSupervisorMaxTeams(s, max)
    \/ \E t \in Teams : CreateProjectAdmin(t) \/ DeleteProject(t)
    \/ \E t, other \in Teams : UpdateProject(t, other)

SelectionNext == (\E h \in Handlers : Begin(h) \/ Proceed(h)) \/ Administer

SelectionSpec == SelectionInit /\ [][SelectionNext]_selectionVars
-----------------------------------------------------------------------------
\* Properties.

(***************************************************************************)
(* A request is approved only when all of it is done: the team has a       *)
(* supervisor, and the request names a project, which is the team's as     *)
(* long as no administrator takes it away.  However the decisions about it *)
(* overlap, fail half way and overwrite each other, no approval is left    *)
(* without its effects; only a team that is deleted loses its supervisor.  *)
(***************************************************************************)
ApprovedIsComplete ==
    \A k \in Rows : row[k].status = "approved" =>
      /\ assigned[row[k].team] # None \/ row[k].team \in gone
      /\ row[k].names # "none"
      /\ row[k].names = "project" => project[row[k].team] # "none"

\* The teams whose supervisor s was found to have fewer than max teams.
Checked(s, max) == {t \in TeamsOf(s) : 0 < under[t] /\ under[t] <= max}

(***************************************************************************)
(* The capacity check is a count before a write.  Requests that overlap    *)
(* may pass it together, but each of them only once: of the assignments    *)
(* that were checked against a limit, a supervisor has more than this      *)
(* limit by less than the number of requests in flight, whatever else was  *)
(* assigned without a limit and however the limit was changed.             *)
(***************************************************************************)
LoadIsBounded ==
    \A s \in Supervisors, max \in Limits \ {0} :
      Cardinality(Checked(s, max)) < max + Cardinality(Handlers)

\* A counterexample by hand: the project is past the selection, an error or
\* the last capacity check ends the approval, and the request stays pending;
\* approving it again fails at the second project.
SelectedHasSupervisor ==
    \A t \in Teams \ gone :
      /\ project[t] = "moved"
      /\ \A h \in Handlers : request[h] = NoWork
      => assigned[t] # None

\* A counterexample by hand: a cancellation is overwritten by an approval
\* that had read the request before it.
DecisionsAreFinal ==
    [][\A k \in Rows : row[k].status \in Decided =>
                         row'[k].status = row[k].status]_selectionVars
=============================================================================
