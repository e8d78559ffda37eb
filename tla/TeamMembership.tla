--------------------------- MODULE TeamMembership ---------------------------
(***************************************************************************)
(* The teams of team_service: who belongs to them, who leads them, whom    *)
(* they have invited, and whether their composition is locked.             *)
(*                                                                         *)
(* Most handlers of service.go read what they need without a lock, check   *)
(* it, and then write, each statement a transaction of its own: they are   *)
(* requests with a step for the checks and one for every write.  Answering *)
(* an invitation is the exception: repository.AcceptInvite locks the       *)
(* invitation and the team and is one step.                                *)
(*                                                                         *)
(* Three indexes are part of the state's shape or of the guards: a user is *)
(* in one team at most (idx_team_members_unique_user), a team has one      *)
(* leader at most (ux_team_leader), and one invitation per user.  Teams    *)
(* are deleted softly, so the foreign keys of a deleted team still hold.   *)
(*                                                                         *)
(* `disturbed' holds the teams on which two requests overlapped, a request *)
(* was cut off, or the size limit could not be fetched and was not         *)
(* checked: it separates what the handlers guarantee on their own from     *)
(* what they lose to one another.                                          *)
(***************************************************************************)
EXTENDS Naturals, FiniteSets

CONSTANTS
    Users,    \* students
    Teams,    \* ids of teams
    NoTeam,   \* what a user without a membership row has
    MaxSize,  \* max_size of the department's team configuration
    Callers   \* requests that can be in flight at the same time

ASSUME TeamAssumption ==
    /\ NoTeam \notin Teams
    /\ MaxSize \in Nat \ {0}
    /\ IsFiniteSet(Users)

VARIABLES
    team,      \* table teams: deleted_at and composition_locked
    member,    \* table team_members, by user_id
    invite,    \* table team_invites, by team_id and user_id
    request,   \* the team_service calls in flight
    disturbed  \* teams the guarantees of a lone request do not cover

vars == <<team, member, invite, request, disturbed>>
-----------------------------------------------------------------------------
\* `late' is PENDING with expires_at in the past.
InviteStatuses == {"none", "pending", "late", "accepted", "declined",
                   "expired"}

\* The write a request makes next.
Steps == {"lead", "inviting", "invite", "promote", "demote", "raise",
          "restore", "drop", "disband", "join", "save"}

Idle == [step |-> "idle"]

\* `others' are the users still to invite, or the new leader; `locked' is
\* the composition_locked of the row that UpdateTeam read.
Requests == {Idle} \cup [step : Steps, team : Teams, user : Users,
                         others : SUBSET Users, locked : BOOLEAN]

Outside == [team |-> NoTeam, role |-> "member"]

TypeOK ==
    /\ team \in [Teams -> [row : {"none", "present", "deleted"},
                           locked : BOOLEAN]]
    /\ member \in [Users -> [team : Teams \cup {NoTeam},
                             role : {"leader", "member"}]]
    /\ invite \in [Teams -> [Users -> InviteStatuses]]
    /\ request \in [Callers -> Requests]
    /\ disturbed \subseteq Teams

Init ==
    /\ team = [t \in Teams |-> [row |-> "none", locked |-> FALSE]]
    /\ member = [u \in Users |-> Outside]
    /\ invite = [t \in Teams |-> [u \in Users |-> "none"]]
    /\ request = [c \in Callers |-> Idle]
    /\ disturbed = {}
-----------------------------------------------------------------------------
Members(t) == {u \in Users : member[u].team = t}

IsLeader(t, u) == member[u].team = t /\ member[u].role = "leader"

HasLeader(t) == \E u \in Users : IsLeader(t, u)

IsPending(t, u) == invite[t][u] \in {"pending", "late"}

PendingUsers(t) == {u \in Users : IsPending(t, u)}

\* GetByID ignores deleted rows.
Exists(t) == team[t].row = "present"

\* A composition that may change although it is locked.
AnyExisting(t) == Exists(t)

Unlocked(t) == Exists(t) /\ ~team[t].locked

\* Requests at work on a team.
On(t) == {c \in Callers : request[c] # Idle /\ request[c].team = t}

Disturb(t) == disturbed' = disturbed \cup {t}

Touch(t) == IF On(t) = {} THEN UNCHANGED disturbed ELSE Disturb(t)

\* One seat too many.
FitsPlusOne(n) == n <= MaxSize + 1

Fits(n) == n <= MaxSize

\* A check of the size limit.  It is skipped when workflow_service does not
\* answer with a configuration.
Room(t, n) == (Fits(n) /\ Touch(t)) \/ Disturb(t)

Become(c, r) == request' = [request EXCEPT ![c] = r]

Start(c, step, t, u, others) ==
    /\ request[c] = Idle
    /\ Become(c, [step |-> step, team |-> t, user |-> u, others |-> others,
                  locked |-> team[t].locked])

\* The request goes on with another step, or ends.
Continue(c, step) == Become(c, [request[c] EXCEPT !.step = step])

End(c) == Become(c, Idle)

\* Writes to table team_members and to an invitation.
Enter(u, t, role) ==
    member' = [member EXCEPT ![u] = [team |-> t, role |-> role]]

SetRole(u, role) == member' = [member EXCEPT ![u].role = role]

\* ux_team_leader: u may be leader of t as long as nobody else is.
MayLead(t, u) ==
    /\ member[u].team = t
    /\ \A v \in Users \ {u} : ~IsLeader(t, v)

\* CreateInviteSafe: a pending invitation stays as it is, even a late one.
CreateInviteSafe(t, u) ==
    invite' = [invite EXCEPT ![t][u] = IF IsPending(t, u) THEN @
                                                          ELSE "pending"]
-----------------------------------------------------------------------------
\* Creating a team: the team row, the leader's row, the invitations.

CreateTeam(c, t, u, invitees) ==
    /\ team[t].row = "none"
    /\ member[u] = Outside
    /\ Room(t, 1 + Cardinality(invitees))
    /\ team' = [team EXCEPT ![t] = [row |-> "present", locked |-> FALSE]]
    /\ Start(c, "lead", t, u, invitees)
    /\ UNCHANGED <<member, invite>>

\* A failed creation that leaves the team behind.
GiveUp(c) == End(c)

UndoCreation(c) == Continue(c, "disband")

\* The team is deleted again if the leader has joined another by now.
AddLeader(c) ==
    LET r == request[c] IN
    /\ r.step = "lead"
    /\ IF member[r.user] = Outside
         THEN Enter(r.user, r.team, "leader") /\ Continue(c, "inviting")
         ELSE UNCHANGED member /\ UndoCreation(c)
    /\ UNCHANGED <<team, invite, disturbed>>

InviteNext(c, u) ==
    LET r == request[c] IN
    /\ r.step = "inviting"
    /\ u \in r.others
    /\ IF member[u] = Outside THEN CreateInviteSafe(r.team, u)
                              ELSE UNCHANGED invite
    /\ Become(c, [r EXCEPT !.others = @ \ {u}])
    /\ UNCHANGED <<team, member, disturbed>>

AllInvited(c) ==
    /\ request[c].step = "inviting"
    /\ request[c].others = {}
    /\ End(c)
    /\ UNCHANGED <<team, member, invite, disturbed>>
-----------------------------------------------------------------------------
\* Invitations.

\* AddMember invites; it adds nobody.
AddMember(c, t, u) ==
    /\ HasLeader(t)
    /\ Unlocked(t)
    /\ member[u] = Outside
    /\ ~IsPending(t, u)
    /\ Room(t, 1 + Cardinality(Members(t)) + Cardinality(PendingUsers(t)))
    /\ Start(c, "invite", t, u, {})
    /\ UNCHANGED <<team, member, invite>>

CreateInvite(c) ==
    /\ request[c].step = "invite"
    /\ CreateInviteSafe(request[c].team, request[c].user)
    /\ End(c)
    /\ UNCHANGED <<team, member, disturbed>>

\* A transaction that holds the invitation and the team.  A late invitation
\* is not accepted; the EXPIRED written for it is rolled back, and so is
\* the DECLINED for a student who is in a team already.
AcceptInvite(t, u) ==
    /\ invite[t][u] = "pending"
    /\ Unlocked(t)
    /\ member[u] = Outside
    /\ Room(t, 1 + Cardinality(Members(t)))
    /\ Enter(u, t, "member")
    /\ invite' = [s \in Teams |->
                    [invite[s] EXCEPT ![u] =
                       IF s = t THEN "accepted"
                       ELSE IF IsPending(s, u) THEN "declined" ELSE @]]
    /\ UNCHANGED <<team, request>>

\* The status words of the migration's comment.
MigrationRefusal(status) == IF status = "late" THEN "cancelled" ELSE "rejected"

Refusal(status) == IF status = "late" THEN "expired" ELSE "declined"

RejectInvite(t, u) ==
    /\ Exists(t)
    /\ IsPending(t, u)
    /\ invite' = [invite EXCEPT ![t][u] = Refusal(@)]
    /\ Touch(t)
    /\ UNCHANGED <<team, member, request>>

\* The clock passes expires_at.
InviteExpires(t, u) ==
    /\ invite[t][u] = "pending"
    /\ invite' = [invite EXCEPT ![t][u] = "late"]
    /\ UNCHANGED <<team, member, request, disturbed>>
-----------------------------------------------------------------------------
\* Joining by code.

JoinTeamByCode(c, t, u) ==
    /\ member[u] = Outside
    /\ Unlocked(t)
    /\ Room(t, 1 + Cardinality(Members(t)))
    /\ Start(c, "join", t, u, {})
    /\ UNCHANGED <<team, member, invite>>

\* The row is inserted whatever has become of the team, unless the user is
\* in a team by now.
InsertMember(c) ==
    LET r == request[c] IN
    /\ r.step = "join"
    /\ IF member[r.user] = Outside THEN Enter(r.user, r.team, "member")
                                   ELSE UNCHANGED member
    /\ End(c)
    /\ UNCHANGED <<team, invite, disturbed>>
-----------------------------------------------------------------------------
\* Leaving, removing, deleting.

\* A leader who leaves like everybody else.
LeaveStepForAll(t, u) ==
    IF Members(t) = {u} THEN "disband" ELSE "drop"

\* The last member takes the team along, a leader first promotes another.
LeaveStep(t, u) ==
    IF Members(t) = {u} THEN "disband"
    ELSE IF IsLeader(t, u) THEN "promote" ELSE "drop"

LeaveTeam(c, t, u, next) ==
    /\ Unlocked(t)
    /\ member[u].team = t
    /\ next \in Members(t)
    /\ next = u <=> LeaveStep(t, u) # "promote"
    /\ Touch(t)
    /\ Start(c, LeaveStep(t, u), t, u, {next})
    /\ UNCHANGED <<team, member, invite>>

\* UPDATE ... SET role = 'leader' while the old leader still is one: it is
\* refused, and the request ends, unless somebody else has demoted him.
Promote(c) ==
    LET r == request[c] IN
    /\ r.step = "promote"
    /\ \E v \in r.others :
         IF MayLead(r.team, v)
           THEN SetRole(v, "leader") /\ Continue(c, "drop")
           ELSE UNCHANGED member /\ End(c)
    /\ UNCHANGED <<team, invite, disturbed>>

RemoveMember(c, t, u) ==
    /\ Unlocked(t)
    /\ HasLeader(t)
    /\ member[u].team = t
    /\ ~IsLeader(t, u)
    /\ Touch(t)
    /\ Start(c, "drop", t, u, {})
    /\ UNCHANGED <<team, member, invite>>

\* repository.RemoveMember: the row goes whatever its role is by now.
DropMember(c) ==
    LET r == request[c] IN
    /\ r.step = "drop"
    /\ IF member[r.user].team = r.team
         THEN member' = [member EXCEPT ![r.user] = Outside]
         ELSE UNCHANGED member
    /\ End(c)
    /\ UNCHANGED <<team, invite, disturbed>>

\* Neither the lock nor a project of the team is looked at.
DeleteTeam(c, t, u) ==
    /\ IsLeader(t, u)
    /\ Touch(t)
    /\ Start(c, "disband", t, u, {})
    /\ UNCHANGED <<team, member, invite>>

\* Members that outlive their team.
KeepMembers(t) == UNCHANGED member

RemoveMembers(t) ==
    member' = [u \in Users |-> IF member[u].team = t THEN Outside
                                                     ELSE member[u]]

\* repository.Delete, one transaction.
Disband(c) ==
    LET t == request[c].team IN
    /\ request[c].step = "disband"
    /\ invite' = [invite EXCEPT ![t] = [u \in Users |-> "none"]]
    /\ RemoveMembers(t)
    /\ team' = [team EXCEPT ![t].row = "deleted"]
    /\ End(c)
    /\ UNCHANGED disturbed
-----------------------------------------------------------------------------
\* Transferring the leadership: two updates, the first one undone if the
\* second fails.

TransferLeadership(c, t, u, next) ==
    /\ Unlocked(t)
    /\ IsLeader(t, u)
    /\ next \in Members(t) \ {u}
    /\ Touch(t)
    /\ Start(c, "demote", t, u, {next})
    /\ UNCHANGED <<team, member, invite>>

Demote(c) ==
    LET r == request[c] IN
    /\ r.step = "demote"
    /\ IF member[r.user].team = r.team
         THEN SetRole(r.user, "member") /\ Continue(c, "raise")
         ELSE UNCHANGED member /\ End(c)
    /\ UNCHANGED <<team, invite, disturbed>>

Raise(c) ==
    LET r == request[c] IN
    /\ r.step = "raise"
    /\ \E v \in r.others :
         IF MayLead(r.team, v)
           THEN SetRole(v, "leader") /\ End(c)
           ELSE UNCHANGED member /\ Continue(c, "restore")
    /\ UNCHANGED <<team, invite, disturbed>>

Restore(c) ==
    LET r == request[c] IN
    /\ r.step = "restore"
    /\ IF MayLead(r.team, r.user) THEN SetRole(r.user, "leader")
                                  ELSE UNCHANGED member
    /\ End(c)
    /\ UNCHANGED <<team, invite, disturbed>>
-----------------------------------------------------------------------------
\* The team row.

UpdateTeam(c, t, u) ==
    /\ IsLeader(t, u)
    /\ Exists(t)
    /\ Touch(t)
    /\ Start(c, "save", t, u, {})
    /\ UNCHANGED <<team, member, invite>>

\* Save writes every column as it was read, and inserts the row again when
\* it has been deleted.
SaveTeam(c) ==
    LET r == request[c] IN
    /\ r.step = "save"
    /\ team' = [team EXCEPT ![r.team] = [row |-> "present",
                                         locked |-> r.locked]]
    /\ End(c)
    /\ UNCHANGED <<member, invite, disturbed>>

\* LockTeamComposition, called by the plugin of the same name.
LockTeamComposition(t) ==
    /\ Exists(t)
    /\ team' = [team EXCEPT ![t].locked = TRUE]
    /\ Touch(t)
    /\ UNCHANGED <<member, invite, request>>

\* The request is cut off: a failed statement, a killed process.
Abandon(c) ==
    /\ request[c] # Idle
    /\ Disturb(request[c].team)
    /\ End(c)
    /\ UNCHANGED <<team, member, invite>>
-----------------------------------------------------------------------------
Begin(c, t, u) ==
    \/ \E invitees \in SUBSET (Users \ {u}) : CreateTeam(c, t, u, invitees)
    \/ AddMember(c, t, u)
    \/ JoinTeamByCode(c, t, u)
    \/ RemoveMember(c, t, u)
    \/ DeleteTeam(c, t, u)
    \/ UpdateTeam(c, t, u)
    \/ \E next \in Users : \/ LeaveTeam(c, t, u, next)
                           \/ TransferLeadership(c, t, u, next)

Proceed(c) ==
    \/ AddLeader(c)
    \/ \E u \in Users : InviteNext(c, u)
    \/ AllInvited(c)
    \/ CreateInvite(c)
    \/ InsertMember(c)
    \/ Promote(c)
    \/ DropMember(c)
    \/ Disband(c)
    \/ Demote(c)
    \/ Raise(c)
    \/ Restore(c)
    \/ SaveTeam(c)

Respond(t, u) == AcceptInvite(t, u) \/ RejectInvite(t, u)

Next ==
    \/ \E c \in Callers : \/ \E t \in Teams, u \in Users : Begin(c, t, u)
                          \/ Proceed(c)
                          \/ Abandon(c)
    \/ \E t \in Teams : \/ LockTeamComposition(t)
                        \/ \E u \in Users : Respond(t, u) \/ InviteExpires(t, u)

Spec == Init /\ [][Next]_vars

(***************************************************************************)
(* Requests under way go on, and leaders invite whom they may, each user   *)
(* again and again until he is in a team.                                  *)
(***************************************************************************)
FairSpec ==
    /\ Spec
    /\ \A c \in Callers : WF_vars(Proceed(c))
    /\ \A t \in Teams, u \in Users :
         SF_vars(\E c \in Callers : AddMember(c, t, u))
-----------------------------------------------------------------------------
\* Properties.

Quiet(t) == t \notin disturbed

(***************************************************************************)
(* A team whose requests did not overlap has at most MaxSize members,      *)
(* whichever of the three ways they came in, and although each of their    *)
(* invitations and memberships elsewhere changes meanwhile.                *)
(***************************************************************************)
SizeLimit == \A t \in Teams : Quiet(t) => Cardinality(Members(t)) <= MaxSize

(***************************************************************************)
(* Such a team has exactly one leader whenever no request is at work on    *)
(* it, also after a creation whose leader had joined another team, and     *)
(* after transfers and departures.                                         *)
(***************************************************************************)
OneLeader ==
    \A t \in Teams :
      Quiet(t) /\ Exists(t) /\ On(t) = {} =>
        \E u \in Users : \A v \in Users : IsLeader(t, v) <=> v = u

(***************************************************************************)
(* Nobody is a member of such a team once it is deleted (the row would     *)
(* keep him out of every other team), and nobody is still invited to it.   *)
(***************************************************************************)
NoGhosts ==
    \A t \in Teams : Quiet(t) /\ team[t].row = "deleted" =>
      Members(t) = {} /\ PendingUsers(t) = {}

(***************************************************************************)
(* The members of such a team do not change once its composition is        *)
(* locked, and the lock stays, unless the team is deleted.                 *)
(***************************************************************************)
LockedStaysTheSame ==
    [][\A t \in Teams :
         Quiet(t)' /\ team[t].locked /\ Exists(t)' =>
           Members(t)' = Members(t) /\ team'[t].locked]_vars

(***************************************************************************)
(* The description of LOCK_TEAM_COMPOSITION (team_lock.go:27): it forbids  *)
(* any change of the team's composition after the stage that formed it.    *)
(* Deleting the team is not counted as one.                                *)
(***************************************************************************)
LockForbidsAnyChange ==
    [][\A t \in Teams :
         team[t].locked /\ HasLeader(t) /\ Exists(t)' =>
           Members(t)' = Members(t)]_vars

(***************************************************************************)
(* LeaveTeam's answer to a leader (service.go): the leadership was handed  *)
(* to another member.  Nobody interferes here.                             *)
(***************************************************************************)
LeadersHandOver ==
    [][\A c \in Callers :
         request[c].step = "promote" /\ request[c].team \notin disturbed' =>
           request'[c].step \in {"promote", "drop"}]_vars

\* What the leader of t needs to invite u, late invitations aside.
Invitable(t, u) ==
    /\ HasLeader(t)
    /\ Unlocked(t)
    /\ member[u] = Outside
    /\ Fits(1 + Cardinality(Members(t)))

(***************************************************************************)
(* CreateInviteSafe's comment (repository.go): an invitation that was      *)
(* declined or has expired may be sent again.                              *)
(***************************************************************************)
ExpiredIsSentAgain ==
    \A t \in Teams, u \in Users :
      invite[t][u] = "late" /\ Invitable(t, u)
        ~> invite[t][u] # "late" \/ ~Invitable(t, u)
=============================================================================
