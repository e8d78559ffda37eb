------------------------ MODULE TeamMembershipProofs ------------------------
(***************************************************************************)
(* Theorems about TeamMembership, for any users, teams and number of       *)
(* requests in flight.                                                     *)
(*                                                                         *)
(* TypeCorrect        rows, invitations and requests keep their types.     *)
(* LockedComposition  the composition of a locked team stays the same as   *)
(*                    long as its requests do not overlap.                 *)
(* TeamsStaySmall     such a team has MaxSize members at most,             *)
(* TeamsAreLed        one leader when nobody is at work on it,             *)
(* NobodyIsLeftBehind and nobody in it, or invited, once it is deleted.    *)
(* LeadersNeverLeave  its leader gets out of it by a transfer only.        *)
(*                                                                         *)
(* All but the first rest on two facts about undisturbed teams: one        *)
(* request at most is at work on such a team (AloneInv), and what that     *)
(* request checked before its first write still holds (CheckedInv).  The   *)
(* last three add what holds between two writes of a request (SoundInv).   *)
(***************************************************************************)
EXTENDS TeamMembership, FiniteSetTheorems, TLAPS

\* Actions by what they have in common: the checks that start a request ...
LEMMA BeginTyped ==
    ASSUME TypeOK, NEW c \in Callers, NEW t \in Teams, NEW u \in Users,
           Begin(c, t, u)
    PROVE  TypeOK'
<1> USE DEF TypeOK
<1>1. ASSUME NEW step \in Steps, NEW s \in Teams, NEW v \in Users,
             NEW others \in SUBSET Users, Start(c, step, s, v, others)
      PROVE  request' \in [Callers -> Requests]
  <2>1. [step |-> step, team |-> s, user |-> v, others |-> others,
         locked |-> team[s].locked] \in Requests
    BY <1>1 DEF Requests
  <2> QED
    BY <1>1, <2>1 DEF Start, Become
<1>2. ASSUME NEW n, Room(t, n) PROVE disturbed' \subseteq Teams
  BY <1>2 DEF Room, Touch, Disturb
<1>3. ASSUME Touch(t) PROVE disturbed' \subseteq Teams
  BY <1>3 DEF Touch, Disturb
<1>4. CASE \E invitees \in SUBSET (Users \ {u}) : CreateTeam(c, t, u, invitees)
  <2>1. PICK invitees \in SUBSET (Users \ {u}) : CreateTeam(c, t, u, invitees)
    BY <1>4
  <2>2. request' \in [Callers -> Requests]
    BY <2>1, <1>1 DEF CreateTeam, Steps
  <2>3. disturbed' \subseteq Teams
    BY <2>1, <1>2 DEF CreateTeam
  <2> QED
    BY <2>1, <2>2, <2>3 DEF CreateTeam
<1>5. CASE AddMember(c, t, u)
  <2>1. request' \in [Callers -> Requests]
    BY <1>5, <1>1 DEF AddMember, Steps
  <2>2. disturbed' \subseteq Teams
    BY <1>5, <1>2 DEF AddMember
  <2> QED
    BY <1>5, <2>1, <2>2 DEF AddMember
<1>6. CASE JoinTeamByCode(c, t, u)
  <2>1. request' \in [Callers -> Requests]
    BY <1>6, <1>1 DEF JoinTeamByCode, Steps
  <2>2. disturbed' \subseteq Teams
    BY <1>6, <1>2 DEF JoinTeamByCode
  <2> QED
    BY <1>6, <2>1, <2>2 DEF JoinTeamByCode
<1>7. CASE RemoveMember(c, t, u)
  BY <1>7, <1>1, <1>3 DEF RemoveMember, Steps
<1>8. CASE DeleteTeam(c, t, u)
  BY <1>8, <1>1, <1>3 DEF DeleteTeam, Steps
<1>9. CASE UpdateTeam(c, t, u)
  BY <1>9, <1>1, <1>3 DEF UpdateTeam, Steps
<1>10. CASE \E next \in Users : LeaveTeam(c, t, u, next)
  <2>1. LeaveStep(t, u) \in Steps
    BY DEF LeaveStep, Steps
  <2> QED
    BY <1>10, <2>1, <1>1, <1>3 DEF LeaveTeam
<1>11. CASE \E next \in Users : TransferLeadership(c, t, u, next)
  BY <1>11, <1>1, <1>3 DEF TransferLeadership, Steps
<1> QED
  BY <1>4, <1>5, <1>6, <1>7, <1>8, <1>9, <1>10, <1>11 DEF Begin

\* ... the writes of a request ...
LEMMA ProceedTyped ==
    ASSUME TypeOK, NEW c \in Callers, Proceed(c)
    PROVE  TypeOK'
<1> USE DEF TypeOK
<1>1. ASSUME End(c) PROVE request' \in [Callers -> Requests]
  BY <1>1 DEF End, Become, Requests
<1>2. ASSUME NEW step \in Steps, request[c] # Idle, Continue(c, step)
      PROVE  request' \in [Callers -> Requests]
  <2>1. [request[c] EXCEPT !.step = step] \in Requests
    BY <1>2 DEF Requests
  <2> QED
    BY <1>2, <2>1 DEF Continue, Become
<1>3. ASSUME request[c] # Idle
      PROVE  /\ request[c].team \in Teams
             /\ request[c].user \in Users
             /\ request[c].others \in SUBSET Users
             /\ request[c].locked \in BOOLEAN
  BY <1>3 DEF Requests
<1>4. ASSUME request[c].step # "idle" PROVE request[c] # Idle
  BY <1>4 DEF Idle
<1>5. ASSUME NEW u \in Users, NEW t \in Teams, NEW role \in {"leader", "member"},
             Enter(u, t, role) \/ SetRole(u, role)
      PROVE  member' \in [Users -> [team : Teams \cup {NoTeam},
                                    role : {"leader", "member"}]]
  <2>1. [team |-> t, role |-> role] \in [team : Teams \cup {NoTeam},
                                         role : {"leader", "member"}]
    OBVIOUS
  <2>2. [member[u] EXCEPT !.role = role] \in [team : Teams \cup {NoTeam},
                                             role : {"leader", "member"}]
    OBVIOUS
  <2> QED
    BY <1>5, <2>1, <2>2 DEF Enter, SetRole
<1>6. CASE AddLeader(c)
  BY <1>6, <1>1, <1>2, <1>3, <1>4, <1>5 DEF AddLeader, UndoCreation, Steps
<1>7. ASSUME NEW t \in Teams, NEW u \in Users, CreateInviteSafe(t, u)
      PROVE  invite' \in [Teams -> [Users -> InviteStatuses]]
  BY <1>7 DEF CreateInviteSafe, InviteStatuses
<1>8. CASE \E u \in Users : InviteNext(c, u)
  <2>1. PICK u \in Users : InviteNext(c, u)
    BY <1>8
  <2>2. [request[c] EXCEPT !.others = @ \ {u}] \in Requests
    BY <2>1, <1>4 DEF InviteNext, Requests
  <2> QED
    BY <2>1, <2>2, <1>3, <1>4, <1>7 DEF InviteNext, Become
<1>9. CASE AllInvited(c)
  BY <1>9, <1>1 DEF AllInvited
<1>10. CASE CreateInvite(c)
  BY <1>10, <1>1, <1>3, <1>4, <1>7 DEF CreateInvite
<1>11. CASE InsertMember(c)
  BY <1>11, <1>1, <1>3, <1>4, <1>5 DEF InsertMember
<1>12. CASE Promote(c)
  BY <1>12, <1>1, <1>2, <1>3, <1>4, <1>5 DEF Promote, Steps
<1>13. CASE DropMember(c)
  BY <1>13, <1>1 DEF DropMember, Outside
<1>14. CASE Disband(c)
  <2>1. member' \in [Users -> [team : Teams \cup {NoTeam},
                               role : {"leader", "member"}]]
    BY <1>14 DEF Disband, RemoveMembers, Outside
  <2> QED
    BY <1>14, <2>1, <1>1, <1>3, <1>4 DEF Disband, InviteStatuses
<1>15. CASE Demote(c)
  BY <1>15, <1>1, <1>2, <1>3, <1>4, <1>5 DEF Demote, Steps
<1>16. CASE Raise(c)
  BY <1>16, <1>1, <1>2, <1>3, <1>4, <1>5 DEF Raise, Steps
<1>17. CASE Restore(c)
  BY <1>17, <1>1, <1>3, <1>4, <1>5 DEF Restore
<1>18. CASE SaveTeam(c)
  BY <1>18, <1>1, <1>3, <1>4 DEF SaveTeam
<1> QED
  BY <1>6, <1>8, <1>9, <1>10, <1>11, <1>12, <1>13, <1>14, <1>15, <1>16,
     <1>17, <1>18 DEF Proceed

\* ... and the steps that need no request.
LEMMA DirectTyped ==
    ASSUME TypeOK, NEW t \in Teams, NEW u \in Users,
           \/ LockTeamComposition(t)
           \/ Respond(t, u)
           \/ InviteExpires(t, u)
    PROVE  TypeOK'
<1> USE DEF TypeOK
<1>1. ASSUME Touch(t) PROVE disturbed' \subseteq Teams
  BY <1>1 DEF Touch, Disturb
<1>2. CASE LockTeamComposition(t)
  BY <1>2, <1>1 DEF LockTeamComposition
<1>3. CASE AcceptInvite(t, u)
  <2>1. disturbed' \subseteq Teams
    BY <1>3 DEF AcceptInvite, Room, Touch, Disturb
  <2>2. member' \in [Users -> [team : Teams \cup {NoTeam},
                               role : {"leader", "member"}]]
    BY <1>3 DEF AcceptInvite, Enter
  <2>3. invite' \in [Teams -> [Users -> InviteStatuses]]
    BY <1>3 DEF AcceptInvite, InviteStatuses
  <2> QED
    BY <1>3, <2>1, <2>2, <2>3 DEF AcceptInvite
<1>4. CASE RejectInvite(t, u)
  BY <1>4, <1>1 DEF RejectInvite, Refusal, InviteStatuses
<1>5. CASE InviteExpires(t, u)
  BY <1>5 DEF InviteExpires, InviteStatuses
<1> QED
  BY <1>2, <1>3, <1>4, <1>5 DEF Respond

LEMMA AbandonTyped ==
    ASSUME TypeOK, NEW c \in Callers, Abandon(c)
    PROVE  TypeOK'
BY DEF TypeOK, Abandon, Disturb, End, Become, Requests, Idle

(***************************************************************************)
(* Rows, invitations, requests and the set of disturbed teams keep their   *)
(* types.                                                                  *)
(***************************************************************************)
THEOREM TypeCorrect == Spec => []TypeOK
<1>1. Init => TypeOK
  BY DEF Init, TypeOK, Outside, Requests, InviteStatuses
<1>2. TypeOK /\ [Next]_vars => TypeOK'
  <2> SUFFICES ASSUME TypeOK, [Next]_vars PROVE TypeOK'
    OBVIOUS
  <2>1. CASE UNCHANGED vars
    BY <2>1 DEF TypeOK, vars
  <2>2. CASE Next
    <3>1. ASSUME NEW t \in Teams, LockTeamComposition(t) PROVE TypeOK'
      BY <3>1 DEF TypeOK, LockTeamComposition, Touch, Disturb
    <3> QED
      BY <2>2, <3>1, BeginTyped, ProceedTyped, DirectTyped, AbandonTyped
         DEF Next
  <2> QED
    BY <2>1, <2>2
<1> QED
  BY <1>1, <1>2, PTL DEF Spec
-----------------------------------------------------------------------------
\* The inductive invariant of the undisturbed teams.

Works(c, t) == request[c] # Idle /\ request[c].team = t

\* One request at most is at work on such a team.
AloneInv ==
    \A t \in Teams : Quiet(t) =>
      \A c, d \in Callers : Works(c, t) /\ Works(d, t) => c = d

\* What a request checked, or read, before its first write still holds.
Checked(c) ==
    /\ request[c].step \in {"lead", "join", "drop", "promote"} =>
         Unlocked(request[c].team)
    /\ request[c].step = "save" =>
         /\ Exists(request[c].team)
         /\ request[c].locked = team[request[c].team].locked

CheckedInv ==
    \A t \in Teams : Quiet(t) =>
      \A c \in Callers : Works(c, t) => Checked(c)

\* A team is locked only after it was created.
FreshInv == \A t \in Teams : team[t].locked => team[t].row # "none"

LockInv == TypeOK /\ AloneInv /\ CheckedInv /\ FreshInv

\* Nobody is at work on a team that stays undisturbed when a request starts.
LEMMA StartsAlone ==
    ASSUME NEW t \in Teams, NEW n, t \notin disturbed',
           Touch(t) \/ Room(t, n)
    PROVE  /\ \A d \in Callers : ~Works(d, t)
           /\ disturbed' = disturbed
BY DEF Touch, Room, Disturb, On, Works

\* A request that starts on t, and changes no team but t.
LEMMA StartKeeps ==
    ASSUME LockInv, NEW c \in Callers, NEW t \in Teams, NEW u \in Users,
           NEW step \in Steps, NEW others \in SUBSET Users,
           NEW n, Touch(t) \/ Room(t, n),
           Start(c, step, t, u, others),
           \A s \in Teams \ {t} : team'[s] = team[s],
           step \in {"lead", "join", "drop", "promote"} => Unlocked(t)',
           step = "save" => Exists(t)' /\ team'[t] = team[t]
    PROVE  AloneInv' /\ CheckedInv'
<1>1. disturbed \subseteq disturbed'
  BY DEF Touch, Room, Disturb
<1>2. request' = [request EXCEPT ![c] =
                    [step |-> step, team |-> t, user |-> u, others |-> others,
                     locked |-> team[t].locked]]
  BY DEF Start, Become
<1>3. request \in [Callers -> Requests]
  BY DEF LockInv, TypeOK
<1>a. ASSUME NEW r, request' = [request EXCEPT ![c] = r]
      PROVE  request'[c] = r /\ \A d \in Callers \ {c} : request'[d] = request[d]
  BY <1>3, <1>a
<1>4. ASSUME NEW d \in Callers, d # c
      PROVE  request'[d] = request[d]
  BY <1>2, <1>a, <1>4
<1>5. request'[c] = [step |-> step, team |-> t, user |-> u,
                     others |-> others, locked |-> team[t].locked]
  BY <1>2, <1>a
<1>6. AloneInv'
  <2> SUFFICES ASSUME NEW s \in Teams, s \notin disturbed',
                      NEW d \in Callers, NEW e \in Callers,
                      Works(d, s)', Works(e, s)'
               PROVE  d = e
    BY DEF AloneInv, Quiet
  <2>1. CASE s = t
    BY <2>1, <1>4, StartsAlone DEF Works
  <2>2. CASE s # t
    BY <2>2, <1>1, <1>4, <1>5 DEF Works, AloneInv, LockInv, Quiet
  <2> QED
    BY <2>1, <2>2
<1>7. CheckedInv'
  <2> SUFFICES ASSUME NEW s \in Teams, s \notin disturbed',
                      NEW d \in Callers, Works(d, s)'
               PROVE  Checked(d)'
    BY DEF CheckedInv, Quiet
  <2>1. CASE d = c
    BY <2>1, <1>5 DEF Works, Checked, Unlocked, Exists
  <2>2. CASE d # c
    <3>1. Works(d, s) /\ Checked(d)
      BY <2>2, <1>1, <1>4 DEF Works, CheckedInv, LockInv, Quiet
    <3>2. s # t
      BY <3>1, StartsAlone
    <3> QED
      BY <2>2, <3>1, <3>2, <1>4 DEF Works, Checked, Unlocked, Exists
  <2> QED
    BY <2>1, <2>2
<1> QED
  BY <1>6, <1>7

LEMMA BeginKeeps ==
    ASSUME LockInv, NEW c \in Callers, NEW t \in Teams, NEW u \in Users,
           Begin(c, t, u)
    PROVE  AloneInv' /\ CheckedInv'
<1>1. CASE \E invitees \in SUBSET (Users \ {u}) : CreateTeam(c, t, u, invitees)
  <2>1. PICK invitees \in SUBSET (Users \ {u}) : CreateTeam(c, t, u, invitees)
    BY <1>1
  <2>2. /\ team' = [team EXCEPT ![t] = [row |-> "present", locked |-> FALSE]]
        /\ Start(c, "lead", t, u, invitees)
        /\ Room(t, 1 + Cardinality(invitees))
    BY <2>1 DEF CreateTeam
  <2>3. Unlocked(t)'
    BY <2>2 DEF Unlocked, Exists, LockInv, TypeOK
  <2> QED
    BY <2>2, <2>3, StartKeeps DEF Steps, LockInv, TypeOK
<1>2. CASE AddMember(c, t, u)
  BY <1>2, StartKeeps DEF AddMember, Steps
<1>3. CASE JoinTeamByCode(c, t, u)
  BY <1>3, StartKeeps DEF JoinTeamByCode, Steps, Unlocked, Exists
<1>4. CASE RemoveMember(c, t, u)
  BY <1>4, StartKeeps DEF RemoveMember, Steps, Unlocked, Exists
<1>5. CASE DeleteTeam(c, t, u)
  BY <1>5, StartKeeps DEF DeleteTeam, Steps
<1>6. CASE UpdateTeam(c, t, u)
  BY <1>6, StartKeeps DEF UpdateTeam, Steps, Exists
<1>7. CASE \E next \in Users : LeaveTeam(c, t, u, next)
  <2>1. LeaveStep(t, u) \in {"disband", "promote", "drop"}
    BY DEF LeaveStep
  <2> QED
    BY <1>7, <2>1, StartKeeps DEF LeaveTeam, Steps, Unlocked, Exists
<1>8. CASE \E next \in Users : TransferLeadership(c, t, u, next)
  BY <1>8, StartKeeps DEF TransferLeadership, Steps
<1> QED
  BY <1>1, <1>2, <1>3, <1>4, <1>5, <1>6, <1>7, <1>8 DEF Begin

\* A request at work on t that goes on with it, or ends, and leaves the
\* other teams alone.
LEMMA WriteKeeps ==
    ASSUME LockInv, NEW c \in Callers, request[c] # Idle,
           NEW r, request' = [request EXCEPT ![c] = r],
           disturbed' = disturbed,
           \A s \in Teams \ {request[c].team} : team'[s] = team[s],
           r # Idle => /\ r.team = request[c].team
                       /\ r.step \in {"lead", "join", "drop", "promote"} =>
                            Unlocked(r.team)'
                       /\ r.step # "save"
    PROVE  AloneInv' /\ CheckedInv'
<1>1. request \in [Callers -> Requests]
  BY DEF LockInv, TypeOK
<1>2. request'[c] = r /\ \A d \in Callers \ {c} : request'[d] = request[d]
  BY <1>1
<1>3. \A d \in Callers, s \in Teams : Works(d, s)' => Works(d, s)
  BY <1>2 DEF Works
<1>4. AloneInv'
  BY <1>3 DEF AloneInv, LockInv, Quiet
<1>5. CheckedInv'
  <2> SUFFICES ASSUME NEW s \in Teams, s \notin disturbed,
                      NEW d \in Callers, Works(d, s)'
               PROVE  Checked(d)'
    BY DEF CheckedInv, Quiet
  <2>1. Works(d, s) /\ Checked(d)
    BY <1>3 DEF CheckedInv, LockInv, Quiet
  <2>2. CASE d = c
    BY <2>2, <1>2 DEF Works, Checked, Unlocked, Exists
  <2>3. CASE d # c
    <3>1. s # request[c].team
      BY <2>1, <2>3 DEF AloneInv, LockInv, Quiet, Works
    <3> QED
      BY <2>1, <2>3, <3>1, <1>2 DEF Works, Checked, Unlocked, Exists
  <2> QED
    BY <2>2, <2>3
<1> QED
  BY <1>4, <1>5

\* A request that leaves its team alone, except that it may delete it when
\* it ends.
LEMMA ProceedKeeps ==
    ASSUME LockInv, NEW c \in Callers, Proceed(c)
    PROVE  AloneInv' /\ CheckedInv'
<1>1. ASSUME NEW step \in Steps \ {"lead", "join", "promote", "save"},
             request[c].step # "idle", Continue(c, step),
             team' = team, disturbed' = disturbed,
             step = "drop" => request[c].step = "promote"
      PROVE  AloneInv' /\ CheckedInv'
  <2>1. request[c] # Idle
    BY <1>1 DEF Idle
  <2>a. PICK r : r = [request[c] EXCEPT !.step = step]
    OBVIOUS
  <2>2. r.team = request[c].team /\ r.step = step
    BY <2>1, <2>a DEF LockInv, TypeOK, Requests
  <2>3. request[c].team \in Teams
    BY <2>1 DEF LockInv, TypeOK, Requests
  <2>4. request' = [request EXCEPT ![c] = r]
    BY <1>1, <2>a DEF Continue, Become
  <2>5. CASE request[c].team \in disturbed
    <3>1. request \in [Callers -> Requests]
      BY DEF LockInv, TypeOK
    <3>2. request'[c] = r /\ \A d \in Callers \ {c} : request'[d] = request[d]
      BY <2>4, <3>1
    <3>3. \A d \in Callers, s \in Teams : Works(d, s)' => Works(d, s)
      BY <2>1, <2>2, <3>2 DEF Works
    <3>4. AloneInv'
      BY <1>1, <3>3 DEF AloneInv, LockInv, Quiet
    <3>5. ASSUME NEW s \in Teams, s \notin disturbed,
                 NEW d \in Callers, Works(d, s)'
          PROVE  Checked(d)'
      <4>1. d # c
        BY <2>2, <2>5, <3>2, <3>5 DEF Works
      <4>2. Checked(d)
        BY <3>3, <3>5 DEF CheckedInv, LockInv, Quiet
      <4> QED
        BY <1>1, <3>2, <4>1, <4>2 DEF Checked, Unlocked, Exists
    <3> QED
      BY <1>1, <3>4, <3>5 DEF CheckedInv, Quiet
  <2>6. CASE request[c].team \notin disturbed
    <3>1. Checked(c)
      BY <2>1, <2>3, <2>6 DEF CheckedInv, LockInv, Quiet, Works
    <3>2. r.step \in {"lead", "join", "drop", "promote"} => Unlocked(r.team)'
      BY <1>1, <2>2, <3>1 DEF Checked, Unlocked, Exists
    <3> QED
      BY <1>1, <2>1, <2>2, <2>4, <3>2, WriteKeeps
  <2> QED
    BY <2>5, <2>6
<1>2. ASSUME request[c].step # "idle", End(c), disturbed' = disturbed,
             \A s \in Teams \ {request[c].team} : team'[s] = team[s]
      PROVE  AloneInv' /\ CheckedInv'
  <2>1. request[c] # Idle
    BY <1>2 DEF Idle
  <2>2. request' = [request EXCEPT ![c] = Idle]
    BY <1>2 DEF End, Become
  <2> QED
    BY <1>2, <2>1, <2>2, WriteKeeps
<1>3. CASE AddLeader(c)
  BY <1>3, <1>1 DEF AddLeader, UndoCreation, Steps
<1>4. CASE \E u \in Users : InviteNext(c, u)
  <2>1. PICK u \in Users : InviteNext(c, u)
    BY <1>4
  <2>2. request[c].step = "inviting" /\ request[c] # Idle
    BY <2>1 DEF InviteNext, Idle
  <2>a. PICK r : r = [request[c] EXCEPT !.others = @ \ {u}]
    OBVIOUS
  <2>3. r.team = request[c].team /\ r.step = "inviting"
    BY <2>2, <2>a DEF LockInv, TypeOK, Requests
  <2>4. /\ request' = [request EXCEPT ![c] = r]
        /\ team' = team /\ disturbed' = disturbed
    BY <2>1, <2>a DEF InviteNext, Become
  <2> QED
    BY <2>2, <2>3, <2>4, WriteKeeps
<1>5. CASE AllInvited(c)
  BY <1>5, <1>2 DEF AllInvited
<1>6. CASE CreateInvite(c)
  BY <1>6, <1>2 DEF CreateInvite
<1>7. CASE InsertMember(c)
  BY <1>7, <1>2 DEF InsertMember
<1>8. CASE Promote(c)
  BY <1>8, <1>1, <1>2 DEF Promote, Steps
<1>9. CASE DropMember(c)
  BY <1>9, <1>2 DEF DropMember
<1>10. CASE Disband(c)
  BY <1>10, <1>2 DEF Disband, LockInv, TypeOK
<1>11. CASE Demote(c)
  BY <1>11, <1>1, <1>2 DEF Demote, Steps
<1>12. CASE Raise(c)
  BY <1>12, <1>1, <1>2 DEF Raise, Steps
<1>13. CASE Restore(c)
  BY <1>13, <1>2 DEF Restore
<1>14. CASE SaveTeam(c)
  BY <1>14, <1>2 DEF SaveTeam, LockInv, TypeOK
<1> QED
  BY <1>3, <1>4, <1>5, <1>6, <1>7, <1>8, <1>9, <1>10, <1>11, <1>12, <1>13,
     <1>14 DEF Proceed

LEMMA DirectKeeps ==
    ASSUME LockInv, NEW t \in Teams, NEW u \in Users,
           \/ LockTeamComposition(t)
           \/ Respond(t, u)
           \/ InviteExpires(t, u)
    PROVE  AloneInv' /\ CheckedInv'
<1>1. request' = request /\ disturbed \subseteq disturbed'
  BY DEF LockTeamComposition, Respond, AcceptInvite, RejectInvite,
         InviteExpires, Room, Touch, Disturb
<1>2. AloneInv'
  BY <1>1 DEF AloneInv, LockInv, Quiet, Works
<1>3. CheckedInv'
  <2> SUFFICES ASSUME NEW s \in Teams, s \notin disturbed',
                      NEW c \in Callers, Works(c, s)'
               PROVE  Checked(c)'
    BY DEF CheckedInv, Quiet
  <2>1. Works(c, s) /\ Checked(c)
    BY <1>1 DEF Works, CheckedInv, LockInv, Quiet
  <2>2. team'[s] = team[s]
    <3>1. CASE LockTeamComposition(t)
      <4>1. s # t
        BY <2>1, <3>1 DEF LockTeamComposition, Touch, Disturb, On, Works
      <4> QED
        BY <3>1, <4>1 DEF LockTeamComposition, LockInv, TypeOK
    <3>2. CASE Respond(t, u) \/ InviteExpires(t, u)
      BY <3>2 DEF Respond, AcceptInvite, RejectInvite, InviteExpires
    <3> QED
      BY <3>1, <3>2
  <2> QED
    BY <1>1, <2>1, <2>2 DEF Works, Checked, Unlocked, Exists
<1> QED
  BY <1>2, <1>3

LEMMA AbandonKeeps ==
    ASSUME LockInv, NEW c \in Callers, Abandon(c)
    PROVE  AloneInv' /\ CheckedInv'
<1>1. /\ disturbed \subseteq disturbed' /\ team' = team
      /\ request' = [request EXCEPT ![c] = Idle]
  BY DEF Abandon, Disturb, End, Become
<1>2. \A d \in Callers, s \in Teams :
        Works(d, s)' => Works(d, s) /\ request'[d] = request[d]
  BY <1>1 DEF Works, LockInv, TypeOK
<1>3. AloneInv'
  BY <1>1, <1>2 DEF AloneInv, LockInv, Quiet
<1>4. CheckedInv'
  BY <1>1, <1>2 DEF CheckedInv, LockInv, Quiet, Checked, Unlocked, Exists
<1> QED
  BY <1>3, <1>4

\* What a step may do to the members of a team that stays undisturbed.
LEMMA LockedStep ==
    ASSUME LockInv, Next, NEW t \in Teams, t \notin disturbed',
           team[t].locked, Exists(t)'
    PROVE  Members(t)' = Members(t) /\ team'[t].locked
<1> USE DEF LockInv
<1>1. ASSUME NEW c \in Callers, request[c].step # "idle", request[c].team = t,
             t \notin disturbed
      PROVE  Works(c, t) /\ Checked(c)
  BY <1>1 DEF Works, Idle, CheckedInv, Quiet
<1>2. ASSUME NEW c \in Callers, request[c].step # "idle"
      PROVE  request[c].team \in Teams /\ request[c].user \in Users
  BY <1>2 DEF TypeOK, Requests, Idle
<1>3. ~Unlocked(t)
  BY DEF Unlocked
<1>4. ASSUME NEW u \in Users, NEW s \in Teams, NEW role, s # t,
             member[u] = Outside, Enter(u, s, role)
      PROVE  Members(t)' = Members(t)
  BY <1>4, TeamAssumption DEF Enter, Members, Outside, TypeOK
<1>5. ASSUME NEW u \in Users, NEW role, SetRole(u, role)
      PROVE  Members(t)' = Members(t)
  BY <1>5 DEF SetRole, Members, TypeOK
<1>6. CASE \E c \in Callers, s \in Teams, u \in Users : Begin(c, s, u)
  <2>1. PICK c \in Callers, s \in Teams, u \in Users : Begin(c, s, u)
    BY <1>6
  <2>2. member' = member
    BY <2>1 DEF Begin, CreateTeam, AddMember, JoinTeamByCode, RemoveMember,
                DeleteTeam, UpdateTeam, LeaveTeam, TransferLeadership
  <2>3. ASSUME NEW i \in SUBSET Users, CreateTeam(c, s, u, i)
        PROVE  team'[t] = team[t]
    <3>1. s # t
      BY <2>3 DEF CreateTeam, FreshInv
    <3> QED
      BY <2>3, <3>1 DEF CreateTeam, TypeOK
  <2>4. team'[t] = team[t]
    BY <2>1, <2>3
       DEF Begin, AddMember, JoinTeamByCode, RemoveMember, DeleteTeam,
           UpdateTeam, LeaveTeam, TransferLeadership
  <2> QED
    BY <2>2, <2>4 DEF Members
<1>7. CASE \E c \in Callers : Proceed(c)
  <2>1. PICK c \in Callers : Proceed(c)
    BY <1>7
  <2>2. disturbed' = disturbed
    BY <2>1 DEF Proceed, AddLeader, InviteNext, AllInvited, CreateInvite,
                InsertMember, Promote, DropMember, Disband, Demote, Raise,
                Restore, SaveTeam
  <2>3. CASE AddLeader(c)
    BY <2>2, <2>3, <1>1, <1>2, <1>3, <1>4 DEF AddLeader, Checked, Members
  <2>4. CASE (\E u \in Users : InviteNext(c, u)) \/ AllInvited(c) \/ CreateInvite(c)
    BY <2>4 DEF InviteNext, AllInvited, CreateInvite, Members
  <2>5. CASE InsertMember(c)
    BY <2>2, <2>5, <1>1, <1>2, <1>3, <1>4 DEF InsertMember, Checked, Members
  <2>6. CASE Promote(c)
    <3>1. request[c].others \in SUBSET Users
      BY <2>6 DEF Promote, TypeOK, Requests, Idle
    <3> QED
      BY <2>6, <3>1, <1>5 DEF Promote, Members
  <2>7. CASE DropMember(c)
    <3>1. request[c].team # t
      BY <2>2, <2>7, <1>1, <1>3 DEF DropMember, Checked
    <3>2. \A u \in Users : member'[u].team = t <=> member[u].team = t
      <4>1. \/ member' = member
            \/ /\ member' = [member EXCEPT ![request[c].user] = Outside]
               /\ member[request[c].user].team = request[c].team
        BY <2>7 DEF DropMember
      <4>2. Outside.team # t
        BY TeamAssumption DEF Outside
      <4> QED
        BY <3>1, <4>1, <4>2, <1>2, <2>7 DEF DropMember, TypeOK
    <3> QED
      BY <2>7, <3>2 DEF DropMember, Members
  <2>8. CASE Disband(c)
    <3>1. request[c].team # t
      BY <2>8 DEF Disband, Exists, TypeOK
    <3> QED
      BY <2>8, <3>1, <1>2, TeamAssumption
         DEF Disband, RemoveMembers, Members, Outside, TypeOK
  <2>9. CASE Demote(c)
    BY <2>9, <1>2, <1>5 DEF Demote, Members
  <2>10. CASE Raise(c)
    <3>1. request[c].others \in SUBSET Users
      BY <2>10 DEF Raise, TypeOK, Requests, Idle
    <3> QED
      BY <2>10, <3>1, <1>5 DEF Raise, Members
  <2>11. CASE Restore(c)
    BY <2>11, <1>2, <1>5 DEF Restore, Members
  <2>12. CASE SaveTeam(c)
    <3>1. CASE request[c].team = t
      BY <2>2, <2>12, <3>1, <1>1 DEF SaveTeam, Checked, Members, TypeOK
    <3>2. CASE request[c].team # t
      BY <2>12, <3>2 DEF SaveTeam, Members, TypeOK
    <3> QED
      BY <3>1, <3>2
  <2> QED
    BY <2>1, <2>3, <2>4, <2>5, <2>6, <2>7, <2>8, <2>9, <2>10, <2>11, <2>12
       DEF Proceed
<1>8. CASE \E c \in Callers : Abandon(c)
  BY <1>8 DEF Abandon, Members
<1>9. CASE \E s \in Teams : LockTeamComposition(s)
  BY <1>9 DEF LockTeamComposition, Members, TypeOK
<1>10. CASE \E s \in Teams, u \in Users : Respond(s, u) \/ InviteExpires(s, u)
  BY <1>10, <1>3, <1>4
     DEF Respond, AcceptInvite, RejectInvite, InviteExpires, Members
<1> QED
  BY <1>6, <1>7, <1>8, <1>9, <1>10 DEF Next

\* A step writes a team row only to create, lock, save or delete it.
LEMMA FreshStep ==
    ASSUME LockInv, Next PROVE FreshInv'
<1> USE DEF LockInv, TypeOK
<1>1. CASE \E c \in Callers, t \in Teams, u \in Users : Begin(c, t, u)
  <2>1. PICK c \in Callers, t \in Teams, u \in Users : Begin(c, t, u)
    BY <1>1
  <2>2. \/ team' = team
        \/ team' = [team EXCEPT ![t] = [row |-> "present", locked |-> FALSE]]
    BY <2>1 DEF Begin, CreateTeam, AddMember, JoinTeamByCode, RemoveMember,
                DeleteTeam, UpdateTeam, LeaveTeam, TransferLeadership
  <2>3. \A s \in Teams : team'[s] = team[s] \/ team'[s].row = "present"
    BY <2>2
  <2> QED
    BY <2>3 DEF FreshInv
<1>2. CASE \E c \in Callers : Proceed(c)
  <2>1. PICK c \in Callers : Proceed(c)
    BY <1>2
  <2>2. CASE Disband(c)
    <3>1. \A t \in Teams : team'[t] = team[t] \/ team'[t].row = "deleted"
      BY <2>2 DEF Disband
    <3> QED
      BY <3>1 DEF FreshInv
  <2>3. CASE SaveTeam(c)
    <3>1. \A t \in Teams : team'[t] = team[t] \/ team'[t].row = "present"
      BY <2>3 DEF SaveTeam
    <3> QED
      BY <3>1 DEF FreshInv
  <2>4. CASE team' = team
    BY <2>4 DEF FreshInv
  <2> QED
    BY <2>1, <2>2, <2>3, <2>4
       DEF Proceed, AddLeader, InviteNext, AllInvited, CreateInvite,
           InsertMember, Promote, DropMember, Demote, Raise, Restore
<1>3. CASE \E t \in Teams : LockTeamComposition(t)
  BY <1>3 DEF LockTeamComposition, Exists, FreshInv
<1>4. CASE team' = team
  BY <1>4 DEF FreshInv
<1> QED
  BY <1>1, <1>2, <1>3, <1>4
     DEF Next, Abandon, Respond, AcceptInvite, RejectInvite, InviteExpires

LEMMA LockInvariant == Spec => []LockInv
<1>1. Init => LockInv
  BY DEF Init, LockInv, TypeOK, AloneInv, CheckedInv, FreshInv, Works, Outside,
         Requests, InviteStatuses
<1>2. LockInv /\ [Next]_vars => AloneInv' /\ CheckedInv' /\ FreshInv'
  <2> SUFFICES ASSUME LockInv, [Next]_vars
               PROVE  AloneInv' /\ CheckedInv' /\ FreshInv'
    OBVIOUS
  <2>1. CASE UNCHANGED vars
    BY <2>1 DEF vars, LockInv, AloneInv, CheckedInv, FreshInv, Quiet, Works,
                Checked, Unlocked, Exists
  <2>2. CASE Next
    <3>1. ASSUME NEW t \in Teams, LockTeamComposition(t)
          PROVE  AloneInv' /\ CheckedInv'
      <4>1. CASE Users = {}
        BY <3>1, <4>1
           DEF LockTeamComposition, LockInv, TypeOK, AloneInv, CheckedInv,
               Quiet, Works, Requests, Idle
      <4>2. CASE Users # {}
        BY <3>1, <4>2, DirectKeeps
      <4> QED
        BY <4>1, <4>2
    <3> QED
      BY <2>2, <3>1, BeginKeeps, ProceedKeeps, DirectKeeps, AbandonKeeps,
         FreshStep DEF Next
  <2> QED
    BY <2>1, <2>2
<1>3. LockInv /\ [Next]_vars /\ TypeOK' => LockInv'
  BY <1>2 DEF LockInv
<1> QED
  BY <1>1, <1>3, TypeCorrect, PTL DEF Spec

(***************************************************************************)
(* As long as its requests do not overlap, a team keeps its members and    *)
(* its lock once its composition is locked, unless it is deleted: what     *)
(* each handler checks still holds when it writes.                         *)
(***************************************************************************)
THEOREM LockedComposition == Spec => LockedStaysTheSame
<1>1. LockInv /\ [Next]_vars =>
        [\A t \in Teams :
           Quiet(t)' /\ team[t].locked /\ Exists(t)' =>
             Members(t)' = Members(t) /\ team'[t].locked]_vars
  BY LockedStep DEF Quiet
<1> QED
  BY <1>1, LockInvariant, PTL DEF Spec, LockedStaysTheSame
-----------------------------------------------------------------------------
(***************************************************************************)
(* Size, leader and ghosts.                                                *)
(*                                                                         *)
(* An undisturbed team on which nobody is at work has one leader and room  *)
(* for its members.  Stage says, for every write that can come next, what  *)
(* holds in between: a leader who hands over is still the only one before  *)
(* the first of the two updates, and there is none before the second.      *)
(***************************************************************************)
LedBy(t, u) == \A v \in Users : IsLeader(t, v) <=> v = u

Led(t) == \E u \in Users : LedBy(t, u)

Stage(r) ==
    /\ r.step = "lead" => Members(r.team) = {}
    /\ r.step = "join" => Fits(1 + Cardinality(Members(r.team)))
    /\ r.step \in {"inviting", "invite", "join", "save", "drop"} =>
         Led(r.team)
    /\ r.step = "drop" => ~IsLeader(r.team, r.user)
    /\ r.step \in {"promote", "demote"} =>
         /\ LedBy(r.team, r.user)
         /\ r.others \subseteq Members(r.team) \ {r.user}
    /\ r.step = "raise" => /\ ~HasLeader(r.team)
                           /\ r.others \subseteq Members(r.team)
    /\ r.step # "restore"

Sound(t) ==
    /\ Fits(Cardinality(Members(t)))
    /\ ~Exists(t) => Members(t) = {} /\ On(t) = {}
    /\ team[t].row = "deleted" => PendingUsers(t) = {}
    /\ Exists(t) /\ On(t) = {} => Led(t)
    /\ \A c \in On(t) : Stage(request[c])

SoundInv == \A t \in Teams : Quiet(t) => Sound(t)

SoundTeams == LockInv /\ SoundInv

\* The members of t stay what they are.
SameMembers(t) ==
    \A u \in Users : /\ member'[u].team = t <=> member[u].team = t
                     /\ member[u].team = t => member'[u] = member[u]

LEMMA SameMembersKeep ==
    ASSUME NEW t \in Teams, SameMembers(t)
    PROVE  /\ Members(t)' = Members(t)
           /\ \A u \in Users : IsLeader(t, u)' <=> IsLeader(t, u)
           /\ HasLeader(t)' <=> HasLeader(t)
           /\ \A u : LedBy(t, u)' <=> LedBy(t, u)
           /\ Led(t)' <=> Led(t)
BY DEF SameMembers, Members, IsLeader, HasLeader, LedBy, Led

\* A request's stage depends on the members of its team only.
LEMMA StageKept ==
    ASSUME NEW c, request'[c] = request[c], request[c].team \in Teams,
           request[c].user \in Users, SameMembers(request[c].team),
           Stage(request[c])
    PROVE  Stage(request[c])'
<1> DEFINE t == request[c].team
<1>1. /\ Members(t)' = Members(t)
      /\ \A u \in Users : IsLeader(t, u)' <=> IsLeader(t, u)
      /\ HasLeader(t)' <=> HasLeader(t)
      /\ \A u : LedBy(t, u)' <=> LedBy(t, u)
      /\ Led(t)' <=> Led(t)
  BY SameMembersKeep
<1> QED
  BY <1>1 DEF Stage, Fits

\* A step that passes a team by leaves it sound.
LEMMA SoundKept ==
    ASSUME TypeOK, NEW t \in Teams, Sound(t), SameMembers(t),
           team'[t].row = team[t].row,
           On(t)' = On(t), \A c \in On(t) : request'[c] = request[c],
           team[t].row = "deleted" =>
             PendingUsers(t)' \subseteq PendingUsers(t)
    PROVE  Sound(t)'
<1>1. /\ Members(t)' = Members(t)
      /\ Led(t)' <=> Led(t)
      /\ Exists(t)' <=> Exists(t)
  BY SameMembersKeep DEF Exists
<1>2. \A c \in On(t) : Stage(request[c])'
  <2> SUFFICES ASSUME NEW c \in On(t) PROVE Stage(request[c])'
    OBVIOUS
  <2>1. /\ request[c].team = t /\ request[c].user \in Users
        /\ request'[c] = request[c]
    BY DEF On, TypeOK, Requests
  <2>2. Stage(request[c])
    BY DEF Sound
  <2> QED
    BY <2>1, <2>2, StageKept
<1> QED
  BY <1>1, <1>2 DEF Sound, Fits

\* How many members a team has.
LEMMA MembersCount ==
    ASSUME NEW t \in Teams
    PROVE  /\ IsFiniteSet(Members(t))
           /\ Cardinality(Members(t)) \in Nat
<1>1. Members(t) \in SUBSET Users
  BY DEF Members
<1> QED
  BY <1>1, TeamAssumption, FS_Subset, FS_CardinalityType

LEMMA EnterCount ==
    ASSUME TypeOK, NEW t \in Teams, NEW u \in Users, NEW role,
           member[u] = Outside, Enter(u, t, role)
    PROVE  /\ Members(t)' = Members(t) \cup {u}
           /\ Cardinality(Members(t)') = 1 + Cardinality(Members(t))
           /\ \A v \in Users \ {u} : IsLeader(t, v)' <=> IsLeader(t, v)
           /\ IsLeader(t, u)' <=> role = "leader"
           /\ \A s \in Teams \ {t} : SameMembers(s)
<1>1. /\ member'[u] = [team |-> t, role |-> role]
      /\ \A v \in Users \ {u} : member'[v] = member[v]
      /\ member[u].team = NoTeam
  BY DEF TypeOK, Enter, Outside
<1>2. Members(t)' = Members(t) \cup {u} /\ u \notin Members(t)
  BY <1>1, TeamAssumption DEF Members
<1>3. Cardinality(Members(t) \cup {u}) = 1 + Cardinality(Members(t))
  <2>1. \A n \in Nat : n + 1 = 1 + n
    OBVIOUS
  <2>2. Cardinality(Members(t) \cup {u}) = Cardinality(Members(t)) + 1
    BY <1>2, MembersCount, FS_AddElement, Zenon
  <2> QED
    BY <2>1, <2>2, MembersCount
<1>4. \A s \in Teams \ {t} : SameMembers(s)
  BY <1>1, TeamAssumption DEF SameMembers
<1> QED
  BY <1>1, <1>2, <1>3, <1>4 DEF IsLeader

LEMMA RoleCount ==
    ASSUME TypeOK, NEW t \in Teams, NEW u \in Users, NEW role,
           member[u].team = t, SetRole(u, role)
    PROVE  /\ Members(t)' = Members(t)
           /\ \A v \in Users \ {u} : IsLeader(t, v)' <=> IsLeader(t, v)
           /\ IsLeader(t, u)' <=> role = "leader"
           /\ \A s \in Teams \ {t} : SameMembers(s)
<1>1. /\ member'[u].team = t /\ member'[u].role = role
      /\ \A v \in Users \ {u} : member'[v] = member[v]
  BY DEF TypeOK, SetRole
<1> QED
  BY <1>1 DEF Members, IsLeader, SameMembers

\* A step of the request c at work on t.  q is what becomes of the request.
LEMMA WriteSound ==
    ASSUME SoundTeams, NEW c \in Callers, request[c] # Idle,
           NEW t \in Teams, request[c].team = t,
           NEW q, request' = [request EXCEPT ![c] = q],
           q # Idle => q.team = t,
           disturbed' = disturbed,
           \A s \in Teams \ {t} : /\ SameMembers(s)
                                  /\ team'[s] = team[s]
                                  /\ invite'[s] = invite[s],
           Quiet(t) =>
             /\ Fits(Cardinality(Members(t)'))
             /\ ~Exists(t)' => Members(t)' = {} /\ q = Idle
             /\ team'[t].row = "deleted" => PendingUsers(t)' = {}
             /\ q = Idle /\ Exists(t)' => Led(t)'
             /\ q # Idle => Stage(request[c])'
    PROVE  SoundInv'
<1>1. /\ request'[c] = q
      /\ \A d \in Callers \ {c} : request'[d] = request[d]
  BY DEF SoundTeams, LockInv, TypeOK
<1>2. ASSUME NEW s \in Teams \ {t}, Quiet(s) PROVE Sound(s)'
  <2>1. On(s)' = On(s) /\ \A d \in On(s) : request'[d] = request[d]
    BY <1>1 DEF On
  <2>2. PendingUsers(s)' = PendingUsers(s)
    BY DEF PendingUsers, IsPending
  <2>3. Sound(s) /\ TypeOK
    BY <1>2 DEF SoundTeams, SoundInv, LockInv
  <2> QED
    BY <2>1, <2>2, <2>3, SoundKept
<1>3. ASSUME Quiet(t) PROVE Sound(t)'
  <2>1. \A d \in Callers : d # c => ~Works(d, t)
    BY <1>3 DEF SoundTeams, LockInv, AloneInv, Works
  <2>2. On(t)' = IF q = Idle THEN {} ELSE {c}
    BY <1>1, <2>1 DEF On, Works
  <2> QED
    BY <1>1, <1>3, <2>2 DEF Sound, Fits
<1> QED
  BY <1>2, <1>3 DEF SoundInv, Quiet

\* What is known of a request at work, and of its team.
LEMMA AtWork ==
    ASSUME SoundTeams, NEW c \in Callers, request[c].step # "idle"
    PROVE  /\ TypeOK
           /\ request[c] # Idle
           /\ request[c].team \in Teams
           /\ request[c].user \in Users
           /\ request[c].others \in SUBSET Users
           /\ Quiet(request[c].team) =>
                /\ Exists(request[c].team)
                /\ Fits(Cardinality(Members(request[c].team)))
                /\ Stage(request[c])
                /\ Checked(c)
<1>1. /\ TypeOK
      /\ request[c] # Idle
      /\ request[c].team \in Teams
      /\ request[c].user \in Users
      /\ request[c].others \in SUBSET Users
  BY DEF SoundTeams, LockInv, TypeOK, Requests, Idle
<1>2. c \in On(request[c].team) /\ Works(c, request[c].team)
  BY <1>1 DEF On, Works
<1>3. Quiet(request[c].team) => Sound(request[c].team) /\ Checked(c)
  BY <1>1, <1>2 DEF SoundTeams, SoundInv, LockInv, CheckedInv
<1> QED
  BY <1>1, <1>2, <1>3 DEF Sound

\* A request that goes on differs from what it was in its step.
LEMMA GoesOn ==
    ASSUME TypeOK, NEW c \in Callers, request[c] # Idle,
           NEW step \in Steps, Continue(c, step)
    PROVE  \E q : /\ request' = [request EXCEPT ![c] = q]
                  /\ request'[c] = q
                  /\ q # Idle
                  /\ q.step = step
                  /\ q.team = request[c].team
                  /\ q.user = request[c].user
                  /\ q.others = request[c].others
<1>1. PICK q : q = [request[c] EXCEPT !.step = step]
  OBVIOUS
<1>2. /\ q.step = step
      /\ q.team = request[c].team
      /\ q.user = request[c].user
      /\ q.others = request[c].others
  BY <1>1 DEF TypeOK, Requests
<1>3. q # Idle
  BY <1>2 DEF Steps, Idle
<1>4. request' = [request EXCEPT ![c] = q]
  BY <1>1 DEF Continue, Become
<1>5. request'[c] = q
  BY <1>4 DEF TypeOK
<1> QED
  BY <1>2, <1>3, <1>4, <1>5

\* Writes that end the request, without deleting the team, ...
LEMMA EndSound ==
    ASSUME SoundTeams, NEW c \in Callers, request[c].step # "idle",
           NEW t \in Teams, request[c].team = t, End(c),
           disturbed' = disturbed,
           \A s \in Teams : team'[s].row = team[s].row,
           \A s \in Teams \ {t} : /\ SameMembers(s)
                                  /\ team'[s] = team[s]
                                  /\ invite'[s] = invite[s],
           Quiet(t) => Fits(Cardinality(Members(t)')) /\ Led(t)'
    PROVE  SoundInv'
<1>1. request[c] # Idle /\ (Quiet(t) => Exists(t))
  BY AtWork
<1>2. request' = [request EXCEPT ![c] = Idle]
  BY DEF End, Become
<1>3. Quiet(t) => Exists(t)' /\ team'[t].row # "deleted"
  BY <1>1 DEF Exists
<1> QED
  BY <1>1, <1>2, <1>3, WriteSound

\* ... and those after which it goes on.
LEMMA ContinueSound ==
    ASSUME SoundTeams, NEW c \in Callers, request[c].step # "idle",
           NEW t \in Teams, request[c].team = t,
           NEW step \in Steps, Continue(c, step),
           disturbed' = disturbed, team' = team, invite' = invite,
           \A s \in Teams \ {t} : SameMembers(s),
           Quiet(t) => Fits(Cardinality(Members(t)')) /\ Stage(request[c])'
    PROVE  SoundInv'
<1>1. TypeOK /\ request[c] # Idle /\ (Quiet(t) => Exists(t))
  BY AtWork
<1>2. PICK q : /\ request' = [request EXCEPT ![c] = q]
               /\ q # Idle
               /\ q.team = t
  BY <1>1, GoesOn
<1>3. Quiet(t) => Exists(t)' /\ team'[t].row # "deleted"
  BY <1>1 DEF Exists
<1> QED
  BY <1>1, <1>2, <1>3, WriteSound

LEMMA ProceedSound ==
    ASSUME SoundTeams, NEW c \in Callers, Proceed(c)
    PROVE  SoundInv'
<1>t. PICK t : t = request[c].team
  OBVIOUS
<1>u. PICK u : u = request[c].user
  OBVIOUS
<1> USE <1>t, <1>u
<1>a. ASSUME request[c].step # "idle"
      PROVE  /\ TypeOK
             /\ request[c] # Idle
             /\ t \in Teams
             /\ u \in Users
             /\ request[c].others \in SUBSET Users
             /\ Quiet(t) => /\ Exists(t)
                            /\ Fits(Cardinality(Members(t)))
                            /\ Stage(request[c])
                            /\ Checked(c)
  BY <1>a, AtWork
<1>b. ASSUME member' = member
      PROVE  \A s \in Teams : /\ SameMembers(s)
                              /\ Members(s)' = Members(s)
                              /\ \A v \in Users : IsLeader(s, v)' <=> IsLeader(s, v)
                              /\ HasLeader(s)' <=> HasLeader(s)
                              /\ \A v : LedBy(s, v)' <=> LedBy(s, v)
                              /\ Led(s)' <=> Led(s)
  BY <1>b, SameMembersKeep DEF SameMembers
<1>c. ASSUME request[c].step # "idle", NEW step \in Steps, Continue(c, step)
      PROVE  /\ request'[c].step = step
             /\ request'[c].team = t
             /\ request'[c].user = u
             /\ request'[c].others = request[c].others
  BY <1>a, <1>c, GoesOn
<1>1. CASE AddLeader(c)
  <2>1. request[c].step # "idle"
    BY <1>1 DEF AddLeader
  <2>2. CASE member[u] = Outside
    <3>1. Enter(u, t, "leader") /\ Continue(c, "inviting")
      BY <1>1, <2>2 DEF AddLeader
    <3>2. "inviting" \in Steps
      BY DEF Steps
    <3>3. /\ Cardinality(Members(t)') = 1 + Cardinality(Members(t))
          /\ \A v \in Users \ {u} : IsLeader(t, v)' <=> IsLeader(t, v)
          /\ IsLeader(t, u)'
          /\ \A s \in Teams \ {t} : SameMembers(s)
      BY <2>1, <2>2, <3>1, <1>a, EnterCount
    <3>4. Quiet(t) => Members(t) = {}
      BY <1>1, <2>1, <1>a DEF AddLeader, Stage
    <3>5. Quiet(t) => Fits(Cardinality(Members(t)'))
      BY <3>3, <3>4, FS_EmptySet, TeamAssumption DEF Fits
    <3>6. Quiet(t) => Led(t)'
      <4>1. Quiet(t) => \A v \in Users : IsLeader(t, v)' <=> v = u
        BY <3>3, <3>4 DEF Members, IsLeader
      <4> QED
        BY <4>1, <2>1, <1>a DEF Led, LedBy
    <3>7. Quiet(t) => Stage(request[c])'
      BY <2>1, <3>1, <3>2, <3>6, <1>c DEF Stage
    <3> QED
      BY <1>1, <2>1, <3>1, <3>2, <3>3, <3>5, <3>7, <1>a, ContinueSound
         DEF AddLeader
  <2>3. CASE member[u] # Outside
    <3>1. member' = member /\ Continue(c, "disband") /\ "disband" \in Steps
      BY <1>1, <2>3 DEF AddLeader, UndoCreation, Steps
    <3>2. Stage(request[c])'
      BY <2>1, <3>1, <1>c DEF Stage
    <3> QED
      BY <1>1, <2>1, <3>1, <3>2, <1>a, <1>b, ContinueSound DEF AddLeader
  <2> QED
    BY <2>2, <2>3
<1>2. CASE \E v \in Users : InviteNext(c, v)
  <2>1. PICK v \in Users : InviteNext(c, v)
    BY <1>2
  <2>2. request[c].step = "inviting"
    BY <2>1 DEF InviteNext
  <2>3. PICK q : q = [request[c] EXCEPT !.others = @ \ {v}]
    OBVIOUS
  <2>4. /\ request' = [request EXCEPT ![c] = q] /\ request'[c] = q
        /\ q.step = "inviting" /\ q.team = t /\ q # Idle
    BY <2>1, <2>2, <2>3, <1>a
       DEF InviteNext, Become, TypeOK, Requests, Idle
  <2>5. \A s \in Teams \ {t} : invite'[s] = invite[s]
    BY <2>1, <2>2, <1>a DEF InviteNext, CreateInviteSafe, TypeOK
  <2>6. UNCHANGED <<team, member, disturbed>>
    BY <2>1 DEF InviteNext
  <2>7. Quiet(t) => Stage(request[c])'
    BY <2>2, <2>4, <2>6, <1>a, <1>b DEF Stage
  <2>8. Quiet(t) => Exists(t)' /\ team'[t].row # "deleted"
    BY <2>2, <2>6, <1>a DEF Exists
  <2> QED
    BY <2>2, <2>4, <2>5, <2>6, <2>7, <2>8, <1>a, <1>b, WriteSound
<1>3. CASE AllInvited(c)
  <2>1. request[c].step = "inviting" /\ UNCHANGED <<team, member, invite>>
    BY <1>3 DEF AllInvited
  <2>2. Quiet(t) => Led(t)'
    BY <2>1, <1>a, <1>b DEF Stage
  <2> QED
    BY <1>3, <2>1, <2>2, <1>a, <1>b, EndSound DEF AllInvited
<1>4. CASE CreateInvite(c)
  <2>1. request[c].step = "invite" /\ UNCHANGED <<team, member>>
    BY <1>4 DEF CreateInvite
  <2>2. Quiet(t) => Led(t)'
    BY <2>1, <1>a, <1>b DEF Stage
  <2>3. \A s \in Teams \ {t} : invite'[s] = invite[s]
    BY <1>4, <2>1, <1>a DEF CreateInvite, CreateInviteSafe, TypeOK
  <2> QED
    BY <1>4, <2>1, <2>2, <2>3, <1>a, <1>b, EndSound DEF CreateInvite
<1>5. CASE InsertMember(c)
  <2>1. request[c].step = "join" /\ UNCHANGED <<team, invite>>
    BY <1>5 DEF InsertMember
  <2>2. CASE member[u] = Outside
    <3>1. Enter(u, t, "member")
      BY <1>5, <2>2 DEF InsertMember
    <3>2. /\ Cardinality(Members(t)') = 1 + Cardinality(Members(t))
          /\ \A v \in Users \ {u} : IsLeader(t, v)' <=> IsLeader(t, v)
          /\ ~IsLeader(t, u)' /\ ~IsLeader(t, u)
          /\ \A s \in Teams \ {t} : SameMembers(s)
      <4>1. ~IsLeader(t, u)
        BY <2>1, <2>2, <1>a, TeamAssumption DEF IsLeader, Outside
      <4>2. ("member" = "leader") <=> FALSE
        OBVIOUS
      <4> QED
        BY <2>1, <2>2, <3>1, <4>1, <4>2, <1>a, EnterCount
    <3>3. Quiet(t) => Fits(Cardinality(Members(t)'))
      BY <2>1, <3>2, <1>a DEF Stage
    <3>4. Quiet(t) => Led(t)'
      BY <2>1, <3>2, <1>a DEF Stage, Led, LedBy
    <3> QED
      BY <1>5, <2>1, <3>2, <3>3, <3>4, <1>a, EndSound DEF InsertMember
  <2>3. CASE member[u] # Outside
    <3>1. member' = member
      BY <1>5, <2>3 DEF InsertMember
    <3>2. Quiet(t) => Led(t)'
      BY <2>1, <3>1, <1>a, <1>b DEF Stage
    <3> QED
      BY <1>5, <2>1, <3>1, <3>2, <1>a, <1>b, EndSound DEF InsertMember
  <2> QED
    BY <2>2, <2>3
<1>6. CASE Promote(c)
  <2>1. request[c].step = "promote" /\ UNCHANGED <<team, invite>>
    BY <1>6 DEF Promote
  <2>2. PICK v \in request[c].others :
          IF MayLead(t, v)
            THEN SetRole(v, "leader") /\ Continue(c, "drop")
            ELSE UNCHANGED member /\ End(c)
    BY <1>6 DEF Promote
  <2>3. Quiet(t) => ~MayLead(t, v)
    <3>1. Quiet(t) => IsLeader(t, u) /\ v # u
      BY <2>1, <1>a DEF Stage, LedBy
    <3> QED
      BY <2>1, <3>1, <1>a DEF MayLead
  <2>4. CASE MayLead(t, v)
    <3>1. SetRole(v, "leader") /\ Continue(c, "drop") /\ "drop" \in Steps
      BY <2>2, <2>4 DEF Steps
    <3>2. v \in Users /\ member[v].team = t
      BY <2>1, <2>4, <1>a DEF MayLead
    <3>3. \A s \in Teams \ {t} : SameMembers(s)
      BY <2>1, <3>1, <3>2, <1>a, RoleCount
    <3> QED
      BY <1>6, <2>1, <2>3, <2>4, <3>1, <3>3, <1>a, ContinueSound DEF Promote
  <2>5. CASE ~MayLead(t, v)
    <3>1. member' = member /\ End(c)
      BY <2>2, <2>5
    <3>2. Quiet(t) => Led(t)'
      BY <2>1, <3>1, <1>a, <1>b DEF Stage, Led
    <3> QED
      BY <1>6, <2>1, <3>1, <3>2, <1>a, <1>b, EndSound DEF Promote
  <2> QED
    BY <2>4, <2>5
<1>7. CASE DropMember(c)
  <2>1. request[c].step = "drop" /\ UNCHANGED <<team, invite>>
    BY <1>7 DEF DropMember
  <2>2. CASE member[u].team = t
    <3>1. member' = [member EXCEPT ![u] = Outside]
      BY <1>7, <2>2 DEF DropMember
    <3>2. /\ \A v \in Users \ {u} : member'[v] = member[v]
          /\ member'[u].team \notin Teams
      BY <2>1, <3>1, <1>a, TeamAssumption DEF TypeOK, Outside
    <3>3. \A s \in Teams \ {t} : SameMembers(s)
      BY <2>1, <2>2, <3>2, <1>a DEF SameMembers
    <3>4. Members(t)' = Members(t) \ {u}
      BY <2>1, <3>2, <1>a DEF Members
    <3>5. Quiet(t) => Fits(Cardinality(Members(t)'))
      <4>1. /\ Members(t) \ {u} \in SUBSET Members(t)
            /\ IsFiniteSet(Members(t))
            /\ Cardinality(Members(t)) \in Nat
        BY <2>1, <1>a, MembersCount
      <4>2. IsFiniteSet(Members(t) \ {u})
        BY <4>1, FS_Subset
      <4>3. /\ Cardinality(Members(t) \ {u}) \in Nat
            /\ Cardinality(Members(t) \ {u}) <= Cardinality(Members(t))
        BY <4>1, <4>2, FS_Subset, FS_CardinalityType
      <4> QED
        BY <2>1, <3>4, <4>1, <4>3, <1>a, TeamAssumption DEF Fits
    <3>6. Quiet(t) => Led(t)'
      <4>1. /\ \A v \in Users \ {u} : IsLeader(t, v)' <=> IsLeader(t, v)
            /\ ~IsLeader(t, u)'
        BY <2>1, <3>2, <1>a DEF IsLeader
      <4> QED
        BY <2>1, <4>1, <1>a DEF Stage, Led, LedBy
    <3> QED
      BY <1>7, <2>1, <3>3, <3>5, <3>6, <1>a, EndSound DEF DropMember
  <2>3. CASE member[u].team # t
    <3>1. member' = member
      BY <1>7, <2>3 DEF DropMember
    <3>2. Quiet(t) => Led(t)'
      BY <2>1, <3>1, <1>a, <1>b DEF Stage
    <3> QED
      BY <1>7, <2>1, <3>1, <3>2, <1>a, <1>b, EndSound DEF DropMember
  <2> QED
    BY <2>2, <2>3
<1>8. CASE Disband(c)
  <2>1. request[c].step = "disband" /\ RemoveMembers(t)
    BY <1>8 DEF Disband
  <2>2. /\ \A s \in Teams \ {t} : SameMembers(s)
        /\ Members(t)' = {}
    BY <2>1, <1>a, TeamAssumption
       DEF RemoveMembers, SameMembers, Members, Outside, TypeOK
  <2>3. /\ \A s \in Teams \ {t} : team'[s] = team[s] /\ invite'[s] = invite[s]
        /\ team'[t].row = "deleted"
        /\ \A v \in Users : invite'[t][v] = "none"
    BY <1>8, <2>1, <1>a DEF Disband, TypeOK
  <2>4. PendingUsers(t)' = {}
    BY <2>3 DEF PendingUsers, IsPending
  <2>5. ~Exists(t)'
    BY <2>3 DEF Exists
  <2>6. Fits(Cardinality(Members(t)'))
    BY <2>2, FS_EmptySet, TeamAssumption DEF Fits
  <2>7. request' = [request EXCEPT ![c] = Idle] /\ disturbed' = disturbed
    BY <1>8 DEF Disband, End, Become
  <2> QED
    BY <2>1, <2>2, <2>3, <2>4, <2>5, <2>6, <2>7, <1>a, WriteSound
<1>9. CASE Demote(c)
  <2>1. request[c].step = "demote" /\ UNCHANGED <<team, invite>>
    BY <1>9 DEF Demote
  <2>2. CASE member[u].team = t
    <3>1. SetRole(u, "member") /\ Continue(c, "raise") /\ "raise" \in Steps
      BY <1>9, <2>2 DEF Demote, Steps
    <3>2. /\ Members(t)' = Members(t)
          /\ \A v \in Users \ {u} : IsLeader(t, v)' <=> IsLeader(t, v)
          /\ ~IsLeader(t, u)'
          /\ \A s \in Teams \ {t} : SameMembers(s)
      <4>1. ("member" = "leader") <=> FALSE
        OBVIOUS
      <4> QED
        BY <2>1, <2>2, <3>1, <4>1, <1>a, RoleCount
    <3>3. Quiet(t) => ~HasLeader(t)' /\ request[c].others \subseteq Members(t)'
      BY <2>1, <3>2, <1>a DEF Stage, LedBy, HasLeader
    <3>4. Quiet(t) => Stage(request[c])'
      BY <2>1, <3>1, <3>3, <1>c DEF Stage
    <3> QED
      BY <1>9, <2>1, <3>1, <3>2, <3>4, <1>a, ContinueSound DEF Demote
  <2>3. CASE member[u].team # t
    <3>1. member' = member /\ End(c)
      BY <1>9, <2>3 DEF Demote
    <3>2. Quiet(t) => Led(t)'
      BY <2>1, <3>1, <1>a, <1>b DEF Stage, Led
    <3> QED
      BY <1>9, <2>1, <3>1, <3>2, <1>a, <1>b, EndSound DEF Demote
  <2> QED
    BY <2>2, <2>3
<1>10. CASE Raise(c)
  <2>1. request[c].step = "raise" /\ UNCHANGED <<team, invite>>
    BY <1>10 DEF Raise
  <2>2. PICK v \in request[c].others :
          IF MayLead(t, v)
            THEN SetRole(v, "leader") /\ End(c)
            ELSE UNCHANGED member /\ Continue(c, "restore")
    BY <1>10 DEF Raise
  <2>3. v \in Users
    BY <2>1, <2>2, <1>a
  <2>4. Quiet(t) => MayLead(t, v) /\ ~HasLeader(t)
    BY <2>1, <2>2, <1>a DEF Stage, MayLead, HasLeader, Members
  <2>5. CASE MayLead(t, v)
    <3>1. SetRole(v, "leader") /\ End(c)
      BY <2>2, <2>5
    <3>2. /\ Members(t)' = Members(t)
          /\ \A w \in Users \ {v} : IsLeader(t, w)' <=> IsLeader(t, w)
          /\ IsLeader(t, v)'
          /\ \A s \in Teams \ {t} : SameMembers(s)
      BY <2>1, <2>3, <2>5, <3>1, <1>a, RoleCount DEF MayLead
    <3>3. Quiet(t) => Led(t)'
      BY <2>3, <2>4, <3>2 DEF Led, LedBy, HasLeader
    <3> QED
      BY <1>10, <2>1, <3>1, <3>2, <3>3, <1>a, EndSound DEF Raise
  <2>6. CASE ~MayLead(t, v)
    <3>1. member' = member /\ Continue(c, "restore") /\ "restore" \in Steps
      BY <2>2, <2>6 DEF Steps
    <3> QED
      BY <1>10, <2>1, <2>4, <2>6, <3>1, <1>a, <1>b, ContinueSound DEF Raise
  <2> QED
    BY <2>5, <2>6
<1>11. CASE Restore(c)
  <2>1. request[c].step = "restore" /\ UNCHANGED <<team, invite>>
    BY <1>11 DEF Restore
  <2>2. ~Quiet(t)
    BY <2>1, <1>a DEF Stage
  <2>3. \A s \in Teams \ {t} : SameMembers(s)
    <3>1. CASE MayLead(t, u)
      BY <1>11, <2>1, <3>1, <1>a, RoleCount DEF Restore, MayLead
    <3>2. CASE ~MayLead(t, u)
      BY <1>11, <3>2, <1>b DEF Restore
    <3> QED
      BY <3>1, <3>2
  <2> QED
    BY <1>11, <2>1, <2>2, <2>3, <1>a, EndSound DEF Restore
<1>12. CASE SaveTeam(c)
  <2>1. /\ request[c].step = "save" /\ UNCHANGED <<member, invite, disturbed>>
        /\ request' = [request EXCEPT ![c] = Idle]
    BY <1>12 DEF SaveTeam, End, Become
  <2>2. /\ \A s \in Teams \ {t} : team'[s] = team[s]
        /\ team'[t].row = "present"
    BY <1>12, <2>1, <1>a DEF SaveTeam, TypeOK
  <2>3. Quiet(t) => Led(t)'
    BY <2>1, <1>a, <1>b DEF Stage
  <2>4. Exists(t)' /\ team'[t].row # "deleted"
    BY <2>2 DEF Exists
  <2> QED
    BY <2>1, <2>2, <2>3, <2>4, <1>a, <1>b, WriteSound
<1> QED
  BY <1>1, <1>2, <1>3, <1>4, <1>5, <1>6, <1>7, <1>8, <1>9, <1>10, <1>11,
     <1>12 DEF Proceed

\* A request that starts on t: nobody else is at work on it, so t has one
\* leader if it exists.
LEMMA FoundSound ==
    ASSUME SoundTeams, NEW t \in Teams, NEW n, t \notin disturbed',
           Touch(t) \/ Room(t, n)
    PROVE  /\ disturbed' = disturbed
           /\ On(t) = {}
           /\ Sound(t)
           /\ Exists(t) => Led(t)
           /\ HasLeader(t) => Exists(t)
           /\ Room(t, n) => Fits(n)
<1>1. disturbed' = disturbed /\ \A d \in Callers : ~Works(d, t)
  BY StartsAlone
<1>2. On(t) = {} /\ Sound(t)
  BY <1>1 DEF On, Works, SoundTeams, SoundInv, Quiet
<1>3. Room(t, n) => Fits(n)
  BY DEF Room, Disturb
<1>4. HasLeader(t) => Exists(t)
  BY <1>2 DEF Sound, HasLeader, IsLeader, Members
<1> QED
  BY <1>1, <1>2, <1>3, <1>4 DEF Sound

LEMMA StartSound ==
    ASSUME SoundTeams, NEW c \in Callers, NEW t \in Teams, NEW u \in Users,
           NEW step \in Steps, NEW others \in SUBSET Users,
           NEW n, Touch(t) \/ Room(t, n),
           Start(c, step, t, u, others),
           member' = member, invite' = invite,
           \A s \in Teams \ {t} : team'[s] = team[s],
           t \notin disturbed' => Exists(t)' /\ Stage(request[c])'
    PROVE  SoundInv'
<1>1. PICK q : q = [step |-> step, team |-> t, user |-> u, others |-> others,
                    locked |-> team[t].locked]
  OBVIOUS
<1>2. /\ q.step = step
      /\ q.team = t
      /\ q # Idle
  BY <1>1 DEF Steps, Idle
<1>3. /\ request[c] = Idle
      /\ request'[c] = q
      /\ \A d \in Callers \ {c} : request'[d] = request[d]
  BY <1>1 DEF Start, Become, SoundTeams, LockInv, TypeOK
<1>4. disturbed \subseteq disturbed'
  BY DEF Touch, Room, Disturb
<1>5. \A s \in Teams : SameMembers(s) /\ Members(s)' = Members(s)
  BY DEF SameMembers, Members
<1>6. ASSUME NEW s \in Teams \ {t}, s \notin disturbed' PROVE Sound(s)'
  <2>1. On(s)' = On(s) /\ \A d \in On(s) : request'[d] = request[d]
    BY <1>2, <1>3 DEF On
  <2>2. PendingUsers(s)' = PendingUsers(s)
    BY DEF PendingUsers, IsPending
  <2>3. Sound(s) /\ TypeOK
    BY <1>4, <1>6 DEF SoundTeams, SoundInv, LockInv, Quiet
  <2> QED
    BY <1>5, <2>1, <2>2, <2>3, SoundKept
<1>7. ASSUME t \notin disturbed' PROVE Sound(t)'
  <2>1. On(t) = {} /\ Sound(t)
    BY <1>7, FoundSound
  <2>2. On(t)' = {c}
    BY <1>2, <1>3, <2>1 DEF On
  <2>3. Exists(t)' /\ Stage(request[c])' /\ team'[t].row # "deleted"
    BY <1>7 DEF Exists
  <2>4. Fits(Cardinality(Members(t)'))
    BY <1>5, <2>1 DEF Sound
  <2> QED
    BY <2>2, <2>3, <2>4 DEF Sound, Fits
<1> QED
  BY <1>6, <1>7 DEF SoundInv, Quiet

LEMMA BeginSound ==
    ASSUME SoundTeams, NEW c \in Callers, NEW t \in Teams, NEW u \in Users,
           Begin(c, t, u)
    PROVE  SoundInv'
<1>1. ASSUME NEW step, NEW others, Start(c, step, t, u, others)
      PROVE  /\ request'[c].step = step
             /\ request'[c].team = t
             /\ request'[c].user = u
             /\ request'[c].others = others
  BY <1>1 DEF Start, Become, SoundTeams, LockInv, TypeOK
<1>2. ASSUME member' = member
      PROVE  /\ Members(t)' = Members(t)
             /\ \A v \in Users : IsLeader(t, v)' <=> IsLeader(t, v)
             /\ \A v : LedBy(t, v)' <=> LedBy(t, v)
             /\ Led(t)' <=> Led(t)
  BY <1>2, SameMembersKeep DEF SameMembers
<1>3. ASSUME team' = team PROVE Exists(t)' <=> Exists(t)
  BY <1>3 DEF Exists
<1>4. CASE \E invitees \in SUBSET (Users \ {u}) : CreateTeam(c, t, u, invitees)
  <2>1. PICK invitees \in SUBSET (Users \ {u}) : CreateTeam(c, t, u, invitees)
    BY <1>4
  <2>2. /\ team' = [team EXCEPT ![t] = [row |-> "present", locked |-> FALSE]]
        /\ Start(c, "lead", t, u, invitees)
        /\ Room(t, 1 + Cardinality(invitees))
        /\ team[t].row = "none"
        /\ UNCHANGED <<member, invite>>
    BY <2>1 DEF CreateTeam
  <2>3. Exists(t)' /\ \A s \in Teams \ {t} : team'[s] = team[s]
    BY <2>2 DEF Exists, SoundTeams, LockInv, TypeOK
  <2>4. t \notin disturbed' => Members(t) = {}
    BY <2>2, FoundSound DEF Sound, Exists
  <2>5. t \notin disturbed' => Stage(request[c])'
    BY <2>2, <2>4, <1>1, <1>2 DEF Stage
  <2> QED
    BY <2>2, <2>3, <2>5, StartSound DEF Steps
<1>5. CASE AddMember(c, t, u)
  <2>1. /\ Start(c, "invite", t, u, {}) /\ Exists(t)
        /\ Room(t, 1 + Cardinality(Members(t)) + Cardinality(PendingUsers(t)))
        /\ UNCHANGED <<team, member, invite>>
    BY <1>5 DEF AddMember, Unlocked
  <2>2. t \notin disturbed' => Stage(request[c])'
    BY <2>1, FoundSound, <1>1, <1>2 DEF Stage
  <2> QED
    BY <2>1, <2>2, <1>3, StartSound DEF Steps
<1>6. CASE JoinTeamByCode(c, t, u)
  <2>1. /\ Start(c, "join", t, u, {}) /\ Exists(t)
        /\ Room(t, 1 + Cardinality(Members(t)))
        /\ UNCHANGED <<team, member, invite>>
    BY <1>6 DEF JoinTeamByCode, Unlocked
  <2>2. t \notin disturbed' =>
          Led(t)' /\ Fits(1 + Cardinality(Members(t)'))
    BY <2>1, FoundSound, <1>2
  <2>3. t \notin disturbed' => Stage(request[c])'
    BY <2>1, <2>2, <1>1 DEF Stage, Fits
  <2> QED
    BY <2>1, <2>3, <1>3, StartSound DEF Steps
<1>7. CASE RemoveMember(c, t, u)
  <2>1. /\ Start(c, "drop", t, u, {}) /\ Exists(t) /\ Touch(t)
        /\ ~IsLeader(t, u)
        /\ UNCHANGED <<team, member, invite>>
    BY <1>7 DEF RemoveMember, Unlocked
  <2>2. t \notin disturbed' => Led(t)' /\ ~IsLeader(t, u)'
    BY <2>1, FoundSound, <1>2
  <2>3. t \notin disturbed' => Stage(request[c])'
    BY <2>1, <2>2, <1>1 DEF Stage
  <2> QED
    BY <2>1, <2>3, <1>3, StartSound DEF Steps
<1>8. CASE DeleteTeam(c, t, u)
  <2>1. /\ Start(c, "disband", t, u, {}) /\ HasLeader(t) /\ Touch(t)
        /\ UNCHANGED <<team, member, invite>>
    BY <1>8 DEF DeleteTeam, HasLeader
  <2>2. t \notin disturbed' => Exists(t)
    BY <2>1, FoundSound
  <2>3. Stage(request[c])'
    BY <2>1, <1>1 DEF Stage
  <2> QED
    BY <2>1, <2>2, <2>3, <1>3, StartSound DEF Steps
<1>9. CASE UpdateTeam(c, t, u)
  <2>1. /\ Start(c, "save", t, u, {}) /\ Exists(t) /\ Touch(t)
        /\ UNCHANGED <<team, member, invite>>
    BY <1>9 DEF UpdateTeam
  <2>2. t \notin disturbed' => Stage(request[c])'
    BY <2>1, FoundSound, <1>1, <1>2 DEF Stage
  <2> QED
    BY <2>1, <2>2, <1>3, StartSound DEF Steps
<1>10. CASE \E next \in Users : LeaveTeam(c, t, u, next)
  <2>1. PICK next \in Users : LeaveTeam(c, t, u, next)
    BY <1>10
  <2>2. PICK step : step = LeaveStep(t, u)
    OBVIOUS
  <2>3. /\ Start(c, step, t, u, {next}) /\ Exists(t) /\ Touch(t)
        /\ next \in Members(t)
        /\ next = u <=> step # "promote"
        /\ UNCHANGED <<team, member, invite>>
    BY <2>1, <2>2 DEF LeaveTeam, Unlocked
  <2>4. /\ step \in {"disband", "promote", "drop"}
        /\ step = "promote" => IsLeader(t, u)
        /\ step = "drop" => ~IsLeader(t, u)
    BY <2>2 DEF LeaveStep
  <2>5. ASSUME t \notin disturbed' PROVE Stage(request[c])'
    <3>1. Led(t)
      BY <2>3, <2>5, FoundSound
    <3>2. step = "promote" => LedBy(t, u)
      BY <2>4, <3>1 DEF Led, LedBy
    <3>3. step = "drop" => ~IsLeader(t, u)' /\ Led(t)'
      BY <2>3, <2>4, <3>1, <1>2
    <3>4. step = "promote" => LedBy(t, u)' /\ {next} \subseteq Members(t)' \ {u}
      BY <2>3, <3>2, <1>2
    <3> QED
      BY <2>3, <2>4, <3>3, <3>4, <1>1 DEF Stage
  <2>6. step \in Steps /\ {next} \in SUBSET Users
    BY <2>4 DEF Steps
  <2> QED
    BY <2>3, <2>5, <2>6, <1>3, StartSound
<1>11. CASE \E next \in Users : TransferLeadership(c, t, u, next)
  <2>1. PICK next \in Users : TransferLeadership(c, t, u, next)
    BY <1>11
  <2>2. /\ Start(c, "demote", t, u, {next}) /\ Exists(t) /\ Touch(t)
        /\ IsLeader(t, u) /\ next \in Members(t) \ {u}
        /\ UNCHANGED <<team, member, invite>>
    BY <2>1 DEF TransferLeadership, Unlocked
  <2>3. ASSUME t \notin disturbed' PROVE Stage(request[c])'
    <3>1. LedBy(t, u)
      BY <2>2, <2>3, FoundSound DEF Led, LedBy
    <3>2. LedBy(t, u)' /\ {next} \subseteq Members(t)' \ {u}
      BY <2>2, <3>1, <1>2
    <3> QED
      BY <2>2, <3>2, <1>1 DEF Stage
  <2> QED
    BY <2>2, <2>3, <1>3, StartSound DEF Steps
<1> QED
  BY <1>4, <1>5, <1>6, <1>7, <1>8, <1>9, <1>10, <1>11 DEF Begin

\* Steps that concern no request and no member.
LEMMA BystanderSound ==
    ASSUME SoundTeams, disturbed \subseteq disturbed', request' = request,
           member' = member,
           \A s \in Teams : /\ team'[s].row = team[s].row
                            /\ PendingUsers(s)' \subseteq PendingUsers(s)
    PROVE  SoundInv'
<1> SUFFICES ASSUME NEW s \in Teams, s \notin disturbed' PROVE Sound(s)'
  BY DEF SoundInv, Quiet
<1>1. TypeOK /\ Sound(s)
  BY DEF SoundTeams, SoundInv, LockInv, Quiet
<1>2. SameMembers(s) /\ On(s)' = On(s)
  BY DEF SameMembers, On
<1> QED
  BY <1>1, <1>2, SoundKept

LEMMA AcceptSound ==
    ASSUME SoundTeams, NEW t \in Teams, NEW u \in Users, AcceptInvite(t, u)
    PROVE  SoundInv'
<1>1. /\ member[u] = Outside /\ Enter(u, t, "member")
      /\ Room(t, 1 + Cardinality(Members(t)))
      /\ Exists(t)
      /\ UNCHANGED <<team, request>>
  BY DEF AcceptInvite, Unlocked
<1>2. TypeOK /\ disturbed \subseteq disturbed'
  BY <1>1 DEF SoundTeams, LockInv, Room, Touch, Disturb
<1>3. /\ Cardinality(Members(t)') = 1 + Cardinality(Members(t))
      /\ \A v \in Users \ {u} : IsLeader(t, v)' <=> IsLeader(t, v)
      /\ ~IsLeader(t, u)' /\ ~IsLeader(t, u)
      /\ \A s \in Teams \ {t} : SameMembers(s)
  <2>1. ~IsLeader(t, u)
    BY <1>1, TeamAssumption DEF IsLeader, Outside
  <2>2. ("member" = "leader") <=> FALSE
    OBVIOUS
  <2> QED
    BY <1>1, <1>2, <2>1, <2>2, EnterCount
<1>4. ASSUME NEW s \in Teams \ {t}, s \notin disturbed' PROVE Sound(s)'
  <2>1. On(s)' = On(s) /\ team'[s] = team[s]
    BY <1>1 DEF On
  <2>2. PendingUsers(s)' \subseteq PendingUsers(s)
    <3>1. \A v \in Users :
            \/ invite'[s][v] = invite[s][v]
            \/ invite'[s][v] = "declined"
      BY <1>2 DEF AcceptInvite, TypeOK
    <3> QED
      BY <3>1 DEF PendingUsers, IsPending
  <2>3. Sound(s)
    BY <1>2, <1>4 DEF SoundTeams, SoundInv, Quiet
  <2> QED
    BY <1>1, <1>2, <1>3, <2>1, <2>2, <2>3, SoundKept
<1>5. ASSUME t \notin disturbed' PROVE Sound(t)'
  <2>1. On(t) = {} /\ Led(t) /\ Fits(1 + Cardinality(Members(t)))
    BY <1>1, <1>5, FoundSound
  <2>2. On(t)' = {} /\ Exists(t)' /\ team'[t].row # "deleted"
    BY <1>1, <2>1 DEF On, Exists
  <2>3. Fits(Cardinality(Members(t)'))
    BY <1>3, <2>1
  <2>4. Led(t)'
    BY <1>3, <2>1 DEF Led, LedBy
  <2> QED
    BY <2>2, <2>3, <2>4 DEF Sound, Fits
<1> QED
  BY <1>4, <1>5 DEF SoundInv, Quiet

LEMMA DirectSound ==
    ASSUME SoundTeams, NEW t \in Teams,
           \/ LockTeamComposition(t)
           \/ \E u \in Users : Respond(t, u) \/ InviteExpires(t, u)
    PROVE  SoundInv'
<1>1. CASE LockTeamComposition(t)
  <2>1. /\ disturbed \subseteq disturbed'
        /\ UNCHANGED <<member, invite, request>>
    BY <1>1 DEF LockTeamComposition, Touch, Disturb
  <2>2. \A s \in Teams : /\ team'[s].row = team[s].row
                         /\ PendingUsers(s)' \subseteq PendingUsers(s)
    BY <1>1, <2>1
       DEF LockTeamComposition, PendingUsers, IsPending, SoundTeams, LockInv,
           TypeOK
  <2> QED
    BY <2>1, <2>2, BystanderSound
<1>2. CASE \E u \in Users : AcceptInvite(t, u)
  BY <1>2, AcceptSound
<1>3. ASSUME NEW u \in Users, RejectInvite(t, u) PROVE SoundInv'
  <2>1. /\ disturbed \subseteq disturbed'
        /\ UNCHANGED <<team, member, request>>
    BY <1>3 DEF RejectInvite, Touch, Disturb
  <2>2. \A s \in Teams, v \in Users :
          \/ invite'[s][v] = invite[s][v]
          \/ invite'[s][v] \in {"expired", "declined"}
    BY <1>3 DEF RejectInvite, Refusal, SoundTeams, LockInv, TypeOK
  <2>3. \A s \in Teams : PendingUsers(s)' \subseteq PendingUsers(s)
    BY <2>2 DEF PendingUsers, IsPending
  <2> QED
    BY <2>1, <2>3, BystanderSound
<1>4. ASSUME NEW u \in Users, InviteExpires(t, u) PROVE SoundInv'
  <2>1. UNCHANGED <<team, member, request, disturbed>>
    BY <1>4 DEF InviteExpires
  <2>2. \A s \in Teams, v \in Users :
          \/ invite'[s][v] = invite[s][v]
          \/ invite[s][v] = "pending"
    BY <1>4 DEF InviteExpires, SoundTeams, LockInv, TypeOK
  <2>3. \A s \in Teams : PendingUsers(s)' \subseteq PendingUsers(s)
    BY <2>2 DEF PendingUsers, IsPending
  <2> QED
    BY <2>1, <2>3, BystanderSound
<1> QED
  BY <1>1, <1>2, <1>3, <1>4 DEF Respond

LEMMA AbandonSound ==
    ASSUME SoundTeams, NEW c \in Callers, Abandon(c)
    PROVE  SoundInv'
<1>1. /\ request[c] # Idle /\ request' = [request EXCEPT ![c] = Idle]
      /\ disturbed' = disturbed \cup {request[c].team}
      /\ UNCHANGED <<team, member, invite>>
  BY DEF Abandon, End, Become, Disturb
<1> SUFFICES ASSUME NEW s \in Teams, s \notin disturbed' PROVE Sound(s)'
  BY DEF SoundInv, Quiet
<1>2. TypeOK /\ Sound(s)
  BY <1>1 DEF SoundTeams, SoundInv, LockInv, Quiet
<1>3. On(s)' = On(s) /\ \A d \in On(s) : request'[d] = request[d]
  BY <1>1, <1>2 DEF On, TypeOK
<1>4. SameMembers(s) /\ PendingUsers(s)' = PendingUsers(s)
  BY <1>1 DEF SameMembers, PendingUsers, IsPending
<1> QED
  BY <1>1, <1>2, <1>3, <1>4, SoundKept

LEMMA SoundInvariant == Spec => []SoundInv
<1>1. Init => SoundInv
  <2> SUFFICES ASSUME Init, NEW t \in Teams PROVE Sound(t)
    BY DEF SoundInv
  <2>1. Members(t) = {} /\ On(t) = {}
    BY TeamAssumption DEF Init, Members, Outside, On
  <2>2. team[t].row = "none"
    BY DEF Init
  <2>3. Fits(Cardinality(Members(t)))
    BY <2>1, FS_EmptySet, TeamAssumption DEF Fits
  <2> QED
    BY <2>1, <2>2, <2>3 DEF Sound, Exists
<1>2. SoundTeams /\ [Next]_vars => SoundInv'
  <2> SUFFICES ASSUME SoundTeams, [Next]_vars PROVE SoundInv'
    OBVIOUS
  <2>1. CASE UNCHANGED vars
    BY <2>1, BystanderSound DEF vars, PendingUsers, IsPending
  <2>2. CASE Next
    BY <2>2, BeginSound, ProceedSound, AbandonSound, DirectSound DEF Next
  <2> QED
    BY <2>1, <2>2
<1> QED
  BY <1>1, <1>2, LockInvariant, PTL DEF Spec, SoundTeams

(***************************************************************************)
(* A team whose requests did not overlap has at most MaxSize members.      *)
(***************************************************************************)
THEOREM TeamsStaySmall == Spec => []SizeLimit
<1>1. SoundInv => SizeLimit
  BY DEF SoundInv, Sound, SizeLimit, Fits
<1> QED
  BY <1>1, SoundInvariant, PTL

(***************************************************************************)
(* Such a team has exactly one leader whenever no request is at work on it.*)
(***************************************************************************)
THEOREM TeamsAreLed == Spec => []OneLeader
<1>1. SoundInv => OneLeader
  BY DEF SoundInv, Sound, OneLeader, Led, LedBy
<1> QED
  BY <1>1, SoundInvariant, PTL

(***************************************************************************)
(* A deleted team of this kind has neither members nor invitations.        *)
(***************************************************************************)
THEOREM NobodyIsLeftBehind == Spec => []NoGhosts
<1>1. SoundInv => NoGhosts
  BY DEF SoundInv, Sound, NoGhosts, Exists
<1> QED
  BY <1>1, SoundInvariant, PTL
-----------------------------------------------------------------------------
LeadersStay ==
    \A t \in Teams, u \in Users :
      Quiet(t) /\ IsLeader(t, u) => member'[u].team = t \/ ~Exists(t)'

\* A step that takes nobody out of a team.
LEMMA NobodyLeaves ==
    ASSUME TypeOK, \A u \in Users : member'[u].team # member[u].team =>
                     member[u] = Outside
    PROVE  LeadersStay
BY TeamAssumption DEF LeadersStay, IsLeader, Outside

LEMMA RoleStays ==
    ASSUME TypeOK, NEW u \in Users, NEW role,
           SetRole(u, role) \/ UNCHANGED member
    PROVE  \A v \in Users : member'[v].team = member[v].team
BY DEF SetRole, TypeOK

LEMMA LeaderStep == SoundTeams /\ [Next]_vars => LeadersStay
<1> SUFFICES ASSUME SoundTeams, [Next]_vars PROVE LeadersStay
  OBVIOUS
<1>0. TypeOK
  BY DEF SoundTeams, LockInv
<1>1. CASE UNCHANGED member
  BY <1>0, <1>1, NobodyLeaves
<1>2. ASSUME NEW c \in Callers, AddLeader(c) \/ InsertMember(c)
      PROVE  LeadersStay
  <2>1. \A u \in Users : member'[u] # member[u] => member[u] = Outside
    BY <1>0, <1>2 DEF AddLeader, InsertMember, Enter, TypeOK
  <2> QED
    BY <1>0, <2>1, NobodyLeaves
<1>3. ASSUME NEW t \in Teams, NEW u \in Users, AcceptInvite(t, u)
      PROVE  LeadersStay
  <2>1. \A v \in Users : member'[v] # member[v] => member[v] = Outside
    BY <1>0, <1>3 DEF AcceptInvite, Enter, TypeOK
  <2> QED
    BY <1>0, <2>1, NobodyLeaves
<1>4. ASSUME NEW c \in Callers,
             Promote(c) \/ Demote(c) \/ Raise(c) \/ Restore(c)
      PROVE  LeadersStay
  <2>1. request[c].user \in Users /\ request[c].others \subseteq Users
    BY <1>0, <1>4 DEF TypeOK, Requests, Idle, Promote, Demote, Raise, Restore
  <2>2. \/ UNCHANGED member
        \/ \E v \in Users : \E role : SetRole(v, role)
    BY <1>4, <2>1 DEF Promote, Demote, Raise, Restore
  <2> QED
    BY <1>0, <2>2, RoleStays, NobodyLeaves
<1>5. ASSUME NEW c \in Callers, DropMember(c) PROVE LeadersStay
  <2> SUFFICES ASSUME NEW t \in Teams, NEW u \in Users, Quiet(t),
                      IsLeader(t, u), member'[u].team # t
               PROVE  FALSE
    BY DEF LeadersStay
  <2>1. u = request[c].user /\ t = request[c].team
    BY <1>0, <1>5 DEF DropMember, IsLeader, TypeOK
  <2>2. c \in On(t)
    BY <1>5, <2>1 DEF DropMember, On, Idle
  <2>3. Stage(request[c])
    BY <2>2 DEF SoundTeams, SoundInv, Sound
  <2> QED
    BY <1>5, <2>1, <2>3 DEF DropMember, Stage
<1>6. ASSUME NEW c \in Callers, Disband(c) PROVE LeadersStay
  <2>1. \A v \in Users : member[v].team # request[c].team =>
          member'[v] = member[v]
    BY <1>6 DEF Disband, RemoveMembers
  <2>2. request[c].team \in Teams =>
          team'[request[c].team].row = "deleted"
    BY <1>0, <1>6 DEF Disband, TypeOK
  <2>3. ASSUME NEW t \in Teams, NEW u \in Users, IsLeader(t, u),
               member'[u].team # t
        PROVE  team'[t].row = "deleted"
    BY <2>1, <2>2, <2>3 DEF IsLeader
  <2> QED
    BY <2>3 DEF LeadersStay, Exists
<1>7. ASSUME NEW c \in Callers, NEW t \in Teams, NEW u \in Users, Begin(c, t, u)
      PROVE  UNCHANGED member
  BY <1>7 DEF Begin, CreateTeam, AddMember, JoinTeamByCode, RemoveMember,
              DeleteTeam, UpdateTeam, LeaveTeam, TransferLeadership
<1>8. ASSUME NEW c \in Callers, Proceed(c) PROVE LeadersStay
  <2>1. \/ AddLeader(c) \/ InsertMember(c) \/ Disband(c) \/ DropMember(c)
        \/ Promote(c) \/ Demote(c) \/ Raise(c) \/ Restore(c)
        \/ UNCHANGED member
    BY <1>8 DEF Proceed, InviteNext, AllInvited, CreateInvite, SaveTeam
  <2> QED
    BY <1>1, <1>2, <1>4, <1>5, <1>6, <2>1
<1>9. ASSUME NEW t \in Teams, NEW u \in Users,
             Respond(t, u) \/ InviteExpires(t, u)
      PROVE  LeadersStay
  BY <1>1, <1>3, <1>9 DEF Respond, RejectInvite, InviteExpires
<1>10. ASSUME \/ \E c \in Callers : Abandon(c)
              \/ \E t \in Teams : LockTeamComposition(t)
              \/ UNCHANGED vars
       PROVE  UNCHANGED member
  BY <1>10 DEF Abandon, LockTeamComposition, vars
<1> QED
  BY <1>1, <1>7, <1>8, <1>9, <1>10 DEF Next

(***************************************************************************)
(* LeadersHandOver has a counterexample; this is how far it goes: a leader *)
(* of an undisturbed team never gets out of it except with the whole team, *)
(* whatever he tries.  LeaveTeam's promotion of another member meets the   *)
(* unique index every time, and what removes a member never meets a        *)
(* leader; first the leadership has to be transferred.                     *)
(***************************************************************************)
THEOREM LeadersNeverLeave == Spec => [][LeadersStay]_vars
<1>1. SoundTeams /\ [Next]_vars => [LeadersStay]_vars
  BY LeaderStep
<1> QED
  BY <1>1, LockInvariant, SoundInvariant, PTL DEF Spec, SoundTeams
=============================================================================
