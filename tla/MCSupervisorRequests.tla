------------------------ MODULE MCSupervisorRequests ------------------------
(* Small sets of teams, supervisors and requests for TLC. *)
EXTENDS SupervisorRequests, TLC

CONSTANT Bound

Requests == {k \in Rows : row[k] # Absent}
Supervised == {t \in Teams : assigned[t] # None}
Projects == {t \in Teams : project[t] # "none"}
Limited == {s \in Supervisors : limit[s] # 0}

\* The teams that have requests or are about to.
Asking ==
    {row[k].team : k \in Requests} \cup
    {request[h].team : h \in
        {g \in Handlers : request[g].at \in {"others", "insert"}}}

\* A bound: one team at most asks, one at most was deleted, and there are few
\* requests, assignments, deleted teams and, of one or the other, projects and
\* limits; or the asking team is the only one with a project or a supervisor.
FewThings ==
    /\ Cardinality(Asking) <= 1 /\ Cardinality(gone) <= 1
    /\ Limited = {} \/ Projects = {}
    /\ \/ Cardinality(Requests) + Cardinality(Supervised) + Cardinality(gone)
            + Cardinality(Limited) + Cardinality(Projects) <= Bound
       \/ Supervised \cup Projects \subseteq Asking /\ Limited = {} /\ gone = {}

Symmetry ==
    Permutations(Teams) \cup Permutations(Supervisors) \cup
    Permutations(Rows) \cup Permutations(Handlers)
=============================================================================
