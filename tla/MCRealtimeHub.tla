--------------------------- MODULE MCRealtimeHub ---------------------------
(* RealtimeHub with two connections of two users, a topic and a conversation. *)
EXTENDS RealtimeHub

CONSTANTS c1, c2, u1, u2, t1

MCOwnTopic == [c \in Clients |-> t1]
MCUserOf == [c \in Clients |-> IF c = c1 THEN u1 ELSE u2]
MCConversations == {{u1, u2}}

\* The second connection, once made, lasts; it may be as slow as it likes.
SecondLasts ==
    /\ peer[c2] = "open" /\ pump[c2].at # "done"
    /\ reader[c2] \in {"none", "registered", "ready", "reading"}
=============================================================================
