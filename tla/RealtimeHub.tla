---------------------------- MODULE RealtimeHub ----------------------------
(***************************************************************************)
(* The WebSocket hub of the gateway.  A connection has two goroutines: its *)
(* handler, which registers it, reads frames, joins and leaves topics and  *)
(* at last unregisters it, and its write pump, which empties the           *)
(* connection's queue into the socket.  A third kind of goroutine sends:   *)
(* the dispatcher, which hands on the events of the Redis channel one by   *)
(* one, and the handlers of chat messages, which save a message and then   *)
(* send it.                                                                *)
(*                                                                         *)
(* The hub's maps are under a read-write lock.  A send holds it for        *)
(* reading over all its recipients; registering, joining and their like    *)
(* hold it for writing, and so are steps that wait for every send.         *)
(***************************************************************************)
EXTENDS Integers, Sequences

CONSTANTS
    Clients,         \* connections
    Topics,
    OwnTopic,        \* user:{id} of the connection's user
    UserOf,          \* the user of each connection
    Conversations,   \* the participants of each
    Senders,         \* goroutines that send
    Dispatcher,      \* the one that handles events
    Buffer,          \* capacity of a connection's queue
    MaxFrames        \* bound on events and chat messages together

ASSUME DispatcherSends == Dispatcher \in Senders
ASSUME SomeBuffer == Buffer \in Nat \ {0}
ASSUME CountsFrames == MaxFrames \in Nat
ASSUME OwnTopics == OwnTopic \in [Clients -> Topics]

VARIABLES
    clients,   \* registered connections
    rooms,     \* the connections joined to each topic
    topics,    \* the topics each connection has joined
    send,      \* the channel of each connection
    reader,    \* the handler of each connection
    pump,      \* its write pump
    peer,      \* whether the other end can be reached
    sender,    \* what each sending goroutine does
    last,      \* the last event, and chat message, there was
    seen,      \* the last event, and chat message, that reached each peer
    panic      \* a goroutine has panicked

indexes == <<clients, rooms, topics>>
ends == <<pump, peer, seen>>
vars == <<indexes, send, reader, ends, sender, last, panic>>
-----------------------------------------------------------------------------
Sources == {"event", "chat"}
Numbers == 0 .. MaxFrames

Frame(source, n) == [source |-> source, n |-> n]
Frames == {Frame(s, n) : s \in Sources, n \in 1 .. MaxFrames}

Idle == [at |-> "idle"]
Sending(f, left) == [at |-> "sending", frame |-> f, left |-> left]
Saved(f, users) == [at |-> "saved", frame |-> f, users |-> users]
Writing(f) == [at |-> "writing", frame |-> f]
Pump(at) == [at |-> at]

Channels == [queue : Seq(Frames), closed : BOOLEAN]
Pumps == {Pump(at) : at \in {"none", "waiting", "done"}}
           \cup {Writing(f) : f \in Frames}
Sendings == {Idle}
              \cup {Sending(f, left) : f \in Frames, left \in SUBSET Clients}
              \cup {Saved(f, users) : f \in Frames, users \in Conversations}

\* The handler has registered the connection and not yet unregistered it.
Active == {"registered", "ready", "reading", "leaving"}

TypeOK ==
    /\ clients \subseteq Clients
    /\ rooms \in [Topics -> SUBSET Clients]
    /\ topics \in [Clients -> SUBSET Topics]
    /\ send \in [Clients -> Channels]
    /\ \A c \in Clients : Len(send[c].queue) <= Buffer
    /\ reader \in [Clients -> Active \cup {"none", "closing", "gone"}]
    /\ pump \in [Clients -> Pumps]
    /\ peer \in [Clients -> {"open", "dead"}]
    /\ sender \in [Senders -> Sendings]
    /\ last \in [Sources -> Numbers]
    /\ seen \in [Clients -> [Sources -> Numbers]]
    /\ panic \in BOOLEAN

Init ==
    /\ clients = {}
    /\ rooms = [t \in Topics |-> {}]
    /\ topics = [c \in Clients |-> {}]
    /\ send = [c \in Clients |-> [queue |-> << >>, closed |-> FALSE]]
    /\ reader = [c \in Clients |-> "none"]
    /\ pump = [c \in Clients |-> Pump("none")]
    /\ peer = [c \in Clients |-> "open"]
    /\ sender = [s \in Senders |-> Idle]
    /\ last = [k \in Sources |-> 0]
    /\ seen = [c \in Clients |-> [k \in Sources |-> 0]]
    /\ panic = FALSE
-----------------------------------------------------------------------------
Reader(c, from, to) == reader[c] = from /\ reader' = [reader EXCEPT ![c] = to]

\* The lock is held for writing only while nobody holds it for reading.
Locked == \A s \in Senders : sender[s].at # "sending"
-----------------------------------------------------------------------------
\* The handler of a connection.

Register(c) ==
    /\ Locked
    /\ Reader(c, "none", "registered")
    /\ clients' = clients \cup {c}
    /\ UNCHANGED <<rooms, topics, send, ends, sender, last, panic>>

Enter(c, t) ==
    /\ Locked
    /\ rooms' = [rooms EXCEPT ![t] = @ \cup {c}]
    /\ topics' = [topics EXCEPT ![c] = @ \cup {t}]

\* RealtimeWebSocket; ChatWebSocket joins no topic.
JoinOwnTopic(c) ==
    /\ Reader(c, "registered", "ready")
    /\ Enter(c, OwnTopic[c])
    /\ UNCHANGED <<clients, send, ends, sender, last, panic>>

StartPump(c) ==
    /\ \E from \in {"registered", "ready"} : Reader(c, from, "reading")
    /\ pump' = [pump EXCEPT ![c] = Pump("waiting")]
    /\ UNCHANGED <<indexes, send, peer, sender, last, seen, panic>>

Join(c, t) ==
    /\ Reader(c, "reading", "reading")
    /\ Enter(c, t)
    /\ UNCHANGED <<clients, send, ends, sender, last, panic>>

Leave(c, t) ==
    /\ Locked
    /\ Reader(c, "reading", "reading")
    /\ rooms' = [rooms EXCEPT ![t] = @ \ {c}]
    /\ topics' = [topics EXCEPT ![c] = @ \ {t}]
    /\ UNCHANGED <<clients, send, ends, sender, last, panic>>

\* The other end closes the connection or sends what cannot be read.
ReadFails(c) ==
    /\ Reader(c, "reading", "leaving")
    /\ UNCHANGED <<indexes, send, ends, sender, last, panic>>

\* Without pings there are no pongs, and the read deadline passes.
ReadTimesOut(c) ==
    /\ peer[c] = "dead" \/ pump[c].at = "done"
    /\ ReadFails(c)

\* A plausible bug: the rooms, added later, are forgotten.
UnregisterUser(c) ==
    /\ Locked
    /\ Reader(c, "leaving", "closing")
    /\ clients' = clients \ {c}
    /\ send' = [send EXCEPT ![c].closed = TRUE]
    /\ UNCHANGED <<rooms, topics, ends, sender, last, panic>>

Unregister(c) ==
    /\ Locked
    /\ Reader(c, "leaving", "closing")
    /\ rooms' = [t \in Topics |->
                   IF t \in topics[c] THEN rooms[t] \ {c} ELSE rooms[t]]
    /\ topics' = [topics EXCEPT ![c] = {}]
    /\ clients' = clients \ {c}
    /\ send' = [send EXCEPT ![c].closed = c \in clients \/ @]
    /\ panic' = (panic \/ (c \in clients /\ send[c].closed))
    /\ UNCHANGED <<ends, sender, last>>

Close(c) ==
    /\ Reader(c, "closing", "gone")
    /\ peer' = [peer EXCEPT ![c] = "dead"]
    /\ UNCHANGED <<indexes, send, pump, sender, last, seen, panic>>
-----------------------------------------------------------------------------
\* The write pump.  What is queued when the channel is closed is written
\* first; then a receive reports that it is closed.

TakeFrame(c) ==
    /\ pump[c] = Pump("waiting")
    /\ send[c].queue # << >>
    /\ pump' = [pump EXCEPT ![c] = Writing(Head(send[c].queue))]
    /\ send' = [send EXCEPT ![c].queue = Tail(@)]
    /\ UNCHANGED <<indexes, reader, peer, sender, last, seen, panic>>

\* A frame that is written reaches a peer that is there.
WriteMessage(c) ==
    LET f == pump[c].frame IN
    /\ pump[c].at = "writing"
    /\ pump' = [pump EXCEPT ![c] = Pump("waiting")]
    /\ seen' = IF peer[c] = "open" THEN [seen EXCEPT ![c][f.source] = f.n]
                                   ELSE seen
    /\ UNCHANGED <<indexes, send, reader, peer, sender, last, panic>>

\* A write or a ping fails, or takes longer than its deadline.
WriteFails(c) ==
    /\ pump[c].at \in {"waiting", "writing"}
    /\ pump' = [pump EXCEPT ![c] = Pump("done")]
    /\ UNCHANGED <<indexes, send, reader, peer, sender, last, seen, panic>>

StopPump(c) ==
    /\ pump[c] = Pump("waiting")
    /\ send[c].queue = << >> /\ send[c].closed
    /\ pump' = [pump EXCEPT ![c] = Pump("done")]
    /\ UNCHANGED <<indexes, send, reader, peer, sender, last, seen, panic>>

PeerVanishes(c) ==
    /\ reader[c] # "none" /\ peer[c] = "open"
    /\ peer' = [peer EXCEPT ![c] = "dead"]
    /\ UNCHANGED <<indexes, send, reader, pump, sender, last, seen, panic>>
-----------------------------------------------------------------------------
\* Sends.

Number(source) ==
    /\ last["event"] + last["chat"] < MaxFrames
    /\ last' = [last EXCEPT ![source] = @ + 1]

\* A plausible bug: every event is handed on by a goroutine of its own.
DispatchAlone(s, t) ==
    /\ sender[s] = Idle
    /\ Number("event")
    /\ sender' = [sender EXCEPT
                    ![s] = Sending(Frame("event", last'["event"]), rooms[t])]
    /\ UNCHANGED <<indexes, send, reader, ends, panic>>

\* DispatchRealtime, SendToTopic.
Dispatch(s, t) ==
    /\ s = Dispatcher /\ sender[s] = Idle
    /\ Number("event")
    /\ sender' = [sender EXCEPT
                    ![s] = Sending(Frame("event", last'["event"]), rooms[t])]
    /\ UNCHANGED <<indexes, send, reader, ends, panic>>

\* deliverMessage: chat_service saves the message and numbers it ...
SaveMessage(s, users) ==
    /\ s # Dispatcher /\ sender[s] = Idle
    /\ Number("chat")
    /\ sender' = [sender EXCEPT
                    ![s] = Saved(Frame("chat", last'["chat"]), users)]
    /\ UNCHANGED <<indexes, send, reader, ends, panic>>

\* ... and SendToUsers sends it to the participants that are connected.
SendToUsers(s) ==
    /\ sender[s].at = "saved"
    /\ sender' = [sender EXCEPT
                    ![s] = Sending(@.frame,
                                   {c \in clients : UserOf[c] \in @.users})]
    /\ UNCHANGED <<indexes, send, reader, ends, last, panic>>

Handed(s, c) ==
    /\ sender[s].at = "sending" /\ c \in sender[s].left
    /\ sender' = [sender EXCEPT ![s].left = @ \ {c}]
    /\ panic' = (panic \/ send[c].closed)
    /\ UNCHANGED <<indexes, reader, ends, last>>

\* A plausible bug: a send without the default branch.
BlockingSend(s, c) ==
    /\ Handed(s, c)
    /\ Len(send[c].queue) < Buffer
    /\ send' = [send EXCEPT ![c].queue = Append(@, sender[s].frame)]

\* A plausible bug: a queue without a limit.
SendAlways(s, c) ==
    /\ Handed(s, c)
    /\ send' = [send EXCEPT ![c].queue = Append(@, sender[s].frame)]

\* A full queue drops the frame; a closed channel panics.
TrySend(s, c) ==
    /\ Handed(s, c)
    /\ send' = IF Len(send[c].queue) < Buffer /\ ~send[c].closed
                 THEN [send EXCEPT ![c].queue = Append(@, sender[s].frame)]
                 ELSE send

\* The lock is released.
FinishSend(s) ==
    /\ sender[s].at = "sending" /\ sender[s].left = {}
    /\ sender' = [sender EXCEPT ![s] = Idle]
    /\ UNCHANGED <<indexes, send, reader, ends, last, panic>>
-----------------------------------------------------------------------------
ReaderNext(c) ==
    \/ Register(c) \/ JoinOwnTopic(c) \/ StartPump(c)
    \/ \E t \in Topics : Join(c, t) \/ Leave(c, t)
    \/ ReadFails(c) \/ Unregister(c) \/ Close(c)

PumpNext(c) ==
    TakeFrame(c) \/ WriteMessage(c) \/ WriteFails(c) \/ StopPump(c)

SendNext(s) ==
    \/ \E t \in Topics : Dispatch(s, t)
    \/ \E users \in Conversations : SaveMessage(s, users)
    \/ SendToUsers(s)
    \/ \E c \in Clients : TrySend(s, c)
    \/ FinishSend(s)

Next ==
    \/ \E c \in Clients : ReaderNext(c) \/ PumpNext(c) \/ PeerVanishes(c)
    \/ \E s \in Senders : SendNext(s)

Spec == Init /\ [][Next]_vars

\* Goroutines run, a send goes on to its end, deadlines pass, pings to a dead
\* peer fail, and a blocked Lock keeps new readers out, so it is granted.
\* Nothing is assumed of peers, nor that events or messages come.
FairSpec ==
    /\ Spec
    /\ \A c \in Clients :
         /\ SF_vars(JoinOwnTopic(c)) /\ WF_vars(StartPump(c))
         /\ WF_vars(ReadTimesOut(c)) /\ SF_vars(Unregister(c))
         /\ WF_vars(Close(c))
         /\ WF_vars(TakeFrame(c) \/ WriteMessage(c) \/ StopPump(c))
         /\ WF_vars(peer[c] = "dead" /\ WriteFails(c))
    /\ \A s \in Senders :
         WF_vars(FinishSend(s) \/ \E c \in Clients : TrySend(s, c))
-----------------------------------------------------------------------------
\* Properties.

(***************************************************************************)
(* No goroutine panics: nothing is sent on a channel that is closed, and   *)
(* none is closed twice.  The dispatcher has no recovery: a panic there is *)
(* the end of the gateway.                                                 *)
(***************************************************************************)
NoPanic == ~panic

(***************************************************************************)
(* Events reach a peer in the order they were published, with gaps where   *)
(* its queue was full.                                                     *)
(***************************************************************************)
EventsInOrder ==
    [][\A c \in Clients : seen'[c]["event"] >= seen[c]["event"]]_vars

(***************************************************************************)
(* A connection whose other end is gone does not stay: its two goroutines  *)
(* end and the hub forgets it, whatever is being sent to it.               *)
(***************************************************************************)
Forgotten(c) ==
    /\ c \notin clients
    /\ \A t \in Topics : c \notin rooms[t]
    /\ reader[c] = "gone" /\ pump[c].at = "done"

DeadConnectionsLeave ==
    \A c \in Clients : peer[c] = "dead" ~> Forgotten(c)

\* A counterexample by hand: messages are numbered when they are saved and
\* sent later, so two of them may arrive the other way round.
ChatInOrder ==
    [][\A c \in Clients : seen'[c]["chat"] >= seen[c]["chat"]]_vars
=============================================================================
