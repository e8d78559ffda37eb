------------------------- MODULE RealtimeHubProofs -------------------------
(***************************************************************************)
(* Theorems about RealtimeHub, for any connections, topics, senders and    *)
(* queue lengths.                                                          *)
(***************************************************************************)
EXTENDS RealtimeHub, TLAPS

-----------------------------------------------------------------------------
\* A frame, and what a goroutine does with one.
LEMMA FrameFields ==
    ASSUME NEW f \in Frames
    PROVE  /\ f = Frame(f.source, f.n)
           /\ f.source \in Sources /\ f.n \in 1 .. MaxFrames
BY DEF Frames, Frame

LEMMA PumpFields ==
    ASSUME NEW p \in Pumps
    PROVE  /\ p.at \in {"none", "waiting", "writing", "done"}
           /\ p.at = "writing" => p = Writing(p.frame) /\ p.frame \in Frames
BY DEF Pumps, Pump, Writing

LEMMA SendingFields ==
    ASSUME NEW w \in Sendings
    PROVE  /\ w.at \in {"idle", "saved", "sending"}
           /\ w.at = "idle" => w = Idle
           /\ w.at = "saved" => /\ w = Saved(w.frame, w.users)
                                /\ w.frame \in Frames
           /\ w.at = "sending" => /\ w = Sending(w.frame, w.left)
                                  /\ w.frame \in Frames
                                  /\ w.left \in SUBSET Clients
BY DEF Sendings, Idle, Saved, Sending

\* The pump and the sender that a step leaves behind.
LEMMA PumpTypes ==
    /\ \A at \in {"none", "waiting", "done"} : Pump(at) \in Pumps
    /\ \A f \in Frames : Writing(f) \in Pumps
BY DEF Pumps

LEMMA SendingTypes ==
    /\ Idle \in Sendings
    /\ \A f \in Frames : \A left \in SUBSET Clients :
         Sending(f, left) \in Sendings
    /\ \A f \in Frames : \A users \in Conversations :
         Saved(f, users) \in Sendings
BY DEF Sendings

LEMMA NumberTypes ==
    ASSUME TypeOK, NEW source \in Sources, Number(source)
    PROVE  /\ last' \in [Sources -> Numbers]
           /\ last'[source] = last[source] + 1
           /\ \A k \in Sources : last[k] <= last'[k]
           /\ Frame(source, last'[source]) \in Frames
<1>1. /\ last["event"] \in Nat /\ last["chat"] \in Nat
      /\ last["event"] + last["chat"] < MaxFrames
  BY CountsFrames DEF TypeOK, Number, Sources, Numbers
<1>2. last[source] + 1 \in 1 .. MaxFrames
  BY <1>1, CountsFrames DEF Sources
<1>3. last'[source] = last[source] + 1
  BY DEF TypeOK, Number
<1> QED
  BY <1>1, <1>2, <1>3, CountsFrames
  DEF TypeOK, Number, Sources, Numbers, Frames

\* One frame more in a queue that has room for it, or one less.
LEMMA AppendTypes ==
    ASSUME NEW ch \in Channels, NEW f \in Frames
    PROVE  /\ [ch EXCEPT !.queue = Append(@, f)] \in Channels
           /\ [ch EXCEPT !.queue = Append(@, f)].queue = Append(ch.queue, f)
           /\ [ch EXCEPT !.queue = Append(@, f)].closed = ch.closed
           /\ Len(Append(ch.queue, f)) = Len(ch.queue) + 1
BY DEF Channels

LEMMA TailTypes ==
    ASSUME NEW ch \in Channels, ch.queue # << >>
    PROVE  /\ [ch EXCEPT !.queue = Tail(@)] \in Channels
           /\ [ch EXCEPT !.queue = Tail(@)].queue = Tail(ch.queue)
           /\ [ch EXCEPT !.queue = Tail(@)].closed = ch.closed
           /\ Len(Tail(ch.queue)) = Len(ch.queue) - 1
           /\ Head(ch.queue) \in Frames
BY DEF Channels

LEMMA QueueTypes ==
    ASSUME TypeOK, NEW c \in Clients, NEW ch \in Channels,
           Len(ch.queue) <= Buffer, send' = [send EXCEPT ![c] = ch]
    PROVE  /\ send' \in [Clients -> Channels]
           /\ \A d \in Clients : Len(send'[d].queue) <= Buffer
BY DEF TypeOK
-----------------------------------------------------------------------------
\* A send, and what remains of it.
LEMMA HandedTypes ==
    ASSUME TypeOK, NEW s \in Senders, NEW c \in Clients, Handed(s, c)
    PROVE  /\ sender[s].frame \in Frames
           /\ sender[s].left \in SUBSET Clients
           /\ sender' = [sender EXCEPT ![s] =
                           Sending(sender[s].frame, sender[s].left \ {c})]
           /\ sender' \in [Senders -> Sendings]
<1>1. /\ sender[s] = Sending(sender[s].frame, sender[s].left)
      /\ sender[s].frame \in Frames /\ sender[s].left \in SUBSET Clients
  BY SendingFields DEF TypeOK, Handed
<1>2. sender' = [sender EXCEPT ![s] =
                   Sending(sender[s].frame, sender[s].left \ {c})]
  <2>1. [sender[s] EXCEPT !.left = sender[s].left \ {c}]
          = Sending(sender[s].frame, sender[s].left \ {c})
    BY <1>1 DEF Sending
  <2>2. sender' = [sender EXCEPT ![s] =
                     [sender[s] EXCEPT !.left = sender[s].left \ {c}]]
    BY DEF Handed
  <2> QED
    BY <2>1, <2>2
<1> QED
  BY <1>1, <1>2, SendingTypes DEF TypeOK

\* What a hand-over does to the queues.
LEMMA TrySendQueues ==
    ASSUME TypeOK, NEW s \in Senders, NEW c \in Clients, TrySend(s, c)
    PROVE  /\ send' \in [Clients -> Channels]
           /\ \A d \in Clients : Len(send'[d].queue) <= Buffer
           /\ \A d \in Clients : send'[d].closed = send[d].closed
           /\ \A d \in Clients :
                \/ send'[d].queue = send[d].queue
                \/ /\ d = c
                   /\ send'[d].queue = Append(send[d].queue, sender[s].frame)
<1>1. sender[s].frame \in Frames /\ send[c] \in Channels
  BY HandedTypes DEF TrySend, TypeOK
<1>2. CASE send' = send
  BY <1>2 DEF TypeOK
<1>3. CASE /\ Len(send[c].queue) < Buffer
           /\ send' = [send EXCEPT ![c].queue = Append(@, sender[s].frame)]
  <2> DEFINE ch == [send[c] EXCEPT !.queue = Append(@, sender[s].frame)]
  <2>1. /\ ch \in Channels /\ ch.closed = send[c].closed
        /\ ch.queue = Append(send[c].queue, sender[s].frame)
        /\ Len(ch.queue) = Len(send[c].queue) + 1
    BY <1>1, AppendTypes
  <2>2. send' = [send EXCEPT ![c] = ch]
    BY <1>3
  <2>3. Len(ch.queue) <= Buffer
    <3>1. Len(send[c].queue) \in Nat
      BY <1>1 DEF Channels
    <3> QED
      BY <1>3, <2>1, <3>1, SomeBuffer
  <2> HIDE DEF ch
  <2> QED
    BY <2>1, <2>2, <2>3, QueueTypes DEF TypeOK
<1> QED
  BY <1>2, <1>3 DEF TrySend

LEMMA TakeFrameQueues ==
    ASSUME TypeOK, NEW c \in Clients, TakeFrame(c)
    PROVE  /\ send' \in [Clients -> Channels]
           /\ \A d \in Clients : Len(send'[d].queue) <= Buffer
           /\ \A d \in Clients : send'[d].closed = send[d].closed
           /\ \A d \in Clients :
                send'[d].queue = IF d = c THEN Tail(send[d].queue)
                                          ELSE send[d].queue
           /\ Head(send[c].queue) \in Frames
<1> DEFINE ch == [send[c] EXCEPT !.queue = Tail(@)]
<1>1. send[c] \in Channels /\ send[c].queue # << >>
  BY DEF TypeOK, TakeFrame
<1>2. /\ ch \in Channels /\ ch.closed = send[c].closed
      /\ ch.queue = Tail(send[c].queue)
      /\ Len(ch.queue) = Len(send[c].queue) - 1
      /\ Head(send[c].queue) \in Frames
  BY <1>1, TailTypes
<1>3. send' = [send EXCEPT ![c] = ch]
  BY DEF TakeFrame
<1>4. Len(ch.queue) <= Buffer
  <2>1. Len(send[c].queue) \in Nat /\ Len(send[c].queue) <= Buffer
    BY <1>1 DEF Channels, TypeOK
  <2> QED
    BY <1>2, <2>1, SomeBuffer
<1> HIDE DEF ch
<1> QED
  BY <1>2, <1>3, <1>4, QueueTypes DEF TypeOK

\* A channel is closed with what it holds.
LEMMA UnregisterQueues ==
    ASSUME TypeOK, NEW c \in Clients, Unregister(c)
    PROVE  /\ send' \in [Clients -> Channels]
           /\ \A d \in Clients : send'[d].queue = send[d].queue
           /\ \A d \in Clients :
                send'[d].closed = IF d = c THEN c \in clients \/ send[d].closed
                                           ELSE send[d].closed
<1> DEFINE ch == [send[c] EXCEPT !.closed = c \in clients \/ @]
<1>1. send[c] \in Channels
  BY DEF TypeOK
<1>2. /\ ch \in Channels /\ ch.queue = send[c].queue
      /\ ch.closed = (c \in clients \/ send[c].closed)
  BY <1>1 DEF Channels
<1>3. send' = [send EXCEPT ![c] = ch]
  BY DEF Unregister
<1> HIDE DEF ch
<1> QED
  BY <1>2, <1>3 DEF TypeOK

LEMMA ReaderTypes ==
    ASSUME TypeOK, NEW c \in Clients, NEW from,
           NEW to \in Active \cup {"none", "closing", "gone"},
           Reader(c, from, to)
    PROVE  reader' \in [Clients -> Active \cup {"none", "closing", "gone"}]
BY DEF TypeOK, Reader

LEMMA EnterTypes ==
    ASSUME TypeOK, NEW c \in Clients, NEW t \in Topics, Enter(c, t)
    PROVE  /\ rooms' \in [Topics -> SUBSET Clients]
           /\ topics' \in [Clients -> SUBSET Topics]
BY DEF TypeOK, Enter

LEMMA StepTypes == TypeOK /\ [Next]_vars => TypeOK'
<1> SUFFICES ASSUME TypeOK, [Next]_vars PROVE TypeOK'
  OBVIOUS
<1>1. ASSUME NEW c \in Clients, Register(c) PROVE TypeOK'
  <2>1. "registered" \in Active
    BY DEF Active
  <2> QED
    BY <1>1, <2>1, ReaderTypes DEF Register, ends, TypeOK
<1>2. ASSUME NEW c \in Clients, JoinOwnTopic(c) PROVE TypeOK'
  <2>1. "ready" \in Active /\ OwnTopic[c] \in Topics
    BY OwnTopics DEF Active
  <2> QED
    BY <1>2, <2>1, ReaderTypes, EnterTypes DEF JoinOwnTopic, ends, TypeOK
<1>3. ASSUME NEW c \in Clients, StartPump(c) PROVE TypeOK'
  <2>1. "reading" \in Active
    BY DEF Active
  <2>2. reader' \in [Clients -> Active \cup {"none", "closing", "gone"}]
    BY <1>3, <2>1, ReaderTypes DEF StartPump
  <2>3. pump' \in [Clients -> Pumps]
    BY <1>3, PumpTypes DEF StartPump, TypeOK
  <2> QED
    BY <1>3, <2>2, <2>3 DEF StartPump, indexes, TypeOK
<1>4. ASSUME NEW c \in Clients, NEW t \in Topics, Join(c, t) PROVE TypeOK'
  <2>1. "reading" \in Active
    BY DEF Active
  <2> QED
    BY <1>4, <2>1, ReaderTypes, EnterTypes DEF Join, ends, TypeOK
<1>5. ASSUME NEW c \in Clients, NEW t \in Topics, Leave(c, t) PROVE TypeOK'
  <2>1. "reading" \in Active
    BY DEF Active
  <2> QED
    BY <1>5, <2>1, ReaderTypes DEF Leave, ends, TypeOK
<1>6. ASSUME NEW c \in Clients, ReadFails(c) PROVE TypeOK'
  <2>1. "leaving" \in Active
    BY DEF Active
  <2> QED
    BY <1>6, <2>1, ReaderTypes DEF ReadFails, indexes, ends, TypeOK
<1>7. ASSUME NEW c \in Clients, Unregister(c) PROVE TypeOK'
  <2>1. /\ send' \in [Clients -> Channels]
        /\ \A d \in Clients : Len(send'[d].queue) <= Buffer
    BY <1>7, UnregisterQueues DEF TypeOK
  <2>2. reader' \in [Clients -> Active \cup {"none", "closing", "gone"}]
    BY <1>7, ReaderTypes DEF Unregister
  <2>3. panic' \in BOOLEAN
    BY <1>7 DEF Unregister
  <2> QED
    BY <1>7, <2>1, <2>2, <2>3 DEF Unregister, ends, TypeOK
<1>8. ASSUME NEW c \in Clients, Close(c) PROVE TypeOK'
  BY <1>8, ReaderTypes DEF Close, indexes, TypeOK
<1>9. ASSUME NEW c \in Clients, TakeFrame(c) PROVE TypeOK'
  <2>1. pump' \in [Clients -> Pumps]
    BY <1>9, TakeFrameQueues, PumpTypes DEF TakeFrame, TypeOK
  <2> QED
    BY <1>9, <2>1, TakeFrameQueues DEF TakeFrame, indexes, TypeOK
<1>10. ASSUME NEW c \in Clients, WriteMessage(c) PROVE TypeOK'
  <2> DEFINE f == pump[c].frame
  <2>1. f.source \in Sources /\ f.n \in Numbers
    BY <1>10, PumpFields, FrameFields, CountsFrames
    DEF WriteMessage, TypeOK, Numbers
  <2>2. seen' \in [Clients -> [Sources -> Numbers]]
    BY <1>10, <2>1 DEF WriteMessage, TypeOK
  <2>3. pump' \in [Clients -> Pumps]
    BY <1>10, PumpTypes DEF WriteMessage, TypeOK
  <2> QED
    BY <1>10, <2>2, <2>3 DEF WriteMessage, indexes, TypeOK
<1>11. ASSUME NEW c \in Clients, WriteFails(c) PROVE TypeOK'
  <2>1. pump' \in [Clients -> Pumps]
    BY <1>11, PumpTypes DEF WriteFails, TypeOK
  <2> QED
    BY <1>11, <2>1 DEF WriteFails, indexes, TypeOK
<1>12. ASSUME NEW c \in Clients, StopPump(c) PROVE TypeOK'
  <2>1. pump' \in [Clients -> Pumps]
    BY <1>12, PumpTypes DEF StopPump, TypeOK
  <2> QED
    BY <1>12, <2>1 DEF StopPump, indexes, TypeOK
<1>13. ASSUME NEW c \in Clients, PeerVanishes(c) PROVE TypeOK'
  BY <1>13 DEF PeerVanishes, indexes, TypeOK
<1>14. ASSUME NEW s \in Senders, NEW t \in Topics, Dispatch(s, t) PROVE TypeOK'
  <2>1. Number("event") /\ "event" \in Sources
    BY <1>14 DEF Dispatch, Sources
  <2>2. rooms[t] \in SUBSET Clients
    BY DEF TypeOK
  <2>3. sender' \in [Senders -> Sendings]
    BY <1>14, <2>1, <2>2, NumberTypes, SendingTypes DEF Dispatch, TypeOK
  <2> QED
    BY <1>14, <2>1, <2>3, NumberTypes DEF Dispatch, indexes, ends, TypeOK
<1>15. ASSUME NEW s \in Senders, NEW users \in Conversations,
              SaveMessage(s, users)
       PROVE  TypeOK'
  <2>1. Number("chat") /\ "chat" \in Sources
    BY <1>15 DEF SaveMessage, Sources
  <2>2. sender' \in [Senders -> Sendings]
    BY <1>15, <2>1, NumberTypes, SendingTypes DEF SaveMessage, TypeOK
  <2> QED
    BY <1>15, <2>1, <2>2, NumberTypes DEF SaveMessage, indexes, ends, TypeOK
<1>16. ASSUME NEW s \in Senders, SendToUsers(s) PROVE TypeOK'
  <2>1. sender[s].frame \in Frames
    BY <1>16, SendingFields DEF SendToUsers, TypeOK
  <2>2. {c \in clients : UserOf[c] \in sender[s].users} \in SUBSET Clients
    BY DEF TypeOK
  <2>3. sender' \in [Senders -> Sendings]
    BY <1>16, <2>1, <2>2, SendingTypes DEF SendToUsers, TypeOK
  <2> QED
    BY <1>16, <2>3 DEF SendToUsers, indexes, ends, TypeOK
<1>17. ASSUME NEW s \in Senders, NEW c \in Clients, TrySend(s, c) PROVE TypeOK'
  <2>1. sender' \in [Senders -> Sendings] /\ panic' \in BOOLEAN
    BY <1>17, HandedTypes DEF TrySend, Handed
  <2> QED
    BY <1>17, <2>1, TrySendQueues DEF TrySend, Handed, indexes, ends, TypeOK
<1>18. ASSUME NEW s \in Senders, FinishSend(s) PROVE TypeOK'
  <2>1. sender' \in [Senders -> Sendings]
    BY <1>18, SendingTypes DEF FinishSend, TypeOK
  <2> QED
    BY <1>18, <2>1 DEF FinishSend, indexes, ends, TypeOK
<1>19. CASE UNCHANGED vars
  BY <1>19 DEF vars, indexes, ends, TypeOK
<1> QED
  BY <1>1, <1>2, <1>3, <1>4, <1>5, <1>6, <1>7, <1>8, <1>9, <1>10, <1>11,
     <1>12, <1>13, <1>14, <1>15, <1>16, <1>17, <1>18, <1>19
  DEF Next, ReaderNext, PumpNext, SendNext

LEMMA InitTypes == Init => TypeOK
<1> SUFFICES ASSUME Init PROVE TypeOK
  OBVIOUS
<1>1. << >> \in Seq(Frames) /\ Len(<< >>) = 0
  OBVIOUS
<1>2. /\ send \in [Clients -> Channels]
      /\ \A c \in Clients : Len(send[c].queue) <= Buffer
  <2>1. [queue |-> << >>, closed |-> FALSE] \in Channels
    BY <1>1 DEF Channels
  <2>2. \A c \in Clients : send[c].queue = << >>
    BY DEF Init
  <2>3. send \in [Clients -> Channels]
    BY <2>1 DEF Init
  <2> QED
    BY <1>1, <2>2, <2>3, SomeBuffer
<1>3. pump \in [Clients -> Pumps] /\ sender \in [Senders -> Sendings]
  BY PumpTypes, SendingTypes DEF Init
<1>4. /\ last \in [Sources -> Numbers]
      /\ seen \in [Clients -> [Sources -> Numbers]]
  BY CountsFrames DEF Init, Numbers
<1> QED
  BY <1>2, <1>3, <1>4 DEF Init, TypeOK

(***************************************************************************)
(* The state stays within its types; no queue grows beyond its capacity.   *)
(***************************************************************************)
THEOREM TypeCorrect == Spec => []TypeOK
BY InitTypes, StepTypes, PTL DEF Spec
-----------------------------------------------------------------------------
\* What keeps senders off closed channels.

\* The two indexes say the same, and hold only connections whose handlers
\* have yet to unregister them.
IndexesInv ==
    \A c \in Clients :
      /\ c \in clients => reader[c] \in Active
      /\ topics[c] # {} => reader[c] \in Active
      /\ \A t \in Topics : c \in rooms[t] <=> t \in topics[c]

ClosedInv ==
    \A c \in Clients : send[c].closed => reader[c] \in {"closing", "gone"}

\* The lock keeps recipients registered until the send is over.
RecipientsInv ==
    \A s \in Senders : sender[s].at = "sending" =>
      \A c \in sender[s].left : reader[c] \in Active

HubInv == IndexesInv /\ ClosedInv /\ RecipientsInv /\ ~panic

\* A handler that stays registered disturbs no send.
LEMMA ReaderStays ==
    ASSUME TypeOK, HubInv, NEW c \in Clients, NEW from \in Active \cup {"none"},
           NEW to \in Active, Reader(c, from, to),
           UNCHANGED <<send, sender, panic>>
    PROVE  /\ ClosedInv' /\ RecipientsInv' /\ ~panic'
           /\ \A d \in Clients : reader[d] \in Active => reader'[d] \in Active
           /\ reader'[c] \in Active
<1>1. /\ \A d \in Clients : reader[d] \in Active => reader'[d] \in Active
      /\ reader'[c] \in Active
      /\ \A d \in Clients \ {c} : reader'[d] = reader[d]
  BY DEF Reader, TypeOK
<1>2. ~send[c].closed
  BY DEF HubInv, ClosedInv, Reader, Active
<1>3. \A s \in Senders : sender[s].at = "sending" =>
        sender[s].left \in SUBSET Clients
  BY SendingFields DEF TypeOK
<1>4. ClosedInv'
  BY <1>1, <1>2 DEF HubInv, ClosedInv
<1>5. RecipientsInv'
  BY <1>1, <1>3 DEF HubInv, RecipientsInv
<1> QED
  BY <1>1, <1>4, <1>5 DEF HubInv

LEMMA HubStep == TypeOK /\ HubInv /\ [Next]_vars => HubInv'
<1> SUFFICES ASSUME TypeOK, HubInv, [Next]_vars PROVE HubInv'
  OBVIOUS
<1>1. ASSUME NEW c \in Clients, Register(c) PROVE HubInv'
  <2>1. "registered" \in Active
    BY DEF Active
  <2>2. /\ ClosedInv' /\ RecipientsInv' /\ ~panic' /\ reader'[c] \in Active
        /\ \A d \in Clients : reader[d] \in Active => reader'[d] \in Active
    BY <1>1, <2>1, ReaderStays DEF Register
  <2>3. IndexesInv'
    BY <1>1, <2>2 DEF Register, HubInv, IndexesInv
  <2> QED
    BY <2>2, <2>3 DEF HubInv
<1>2. ASSUME NEW c \in Clients, NEW t \in Topics, Enter(c, t),
             NEW from \in Active, NEW to \in Active, Reader(c, from, to),
             UNCHANGED <<clients, send, sender, panic>>
      PROVE  HubInv'
  <2>1. /\ ClosedInv' /\ RecipientsInv' /\ ~panic' /\ reader'[c] \in Active
        /\ \A d \in Clients : reader[d] \in Active => reader'[d] \in Active
    BY <1>2, ReaderStays
  <2>2. IndexesInv'
    BY <1>2, <2>1 DEF Enter, HubInv, IndexesInv, TypeOK
  <2> QED
    BY <2>1, <2>2 DEF HubInv
<1>3. ASSUME NEW c \in Clients, JoinOwnTopic(c) PROVE HubInv'
  <2>1. "registered" \in Active /\ "ready" \in Active /\ OwnTopic[c] \in Topics
    BY OwnTopics DEF Active
  <2> QED
    BY <1>2, <1>3, <2>1 DEF JoinOwnTopic
<1>4. ASSUME NEW c \in Clients, NEW t \in Topics, Join(c, t) PROVE HubInv'
  <2>1. "reading" \in Active
    BY DEF Active
  <2> QED
    BY <1>2, <1>4, <2>1 DEF Join
<1>5. ASSUME NEW c \in Clients, StartPump(c) PROVE HubInv'
  <2>1. {"registered", "ready", "reading"} \subseteq Active
    BY DEF Active
  <2>2. /\ ClosedInv' /\ RecipientsInv' /\ ~panic'
        /\ \A d \in Clients : reader[d] \in Active => reader'[d] \in Active
    BY <1>5, <2>1, ReaderStays DEF StartPump
  <2>3. IndexesInv'
    BY <1>5, <2>2 DEF StartPump, indexes, HubInv, IndexesInv
  <2> QED
    BY <2>2, <2>3 DEF HubInv
<1>6. ASSUME NEW c \in Clients, NEW t \in Topics, Leave(c, t) PROVE HubInv'
  <2>1. "reading" \in Active
    BY DEF Active
  <2>2. /\ ClosedInv' /\ RecipientsInv' /\ ~panic'
        /\ \A d \in Clients : reader[d] \in Active => reader'[d] \in Active
    BY <1>6, <2>1, ReaderStays DEF Leave
  <2>3. IndexesInv'
    BY <1>6, <2>2 DEF Leave, HubInv, IndexesInv, TypeOK
  <2> QED
    BY <2>2, <2>3 DEF HubInv
<1>7. ASSUME NEW c \in Clients, ReadFails(c) PROVE HubInv'
  <2>1. "reading" \in Active /\ "leaving" \in Active
    BY DEF Active
  <2>2. /\ ClosedInv' /\ RecipientsInv' /\ ~panic'
        /\ \A d \in Clients : reader[d] \in Active => reader'[d] \in Active
    BY <1>7, <2>1, ReaderStays DEF ReadFails
  <2>3. IndexesInv'
    BY <1>7, <2>2 DEF ReadFails, indexes, HubInv, IndexesInv
  <2> QED
    BY <2>2, <2>3 DEF HubInv
<1>8. ASSUME NEW c \in Clients, Unregister(c) PROVE HubInv'
  <2>1. reader[c] = "leaving" /\ reader'[c] = "closing"
    BY <1>8 DEF Unregister, Reader, TypeOK
  <2>2. \A d \in Clients \ {c} : reader'[d] = reader[d]
    BY <1>8 DEF Unregister, Reader, TypeOK
  <2>3. ~send[c].closed
    BY <2>1 DEF HubInv, ClosedInv
  <2>4. /\ c \notin clients' /\ topics'[c] = {}
        /\ \A t \in Topics : c \notin rooms'[t]
    BY <1>8 DEF Unregister, HubInv, IndexesInv, TypeOK
  <2>5. ASSUME NEW d \in Clients \ {c}
        PROVE  /\ d \in clients' => d \in clients
               /\ topics'[d] = topics[d]
               /\ \A t \in Topics : d \in rooms'[t] <=> d \in rooms[t]
    BY <1>8 DEF Unregister, TypeOK
  <2>6. IndexesInv'
    BY <2>2, <2>4, <2>5 DEF HubInv, IndexesInv
  <2>7. ClosedInv'
    BY <1>8, <2>1, <2>2, UnregisterQueues DEF HubInv, ClosedInv
  <2>8. RecipientsInv'
    BY <1>8 DEF Unregister, Locked, RecipientsInv
  <2>9. ~panic'
    BY <1>8, <2>3 DEF Unregister, HubInv
  <2> QED
    BY <2>6, <2>7, <2>8, <2>9 DEF HubInv
<1>9. ASSUME NEW c \in Clients, Close(c) PROVE HubInv'
  <2>1. reader[c] = "closing" /\ reader' = [reader EXCEPT ![c] = "gone"]
    BY <1>9 DEF Close, Reader
  <2>2. \A d \in Clients : reader[d] \in Active => reader'[d] = reader[d]
    BY <2>1 DEF TypeOK, Active
  <2>3. \A s \in Senders : sender[s].at = "sending" =>
          sender[s].left \in SUBSET Clients
    BY SendingFields DEF TypeOK
  <2>4. RecipientsInv'
    BY <1>9, <2>2, <2>3 DEF Close, HubInv, RecipientsInv
  <2>5. IndexesInv'
    BY <1>9, <2>2 DEF Close, indexes, HubInv, IndexesInv
  <2>6. ClosedInv'
    BY <1>9, <2>1 DEF Close, HubInv, ClosedInv, TypeOK
  <2> QED
    BY <1>9, <2>4, <2>5, <2>6 DEF Close, HubInv
<1>10. ASSUME NEW c \in Clients, TakeFrame(c) PROVE HubInv'
  <2>1. ClosedInv'
    BY <1>10, TakeFrameQueues DEF TakeFrame, HubInv, ClosedInv
  <2> QED
    BY <1>10, <2>1 DEF TakeFrame, indexes, HubInv, IndexesInv, RecipientsInv
<1>11. ASSUME UNCHANGED <<indexes, send, reader, sender, panic>> PROVE HubInv'
  BY <1>11 DEF indexes, HubInv, IndexesInv, ClosedInv, RecipientsInv
<1>12. ASSUME NEW c \in Clients, \/ WriteMessage(c) \/ WriteFails(c)
                                 \/ StopPump(c) \/ PeerVanishes(c)
       PROVE  HubInv'
  BY <1>11, <1>12 DEF WriteMessage, WriteFails, StopPump, PeerVanishes
<1>13. ASSUME NEW s \in Senders, NEW w,
              sender' = [sender EXCEPT ![s] = w],
              w.at = "sending" => \A c \in w.left : reader[c] \in Active,
              UNCHANGED <<indexes, send, reader, panic>>
       PROVE  HubInv'
  BY <1>13 DEF indexes, HubInv, IndexesInv, ClosedInv, RecipientsInv, TypeOK
<1>14. ASSUME NEW s \in Senders, NEW t \in Topics, Dispatch(s, t) PROVE HubInv'
  <2> DEFINE w == Sending(Frame("event", last'["event"]), rooms[t])
  <2>1. \A c \in w.left : reader[c] \in Active
    BY DEF Sending, HubInv, IndexesInv, TypeOK
  <2>2. sender' = [sender EXCEPT ![s] = w]
    BY <1>14 DEF Dispatch
  <2> HIDE DEF w
  <2> QED
    BY <1>13, <1>14, <2>1, <2>2 DEF Dispatch
<1>15. ASSUME NEW s \in Senders, NEW users \in Conversations,
              SaveMessage(s, users)
       PROVE  HubInv'
  <2> DEFINE w == Saved(Frame("chat", last'["chat"]), users)
  <2>1. w.at # "sending"
    BY DEF Saved
  <2>2. sender' = [sender EXCEPT ![s] = w]
    BY <1>15 DEF SaveMessage
  <2> HIDE DEF w
  <2> QED
    BY <1>13, <1>15, <2>1, <2>2 DEF SaveMessage
<1>16. ASSUME NEW s \in Senders, SendToUsers(s) PROVE HubInv'
  <2> DEFINE w == Sending(sender[s].frame,
                          {c \in clients : UserOf[c] \in sender[s].users})
  <2>1. \A c \in w.left : reader[c] \in Active
    BY DEF Sending, HubInv, IndexesInv, TypeOK
  <2>2. sender' = [sender EXCEPT ![s] = w]
    BY <1>16 DEF SendToUsers
  <2> HIDE DEF w
  <2> QED
    BY <1>13, <1>16, <2>1, <2>2 DEF SendToUsers
<1>17. ASSUME NEW s \in Senders, NEW c \in Clients, TrySend(s, c) PROVE HubInv'
  <2>1. reader[c] \in Active
    BY <1>17 DEF TrySend, Handed, HubInv, RecipientsInv
  <2>2. ~send[c].closed
    BY <2>1 DEF HubInv, ClosedInv, Active
  <2>3. ~panic'
    BY <1>17, <2>2 DEF TrySend, Handed, HubInv
  <2>4. ClosedInv'
    BY <1>17, TrySendQueues DEF TrySend, Handed, HubInv, ClosedInv
  <2>5. RecipientsInv'
    <3> DEFINE w == Sending(sender[s].frame, sender[s].left \ {c})
    <3>1. sender' = [sender EXCEPT ![s] = w] /\ sender[s].at = "sending"
      BY <1>17, HandedTypes DEF TrySend, Handed
    <3>2. \A d \in w.left : reader[d] \in Active
      BY <3>1 DEF Sending, HubInv, RecipientsInv
    <3> HIDE DEF w
    <3> QED
      BY <1>17, <3>1, <3>2
      DEF TrySend, Handed, HubInv, RecipientsInv, TypeOK
  <2> QED
    BY <1>17, <2>3, <2>4, <2>5
    DEF TrySend, Handed, indexes, HubInv, IndexesInv
<1>18. ASSUME NEW s \in Senders, FinishSend(s) PROVE HubInv'
  <2>1. Idle.at # "sending"
    BY DEF Idle
  <2> QED
    BY <1>13, <1>18, <2>1 DEF FinishSend
<1>19. CASE UNCHANGED vars
  BY <1>11, <1>19 DEF vars
<1> QED
  BY <1>1, <1>3, <1>4, <1>5, <1>6, <1>7, <1>8, <1>9, <1>10, <1>12, <1>14,
     <1>15, <1>16, <1>17, <1>18, <1>19
  DEF Next, ReaderNext, PumpNext, SendNext

LEMMA HubInvariant == Spec => []HubInv
<1>1. Init => HubInv
  BY DEF Init, HubInv, IndexesInv, ClosedInv, RecipientsInv, Idle
<1> QED
  BY <1>1, HubStep, TypeCorrect, PTL DEF Spec

(***************************************************************************)
(* No send meets a closed channel and no channel is closed twice: what is  *)
(* being sent to is registered, and what is closed is not.                 *)
(***************************************************************************)
THEOREM NoGoroutinePanics == Spec => []NoPanic
<1>1. HubInv => NoPanic
  BY DEF HubInv, NoPanic
<1> QED
  BY <1>1, HubInvariant, PTL
-----------------------------------------------------------------------------
(***************************************************************************)
(* What keeps frames of one source in order: at most one goroutine has     *)
(* such a frame on its way at a time, from the moment it gets its number,  *)
(* and so it is the newest there is.                                       *)
(***************************************************************************)
IsOf(k, f) == f.source = k

Underway(k, s) == sender[s].at # "idle" /\ IsOf(k, sender[s].frame)

OneAtATime(k) ==
    \A s, r \in Senders : Underway(k, s) /\ Underway(k, r) => s = r

NewestInv(k) ==
    \A s \in Senders : Underway(k, s) => sender[s].frame.n = last[k]

\* What a peer has seen, what its pump writes and what is queued for it are
\* of each source in order, and never newer than the last one there was.
QueuedInv(k, c) ==
    LET q == send[c].queue IN
    \A i \in 1 .. Len(q) : IsOf(k, q[i]) =>
      /\ seen[c][k] <= q[i].n /\ q[i].n <= last[k]
      /\ pump[c].at = "writing" /\ IsOf(k, pump[c].frame) =>
           pump[c].frame.n <= q[i].n
      /\ \A j \in 1 .. i : IsOf(k, q[j]) => q[j].n <= q[i].n

WrittenInv(k, c) ==
    /\ seen[c][k] <= last[k]
    /\ pump[c].at = "writing" /\ IsOf(k, pump[c].frame) =>
         /\ seen[c][k] <= pump[c].frame.n
         /\ pump[c].frame.n <= last[k]

OrderInv(k) ==
    NewestInv(k) /\ \A c \in Clients : QueuedInv(k, c) /\ WrittenInv(k, c)

\* What is where after one frame is taken or added.
LEMMA TailIndexes ==
    ASSUME NEW q \in Seq(Frames), q # << >>
    PROVE  /\ Len(q) \in Nat /\ Len(q) >= 1
           /\ Len(Tail(q)) = Len(q) - 1
           /\ \A i \in 1 .. Len(q) - 1 : Tail(q)[i] = q[i + 1]
OBVIOUS

LEMMA AppendIndexes ==
    ASSUME NEW q \in Seq(Frames), NEW f \in Frames
    PROVE  /\ Len(q) \in Nat
           /\ Len(Append(q, f)) = Len(q) + 1
           /\ \A i \in 1 .. Len(q) : Append(q, f)[i] = q[i]
           /\ Append(q, f)[Len(q) + 1] = f
OBVIOUS

\* Numbers are numbers.
LEMMA NumbersCompare ==
    ASSUME TypeOK, NEW k \in Sources
    PROVE  /\ last[k] \in Int
           /\ \A c \in Clients : seen[c][k] \in Int
           /\ \A c \in Clients : \A i \in 1 .. Len(send[c].queue) :
                send[c].queue[i] \in Frames /\ send[c].queue[i].n \in Int
           /\ \A c \in Clients : pump[c].at = "writing" =>
                pump[c].frame \in Frames /\ pump[c].frame.n \in Int
<1>1. \A f \in Frames : f.n \in Int
  BY CountsFrames DEF Frames, Frame
<1>2. /\ last[k] \in Int
      /\ \A c \in Clients : seen[c][k] \in Int
  BY CountsFrames DEF TypeOK, Sources, Numbers
<1>3. \A c \in Clients : \A i \in 1 .. Len(send[c].queue) :
        send[c].queue[i] \in Frames
  BY DEF TypeOK, Channels
<1>4. \A c \in Clients : pump[c].at = "writing" => pump[c].frame \in Frames
  BY PumpFields DEF TypeOK
<1> QED
  BY <1>1, <1>2, <1>3, <1>4

\* A step that changes neither queues nor pumps nor what has been seen.
LEMMA EventsRest ==
    ASSUME TypeOK, NEW k \in Sources, OrderInv(k), UNCHANGED <<pump, seen>>,
           \A c \in Clients : send'[c].queue = send[c].queue,
           last[k] <= last'[k], last'[k] \in Int
    PROVE  \A c \in Clients : QueuedInv(k, c)' /\ WrittenInv(k, c)'
<1> TAKE c \in Clients
<1>1. QueuedInv(k, c) /\ WrittenInv(k, c) /\ send'[c].queue = send[c].queue
  BY DEF OrderInv
<1>2. QueuedInv(k, c)'
  BY <1>1, NumbersCompare DEF QueuedInv, IsOf
<1>3. WrittenInv(k, c)'
  BY <1>1, NumbersCompare DEF WrittenInv, IsOf
<1> QED
  BY <1>2, <1>3

\* A connection that a step does not touch.
LEMMA OthersRest ==
    ASSUME NEW k, OrderInv(k), NEW c \in Clients, UNCHANGED last,
           pump'[c] = pump[c], seen'[c] = seen[c],
           send'[c].queue = send[c].queue
    PROVE  QueuedInv(k, c)' /\ WrittenInv(k, c)'
BY DEF OrderInv, QueuedInv, WrittenInv, IsOf

LEMMA OrderStep ==
    ASSUME TypeOK, NEW k \in Sources, OrderInv(k), OneAtATime(k)', [Next]_vars
    PROVE  OrderInv(k)'
<1>1. ASSUME UNCHANGED <<pump, seen, sender, last>>,
             \A c \in Clients : send'[c].queue = send[c].queue
      PROVE  OrderInv(k)'
  BY <1>1, EventsRest, NumbersCompare
  DEF OrderInv, NewestInv, Underway, IsOf
<1>2. ASSUME NEW c \in Clients, NEW t \in Topics,
             \/ Register(c) \/ JoinOwnTopic(c) \/ Join(c, t) \/ Leave(c, t)
             \/ ReadFails(c) \/ Close(c) \/ PeerVanishes(c)
      PROVE  OrderInv(k)'
  BY <1>1, <1>2
  DEF Register, JoinOwnTopic, Join, Leave, ReadFails, Close, PeerVanishes, ends
<1>3. ASSUME NEW c \in Clients, Unregister(c) PROVE OrderInv(k)'
  BY <1>1, <1>3, UnregisterQueues DEF Unregister, ends
<1>4. ASSUME NEW c \in Clients, NEW at \in {"waiting", "done"},
             pump' = [pump EXCEPT ![c] = Pump(at)],
             UNCHANGED <<send, seen, sender, last>>
      PROVE  OrderInv(k)'
  <2>1. pump'[c].at # "writing"
    BY <1>4 DEF Pump, TypeOK
  <2>2. \A d \in Clients \ {c} : pump'[d] = pump[d]
    BY <1>4 DEF TypeOK
  <2>3. \A d \in Clients \ {c} : QueuedInv(k, d)' /\ WrittenInv(k, d)'
    BY <1>4, <2>2, OthersRest
  <2>4. QueuedInv(k, c)' /\ WrittenInv(k, c)'
    BY <1>4, <2>1 DEF OrderInv, QueuedInv, WrittenInv, IsOf
  <2> QED
    BY <1>4, <2>3, <2>4 DEF OrderInv, NewestInv, Underway, IsOf
<1>5. ASSUME NEW c \in Clients, StartPump(c) \/ WriteFails(c) \/ StopPump(c)
      PROVE  OrderInv(k)'
  BY <1>4, <1>5 DEF StartPump, WriteFails, StopPump
<1>6. ASSUME NEW c \in Clients, TakeFrame(c) PROVE OrderInv(k)'
  <2> DEFINE q == send[c].queue
  <2>1. /\ q \in Seq(Frames) /\ q # << >>
        /\ \A d \in Clients :
             send'[d].queue = IF d = c THEN Tail(send[d].queue)
                                       ELSE send[d].queue
    BY <1>6, TakeFrameQueues DEF TakeFrame, TypeOK, Channels
  <2>2. pump'[c] = Writing(q[1])
    BY <1>6, <2>1 DEF TakeFrame, TypeOK
  <2>3. pump'[c].at = "writing" /\ pump'[c].frame = q[1]
    BY <2>2 DEF Writing
  <2>4. \A d \in Clients \ {c} : pump'[d] = pump[d]
    BY <1>6 DEF TakeFrame, TypeOK
  <2>5. \A d \in Clients \ {c} : QueuedInv(k, d)' /\ WrittenInv(k, d)'
    BY <1>6, <2>1, <2>4, OthersRest DEF TakeFrame
  <2>6. /\ Len(q) \in Nat /\ Len(q) >= 1
        /\ Len(send'[c].queue) = Len(q) - 1
        /\ \A i \in 1 .. Len(q) - 1 : send'[c].queue[i] = q[i + 1]
    BY <2>1, TailIndexes
  <2>7. QueuedInv(k, c)
    BY DEF OrderInv
  <2>8. UNCHANGED <<seen, last>>
    BY <1>6 DEF TakeFrame
  <2>9. WrittenInv(k, c)'
    BY <2>3, <2>6, <2>7, <2>8, NumbersCompare
    DEF OrderInv, QueuedInv, WrittenInv, IsOf
  <2>10. QueuedInv(k, c)'
    <3> SUFFICES ASSUME NEW i \in 1 .. Len(q) - 1, IsOf(k, q[i + 1])
                 PROVE  /\ seen[c][k] <= q[i + 1].n
                        /\ q[i + 1].n <= last[k]
                        /\ IsOf(k, q[1]) => q[1].n <= q[i + 1].n
                        /\ \A j \in 1 .. i : IsOf(k, q[j + 1]) =>
                             q[j + 1].n <= q[i + 1].n
      <4>1. \A i \in 1 .. Len(q) - 1 : \A j \in 1 .. i : j \in 1 .. Len(q) - 1
        BY <2>6
      <4> QED
        BY <2>3, <2>6, <2>8, <4>1 DEF QueuedInv, IsOf
    <3>1. i + 1 \in 1 .. Len(q) /\ 1 \in 1 .. i + 1
      BY <2>6
    <3>2. \A j \in 1 .. i : j + 1 \in 1 .. i + 1
      OBVIOUS
    <3> HIDE DEF q
    <3> QED
      BY <2>7, <3>1, <3>2 DEF QueuedInv, q
  <2>11. NewestInv(k)'
    BY <1>6 DEF TakeFrame, OrderInv, NewestInv, Underway, IsOf
  <2> QED
    BY <2>5, <2>9, <2>10, <2>11 DEF OrderInv
<1>7. ASSUME NEW c \in Clients, WriteMessage(c) PROVE OrderInv(k)'
  <2> DEFINE f == pump[c].frame
  <2>1. /\ pump[c].at = "writing" /\ pump'[c].at # "writing"
        /\ \A d \in Clients \ {c} : pump'[d] = pump[d]
    BY <1>7 DEF WriteMessage, Pump, TypeOK
  <2>2. f.source \in Sources
    BY <2>1, PumpFields, FrameFields DEF TypeOK
  <2>3. /\ \A d \in Clients \ {c} : seen'[d] = seen[d]
        /\ \/ seen'[c][k] = seen[c][k]
           \/ IsOf(k, f) /\ seen'[c][k] = f.n
    BY <1>7, <2>2 DEF WriteMessage, IsOf, TypeOK, Sources
  <2>4. \A d \in Clients \ {c} : QueuedInv(k, d)' /\ WrittenInv(k, d)'
    BY <1>7, <2>1, <2>3, OthersRest DEF WriteMessage
  <2>5. QueuedInv(k, c) /\ WrittenInv(k, c) /\ UNCHANGED <<send, last>>
    BY <1>7 DEF WriteMessage, OrderInv
  <2>6. WrittenInv(k, c)'
    BY <2>1, <2>3, <2>5 DEF WrittenInv
  <2>7. QueuedInv(k, c)'
    BY <2>1, <2>3, <2>5 DEF QueuedInv, IsOf
  <2>8. NewestInv(k)'
    BY <1>7 DEF WriteMessage, OrderInv, NewestInv, Underway, IsOf
  <2> QED
    BY <2>4, <2>6, <2>7, <2>8 DEF OrderInv
<1>8. ASSUME NEW s \in Senders, NEW source \in Sources, NEW w,
             Number(source), sender' = [sender EXCEPT ![s] = w],
             w.at # "idle", w.frame = Frame(source, last'[source]),
             UNCHANGED <<send, pump, seen>>
      PROVE  OrderInv(k)'
  <2>1. last[k] <= last'[k] /\ last'[k] \in Int
    BY <1>8, NumberTypes, CountsFrames DEF Numbers
  <2>2. /\ w.frame.source = source /\ w.frame.n = last'[source]
        /\ sender'[s] = w
        /\ \A r \in Senders \ {s} : sender'[r] = sender[r]
    BY <1>8 DEF Frame, TypeOK
  <2>3. CASE source = k
    <3>1. Underway(k, s)'
      BY <1>8, <2>2, <2>3 DEF Underway, IsOf
    <3>2. \A r \in Senders : Underway(k, r)' => r = s
      BY <3>1 DEF OneAtATime
    <3>3. NewestInv(k)'
      BY <2>2, <2>3, <3>2 DEF NewestInv
    <3> QED
      BY <1>8, <2>1, <3>3, EventsRest DEF OrderInv
  <2>4. CASE source # k
    <3>1. last'[k] = last[k]
      BY <1>8, <2>4 DEF Number, TypeOK
    <3>2. NewestInv(k)'
      BY <2>2, <2>4, <3>1 DEF OrderInv, NewestInv, Underway, IsOf
    <3> QED
      BY <1>8, <2>1, <3>2, EventsRest DEF OrderInv
  <2> QED
    BY <2>3, <2>4
<1>9. ASSUME NEW s \in Senders, NEW to,
             Dispatch(s, to) \/ SaveMessage(s, to)
      PROVE  OrderInv(k)'
  <2>1. "event" \in Sources /\ "chat" \in Sources
    BY DEF Sources
  <2>2. CASE Dispatch(s, to)
    <3> DEFINE f == Frame("event", last'["event"])
               w == Sending(f, rooms[to])
    <3>1. w.at # "idle" /\ w.frame = f
      BY DEF Sending
    <3>2. /\ Number("event") /\ sender' = [sender EXCEPT ![s] = w]
          /\ UNCHANGED <<send, pump, seen>>
      BY <2>2 DEF Dispatch, ends
    <3> HIDE DEF w
    <3> QED
      BY <1>8, <2>1, <3>1, <3>2
  <2>3. CASE SaveMessage(s, to)
    <3> DEFINE f == Frame("chat", last'["chat"])
               w == Saved(f, to)
    <3>1. w.at # "idle" /\ w.frame = f
      BY DEF Saved
    <3>2. /\ Number("chat") /\ sender' = [sender EXCEPT ![s] = w]
          /\ UNCHANGED <<send, pump, seen>>
      BY <2>3 DEF SaveMessage, ends
    <3> HIDE DEF w
    <3> QED
      BY <1>8, <2>1, <3>1, <3>2
  <2> QED
    BY <1>9, <2>2, <2>3
<1>10. ASSUME NEW s \in Senders, NEW w,
              sender' = [sender EXCEPT ![s] = w], UNCHANGED last,
              w.at # "idle" => sender[s].at # "idle" /\ w.frame = sender[s].frame
       PROVE  NewestInv(k)'
  BY <1>10 DEF OrderInv, NewestInv, Underway, IsOf, TypeOK
<1>11. ASSUME NEW s \in Senders, SendToUsers(s) PROVE OrderInv(k)'
  <2> DEFINE w == Sending(sender[s].frame,
                          {c \in clients : UserOf[c] \in sender[s].users})
  <2>1. w.frame = sender[s].frame /\ sender[s].at # "idle"
    BY <1>11 DEF SendToUsers, Sending
  <2>2. /\ sender' = [sender EXCEPT ![s] = w]
        /\ UNCHANGED <<send, pump, seen, last>>
    BY <1>11 DEF SendToUsers, ends
  <2> HIDE DEF w
  <2>3. NewestInv(k)'
    BY <1>10, <2>1, <2>2
  <2> QED
    BY <2>2, <2>3, EventsRest, NumbersCompare DEF OrderInv
<1>12. ASSUME NEW s \in Senders, NEW c \in Clients, TrySend(s, c)
       PROVE  OrderInv(k)'
  <2> DEFINE w == Sending(sender[s].frame, sender[s].left \ {c})
             f == sender[s].frame
             q == send[c].queue
  <2>1. /\ sender' = [sender EXCEPT ![s] = w] /\ sender[s].at # "idle"
        /\ UNCHANGED <<pump, seen, last>> /\ f \in Frames
    BY <1>12, HandedTypes DEF TrySend, Handed, ends
  <2>2. w.frame = f
    BY DEF Sending
  <2> HIDE DEF w
  <2>3. NewestInv(k)'
    BY <1>10, <2>1, <2>2
  <2>4. IsOf(k, f) => f.n = last[k]
    BY <2>1 DEF OrderInv, NewestInv, Underway
  <2>5. ASSUME NEW d \in Clients, send'[d].queue = send[d].queue
        PROVE  QueuedInv(k, d)' /\ WrittenInv(k, d)'
    BY <2>1, <2>5, OthersRest
  <2>6. ASSUME send'[c].queue = Append(q, f)
        PROVE  QueuedInv(k, c)' /\ WrittenInv(k, c)'
    <3>1. QueuedInv(k, c) /\ WrittenInv(k, c)
      BY DEF OrderInv
    <3>2. q \in Seq(Frames)
      BY DEF TypeOK, Channels
    <3>3. /\ Len(q) \in Nat /\ Len(send'[c].queue) = Len(q) + 1
          /\ \A i \in 1 .. Len(q) : send'[c].queue[i] = q[i]
          /\ send'[c].queue[Len(q) + 1] = f
      BY <2>1, <2>6, <3>2, AppendIndexes
    <3>4. f.n \in Int
      BY <2>1, FrameFields, CountsFrames
    <3>5. WrittenInv(k, c)'
      BY <2>1, <3>1 DEF WrittenInv
    <3>6. ASSUME NEW i \in 1 .. Len(q), IsOf(k, q[i])
          PROVE  /\ seen[c][k] <= q[i].n /\ q[i].n <= last[k]
                 /\ pump[c].at = "writing" /\ IsOf(k, pump[c].frame) =>
                      pump[c].frame.n <= q[i].n
                 /\ \A j \in 1 .. i : IsOf(k, send'[c].queue[j]) =>
                      send'[c].queue[j].n <= q[i].n
      <4>1. \A j \in 1 .. i : j \in 1 .. Len(q)
        BY <3>3
      <4> QED
        BY <3>1, <3>3, <3>6, <4>1 DEF QueuedInv
    <3>7. ASSUME IsOf(k, f)
          PROVE  /\ seen[c][k] <= f.n /\ f.n <= last[k]
                 /\ pump[c].at = "writing" /\ IsOf(k, pump[c].frame) =>
                      pump[c].frame.n <= f.n
                 /\ \A j \in 1 .. Len(q) : IsOf(k, q[j]) => q[j].n <= f.n
      BY <2>4, <3>1, <3>4, <3>7, NumbersCompare DEF QueuedInv, WrittenInv
    <3>8. ASSUME NEW i \in 1 .. Len(q) + 1
          PROVE  i \in 1 .. Len(q) \/ i = Len(q) + 1
      BY <3>3
    <3>9. QueuedInv(k, c)'
      <4> DEFINE p == send'[c].queue
      <4> SUFFICES ASSUME NEW i \in 1 .. Len(q) + 1, IsOf(k, p[i])
                   PROVE  /\ seen[c][k] <= p[i].n
                          /\ p[i].n <= last[k]
                          /\ pump[c].at = "writing" /\ IsOf(k, pump[c].frame) =>
                               pump[c].frame.n <= p[i].n
                          /\ \A j \in 1 .. i : IsOf(k, p[j]) => p[j].n <= p[i].n
        BY <2>1, <3>3 DEF QueuedInv, IsOf
      <4>1. CASE i \in 1 .. Len(q)
        BY <3>3, <3>6, <4>1
      <4>2. CASE i = Len(q) + 1
        <5>1. p[i] = f /\ IsOf(k, f)
          BY <3>3, <4>2
        <5>2. \A j \in 1 .. i : j \in 1 .. Len(q) \/ p[j] = f
          BY <3>3, <4>2
        <5>3. ASSUME NEW j \in 1 .. i, IsOf(k, p[j]) PROVE p[j].n <= f.n
          <6>1. CASE p[j] = f
            BY <3>4, <6>1
          <6>2. CASE j \in 1 .. Len(q)
            <7>1. p[j] = q[j] /\ IsOf(k, q[j])
              BY <3>3, <5>3, <6>2
            <7> QED
              BY <3>7, <5>1, <6>2, <7>1
          <6> QED
            BY <5>2, <6>1, <6>2
        <5>4. /\ seen[c][k] <= f.n /\ f.n <= last[k]
              /\ pump[c].at = "writing" /\ IsOf(k, pump[c].frame) =>
                   pump[c].frame.n <= f.n
          BY <3>7, <5>1
        <5> HIDE DEF p
        <5> QED
          BY <5>1, <5>3, <5>4
      <4> QED
        BY <3>8, <4>1, <4>2
    <3> QED
      BY <3>5, <3>9
  <2>7. \A d \in Clients : QueuedInv(k, d)' /\ WrittenInv(k, d)'
    BY <1>12, <2>5, <2>6, TrySendQueues
  <2> QED
    BY <2>3, <2>7 DEF OrderInv
<1>13. ASSUME NEW s \in Senders, FinishSend(s) PROVE OrderInv(k)'
  <2>1. NewestInv(k)'
    <3>1. Idle.at = "idle"
      BY DEF Idle
    <3> QED
      BY <1>10, <1>13, <3>1 DEF FinishSend
  <2>2. UNCHANGED <<send, pump, seen, last>>
    BY <1>13 DEF FinishSend, ends
  <2> QED
    BY <2>1, <2>2, EventsRest, NumbersCompare DEF OrderInv
<1>14. CASE UNCHANGED vars
  BY <1>1, <1>14 DEF vars, ends
<1>15. ASSUME NEW c \in Clients, ReaderNext(c) PROVE OrderInv(k)'
  <2>1. \E t \in Topics : TRUE
    BY OwnTopics
  <2> QED
    BY <1>2, <1>3, <1>5, <1>15, <2>1 DEF ReaderNext
<1>16. ASSUME NEW c \in Clients, PumpNext(c) \/ PeerVanishes(c) PROVE OrderInv(k)'
  <2>1. \E t \in Topics : TRUE
    BY OwnTopics
  <2> QED
    BY <1>2, <1>5, <1>6, <1>7, <1>16, <2>1 DEF PumpNext
<1>17. ASSUME NEW s \in Senders, SendNext(s) PROVE OrderInv(k)'
  BY <1>9, <1>11, <1>12, <1>13, <1>17 DEF SendNext
<1> QED
  BY <1>14, <1>15, <1>16, <1>17 DEF Next

LEMMA OrderInit ==
    ASSUME Init, NEW k \in Sources PROVE OrderInv(k)
BY CountsFrames
DEF Init, OrderInv, NewestInv, QueuedInv, WrittenInv, Underway, IsOf, Idle, Pump

\* What is written to a peer is no older than what it has seen.
LEMMA SeenGrows ==
    ASSUME TypeOK, NEW k \in Sources, OrderInv(k), Next, NEW c \in Clients
    PROVE  seen'[c][k] >= seen[c][k]
<1>1. CASE UNCHANGED seen
  BY <1>1, NumbersCompare
<1>2. ASSUME NEW d \in Clients, WriteMessage(d)
      PROVE  seen'[c][k] >= seen[c][k]
  <2>1. pump[d].frame.source \in Sources /\ pump[d].at = "writing"
    BY <1>2, PumpFields, FrameFields DEF WriteMessage, TypeOK
  <2>2. \/ seen'[c][k] = seen[c][k]
        \/ /\ c = d /\ IsOf(k, pump[d].frame)
           /\ seen'[c][k] = pump[d].frame.n
    BY <1>2, <2>1 DEF WriteMessage, IsOf, TypeOK
  <2> QED
    BY <2>1, <2>2, NumbersCompare DEF OrderInv, WrittenInv
<1> QED
  BY <1>1, <1>2
  DEF Next, ReaderNext, PumpNext, SendNext, Register, JoinOwnTopic,
      StartPump, Join, Leave, ReadFails, Unregister, Close, TakeFrame,
      WriteFails, StopPump, PeerVanishes, Dispatch, SaveMessage,
      SendToUsers, TrySend, Handed, FinishSend, ends

\* Only the dispatcher sends events.
DispatcherInv == \A s \in Senders : Underway("event", s) => s = Dispatcher

LEMMA OneDispatcher == Spec => []OneAtATime("event")
<1>1. Init => DispatcherInv
  BY DEF Init, DispatcherInv, Underway, Idle
<1>2. TypeOK /\ DispatcherInv /\ [Next]_vars => DispatcherInv'
  <2> SUFFICES ASSUME TypeOK, DispatcherInv, [Next]_vars
               PROVE  DispatcherInv'
    OBVIOUS
  <2>1. CASE UNCHANGED sender
    BY <2>1 DEF DispatcherInv, Underway, IsOf
  <2>2. ASSUME NEW s \in Senders, NEW w,
               sender' = [sender EXCEPT ![s] = w],
               w.at # "idle" /\ IsOf("event", w.frame) =>
                 Underway("event", s) \/ s = Dispatcher
        PROVE  DispatcherInv'
    BY <2>2 DEF DispatcherInv, Underway, IsOf, TypeOK
  <2>3. /\ \A f, x : /\ Sending(f, x).at = "sending"
                     /\ Sending(f, x).frame = f
                     /\ Saved(f, x).at = "saved" /\ Saved(f, x).frame = f
        /\ Idle.at = "idle" /\ ~IsOf("event", Frame("chat", last'["chat"]))
    BY DEF Sending, Saved, Idle, Frame, IsOf
  <2>4. ASSUME NEW s \in Senders, SendNext(s) PROVE DispatcherInv'
    <3>1. ASSUME NEW t \in Topics, Dispatch(s, t) PROVE DispatcherInv'
      BY <2>2, <3>1 DEF Dispatch
    <3>2. ASSUME NEW users \in Conversations, SaveMessage(s, users)
          PROVE  DispatcherInv'
      <4> DEFINE w == Saved(Frame("chat", last'["chat"]), users)
      <4>1. ~IsOf("event", w.frame)
        BY <2>3
      <4>2. sender' = [sender EXCEPT ![s] = w]
        BY <3>2 DEF SaveMessage
      <4> HIDE DEF w
      <4> QED
        BY <2>2, <4>1, <4>2
    <3>3. CASE SendToUsers(s)
      <4>1. sender[s].at # "idle"
        BY <3>3 DEF SendToUsers
      <4> QED
        BY <2>2, <2>3, <3>3, <4>1 DEF SendToUsers, Underway
    <3>4. ASSUME NEW c \in Clients, TrySend(s, c) PROVE DispatcherInv'
      <4> DEFINE w == Sending(sender[s].frame, sender[s].left \ {c})
      <4>1. /\ sender[s].at # "idle"
            /\ sender' = [sender EXCEPT ![s] = w]
        BY <3>4, HandedTypes DEF TrySend, Handed
      <4>2. w.frame = sender[s].frame
        BY <2>3
      <4> HIDE DEF w
      <4> QED
        BY <2>2, <4>1, <4>2 DEF Underway
    <3>5. CASE FinishSend(s)
      BY <2>2, <2>3, <3>5 DEF FinishSend
    <3> QED
      BY <2>4, <3>1, <3>2, <3>3, <3>4, <3>5 DEF SendNext
  <2> QED
    BY <2>1, <2>4
    DEF Next, ReaderNext, PumpNext, Register, JoinOwnTopic, StartPump, Join,
        Leave, ReadFails, Unregister, Close, TakeFrame, WriteMessage,
        WriteFails, StopPump, PeerVanishes, vars
<1>3. DispatcherInv => OneAtATime("event")
  BY DEF DispatcherInv, OneAtATime
<1> QED
  BY <1>1, <1>2, <1>3, TypeCorrect, PTL DEF Spec

(***************************************************************************)
(* Events reach a peer in order: only the dispatcher numbers and sends     *)
(* them, one after the other, and a queue keeps their order.               *)
(***************************************************************************)
THEOREM EventsStayInOrder == Spec => EventsInOrder
<1>0. "event" \in Sources
  BY DEF Sources
<1>1. Init => OrderInv("event")
  BY <1>0, OrderInit
<1>2. TypeOK /\ OrderInv("event") /\ OneAtATime("event")' /\ [Next]_vars
        => OrderInv("event")'
  BY <1>0, OrderStep
<1>3. TypeOK /\ OrderInv("event") /\ [Next]_vars
        => [\A c \in Clients : seen'[c]["event"] >= seen[c]["event"]]_vars
  BY <1>0, SeenGrows
<1> QED
  BY <1>1, <1>2, <1>3, OneDispatcher, TypeCorrect, PTL DEF Spec, EventsInOrder

(***************************************************************************)
(* Chat messages may arrive the other way round (ChatInOrder has a         *)
(* counterexample), but only because a second message was saved while the  *)
(* first one was still being sent: as long as this does not happen, their  *)
(* order is kept as well, also past full queues.                           *)
(***************************************************************************)
THEOREM LoneChatStaysInOrder == Spec /\ []OneAtATime("chat") => ChatInOrder
<1>0. "chat" \in Sources
  BY DEF Sources
<1>1. Init => OrderInv("chat")
  BY <1>0, OrderInit
<1>2. TypeOK /\ OrderInv("chat") /\ OneAtATime("chat")' /\ [Next]_vars
        => OrderInv("chat")'
  BY <1>0, OrderStep
<1>3. TypeOK /\ OrderInv("chat") /\ [Next]_vars
        => [\A c \in Clients : seen'[c]["chat"] >= seen[c]["chat"]]_vars
  BY <1>0, SeenGrows
<1> QED
  BY <1>1, <1>2, <1>3, TypeCorrect, PTL DEF Spec, ChatInOrder
=============================================================================
