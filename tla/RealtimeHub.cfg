SPECIFICATION FairSpec
CONSTANTS
    c1 = c1
    c2 = c2
    u1 = u1
    u2 = u2
    t1 = t1
    Clients = {c1, c2}
    Topics = {t1}
    OwnTopic <- MCOwnTopic
    UserOf <- MCUserOf
    Conversations <- MCConversations
    Dispatcher = s0
    Senders = {s0, s1}
    Buffer = 1
    MaxFrames = 2
INVARIANTS TypeOK NoPanic
PROPERTIES EventsInOrder DeadConnectionsLeave
CONSTRAINT SecondLasts
CHECK_DEADLOCK FALSE
