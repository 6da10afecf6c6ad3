\* Two sockets of one agent, one of another, two conversations.
SPECIFICATION FairSpec
CONSTANTS
    s1 = s1
    s2 = s2
    s3 = s3
    a1 = a1
    a2 = a2
    Sockets = {s1, s2, s3}
    Agents = {a1, a2}
    Conversations = {c1, c2}
    AgentOf <- TwoAndOne
    NoAgent = NoAgent
    NoSocket = NoSocket
INVARIANTS TypeOK NoPhantomSession
PROPERTIES GoneAgentReleased
