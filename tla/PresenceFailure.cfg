\* A statement of handleDisconnect fails, or its server dies.
SPECIFICATION FairSpec
CONSTANTS
    s1 = s1
    s2 = s2
    s3 = s3
    a1 = a1
    a2 = a2
    Sockets = {s1, s2, s3}
    Agents = {a1, a2}
    Conversations = {c1, c2}
    AgentOf <- TwoAndOne
    NoAgent = NoAgent
    NoSocket = NoSocket
PROPERTIES GoneAgentLetsGo
