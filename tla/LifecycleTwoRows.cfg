\* Two conversations; every request and every lock ends.  No symmetry: liveness.
SPECIFICATION FairSpec
CONSTANTS
    Agents = {a1, a2}
    Conversations = {c1, c2}
    Requests = {r1, r2, r3}
    NoAgent = NoAgent
    NoJob = NoJob
    Free = Free
    HolderMayOverrun = FALSE
PROPERTIES ImplementsAssignment LocksAreFreed RequestsEnd
\* Requests are served once: the system stops when all are.
CHECK_DEADLOCK FALSE
