\* Five requests on one conversation, every accept done within the lock's TTL.
SPECIFICATION Spec
CONSTANTS
    Agents = {a1, a2}
    Conversations = {c1}
    Requests = {r1, r2, r3, r4, r5}
    NoAgent = NoAgent
    NoJob = NoJob
    Free = Free
    HolderMayOverrun = FALSE
SYMMETRY Symmetry
INVARIANTS TypeOK AcceptHoldsLock TrailNamesHolder
    CompletedIsMeasured CreditIsEarned ReportsAgree
PROPERTIES NoHandOver
\* Requests are served once: the system stops when all are.
CHECK_DEADLOCK FALSE
