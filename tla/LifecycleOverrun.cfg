\* An accept that takes longer than the lock's TTL.
SPECIFICATION Spec
CONSTANTS
    Agents = {a1, a2}
    Conversations = {c1}
    Requests = {r1, r2, r3, r4, r5}
    NoAgent = NoAgent
    NoJob = NoJob
    Free = Free
    HolderMayOverrun = TRUE
SYMMETRY Symmetry
PROPERTIES NoHandOver
CHECK_DEADLOCK FALSE
