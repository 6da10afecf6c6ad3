\* Checks and writes of release, complete, reopen and releaseByAgent are apart.
SPECIFICATION Spec
CONSTANTS
    Agents = {a1, a2}
    Conversations = {c1}
    Requests = {r1, r2, r3, r4, r5}
    NoAgent = NoAgent
    NoJob = NoJob
    Free = Free
    HolderMayOverrun = FALSE
SYMMETRY Symmetry
PROPERTIES OnlyHolderEnds
CHECK_DEADLOCK FALSE
