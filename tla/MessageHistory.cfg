\* Two POSTs, two calls at once, and a client reading by pages.
SPECIFICATION Spec
CONSTANTS
    Agents = {a1, a2}
    Posts = {p1, p2}
    Calls = {c1, c2}
    NoAgent = NoAgent
    Limit = 2
    MaxInbound = 1
    MaxMoves = 2
    MaxTime = 1
SYMMETRY Symmetry
INVARIANTS TypeOK SenderHeldIt AnsweredHasTime LateReplyIsNotFirst
    PagesDescend SkippedSharesTime EventsComplete
\* POSTs are served once: the system stops when all are and all is read.
CHECK_DEADLOCK FALSE
