\* A message by either provider: three attempts, a stall, a retry by hand, and
\* two receipts at once.
SPECIFICATION FairSpec
CONSTANTS
    Messages = {m1}
    Pids = {p1, p2, p3}
    Handlers = {h1, h2}
    NoMessage = NoMessage
    NoPid = NoPid
    MaxAttempts = 3
    MaxManualRetries = 1

INVARIANTS TypeOK StatusIsTrue CompletedIsSent CopiesAreAccounted
PROPERTIES JobsEnd
\* The system stops when every message is sent or given up.
CHECK_DEADLOCK FALSE
