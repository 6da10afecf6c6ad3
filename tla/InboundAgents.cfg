\* The queue's worker, and two calls of agents at once.
SPECIFICATION Spec
CONSTANTS
    d1 = d1
    d2 = d2
    d3 = d3
    m1 = m1
    m2 = m2
    m3 = m3
    k1 = k1
    k2 = k2
    Contacts = {k1, k2}
    Mids = {m1, m2, m3}
    Deliveries = {d1, d2, d3}
    Payload <- Thrice
    Calls = {c1, c2}
    Concurrency = 1
    MaxAttempts = 1
SYMMETRY Symmetry
INVARIANTS OneOpenConversation
\* The system stops when every delivery has been processed.
CHECK_DEADLOCK FALSE
