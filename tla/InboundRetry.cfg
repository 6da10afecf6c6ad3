\* Two messages in a payload with a status between them, three attempts.
SPECIFICATION Spec
CONSTANTS
    d1 = d1
    d2 = d2
    d3 = d3
    m1 = m1
    m2 = m2
    m3 = m3
    k1 = k1
    k2 = k2
    Contacts = {k1, k2}
    Mids = {m1, m2, m3}
    Deliveries = {d1}
    Payload <- Mixed
    Calls = {}
    Concurrency = 1
    MaxAttempts = 3
INVARIANTS RetryRecovers
\* The system stops when every delivery has been processed.
CHECK_DEADLOCK FALSE
