\* The queue's workers in two server processes, one call of an agent at a time.
\* Two attempts: the queue has three, and a second is already a retry.
SPECIFICATION FairSpec
CONSTANTS
    d1 = d1
    d2 = d2
    d3 = d3
    m1 = m1
    m2 = m2
    m3 = m3
    k1 = k1
    k2 = k2
    Contacts = {k1, k2}
    Mids = {m1, m2, m3}
    Deliveries = {d1, d2}
    Payload <- Queued
    Calls = {c1}
    Concurrency = 2
    MaxAttempts = 2
INVARIANTS TypeOK PassedIsStored
PROPERTIES MessageReopens DeliveriesEnd
\* The system stops when every delivery has been processed.
CHECK_DEADLOCK FALSE
