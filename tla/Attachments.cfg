\* Requests of every kind, two of which may create, and one death of the server.
SPECIFICATION Spec
CONSTANTS
    Attachments = {f1, f2, f3}
    Requests = {r1, r2, r3, r4}
    MaxCrashes = 1
SYMMETRY Symmetry
INVARIANTS TypeOK RowHasFile OrphanHasCause BrokenDownloadHasCause
\* Requests are served once: the system stops when all are.
CHECK_DEADLOCK FALSE
