CONSTANTS
    r1 = r1  r2 = r2  r3 = r3
    Requests <- SomeRequests
    CancelPoints = {"db_check"}
SPECIFICATION Spec
INVARIANTS
    EverythingIsClosed
