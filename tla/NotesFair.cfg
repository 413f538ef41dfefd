CONSTANTS
    r1 = r1  r2 = r2  r3 = r3
    n1 = n1  n2 = n2
    alice = alice  bob = bob
    NoRow = NoRow
    NoWrite = NoWrite
    NoOp = NoOp
    Seed = Seed
    Requests <- ThreeRequests
    RowIds <- OneNote
    Users <- OneUser
    PoolSize = 2
    Kinds = {"delete", "ready"}
SPECIFICATION FairSpec
PROPERTIES
    RequestsEnd
