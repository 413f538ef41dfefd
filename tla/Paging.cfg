CONSTANTS
    Keys = {1, 2, 3, 4}
    Mine = {1, 2, 3}
    Limit = 2
    Queries = {"page", "get_page"}
    MaxClock = 2
SPECIFICATION Spec
INVARIANTS
    TypeOK
    SkipsAreDeletions
    RepeatsAreInsertions
CHECK_DEADLOCK FALSE
