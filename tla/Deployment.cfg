CONSTANTS
    r1 = r1  r2 = r2
    Requests <- SomeRequests
    CancelPoints <- Awaits
    Configurations <- ThreeMistakes
    HostLists <- WrittenLists
SPECIFICATION DeploymentSpec
INVARIANTS
    TypeOK
    ClosedUnlessCut
    RequestsFindServices
    CookieIsKept
    HealthcheckAgrees
PROPERTIES
    ClosedInReverse
    LifespanSettles
    AllAtOnce
    CorrectionsHelp
