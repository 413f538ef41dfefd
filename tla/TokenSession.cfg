CONSTANTS
    r1 = r1  r2 = r2
    l1 = l1  l2 = l2
    NoToken = NoToken
    Keep = Keep
    Logins <- TwoLogins
    Requests <- TwoRequests
    MaxToken = 3
    MaxIssued = 3
    MaxLate = 1
SPECIFICATION Spec
CONSTRAINT FewIssued
SYMMETRY Symmetry
INVARIANTS
    TypeOK
    UnauthorizedIsFinal
    LoginLasts
    LogoutLasts
