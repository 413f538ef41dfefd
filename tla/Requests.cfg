CONSTANTS
    NoToken = NoToken
    NoLength = NoLength
    NoRequest = NoRequest
    NoResponse = NoResponse
    NoException = NoException
    MaxFlaws = 2
    MaxBodySize = 2
    MaxSize = 3
SPECIFICATION Spec
INVARIANTS
    TypeOK
    OneAnswer
    ErrorsAreUniform
    LimitHolds
    OnlyGoodTokens
    RefusalsHaveTheirCause
