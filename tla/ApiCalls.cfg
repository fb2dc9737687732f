SPECIFICATION FairSpec
CONSTANTS
    Replicas = {p1}
    Requests = {r1, r2}
    Sids = {s1}
    NoSid = NoSid
    None = None
    CallTimeout = 2
    DrainTimeout = 3
    MaxBody = 1
INVARIANTS
    TypeOK
    TokenUseBounded
    OutcomePreserved
PROPERTIES
    CallsDrained
    Answered
    ShutdownCompletes
