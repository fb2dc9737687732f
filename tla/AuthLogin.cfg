\* Two browsers and two callbacks at a time over two logins; no store faults.
CONSTANTS
    States = {t1, t2}
    Sids = {s1, s2}
    Codes = {c1, c2}
    Browsers = {b1, b2}
    Replicas = {p1}
    Requests = {r1, r2}
    MaxKey = 0
    Faults = FALSE
    LoginTTL = 2
    CodeTTL = 1
    TokenTTL = 1
    MaxTime = 2
    MaxDelay = 0
    IdPChecksPKCE = FALSE
    NoBrowser = NoBrowser
    NoState = NoState
    NoSid = NoSid
    NoCode = NoCode
SPECIFICATION Spec
SYMMETRY Symmetry
INVARIANTS
    TypeOK
    OneUse
    BoundToBrowser
    BoundToToken
    NothingLeftToDelete
PROPERTIES
    OnlyItsBrowserRedeems
