\* One browser; a store and a provider whose calls fail, applied or not; a
\* replica that is rolled to a new encryption key.
CONSTANTS
    States = {t1, t2}
    Sids = {s1, s2}
    Codes = {c1, c2}
    Browsers = {b1}
    Replicas = {p1}
    Requests = {r1, r2}
    MaxKey = 1
    Faults = TRUE
    LoginTTL = 2
    CodeTTL = 1
    TokenTTL = 1
    MaxTime = 2
    MaxDelay = 1
    IdPChecksPKCE = TRUE
    NoBrowser = NoBrowser
    NoState = NoState
    NoSid = NoSid
    NoCode = NoCode
SPECIFICATION Spec
SYMMETRY Symmetry
INVARIANTS
    LifetimeBounded
    LogoutMeansDeleted
PROPERTIES
    OnlyItsPageLogsOut
    ImplementsLedger
