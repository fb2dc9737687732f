SPECIFICATION FairSpec
CONSTANTS
    Images = {"v1", "v2"}
    StoreTLS = "custom"
    Pods = {p1, p2}
    Envs <- MCEnvs
    Replicas = 1
    FailureThreshold = 2
INVARIANTS
    TypeOK
    ServesSoundly
PROPERTIES
    AvailabilityKept
    RejoinsAlone
    Recovers
    PageLoads
