\* Limits of 2 lines and 3 bytes.
CONSTANTS
    Null = Null
    Absent = Absent
    Malformed = Malformed
    DefaultTailLines = 1
    MaxTailLines = 2
    DefaultLimitBytes = 1
    MaxLimitBytes = 3
    AskedNumbers <- MCNumbers
    PodSpecs <- MCPodSpecs
    Reported <- MCReported
SPECIFICATION Spec
INVARIANTS
    WireTyped
    TablesRender
    ReadyIsAllReady
    EveryContainerListed
    LogsBounded
