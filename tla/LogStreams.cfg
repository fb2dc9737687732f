\* One view restarted, or two views; slow readers and a silent proxy.
CONSTANTS
    Streams = {s1, s2}
    MaxDuration = 1
    MaxStreamBytes = 2
    ReadSize = 2
    Window = 1
    NoStream = NoStream
SPECIFICATION FairSpec
INVARIANTS
    TypeOK
    StreamBounded
    NoOrphanUpstream
    CurrentStreamOnly
    OneStreamPerView
PROPERTIES
    ImplementsLog
    CancelReachesUpstream
    StreamingEnds
CHECK_DEADLOCK FALSE
