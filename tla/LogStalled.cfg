\* The browser stops reading.
CONSTANTS
    Streams = {s1, s2}
    MaxDuration = 1
    MaxStreamBytes = 2
    ReadSize = 1
    Window = 1
    NoStream = NoStream
SPECIFICATION Spec
SYMMETRY Symmetry
INVARIANTS
    HandlerBounded
CHECK_DEADLOCK FALSE
