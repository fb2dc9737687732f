\* A view that was restarted is left.
CONSTANTS
    Streams = {s1, s2}
    MaxDuration = 1
    MaxStreamBytes = 1
    ReadSize = 1
    Window = 1
    NoStream = NoStream
SPECIFICATION Spec
SYMMETRY Symmetry
INVARIANTS
    LeavingStops
CHECK_DEADLOCK FALSE
