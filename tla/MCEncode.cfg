CONSTANTS
    Streams <- MCStreams
    Batch = 16
    Surface = {s1, s2, s3, s4}
SYMMETRY Interchangeable
SPECIFICATION Spec
INVARIANT TypeOK
INVARIANT FirmwareFollows
INVARIANT DataIsWhole
INVARIANT CommandsThenRecords
INVARIANT ReferencesResolve
INVARIANT MotionIsTheirs
CHECK_DEADLOCK FALSE
