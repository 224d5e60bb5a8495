SPECIFICATION Spec
CONSTANTS
    MaxSurfaces = 4
    DpbSizes = {1, 2}
    KeptStamps = 2
    Reorder = 2
    MaxBuffers = 5
INVARIANT TypeOK
INVARIANT SurfaceExclusive
INVARIANT OwnPixels
INVARIANT OwnStamp
INVARIANT NeverRunsOut
CHECK_DEADLOCK FALSE
