SPECIFICATION Spec
CONSTANTS
    Surfaces = 2
    DevBlocks = 24
    MaxAreas = 16
    MaxUnmapped = 2
    None = None
INVARIANT TypeOK
INVARIANT MmuPointsHome
INVARIANT BusyIsThereUnlessLeft
INVARIANT AreasAccounted
CHECK_DEADLOCK FALSE
