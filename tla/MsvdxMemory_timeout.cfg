SPECIFICATION Spec
CONSTANTS
    Surfaces = 2
    DevBlocks = 24
    MaxAreas = 18
    MaxUnmapped = 1
    None = None
INVARIANT BusyIsThere
CHECK_DEADLOCK FALSE
