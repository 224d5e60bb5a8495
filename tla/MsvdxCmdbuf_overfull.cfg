SPECIFICATION Spec
CONSTANTS
    RingWords = 44
    MsgWords = 8
    Empty = Empty
    Batch = 2
    BitstreamSlices = 3
    MaxPictures = 2
    MaxCareless = 2
    Callers = {FALSE}
INVARIANT EndSendsEverything
CHECK_DEADLOCK FALSE
