SPECIFICATION Spec
CONSTANTS
    RingWords = 100
    MsgWords = 8
    Empty = Empty
    Batch = 16
    BitstreamSlices = 16
    MaxPictures = 1
    MaxCareless = 1
    Callers = {FALSE}
INVARIANT EndMeansExecuted
CHECK_DEADLOCK FALSE
