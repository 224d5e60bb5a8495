SPECIFICATION Spec
CONSTANTS
    RingWords = 60
    MsgWords = 8
    Empty = Empty
    Batch = 6
    BitstreamSlices = 2
    MaxPictures = 5
    MaxCareless = 3
    Callers = {TRUE, FALSE}
INVARIANT OwnData
PROPERTY ImplementsApi
CHECK_DEADLOCK FALSE
