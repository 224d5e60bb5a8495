SPECIFICATION FairSpec
CONSTANTS
    RingWords = 20
    MsgWords = 8
    Empty = Empty
    Batch = 3
    BitstreamSlices = 4
    MaxPictures = 2
    MaxCareless = 2
    Callers = {TRUE}
INVARIANT TypeOK
PROPERTY FlushEnds
PROPERTY ExecutesInOrder
CHECK_DEADLOCK FALSE
