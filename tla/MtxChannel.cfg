SPECIFICATION FairSpec
CONSTANTS
    RingWords = 100
    MsgWords = 8
    Empty = 0
    Windows = {11, 16}
    MaxMessage = 30
INVARIANT TypeOK
PROPERTY TakenInOrder
PROPERTY IsQueue
PROPERTY SentIsTaken
CHECK_DEADLOCK FALSE
