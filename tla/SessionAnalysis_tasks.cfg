SPECIFICATION FairSpec
CONSTANTS
    Replays = {r1}
    None = None
    Length = 2
    Window = 1
    Hop = 1
    BusSize = 1
    MaxRequests = 2
INVARIANTS ScoredOnce NoCycleLeft
PROPERTIES DeletedEnds FirstRunScored
CHECK_DEADLOCK FALSE
