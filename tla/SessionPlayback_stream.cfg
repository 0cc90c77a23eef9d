SPECIFICATION FairSpec
CONSTANTS
    Clients = {c1}
    None = None
    Eos = Eos
    Length = 2
    Capacity = 1
    MaxRequests = 3
INVARIANTS OnePlayback FramesInOrder
PROPERTIES PlaybackEnds EndTold
CHECK_DEADLOCK FALSE
