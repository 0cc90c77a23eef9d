SPECIFICATION Spec
CONSTANTS
    NoMemory = NoMemory
    Memories = {m1, m2}
    Episode = {}
    MaxEvents = 3
    MaxOutages = 0
    MaxSyncs = 3
    MaxLives = 1
INVARIANT ConfirmMovesPrior
CHECK_DEADLOCK FALSE
