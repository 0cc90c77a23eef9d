SPECIFICATION Spec
CONSTANTS
    NoMemory = NoMemory
    Memories = {m1, m2}
    Episode = {m1, m2}
    MaxEvents = 2
    MaxOutages = 2
    MaxSyncs = 2
    MaxLives = 2
INVARIANTS EventsKept EpisodeLearnedOnce FallbackAgrees PassiveOnlyUnreviewedInService
CHECK_DEADLOCK FALSE
