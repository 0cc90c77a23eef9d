SPECIFICATION FairPipeline
CONSTANTS
    NoEvent = NoEvent
    Never = Never
    Events = {e1, e2}
    Patterned = {p1}
    Reasoned = {}
    Scores = {0, 1, 2}
    StoreAt = 1
    AlertAt = 2
    WarningAt = 2
    CriticalAt = 3
    ScoreStep = 1
    MinInterval = 0
    Minute = 1
    MaxPerMinute = 2
    Cooldown = 1
    SuppressWindow = 2
    EpisodeGap = 2
    QueueSize = 2
    MaxTime = 1
    MaxLog = 3
    MaxSuppressed = 1
PROPERTY AlertExplained
CHECK_DEADLOCK FALSE
