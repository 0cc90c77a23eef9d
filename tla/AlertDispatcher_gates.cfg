SPECIFICATION SpecDispatcher
CONSTANTS
    Never = Never
    Patterned = {p1}
    Reasoned = {r1}
    Scores = {1, 2, 3, 4}
    AlertAt = 2
    WarningAt = 2
    CriticalAt = 4
    ScoreStep = 2
    MinInterval = 1
    Minute = 3
    MaxPerMinute = 2
    Cooldown = 2
    SuppressWindow = 2
    EpisodeGap = 4
    MaxTime = 5
    MaxLog = 4
    MaxSuppressed = 1
INVARIANTS AlertRate QuietAfterDismiss NoRepeat MutedPatternsQuiet EpisodesSound
CHECK_DEADLOCK FALSE
