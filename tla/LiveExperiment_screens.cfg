SPECIFICATION FairSpec
CONSTANTS
    Ids = {i1}
    Screens = {c1, c2}
    None = None
    Error = Error
    QueueSize = 1
    MaxRuns = 2
    MaxProgress = 1
INVARIANTS Listed ResultsShown EndWaits
PROPERTIES ScreenSettles
