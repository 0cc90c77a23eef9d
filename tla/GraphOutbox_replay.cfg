SPECIFICATION FairSpec
CONSTANTS
    NoJob = NoJob
    ReplayRequest = ReplayRequest
    Threads = {t1, t2}
    Enqueued = {e1}
    Direct = {}
    Increments = {c1}
    CompactAt = 1
INVARIANTS   ReplayedAtMostOnce
  
