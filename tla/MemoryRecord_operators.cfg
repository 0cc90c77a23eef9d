SPECIFICATION FairSpec
CONSTANTS
    Verdicts = {v1}
    Comments = {n1}
    Votes = {t1}
    Passes = {f1}
    Pages = {p1}
    Gone = Gone
    Unlinked = Unlinked
    Free = Free
    MaxHistory = 1
    MaxFaults = 1
INVARIANTS AnswersHold VotesCount HistoryIsJournal
PROPERTY AnswerComes
CHECK_DEADLOCK FALSE
