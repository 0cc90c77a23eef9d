SPECIFICATION SpecSandbox
CONSTANTS
    Experiments = {r1, r2}
    Verdicts = {v1}
    Production = Production
    Absent = Absent
    Torn = Torn
    NoPath = NoPath
    MaxLives = 2
INVARIANTS ProductionClean SavedVerdictsSurvive SandboxLifted
CHECK_DEADLOCK FALSE
