SPECIFICATION Spec
CONSTANTS
    Server = server
    Phases = {phase}
    Confirmed = {{a, b, c, d}, {a, b, c, d, e}, {a, b, c, d, e, f}, {a, b, c, g}}
    Dismissed = {{a, b, c, d}}
    None = None
    Torn = Torn
    MinConfirmations = 2
    MaxDiscovered = 2
    MaxVerdicts = 5
    MaxPhaseVerdicts = 1
INVARIANTS PromotionEarned PromotedKnown
PROPERTY PromotionStands
CHECK_DEADLOCK FALSE
