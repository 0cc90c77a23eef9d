SPECIFICATION Spec
CONSTANTS
    Contexts = {c1}
    Singles = {s1}
    Requests = {r1, r2}
    Screens = {o1, o2}
    Nothing = Nothing
    MaxLines = 4
    MaxDrafts = 3
INVARIANTS DecisionStands ApprovedAsShown
PROPERTY ImplementsBoard
SYMMETRY Symmetry
