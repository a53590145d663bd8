SPECIFICATION Spec
SYMMETRY Symmetry
CONSTANTS
    None = None
    Torn = Torn
    Workers = {x, y}
    Items <- MCItems
    Broken = {"bad"}
    MaxAcquires = 3
    MaxRuns = 2
    MaxFaults = 1
INVARIANTS BytesKept CompleteIsTrue  Registered
\* The bounds stop it.
CHECK_DEADLOCK FALSE
