SPECIFICATION Spec
SYMMETRY Symmetry
CONSTANTS
    None = None
    Torn = Torn
    Workers = {x, y}
    Length <- MCLength
    Norm <- MCNorm
    MinDf = 2
    MinSupport = 2
    DomainOrder <- MCDomainOrder
    SourceOrder <- MCSourceOrder
    InitialClaims <- MCInitialClaims
    Pool <- MCPool
    MaxCalls = 2
    MaxEdits = 1
    MaxFaults = 1
INVARIANTS  CompositeWitnessed
\* The bounds stop it.
CHECK_DEADLOCK FALSE
