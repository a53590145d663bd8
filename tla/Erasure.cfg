SPECIFICATION Spec
SYMMETRY Symmetry
CONSTANTS
    Claims = {k1}
    Concepts = {c1}
    Sinks = {n1, n2}
    Sources = {s1}
    NoSource = NoSource
    Owner <- MCOwner
    Erasers = {e1, e2}
    MaxOps = 2
    MaxLog = 4
    MaxFaults = 1
INVARIANTS FiltersCurrent ErasedNotShown SharedOnlyPublished 
    
\* The bounds on the log and on faults stop it.
CHECK_DEADLOCK FALSE
