SPECIFICATION Spec
SYMMETRY Symmetry
CONSTANTS
    Claims = {k1}
    Concepts = {c1}
    Sinks = {n1, n2}
    Sources = {s1}
    NoSource = NoSource
    Owner <- MCOwner
    Erasers = {e1}
    MaxOps = 1
    MaxLog = 4
    MaxFaults = 0
INVARIANTS ReplicaKeepsTombstones
CHECK_DEADLOCK FALSE
