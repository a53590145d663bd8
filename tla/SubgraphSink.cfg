SPECIFICATION Spec
SYMMETRY Symmetry
CONSTANTS
    Slug <- MCSlug
    Producers = {p1, p2}
    Envelopes <- MCEnvelopes
    HashOrders <- MCHashOrders
    Targets <- MCTargets
    MaxCalls = 3
    MaxErasures = 1
    MaxReads = 1
    MaxFaults = 1
INVARIANTS Loadable Durable  Fresh
PROPERTIES ImplementsKeyedStore
\* The bounds stop it.
CHECK_DEADLOCK FALSE
