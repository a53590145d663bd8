SPECIFICATION Spec
CONSTANTS
    None = None
    Systems <- MCSystems
    Core <- MCCore
    Primitives <- MCPrimitives
    Interval <- MCInterval
    Ontology <- MCOntology
    Values <- MCValues
    Claims = {"c", "d"}
    Sources = {"s"}
    MaxAssignments = 3
INVARIANTS RegistrySound SelectionSound
