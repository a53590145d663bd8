SPECIFICATION Spec
CONSTANTS
    Files = {f1, f2}
    Contents = {c1}
    Profiles = {p1, p2}
    Stamps = {s1}
    Registered = {}
    None = None
    MaxEdits = 1
    MaxFaults = 0
PROPERTY TouchesNoOthers
CHECK_DEADLOCK FALSE
