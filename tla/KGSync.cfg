SPECIFICATION Spec
SYMMETRY Symmetry
CONSTANTS
    Files = {f1, f2}
    Contents = {c1, c2}
    Profiles = {p1, p2}
    Stamps = {s1, s2}
    Registered = {f1}
    None = None
    MaxEdits = 2
    MaxFaults = 1
INVARIANTS
      TablesAgree  NothingLeft ProfileHonest
PROPERTIES TouchesNoOthers
\* A crash inside state.save leaves half a state file, on which every later
\* pass raises before it does anything.
CHECK_DEADLOCK FALSE
