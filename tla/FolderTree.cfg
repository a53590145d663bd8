SPECIFICATION Spec
CONSTANTS
    None = None
    FolderOrder <- MCFolderOrder
    Parent <- MCParent
    Docs <- MCDocs
    SourceOf <- MCSourceOf
    InitialHeld <- MCHeld
    MaxEdits = 3
    MaxReads = 1
INVARIANT ReadRight
\* The bounds stop it.
CHECK_DEADLOCK FALSE
