SPECIFICATION FairSpec
CONSTANTS
    Writers = {w1, w2}
    Readers = {r1}
    NoOne = NoOne
    Objects = {o1, o2}
    Payloads = {p1, p2}
    Absent = Absent
    MaxLines = 3
    MaxBatch = 2
    MaxFaults = 1
INVARIANTS TypeOK HistoryValid HolderCurrent AckedReadable FeedIsHistory
PROPERTIES FailClosed ImplementsJournal LockGivenBack
