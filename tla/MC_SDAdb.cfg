CONSTANTS
    Sessions = {s1, s2}
    FileIDs = {f1, f2}
    Users = {u1}
    Paths = {p1, p2}
    AccessionIDs = {a1, a2}
    DatasetIDs = {d1}
    Events <- MCEvents
    RetryTimes <- MCRetryTimes
    MaxLog <- MCMaxLog
    NoRow = NoRow
    NoAcc = NoAcc
    LostReplies = FALSE

SPECIFICATION Spec

INVARIANTS
    TypeOK
    StableIDUnique
    MapAllOrNothing
    MappedFilesAccessioned
SYMMETRY MCSymmetry
