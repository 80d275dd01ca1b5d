CONSTANTS
    Sessions = {s1, s2}
    KeyHashes = {k1, k2}
    FileIDs = {f1, f2}
    Files = {f1}
    RetryTimes <- MCRetryTimes
    LostReplies = TRUE
    NoKey = NoKey

SPECIFICATION Spec
SYMMETRY MCSymmetry
INVARIANTS
    TypeOK
    KeyRefIntegrity
