CONSTANTS
    Sessions = {s1, s2}
    FileIDs = {f1}
    Events = {uploaded, ingested}
    CorrIDs = {c1}
    RetryTimes <- MCRetryTimes
    MaxClock <- MCMaxClock
    LostReplies = TRUE

SPECIFICATION Spec
INVARIANTS
    TypeOK
    ReadYourWrites
CHECK_DEADLOCK FALSE
PROPERTY
    FileEventLogSpec
