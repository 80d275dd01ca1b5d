CONSTANTS
    Requests = {r1, r2, r3}
    Keys <- MCKeys
    Malformed = Malformed
    Absent = Absent
    MaxOpen <- MCMaxOpen
    ClientID = ClientID
    JwtIssuer = JwtIssuer
    S3Inbox = S3Inbox
SPECIFICATION Spec
SYMMETRY MCSymmetry
INVARIANTS
    TypeOK
    KeyFileReleased
CHECK_DEADLOCK FALSE
