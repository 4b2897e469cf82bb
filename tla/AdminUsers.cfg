SPECIFICATION Spec
CONSTANTS
    a = a
    b = b
    c = c
    p1 = p1
    r1 = r1
    r2 = r2
    NoUser = NoUser
    Emails <- ThreeEmails
    Passwords <- OnePassword
    Requests <- TwoRequests
    MaxId = 4
SYMMETRY UserSymmetry
INVARIANTS TypeOK DistinctIds DeletedStayDeleted
PROPERTY EmptiedOnlyByOverlap
