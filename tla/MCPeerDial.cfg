CONSTANTS
    r1 = r1
    r2 = r2
    NoOwner = NoOwner
    Requests <- TwoRequests
SPECIFICATION Spec
INVARIANTS
    DialTypeOK
    OneDialAtATime
    ChargedOnce
    WaitersHaveOwner
    OperationsReleased
PROPERTY RequestsEnd
