\* A running request is swept from active_operations.
CONSTANTS
    r1 = r1
    r2 = r2
    NoOwner = NoOwner
    Requests <- TwoRequests
SPECIFICATION Spec
INVARIANT RunningRequestsTracked
