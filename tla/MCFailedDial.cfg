\* A dial is reported failed although nothing was dialled.
CONSTANTS
    r1 = r1
    r2 = r2
    NoOwner = NoOwner
    Requests <- TwoRequests
SPECIFICATION Spec
PROPERTY FailedDialsTried
