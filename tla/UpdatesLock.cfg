\* A fetch is answered with an error.
CONSTANTS
    Counts = {1}
    MaxPts = 3
    MaxQts = 1
    MaxSeq = 3
    Faults = {"error"}
    MaxFaults = 1
    None = None
SPECIFICATION Spec
INVARIANT LockHasOwner
CHECK_DEADLOCK FALSE
