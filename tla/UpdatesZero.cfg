\* Some updates of the message box have pts_count 0.
CONSTANTS
    Counts = {0, 1}
    MaxPts = 3
    MaxQts = 1
    MaxSeq = 3
    Faults = {}
    MaxFaults = 0
    None = None
SPECIFICATION Spec
INVARIANT NoneLost
CHECK_DEADLOCK FALSE
