\* Pushes, differences in parts, an error and a logout; two calls beside the
\* pushes of others; two logins that two logouts cross; lists up to five items.
CONSTANTS
    Counts = {1, 2}
    MaxPts = 3
    MaxQts = 1
    MaxSeq = 2
    Faults = {"error", "logout"}
    MaxFaults = 1
    None = None
    Second <- Others
    MaxEvents = 3
    MaxPushes = 1
    Flow = {1, 2}
    MaxLogouts = 2
    MaxMistakes = 2
    Sizes = {0, 1, 2, 4, 5}
    Limits <- AllOrSome
    PageMax = 2
    MaxNew = 1
    MaxGone = 1
SPECIFICATION SpecApplication
INVARIANTS
    NoneLost
    EachOnce
    ToldOnce
    Settled
    Listed
PROPERTIES
    CaughtUp
    TruthTold
    AllEnd
CHECK_DEADLOCK FALSE
