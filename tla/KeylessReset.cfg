\* The client is told to forget its key, and the connection is lost.
CONSTANTS
    MaxFaults = 4
    MaxKey = 6
    Faults = {"reset", "down"}
    MaxTroubles = 2
    Parts = 3
    MaxSecondary = 2
    MaxId = 6
    MaxTold = 1
    Mishaps = {"timeout", "lost", "rekey", "time", "bad"}
    MaxMishaps = 1
SPECIFICATION SpecClient
INVARIANT
    EachMessageKeyed
CHECK_DEADLOCK FALSE
