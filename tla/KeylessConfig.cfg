\* The data centre forgets the key, and the handshake for a new one is slow.
CONSTANTS
    MaxFaults = 4
    MaxKey = 6
    Faults = {"forget", "slow"}
    MaxTroubles = 2
    Parts = 3
    MaxSecondary = 2
    MaxId = 6
    MaxTold = 1
    Mishaps = {"timeout", "lost", "rekey", "time", "bad"}
    MaxMishaps = 1
SPECIFICATION SpecClient
INVARIANT
    EachMessageKeyed
CHECK_DEADLOCK FALSE
