\* The connection: four things go wrong.
\* The keys: a lost connection, a refused key, a forgotten key, late packets.
\* The session: three file parts over up to three connections.
CONSTANTS
    MaxFaults = 4
    MaxKey = 6
    Faults = {"down", "close", "dh", "push", "forget", "timeout", "internal", "config", "unbound", "reset"}
    MaxTroubles = 3
    Parts = 3
    MaxSecondary = 2
    MaxId = 6
    MaxTold = 1
    Mishaps = {"timeout", "lost", "rekey", "time", "bad"}
    MaxMishaps = 1
SPECIFICATION SpecClient
INVARIANTS
    IInv
    KeysHold
    WorkersSound
PROPERTIES
    ConnectionRecovers
    Settles
    Transferred
    ComesToRest
CHECK_DEADLOCK FALSE
