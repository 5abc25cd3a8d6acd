\* A plain query, one of the login and a logout at two data centres; one fault.
CONSTANTS
    qPlain = qPlain
    qLogin = qLogin
    qLogout = qLogout
    None = None
    Query = {qPlain, qLogin, qLogout}
    Kind <- Kinds
    TooLong = {}
    Client = {"main", "file"}
    Main = "main"
    Faults = {"down", "rekey", "transfer", "user", "internal", "migrate", "password", "unregistered", "salt", "regen", "timeout"}
    MaxFaults = 1
SPECIFICATION FairSpec
INVARIANTS
    NoneForgotten
    SentWhenReady
PROPERTIES
    PromiseSpec
    Finishes
CHECK_DEADLOCK FALSE
