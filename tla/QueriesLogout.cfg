\* A logout query is sent again after a wrong salt.
CONSTANTS
    qPlain = qPlain
    qLogin = qLogin
    qLogout = qLogout
    None = None
    Query = {qPlain, qLogout}
    Kind <- Kinds
    TooLong = {qPlain}
    Client = {"main", "file"}
    Main = "main"
    Faults = {"salt"}
    MaxFaults = 1
SPECIFICATION Spec
INVARIANT LogoutAssertion
CHECK_DEADLOCK FALSE
