\* MCTransfers: the application gives the id of a download that failed to the
\* next one.
CONSTANTS
    t1 = t1
    t2 = t2
    t3 = t3
    i1 = i1
    i2 = i2
    i3 = i3
    f1 = f1
    f2 = f2
    f3 = f3
    None = None
    Tasks = {t1, t2}
    Id <- OneId
    File <- OwnFiles
    Parts <- TwoTwo
    Located = {}
    Encrypted = {}
    Thumbs = {}
    MaxConnections = 2
SPECIFICATION SpecReuse
INVARIANT OneVerdict
CHECK_DEADLOCK FALSE
