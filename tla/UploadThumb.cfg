\* MCTransfers: the message does not wait for the thumbnail.
CONSTANTS
    t1 = t1
    t2 = t2
    t3 = t3
    i1 = i1
    i2 = i2
    i3 = i3
    f1 = f1
    f2 = f2
    f3 = f3
    None = None
    Tasks = {t1, t2}
    Id <- OwnIds
    File <- OwnFiles
    Parts <- TwoTwo
    Located = {}
    Encrypted = {}
    Thumbs = {t2}
    MaxConnections = 2
SPECIFICATION SpecThumb
INVARIANT MessageHasThumb
CHECK_DEADLOCK FALSE
