\* Downloads: an encrypted document in three parts, a document in two and a
\* photo of unknown size.  Uploads: a document in three parts, one in two with
\* a thumbnail, and an empty one.  Two connections.
CONSTANTS
    t1 = t1
    t2 = t2
    t3 = t3
    i1 = i1
    i2 = i2
    i3 = i3
    f1 = f1
    f2 = f2
    f3 = f3
    None = None
    Tasks = {t1, t2, t3}
    Id <- OwnIds
    File <- OwnFiles
    Parts <- ThreeTwoNone
    Located = {t3}
    Encrypted = {t1}
    Thumbs = {t2}
    MaxConnections = 2
SPECIFICATION SpecTransfers
INVARIANTS
    FilesSound
    UploadsSound
    OneVerdict
PROPERTIES
    StepsSound
    AllReported
CHECK_DEADLOCK FALSE
