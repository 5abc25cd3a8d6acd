\* Both ends write and may lose a text; the admin waits behind every hole, the
\* member skips one when its resend request is lost too.
CONSTANTS
    MaxSeq <- B33
    MaxText <- B21
    MaxRestart <- B00
    MaxLoss = 1
    Lossy <- AskLost
    RealTime = {"member"}
    Deletes = FALSE
SPECIFICATION FairSpec
PROPERTY ParkedIsProcessed
CHECK_DEADLOCK FALSE
