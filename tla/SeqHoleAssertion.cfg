\* A deletion processed after a restart loads the parked messages from the
\* in_seq_no before it.
CONSTANTS
    MaxSeq <- B41
    MaxText <- B40
    MaxRestart <- B01
    MaxLoss = 0
    Lossy <- Reliable
    RealTime = {}
    Deletes = TRUE
SPECIFICATION Spec
INVARIANT HoleAssertion
CHECK_DEADLOCK FALSE
