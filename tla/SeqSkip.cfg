\* The admin writes, deletes and loses messages; the member skips holes.
CONSTANTS
    MaxSeq <- B42
    MaxText <- B30
    MaxRestart <- B01
    MaxLoss = 1
    Lossy <- TextsLost
    RealTime = {"member"}
    Deletes = TRUE
SPECIFICATION Spec
PROPERTIES
    NoDeliveryAfterDelete
    OrderSpec
CHECK_DEADLOCK FALSE
