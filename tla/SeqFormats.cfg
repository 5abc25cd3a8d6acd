\* The order: both ends write and restart; every hole is waited for.
\* The formats: answers of four words after what has begun, every content in
\* every layer, every p of eight bits.
CONSTANTS
    MaxSeq <- B33
    MaxText <- B22
    MaxRestart <- B11
    MaxLoss = 0
    Lossy <- Reliable
    RealTime = {}
    Deletes = FALSE
    Schema <- TestSchema
    Awaited <- TestAwaited
    AnswerWords <- TestWords
    MaxRest = 4
    Layers <- ToldLayers
    Contents <- AllContents
    Offers <- Sendable
    MaxSent = 1
    Bits = 8
    Slack = 3
    Width = 7
    Products = {6, 15, 21, 35, 49}
    Random = {0, 1, 2, 5, 15}
    Limit = 4
    Iterations = 10
SPECIFICATION SpecChatFormats
INVARIANTS
    Retained
    Delivery
    ParkedIsStored
    OneNumberPerText
    AnswersAgree
    SecretsReadable
    KeysInSubgroup
    FactorsFound
CHECK_DEADLOCK FALSE
