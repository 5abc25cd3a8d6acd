CONSTANTS
    Schema <- TestSchema
    Awaited <- TestAwaited
    AnswerWords <- TestWords
    MaxRest = 4
    Layers <- ToldLayers
    Contents <- AllContents
    Offers <- Documents
    MaxSent = 1
    Bits = 8
    Slack = 3
    Width = 7
    Products = {6, 15, 21, 35, 49}
    Random = {0, 1, 2, 5, 15}
    Limit = 4
    Iterations = 10
SPECIFICATION SpecFormats
INVARIANTS
    DocumentsMade
CHECK_DEADLOCK FALSE
