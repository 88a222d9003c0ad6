SPECIFICATION FairLineSpec
CONSTANTS
    Programs = {"pipeline", "words", "tree", "file"}
    Lines <- SmallLines
    PipeSize = 3
    MaxFile = 3
    Garbage = {"other"}
    Pipes = {TRUE, FALSE}
    FirstMax = 2
    MaxLine = 5
    NULL = null
    Contacts = {a, b}
    Ids <- TreeIds
    FileIds = {0, 1, 2}
    MaxRecords = 2
INVARIANTS TypesOK  WordsRight
PROPERTIES LineEnds TreeRight
CHECK_DEADLOCK FALSE
