SPECIFICATION Spec
CONSTANTS
    a = a
    b = b
    Plain = {a, b}
    Files <- WordFiles
    Indices <- SomeIndices
    Ids = {}
    Authors = {}
    Texts <- SomeTexts
    MaxEdits = 2
PROPERTIES OthersKeepText
CHECK_DEADLOCK FALSE
