SPECIFICATION Spec
CONSTANTS
    a = a
    b = b
    Plain = {a, b}
    Files <- OpenFiles
    Indices <- SomeIndices
    Ids <- SomeIds
    Authors = {a, b}
    Texts <- SomeTexts
    MaxEdits = 3
INVARIANTS WellFormed IndicesMatch
PROPERTIES ImplementsParts
CHECK_DEADLOCK FALSE
