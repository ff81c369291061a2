SPECIFICATION FairSpec
CONSTANTS
    note = note
    Paragraphs <- OneParagraph
    Comments <- NoComments
    Loaded = TRUE
    MaxEdits = 1
    MaxFaults = 1
    Timely = FALSE
PROPERTIES
    CoauthorsDeltaIsApplied
