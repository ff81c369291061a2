SPECIFICATION FairSpec
CONSTANTS
    note = note
    Paragraphs <- OneParagraph
    Comments <- NoComments
    Loaded = FALSE
    MaxEdits = 1
    MaxFaults = 2
    Timely = FALSE
PROPERTIES
    CallsReturn
    ChangesReachEditor
    ImplementsFairChannel
