SPECIFICATION Spec
CONSTANTS
    note = note
    Paragraphs <- MCParagraphs
    Comments <- NoComments
    Loaded = TRUE
    MaxEdits = 2
    MaxFaults = 0
    Timely = TRUE
PROPERTIES
    UntouchedTextSurvives
