SPECIFICATION Spec
CONSTANTS
    note = note
    Paragraphs <- OneParagraph
    Comments <- NoComments
    Loaded = TRUE
    MaxEdits = 2
    MaxFaults = 2
    Timely = FALSE
INVARIANTS
    TypeOK
    SessionCoherent
    HeartbeatKeepsSession
    ExitIsLast
    DropAfterAttempts
    DeltaConservation
    KnowledgeIsSeen
    CalmSessionDelivers
PROPERTIES
    DropIsFinal
    ImplementsChannel
