SPECIFICATION Spec
CONSTANTS
    doc1 = doc1
    doc2 = doc2
    doc3 = doc3
    note1 = note1
    NoDoc = NoDoc
    Docs <- TwoDocs
    LocalDocs <- OneLocal
    Paragraphs <- OneParagraph
    Notes <- OneNote
    Structural <- Plain
    MaxEdits = 1
    MaxOpens = 3
INVARIANT TypeOK
PROPERTY UploadsOwnFile
\* The user may close every document and do nothing more.
CHECK_DEADLOCK FALSE
