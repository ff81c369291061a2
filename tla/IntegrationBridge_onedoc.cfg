SPECIFICATION FairSpec
CONSTANTS
    doc1 = doc1
    doc2 = doc2
    doc3 = doc3
    note1 = note1
    NoDoc = NoDoc
    Docs <- OneDoc
    LocalDocs <- None
    Paragraphs <- TwoParagraphs
    Notes <- OneNote
    Structural = {TRUE, FALSE}
    MaxEdits = 2
    MaxOpens = 2
INVARIANT InSync
PROPERTY EditsMeet
\* The user may close every document and do nothing more.
CHECK_DEADLOCK FALSE
