SPECIFICATION Spec
CONSTANTS
    Sizes <- Boundaries
    Fills <- AllFills
    MaxPieces = 3
INVARIANTS PayloadFound LayoutReadsBack Base64Decodes TextArrives CommentArrives
