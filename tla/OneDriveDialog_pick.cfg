SPECIFICATION Spec
CONSTANTS
    Drive <- SmallDrive
    PageSize = 3
    None = None
    Placeholder = Placeholder
    Partial = Partial
    ErrorPage = ErrorPage
    MaxDialogs = 2
    MaxFaults = 2
INVARIANTS ShownPagesRead TreeShowsDrive AcceptedIsChosen
CHECK_DEADLOCK FALSE
