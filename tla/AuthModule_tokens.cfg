SPECIFICATION Spec
CONSTANTS
    Margin = 2
    Threads <- TwoThreads
    Lifetime = 4
    Patience = 1
    MaxFaults = 1
    MaxTime = 9
    MaxIssued = 2
INVARIANTS TypeOK LoginSurvives
PROPERTY TokensAreLive
