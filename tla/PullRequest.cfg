SPECIFICATION Spec
CONSTANTS
    Events <- MCEvents
    MaxEvents = 2
    MaxTools = 2
    OtherTools = {"write"}
    None = None
    MaxHeads = 2
    MaxRequests = 3
    DemoRepository = TRUE
    Expected <- MCExpected
    Durations <- MCDurations
INVARIANTS PTypeOK AcceptedUsesAllowedOnly ToolsForWorker LastWordWins SpansNest CommentsInOrder CommentsAreEvidence SilenceExplained
PROPERTIES RefusalIsJustified LastRequestSettles
CHECK_DEADLOCK FALSE
