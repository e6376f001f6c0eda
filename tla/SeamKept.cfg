SPECIFICATION Spec
CONSTANTS
    a = a
    b = b
    BadId = bad
    Setups <- AllSetups
    Kinds <- AllKinds
    Frames = {1, 2}
    Cap = 3
    MaxCalls = 2
    MaxBreaks = 1
    MaxSessions <- PipesRestart
INVARIANTS EveryCallIsRowed TapeAgrees AnswersAreOwn DeliveredIsRecordedOverHttp EnforceHoldsBackToTheEnd TotalIsKept
CHECK_DEADLOCK FALSE
