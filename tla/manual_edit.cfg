CONSTANTS
    NumEpics = 2
    StoryCount <- TwoOne
    EpicSetup <- NoPhases
    StoryPhases <- ReviewOnly
    EpicTeardown <- QaTeardown
    TestarchEnabled = FALSE
    QaEnabled = TRUE
    ReworkEnabled = TRUE
    MaxRework = 1
    FailOnUnresolved = TRUE
    RunOptions <- AnyOption
    Prompts = FALSE
    Cancels = TRUE
    OperatorSync = TRUE
    ManualEdits = TRUE
    MaxFaults = 1
SPECIFICATION Spec
INVARIANT EvidenceBacked
CHECK_DEADLOCK FALSE
