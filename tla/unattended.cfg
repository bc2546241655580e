CONSTANTS
    NumEpics = 2
    StoryCount <- TwoOne
    EpicSetup <- NoPhases
    StoryPhases <- ShortStory
    EpicTeardown <- Retrospective
    TestarchEnabled = FALSE
    QaEnabled = FALSE
    ReworkEnabled = TRUE
    MaxRework = 1
    FailOnUnresolved = FALSE
    RunOptions <- Plain
    Prompts = FALSE
    Cancels = FALSE
    OperatorSync = FALSE
    ManualEdits = FALSE
    MaxFaults = 0
SPECIFICATION FairSpec
PROPERTY AllDelivered
PROPERTY RunEnds
CHECK_DEADLOCK FALSE
