CONSTANTS
    NumEpics = 2
    StoryCount <- TwoOne
    EpicSetup <- TeaSetup
    StoryPhases <- TeaStory
    EpicTeardown <- TeaTeardown
    TestarchEnabled = TRUE
    QaEnabled = FALSE
    ReworkEnabled = TRUE
    MaxRework = 1
    FailOnUnresolved = TRUE
    RunOptions <- AnyOption
    Prompts = TRUE
    Cancels = TRUE
    OperatorSync = TRUE
    ManualEdits = FALSE
    MaxFaults = 2
SPECIFICATION Spec
INVARIANT TypeOK
INVARIANT PersistedBeforeRun
INVARIANT BoundaryPhasesDone
PROPERTY ReviewedBeforeDone
INVARIANT SprintNeverAhead
PROPERTY PositionNeverBack
 
PROPERTY DeliversInOrder
CHECK_DEADLOCK FALSE
