CONSTANTS
    CliTests = 3
    UiTests = 1
    BatchSize = 2
    BatchStatus = {"PASS", "FAIL"}
    MaxRun = 3
SPECIFICATION Spec
INVARIANT TypeOK
INVARIANT BatchesSurvive
INVARIANT RunIsComplete
PROPERTY PassedStays
CHECK_DEADLOCK FALSE
