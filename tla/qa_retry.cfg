CONSTANTS
    CliTests = 3
    UiTests = 1
    BatchSize = 2
    BatchStatus = {"PASS", "FAIL"}
    MaxRun = 3
SPECIFICATION Spec
INVARIANT RetryCompletes
CHECK_DEADLOCK FALSE
