CONSTANTS
    Reviewer = {opus, gemini, codex}
    Polls = {opus, codex}
    Secondary = {opus}
    Guarded = {gemini}
    MinReviewers = 2
    MaxRetries = 1
    RetryTimeouts = TRUE
    TimeoutRetries = 1
    Stories = 2
    MaxSessions = 2
    MaxFaults = 3
SPECIFICATION FairSpec
INVARIANT TypeOK
INVARIANT SynthesisIsCurrent
INVARIANT QuorumSynthesised
INVARIANT AnsweredInTime
PROPERTY ReviewersEnd
CHECK_DEADLOCK FALSE
