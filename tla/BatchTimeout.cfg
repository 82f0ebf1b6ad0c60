SPECIFICATION Spec
CONSTANTS
    Count = 2
    Limits = {1, 2}
    RetryAttempts = 1
    Answers <- AnyAnswer
INVARIANT TimeoutsCounted
CHECK_DEADLOCK FALSE
