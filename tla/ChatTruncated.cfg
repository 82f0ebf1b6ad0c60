SPECIFICATION Spec
CONSTANTS
    Configurations <- PlainSettings
    Names <- AnyName
    RetryAttempts = 2
    RuntimeAdaptive = TRUE
    Answers <- AnyAnswer
INVARIANT DoneIsComplete
