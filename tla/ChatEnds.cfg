SPECIFICATION Spec
CONSTANTS
    Configurations <- ManySettings
    Names <- AnyName
    RetryAttempts = 2
    RuntimeAdaptive = TRUE
    Answers <- AnyAnswer
INVARIANT TypeOK
INVARIANT BudgetOfMode
INVARIANT ReportMatchesAnswer
INVARIANT UpstreamModelConfigured
INVARIANT ListingHonoured
PROPERTY ImplementsSlotHolder
PROPERTY OnlySafeRetries
PROPERTY ReportedInTheEnd
