SPECIFICATION Spec
CONSTANTS
    Count = 4
    Limits = {1, 2}
    RetryAttempts = 2
    Answers = {"ok", "malformed", "busy", "unanswered", "noToken"}
INVARIANT TypeOK
INVARIANT FanoutBound
INVARIANT WholeOrNothing
INVARIANT BudgetUsedUp
INVARIANT ReportMatchesAnswer
PROPERTY ImplementsSlotHolder
PROPERTY Settles
CHECK_DEADLOCK FALSE
