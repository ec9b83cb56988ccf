SPECIFICATION Spec
CONSTANTS
    MaxMessages = 3
    MaxMethods = 1
INVARIANT AnswerHeard
CHECK_DEADLOCK FALSE
