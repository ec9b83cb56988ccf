SPECIFICATION Spec
CONSTANTS
    Plans <- MCPlans
    HarnessOf <- MCHarnessOf
    Editable <- MCEditable
    User <- MCUser
    MaxEdits = 2
INVARIANTS TypeOK NeedsFirst AllowedWhenSent ShortRunExplained
\* the run ends
CHECK_DEADLOCK FALSE
