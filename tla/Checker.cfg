SPECIFICATION Spec
CONSTANTS
    None = None
    One = 8
    RawConfigs <- MCRawConfigs
CHECK_DEADLOCK FALSE
INVARIANTS
    EarnedByAllStages
    VmrExplainsGrade
    NoTestsNoGrade
