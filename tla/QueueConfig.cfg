CONSTANTS
    Bits = 6
    Mantissa = 3
    DefaultConfig <- Defaults
    Values <- OptionValues
    RetryOverrides <- Retries
    DelayOverrides <- Waits
    Unset = Unset
    MaxOptions = 3
    MaxAttempts = 7
SPECIFICATION Spec
INVARIANTS
    TypeOK
    DelaysFollowFormula
    CapBoundsDelays
    CapKeepsWorkers
PROPERTIES
    RetriesNeverSpeedUp
