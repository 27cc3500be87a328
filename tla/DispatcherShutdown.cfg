SPECIFICATION Spec
CONSTANTS
    Tasks = {t1, t2}
    Workers = {w1, w2}
    Closers = {c1, c2}
    Methods = {"submit", "try", "invalid"}
    Modes = {"drain", "immediate", "invalid"}
    QueueSize = 1
    CfgMaxRetries = 1
    Overrides <- MixedOverrides
    NoOverride = NoOverride
    Delays = {0, 1}
    HasPredicate = TRUE
    PredicatePanics = TRUE
    NoTask = NoTask
SYMMETRY Symmetry
INVARIANTS
    StatsBalance
    DrainAccountsForEveryTask
    RunsMatchOutcome
    WorkersLeaveNothingBehind
    RetriesBecomeRuns
