SPECIFICATION Spec
CONSTANTS
    Tasks = {t1, t2, t3}
    Workers = {w1}
    Closers = {c1}
    Methods = {"submit"}
    Modes = {"drain"}
    QueueSize = 1
    CfgMaxRetries = 0
    Overrides = {NoOverride}
    NoOverride = NoOverride
    Delays = {1}
    HasPredicate = TRUE
    PredicatePanics = TRUE
    NoTask = NoTask
INVARIANTS
    DrainLeavesNothingQueued
