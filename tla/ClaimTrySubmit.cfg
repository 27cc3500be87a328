SPECIFICATION ReentrantFairSpec
CONSTANTS
    t1 = t1
    t2 = t2
    t3 = t3
    t4 = t4
    Tasks = {t1, t2, t3, t4}
    Workers = {w1}
    Closers = {c1}
    Methods = {"submit", "try"}
    Modes = {"drain"}
    QueueSize = 1
    CfgMaxRetries = 0
    Overrides = {NoOverride}
    NoOverride = NoOverride
    Delays = {1}
    HasPredicate = FALSE
    PredicatePanics = FALSE
    NoTask = NoTask
    Parent <- LastByFirst
PROPERTIES
    TrySubmitReturns
CHECK_DEADLOCK FALSE
