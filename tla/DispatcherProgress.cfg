SPECIFICATION FairSpec
CONSTANTS
    Tasks = {t1, t2, t3}
    Workers = {w1}
    Closers = {c1}
    Methods = {"submit"}
    Modes = {"drain"}
    QueueSize = 1
    CfgMaxRetries = 0
    Overrides = {NoOverride}
    NoOverride = NoOverride
    Delays = {1}
    HasPredicate = FALSE
    PredicatePanics = FALSE
    NoTask = NoTask
PROPERTIES
    SubmitsReturn
    LateSubmitsAreRejected
