SPECIFICATION Spec
CONSTANTS
    Tasks = {t1, t2, t3}
    Workers = {w1, w2}
    Closers = {c1}
    Methods = {"submit", "try"}
    Modes = {"drain", "immediate"}
    QueueSize = 1
    CfgMaxRetries = 1
    Overrides = {NoOverride}
    NoOverride = NoOverride
    Delays = {0, 1}
    HasPredicate = FALSE
    PredicatePanics = TRUE
    NoTask = NoTask
SYMMETRY Symmetry
INVARIANTS
    TypeOK
    NoSenderOnClosedChannel
    EachTaskInOnePlace
    NoLostWakeup
PROPERTIES
    ClosedQueueTakesNothing
    SettledOnce
    ImplementsJobQueue
