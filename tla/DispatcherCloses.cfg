SPECIFICATION FairSpec
CONSTANTS
    Tasks = {t1, t2}
    Workers = {w1}
    Closers = {c1, c2}
    Methods = {"submit"}
    Modes = {"drain"}
    QueueSize = 1
    CfgMaxRetries = 1
    Overrides = {NoOverride}
    NoOverride = NoOverride
    Delays = {1}
    HasPredicate = FALSE
    PredicatePanics = FALSE
    NoTask = NoTask
PROPERTIES
    ClosesReturn
    QuitEndsWorkers
    AcceptedTasksSettle
    ImplementsFairJobQueue
