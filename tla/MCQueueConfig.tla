--------------------------- MODULE MCQueueConfig ---------------------------
(* Values for QueueConfig.  Six bits make 31 the longest duration, and     *)
(* three significant bits put floats 2 apart from 8 and 4 apart from 16.   *)
EXTENDS QueueConfig

Defaults ==
    [memoryType |-> "in-memory", workerCount |-> 1, queueSize |-> 1024, maxRetries |-> 3,
     jobTimeout |-> 30, retryDelay |-> 1, maxRetryDelay |-> 12, backoff |-> "exponential",
     shutdownTimeout |-> 10]

\* WithMongoDB takes no value; the default of a field need not be given again.
OptionValues ==
    [memoryType |-> {"mongo-db"}, workerCount |-> {0, 2}, queueSize |-> {0, 1},
     maxRetries |-> {-1, 7}, jobTimeout |-> {-1, 0}, retryDelay |-> {-1, 0, 5, 11, 31},
     maxRetryDelay |-> {-1, 0, 4, 13, 31}, backoff |-> Strategies \cup {"unknown"},
     shutdownTimeout |-> {-1, 0}]

Retries == {-1, 7}
Waits == {-1, 0, 3}
============================================================================
