---------------------------- MODULE QueueConfig ----------------------------
(***************************************************************************)
(* The life of one queue's configuration: options are applied to the       *)
(* defaults, NewQueue validates the result, submissions override the       *)
(* retry limit and delay of their own task, and execute waits the delays   *)
(* that follow from all of them (gokue.go, config.go, dispatcher.go).      *)
(* Tasks are taken one at a time, by any of the live workers: nothing is   *)
(* shared between them here but the configuration.                         *)
(***************************************************************************)
EXTENDS Backoff

CONSTANTS
    DefaultConfig,    \* what Default returns, with its durations scaled down
    Values,           \* the arguments given to each option, by field
    RetryOverrides,   \* the arguments given to MaxRetries of a submission
    DelayOverrides,   \* the arguments given to RetryDelay of a submission
    Unset,            \* an override that was not given
    MaxOptions,       \* bound on the options of one NewQueue
    MaxAttempts       \* bound on the attempts of a task that are looked at

Fields == {"memoryType", "workerCount", "queueSize", "maxRetries", "jobTimeout",
           "retryDelay", "maxRetryDelay", "backoff", "shutdownTimeout"}

ASSUME ConfigAssumption ==
    /\ DOMAIN DefaultConfig = Fields
    /\ DOMAIN Values = Fields
    /\ \A f \in {"retryDelay", "maxRetryDelay", "jobTimeout", "shutdownTimeout"} :
          Values[f] \cup {DefaultConfig[f]} \subseteq Durations
    /\ \A f \in {"workerCount", "queueSize", "maxRetries"} :
          Values[f] \cup {DefaultConfig[f]} \subseteq Int
    /\ DelayOverrides \subseteq Durations
    /\ RetryOverrides \subseteq Int
    /\ Unset \notin Int
    /\ MaxOptions \in Nat /\ MaxAttempts \in Nat

VARIABLES
    cfg,       \* Queue.config, Dispatcher.cfg
    options,   \* number of options applied
    queue,     \* "none", "open", or "refused" by NewQueue
    workers,   \* worker goroutines that are alive
    task,      \* the overrides of the task being executed
    busy,      \* whether there is one
    attempt,   \* its loop variable in execute
    delay      \* the delay computed before this attempt

vars == <<cfg, options, queue, workers, task, busy, attempt, delay>>

NoOverrides == [maxRetries |-> Unset, retryDelay |-> Unset]

-----------------------------------------------------------------------------
\* config.Validate
Valid(c) ==
    /\ c.memoryType \in {"in-memory", "mongo-db"}
    /\ c.backoff \in Strategies
    /\ c.workerCount > 0
    /\ c.queueSize > 0
    /\ c.maxRetries >= 0
    /\ c.jobTimeout >= 0
    /\ c.shutdownTimeout >= 0
    /\ c.retryDelay >= 0
    /\ c.maxRetryDelay >= 0

Init ==
    /\ cfg = DefaultConfig
    /\ options = 0
    /\ queue = "none"
    /\ workers = 0
    /\ task = NoOverrides
    /\ busy = FALSE
    /\ attempt = 0
    /\ delay = 0

\* An Option given to NewQueue sets its field, whatever the value.
ApplyOption(field) ==
    /\ queue = "none"
    /\ options < MaxOptions
    /\ \E value \in Values[field] : cfg' = [cfg EXCEPT ![field] = value]
    /\ options' = options + 1
    /\ UNCHANGED <<queue, workers, task, busy, attempt, delay>>

\* NewQueue, after its options: Validate, then NewDispatcher with its workers.
NewQueue ==
    /\ queue = "none"
    /\ IF Valid(cfg)
       THEN queue' = "open" /\ workers' = cfg.workerCount
       ELSE queue' = "refused" /\ UNCHANGED workers
    /\ UNCHANGED <<cfg, options, task, busy, attempt, delay>>

\* Submit, TrySubmit or Run with any of the two options, up to a worker's
\* execute.  Nothing validates the overrides.
Submit ==
    /\ queue = "open" /\ workers > 0 /\ ~busy
    /\ \E retries \in RetryOverrides \cup {Unset}, wait \in DelayOverrides \cup {Unset} :
          task' = [maxRetries |-> retries, retryDelay |-> wait]
    /\ busy' = TRUE
    /\ attempt' = 0
    /\ delay' = 0
    /\ UNCHANGED <<cfg, options, queue, workers>>

-----------------------------------------------------------------------------
\* What execute uses for its task.
Limit == IF task.maxRetries = Unset THEN cfg.maxRetries ELSE task.maxRetries
Base  == IF task.retryDelay = Unset THEN cfg.retryDelay ELSE task.retryDelay

\* An attempt failed and is not the last: the delay is computed, and waited for
\* unless it is zero or negative.
Retry ==
    /\ busy
    /\ attempt < Limit /\ attempt < MaxAttempts
    /\ delay' \in DelaysOf(Base, cfg.maxRetryDelay, attempt, cfg.backoff)
    /\ attempt' = attempt + 1
    /\ UNCHANGED <<cfg, options, queue, workers, task, busy>>

\* retryDelay panics, outside the recover of runJob: the worker is gone.
RetryPanics ==
    /\ busy
    /\ attempt < Limit
    /\ MayPanic(Base, cfg.maxRetryDelay, attempt, cfg.backoff)
    /\ workers' = workers - 1
    /\ busy' = FALSE
    /\ UNCHANGED <<cfg, options, queue, task, attempt, delay>>

\* The task succeeds, or fails for the last time.
Settle ==
    /\ busy
    /\ busy' = FALSE
    /\ UNCHANGED <<cfg, options, queue, workers, task, attempt, delay>>

\* No queue, or no worker left to take a task.
Terminated ==
    /\ queue = "refused" \/ (queue = "open" /\ workers = 0)
    /\ UNCHANGED vars

Next ==
    \/ \E field \in Fields : ApplyOption(field)
    \/ NewQueue
    \/ Submit
    \/ Retry \/ RetryPanics \/ Settle
    \/ Terminated

Spec == Init /\ [][Next]_vars

-----------------------------------------------------------------------------
\* The variables keep to their types; a delay is a duration, whatever was
\* configured.
TypeOK ==
    /\ DOMAIN cfg = Fields
    /\ options \in 0 .. MaxOptions
    /\ queue \in {"none", "open", "refused"}
    /\ workers \in Nat
    /\ task.maxRetries \in RetryOverrides \cup {Unset}
    /\ task.retryDelay \in DelayOverrides \cup {Unset}
    /\ busy \in BOOLEAN
    /\ attempt \in 0 .. MaxAttempts
    /\ delay \in Durations

\* A retry waits what config.go:24-79 says for the strategy, base and number of
\* this retry, the override of the submission before the setting of the queue,
\* and a jitter less than that; exactly, as long as no number is beyond the
\* integers or between two floats.
DelaysFollowFormula ==
    busy /\ attempt > 0 /\ Base >= 0 =>
        LET wanted == Formula(Base, cfg.maxRetryDelay, attempt, cfg.backoff)
            fits   == wanted <= MaxInt /\ Exact(Base) /\ Exact(cfg.maxRetryDelay)
        IN  fits => IF cfg.backoff = "exponential-jitter" /\ Base > 0
                    THEN delay \in 0 .. wanted - 1
                    ELSE delay = wanted

\* MaxRetryDelay keeps the exponential strategies from overflowing: whatever
\* the base and however many attempts, the delay is not negative and exceeds the
\* cap by no more than its rounding to a float.
CapBoundsDelays ==
    /\ busy
    /\ cfg.backoff \in {"exponential", "exponential-jitter"}
    /\ cfg.maxRetryDelay > 0 /\ AsFloat(cfg.maxRetryDelay) <= MaxInt
    => delay \in 0 .. AsFloat(cfg.maxRetryDelay)

\* With such a cap no worker is lost to a panic of the jitter.
CapKeepsWorkers ==
    /\ queue = "open"
    /\ cfg.maxRetryDelay > 0 /\ AsFloat(cfg.maxRetryDelay) <= MaxInt
    => workers = cfg.workerCount

\* Strategies without jitter whose delay before the n-th retry fits an integer:
\* Exponential under such a cap, and Linear, which no cap holds back, as long as
\* its multiplication does not wrap around.
Steady(n) ==
    \/ cfg.backoff = "constant"
    \/ cfg.backoff = "linear" /\ Base * n <= MaxInt
    \/ /\ cfg.backoff = "exponential"
       /\ cfg.maxRetryDelay > 0 /\ AsFloat(cfg.maxRetryDelay) <= MaxInt

\* As long as nothing overflows, the retries of one task never come faster under
\* a strategy without jitter: a delay is at least the one before, and so stays
\* positive, which is when execute waits at all.
RetriesNeverSpeedUp ==
    [][ attempt > 0 /\ attempt' = attempt + 1 /\ Steady(attempt') => delay' >= delay ]_vars
============================================================================
