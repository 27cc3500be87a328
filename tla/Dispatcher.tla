---------------------------- MODULE Dispatcher ----------------------------
(***************************************************************************)
(* The worker pool of dispatcher/dispatcher.go: calls of Submit and        *)
(* TrySubmit offer tasks to a bounded channel, WorkerCount goroutines take *)
(* them and run the retry loop of execute, and calls of CloseWithMode shut *)
(* the pool down in drain or immediate mode.                               *)
(*                                                                         *)
(* A task is named by the one Submit or TrySubmit call that offers it, and *)
(* a closer is one call of Close or CloseWithMode.                         *)
(*                                                                         *)
(* A definition whose comment starts with "Fault" is a wrong version of    *)
(* the one after it.  The specification does not use it; it is put in the  *)
(* place of the right one to see which property notices.                   *)
(***************************************************************************)
EXTENDS Integers, SequencesExt, FiniteSetsExt

CONSTANTS
    Tasks,           \* the submissions
    Workers,         \* the goroutines started by NewDispatcher
    Closers,         \* the calls of CloseWithMode
    Methods,         \* the submitting calls made: "submit", "try", "invalid"
    Modes,           \* the closing calls made: "drain", "immediate", "invalid"
    QueueSize,       \* cfg.QueueSize, the capacity of the tasks channel
    CfgMaxRetries,   \* cfg.MaxRetries
    Overrides,       \* values of Task.MaxRetries, NoOverride for nil
    NoOverride,
    Delays,          \* values retryDelay may return
    HasPredicate,    \* whether a retry predicate is configured
    PredicatePanics, \* whether the predicate (or rand.Int63n) may panic
    NoTask

ASSUME QueueAssumption == QueueSize \in Nat
ASSUME CallAssumption ==
    /\ Methods \subseteq {"submit", "try", "invalid"}
    /\ Modes \subseteq {"drain", "immediate", "invalid"}
ASSUME RetryAssumption ==
    /\ CfgMaxRetries \in Int
    /\ NoOverride \notin Int
    /\ Overrides \subseteq Int \cup {NoOverride}
    /\ Delays \subseteq Int
ASSUME TaskAssumption == NoTask \notin Tasks
ASSUME WorkerAssumption == IsFiniteSet(Workers)
ASSUME PredicateAssumption ==
    /\ HasPredicate \in BOOLEAN
    /\ PredicatePanics \in BOOLEAN

VARIABLES
    spc,      \* where each Submit or TrySubmit call is
    call,     \* its parameters: which method, and the override of MaxRetries
    sctx,     \* whether its context is done
    tasks,    \* the channel: its buffer, then the values of blocked senders
    closed,   \* d.closed, and whether the channel is closed
    quit,     \* whether the quit channel is closed
    wpc,      \* where each worker is
    wtask,    \* the task it executes
    attempt,  \* the loop variable of execute
    cpc,      \* where each CloseWithMode call is
    mode,     \* its shutdown mode
    cctx,     \* whether its context is done
    stats,    \* the counters of stats.Collector
    outcome,  \* history: how each task ended
    runs      \* history: how often Process was called for each task

subVars   == <<spc, call, sctx>>
workVars  == <<wpc, wtask, attempt>>
closeVars == <<cpc, mode, cctx>>
histVars  == <<outcome, runs>>
vars == <<subVars, tasks, closed, quit, workVars, closeVars, stats, histVars>>

Counters == {"enqueued", "processed", "failed", "retried", "dropped", "refused"}
Returned == {"ok", "closed", "full", "cancelled", "invalid"}
Outcomes == {"succeeded", "exhausted", "refused", "abandoned", "lost"}

TypeOK ==
    /\ spc \in [Tasks -> {"new", "rlock", "locked", "parked", "sent"} \cup Returned]
    /\ call \in [Tasks -> [method : {"submit", "try"}, retries : Overrides \cup {NoOverride}]]
    /\ sctx \in [Tasks -> BOOLEAN]
    /\ tasks \in Seq(Tasks)
    /\ closed \in BOOLEAN
    /\ quit \in BOOLEAN
    /\ wpc \in [Workers -> {"recv", "parked", "loop", "run", "refusal", "sleep", "exited", "dead"}]
    /\ wtask \in [Workers -> Tasks \cup {NoTask}]
    /\ attempt \in [Workers -> Nat]
    /\ cpc \in [Closers -> {"new", "lock", "await", "wait", "signal", "nil", "ctxErr", "invalid", "panic"}]
    /\ mode \in [Closers -> {"drain", "immediate"}]
    /\ cctx \in [Closers -> BOOLEAN]
    /\ stats \in [Counters -> Nat]
    /\ outcome \in [Tasks -> Outcomes \cup {"none"}]
    /\ runs \in [Tasks -> Nat]

\* NewDispatcher: an empty open channel and every worker about to receive.
Init ==
    /\ spc = [t \in Tasks |-> "new"]
    /\ call = [t \in Tasks |-> [method |-> "submit", retries |-> NoOverride]]
    /\ sctx = [t \in Tasks |-> FALSE]
    /\ tasks = <<>>
    /\ closed = FALSE
    /\ quit = FALSE
    /\ wpc = [w \in Workers |-> "recv"]
    /\ wtask = [w \in Workers |-> NoTask]
    /\ attempt = [w \in Workers |-> 0]
    /\ cpc = [c \in Closers |-> "new"]
    /\ mode = [c \in Closers |-> "drain"]
    /\ cctx = [c \in Closers |-> FALSE]
    /\ stats = [s \in Counters |-> 0]
    /\ outcome = [t \in Tasks |-> "none"]
    /\ runs = [t \in Tasks |-> 0]

Count(S) == stats' = [s \in Counters |-> IF s \in S THEN stats[s] + 1 ELSE stats[s]]

---------------------------------------------------------------------------
(* The submit side.  submitMu is a sync.RWMutex: its readers are the calls *)
(* between RLock and the deferred RUnlock, and a pending writer holds back *)
(* every later RLock.                                                      *)

\* Fault: the read lock is released before the select.
ReadersUntilSelect == {t \in Tasks : spc[t] = "locked"}

Readers == {t \in Tasks : spc[t] \in {"locked", "parked", "sent"}}

WriterPending == \E c \in Closers : cpc[c] = "await"

\* A nil context or job is refused before the lock is touched.
SubmitInvalid(t) ==
    /\ spc[t] = "new"
    /\ "invalid" \in Methods
    /\ spc' = [spc EXCEPT ![t] = "invalid"]
    /\ UNCHANGED <<call, sctx, tasks, closed, quit, workVars, closeVars, stats, histVars>>

\* Submit or TrySubmit up to RLock, which waits behind a pending Close.
SubmitCall(t, method, retries) ==
    /\ spc[t] = "new"
    /\ spc' = [spc EXCEPT ![t] = IF WriterPending THEN "rlock" ELSE "locked"]
    /\ call' = [call EXCEPT ![t] = [method |-> method, retries |-> retries]]
    /\ UNCHANGED <<sctx, tasks, closed, quit, workVars, closeVars, stats, histVars>>

\* The caller's context ends before Submit returns; one that was done before
\* the call shows there first, and TrySubmit only compares its own with nil.
SubmitCtxDone(t) ==
    /\ spc[t] \in {"rlock", "locked", "parked"}
    /\ call[t].method = "submit"
    /\ ~sctx[t]
    /\ sctx' = [sctx EXCEPT ![t] = TRUE]
    /\ UNCHANGED <<spc, call, tasks, closed, quit, workVars, closeVars, stats, histVars>>

\* ErrClosed.
RejectClosed(t) ==
    /\ spc[t] = "locked"
    /\ closed
    /\ spc' = [spc EXCEPT ![t] = "closed"]
    /\ UNCHANGED <<call, sctx, tasks, closed, quit, workVars, closeVars, stats, histVars>>

\* Fault: d.closed is not consulted.
MaySendUnchecked(t) == spc[t] = "locked"

MaySend(t) == spc[t] = "locked" /\ ~closed

\* A send meets a waiting receiver, or finds room in the buffer.
SendReady == (\E w \in Workers : wpc[w] = "parked") \/ Len(tasks) < QueueSize

HandOff(t, w) ==
    /\ MaySend(t)
    /\ wpc[w] = "parked"
    /\ spc' = [spc EXCEPT ![t] = "sent"]
    /\ wpc' = [wpc EXCEPT ![w] = "loop"]
    /\ wtask' = [wtask EXCEPT ![w] = t]
    /\ UNCHANGED <<call, sctx, tasks, closed, quit, attempt, closeVars, stats, histVars>>

Buffer(t) ==
    /\ MaySend(t)
    /\ \A w \in Workers : wpc[w] # "parked"
    /\ Len(tasks) < QueueSize
    /\ spc' = [spc EXCEPT ![t] = "sent"]
    /\ tasks' = Append(tasks, t)
    /\ UNCHANGED <<call, sctx, closed, quit, workVars, closeVars, stats, histVars>>

\* Submit's select finds neither case ready: the sender queues up, RLock held.
SubmitPark(t) ==
    /\ MaySend(t)
    /\ call[t].method = "submit"
    /\ ~SendReady
    /\ ~sctx[t]
    /\ spc' = [spc EXCEPT ![t] = "parked"]
    /\ tasks' = Append(tasks, t)
    /\ UNCHANGED <<call, sctx, closed, quit, workVars, closeVars, stats, histVars>>

\* Submit's select takes ctx.Done(), at once or after waiting.
SubmitCancelled(t) ==
    /\ MaySend(t) \/ spc[t] = "parked"
    /\ call[t].method = "submit"
    /\ sctx[t]
    /\ spc' = [spc EXCEPT ![t] = "cancelled"]
    /\ \/ MaySend(t) /\ UNCHANGED tasks
       \/ \E i \in DOMAIN tasks : tasks[i] = t /\ tasks' = RemoveAt(tasks, i)
    /\ Count({"dropped"})
    /\ UNCHANGED <<call, sctx, closed, quit, workVars, closeVars, histVars>>

\* TrySubmit's default branch: ErrQueueFull.
TrySubmitFull(t) ==
    /\ MaySend(t)
    /\ call[t].method = "try"
    /\ ~SendReady
    /\ spc' = [spc EXCEPT ![t] = "full"]
    /\ Count({"dropped"})
    /\ UNCHANGED <<call, sctx, tasks, closed, quit, workVars, closeVars, histVars>>

\* The sender counts its task after a worker may already have run it.
SubmitReturns(t) ==
    /\ spc[t] = "sent"
    /\ spc' = [spc EXCEPT ![t] = "ok"]
    /\ Count({"enqueued"})
    /\ UNCHANGED <<call, sctx, tasks, closed, quit, workVars, closeVars, histVars>>

---------------------------------------------------------------------------
(* The workers.                                                            *)

Limit(t) == IF call[t].retries = NoOverride THEN CfgMaxRetries ELSE call[t].retries

\* A receive takes the head; the first blocked sender moves into the buffer.
SendersAfterReceive ==
    IF Len(tasks) > QueueSize THEN [spc EXCEPT ![tasks[QueueSize + 1]] = "sent"] ELSE spc

Receive(w) ==
    /\ wpc[w] = "recv"
    /\ tasks # <<>>
    /\ tasks' = Tail(tasks)
    /\ wtask' = [wtask EXCEPT ![w] = Head(tasks)]
    /\ wpc' = [wpc EXCEPT ![w] = "loop"]
    /\ spc' = SendersAfterReceive
    /\ UNCHANGED <<call, sctx, closed, quit, attempt, closeVars, stats, histVars>>

WorkerPark(w) ==
    /\ wpc[w] = "recv"
    /\ tasks = <<>>
    /\ ~closed
    /\ wpc' = [wpc EXCEPT ![w] = "parked"]
    /\ UNCHANGED <<subVars, tasks, closed, quit, wtask, attempt, closeVars, stats, histVars>>

\* Fault: quit also ends the worker's loop.
QueueDoneOnQuit == closed /\ (quit \/ tasks = <<>>)

\* range ends on a closed channel, wg.Done() runs.
QueueDone == closed /\ tasks = <<>>

WorkerExit(w) ==
    /\ wpc[w] = "recv"
    /\ QueueDone
    /\ wpc' = [wpc EXCEPT ![w] = "exited"]
    /\ UNCHANGED <<subVars, tasks, closed, quit, wtask, attempt, closeVars, stats, histVars>>

\* Fault: the first attempt is counted as a retry.
MayAttemptStrictly(w) == attempt[w] < Limit(wtask[w])

\* The condition of execute's for loop.
MayAttempt(w) == attempt[w] <= Limit(wtask[w])

\* The body of the loop starts: runJob calls Process.
BeginAttempt(w) ==
    /\ wpc[w] = "loop"
    /\ MayAttempt(w)
    /\ wpc' = [wpc EXCEPT ![w] = "run"]
    /\ runs' = [runs EXCEPT ![wtask[w]] = @ + 1]
    /\ UNCHANGED <<subVars, tasks, closed, quit, wtask, attempt, closeVars, stats, outcome>>

\* execute is left with the outcome o, and the worker goes on at pc.
LeaveExecute(w, o, pc) ==
    /\ wpc' = [wpc EXCEPT ![w] = pc]
    /\ wtask' = [wtask EXCEPT ![w] = NoTask]
    /\ attempt' = [attempt EXCEPT ![w] = 0]
    /\ outcome' = [outcome EXCEPT ![wtask[w]] = o]
    /\ UNCHANGED <<subVars, tasks, closed, quit, closeVars, runs>>

\* Fault: the loop counts down.
PreviousAttempt(w) ==
    /\ wpc' = [wpc EXCEPT ![w] = "loop"]
    /\ attempt' = [attempt EXCEPT ![w] = @ - 1]

NextAttempt(w) ==
    /\ wpc' = [wpc EXCEPT ![w] = "loop"]
    /\ attempt' = [attempt EXCEPT ![w] = @ + 1]

JobSucceeds(w) ==
    /\ wpc[w] = "run"
    /\ Count({"processed"})
    /\ LeaveExecute(w, "succeeded", "recv")

\* The job failed and the predicate refuses a retry: IncRetryPredicatesFailed.
PredicateRefuses(w) ==
    /\ wpc[w] = "run"
    /\ HasPredicate
    /\ Count({"refused"})
    /\ wpc' = [wpc EXCEPT ![w] = "refusal"]
    /\ UNCHANGED <<subVars, tasks, closed, quit, wtask, attempt, closeVars, histVars>>

\* Fault: the refused task is counted as a refusal only.
RefusalUncounted(w) ==
    /\ wpc[w] = "refusal"
    /\ UNCHANGED stats
    /\ LeaveExecute(w, "refused", "recv")

\* IncFailed follows, and Stats may have been read in between.
RefusalFails(w) ==
    /\ wpc[w] = "refusal"
    /\ Count({"failed"})
    /\ LeaveExecute(w, "refused", "recv")

\* The job failed and is retried after delay, at once when that is 0.
Retry(w, delay) ==
    /\ wpc[w] = "run"
    /\ attempt[w] < Limit(wtask[w])
    /\ Count({"retried"})
    /\ IF delay > 0
       THEN wpc' = [wpc EXCEPT ![w] = "sleep"] /\ UNCHANGED attempt
       ELSE NextAttempt(w)
    /\ UNCHANGED <<subVars, tasks, closed, quit, wtask, closeVars, histVars>>

\* Fault: the last failure is counted like the others.
LastFailureCounted(w) ==
    /\ wpc[w] = "run"
    /\ attempt[w] >= Limit(wtask[w])
    /\ NextAttempt(w)
    /\ Count({"retried"})
    /\ UNCHANGED <<subVars, tasks, closed, quit, wtask, closeVars, histVars>>

\* The last attempt failed: the loop variable passes its limit.
LastFailure(w) ==
    /\ wpc[w] = "run"
    /\ attempt[w] >= Limit(wtask[w])
    /\ NextAttempt(w)
    /\ UNCHANGED <<subVars, tasks, closed, quit, wtask, closeVars, stats, histVars>>

\* Fault: a failed task ends its worker.
ExhaustedWorker(w) ==
    /\ wpc[w] = "loop"
    /\ ~MayAttempt(w)
    /\ Count({"failed"})
    /\ LeaveExecute(w, "exhausted", "exited")

Exhausted(w) ==
    /\ wpc[w] = "loop"
    /\ ~MayAttempt(w)
    /\ Count({"failed"})
    /\ LeaveExecute(w, "exhausted", "recv")

\* The retry timer fires.
Wake(w) ==
    /\ wpc[w] = "sleep"
    /\ NextAttempt(w)
    /\ UNCHANGED <<subVars, tasks, closed, quit, wtask, closeVars, stats, histVars>>

\* Fault: the sleep does not watch the quit channel.
AbandonNever(w) == FALSE

\* Fault: no return after the abandoned task is counted.
AbandonAndGoOn(w) ==
    /\ wpc[w] = "sleep"
    /\ quit
    /\ Count({"failed"})
    /\ NextAttempt(w)
    /\ outcome' = [outcome EXCEPT ![wtask[w]] = "abandoned"]
    /\ UNCHANGED <<subVars, tasks, closed, quit, wtask, closeVars, runs>>

\* The quit channel interrupts the sleep; the task counts as failed.
Abandon(w) ==
    /\ wpc[w] = "sleep"
    /\ quit
    /\ Count({"failed"})
    /\ LeaveExecute(w, "abandoned", "recv")

\* A panic outside runJob: the predicate's before IncRetried, rand.Int63n's
\* after it.  The deferred recover ends the worker without counting the task.
WorkerPanics(w, counted) ==
    /\ wpc[w] = "run"
    /\ PredicatePanics
    /\ counted \in SUBSET {"retried"}
    /\ counted # {} => attempt[w] < Limit(wtask[w])
    /\ Count(counted)
    /\ LeaveExecute(w, "lost", "dead")

---------------------------------------------------------------------------
(* CloseWithMode.                                                          *)

\* A nil context or an unknown mode.
CloseInvalid(c) ==
    /\ cpc[c] = "new"
    /\ "invalid" \in Modes
    /\ cpc' = [cpc EXCEPT ![c] = "invalid"]
    /\ UNCHANGED <<subVars, tasks, closed, quit, workVars, mode, cctx, stats, histVars>>

CloseCall(c, m) ==
    /\ cpc[c] = "new"
    /\ cpc' = [cpc EXCEPT ![c] = "lock"]
    /\ mode' = [mode EXCEPT ![c] = m]
    /\ UNCHANGED <<subVars, tasks, closed, quit, workVars, cctx, stats, histVars>>

\* The context of a Close in drain mode ends; immediate mode never reads it.
CloseCtxDone(c) ==
    /\ cpc[c] \in {"lock", "await", "wait"}
    /\ mode[c] = "drain"
    /\ ~cctx[c]
    /\ cctx' = [cctx EXCEPT ![c] = TRUE]
    /\ UNCHANGED <<subVars, tasks, closed, quit, workVars, cpc, mode, stats, histVars>>

\* Lock, first half: one writer at a time announces itself to the readers.
CloseAnnounce(c) ==
    /\ cpc[c] = "lock"
    /\ ~WriterPending
    /\ cpc' = [cpc EXCEPT ![c] = "await"]
    /\ UNCHANGED <<subVars, tasks, closed, quit, workVars, mode, cctx, stats, histVars>>

\* Fault: every Close closes the channel.
ClosesTasksAgain == TRUE

\* The condition of close(d.tasks).
ClosesTasks == ~closed

\* Fault: d.closed is set and the channel left open.
CloseFlagOnly(c) ==
    /\ cpc[c] = "await"
    /\ Readers = {}
    /\ closed' = TRUE
    /\ spc' = [t \in Tasks |-> IF spc[t] = "rlock" THEN "locked" ELSE spc[t]]
    /\ cpc' = [cpc EXCEPT ![c] = IF mode[c] = "immediate" THEN "signal" ELSE "wait"]
    /\ UNCHANGED <<call, sctx, tasks, quit, workVars, mode, cctx, stats, histVars>>

\* Lock, second half, once the readers are gone, up to Unlock.  close(d.tasks)
\* wakes the parked workers and panics on a closed channel, Unlock lets the
\* waiting RLock calls in.
CloseChannel(c) ==
    /\ cpc[c] = "await"
    /\ Readers = {}
    /\ closed' = TRUE
    /\ wpc' = [w \in Workers |-> IF wpc[w] = "parked" THEN "recv" ELSE wpc[w]]
    /\ spc' = [t \in Tasks |-> IF spc[t] = "rlock" THEN "locked" ELSE spc[t]]
    /\ cpc' = [cpc EXCEPT ![c] = CASE closed /\ ClosesTasks -> "panic"
                                   [] mode[c] = "immediate"  -> "signal"
                                   [] OTHER                  -> "wait"]
    /\ UNCHANGED <<call, sctx, tasks, quit, wtask, attempt, mode, cctx, stats, histVars>>

\* quitOnce: signalQuit closes the quit channel the first time only.
ClosesQuit == ~quit

\* signalQuit, and the return of the call with the result; it would panic if
\* it closed the quit channel again.
SignalQuit(c, result) ==
    /\ quit' = TRUE
    /\ cpc' = [cpc EXCEPT ![c] = IF quit /\ ClosesQuit THEN "panic" ELSE result]

\* Immediate mode: return nil.
CloseSignals(c) ==
    /\ cpc[c] = "signal"
    /\ SignalQuit(c, "nil")
    /\ UNCHANGED <<subVars, tasks, closed, workVars, mode, cctx, stats, histVars>>

\* Fault: one worker is enough.
AnyWorkerDone == \E w \in Workers : wpc[w] \in {"exited", "dead"}

\* wg.Wait() returns.
WorkersDone == \A w \in Workers : wpc[w] \in {"exited", "dead"}

\* Drain mode: done is closed, return nil.
CloseDrained(c) ==
    /\ cpc[c] = "wait"
    /\ WorkersDone
    /\ cpc' = [cpc EXCEPT ![c] = "nil"]
    /\ UNCHANGED <<subVars, tasks, closed, quit, workVars, mode, cctx, stats, histVars>>

\* Drain mode: the context ends first, return ctx.Err().
CloseTimesOut(c) ==
    /\ cpc[c] = "wait"
    /\ cctx[c]
    /\ SignalQuit(c, "ctxErr")
    /\ UNCHANGED <<subVars, tasks, closed, workVars, mode, cctx, stats, histVars>>

---------------------------------------------------------------------------

\* The steps of one call or worker that are the program's own to take.
SubmitStep(t) ==
    \/ RejectClosed(t)
    \/ \E w \in Workers : HandOff(t, w)
    \/ Buffer(t)
    \/ SubmitPark(t)
    \/ SubmitCancelled(t)
    \/ TrySubmitFull(t)
    \/ SubmitReturns(t)

JobEnds(w) ==
    \/ JobSucceeds(w)
    \/ PredicateRefuses(w)
    \/ \E delay \in Delays : Retry(w, delay)
    \/ LastFailure(w)
    \/ \E counted \in SUBSET {"retried"} : WorkerPanics(w, counted)

WorkerStep(w) ==
    \/ Receive(w)
    \/ WorkerPark(w)
    \/ WorkerExit(w)
    \/ BeginAttempt(w)
    \/ RefusalFails(w)
    \/ Exhausted(w)
    \/ Abandon(w)

CloseStep(c) ==
    \/ CloseAnnounce(c)
    \/ CloseChannel(c)
    \/ CloseSignals(c)
    \/ CloseDrained(c)
    \/ CloseTimesOut(c)

\* Every call has ended and no worker has anything to do.
Quiescent ==
    /\ \A t \in Tasks : spc[t] \in Returned
    /\ \A c \in Closers : cpc[c] \in {"nil", "ctxErr", "invalid", "panic"}
    /\ \A w \in Workers : wpc[w] \in {"parked", "exited", "dead"}

Terminated == Quiescent /\ UNCHANGED vars

Next ==
    \/ \E t \in Tasks :
        \/ SubmitInvalid(t)
        \/ \E m \in Methods \ {"invalid"}, o \in Overrides : SubmitCall(t, m, o)
        \/ SubmitCtxDone(t)
        \/ SubmitStep(t)
    \/ \E w \in Workers : WorkerStep(w) \/ JobEnds(w) \/ Wake(w)
    \/ \E c \in Closers :
        \/ CloseInvalid(c)
        \/ \E m \in Modes \ {"invalid"} : CloseCall(c, m)
        \/ CloseCtxDone(c)
        \/ CloseStep(c)
    \/ Terminated

Spec == Init /\ [][Next]_vars
---------------------------------------------------------------------------
(* Safety.                                                                 *)

Accepted == {t \in Tasks : spc[t] \in {"sent", "ok"}}

Buffered == {tasks[i] : i \in 1..Len(tasks) \cap 1..QueueSize}

BlockedSenders == {tasks[i] : i \in QueueSize+1..Len(tasks)}

Held == {wtask[w] : w \in Workers} \ {NoTask}

Settled == {t \in Tasks : outcome[t] # "none"}

\* Closing the channel under a blocked sender would panic in Submit: when it
\* is closed no call is past the closed check of Submit or TrySubmit with its
\* send still to come, and a blocked sender always holds its read lock.
NoSenderOnClosedChannel ==
    closed => \A t \in Tasks : spc[t] # "parked"

\* Every task a call handed over is in exactly one place, the buffer, the
\* hands of one worker or its outcome, and a task whose call was refused,
\* cancelled or is still blocked is in none of them: no task is lost, run
\* by two workers, or run although its Submit returned an error.
EachTaskInOnePlace ==
    /\ \A i, j \in DOMAIN tasks : tasks[i] = tasks[j] => i = j
    /\ \A v, w \in Workers : wtask[v] = wtask[w] /\ wtask[v] # NoTask => v = w
    /\ Buffered \cap Held = {}
    /\ Buffered \cap Settled = {}
    /\ Held \cap Settled = {}
    /\ Buffered \cup Held \cup Settled = Accepted
    /\ BlockedSenders = {t \in Tasks : spc[t] = "parked"}

\* The counters of Stats agree with the tasks at every moment: IncEnqueued
\* lags the send by the submitters that have not counted yet, and Processed
\* plus Failed lag by what is queued, executing or lost to a worker panic.
\* RetryPredicatesFailed is ahead of Failed: it counts the refused tasks and
\* those whose workers are between the two increments, and may exceed Failed.
StatsBalance ==
    /\ stats.enqueued + Cardinality({t \in Tasks : spc[t] = "sent"})
         = stats.processed + stats.failed
           + Cardinality(Buffered \cup Held \cup {t \in Tasks : outcome[t] = "lost"})
    /\ stats.dropped = Cardinality({t \in Tasks : spc[t] \in {"full", "cancelled"}})
    /\ stats.refused = Cardinality({t \in Tasks : outcome[t] = "refused"})
                        + Cardinality({w \in Workers : wpc[w] = "refusal"})

\* Close in drain mode returns nil only when every task any Submit handed over
\* has settled and been counted, whichever calls raced with it.  One worker that
\* no panic has ended is enough; only a task that ended its worker is uncounted.
DrainAccountsForEveryTask ==
    (\E c \in Closers : cpc[c] = "nil" /\ mode[c] = "drain")
    /\ (\E w \in Workers : wpc[w] # "dead")
        => /\ Accepted \subseteq Settled
           /\ Accepted = {t \in Tasks : spc[t] = "ok"}
           /\ stats.enqueued = stats.processed + stats.failed
                 + Cardinality({t \in Tasks : outcome[t] = "lost"})

\* How often Process ran for a settled task: one attempt and at most Limit
\* retries, all of them when the retries are exhausted, none at all when the
\* limit is negative; a task is abandoned only with a retry left and only
\* after a Close asked for it.
RunsMatchOutcome ==
    \A t \in Tasks :
        LET allowed == IF Limit(t) < 0 THEN 0 ELSE Limit(t) + 1 IN
        /\ runs[t] <= allowed
        /\ outcome[t] = "exhausted" => runs[t] = allowed
        /\ outcome[t] \in {"succeeded", "refused", "lost"} => runs[t] > 0
        /\ outcome[t] = "abandoned" => quit /\ runs[t] \in 1..Limit(t)

\* IncRetried runs before the retry does.  Each retry it counts has become a
\* call of Process, is on its way to one, or was cut short: by quit, or by the
\* panic of the worker, which may come before or after the count.
RetriesBecomeRuns ==
    LET begun == {t \in Tasks : runs[t] > 0}
        again == SumFunctionOnSet(runs, begun) - Cardinality(begun)
        onTheWay == {w \in Workers :
                        \/ wpc[w] = "sleep"
                        \/ wpc[w] = "loop" /\ attempt[w] > 0 /\ MayAttempt(w)}
        cutShort == {t \in Tasks : outcome[t] = "abandoned"}
        lost == {t \in Tasks : outcome[t] = "lost"}
    IN  stats.retried - again - Cardinality(onTheWay) - Cardinality(cutShort)
            \in 0..Cardinality(lost)

\* A worker that ended normally left nothing in the channel, and no later
\* Submit can put anything there.
WorkersLeaveNothingBehind ==
    (\E w \in Workers : wpc[w] = "exited") => closed /\ tasks = <<>>

\* No receiver sleeps while the channel holds a task or is closed: the channel
\* operations lose no wake-up.
NoLostWakeup ==
    (\E w \in Workers : wpc[w] = "parked") => ~closed /\ tasks = <<>>

\* Once the dispatcher is closed no call, not even one that was already past
\* its checks, hands a task over or starts to wait with one.
ClosedQueueTakesNothing ==
    [][closed => Accepted' \subseteq Accepted /\ Range(tasks') \subseteq Range(tasks)]_vars

\* A settled task stays settled: Process is not called again for it and its
\* outcome does not change.
SettledOnce ==
    [][\A t \in Settled : outcome'[t] = outcome[t] /\ runs'[t] = runs[t]]_vars

\* A call that arrives while a Close waits for the lock is turned away even
\* though the dispatcher is not closed yet.
LateSubmitsAreRejected ==
    \A t \in Tasks : [](spc[t] = "rlock" => [](t \notin Accepted))

---------------------------------------------------------------------------
(* Fairness and liveness.                                                  *)

\* Goroutines that can run eventually do.  Nothing is assumed of the callers:
\* a call need not be made and a context need not end.
SchedulerFairness ==
    /\ \A t \in Tasks : WF_vars(SubmitStep(t))
    /\ \A w \in Workers : WF_vars(WorkerStep(w))
    /\ \A c \in Closers : WF_vars(CloseStep(c))

\* A retry timer fires in the end, but after signalQuit nobody may have to wait
\* for it: a delay can be hours long.
TimerFairness == \A w \in Workers : WF_vars(~quit /\ Wake(w))

\* Process returns in the end.
JobFairness == \A w \in Workers : WF_vars(JobEnds(w))

\* Jobs may run for ever.
SchedSpec == Spec /\ SchedulerFairness /\ TimerFairness

\* No job runs for ever.
FairSpec == SchedSpec /\ JobFairness

\* Every task handed over settles in the end.
AcceptedTasksSettle == \A t \in Tasks : t \in Accepted ~> t \in Settled

\* Every call of Submit returns, also one that was blocked on a full queue or
\* on the lock when Close came.
SubmitsReturn == \A t \in Tasks : spc[t] # "new" ~> spc[t] \in Returned

\* Every Close returns, whatever the number of concurrent ones, and none of
\* them by a panic because another has closed the channel or quit before.
ClosesReturn ==
    \A c \in Closers : cpc[c] # "new" ~> cpc[c] \in {"nil", "ctxErr", "invalid"}

\* After signalQuit the workers end without any retry timer having to fire.
QuitEndsWorkers == quit ~> WorkersDone

---------------------------------------------------------------------------
(* The dispatcher implements the abstract queue.                           *)

Queue == INSTANCE JobQueue WITH
    line <- tasks, running <- Held, settled <- Settled, open <- ~closed,
    WorkerCount <- Cardinality(Workers), Capacity <- QueueSize

\* Tasks start in the order in which their sends took effect, at most
\* WorkerCount at a time and each one once; only a blocked submitter can take
\* its task back, and Close finds none of them.
ImplementsJobQueue == Queue!Spec

\* With fair goroutines, timers and jobs also nothing is stuck in the line.
ImplementsFairJobQueue == Queue!FairSpec
===========================================================================
