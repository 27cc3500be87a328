# gokue in TLA+

gokue is an in-process job queue for Go: a bounded channel, a pool of worker
goroutines that run jobs with retries and backoff, two shutdown modes, counters,
and a `backend` package that stores job records in memory or in MongoDB. This
directory holds TLA+ modules translated from its source, the TLC configurations
that check them on small instances, and TLAPS proofs of what holds for every
instance. Paths and line numbers below are relative to the repository root.

## 1. Inventory

| Component | Source | State | Operations |
|---|---|---|---|
| Dispatcher | `dispatcher/dispatcher.go` | `tasks` channel, `closed` under `submitMu` (RWMutex), `quit` channel closed once, `wg`; per worker the loop of `execute` | `Submit`, `TrySubmit`, `Close`, `CloseWithMode`, `Stats`, the `worker` goroutine with `execute`, `runJob` |
| Retry backoff | `retryDelay` in `dispatcher.go` | none | a function of base, cap, attempt, strategy |
| Statistics | `stats/stats.go` | six atomic counters | six increments, `Snapshot` |
| Queue and options | `gokue.go`, `config/config.go` | a `Config`, a dispatcher, a collector | `NewQueue`, `Submit`, `TrySubmit`, `Run`, `Close`, `Stats`, options, `Default`, `Validate` |
| Store contract | `backend/backend.go` | job records with status and version | `Save`, `Get`, `Claim`, `Update`, `Delete`, `List`, `RequeueStale`, `Close` |
| Memory store | `backend/memory.go` | map of records under one mutex, `closed` | the contract |
| MongoDB store | `backend/mongodb/*.go` | a collection, the `Client` field of the connection | the contract, connection set-up and close |
| Codec | `backend/codec.go` | registry from names to types | `Register`, `Encode`, `Decode` |
| Job naming | `job/*.go` | none | `NameOf` |
| Logging | `internal/logger/*.go` | a zap logger | formatted output; nothing reads it |

How they interact: the queue forwards every call to its dispatcher; submitters,
workers and closers share the channel, the read-write lock, the quit channel and
the wait group; workers and submitters write the collector, `Stats` reads it.
Jobs and retry predicates are callbacks that run on a worker. The `backend`
package is not wired into the queue (`README.md:589-590`); its users call it.

What is hard here, and what correctness means for each part:

* **Dispatcher.** A `Submit` blocks on the full channel *while holding the read
  lock*, because `CloseWithMode` must not close the channel under it; `Close`
  therefore waits for it, and a waiting writer holds back every later `RLock`.
  Right means: no send on a closed channel; each task is in one place and runs
  only if its call said so; a drain that returns nil lost nothing; everything
  accepted settles; every call returns when jobs do; `quit` ends retry sleeps;
  the counters agree with what happened between any two increments.
* **Backoff.** Cap, overflow of 64-bit durations, the zero and the negative
  delay, the domain of `rand.Int63n`.
* **Statistics.** A snapshot is six separate loads between the steps of others.
* **Stores.** One claimer per record, oldest first; versions fence off writers
  that lost their claim; the lease of a worker races with its late answer;
  deletion and re-creation reset versions. Over a connection a call is several
  steps: clocks are read before the server acts, `UpdateMany` goes from document
  to document, `Update` decides its error in a second query, and any reply may be
  lost with the job it carried.
* **Codec.** What was encoded decodes to the same content, in this process and in
  a later one, although names carry no package and the registry is not persistent.
* **Jobs that use their own queue.** A job occupies the worker it may wait for.

`PROJECT.json` lists these hazards at their lines under `hazards`.

## 2. Modules

| Module | What it is |
|---|---|
| `Dispatcher` | submitters, workers and closers of `dispatcher.go`, one action per step that others can observe; the safety and liveness properties; the refinement of `JobQueue` |
| `JobQueue` | what a dispatcher promises: a FIFO line with bounded concurrency, withdrawal only while waiting, each task started once and settled |
| `DispatcherClaims` | sentences of comments and the README that the code does not keep |
| `MCDispatcher` | values of the constants for TLC |
| `DispatcherProofs` | theorems about `Dispatcher`: types, the channel, where tasks are |
| `PoolProofs` | theorems about its workers, counters, retries and closes, and the refinement of `JobQueue` |
| `CountingProofs` | lemmas about sums over finite sets, cardinalities and powers of two |
| `JobStore` | what `backend.go` promises of a store: an oldest pending job goes to one claimant, and a caller may write what it has seen the latest state of; no versions |
| `StoreClients` | what both stores share: records, the copies clients work on, time, the safety properties of any store, and what of a state the contract sees |
| `MemoryStore` | `memory.go`, one action per method; extends `StoreClients`, implements `JobStore` |
| `MongoStore` | `mongodb/store.go`, statement by statement; extends `StoreClients`, implements `JobStore` |
| `StoreProofs` | lemmas about the steps both stores consist of, and what they keep |
| `MemoryStoreProofs`, `MongoStoreProofs` | theorems about the two stores, and their refinement of `JobStore` |
| `MemoryStoreClaims` | a sentence of `backend.go` that the store does not keep |
| `MCMemoryStore`, `MCMongoStore` | values of the constants for TLC |
| `Codec`, `MCCodec` | `codec.go` and `NameOf`: registries of several processes and the encoded jobs that outlive them |
| `CodecProofs` | theorems about `Codec` |
| `ReentrantJobs`, `MCReentrantJobs` | `Dispatcher` with jobs that call `TrySubmit` of their own queue |
| `Backoff` | `retryDelay` as operators over words and floats of any width, and the documented formulas |
| `QueueConfig` | options, `Default`, `Validate`, `NewQueue`, the overrides of a submission, and the delays `execute` computes from them |
| `MCQueueConfig` | values of the constants for TLC |
| `QueueConfigProofs` | theorems about the delays, for any width of an integer |

The stores and the codec stand beside the queue: nothing in the code connects them.
`MemoryStore` and `MongoStore` are two implementations of one contract for the same
clients.
`QueueConfig` and `Dispatcher` model the same `execute` from two sides: the first
computes the delays, and the second takes any of them, because only the sign of a
delay decides what `execute` does with it.

### Dispatcher: state and actions

A task is identified with the one `Submit` or `TrySubmit` call that offers it.

| Variable | In the code |
|---|---|
| `spc` | where the call is: `new`; `rlock` (waiting in `RLock`); `locked` (holds the read lock, before the closed check and the select); `parked` (blocked in the send); `sent` (send done, not yet counted); or how it returned |
| `call`, `sctx` | which method, `Task.MaxRetries`; whether `ctx.Done()` is closed |
| `tasks` | the channel: the first `QueueSize` elements are its buffer, the rest the values of the senders blocked on it, in the order in which Go serves them |
| `closed` | `d.closed` and the closed state of the channel, which change together under the write lock |
| `quit` | whether `d.quit` is closed |
| `wpc`, `wtask`, `attempt` | where each worker is: at the receive, blocked in it, at the loop condition of `execute`, in `Process`, between the two increments of a refused retry (`refusal`), in the retry select, ended normally, or ended by a panic; its task and loop variable |
| `cpc`, `mode`, `cctx` | where each `CloseWithMode` is: `lock` (behind another writer), `await` (pending writer, waiting for the readers), `signal`, `wait`, or how it returned; `panic` is a second close of a channel, which does not happen |
| `stats` | the counters of the collector |
| `outcome`, `runs` | history: how each task ended, and how often `Process` was called |

The read-write lock is not a variable of its own: `Readers` is the set of calls
between `RLock` and the deferred `RUnlock`, `WriterPending` says that a writer has
announced itself, which is when Go's `RWMutex` holds back new readers.
`CloseChannel` covers `Lock` to `Unlock`: no reader can be inside, and the one
thing workers see of it is the closed channel. A receive on a channel with
blocked senders completes the first one's send, as the Go runtime does; a send
with a receiver waiting hands over directly. `Submit` may choose `ctx.Done()`
whenever both cases of its select are ready, and so may the retry and the drain
select. The result of a job and the one increment that follows it on the same
goroutine are one action (`JobSucceeds`, `Retry`, ...): nothing is visible to others
in between. A refused retry increments two counters one after the other, and these are two
actions (`PredicateRefuses`, `RefusalFails`), between which `Stats` sees the one without the
other. `ClosesTasks` and `ClosesQuit` are the conditions, `d.closed` and `quitOnce`, under
which a channel is closed; closing it again would panic.

Abstractions: the delay is only zero or positive (`Delays`); a job succeeds,
fails or does not return, and a panic or an expired `JobTimeout` of it is a
failure (`runJob` recovers, and waits for `Process` whatever its context says);
the retry predicate answers freely and may panic; loggers are taken not to
panic or block. `RetryDelay` and `RetryPredicates` overrides are covered by the
free choice of delay and answer, the `MaxRetries` override by `Overrides`.

### MemoryStore: state and actions

| Variable | In the code |
|---|---|
| `records` | `s.records`: per ID the status, version, CreatedAt, StartedAt and Attempts, or `NoRecord` |
| `closed` | `s.closed` |
| `copy` | the `*JobRecord` each caller got last, a clone of what was stored |
| `births`, `claims` | history: how often an ID was saved, how often the stored record was claimed |

Every method holds the mutex from the closed check to the return, so each is one
action of its name. An error return changes nothing and is a stutter; the guards
are the negated error conditions. Of the times only the distances to now matter:
`Tick` makes every StartedAt one unit older, in the store and in the copies, and
`Stale` compares an age with a lease as the code compares StartedAt with its cutoff.
Between a read and `Update` a caller may do anything with its copy;
`Edits` lists what it changes (finish, give back, ask for more time), `Forget` is
the caller that is lost. Name, payload and FinishedAt are left out: no method
looks at them. `JobStore` knows of each record who holds its latest state, and the
refinement maps that to the copies whose version matches.

### MongoStore: state and actions

The variables are those of `StoreClients` and `request`: for each client the call it
is in when that call takes several steps, with the age of the clock it read.

| Actions | In the code |
|---|---|
| `Save`, `Get`, `Delete`, `List` | one statement, or for `List` the reading of one document: the cursor is no snapshot |
| `ClaimCall`, `ClaimExecutes` | `now` is read, and later `FindOneAndUpdate` picks an oldest pending document (any of several: the sort has no tie-break) and stores that `now`; the reply reaches the client or is lost |
| `Update`, `UpdateMisses`, `CallEnds` | `UpdateOne` with the version in its filter; when nothing matched, `exists` runs as a step of its own and decides the error (`ErrorOf`) |
| `RequeueCall`, `RequeueOne`, `CallEnds` | the cutoff is computed, and later each document that matches then is rewritten; the call may end before it reached all |
| `CallEnds` | also a call that fails, or whose context ends, at any step |

A statement that reaches the server after its caller gave up is in the model as
that of another client whose reply is lost, or which holds the same copy. External
to the code, and assumed: the server writes one document atomically and checks the
filter with the write; `_id` is unique; the clocks of the clients agree. `created_at`
is not in the `$set` of `Update`, so the stored one stays. A lease is over strictly
past the cutoff here (`$lt`) and at it in `MemoryStore`.

### Codec: state and actions

`types` is the registry of each codec, `saved` the jobs encoded so far, `decoded`
what each codec decoded last and from which record. A process that restarts starts
with an empty registry: it is another codec. `Register`, `Encode` and `Decode` each
look at the registry once under its mutex. JSON is abstracted to a content: what an exported
field holds, or nothing for `{}`. A struct has an exported field, one with
`omitempty`, either of these next to a hidden one (`both`, `mixed`), or only a hidden one. Payloads of another
struct of the same name decode to anything, or not at all.

### ReentrantJobs

`JobsCall` restricts `Dispatcher`'s steps: a call that `Parent` gives to a task starts
only while that task's `Process` runs, and `Process` ends only after it. There are
no other changes; the jobs call `TrySubmit` and everybody else `Submit`.

### QueueConfig and Backoff: state and actions

`cfg` is the `Config` under construction and then of the queue, `queue` the result
of `NewQueue`, `workers` the goroutines alive, `task` the overrides of the task
that is executed (`busy`), `attempt` the loop variable of `execute`, and `delay`
what `retryDelay` returned last. `ApplyOption` is any of the `With...` options,
`NewQueue` is `Validate` and `NewDispatcher`, `Submit` evaluates the submission
options, `Retry` is one round of the loop after a failed attempt, `RetryPanics`
the panic of `rand.Int63n` that ends the worker. Durations are `Bits` wide and
wrap; `float64` rounds to `Mantissa` bits, ties to even; a float that does not fit
becomes either of what amd64 and arm64 make of it. The exponent of a float is
unbounded, since +Inf and any float beyond the integers take the same branches.

## 3. Runs

TLC checks deadlock in every run but `claim_try_submit`, whose subject is one: a
state without a successor must be one where every call has returned and no worker
has anything to do (`Terminated`).

| Run | Instance | What it shows |
|---|---|---|
| `pool` | 3 submissions of either method, 2 workers, queue of 1, 1 close of either mode, 1 retry, delays 0 and 1, workers may panic | every task in exactly one place, no lost wake-up, nothing enters a closed queue, a settled task stays settled, the step-by-step refinement of `JobQueue` |
| `shutdown` | 2 submissions, 2 workers, 2 closes of any mode (also invalid), predicate, limits 1 and -1, workers may panic | the counters balance between any two increments; a drain that returns nil accounts for every task; attempts match outcomes; every counted retry becomes a run or was cut short; an ended worker leaves nothing behind |
| `progress` | 3 submissions, 1 worker, queue of 1, 1 drain | every `Submit` returns, also when it is blocked with the read lock held or waits behind the pending writer; late ones are rejected |
| `closes` | 2 submissions, 1 worker, 2 drains, 1 retry | both closes return and close no channel a second time, every accepted task settles, `quit` ends the workers, and the fair version of `JobQueue` is implemented |
| `memory` | 2 clients, 2 IDs, 2 creation times, leases and limits 0 and 1, versions adding up to at most 4 | who passes the version check has seen every write; one claimant at a time can report, and only while the record runs; attempts count claims; finished jobs stay finished; `Claim` takes what `List` puts first; the refinement of `JobStore`; work whose claimant is lost goes back to the line |
| `mongo` | 2 clients, 1 document, lease 1, calls of up to one unit of time, versions up to 5 | versions, claimants, contract and recovery as in `memory`, where calls take several steps, clocks are late and replies lost; a reported conflict is one |
| `codec` | 2 codecs, 4 structs of which two share a name, values and pointers, a custom name, a job named by its content, hidden fields alone, with an exported field, and with an omitted one | a codec can decode what it encoded for all its life; exported content survives, and hidden content is lost only next to an exported field |
| `backoff` | up to 3 options from 26 values, 6-bit durations, 3-bit floats, overrides, 7 retries | delays follow the documented formulas as long as they fit; a cap prevents overflow and the loss of workers; without jitter no retry comes faster than the one before, as long as a cap or the size of the product keeps the strategy from overflowing |
| `claim_*` | the smallest instance that shows it | the disagreements of section 5 |

Why the bounds are enough for the cases that matter: with two workers one can be
blocked in a receive or sleeping while the other runs; with a queue of one, three
tasks occupy a worker, the buffer and a blocked sender at once, and with one
worker a fourth call is needed only to show `TrySubmit` waiting; one retry gives a
first, a repeated and a last attempt; two closes give a writer behind a pending
writer and every pair of modes. Safety runs use the symmetry of tasks, workers
and closers; runs with liveness do not. `progress` has no retries and `closes` no
`TrySubmit` and only drain closes, whose cancelled contexts also signal `quit`,
to keep the liveness graphs small.

In `memory` the bound of 4 on the sum of the versions (requeues do not count
against it) allows a claim, a requeue and a second claim of one record, which is
what it takes for two claimants to hold the same job, with the other record saved
after them; two IDs and two creation times give every order of age and ID, ties
included. An ID is saved once: saved again it restarts at version 1, which is the
subject of `claim_versions`. `mongo` spends its states on the steps of two calls
about one document, with one write more, so that the second claimant can also
report, and with claimants that ask for more time; documents do not affect each
other there but for the order of claims, which is the server's sort. Ages stop at
`MaxAge`, past every lease and call. In both runs the bound on versions also ends
the writing, so that `StaleWorkIsRecovered` says nothing of a claimant that renews its
lease for ever, and needs nothing said. In `codec` one encoded job meets every registry
of two codecs. In `backoff` 31 is the longest duration and floats
are 2 apart from 8 on and 4 apart from 16 on, so the values 11, 13 and 31 round,
31 beyond the longest duration; seven doublings overflow from any base but zero.
Three options set strategy, base and cap, or one of them out of range with two
others.

Each property is paired in `PROJECT.json` with a faulty version of one
definition (marked *Fault* in the modules) under which TLC must find it violated.

### Fairness

`SchedulerFairness` is weak fairness of each call's and each goroutine's own
steps: the Go scheduler runs what is runnable, and channel and lock wake-ups are
first in first out. Nothing is assumed of callers: calls need not be made,
contexts need not end. `TimerFairness` lets timers fire only while `quit` is open:
a delay may be hours, so nothing that must happen after `signalQuit` may depend
on one. `JobFairness` says that `Process` returns; the properties that need it
(all of `progress` and `closes`) are promises the code makes only for such jobs,
and `SchedSpec` leaves it out.

In `ReentrantFairSpec` a job returns unless it is kept in a call of its own.

`RequeuerFairness` of `MemoryStore` says that time passes and that some client keeps
calling `RequeueStale` with the longest lease. It is an assumption about the users
of the store, which has no goroutine of its own; `RequeueStale` exists to be
called so (`backend.go:89-91`). Nothing is assumed of the
claimants. In `MongoStore` it also says that calls end (they have contexts and the
driver has timeouts), and that of the calls made again and again some reach each
stale document: strong fairness, since a call comes and goes.

## 4. Proofs

Every safety invariant and action property the passing runs check is also a
theorem, and so are the two refinements without fairness. The theorems hold for
all values of the constants that the named assumptions of the modules allow: any
numbers of submissions, closers, clients and writes, any queue size, retry limits,
leases, and any width of an integer. TLC evaluates these assumptions in the runs. Besides
types they say that `Workers` and `Ids` are finite sets (a pool is started with a
number, and a map and a collection are finite), and that a call to MongoDB takes at most `MaxAge`,
where ages stop being counted. `PROJECT.json` lists the theorems with the properties they state.

### The dispatcher

`DispatcherProofs` proves the order of the channel and where tasks are,
`PoolProofs` what follows of workers, counters and closes.

* `TypeCorrect`, `ChannelInvariant`, `NoSendOnClosed`. The invariant is
  not about the lock but about the channel: no task stands in it twice, those
  within the capacity have completed their send, and *exactly* blocked senders
  stand beyond it (`ChannelOrder`). Without it a receive could complete the wrong
  send, and a closed channel could still hold a blocked one.
* `ClosedTakesNothing`, an action property: a step of the closed dispatcher accepts no
  task. The case that needs the invariant is the receive: after the close there is no
  blocked sender it could let in.
* `EachTaskOnePlace`. `EachTaskInOnePlace` alone is not inductive: a receive moves the
  head of the channel to a worker, and nothing in it says that this worker's hands
  were empty or whose send the receive completes. `Ledger` ties `wtask` to `wpc` and
  both to `spc`, and with `ChannelOrder` it is (`LedgerInvariant`). The actions fall
  into six kinds, a lemma each: those that leave every place alone, the hand-over,
  the joining of the channel, the withdrawal, the receive, and the settlement.
* `WakeupsAreKept`, `NothingLeftBehind`. They hold each other up in `Receivers`: a worker
  that ended means a closed and empty channel, and only a closed channel keeps later calls
  from filling it; a parked one means an open and empty channel.
* `SettledStay`: the task in a worker's hands is not settled, by `Ledger`, so no step
  touches the outcome or the runs of one that is.
* `RunsMatch`. `Attempts` is the invariant: `runs` of a task that a worker executes is
  its loop variable, and one more from the call of `Process` until the variable moves; a task
  that is neither executed nor settled has not run; a sleeper has a retry left.
* `StatsBalanced`. The part about refused retries is exact: the counter is the number of refused tasks
  and of workers between the two increments (`Refusals`, an invariant of its own), and `Failed` lags
  behind by the latter. For the rest `Books` sets what is counted against the tasks: `enqueued` lags behind the
  sends by the calls between send and increment, and is ahead of `processed` and `failed` by the
  tasks handed over and not settled. Each kind of step moves one task from one of these sets to
  another as it moves a counter. Counting needs finite sets: `Books` also says that only
  finitely many calls have been made, so that `Tasks` itself may be infinite.
* `RetriesRun`. With `Ledger`, `Attempts` and `Books` the property is inductive: the sum of `runs`
  over the tasks that began, less one for each, the workers on the way to a repetition and the
  tasks cut short together make up the counter, but for what panics left open. The lemmas say what a
  further run does to the sum and how each kind of step moves the sets.
* `DrainAccounts`. `Drain` is the invariant: a drain returned nil only after all workers had ended, and
  once the dispatcher is closed no call is between its send and its return. A worker that ended
  normally means an empty channel, so `Ledger` leaves settled as the only place for a task, and
  `Books` does the rest.
* `LateRejected`: a call at `rlock` stays there until the dispatcher is closed, and then passes the lock
  only to be refused; that is a set of states no step leaves (`Late`).
* `ImplementsQueue`: `Spec => ImplementsJobQueue`. Under the mapping of `Dispatcher` each
  action is a step of `JobQueue` or a stutter. What it needs is which end of the
  channel moves: a receive takes the head and lets in the *first* blocked sender, which is
  where `ChannelOrder` enters, and a withdrawal takes its task from among the blocked ones only.

### The stores

`StoreProofs` proves once, for any step that writes as a store may (`StoreStep`: saving, claiming,
updating, requeueing, deleting, handing out, forgetting, ageing), what `MemoryStoreProofs`
and `MongoStoreProofs` need; these show that their actions are such steps.

* `MemoryTypeCorrect`, `MongoTypeCorrect`.
* `MemoryVersions`, `MongoVersions`. `VersionIdentifiesContent` is not inductive: nothing in it forbids a
  copy with a version the record has yet to reach, whose content would be wrong by then.
  `Versions` adds that no copy is ahead of the record that its Save began.
* `MemoryOneClaimant`, `MongoOneClaimant`. `Claimants` is `OneClaimant` for the clients whose record was not
  deleted and saved anew, and needs no hypothesis: with `Versions`, a write leaves nobody with the latest
  state of the record (`WritesMakeStale`), and only `Claim` hands it to a claimant, as running.
* `MemoryAttempts`, `MemoryFinishedStay` and, for the same definitions, `MongoAttempts`,
  `MongoFinishedStay`: an Update writes back the attempts and judges the status of a copy
  that is the stored record. The two about attempts also assume that records are saved with no attempts.
* `MemoryClaimsHead`: what `Claim` takes is the only element of the listing of one pending record.
  The order of `List` is total on records, so both agree also between equal times.
* `MongoConflictsAreReal`. Between `UpdateOne` and `exists` anything may happen to the document. `Missed`
  is the invariant: the client of a call whose update matched nothing was overtaken, by a deletion or by a
  newer version of the document its copy is of, and remains so while the call lasts (`OvertakenKept`).
* `MemoryImplementsJobStore`, `MongoImplementsJobStore`. Each kind of `StoreStep` is a step
  of `JobStore` under the mapping that takes for "has seen the latest state" what the code can
  compute: the version is equal. For MongoDB a claim whose reply is lost is a claim nobody holds,
  and one document of `UpdateMany` is one requeue.

The theorems about claimants, attempts, finished jobs, conflicts and the refinement have the hypothesis
`[]SavedOnce`: no ID is saved a second time. It is not there for the proof's convenience: a record that is
deleted and saved anew restarts its versions, which is the subject of `claim_versions`, and with
`MaxSaves = 2` TLC finds these properties violated. `MemorySavedOnce` and `MongoSavedOnce` prove
that the hypothesis holds under the bound of the runs, `MaxSaves = 1`. The theorems on types and versions, and
`MemoryClaimsHead`, do without.

### Delays

`QueueConfigProofs` proves the properties of the `backoff` run for every width of an integer, every precision of
a float and every number of attempts: `QueueTypeCorrect`, `FormulaFollowed`, `CapBounds`, `CapKeeps`,
`NeverSpeedUp`. The arithmetic is in the lemmas before: what wraps stays an integer of the width (`WrappedType`), the
distance of floats is one of those their precision has and rounding keeps what is exact (`SpacingFacts`,
`AsFloatFacts`), a capped delay is at most the rounded cap and never less than an earlier one
(`CappedFacts`). `CapBounds` speaks of the rounded cap: beyond 2^53 the delay may exceed the cap by what
`float64` rounds. `NeverSpeedUp` has a lemma per strategy (`ConstantStays`, `LinearGrows`,
`ExponentialGrows`); Linear ignores the cap and wraps, so there the hypothesis is that its product fits. The invariant
`QueueInv` adds to the types that an open queue passed `Validate`, that
a task is executed only by a queue that is open and has a worker, and that `delay` is one that `retryDelay` returns
for the settings, the override and the attempt; the properties then speak of one call of it.

### The codec

`CodecProofs` proves, for any codecs, struct types, names and contents:

* `CodecTypeCorrect`, with which every decoded job is a pointer.
* `OwnRecordsAlwaysComeBack`. The invariant is inductive with the types: `Encode` accepts a
  job only under a name bound to its own type, and `Register` refuses to bind that name to another.
* `ContentAlwaysSurvives`. It needs `NothingHidden`: the check of the sample in `Register`
  keeps structs without an exported field out of every registry, so that none is encoded, and
  a payload is what JSON made of its job. Every combination of exported, omitted and hidden fields is
  allowed, so the theorem also says what is *not* kept: the hidden field of a struct that has an exported one,
  even when the payload is `{}`.

### Counting

`CountingProofs` has the facts about sums over finite sets and powers of two that the others cite. Both are
defined by recursion in the library, and the induction is done with sets: a set of naturals that
is not empty has a least element (`LeastNumber`), so a least counterexample has a smaller one. That
way no theorem takes an operator for a parameter.

### What stays with TLC

Liveness: `SubmitsReturn`, `ClosesReturn`, `QuitEndsWorkers`, `AcceptedTasksSettle`,
`StaleWorkIsRecovered` and the fair refinement `ImplementsFairJobQueue` need fairness and with it
`ENABLED`, for which the prover has no rules; the absence of deadlock is of the same kind. The
disagreements of the next section are counterexamples, which
TLC finds.

## 5. Where code and documentation disagree

| Run | Sentence | What the code does |
|---|---|---|
| `claim_try_submit` | `README.md:281-282` `TrySubmit` "never blocks" | it waits at `RLock` (`dispatcher.go:184`) behind a pending `Close` that waits for a `Submit` blocked on the full queue; called by the job that the only worker runs, all of them wait for ever, the `Close` whatever its context |
| `claim_immediate` | `dispatcher.go:236` "Returns immediately without waiting for workers to complete" | the lock is taken before the mode is looked at; with a blocked `Submit` the call waits for a worker to free a slot |
| `claim_drain` | `dispatcher.go:21` drain "waits for all in-flight and queued jobs" | when panics outside `runJob` have ended all workers, nil is returned with jobs queued |
| `claim_versions` | `backend.go:36-38` "so concurrent writers cannot silently clobber each other" | a record deleted and saved again restarts at version 1 (`memory.go:46-48`), and an `Update` with a copy of the old one is accepted (`memory.go:123`) |

More differences have no run of their own. `NewQueue` refuses a negative
`WithMaxRetryDelay` (`config.go:170`), of which `README.md:528` says "`<= 0` means no
cap" (`Valid` in `QueueConfig`). A negative `MaxRetries` of a
submission is not validated, and the job is counted as failed without an attempt
(`dispatcher.go:364`; `README.md:585` "each job is attempted once"). With a retry
delay of zero nothing looks at `quit`, so retries go on after an immediate close
(`dispatcher.go:389`). `Register` binds a name to a type "so that it can later be
encoded and decoded" (`codec.go:46-47`), but a job registered under a custom name cannot be encoded: `Encode`
looks for the name `NameOf` gives (`codec.go:85`). A decoded value type is a pointer,
which `Encode` refuses (`codec.go:92`). `Register` "fails loudly when sample cannot
round-trip" (`codec.go:49`) but only tries `json.Marshal`: a type with an interface
field passes and fails at `Decode`. The same comment says that no empty payload is
persisted silently. The check sees one sample: a struct with an `omitempty` field and a hidden one
passes when the sample has the first, and a later job with only the second is written as `{}` (`mixed`
in `Codec`). `Snapshot` is called a point-in-time capture (`stats.go:22-23`) and loads its counters one
by one; besides, `RetryPredicatesFailed` may be ahead of `Failed` (`dispatcher.go:378-379`). "Exponential backoff will not
exceed" the cap (`gokue.go:93`) holds up to the rounding of `float64`, which shows beyond 2^53
nanoseconds, some 104 days.

## 6. Plan

Done: `Dispatcher` and `JobQueue`, `JobStore`, `MemoryStore` and `MongoStore`, `Backoff` and
`QueueConfig`, `Codec`, `ReentrantJobs`, with their runs and faults, and the proofs of all their
safety properties. Left, in this order:

1. What the abstract `JobQueue` and `JobStore` promise by themselves (order of starts,
   at most one holder of a running job), so that it carries over to the implementations by
   their refinement alone.
2. The safety half of the liveness properties, such as that whoever waits in `Submit`
   has a receiver or a settling task ahead of it.

## 7. Not modelled

* `MongoDBConnection` (`mongodb.go`) and the indexes. `CloseConnection` checks, uses and
  resets the field `Client` without a lock, `collectionHandle` (`store.go:302-310`)
  reads it twice, and `SetupConnection` overwrites it. That is a data race, and what
  comes of it is the compiler's choice: a reader may see the old client, on which
  calls fail, or nil. A second `Close` that runs at the same time disconnects the
  same client again and returns the driver's error, and a `Setup` that ends while a
  `Close` disconnects loses its new client. Sequential callers meet none of this.
* `Snapshot` (`stats.go:74-83`): six loads at six moments. It changes nothing, and
  what it returns may be the counters of no moment. `StatsBalance` is about the counters themselves.
* Logging (pure output), the examples, and the reflection in `NameOf` and the codec.
