---------------------------- MODULE PoolProofs ----------------------------
(* More theorems about Dispatcher, for every value of its constants: what  *)
(* the workers leave behind, what the counters say, and the abstract queue. *)
EXTENDS DispatcherProofs, CountingProofs

(* Receivers.                                                              *)

\* A worker waits only for a channel that is open and empty, and ends normally
\* only with one that is closed and empty.
Receivers == NoLostWakeup /\ WorkersLeaveNothingBehind

\* A step that makes no worker wait or end, puts nothing into an empty channel
\* and leaves it open or closed disturbs no receiver.
LEMMA ReceiversKept ==
    ASSUME Receivers, closed' = closed, tasks = <<>> => tasks' = <<>>,
           \A w \in Workers : wpc'[w] \in {"parked", "exited"} => wpc'[w] = wpc[w]
    PROVE  Receivers'
BY DEF Receivers, NoLostWakeup, WorkersLeaveNothingBehind

LEMMA NextReceivers == ChannelInv /\ Receivers /\ [Next]_vars => Receivers'
<1> SUFFICES ASSUME TypeOK, ChannelInv, Receivers, [Next]_vars PROVE Receivers'
  BY DEF ChannelInv
<1>1. ASSUME NEW t \in Tasks, NEW w \in Workers, HandOff(t, w) PROVE Receivers'
  BY <1>1, ReceiversKept DEF HandOff, TypeOK
<1>2. ASSUME NEW t \in Tasks, Buffer(t) \/ SubmitPark(t) PROVE Receivers'
  <2>1. ~closed /\ \A w \in Workers : wpc[w] # "parked"
    BY <1>2 DEF Buffer, SubmitPark, SendReady, MaySend
  <2>2. closed' = closed /\ wpc' = wpc
    BY <1>2 DEF Buffer, SubmitPark, workVars
  <2> QED BY <2>1, <2>2 DEF Receivers, NoLostWakeup, WorkersLeaveNothingBehind
<1>3. ASSUME NEW t \in Tasks, SubmitCancelled(t) PROVE Receivers'
  <2>1. tasks = <<>> => tasks' = <<>>
    <3>1. DOMAIN <<>> = {}
      OBVIOUS
    <3> QED BY <1>3, <3>1 DEF SubmitCancelled
  <2> QED BY <1>3, <2>1, ReceiversKept DEF SubmitCancelled, workVars
<1>4. ASSUME NEW w \in Workers, Receive(w) PROVE Receivers'
  BY <1>4, ReceiversKept DEF Receive, TypeOK
<1>5. ASSUME NEW w \in Workers, WorkerPark(w) PROVE Receivers'
  BY <1>5 DEF WorkerPark, TypeOK, Receivers, NoLostWakeup, WorkersLeaveNothingBehind
<1>6. ASSUME NEW w \in Workers, WorkerExit(w) PROVE Receivers'
  BY <1>6 DEF WorkerExit, QueueDone, TypeOK, Receivers, NoLostWakeup, WorkersLeaveNothingBehind
<1>7. ASSUME NEW w \in Workers,
             \/ BeginAttempt(w) \/ RefusalFails(w) \/ Exhausted(w) \/ Abandon(w)
             \/ Wake(w) \/ JobEnds(w)
      PROVE  Receivers'
  <2>1. \E pc \in {"recv", "loop", "run", "refusal", "sleep", "dead"} : wpc' = [wpc EXCEPT ![w] = pc]
    BY <1>7 DEF BeginAttempt, Exhausted, Abandon, Wake, JobEnds, JobSucceeds, PredicateRefuses,
       RefusalFails, Retry, LastFailure, WorkerPanics, LeaveExecute, NextAttempt
  <2>2. UNCHANGED <<tasks, closed>>
    BY <1>7 DEF BeginAttempt, Exhausted, Abandon, Wake, JobEnds, JobSucceeds, PredicateRefuses,
       RefusalFails, Retry, LastFailure, WorkerPanics, LeaveExecute
  <2> QED BY <2>1, <2>2, ReceiversKept DEF TypeOK
<1>8. ASSUME NEW c \in Closers, CloseChannel(c) PROVE Receivers'
  BY <1>8 DEF CloseChannel, Receivers, NoLostWakeup, WorkersLeaveNothingBehind
<1>9. ASSUME UNCHANGED <<tasks, closed, wpc>> PROVE Receivers'
  BY <1>9, ReceiversKept
<1>10. ASSUME NEW t \in Tasks,
              \/ SubmitInvalid(t) \/ SubmitCtxDone(t) \/ RejectClosed(t)
              \/ TrySubmitFull(t) \/ SubmitReturns(t)
              \/ \E m \in Methods \ {"invalid"}, o \in Overrides : SubmitCall(t, m, o)
       PROVE  UNCHANGED <<tasks, closed, wpc>>
  BY <1>10 DEF SubmitInvalid, SubmitCtxDone, RejectClosed, TrySubmitFull, SubmitReturns, SubmitCall,
     workVars
<1>11. ASSUME NEW c \in Closers,
              \/ CloseInvalid(c) \/ CloseCtxDone(c) \/ CloseAnnounce(c)
              \/ CloseSignals(c) \/ CloseDrained(c) \/ CloseTimesOut(c)
              \/ \E m \in Modes \ {"invalid"} : CloseCall(c, m)
       PROVE  UNCHANGED <<tasks, closed, wpc>>
  BY <1>11 DEF CloseInvalid, CloseCall, CloseCtxDone, CloseAnnounce, CloseSignals, CloseDrained,
     CloseTimesOut, SignalQuit, workVars
<1>12. CASE UNCHANGED vars
  BY <1>9, <1>12 DEF vars, workVars
<1> QED
  BY <1>1, <1>2, <1>3, <1>4, <1>5, <1>6, <1>7, <1>8, <1>9, <1>10, <1>11, <1>12
  DEF Next, SubmitStep, WorkerStep, CloseStep, Terminated

LEMMA InitReceivers == Init => Receivers
BY DEF Init, Receivers, NoLostWakeup, WorkersLeaveNothingBehind

THEOREM ReceiversInvariant == Spec => []Receivers
BY InitReceivers, NextReceivers, ChannelInvariant, PTL DEF Spec

\* No receiver sleeps while the channel holds a task or is closed.
THEOREM WakeupsAreKept == Spec => []NoLostWakeup
<1>1. Receivers => NoLostWakeup
  BY DEF Receivers
<1> QED BY <1>1, ReceiversInvariant, PTL

\* A worker that ended normally left nothing in the channel.
THEOREM NothingLeftBehind == Spec => []WorkersLeaveNothingBehind
<1>1. Receivers => WorkersLeaveNothingBehind
  BY DEF Receivers
<1> QED BY <1>1, ReceiversInvariant, PTL

---------------------------------------------------------------------------
(* Outcomes.                                                               *)

\* A worker is busy with a task that has no outcome yet.
LEMMA BusyTask ==
    ASSUME LedgerInv, NEW w \in Workers, wpc[w] \in Busy
    PROVE  wtask[w] \in Tasks /\ outcome[wtask[w]] = "none"
BY DEF LedgerInv, ChannelInv, TypeOK, Ledger

\* Only a busy worker touches the history of a task, and only of its own.
LEMMA HistorySteps ==
    ASSUME LedgerInv, [Next]_vars
    PROVE  \/ UNCHANGED histVars
           \/ \E w \in Workers : wpc[w] \in Busy /\ BeginAttempt(w)
           \/ \E w \in Workers, o \in Outcomes, pc \in {"recv", "dead"} :
                wpc[w] \in Busy /\ LeaveExecute(w, o, pc)
<1>1. ASSUME NEW t \in Tasks,
             \/ SubmitInvalid(t) \/ SubmitCtxDone(t) \/ SubmitStep(t)
             \/ \E m \in Methods \ {"invalid"}, o \in Overrides : SubmitCall(t, m, o)
      PROVE  UNCHANGED histVars
  BY <1>1 DEF SubmitInvalid, SubmitCtxDone, SubmitCall, SubmitStep, RejectClosed, HandOff, Buffer,
     SubmitPark, SubmitCancelled, TrySubmitFull, SubmitReturns
<1>2. ASSUME NEW c \in Closers,
             \/ CloseInvalid(c) \/ CloseCtxDone(c) \/ CloseStep(c)
             \/ \E m \in Modes \ {"invalid"} : CloseCall(c, m)
      PROVE  UNCHANGED histVars
  BY <1>2 DEF CloseInvalid, CloseCall, CloseCtxDone, CloseStep, CloseAnnounce, CloseChannel,
     CloseSignals, CloseDrained, CloseTimesOut, SignalQuit
<1>3. ASSUME NEW w \in Workers,
             \/ Receive(w) \/ WorkerPark(w) \/ WorkerExit(w) \/ Wake(w) \/ LastFailure(w)
             \/ PredicateRefuses(w) \/ \E delay \in Delays : Retry(w, delay)
      PROVE  UNCHANGED histVars
  BY <1>3 DEF Receive, WorkerPark, WorkerExit, Wake, LastFailure, PredicateRefuses, Retry
<1>4. ASSUME NEW w \in Workers, BeginAttempt(w) PROVE wpc[w] \in Busy
  BY <1>4 DEF BeginAttempt, Busy
<1>5. ASSUME NEW w \in Workers,
             \/ JobSucceeds(w) \/ RefusalFails(w) \/ Exhausted(w) \/ Abandon(w)
             \/ \E counted \in SUBSET {"retried"} : WorkerPanics(w, counted)
      PROVE  wpc[w] \in Busy /\ \E o \in Outcomes, pc \in {"recv", "dead"} : LeaveExecute(w, o, pc)
  BY <1>5 DEF JobSucceeds, RefusalFails, Exhausted, Abandon, WorkerPanics, Outcomes, Busy
<1>6. CASE UNCHANGED vars
  BY <1>6 DEF vars, histVars
<1> QED
  BY <1>1, <1>2, <1>3, <1>4, <1>5, <1>6 DEF Next, WorkerStep, JobEnds, Terminated

\* A settled task stays settled: no worker calls Process for it again or gives
\* it another outcome.
THEOREM SettledStay == Spec => SettledOnce
<1> DEFINE Kept == \A t \in Settled : outcome'[t] = outcome[t] /\ runs'[t] = runs[t]
<1>1. LedgerInv /\ [Next]_vars => Kept
  <2> SUFFICES ASSUME LedgerInv, [Next]_vars, NEW t \in Settled
               PROVE  outcome'[t] = outcome[t] /\ runs'[t] = runs[t]
    OBVIOUS
  <2>1. t \in Tasks /\ outcome[t] # "none"
    BY DEF Settled
  <2>2. outcome \in [Tasks -> Outcomes \cup {"none"}] /\ runs \in [Tasks -> Nat]
    BY DEF LedgerInv, ChannelInv, TypeOK
  <2>3. ASSUME NEW w \in Workers, wpc[w] \in Busy PROVE wtask[w] # t
    BY <2>1, <2>3, BusyTask
  <2>4. ASSUME NEW w \in Workers, wpc[w] \in Busy, BeginAttempt(w)
        PROVE  outcome'[t] = outcome[t] /\ runs'[t] = runs[t]
    BY <2>1, <2>2, <2>3, <2>4 DEF BeginAttempt
  <2>5. ASSUME NEW w \in Workers, wpc[w] \in Busy, NEW o, NEW pc, LeaveExecute(w, o, pc)
        PROVE  outcome'[t] = outcome[t] /\ runs'[t] = runs[t]
    BY <2>1, <2>2, <2>3, <2>5 DEF LeaveExecute
  <2> QED BY <2>4, <2>5, HistorySteps DEF histVars
<1>2. LedgerInv /\ [Next]_vars => [Kept]_vars
  BY <1>1
<1> QED BY <1>2, LedgerInvariant, PTL DEF Spec, SettledOnce

---------------------------------------------------------------------------
(* Attempts.                                                               *)

\* One attempt and Limit retries.
Allowed(t) == IF Limit(t) < 0 THEN 0 ELSE Limit(t) + 1

\* The loop variable says how often Process ran for the task that w executes.
AttemptsOf(w) ==
    /\ wpc[w] \notin Busy => attempt[w] = 0
    /\ wpc[w] = "loop" => runs[wtask[w]] = attempt[w] /\ attempt[w] <= Allowed(wtask[w])
    /\ wpc[w] \in {"run", "refusal"} =>
          runs[wtask[w]] = attempt[w] + 1 /\ attempt[w] <= Limit(wtask[w])
    /\ wpc[w] = "sleep" => runs[wtask[w]] = attempt[w] + 1 /\ attempt[w] < Limit(wtask[w])

RunsOf(t) ==
    /\ runs[t] <= Allowed(t)
    /\ outcome[t] = "exhausted" => runs[t] = Allowed(t)
    /\ outcome[t] \in {"succeeded", "refused", "lost"} => runs[t] > 0
    /\ outcome[t] = "abandoned" => quit /\ runs[t] \in 1..Limit(t)

\* Whoever is neither executed nor settled never ran.
Unstarted == \A t \in Tasks : outcome[t] = "none" /\ (\A w \in Workers : wtask[w] # t) => runs[t] = 0

Attempts ==
    /\ Unstarted
    /\ \A w \in Workers : AttemptsOf(w)
    /\ \A t \in Tasks : RunsOf(t)

LEMMA LimitType == ASSUME TypeOK, NEW t \in Tasks PROVE Limit(t) \in Int /\ Allowed(t) \in Nat
<1>1. call[t].retries \in Int \cup {NoOverride}
  BY RetryAssumption DEF TypeOK
<1> QED BY <1>1, RetryAssumption DEF Limit, Allowed

\* The steps of calls and closers, and of workers that execute nothing.
LEMMA AttemptsKept ==
    ASSUME Attempts, UNCHANGED <<call, wtask, attempt, runs, outcome>>, quit => quit',
           \A w \in Workers : wpc'[w] = wpc[w] \/ (wpc[w] \notin Busy /\ wpc'[w] \notin Busy)
    PROVE  Attempts'
<1>1. \A t \in Tasks : Limit(t)' = Limit(t) /\ Allowed(t)' = Allowed(t)
  BY DEF Limit, Allowed
<1>2. Unstarted'
  BY DEF Attempts, Unstarted
<1>3. ASSUME NEW w \in Workers PROVE AttemptsOf(w)'
  BY DEF Attempts, AttemptsOf, Busy, Limit, Allowed
<1>4. ASSUME NEW t \in Tasks PROVE RunsOf(t)'
  BY <1>1 DEF Attempts, RunsOf
<1> QED BY <1>2, <1>3, <1>4 DEF Attempts

\* A call sets its override before anything can run.
LEMMA AttemptsCalled ==
    ASSUME LedgerInv, Attempts, NEW t \in Tasks, NEW m \in Methods \ {"invalid"},
           NEW o \in Overrides, SubmitCall(t, m, o)
    PROVE  Attempts'
<1> USE DEF LedgerInv, ChannelInv
<1>1. /\ UNCHANGED <<wpc, wtask, attempt, runs, outcome, quit>>
      /\ \A u \in Tasks : u # t => call'[u] = call[u]
  BY DEF SubmitCall, workVars, histVars, TypeOK
<1>2. outcome[t] = "none" /\ \A w \in Workers : wtask[w] # t
  BY TaskAssumption DEF SubmitCall, Ledger
<1>3. runs[t] = 0
  BY <1>2 DEF Attempts, Unstarted
<1>4. \A u \in Tasks : u # t => Limit(u)' = Limit(u) /\ Allowed(u)' = Allowed(u)
  BY <1>1 DEF Limit, Allowed
<1>5. Unstarted'
  BY <1>1 DEF Attempts, Unstarted
<1>6. ASSUME NEW w \in Workers PROVE AttemptsOf(w)'
  <2>1. CASE wpc[w] \in Busy
    <3>1. wtask[w] \in Tasks /\ wtask[w] # t
      BY <1>2, <2>1, BusyTask
    <3> QED BY <1>1, <1>4, <2>1, <3>1 DEF Attempts, AttemptsOf
  <2>2. CASE wpc[w] \notin Busy
    BY <1>1, <2>2 DEF Attempts, AttemptsOf, Busy
  <2> QED BY <2>1, <2>2
<1>7. ASSUME NEW u \in Tasks PROVE RunsOf(u)'
  <2>1. CASE u = t
    <3>1. Allowed(t)' \in Nat
      <4>1. TypeOK'
        BY NextTypeOK DEF Next
      <4>2. call' \in [Tasks -> [method : {"submit", "try"}, retries : Overrides \cup {NoOverride}]]
        BY <4>1 DEF TypeOK
      <4>3. call'[t].retries \in Overrides \cup {NoOverride}
        BY <4>2
      <4>4. Limit(t)' \in Int
        BY <4>3, RetryAssumption DEF Limit
      <4> QED BY <4>4 DEF Allowed
    <3>2. runs'[t] = 0 /\ outcome'[t] = "none"
      BY <1>1, <1>2, <1>3
    <3> QED BY <2>1, <3>1, <3>2 DEF RunsOf
  <2>2. CASE u # t
    BY <1>1, <1>4, <2>2 DEF Attempts, RunsOf
  <2> QED BY <2>1, <2>2
<1> QED BY <1>5, <1>6, <1>7 DEF Attempts

\* A worker takes a task that never ran.
LEMMA AttemptsTaken ==
    ASSUME LedgerInv, Attempts, NEW w \in Workers, NEW t \in Tasks,
           outcome[t] = "none", \A v \in Workers : wtask[v] # t,
           wpc[w] \notin Busy,
           wtask' = [wtask EXCEPT ![w] = t],
           wpc' = [wpc EXCEPT ![w] = "loop"],
           UNCHANGED <<call, attempt, runs, outcome, quit>>
    PROVE  Attempts'
<1> USE DEF LedgerInv, ChannelInv
<1>1. runs[t] = 0 /\ attempt[w] = 0 /\ Allowed(t) \in Nat
  BY LimitType DEF Attempts, Unstarted, AttemptsOf
<1>2. \A v \in Workers : /\ wtask'[v] = IF v = w THEN t ELSE wtask[v]
                         /\ wpc'[v] = IF v = w THEN "loop" ELSE wpc[v]
  BY DEF TypeOK
<1>3. \A u \in Tasks : Limit(u)' = Limit(u) /\ Allowed(u)' = Allowed(u)
  BY DEF Limit, Allowed
<1>4. wtask[w] = NoTask
  BY DEF Ledger
<1>5. Unstarted'
  BY <1>2, <1>4, TaskAssumption DEF Attempts, Unstarted
<1>6. ASSUME NEW v \in Workers PROVE AttemptsOf(v)'
  <2>1. CASE v = w
    BY <1>1, <1>2, <1>3, <2>1 DEF AttemptsOf, Busy
  <2>2. CASE v # w /\ wpc[v] \in Busy
    BY <1>2, <1>3, <2>2, BusyTask DEF Attempts, AttemptsOf
  <2>3. CASE v # w /\ wpc[v] \notin Busy
    BY <1>2, <2>3 DEF Attempts, AttemptsOf, Busy
  <2> QED BY <2>1, <2>2, <2>3
<1>7. ASSUME NEW u \in Tasks PROVE RunsOf(u)'
  BY <1>3 DEF Attempts, RunsOf
<1> QED BY <1>5, <1>6, <1>7 DEF Attempts

\* A worker goes on with its task, or settles it.
LEMMA AttemptsWorked ==
    ASSUME LedgerInv, Attempts, NEW w \in Workers, wpc[w] \in Busy,
           UNCHANGED <<call, quit>>,
           \A v \in Workers \ {w} :
              wpc'[v] = wpc[v] /\ wtask'[v] = wtask[v] /\ attempt'[v] = attempt[v],
           \A u \in Tasks \ {wtask[w]} : runs'[u] = runs[u] /\ outcome'[u] = outcome[u],
           wtask'[w] = wtask[w] \/ (wtask'[w] = NoTask /\ outcome'[wtask[w]] # "none"),
           AttemptsOf(w)',
           \A u \in Tasks : u = wtask[w] => RunsOf(u)'
    PROVE  Attempts'
<1> DEFINE t == wtask[w]
<1>1. t \in Tasks /\ outcome[t] = "none"
  BY BusyTask
<1>2. \A v \in Workers \ {w} : wtask[v] # t
  BY <1>1, TaskAssumption DEF LedgerInv, Ledger
<1>3. \A u \in Tasks : Limit(u)' = Limit(u) /\ Allowed(u)' = Allowed(u)
  BY DEF Limit, Allowed
<1>4. Unstarted'
  BY <1>1, <1>2 DEF Attempts, Unstarted
<1>5. ASSUME NEW v \in Workers PROVE AttemptsOf(v)'
  <2>1. CASE v # w /\ wpc[v] \in Busy
    <3>1. wtask[v] \in Tasks \ {t}
      BY <1>2, <2>1, BusyTask
    <3> QED BY <1>3, <2>1, <3>1 DEF Attempts, AttemptsOf
  <2>2. CASE v # w /\ wpc[v] \notin Busy
    BY <2>2 DEF Attempts, AttemptsOf, Busy
  <2> QED BY <2>1, <2>2
<1>6. ASSUME NEW u \in Tasks PROVE RunsOf(u)'
  <2>1. CASE u # t
    BY <1>3, <2>1 DEF Attempts, RunsOf
  <2>2. CASE u = t
    BY <2>2
  <2> QED BY <2>1, <2>2
<1> QED BY <1>4, <1>5, <1>6 DEF Attempts

\* What execute may be left with.
LEMMA AttemptsLeft ==
    ASSUME LedgerInv, Attempts, NEW w \in Workers, wpc[w] \in Busy,
           NEW o \in Outcomes, NEW pc \in {"recv", "dead"}, LeaveExecute(w, o, pc),
           o = "exhausted" => runs[wtask[w]] = Allowed(wtask[w]),
           o \in {"succeeded", "refused", "lost"} => runs[wtask[w]] > 0,
           o = "abandoned" => quit /\ runs[wtask[w]] \in 1..Limit(wtask[w])
    PROVE  Attempts'
<1> USE DEF LedgerInv, ChannelInv
<1>1. PICK t \in Tasks : t = wtask[w]
  BY BusyTask
<1>2. /\ UNCHANGED <<call, quit, runs>>
      /\ \A v \in Workers \ {w} :
            wpc'[v] = wpc[v] /\ wtask'[v] = wtask[v] /\ attempt'[v] = attempt[v]
      /\ \A u \in Tasks \ {t} : outcome'[u] = outcome[u]
      /\ wpc'[w] = pc /\ wtask'[w] = NoTask /\ attempt'[w] = 0
      /\ outcome'[t] = o
  BY <1>1 DEF LeaveExecute, subVars, TypeOK
<1>3. AttemptsOf(w)'
  BY <1>2 DEF AttemptsOf, Busy
<1>4. Limit(t)' = Limit(t) /\ Allowed(t)' = Allowed(t)
  BY <1>2 DEF Limit, Allowed
<1>5. runs[t] <= Allowed(t)
  BY <1>1 DEF Attempts, RunsOf
<1>6. o # "none"
  BY DEF Outcomes
<1>7. RunsOf(t)'
  BY <1>1, <1>2, <1>4, <1>5 DEF RunsOf
<1> QED BY <1>1, <1>2, <1>3, <1>6, <1>7, AttemptsWorked

\* A worker that starts, ends or repeats an attempt.
LEMMA AttemptsGoOn ==
    ASSUME LedgerInv, Attempts, NEW w \in Workers,
           \/ BeginAttempt(w) \/ LastFailure(w) \/ Wake(w) \/ PredicateRefuses(w)
           \/ \E delay \in Delays : Retry(w, delay)
    PROVE  Attempts'
<1> DEFINE t == wtask[w]
<1> USE DEF LedgerInv, ChannelInv
<1>1. wpc[w] \in Busy
  BY DEF BeginAttempt, LastFailure, Wake, PredicateRefuses, Retry, Busy
<1>2. /\ t \in Tasks
      /\ outcome[t] = "none"
      /\ runs[t] \in Nat
      /\ attempt[w] \in Nat
      /\ Limit(t) \in Int
      /\ Allowed(t) \in Nat
  BY <1>1, BusyTask, LimitType DEF TypeOK
<1>3. AttemptsOf(w) /\ RunsOf(t)
  BY <1>2 DEF Attempts
<1>4. UNCHANGED <<call, quit, wtask, outcome>>
  BY DEF BeginAttempt, LastFailure, Wake, PredicateRefuses, Retry, subVars, histVars
<1>5. Limit(t)' = Limit(t) /\ Allowed(t)' = Allowed(t)
  BY <1>4 DEF Limit, Allowed
<1>6. /\ \A v \in Workers \ {w} : wpc'[v] = wpc[v] /\ attempt'[v] = attempt[v]
      /\ \A u \in Tasks \ {t} : runs'[u] = runs[u]
  BY <1>2 DEF BeginAttempt, LastFailure, Wake, PredicateRefuses, Retry, NextAttempt, histVars, TypeOK
<1> DEFINE Goes(pc, n, r) == wpc'[w] = pc /\ attempt'[w] = n /\ runs'[t] = r
<1>7. ASSUME AttemptsOf(w)', RunsOf(t)' PROVE Attempts'
  BY <1>1, <1>4, <1>6, <1>7, AttemptsWorked
<1>8. CASE BeginAttempt(w)
  <2>1. wpc[w] = "loop" /\ attempt[w] <= Limit(t) /\ Goes("run", attempt[w], runs[t] + 1)
    BY <1>2, <1>8 DEF BeginAttempt, MayAttempt, TypeOK
  <2>2. AttemptsOf(w)'
    BY <1>2, <1>3, <1>4, <1>5, <2>1 DEF AttemptsOf, Busy
  <2>3. RunsOf(t)'
    BY <1>2, <1>3, <1>4, <1>5, <2>1 DEF AttemptsOf, RunsOf, Allowed
  <2> QED BY <1>7, <2>2, <2>3
<1>9. CASE LastFailure(w) \/ Wake(w) \/ \E delay \in Delays : Retry(w, delay)
  <2>1. \/ wpc[w] = "run" /\ attempt[w] < Limit(t) /\ Goes("sleep", attempt[w], runs[t])
        \/ wpc[w] \in {"run", "sleep"} /\ Goes("loop", attempt[w] + 1, runs[t])
    <3>1. runs' = runs
      BY <1>9 DEF LastFailure, Wake, Retry, histVars
    <3>2. \/ /\ wpc[w] = "run" /\ attempt[w] < Limit(t)
             /\ wpc' = [wpc EXCEPT ![w] = "sleep"] /\ attempt' = attempt
          \/ wpc[w] \in {"run", "sleep"} /\ NextAttempt(w)
      BY <1>9 DEF LastFailure, Wake, Retry
    <3> QED BY <3>1, <3>2 DEF NextAttempt, TypeOK
  <2>2. AttemptsOf(w)'
    <3>1. CASE wpc[w] = "run" /\ attempt[w] < Limit(t) /\ Goes("sleep", attempt[w], runs[t])
      BY <1>2, <1>3, <1>4, <1>5, <3>1 DEF AttemptsOf, Busy
    <3>2. CASE wpc[w] \in {"run", "sleep"} /\ Goes("loop", attempt[w] + 1, runs[t])
      BY <1>2, <1>3, <1>4, <1>5, <3>2 DEF AttemptsOf, Busy, Allowed
    <3> QED BY <2>1, <3>1, <3>2
  <2>3. RunsOf(t)'
    BY <1>2, <1>3, <1>4, <1>5, <2>1 DEF RunsOf
  <2> QED BY <1>7, <2>2, <2>3
<1>10. CASE PredicateRefuses(w)
  <2>1. wpc[w] = "run" /\ Goes("refusal", attempt[w], runs[t])
    BY <1>2, <1>10 DEF PredicateRefuses, histVars, TypeOK
  <2>2. AttemptsOf(w)'
    BY <1>2, <1>3, <1>4, <1>5, <2>1 DEF AttemptsOf, Busy
  <2>3. RunsOf(t)'
    BY <1>2, <1>3, <1>4, <1>5, <2>1 DEF RunsOf
  <2> QED BY <1>7, <2>2, <2>3
<1> QED BY <1>8, <1>9, <1>10

LEMMA NextAttempts == LedgerInv /\ Attempts /\ [Next]_vars => Attempts'
<1> SUFFICES ASSUME LedgerInv, Attempts, [Next]_vars PROVE Attempts'
  OBVIOUS
<1> USE DEF LedgerInv, ChannelInv
<1>1. ASSUME NEW t \in Tasks, NEW m \in Methods \ {"invalid"}, NEW o \in Overrides,
             SubmitCall(t, m, o)
      PROVE  Attempts'
  BY <1>1, AttemptsCalled
<1>2. ASSUME NEW t \in Tasks, NEW w \in Workers, HandOff(t, w) PROVE Attempts'
  <2>1. outcome[t] = "none" /\ \A v \in Workers : wtask[v] # t
    BY <1>2, TaskAssumption DEF HandOff, MaySend, Ledger
  <2> QED BY <1>2, <2>1, AttemptsTaken DEF HandOff, histVars, Busy
<1>3. ASSUME NEW w \in Workers, Receive(w) PROVE Attempts'
  <2> DEFINE t == Head(tasks)
  <2>1. tasks \in Seq(Tasks) /\ tasks # <<>>
    BY <1>3 DEF Receive, TypeOK
  <2>2. t \in Range(tasks) /\ t \in Tasks
    BY <2>1, RangeTail, RangeLemma DEF ChannelOrder
  <2>3. outcome[t] = "none" /\ \A v \in Workers : wtask[v] # t
    BY <2>2 DEF Ledger
  <2> QED BY <1>3, <2>2, <2>3, AttemptsTaken DEF Receive, histVars, Busy
<1>4. ASSUME NEW w \in Workers, JobSucceeds(w) PROVE Attempts'
  <2>1. runs[wtask[w]] > 0
    BY <1>4, BusyTask DEF JobSucceeds, Attempts, AttemptsOf, TypeOK, Busy
  <2> QED BY <1>4, <2>1, AttemptsLeft DEF JobSucceeds, Outcomes, Busy
<1>5. ASSUME NEW w \in Workers, RefusalFails(w) PROVE Attempts'
  <2>1. runs[wtask[w]] > 0
    BY <1>5, BusyTask DEF RefusalFails, Attempts, AttemptsOf, TypeOK, Busy
  <2> QED BY <1>5, <2>1, AttemptsLeft DEF RefusalFails, Outcomes, Busy
<1>6. ASSUME NEW w \in Workers, NEW counted \in SUBSET {"retried"}, WorkerPanics(w, counted)
      PROVE  Attempts'
  <2>1. runs[wtask[w]] > 0
    BY <1>6, BusyTask DEF WorkerPanics, Attempts, AttemptsOf, TypeOK, Busy
  <2> QED BY <1>6, <2>1, AttemptsLeft DEF WorkerPanics, Outcomes, Busy
<1>7. ASSUME NEW w \in Workers, Exhausted(w) PROVE Attempts'
  <2>1. wpc[w] = "loop" /\ ~(attempt[w] <= Limit(wtask[w]))
    BY <1>7 DEF Exhausted, MayAttempt
  <2>2. wtask[w] \in Tasks /\ Limit(wtask[w]) \in Int /\ attempt[w] \in Nat
    BY <2>1, BusyTask, LimitType DEF Busy, TypeOK
  <2>3. runs[wtask[w]] = attempt[w] /\ attempt[w] <= Allowed(wtask[w])
    BY <2>1 DEF Attempts, AttemptsOf
  <2>4. runs[wtask[w]] = Allowed(wtask[w])
    BY <2>1, <2>2, <2>3 DEF Allowed
  <2> QED BY <1>7, <2>4, AttemptsLeft DEF Exhausted, Outcomes, Busy
<1>8. ASSUME NEW w \in Workers, Abandon(w) PROVE Attempts'
  <2>1. wpc[w] = "sleep" /\ quit
    BY <1>8 DEF Abandon
  <2>2. wtask[w] \in Tasks /\ Limit(wtask[w]) \in Int /\ attempt[w] \in Nat
    BY <2>1, BusyTask, LimitType DEF Busy, TypeOK
  <2>3. runs[wtask[w]] \in 1..Limit(wtask[w])
    BY <2>1, <2>2 DEF Attempts, AttemptsOf
  <2> QED BY <1>8, <2>1, <2>3, AttemptsLeft DEF Abandon, Outcomes, Busy
<1>9. ASSUME NEW w \in Workers,
             \/ BeginAttempt(w) \/ LastFailure(w) \/ Wake(w) \/ PredicateRefuses(w)
             \/ \E delay \in Delays : Retry(w, delay)
      PROVE  Attempts'
  BY <1>9, AttemptsGoOn
<1>10. ASSUME NEW t \in Tasks,
              \/ SubmitInvalid(t) \/ SubmitCtxDone(t) \/ RejectClosed(t) \/ Buffer(t)
              \/ SubmitPark(t) \/ SubmitCancelled(t) \/ TrySubmitFull(t) \/ SubmitReturns(t)
       PROVE  Attempts'
  BY <1>10, AttemptsKept DEF SubmitInvalid, SubmitCtxDone, RejectClosed, Buffer, SubmitPark,
     SubmitCancelled, TrySubmitFull, SubmitReturns, workVars, histVars
<1>11. ASSUME NEW w \in Workers, WorkerPark(w) \/ WorkerExit(w) PROVE Attempts'
  <2>1. \A v \in Workers : wpc'[v] = wpc[v] \/ (wpc[v] \notin Busy /\ wpc'[v] \notin Busy)
    BY <1>11 DEF WorkerPark, WorkerExit, TypeOK, Busy
  <2> QED BY <1>11, <2>1, AttemptsKept DEF WorkerPark, WorkerExit, subVars, histVars
<1>12. ASSUME NEW c \in Closers,
              \/ CloseInvalid(c) \/ CloseCtxDone(c) \/ CloseStep(c)
              \/ \E m \in Modes \ {"invalid"} : CloseCall(c, m)
       PROVE  Attempts'
  <2>1. \A v \in Workers : wpc'[v] = wpc[v] \/ (wpc[v] \notin Busy /\ wpc'[v] \notin Busy)
    BY <1>12 DEF CloseInvalid, CloseCall, CloseCtxDone, CloseStep, CloseAnnounce, CloseChannel,
       CloseSignals, CloseDrained, CloseTimesOut, SignalQuit, workVars, Busy
  <2>2. UNCHANGED <<call, wtask, attempt, runs, outcome>> /\ (quit => quit')
    BY <1>12 DEF CloseInvalid, CloseCall, CloseCtxDone, CloseStep, CloseAnnounce, CloseChannel,
       CloseSignals, CloseDrained, CloseTimesOut, SignalQuit, subVars, workVars, histVars
  <2> QED BY <2>1, <2>2, AttemptsKept
<1>13. CASE UNCHANGED vars
  BY <1>13, AttemptsKept DEF vars, subVars, workVars, histVars
<1> HIDE DEF LedgerInv, ChannelInv
<1> QED
  BY <1>1, <1>2, <1>3, <1>4, <1>5, <1>6, <1>7, <1>8, <1>9, <1>10, <1>11, <1>12, <1>13
  DEF Next, SubmitStep, WorkerStep, JobEnds, Terminated

LEMMA InitAttempts == Init => Attempts
<1> SUFFICES ASSUME Init PROVE Attempts
  OBVIOUS
<1>1. \A t \in Tasks : Allowed(t) \in Nat
  BY InitTypeOK, LimitType
<1> QED BY <1>1 DEF Init, Attempts, Unstarted, AttemptsOf, RunsOf, Busy

\* Process runs once and at most Limit times again: until it succeeds, the
\* predicate refuses, the attempts are exhausted, or a Close cuts a sleep short.
THEOREM RunsMatch == Spec => []RunsMatchOutcome
<1>1. Init /\ LedgerInv => Attempts
  BY InitAttempts
<1>2. Attempts => RunsMatchOutcome
  BY DEF Attempts, RunsOf, Allowed, RunsMatchOutcome
<1> QED BY <1>1, <1>2, NextAttempts, LedgerInvariant, PTL DEF Spec

---------------------------------------------------------------------------
(* The counters.                                                           *)

\* The submissions that were made; there may be any number of them to come.
Called == {t \in Tasks : spc[t] # "new"}

Uncounted == {t \in Tasks : spc[t] = "sent"}

Turned == {t \in Tasks : spc[t] \in {"full", "cancelled"}}

\* Handed over, and neither processed nor failed in the books.
Unsettled == {t \in Tasks : spc[t] \in {"sent", "ok"} /\ outcome[t] \in {"none", "lost"}}

Balance ==
    /\ stats.enqueued + Cardinality(Uncounted)
          = stats.processed + stats.failed + Cardinality(Unsettled)
    /\ stats.dropped = Cardinality(Turned)

Books == IsFiniteSet(Called) /\ Balance

LEMMA CalledFinite ==
    ASSUME IsFiniteSet(Called)
    PROVE  \A S \in {Uncounted, Turned, Unsettled} : IsFiniteSet(S) /\ Cardinality(S) \in Nat
<1>1. \A S \in {Uncounted, Turned, Unsettled} : S \in SUBSET Called
  BY DEF Called, Uncounted, Turned, Unsettled
<1> QED BY <1>1, FS_Subset, FS_CardinalityType

\* One more, or one less.
LEMMA CountMoves ==
    ASSUME NEW S, NEW x, IsFiniteSet(S)
    PROVE  /\ x \notin S => Cardinality(S \cup {x}) = Cardinality(S) + 1
           /\ x \in S => Cardinality(S \ {x}) = Cardinality(S) - 1
BY FS_AddElement, FS_RemoveElement

\* What a step writes in the books goes with what it does to a task.
Same == UNCHANGED <<Uncounted, Turned, Unsettled>>

Sends(t) ==
    /\ t \notin Uncounted /\ Uncounted' = Uncounted \cup {t}
    /\ t \notin Unsettled /\ Unsettled' = Unsettled \cup {t}
    /\ UNCHANGED Turned

Turns(t) ==
    /\ t \notin Turned /\ Turned' = Turned \cup {t}
    /\ UNCHANGED <<Uncounted, Unsettled>>

Returns(t) ==
    /\ t \in Uncounted /\ Uncounted' = Uncounted \ {t}
    /\ UNCHANGED <<Turned, Unsettled>>

Settles(t) ==
    /\ t \in Unsettled /\ Unsettled' = Unsettled \ {t}
    /\ UNCHANGED <<Uncounted, Turned>>

Booked ==
    \/ Same /\ (UNCHANGED stats \/ \E counted \in SUBSET {"retried", "refused"} : Count(counted))
    \/ \E t : Sends(t) /\ UNCHANGED stats
    \/ \E t : Turns(t) /\ Count({"dropped"})
    \/ \E t : Returns(t) /\ Count({"enqueued"})
    \/ \E t : Settles(t) /\ (Count({"processed"}) \/ Count({"failed"}))

LEMMA BookedBalance ==
    ASSUME TypeOK, Books, Booked
    PROVE  Balance'
<1>1. /\ stats.enqueued \in Nat /\ stats.processed \in Nat /\ stats.failed \in Nat
      /\ stats.dropped \in Nat
  BY DEF TypeOK, Counters
<1>2. /\ Cardinality(Uncounted) \in Nat /\ IsFiniteSet(Uncounted)
      /\ Cardinality(Turned) \in Nat /\ IsFiniteSet(Turned)
      /\ Cardinality(Unsettled) \in Nat /\ IsFiniteSet(Unsettled)
  BY CalledFinite DEF Books
<1>3. ASSUME NEW S, Count(S)
      PROVE  \A s \in {"enqueued", "processed", "failed", "dropped"} :
                stats'[s] = IF s \in S THEN stats[s] + 1 ELSE stats[s]
  BY <1>3 DEF Count, Counters
<1>4. Balance
  BY DEF Books
<1>5. CASE Same /\ (UNCHANGED stats \/ \E counted \in SUBSET {"retried", "refused"} : Count(counted))
  <2>1. \A s \in {"enqueued", "processed", "failed", "dropped"} : stats'[s] = stats[s]
    <3>1. ASSUME NEW counted \in SUBSET {"retried", "refused"}, Count(counted)
          PROVE  \A s \in {"enqueued", "processed", "failed", "dropped"} :
                    stats'[s] = stats[s]
      BY <1>3, <3>1
    <3> QED BY <1>5, <3>1
  <2> QED BY <1>4, <1>5, <2>1 DEF Balance, Same
<1>6. ASSUME NEW t, Sends(t), UNCHANGED stats PROVE Balance'
  <2>1. /\ Cardinality(Uncounted') = Cardinality(Uncounted) + 1
        /\ Cardinality(Unsettled') = Cardinality(Unsettled) + 1
        /\ Turned' = Turned
    BY <1>2, <1>6, CountMoves DEF Sends
  <2>2. stats' = stats
    BY <1>6
  <2> QED BY <1>1, <1>2, <1>4, <2>1, <2>2 DEF Balance
<1>7. ASSUME NEW t, Turns(t), Count({"dropped"}) PROVE Balance'
  BY <1>1, <1>2, <1>3, <1>4, <1>7, CountMoves DEF Balance, Turns
<1>8. ASSUME NEW t, Returns(t), Count({"enqueued"}) PROVE Balance'
  BY <1>1, <1>2, <1>3, <1>4, <1>8, CountMoves DEF Balance, Returns
<1>9. ASSUME NEW t, Settles(t), Count({"processed"}) \/ Count({"failed"}) PROVE Balance'
  <2>1. Cardinality(Unsettled') = Cardinality(Unsettled) - 1
    BY <1>2, <1>9, CountMoves DEF Settles
  <2>2. CASE Count({"processed"})
    BY <1>1, <1>2, <1>3, <1>4, <1>9, <2>1, <2>2 DEF Balance, Settles
  <2>3. CASE Count({"failed"})
    BY <1>1, <1>2, <1>3, <1>4, <1>9, <2>1, <2>3 DEF Balance, Settles
  <2> QED BY <1>9, <2>2, <2>3
<1> QED BY <1>5, <1>6, <1>7, <1>8, <1>9 DEF Booked

\* A task whose send takes effect.
LEMMA SendBooked ==
    ASSUME LedgerInv, NEW t \in Tasks, spc[t] \in {"locked", "parked"},
           spc' = [spc EXCEPT ![t] = "sent"], UNCHANGED <<outcome, stats>>
    PROVE  Booked
<1>1. \A u \in Tasks : spc'[u] = IF u = t THEN "sent" ELSE spc[u]
  BY DEF LedgerInv, ChannelInv, TypeOK
<1>2. outcome[t] = "none"
  BY DEF LedgerInv, Ledger
<1>3. Uncounted' = Uncounted \cup {t} /\ t \notin Uncounted
  BY <1>1 DEF Uncounted
<1>4. Unsettled' = Unsettled \cup {t} /\ t \notin Unsettled
  BY <1>1, <1>2 DEF Unsettled
<1>5. Turned' = Turned
  BY <1>1 DEF Turned
<1> QED BY <1>3, <1>4, <1>5 DEF Booked, Sends

\* A step that changes no send and no outcome.
LEMMA SameLemma ==
    ASSUME UNCHANGED outcome,
           \A t \in Tasks : \/ spc'[t] = spc[t]
                            \/ /\ spc[t] \notin {"sent", "ok", "full", "cancelled"}
                               /\ spc'[t] \notin {"sent", "ok", "full", "cancelled"}
    PROVE  Same
<1>1. Uncounted' = Uncounted
  BY DEF Uncounted
<1>2. Turned' = Turned
  BY DEF Turned
<1>3. Unsettled' = Unsettled
  BY DEF Unsettled
<1> QED BY <1>1, <1>2, <1>3 DEF Same

\* execute is left.
LEMMA LeaveBooked ==
    ASSUME LedgerInv, NEW w \in Workers, wpc[w] \in Busy, NEW o \in Outcomes, NEW pc,
           LeaveExecute(w, o, pc)
    PROVE  IF o = "lost" THEN Same ELSE \E t : Settles(t)
<1>1. PICK t \in Tasks : t = wtask[w]
  BY BusyTask
<1>2. outcome[t] = "none" /\ spc[t] \in {"sent", "ok"}
  BY <1>1, BusyTask, TaskAssumption DEF LedgerInv, Ledger
<1>3. spc' = spc /\ \A u \in Tasks : outcome'[u] = IF u = t THEN o ELSE outcome[u]
  BY <1>1 DEF LeaveExecute, subVars, LedgerInv, ChannelInv, TypeOK
<1>4. Uncounted' = Uncounted /\ Turned' = Turned
  BY <1>3 DEF Uncounted, Turned
<1>5. o = "lost" => Unsettled' = Unsettled
  BY <1>2, <1>3 DEF Unsettled
<1>6. o # "lost" => t \in Unsettled /\ Unsettled' = Unsettled \ {t}
  BY <1>2, <1>3 DEF Unsettled, Outcomes
<1> QED BY <1>4, <1>5, <1>6 DEF Same, Settles

LEMMA NextBooked ==
    ASSUME LedgerInv, [Next]_vars
    PROVE  Booked
<1> USE DEF LedgerInv, ChannelInv
<1>1. ASSUME NEW t \in Tasks,
             \/ SubmitInvalid(t) \/ SubmitCtxDone(t) \/ RejectClosed(t) \/ SubmitPark(t)
             \/ \E m \in Methods \ {"invalid"}, o \in Overrides : SubmitCall(t, m, o)
      PROVE  Booked
  <2>1. UNCHANGED <<outcome, stats>>
    BY <1>1 DEF SubmitInvalid, SubmitCtxDone, RejectClosed, SubmitPark, SubmitCall, histVars
  <2>2. Same
    BY <1>1, <2>1, SameLemma DEF SubmitInvalid, SubmitCtxDone, RejectClosed, SubmitPark, SubmitCall,
       MaySend, TypeOK
  <2> QED BY <2>1, <2>2 DEF Booked
<1>2. ASSUME NEW t \in Tasks, Buffer(t) \/ \E w \in Workers : HandOff(t, w) PROVE Booked
  BY <1>2, SendBooked DEF Buffer, HandOff, MaySend, histVars
<1>3. ASSUME NEW t \in Tasks, SubmitCancelled(t) \/ TrySubmitFull(t) PROVE Booked
  <2>1. spc[t] \in {"locked", "parked"} /\ UNCHANGED outcome
    BY <1>3 DEF SubmitCancelled, TrySubmitFull, MaySend, histVars
  <2>2. PICK pc \in {"full", "cancelled"} : spc' = [spc EXCEPT ![t] = pc]
    BY <1>3 DEF SubmitCancelled, TrySubmitFull
  <2>3. \A u \in Tasks : spc'[u] = IF u = t THEN pc ELSE spc[u]
    BY <2>2 DEF TypeOK
  <2>4. Turned' = Turned \cup {t} /\ t \notin Turned
    BY <2>1, <2>3 DEF Turned
  <2>5. Uncounted' = Uncounted
    BY <2>1, <2>3 DEF Uncounted
  <2>6. Unsettled' = Unsettled
    BY <2>1, <2>3 DEF Unsettled
  <2> QED BY <1>3, <2>4, <2>5, <2>6 DEF Booked, Turns, SubmitCancelled, TrySubmitFull
<1>4. ASSUME NEW t \in Tasks, SubmitReturns(t) PROVE Booked
  <2>1. spc[t] = "sent" /\ UNCHANGED outcome
    BY <1>4 DEF SubmitReturns, histVars
  <2>2. \A u \in Tasks : spc'[u] = IF u = t THEN "ok" ELSE spc[u]
    BY <1>4 DEF SubmitReturns, TypeOK
  <2>3. Uncounted' = Uncounted \ {t} /\ t \in Uncounted
    BY <2>1, <2>2 DEF Uncounted
  <2>4. Turned' = Turned
    BY <2>1, <2>2 DEF Turned
  <2>5. Unsettled' = Unsettled
    BY <2>1, <2>2 DEF Unsettled
  <2> QED BY <1>4, <2>3, <2>4, <2>5 DEF Booked, Returns, SubmitReturns
<1>5. ASSUME NEW w \in Workers, Receive(w) PROVE Booked
  <2>1. UNCHANGED <<outcome, stats>>
    BY <1>5 DEF Receive, histVars
  <2>2. CASE Len(tasks) > QueueSize
    <3>1. QueueSize + 1 \in DOMAIN tasks /\ tasks[QueueSize + 1] \in Tasks
      BY <2>2, QueueAssumption, LenProperties, ElementOfSeq DEF TypeOK
    <3>2. spc[tasks[QueueSize + 1]] = "parked"
      BY <3>1, QueueAssumption DEF ChannelOrder
    <3>3. spc' = [spc EXCEPT ![tasks[QueueSize + 1]] = "sent"]
      BY <1>5, <2>2 DEF Receive, SendersAfterReceive
    <3> HIDE DEF LedgerInv
    <3> QED BY <2>1, <3>1, <3>2, <3>3, SendBooked
  <2>3. CASE ~(Len(tasks) > QueueSize)
    <3>1. spc' = spc
      BY <1>5, <2>3 DEF Receive, SendersAfterReceive
    <3> QED BY <2>1, <3>1, SameLemma DEF Booked
  <2> QED BY <2>2, <2>3
<1>6. ASSUME NEW w \in Workers,
             \/ WorkerPark(w) \/ WorkerExit(w) \/ BeginAttempt(w) \/ Wake(w) \/ LastFailure(w)
             \/ PredicateRefuses(w) \/ \E delay \in Delays : Retry(w, delay)
      PROVE  Booked
  <2>1. UNCHANGED <<spc, outcome>>
    BY <1>6 DEF WorkerPark, WorkerExit, BeginAttempt, Wake, LastFailure, PredicateRefuses, Retry,
       subVars, histVars
  <2>2. UNCHANGED stats \/ Count({"retried"}) \/ Count({"refused"})
    BY <1>6 DEF WorkerPark, WorkerExit, BeginAttempt, Wake, LastFailure, PredicateRefuses, Retry
  <2>3. UNCHANGED stats \/ \E counted \in SUBSET {"retried", "refused"} : Count(counted)
    BY <2>2
  <2>4. Same
    BY <2>1, SameLemma
  <2> QED BY <2>3, <2>4 DEF Booked
<1>7. ASSUME NEW w \in Workers, JobSucceeds(w) PROVE Booked
  <2>1. \E t : Settles(t)
    BY <1>7, LeaveBooked DEF JobSucceeds, Outcomes, Busy
  <2> QED BY <1>7, <2>1 DEF Booked, JobSucceeds
<1>8. ASSUME NEW w \in Workers, RefusalFails(w) PROVE Booked
  <2>1. \E t : Settles(t)
    BY <1>8, LeaveBooked DEF RefusalFails, Outcomes, Busy
  <2> QED BY <1>8, <2>1 DEF Booked, RefusalFails
<1>9. ASSUME NEW w \in Workers, Exhausted(w) \/ Abandon(w) PROVE Booked
  <2>1. \E t : Settles(t)
    BY <1>9, LeaveBooked DEF Exhausted, Abandon, Outcomes, Busy
  <2> QED BY <1>9, <2>1 DEF Booked, Exhausted, Abandon
<1>10. ASSUME NEW w \in Workers, NEW counted \in SUBSET {"retried"}, WorkerPanics(w, counted)
       PROVE  Booked
  <2>1. Same
    BY <1>10, LeaveBooked DEF WorkerPanics, Outcomes, Busy
  <2> QED BY <1>10, <2>1 DEF Booked, WorkerPanics
<1>11. ASSUME NEW c \in Closers,
              \/ CloseInvalid(c) \/ CloseCtxDone(c) \/ CloseStep(c)
              \/ \E m \in Modes \ {"invalid"} : CloseCall(c, m)
       PROVE  Booked
  <2>1. UNCHANGED <<outcome, stats>>
    BY <1>11 DEF CloseInvalid, CloseCall, CloseCtxDone, CloseStep, CloseAnnounce, CloseChannel,
       CloseSignals, CloseDrained, CloseTimesOut, SignalQuit, histVars
  <2>2. \A t \in Tasks : spc'[t] = spc[t] \/ (spc[t] = "rlock" /\ spc'[t] = "locked")
    BY <1>11 DEF CloseInvalid, CloseCall, CloseCtxDone, CloseStep, CloseAnnounce, CloseChannel,
       CloseSignals, CloseDrained, CloseTimesOut, SignalQuit, subVars
  <2> QED BY <2>1, <2>2, SameLemma DEF Booked
<1>12. CASE UNCHANGED vars
  <2>1. UNCHANGED <<spc, outcome, stats>>
    BY <1>12 DEF vars, subVars, histVars
  <2> QED BY <2>1, SameLemma DEF Booked
<1> HIDE DEF LedgerInv, ChannelInv
<1> QED
  BY <1>1, <1>2, <1>3, <1>4, <1>5, <1>6, <1>7, <1>8, <1>9, <1>10, <1>11, <1>12
  DEF Next, SubmitStep, WorkerStep, JobEnds, Terminated

\* At most one more submission is made by a step.
LEMMA NextCalled ==
    ASSUME TypeOK, [Next]_vars, IsFiniteSet(Called)
    PROVE  IsFiniteSet(Called')
<1>1. ASSUME NEW t, NEW pc, spc' = [spc EXCEPT ![t] = pc] PROVE IsFiniteSet(Called')
  <2>1. Called' \in SUBSET (Called \cup {t})
    BY <1>1 DEF Called, TypeOK
  <2> QED BY <2>1, FS_AddElement, FS_Subset
<1>2. ASSUME \A t \in Tasks : spc'[t] # "new" => spc[t] # "new" PROVE IsFiniteSet(Called')
  <2>1. Called' \in SUBSET Called
    BY <1>2 DEF Called
  <2> QED BY <2>1, FS_Subset
<1>3. ASSUME NEW t \in Tasks,
             \/ SubmitInvalid(t) \/ SubmitCtxDone(t) \/ SubmitStep(t)
             \/ \E m \in Methods \ {"invalid"}, o \in Overrides : SubmitCall(t, m, o)
      PROVE  IsFiniteSet(Called')
  <2>1. spc' = spc \/ \E pc : spc' = [spc EXCEPT ![t] = pc]
    BY <1>3 DEF SubmitInvalid, SubmitCtxDone, SubmitCall, SubmitStep, RejectClosed, HandOff, Buffer,
       SubmitPark, SubmitCancelled, TrySubmitFull, SubmitReturns
  <2> QED BY <1>1, <1>2, <2>1
<1>4. ASSUME NEW w \in Workers, WorkerStep(w) \/ JobEnds(w) \/ Wake(w)
      PROVE  IsFiniteSet(Called')
  <2>1. spc' = spc \/ spc' = SendersAfterReceive
    BY <1>4 DEF WorkerStep, JobEnds, Receive, WorkerPark, WorkerExit, BeginAttempt, Exhausted,
       Abandon, Wake, JobSucceeds, PredicateRefuses, RefusalFails, Retry, LastFailure, WorkerPanics,
       LeaveExecute,
       subVars
  <2>2. spc' = spc \/ spc' = [spc EXCEPT ![tasks[QueueSize + 1]] = "sent"]
    BY <2>1 DEF SendersAfterReceive
  <2> QED BY <1>1, <1>2, <2>2
<1>5. ASSUME NEW c \in Closers,
             \/ CloseInvalid(c) \/ CloseCtxDone(c) \/ CloseStep(c)
             \/ \E m \in Modes \ {"invalid"} : CloseCall(c, m)
      PROVE  IsFiniteSet(Called')
  <2>1. \A t \in Tasks : spc'[t] = spc[t] \/ (spc[t] = "rlock" /\ spc'[t] = "locked")
    BY <1>5 DEF CloseInvalid, CloseCall, CloseCtxDone, CloseStep, CloseAnnounce, CloseChannel,
       CloseSignals, CloseDrained, CloseTimesOut, SignalQuit, subVars
  <2> QED BY <1>2, <2>1
<1>6. CASE UNCHANGED vars
  BY <1>2, <1>6 DEF vars, subVars
<1> QED BY <1>3, <1>4, <1>5, <1>6 DEF Next, Terminated

LEMMA NextBooks == LedgerInv /\ Books /\ [Next]_vars => Books'
<1> SUFFICES ASSUME LedgerInv, Books, [Next]_vars PROVE Books'
  OBVIOUS
<1>1. TypeOK
  BY DEF LedgerInv, ChannelInv
<1>2. Balance'
  BY <1>1, NextBooked, BookedBalance
<1>3. IsFiniteSet(Called')
  BY <1>1, NextCalled DEF Books
<1> QED BY <1>2, <1>3 DEF Books

LEMMA InitBooks == Init => Books
<1> SUFFICES ASSUME Init PROVE Books
  OBVIOUS
<1>1. Called = {} /\ Uncounted = {} /\ Turned = {} /\ Unsettled = {}
  BY DEF Init, Called, Uncounted, Turned, Unsettled
<1>2. \A s \in {"enqueued", "processed", "failed", "dropped"} : stats[s] = 0
  BY DEF Init, Counters
<1> QED BY <1>1, <1>2, FS_EmptySet DEF Books, Balance

THEOREM BooksInvariant == Spec => []Books
BY InitBooks, NextBooks, LedgerInvariant, PTL DEF Spec

\* What is queued, executing or lost is what was handed over and is not settled.
LEMMA UnsettledPlaces ==
    ASSUME LedgerInv
    PROVE  Unsettled = Buffered \cup Held \cup {t \in Tasks : outcome[t] = "lost"}
<1>1. EachTaskInOnePlace
  BY LedgerPlaces
<1>2. Unsettled = {t \in Accepted : outcome[t] \in {"none", "lost"}}
  BY DEF Unsettled, Accepted
<1>3. Accepted = Buffered \cup Held \cup Settled
  BY <1>1 DEF EachTaskInOnePlace
<1>4. \A t \in Buffered \cup Held : t \in Tasks /\ outcome[t] = "none"
  BY <1>1, <1>3 DEF EachTaskInOnePlace, Settled, Accepted
<1>5. \A t : t \in Settled <=> t \in Tasks /\ outcome[t] # "none"
  BY DEF Settled
<1> QED BY <1>2, <1>3, <1>4, <1>5

\* A refusal is counted before its task has failed.
Refused == {t \in Tasks : outcome[t] = "refused"}

Refusing == {w \in Workers : wpc[w] = "refusal"}

Refusals ==
    /\ IsFiniteSet(Refused)
    /\ stats.refused = Cardinality(Refused) + Cardinality(Refusing)

RefusalsSame ==
    /\ stats'.refused = stats.refused
    /\ \A w \in Workers : wpc'[w] = "refusal" <=> wpc[w] = "refusal"
    /\ \A t \in Tasks : outcome'[t] = "refused" <=> outcome[t] = "refused"

LEMMA RefusalsSameLemma ==
    ASSUME Refusals, RefusalsSame
    PROVE  Refusals'
<1>1. Refused' = Refused
  BY DEF Refused, RefusalsSame
<1>2. Refusing' = Refusing
  BY DEF Refusing, RefusalsSame
<1> QED BY <1>1, <1>2 DEF Refusals, RefusalsSame

\* The two increments of a refusal.
LEMMA RefusalCounted ==
    ASSUME LedgerInv, Refusals, NEW w \in Workers, PredicateRefuses(w) \/ RefusalFails(w)
    PROVE  Refusals'
<1>1. /\ IsFiniteSet(Refusing) /\ Cardinality(Refusing) \in Nat
      /\ IsFiniteSet(Refused) /\ Cardinality(Refused) \in Nat
  <2>1. Refusing \in SUBSET Workers
    BY DEF Refusing
  <2> QED BY <2>1, WorkerAssumption, FS_Subset, FS_CardinalityType DEF Refusals
<1>2. TypeOK /\ stats.refused \in Nat
  BY DEF LedgerInv, ChannelInv, TypeOK, Counters
<1>3. CASE PredicateRefuses(w)
  <2>1. wpc[w] = "run" /\ wpc' = [wpc EXCEPT ![w] = "refusal"] /\ UNCHANGED outcome
    BY <1>3 DEF PredicateRefuses, histVars
  <2>2. \A v \in Workers : wpc'[v] = IF v = w THEN "refusal" ELSE wpc[v]
    BY <1>2, <2>1 DEF TypeOK
  <2>3. w \notin Refusing /\ Refusing' = Refusing \cup {w}
    BY <2>1, <2>2 DEF Refusing
  <2>4. Cardinality(Refusing') = Cardinality(Refusing) + 1
    BY <1>1, <2>3, CountMoves
  <2>5. Refused' = Refused
    BY <2>1 DEF Refused
  <2>6. stats'.refused = stats.refused + 1
    BY <1>3 DEF PredicateRefuses, Count, Counters
  <2> QED BY <1>1, <2>4, <2>5, <2>6 DEF Refusals
<1>4. CASE RefusalFails(w)
  <2>1. PICK t \in Tasks : t = wtask[w]
    BY <1>4, BusyTask DEF RefusalFails, Busy
  <2>2. outcome[t] = "none" /\ wpc[w] = "refusal"
    BY <1>4, <2>1, BusyTask DEF RefusalFails, Busy
  <2>3. wpc' = [wpc EXCEPT ![w] = "recv"] /\ outcome' = [outcome EXCEPT ![t] = "refused"]
    BY <1>4, <2>1 DEF RefusalFails, LeaveExecute
  <2>4. \A v \in Workers : wpc'[v] = IF v = w THEN "recv" ELSE wpc[v]
    BY <1>2, <2>3 DEF TypeOK
  <2>5. \A u \in Tasks : outcome'[u] = IF u = t THEN "refused" ELSE outcome[u]
    BY <2>3 DEF LedgerInv, ChannelInv, TypeOK
  <2>6. w \in Refusing /\ Refusing' = Refusing \ {w}
    BY <2>2, <2>4 DEF Refusing
  <2>7. t \notin Refused /\ Refused' = Refused \cup {t}
    BY <2>2, <2>5 DEF Refused
  <2>8. Cardinality(Refusing') = Cardinality(Refusing) - 1
    BY <1>1, <2>6, CountMoves
  <2>9. Cardinality(Refused') = Cardinality(Refused) + 1 /\ IsFiniteSet(Refused')
    BY <1>1, <2>7, CountMoves, FS_AddElement
  <2>10. stats'.refused = stats.refused
    BY <1>4 DEF RefusalFails, Count, Counters
  <2> QED BY <1>1, <2>8, <2>9, <2>10 DEF Refusals
<1> QED BY <1>3, <1>4

LEMMA NextRefusals == LedgerInv /\ Refusals /\ [Next]_vars => Refusals'
<1> SUFFICES ASSUME LedgerInv, Refusals, [Next]_vars PROVE Refusals'
  OBVIOUS
<1>1. ASSUME NEW S, Count(S), "refused" \notin S PROVE stats'.refused = stats.refused
  BY <1>1 DEF Count, Counters
<1>2. TypeOK
  BY DEF LedgerInv, ChannelInv
<1>3. ASSUME NEW t \in Tasks,
             \/ SubmitInvalid(t) \/ SubmitCtxDone(t) \/ SubmitStep(t)
             \/ \E m \in Methods \ {"invalid"}, o \in Overrides : SubmitCall(t, m, o)
      PROVE  RefusalsSame
  <2>1. UNCHANGED outcome
    BY <1>3 DEF SubmitInvalid, SubmitCtxDone, SubmitCall, SubmitStep, RejectClosed, HandOff, Buffer,
       SubmitPark, SubmitCancelled, TrySubmitFull, SubmitReturns, histVars
  <2>2. wpc' = wpc \/ \E w \in Workers : wpc[w] = "parked" /\ wpc' = [wpc EXCEPT ![w] = "loop"]
    BY <1>3 DEF SubmitInvalid, SubmitCtxDone, SubmitCall, SubmitStep, RejectClosed, HandOff, Buffer,
       SubmitPark, SubmitCancelled, TrySubmitFull, SubmitReturns, workVars
  <2>3. UNCHANGED stats \/ Count({"dropped"}) \/ Count({"enqueued"})
    BY <1>3 DEF SubmitInvalid, SubmitCtxDone, SubmitCall, SubmitStep, RejectClosed, HandOff, Buffer,
       SubmitPark, SubmitCancelled, TrySubmitFull, SubmitReturns
  <2>4. \A w \in Workers : wpc'[w] = "refusal" <=> wpc[w] = "refusal"
    BY <1>2, <2>2 DEF TypeOK
  <2>5. stats'.refused = stats.refused
    BY <1>1, <2>3
  <2> QED BY <2>1, <2>4, <2>5 DEF RefusalsSame
<1>4. ASSUME NEW w \in Workers,
             \/ Receive(w) \/ WorkerPark(w) \/ WorkerExit(w) \/ BeginAttempt(w) \/ Wake(w)
             \/ LastFailure(w) \/ \E delay \in Delays : Retry(w, delay)
      PROVE  RefusalsSame
  <2>1. UNCHANGED outcome
    BY <1>4 DEF Receive, WorkerPark, WorkerExit, BeginAttempt, Wake, LastFailure, Retry, histVars
  <2>2. wpc[w] # "refusal" /\ \E pc \in {"loop", "parked", "exited", "run", "sleep"} :
                                wpc' = [wpc EXCEPT ![w] = pc]
    BY <1>4 DEF Receive, WorkerPark, WorkerExit, BeginAttempt, Wake, LastFailure, Retry, NextAttempt
  <2>3. UNCHANGED stats \/ Count({"retried"})
    BY <1>4 DEF Receive, WorkerPark, WorkerExit, BeginAttempt, Wake, LastFailure, Retry
  <2>4. \A v \in Workers : wpc'[v] = "refusal" <=> wpc[v] = "refusal"
    BY <1>2, <2>2 DEF TypeOK
  <2>5. stats'.refused = stats.refused
    BY <1>1, <2>3
  <2> QED BY <2>1, <2>4, <2>5 DEF RefusalsSame
<1>5. ASSUME NEW w \in Workers,
             \/ JobSucceeds(w) \/ Exhausted(w) \/ Abandon(w)
             \/ \E counted \in SUBSET {"retried"} : WorkerPanics(w, counted)
      PROVE  RefusalsSame
  <2>1. PICK o \in Outcomes, pc \in {"recv", "dead"} : o # "refused" /\ LeaveExecute(w, o, pc)
    BY <1>5 DEF JobSucceeds, Exhausted, Abandon, WorkerPanics, Outcomes
  <2>2. wpc[w] \in Busy /\ wpc[w] # "refusal"
    BY <1>5 DEF JobSucceeds, Exhausted, Abandon, WorkerPanics, Busy
  <2>3. PICK t \in Tasks : t = wtask[w]
    BY <2>2, BusyTask
  <2>4. outcome[t] = "none"
    BY <2>2, <2>3, BusyTask
  <2>5. wpc' = [wpc EXCEPT ![w] = pc] /\ outcome' = [outcome EXCEPT ![t] = o]
    BY <2>1, <2>3 DEF LeaveExecute
  <2>6. \A v \in Workers : wpc'[v] = "refusal" <=> wpc[v] = "refusal"
    BY <1>2, <2>2, <2>5 DEF TypeOK
  <2>7. \A u \in Tasks : outcome'[u] = "refused" <=> outcome[u] = "refused"
    BY <1>2, <2>1, <2>4, <2>5 DEF TypeOK
  <2>8. \E S : "refused" \notin S /\ Count(S)
    BY <1>5 DEF JobSucceeds, Exhausted, Abandon, WorkerPanics
  <2>9. stats'.refused = stats.refused
    BY <1>1, <2>8
  <2> QED BY <2>6, <2>7, <2>9 DEF RefusalsSame
<1>6. ASSUME NEW w \in Workers, PredicateRefuses(w) \/ RefusalFails(w) PROVE Refusals'
  BY <1>6, RefusalCounted
<1>7. ASSUME NEW c \in Closers,
             \/ CloseInvalid(c) \/ CloseCtxDone(c) \/ CloseStep(c)
             \/ \E m \in Modes \ {"invalid"} : CloseCall(c, m)
      PROVE  RefusalsSame
  <2>1. UNCHANGED <<outcome, stats>>
    BY <1>7 DEF CloseInvalid, CloseCall, CloseCtxDone, CloseStep, CloseAnnounce, CloseChannel,
       CloseSignals, CloseDrained, CloseTimesOut, SignalQuit, histVars
  <2>2. \A w \in Workers : wpc'[w] = wpc[w] \/ (wpc[w] = "parked" /\ wpc'[w] = "recv")
    BY <1>7 DEF CloseInvalid, CloseCall, CloseCtxDone, CloseStep, CloseAnnounce, CloseChannel,
       CloseSignals, CloseDrained, CloseTimesOut, SignalQuit, workVars
  <2>3. \A w \in Workers : wpc'[w] = "refusal" <=> wpc[w] = "refusal"
    BY <2>2
  <2> QED BY <2>1, <2>3 DEF RefusalsSame
<1>8. ASSUME UNCHANGED vars PROVE Refusals'
  <2>1. UNCHANGED <<wpc, outcome, stats>>
    BY <1>8 DEF vars, workVars, histVars
  <2>2. Refused' = Refused /\ Refusing' = Refusing
    BY <2>1 DEF Refused, Refusing
  <2> QED BY <2>1, <2>2 DEF Refusals
<1>9. Refusals' \/ RefusalsSame
  BY <1>3, <1>4, <1>5, <1>6, <1>7, <1>8 DEF Next, WorkerStep, JobEnds, Terminated
<1> QED BY <1>9, RefusalsSameLemma

LEMMA InitRefusals == Init => Refusals
<1> SUFFICES ASSUME Init PROVE Refusals
  OBVIOUS
<1>1. Refused = {} /\ Refusing = {} /\ stats.refused = 0
  BY DEF Init, Refused, Refusing, Counters
<1> QED BY <1>1, FS_EmptySet DEF Refusals

\* IncRetryPredicatesFailed is ahead of IncFailed by the workers between the two.
THEOREM RefusalsInvariant == Spec => []Refusals
BY InitRefusals, NextRefusals, LedgerInvariant, PTL DEF Spec

\* The counters of Stats agree with the tasks at every moment, for any number
\* of submissions and workers.
THEOREM StatsBalanced == Spec => []StatsBalance
<1>1. LedgerInv /\ Books /\ Refusals => StatsBalance
  BY UnsettledPlaces DEF Books, Balance, Refusals, StatsBalance, Uncounted, Turned, Refused, Refusing
<1> QED BY <1>1, LedgerInvariant, BooksInvariant, RefusalsInvariant, PTL

---------------------------------------------------------------------------
(* The end of a drain.                                                     *)

\* Every worker has ended by the time Close says so in drain mode, and no call
\* is between its send and its return once the dispatcher is closed.
Drain ==
    /\ closed => \A t \in Tasks : spc[t] # "sent"
    /\ \A c \in Closers : cpc[c] = "signal" => mode[c] = "immediate"
    /\ \A c \in Closers : cpc[c] = "nil" /\ mode[c] = "drain" => WorkersDone

LEMMA DrainKept ==
    ASSUME Drain, UNCHANGED <<cpc, mode>>, closed' = closed,
           closed => \A t \in Tasks : spc'[t] = "sent" => spc[t] = "sent",
           \A w \in Workers : wpc[w] \in {"exited", "dead"} => wpc'[w] = wpc[w]
    PROVE  Drain'
BY DEF Drain, WorkersDone

LEMMA NextDrain == ChannelInv /\ Drain /\ [Next]_vars => Drain'
<1> SUFFICES ASSUME ChannelInv, Drain, [Next]_vars PROVE Drain'
  OBVIOUS
<1> USE DEF ChannelInv
<1>1. ASSUME NEW t \in Tasks,
             \/ SubmitInvalid(t) \/ SubmitCtxDone(t) \/ SubmitStep(t)
             \/ \E m \in Methods \ {"invalid"}, o \in Overrides : SubmitCall(t, m, o)
      PROVE  Drain'
  <2>1. UNCHANGED <<cpc, mode, closed>>
    BY <1>1 DEF SubmitInvalid, SubmitCtxDone, SubmitCall, SubmitStep, RejectClosed, HandOff, Buffer,
       SubmitPark, SubmitCancelled, TrySubmitFull, SubmitReturns, closeVars
  <2>2. \A w \in Workers : wpc[w] # "parked" => wpc'[w] = wpc[w]
    BY <1>1 DEF SubmitInvalid, SubmitCtxDone, SubmitCall, SubmitStep, RejectClosed, HandOff, Buffer,
       SubmitPark, SubmitCancelled, TrySubmitFull, SubmitReturns, workVars, TypeOK
  <2>3. ASSUME closed, NEW u \in Tasks, spc'[u] = "sent" PROVE spc[u] = "sent"
    <3>1. spc' = spc \/ \E pc : pc # "sent" /\ spc' = [spc EXCEPT ![t] = pc]
      BY <1>1, <2>3 DEF SubmitInvalid, SubmitCtxDone, SubmitCall, SubmitStep, RejectClosed, HandOff,
         Buffer, SubmitPark, SubmitCancelled, TrySubmitFull, SubmitReturns, MaySend
    <3> QED BY <2>3, <3>1 DEF TypeOK
  <2> QED BY <2>1, <2>2, <2>3, DrainKept
<1>2. ASSUME NEW w \in Workers, WorkerStep(w) \/ JobEnds(w) \/ Wake(w) PROVE Drain'
  <2>1. UNCHANGED <<cpc, mode, closed>>
    BY <1>2 DEF WorkerStep, JobEnds, Receive, WorkerPark, WorkerExit, BeginAttempt, Exhausted,
       Abandon, Wake, JobSucceeds, PredicateRefuses, RefusalFails, Retry, LastFailure, WorkerPanics,
       LeaveExecute,
       closeVars
  <2>2. wpc[w] \notin {"exited", "dead"} /\ \A v \in Workers \ {w} : wpc'[v] = wpc[v]
    BY <1>2 DEF WorkerStep, JobEnds, Receive, WorkerPark, WorkerExit, BeginAttempt, Exhausted,
       Abandon, Wake, JobSucceeds, PredicateRefuses, RefusalFails, Retry, LastFailure, WorkerPanics,
       LeaveExecute,
       NextAttempt, TypeOK
  <2>3. closed => spc' = spc
    <3>1. CASE Receive(w)
      <4> SUFFICES ASSUME closed PROVE ~(Len(tasks) > QueueSize)
        BY <3>1 DEF Receive, SendersAfterReceive
      <4>1. ASSUME Len(tasks) > QueueSize
            PROVE  QueueSize + 1 \in DOMAIN tasks /\ tasks[QueueSize + 1] \in Tasks
        BY <4>1, QueueAssumption, LenProperties, ElementOfSeq DEF TypeOK
      <4> QED BY <4>1, QueueAssumption DEF ChannelOrder, NoSenderOnClosedChannel
    <3>2. CASE ~Receive(w)
      BY <1>2, <3>2 DEF WorkerStep, JobEnds, WorkerPark, WorkerExit, BeginAttempt, Exhausted,
         Abandon, Wake, JobSucceeds, PredicateRefuses, RefusalFails, Retry, LastFailure, WorkerPanics,
         LeaveExecute, subVars
    <3> QED BY <3>1, <3>2
  <2> QED BY <2>1, <2>2, <2>3, DrainKept
<1>3. ASSUME NEW c \in Closers, CloseChannel(c) PROVE Drain'
  <2>1. \A t \in Tasks : spc'[t] # "sent"
    BY <1>3 DEF CloseChannel, Readers
  <2>2. \A d \in Closers : d # c => cpc'[d] = cpc[d]
    BY <1>3 DEF CloseChannel, TypeOK
  <2>3. /\ cpc'[c] \in {"signal", "wait", "panic"} /\ mode' = mode
        /\ cpc'[c] = "signal" => mode[c] = "immediate"
    BY <1>3 DEF CloseChannel, TypeOK
  <2>4. WorkersDone => WorkersDone'
    BY <1>3 DEF CloseChannel, WorkersDone
  <2> QED BY <2>1, <2>2, <2>3, <2>4 DEF Drain
<1>4. ASSUME NEW c \in Closers,
             \/ CloseInvalid(c) \/ CloseAnnounce(c) \/ CloseSignals(c) \/ CloseDrained(c)
             \/ CloseTimesOut(c) \/ \E m \in Modes \ {"invalid"} : CloseCall(c, m)
      PROVE  Drain'
  <2>1. UNCHANGED <<spc, closed, wpc>> /\ \A d \in Closers : d # c => cpc'[d] = cpc[d] /\ mode'[d] = mode[d]
    BY <1>4 DEF CloseInvalid, CloseAnnounce, CloseSignals, CloseDrained, CloseTimesOut, SignalQuit,
       CloseCall, subVars, workVars, TypeOK
  <2>2. /\ cpc'[c] # "signal"
        /\ cpc'[c] = "nil" /\ mode'[c] = "drain" => WorkersDone
    BY <1>4 DEF CloseInvalid, CloseAnnounce, CloseSignals, CloseDrained, CloseTimesOut, SignalQuit,
       CloseCall, TypeOK, Drain
  <2> QED BY <2>1, <2>2 DEF Drain, WorkersDone
<1>5. ASSUME NEW c \in Closers, CloseCtxDone(c) PROVE Drain'
  BY <1>5, DrainKept DEF CloseCtxDone, subVars, workVars
<1>6. CASE UNCHANGED vars
  BY <1>6, DrainKept DEF vars, subVars, workVars, closeVars
<1> HIDE DEF ChannelInv
<1> QED BY <1>1, <1>2, <1>3, <1>4, <1>5, <1>6 DEF Next, CloseStep, Terminated

LEMMA InitDrain == Init => Drain
BY DEF Init, Drain

LEMMA DrainComplete ==
    ASSUME LedgerInv, Receivers, Books, Drain
    PROVE  DrainAccountsForEveryTask
<1> SUFFICES ASSUME NEW c \in Closers, cpc[c] = "nil", mode[c] = "drain",
                    NEW w \in Workers, wpc[w] # "dead"
             PROVE  /\ Accepted \subseteq Settled
                    /\ Accepted = {t \in Tasks : spc[t] = "ok"}
                    /\ stats.enqueued = stats.processed + stats.failed
                          + Cardinality({t \in Tasks : outcome[t] = "lost"})
  BY DEF DrainAccountsForEveryTask
<1>1. WorkersDone /\ closed /\ tasks = <<>>
  BY DEF Drain, WorkersDone, Receivers, WorkersLeaveNothingBehind
<1>2. Held = {}
  BY <1>1 DEF WorkersDone, LedgerInv, Ledger, Held, Busy
<1>3. Range(tasks) = {}
  BY <1>1 DEF Range
<1>4. Buffered = {}
  BY <1>3, ChannelSplit DEF LedgerInv, ChannelInv
<1>5. Accepted = Settled
  BY <1>2, <1>4, LedgerPlaces DEF EachTaskInOnePlace
<1>6. \A t \in Tasks : spc[t] # "sent"
  BY <1>1 DEF Drain
<1>7. Accepted = {t \in Tasks : spc[t] = "ok"}
  BY <1>6 DEF Accepted
<1>8. Cardinality(Uncounted) = 0
  <2>1. Uncounted = {}
    BY <1>6 DEF Uncounted
  <2> QED BY <2>1, FS_EmptySet
<1>9. Unsettled = {t \in Tasks : outcome[t] = "lost"}
  BY <1>2, <1>4, UnsettledPlaces
<1>10. stats.enqueued \in Nat
  BY DEF LedgerInv, ChannelInv, TypeOK, Counters
<1>11. stats.enqueued = stats.processed + stats.failed + Cardinality(Unsettled)
  BY <1>8, <1>10 DEF Books, Balance
<1> QED BY <1>5, <1>7, <1>9, <1>11

\* When Close returns nil in drain mode, every task that any Submit handed over
\* has settled and is in the books, for any number of racing calls, unless
\* panics ended all the workers.
THEOREM DrainAccounts == Spec => []DrainAccountsForEveryTask
<1>1. Spec => []Drain
  <2>1. LedgerInv => ChannelInv
    BY DEF LedgerInv
  <2> QED BY <2>1, InitDrain, NextDrain, LedgerInvariant, PTL DEF Spec
<1> QED BY <1>1, DrainComplete, LedgerInvariant, ReceiversInvariant, BooksInvariant, PTL

---------------------------------------------------------------------------
(* Late calls.                                                             *)

\* A call that waits for the lock behind a Close finds the dispatcher closed.
Late(t) == spc[t] = "rlock" \/ (closed /\ spc[t] \in {"locked", "closed"})

LEMMA NextLate ==
    ASSUME TypeOK, ChannelOrder, NEW t \in Tasks, Late(t), [Next]_vars
    PROVE  Late(t)'
<1>1. ASSUME spc'[t] = spc[t], closed => closed' PROVE Late(t)'
  BY <1>1 DEF Late
<1>2. ASSUME NEW u \in Tasks,
             \/ SubmitInvalid(u) \/ SubmitCtxDone(u) \/ SubmitStep(u)
             \/ \E m \in Methods \ {"invalid"}, o \in Overrides : SubmitCall(u, m, o)
      PROVE  Late(t)'
  <2>1. closed' = closed
    BY <1>2 DEF SubmitInvalid, SubmitCtxDone, SubmitCall, SubmitStep, RejectClosed, HandOff, Buffer,
       SubmitPark, SubmitCancelled, TrySubmitFull, SubmitReturns
  <2>2. spc'[t] = spc[t] \/ (spc'[t] = "closed" /\ closed)
    BY <1>2 DEF SubmitInvalid, SubmitCtxDone, SubmitCall, SubmitStep, RejectClosed, HandOff, Buffer,
       SubmitPark, SubmitCancelled, TrySubmitFull, SubmitReturns, MaySend, Late, TypeOK
  <2> QED BY <2>1, <2>2 DEF Late
<1>3. ASSUME NEW w \in Workers, WorkerStep(w) \/ JobEnds(w) \/ Wake(w) PROVE Late(t)'
  <2>1. closed' = closed /\ (spc' = spc \/ (Receive(w) /\ spc' = SendersAfterReceive))
    BY <1>3 DEF WorkerStep, JobEnds, Receive, WorkerPark, WorkerExit, BeginAttempt, Exhausted,
       Abandon, Wake, JobSucceeds, PredicateRefuses, RefusalFails, Retry, LastFailure, WorkerPanics,
       LeaveExecute,
       subVars
  <2>2. ASSUME Len(tasks) > QueueSize PROVE spc[tasks[QueueSize + 1]] = "parked"
    BY <2>2, QueueAssumption, LenProperties DEF TypeOK, ChannelOrder
  <2>3. spc'[t] = spc[t]
    BY <2>1, <2>2 DEF SendersAfterReceive, Late, TypeOK
  <2> QED BY <1>1, <2>1, <2>3
<1>4. ASSUME NEW c \in Closers,
             \/ CloseInvalid(c) \/ CloseCtxDone(c) \/ CloseStep(c)
             \/ \E m \in Modes \ {"invalid"} : CloseCall(c, m)
      PROVE  Late(t)'
  <2>1. CASE CloseChannel(c)
    BY <2>1 DEF CloseChannel, Late
  <2>2. CASE ~CloseChannel(c)
    BY <1>1, <1>4, <2>2 DEF CloseInvalid, CloseCall, CloseCtxDone, CloseStep, CloseAnnounce,
       CloseSignals, CloseDrained, CloseTimesOut, SignalQuit, subVars
  <2> QED BY <2>1, <2>2
<1>5. CASE UNCHANGED vars
  BY <1>1, <1>5 DEF vars, subVars
<1> QED BY <1>2, <1>3, <1>4, <1>5 DEF Next, Terminated

\* A call that arrives while a Close waits for the lock is turned away, although
\* the dispatcher is not closed yet.
THEOREM LateRejected == Spec => LateSubmitsAreRejected
<1> SUFFICES ASSUME NEW t \in Tasks PROVE Spec => [](spc[t] = "rlock" => [](t \notin Accepted))
  BY DEF LateSubmitsAreRejected
<1>1. spc[t] = "rlock" => Late(t)
  BY DEF Late
<1>2. Late(t) => t \notin Accepted
  BY DEF Late, Accepted
<1>3. ChannelInv /\ Late(t) /\ [Next]_vars => Late(t)'
  BY NextLate DEF ChannelInv
<1> QED BY <1>1, <1>2, <1>3, ChannelInvariant, PTL DEF Spec

---------------------------------------------------------------------------
(* Retries.                                                                *)

Begun == {t \in Tasks : runs[t] > 0}

\* The calls of Process after the first one for a task.
Reruns == SumFunctionOnSet(runs, Begun) - Cardinality(Begun)

\* A retry that was counted is on its way while its worker sleeps, and from
\* then to the call of Process.
Underway(w) == wpc[w] = "sleep" \/ (wpc[w] = "loop" /\ attempt[w] > 0 /\ MayAttempt(w))

OnTheWay == {w \in Workers : Underway(w)}

CutShort == {t \in Tasks : outcome[t] = "abandoned"}

Lost == {t \in Tasks : outcome[t] = "lost"}

RetryBalance ==
    stats.retried - Reruns - Cardinality(OnTheWay) - Cardinality(CutShort) \in 0..Cardinality(Lost)

LEMMA RetriesFinite ==
    ASSUME LedgerInv, Attempts, Books
    PROVE  /\ \A S \in {Begun, OnTheWay, CutShort, Lost} : IsFiniteSet(S) /\ Cardinality(S) \in Nat
           /\ Reruns \in Int
<1>1. TypeOK /\ Ledger
  BY DEF LedgerInv, ChannelInv
<1>2. ASSUME NEW t \in Tasks, spc[t] = "new" PROVE runs[t] = 0 /\ outcome[t] = "none"
  <2>1. outcome[t] = "none" /\ \A w \in Workers : wtask[w] # t
    BY <1>1, <1>2, TaskAssumption DEF Ledger
  <2> QED BY <2>1 DEF Attempts, Unstarted
<1>3. Begun \in SUBSET Called /\ CutShort \in SUBSET Called /\ Lost \in SUBSET Called
  BY <1>2 DEF Begun, CutShort, Lost, Called
<1>4. OnTheWay \in SUBSET Workers
  BY DEF OnTheWay
<1>5. \A S \in {Begun, OnTheWay, CutShort, Lost} : IsFiniteSet(S) /\ Cardinality(S) \in Nat
  BY <1>3, <1>4, WorkerAssumption, FS_Subset, FS_CardinalityType DEF Books
<1>6. SumFunctionOnSet(runs, Begun) \in Int
  <2>1. \A t \in Begun : runs[t] \in Int
    BY <1>1 DEF Begun, TypeOK
  <2> QED BY <1>5, <2>1, SumType
<1> QED BY <1>5, <1>6 DEF Reruns

\* A further call of Process for t.
LEMMA OneMoreRun ==
    ASSUME LedgerInv, Attempts, Books, NEW t \in Tasks, runs' = [runs EXCEPT ![t] = @ + 1]
    PROVE  Reruns' = IF runs[t] = 0 THEN Reruns ELSE Reruns + 1
<1> DEFINE rest == Begun \ {t}
<1>1. runs \in [Tasks -> Nat]
  BY DEF LedgerInv, ChannelInv, TypeOK
<1>2. \A u \in Tasks : runs'[u] = IF u = t THEN runs[u] + 1 ELSE runs[u]
  BY <1>1
<1>3. IsFiniteSet(Begun) /\ IsFiniteSet(rest)
  BY RetriesFinite, FS_RemoveElement
<1>4. Begun' = rest \cup {t} /\ Begun' \ {t} = rest
  BY <1>1, <1>2 DEF Begun
<1>5. IsFiniteSet(Begun') /\ Cardinality(Begun') = Cardinality(rest) + 1
  BY <1>3, <1>4, FS_AddElement
<1>6. SumFunctionOnSet(runs', rest) = SumFunctionOnSet(runs, rest)
  <2> DEFINE f == runs'
  <2>1. \A u \in rest : f[u] = runs[u]
    BY <1>2 DEF Begun
  <2>2. IsFiniteSet(rest)
    BY <1>3
  <2> HIDE DEF rest, f
  <2>3. SumFunctionOnSet(f, rest) = SumFunctionOnSet(runs, rest)
    BY <2>1, <2>2, SumSame
  <2> QED BY <2>3 DEF f
<1>7. SumFunctionOnSet(runs', Begun') = (runs[t] + 1) + SumFunctionOnSet(runs, rest)
  <2>1. \A u \in Begun' : runs'[u] \in Int
    BY <1>1, <1>2 DEF Begun
  <2>2. t \in Begun' /\ runs'[t] = runs[t] + 1
    BY <1>2, <1>4
  <2>3. \A f, S : IsFiniteSet(S) /\ (\A u \in S : f[u] \in Int) /\ t \in S
                  => SumFunctionOnSet(f, S) = f[t] + SumFunctionOnSet(f, S \ {t})
    BY SumRemove
  <2>4. SumFunctionOnSet(runs', Begun') = runs'[t] + SumFunctionOnSet(runs', Begun' \ {t})
    BY <1>5, <2>1, <2>2, <2>3
  <2> QED BY <1>4, <1>6, <2>2, <2>4
<1>8. runs[t] \in Nat /\ SumFunctionOnSet(runs, rest) \in Int /\ Cardinality(rest) \in Nat
  <2>1. \A u \in rest : runs[u] \in Int
    BY <1>1 DEF Begun
  <2> HIDE DEF rest
  <2> QED BY <1>1, <1>3, <2>1, SumType, FS_CardinalityType
<1>9. Reruns' = ((runs[t] + 1) + SumFunctionOnSet(runs, rest)) - (Cardinality(rest) + 1)
  BY <1>5, <1>7 DEF Reruns
<1>10. CASE runs[t] = 0
  <2>1. rest = Begun
    BY <1>10 DEF Begun
  <2>2. Reruns = SumFunctionOnSet(runs, rest) - Cardinality(rest)
    BY <2>1 DEF Reruns
  <2> HIDE DEF rest
  <2> QED BY <1>8, <1>9, <1>10, <2>2
<1>11. CASE runs[t] # 0
  <2>1. t \in Begun /\ \A u \in Begun : runs[u] \in Int
    BY <1>1, <1>11 DEF Begun
  <2>2. SumFunctionOnSet(runs, Begun) = runs[t] + SumFunctionOnSet(runs, rest)
    BY <1>3, <2>1, SumRemove
  <2>3. Cardinality(Begun) = Cardinality(rest) + 1
    <3>1. Cardinality(rest) = Cardinality(Begun) - 1 /\ Cardinality(Begun) \in Nat
      BY <1>3, <2>1, FS_RemoveElement, FS_CardinalityType
    <3> HIDE DEF rest
    <3> QED BY <3>1
  <2>4. Reruns = (runs[t] + SumFunctionOnSet(runs, rest)) - (Cardinality(rest) + 1)
    BY <2>2, <2>3 DEF Reruns
  <2> HIDE DEF rest
  <2> QED BY <1>8, <1>9, <1>11, <2>4
<1> QED BY <1>10, <1>11

\* What a step does to the retries.
Adds(S, T, x) == x \notin S /\ T = S \cup {x}

Drops(S, T, x) == x \in S /\ T = S \ {x}

RetryBooked ==
    \/ UNCHANGED <<stats.retried, Reruns, OnTheWay, CutShort, Lost>>
    \/ /\ stats'.retried = stats.retried + 1
       /\ \E w : Adds(OnTheWay, OnTheWay', w)
       /\ UNCHANGED <<Reruns, CutShort, Lost>>
    \/ /\ Reruns' = Reruns + 1
       /\ \E w : Drops(OnTheWay, OnTheWay', w)
       /\ UNCHANGED <<stats.retried, CutShort, Lost>>
    \/ /\ \E t : Adds(CutShort, CutShort', t)
       /\ \E w : Drops(OnTheWay, OnTheWay', w)
       /\ UNCHANGED <<stats.retried, Reruns, Lost>>
    \/ /\ \E t : Adds(Lost, Lost', t)
       /\ stats'.retried \in {stats.retried, stats.retried + 1}
       /\ UNCHANGED <<Reruns, OnTheWay, CutShort>>

LEMMA RetryBookedBalance ==
    ASSUME LedgerInv, Attempts, Books, RetryBalance, RetryBooked
    PROVE  RetryBalance'
<1> DEFINE r == stats.retried
           a == Cardinality(OnTheWay)
           c == Cardinality(CutShort)
           l == Cardinality(Lost)
<1>1. /\ IsFiniteSet(OnTheWay) /\ a \in Nat
      /\ IsFiniteSet(CutShort) /\ c \in Nat
      /\ IsFiniteSet(Lost) /\ l \in Nat
      /\ Reruns \in Int
  BY RetriesFinite
<1>2. r \in Nat
  BY DEF LedgerInv, ChannelInv, TypeOK, Counters
<1>3. r - Reruns - a - c \in 0..l
  BY DEF RetryBalance
<1>4. ASSUME NEW S, NEW T, NEW x, IsFiniteSet(S), Cardinality(S) \in Nat
      PROVE  /\ Adds(S, T, x) => Cardinality(T) = Cardinality(S) + 1
             /\ Drops(S, T, x) => Cardinality(T) = Cardinality(S) - 1
  BY <1>4, CountMoves DEF Adds, Drops
<1>5. \E q \in {r, r + 1} : \E R \in {Reruns, Reruns + 1} :
        /\ r' = q /\ Reruns' = R
        /\ \/ q = r /\ R = Reruns /\ a' = a /\ c' = c /\ l' = l
           \/ q = r + 1 /\ R = Reruns /\ a' = a + 1 /\ c' = c /\ l' = l
           \/ q = r /\ R = Reruns + 1 /\ a' = a - 1 /\ c' = c /\ l' = l
           \/ q = r /\ R = Reruns /\ a' = a - 1 /\ c' = c + 1 /\ l' = l
           \/ R = Reruns /\ a' = a /\ c' = c /\ l' = l + 1
  BY <1>1, <1>4 DEF RetryBooked
<1>6. r' - Reruns' - a' - c' \in 0..l'
  <2> HIDE DEF r, a, c, l
  <2> QED BY <1>1, <1>2, <1>3, <1>5
<1> QED BY <1>6 DEF RetryBalance

\* A step that ends no task as abandoned or lost, runs nothing and moves no
\* worker between the places that count.
LEMMA RetriesKept ==
    ASSUME LedgerInv, UNCHANGED <<runs, stats.retried>>,
           \A t \in Tasks : outcome'[t] = outcome[t]
                             \/ ~({outcome[t], outcome'[t]} \cap {"abandoned", "lost"} # {}),
           \A w \in Workers : Underway(w)' <=> Underway(w)
    PROVE  RetryBooked
<1>1. OnTheWay' = OnTheWay
  BY DEF OnTheWay
<1>2. CutShort' = CutShort /\ Lost' = Lost
  BY DEF CutShort, Lost
<1>3. Reruns' = Reruns
  BY DEF Reruns, Begun
<1> QED BY <1>1, <1>2, <1>3 DEF RetryBooked

\* A worker whose task and place stay is underway as before.
LEMMA UnderwayKept ==
    ASSUME NEW w \in Workers, wpc'[w] = wpc[w], wtask'[w] = wtask[w], attempt'[w] = attempt[w],
           wpc[w] = "loop" => call'[wtask[w]] = call[wtask[w]]
    PROVE  Underway(w)' <=> Underway(w)
BY DEF Underway, MayAttempt, Limit

\* What counts changes only with the worker that takes the step.
LEMMA OneWorkerMoves ==
    ASSUME LedgerInv, NEW w \in Workers, NEW pc, wpc' = [wpc EXCEPT ![w] = pc], UNCHANGED call,
           \A v \in Workers \ {w} : wtask'[v] = wtask[v] /\ attempt'[v] = attempt[v]
    PROVE  /\ wpc'[w] = pc
           /\ Underway(w) /\ Underway(w)' => OnTheWay' = OnTheWay
           /\ ~Underway(w) /\ ~Underway(w)' => OnTheWay' = OnTheWay
           /\ Underway(w) /\ ~Underway(w)' => Drops(OnTheWay, OnTheWay', w)
           /\ ~Underway(w) /\ Underway(w)' => Adds(OnTheWay, OnTheWay', w)
<1>1. \A v \in Workers : wpc'[v] = IF v = w THEN pc ELSE wpc[v]
  BY DEF LedgerInv, ChannelInv, TypeOK
<1>2. \A v \in Workers \ {w} : Underway(v)' <=> Underway(v)
  BY <1>1, UnderwayKept
<1> QED BY <1>1, <1>2 DEF OnTheWay, Adds, Drops

LEMMA LeaveRetries ==
    ASSUME LedgerInv, NEW w \in Workers, wpc[w] \in Busy, NEW o \in Outcomes,
           NEW pc \in {"recv", "dead"}, LeaveExecute(w, o, pc)
    PROVE  /\ Reruns' = Reruns
           /\ IF Underway(w) THEN Drops(OnTheWay, OnTheWay', w) ELSE OnTheWay' = OnTheWay
           /\ IF o = "abandoned" THEN \E t : Adds(CutShort, CutShort', t) ELSE CutShort' = CutShort
           /\ IF o = "lost" THEN \E t : Adds(Lost, Lost', t) ELSE Lost' = Lost
<1>1. PICK t \in Tasks : t = wtask[w]
  BY BusyTask
<1>2. outcome[t] = "none"
  BY <1>1, BusyTask
<1>3. TypeOK
  BY DEF LedgerInv, ChannelInv
<1>4. /\ wpc' = [wpc EXCEPT ![w] = pc]
      /\ UNCHANGED <<call, runs>>
      /\ \A v \in Workers \ {w} : wtask'[v] = wtask[v] /\ attempt'[v] = attempt[v]
      /\ \A u \in Tasks : outcome'[u] = IF u = t THEN o ELSE outcome[u]
  BY <1>1, <1>3 DEF LeaveExecute, subVars, TypeOK
<1>5. wpc'[w] = pc
  BY <1>4, OneWorkerMoves
<1>6. ~Underway(w)'
  BY <1>5 DEF Underway
<1>7. IF Underway(w) THEN Drops(OnTheWay, OnTheWay', w) ELSE OnTheWay' = OnTheWay
  BY <1>4, <1>6, OneWorkerMoves
<1>8. IF o = "abandoned" THEN Adds(CutShort, CutShort', t) ELSE CutShort' = CutShort
  BY <1>2, <1>4 DEF CutShort, Adds
<1>9. IF o = "lost" THEN Adds(Lost, Lost', t) ELSE Lost' = Lost
  BY <1>2, <1>4 DEF Lost, Adds
<1>10. Reruns' = Reruns
  BY <1>4 DEF Reruns, Begun
<1> QED BY <1>7, <1>8, <1>9, <1>10

LEMMA NextRetryBooked ==
    ASSUME LedgerInv, Attempts, Books, [Next]_vars
    PROVE  RetryBooked
<1>0. TypeOK /\ ChannelOrder /\ Ledger
  BY DEF LedgerInv, ChannelInv
<1>1. ASSUME NEW S, Count(S)
      PROVE  stats'.retried = IF "retried" \in S THEN stats.retried + 1 ELSE stats.retried
  BY <1>1 DEF Count, Counters
<1>2. ASSUME UNCHANGED <<runs, outcome, stats.retried>>,
             \A w \in Workers : Underway(w)' <=> Underway(w)
      PROVE  RetryBooked
  BY <1>2, RetriesKept
<1>3. ASSUME NEW t \in Tasks, NEW m \in Methods \ {"invalid"}, NEW o \in Overrides,
             SubmitCall(t, m, o)
      PROVE  RetryBooked
  <2>1. /\ UNCHANGED <<wpc, wtask, attempt, runs, outcome, stats>>
        /\ \A u \in Tasks : u # t => call'[u] = call[u]
    BY <1>0, <1>3 DEF SubmitCall, workVars, histVars, TypeOK
  <2>2. \A w \in Workers : wtask[w] # t
    BY <1>0, <1>3, TaskAssumption DEF SubmitCall, Ledger
  <2>3. \A w \in Workers : wpc[w] = "loop" => wtask[w] \in Tasks
    BY BusyTask DEF Busy
  <2>4. \A w \in Workers : Underway(w)' <=> Underway(w)
    BY <2>1, <2>2, <2>3, UnderwayKept
  <2> QED BY <1>2, <2>1, <2>4
<1>4. ASSUME NEW t \in Tasks,
             \/ SubmitInvalid(t) \/ SubmitCtxDone(t) \/ RejectClosed(t) \/ Buffer(t)
             \/ SubmitPark(t) \/ SubmitCancelled(t) \/ TrySubmitFull(t) \/ SubmitReturns(t)
      PROVE  RetryBooked
  <2>1. UNCHANGED <<call, wpc, wtask, attempt, runs, outcome>>
    BY <1>4 DEF SubmitInvalid, SubmitCtxDone, RejectClosed, Buffer, SubmitPark, SubmitCancelled,
       TrySubmitFull, SubmitReturns, workVars, histVars
  <2>2. stats' = stats \/ Count({"dropped"}) \/ Count({"enqueued"})
    BY <1>4 DEF SubmitInvalid, SubmitCtxDone, RejectClosed, Buffer, SubmitPark, SubmitCancelled,
       TrySubmitFull, SubmitReturns
  <2>3. stats'.retried = stats.retried
    BY <1>1, <2>2
  <2> QED BY <1>2, <2>1, <2>3, UnderwayKept
<1>5. ASSUME NEW w \in Workers, NEW t, HandOff(t, w) \/ Receive(w) PROVE RetryBooked
  <2>1. /\ wpc[w] \in {"recv", "parked"} /\ wpc' = [wpc EXCEPT ![w] = "loop"]
        /\ UNCHANGED <<call, attempt, runs, outcome, stats>>
        /\ \E u : wtask' = [wtask EXCEPT ![w] = u]
    BY <1>5 DEF HandOff, Receive, histVars
  <2>2. attempt[w] = 0
    BY <2>1 DEF Attempts, AttemptsOf, Busy
  <2>3. \A v \in Workers \ {w} : wpc'[v] = wpc[v] /\ wtask'[v] = wtask[v]
    BY <1>0, <2>1 DEF TypeOK
  <2>4. Underway(w)' <=> Underway(w)
    BY <1>0, <2>1, <2>2 DEF Underway, TypeOK
  <2>5. \A v \in Workers \ {w} : Underway(v)' <=> Underway(v)
    BY <2>1, <2>3, UnderwayKept
  <2> QED BY <1>2, <2>1, <2>4, <2>5
<1>6. ASSUME NEW w \in Workers, WorkerPark(w) \/ WorkerExit(w) PROVE RetryBooked
  <2>1. /\ wpc[w] = "recv" /\ \E pc \in {"parked", "exited"} : wpc' = [wpc EXCEPT ![w] = pc]
        /\ UNCHANGED <<call, wtask, attempt, runs, outcome, stats>>
    BY <1>6 DEF WorkerPark, WorkerExit, subVars, histVars
  <2>2. Underway(w)' <=> Underway(w)
    BY <1>0, <2>1 DEF Underway, TypeOK
  <2>3. \A v \in Workers \ {w} : wpc'[v] = wpc[v]
    BY <1>0, <2>1 DEF TypeOK
  <2>4. \A v \in Workers \ {w} : Underway(v)' <=> Underway(v)
    BY <2>1, <2>3, UnderwayKept
  <2> QED BY <1>2, <2>1, <2>2, <2>4
<1>7. ASSUME NEW w \in Workers, BeginAttempt(w) PROVE RetryBooked
  <2>1. PICK t \in Tasks : t = wtask[w]
    BY <1>7, BusyTask DEF BeginAttempt, Busy
  <2>2. /\ wpc[w] = "loop" /\ MayAttempt(w) /\ wpc' = [wpc EXCEPT ![w] = "run"]
        /\ runs' = [runs EXCEPT ![t] = @ + 1]
        /\ UNCHANGED <<call, wtask, attempt, outcome, stats>>
    BY <1>7, <2>1 DEF BeginAttempt, subVars
  <2>3. runs[t] = attempt[w] /\ attempt[w] \in Nat
    BY <1>0, <2>1, <2>2 DEF Attempts, AttemptsOf, TypeOK
  <2>4. wpc'[w] = "run"
    BY <2>2, OneWorkerMoves
  <2>5. ~Underway(w)' /\ (Underway(w) <=> runs[t] # 0)
    BY <2>2, <2>3, <2>4 DEF Underway
  <2>6. IF runs[t] = 0 THEN OnTheWay' = OnTheWay ELSE Drops(OnTheWay, OnTheWay', w)
    BY <2>2, <2>5, OneWorkerMoves
  <2>7. Reruns' = IF runs[t] = 0 THEN Reruns ELSE Reruns + 1
    BY <2>2, OneMoreRun
  <2>8. CutShort' = CutShort /\ Lost' = Lost
    BY <2>2 DEF CutShort, Lost
  <2> QED BY <2>2, <2>6, <2>7, <2>8 DEF RetryBooked
<1>8. ASSUME NEW w \in Workers, NEW delay \in Delays, Retry(w, delay) PROVE RetryBooked
  <2>1. PICK t \in Tasks : t = wtask[w]
    BY <1>8, BusyTask DEF Retry, Busy
  <2>2. /\ wpc[w] = "run" /\ attempt[w] < Limit(t)
        /\ Count({"retried"})
        /\ \/ wpc' = [wpc EXCEPT ![w] = "sleep"] /\ UNCHANGED attempt
           \/ wpc' = [wpc EXCEPT ![w] = "loop"] /\ attempt' = [attempt EXCEPT ![w] = @ + 1]
        /\ UNCHANGED <<call, wtask, runs, outcome>>
    BY <1>8, <2>1 DEF Retry, NextAttempt, subVars, histVars
  <2>3. PICK pc \in {"sleep", "loop"} :
          /\ wpc' = [wpc EXCEPT ![w] = pc]
          /\ pc = "loop" => attempt'[w] = attempt[w] + 1
          /\ \A v \in Workers \ {w} : attempt'[v] = attempt[v]
    BY <1>0, <2>2 DEF TypeOK
  <2>4. Limit(t)' = Limit(t) /\ Limit(t) \in Int /\ attempt[w] \in Nat /\ wtask'[w] = t
    BY <1>0, <2>1, <2>2, LimitType DEF Limit, TypeOK
  <2>5. wpc'[w] = pc
    BY <2>2, <2>3, OneWorkerMoves
  <2>6. ~Underway(w) /\ Underway(w)'
    BY <2>2, <2>3, <2>4, <2>5 DEF Underway, MayAttempt
  <2>7. Adds(OnTheWay, OnTheWay', w)
    BY <2>2, <2>3, <2>6, OneWorkerMoves
  <2>8. stats'.retried = stats.retried + 1
    BY <1>1, <2>2
  <2>9. UNCHANGED <<Reruns, CutShort, Lost>>
    BY <2>2 DEF Reruns, Begun, CutShort, Lost
  <2> QED BY <2>7, <2>8, <2>9 DEF RetryBooked
<1>9. ASSUME NEW w \in Workers, LastFailure(w) \/ Wake(w) PROVE RetryBooked
  <2>1. PICK t \in Tasks : t = wtask[w]
    BY <1>9, BusyTask DEF LastFailure, Wake, Busy
  <2>2. /\ \/ wpc[w] = "run" /\ attempt[w] >= Limit(t)
           \/ wpc[w] = "sleep"
        /\ wpc' = [wpc EXCEPT ![w] = "loop"] /\ attempt' = [attempt EXCEPT ![w] = @ + 1]
        /\ UNCHANGED <<call, wtask, runs, outcome, stats>>
    BY <1>9, <2>1 DEF LastFailure, Wake, NextAttempt, subVars, histVars
  <2>3. wpc[w] = "sleep" => attempt[w] < Limit(t)
    BY <2>1 DEF Attempts, AttemptsOf
  <2>4. Limit(t)' = Limit(t) /\ Limit(t) \in Int /\ attempt[w] \in Nat /\ wtask'[w] = t
    BY <1>0, <2>1, <2>2, LimitType DEF Limit, TypeOK
  <2>5. /\ wpc'[w] = "loop" /\ attempt'[w] = attempt[w] + 1
        /\ \A v \in Workers \ {w} : wpc'[v] = wpc[v] /\ attempt'[v] = attempt[v]
    BY <1>0, <2>2 DEF TypeOK
  <2>6. Underway(w)' <=> Underway(w)
    BY <2>2, <2>3, <2>4, <2>5 DEF Underway, MayAttempt
  <2>7. \A v \in Workers \ {w} : Underway(v)' <=> Underway(v)
    BY <2>2, <2>5, UnderwayKept
  <2> QED BY <1>2, <2>2, <2>6, <2>7
<1>10. ASSUME NEW w \in Workers, JobSucceeds(w) \/ RefusalFails(w) \/ Exhausted(w)
       PROVE  RetryBooked
  <2>1. \E o \in {"succeeded", "refused", "exhausted"} : LeaveExecute(w, o, "recv")
    BY <1>10 DEF JobSucceeds, RefusalFails, Exhausted
  <2>2. wpc[w] \in Busy /\ ~Underway(w)
    BY <1>10 DEF JobSucceeds, RefusalFails, Exhausted, Underway, Busy
  <2>3. Count({"processed"}) \/ Count({"failed"})
    BY <1>10 DEF JobSucceeds, RefusalFails, Exhausted
  <2>4. stats'.retried = stats.retried
    BY <1>1, <2>3
  <2>5. UNCHANGED <<Reruns, OnTheWay, CutShort, Lost>>
    BY <2>1, <2>2, LeaveRetries DEF Outcomes
  <2> QED BY <2>4, <2>5 DEF RetryBooked
<1>11. ASSUME NEW w \in Workers, Abandon(w) PROVE RetryBooked
  <2>1. LeaveExecute(w, "abandoned", "recv") /\ Count({"failed"})
    BY <1>11 DEF Abandon
  <2>2. wpc[w] \in Busy /\ Underway(w)
    BY <1>11 DEF Abandon, Underway, Busy
  <2>3. stats'.retried = stats.retried
    BY <1>1, <2>1
  <2>4. /\ UNCHANGED <<Reruns, Lost>>
        /\ Drops(OnTheWay, OnTheWay', w)
        /\ \E t : Adds(CutShort, CutShort', t)
    BY <2>1, <2>2, LeaveRetries DEF Outcomes
  <2> QED BY <2>3, <2>4 DEF RetryBooked
<1>12. ASSUME NEW w \in Workers, NEW counted \in SUBSET {"retried"}, WorkerPanics(w, counted)
       PROVE  RetryBooked
  <2>1. LeaveExecute(w, "lost", "dead") /\ Count(counted)
    BY <1>12 DEF WorkerPanics
  <2>2. wpc[w] \in Busy /\ ~Underway(w)
    BY <1>12 DEF WorkerPanics, Underway, Busy
  <2>3. stats'.retried \in {stats.retried, stats.retried + 1}
    BY <1>1, <2>1
  <2>4. /\ UNCHANGED <<Reruns, OnTheWay, CutShort>>
        /\ \E t : Adds(Lost, Lost', t)
    BY <2>1, <2>2, LeaveRetries DEF Outcomes
  <2> QED BY <2>3, <2>4 DEF RetryBooked
<1>13. ASSUME NEW c \in Closers,
              \/ CloseInvalid(c) \/ CloseCtxDone(c) \/ CloseStep(c)
              \/ \E m \in Modes \ {"invalid"} : CloseCall(c, m)
       PROVE  RetryBooked
  <2>1. UNCHANGED <<call, wtask, attempt, runs, outcome, stats>>
    BY <1>13 DEF CloseInvalid, CloseCall, CloseCtxDone, CloseStep, CloseAnnounce, CloseChannel,
       CloseSignals, CloseDrained, CloseTimesOut, SignalQuit, subVars, workVars, histVars
  <2>2. \A w \in Workers : wpc'[w] = wpc[w] \/ (wpc[w] = "parked" /\ wpc'[w] = "recv")
    BY <1>13 DEF CloseInvalid, CloseCall, CloseCtxDone, CloseStep, CloseAnnounce, CloseChannel,
       CloseSignals, CloseDrained, CloseTimesOut, SignalQuit, workVars
  <2>3. \A w \in Workers : Underway(w)' <=> Underway(w)
    BY <2>1, <2>2, UnderwayKept DEF Underway
  <2> QED BY <1>2, <2>1, <2>3
<1>15. ASSUME NEW w \in Workers, PredicateRefuses(w) PROVE RetryBooked
  <2>1. /\ wpc[w] = "run" /\ wpc' = [wpc EXCEPT ![w] = "refusal"]
        /\ Count({"refused"})
        /\ UNCHANGED <<call, wtask, attempt, runs, outcome>>
    BY <1>15 DEF PredicateRefuses, subVars, histVars
  <2>2. wpc'[w] = "refusal" /\ \A v \in Workers \ {w} : wpc'[v] = wpc[v]
    BY <1>0, <2>1 DEF TypeOK
  <2>3. Underway(w)' <=> Underway(w)
    BY <2>1, <2>2 DEF Underway
  <2>4. \A v \in Workers \ {w} : Underway(v)' <=> Underway(v)
    BY <2>1, <2>2, UnderwayKept
  <2>5. stats'.retried = stats.retried
    BY <1>1, <2>1
  <2> QED BY <1>2, <2>1, <2>3, <2>4, <2>5
<1>14. CASE UNCHANGED vars
  <2>1. UNCHANGED <<call, wpc, wtask, attempt, runs, outcome, stats>>
    BY <1>14 DEF vars, subVars, workVars, histVars
  <2> QED BY <1>2, <2>1, UnderwayKept
<1> QED
  BY <1>3, <1>4, <1>5, <1>6, <1>7, <1>8, <1>9, <1>10, <1>11, <1>12, <1>13, <1>14, <1>15
  DEF Next, SubmitStep, WorkerStep, JobEnds, Terminated

LEMMA InitRetryBalance == Init => RetryBalance
<1> SUFFICES ASSUME Init PROVE RetryBalance
  OBVIOUS
<1>1. Begun = {} /\ OnTheWay = {} /\ CutShort = {} /\ Lost = {} /\ stats.retried = 0
  BY DEF Init, Begun, OnTheWay, Underway, CutShort, Lost, Counters
<1>2. SumFunctionOnSet(runs, {}) = 0
  BY SumEmpty
<1>3. Cardinality({}) = 0
  BY FS_EmptySet
<1> QED BY <1>1, <1>2, <1>3 DEF RetryBalance, Reruns

\* Each retry that IncRetried counted has become a call of Process, is on its
\* way to one, or was cut short by quit or by the panic of its worker.
THEOREM RetriesRun == Spec => []RetriesBecomeRuns
<1>1. LedgerInv /\ Attempts /\ Books /\ RetryBalance /\ [Next]_vars => RetryBalance'
  BY NextRetryBooked, RetryBookedBalance
<1>2. RetryBalance => RetriesBecomeRuns
  BY DEF RetryBalance, RetriesBecomeRuns, Reruns, Begun, OnTheWay, Underway, CutShort, Lost
<1>3. Init /\ LedgerInv => Attempts
  BY InitAttempts
<1> QED
  BY <1>1, <1>2, <1>3, InitRetryBalance, NextAttempts, LedgerInvariant, BooksInvariant, PTL
  DEF Spec

---------------------------------------------------------------------------
(* The abstract queue.                                                     *)

\* The operators that JobQueue takes from the libraries are the same here.
LEMMA QueueRange == \A s : Queue!Range(s) = Range(s)
BY DEF Queue!Range, Range

LEMMA QueueRemoveAt == \A s, i : Queue!RemoveAt(s, i) = RemoveAt(s, i)
BY DEF Queue!RemoveAt, RemoveAt

LEMMA QueueCardinality == \A S : Queue!Cardinality(S) = Cardinality(S)
BY DEF Queue!Cardinality, Cardinality

\* While a worker has no task, fewer tasks are executed than there are workers.
LEMMA IdleWorker ==
    ASSUME NEW w \in Workers, wtask[w] = NoTask
    PROVE  Cardinality(Held) < Cardinality(Workers)
<1> DEFINE S == {v \in Workers : wtask[v] # NoTask}
           f == [v \in S |-> wtask[v]]
<1>1. f \in Surjection(S, Held)
  BY DEF Held, Surjection
<1>2. IsFiniteSet(Workers \ {w}) /\ Cardinality(Workers \ {w}) = Cardinality(Workers) - 1
  BY WorkerAssumption, FS_RemoveElement
<1>3. S \in SUBSET (Workers \ {w})
  OBVIOUS
<1> HIDE DEF S, f
<1>4. IsFiniteSet(S) /\ Cardinality(S) <= Cardinality(Workers) - 1
  BY <1>2, <1>3, FS_Subset
<1>5. IsFiniteSet(Held) /\ Cardinality(Held) <= Cardinality(S)
  BY <1>1, <1>4, FS_Surjection
<1>6. Cardinality(Held) \in Nat /\ Cardinality(S) \in Nat /\ Cardinality(Workers) \in Nat
  BY <1>4, <1>5, WorkerAssumption, FS_CardinalityType
<1> QED BY <1>4, <1>5, <1>6

\* A task that starts joins the tasks held.
LEMMA HeldTaken ==
    ASSUME TypeOK, NEW w \in Workers, wtask[w] = NoTask, NEW t \in Tasks,
           wtask' = [wtask EXCEPT ![w] = t]
    PROVE  Held' = Held \cup {t}
<1>1. wtask'[w] = t /\ \A v \in Workers \ {w} : wtask'[v] = wtask[v]
  BY DEF TypeOK
<1> QED BY <1>1, TaskAssumption DEF Held

\* A task of a call that has not sent it is in no place.
LEMMA FreshTask ==
    ASSUME LedgerInv, NEW t \in Tasks, spc[t] = "locked"
    PROVE  Queue!Fresh(t)
<1>1. TypeOK /\ ChannelOrder /\ Ledger
  BY DEF LedgerInv, ChannelInv
<1>2. t \notin Range(tasks)
  BY <1>1, RangeLemma
<1>3. t \notin Held
  BY <1>1 DEF Held, Ledger
<1>4. t \notin Settled
  BY <1>1 DEF Settled, Ledger
<1> QED BY <1>2, <1>3, <1>4, QueueRange DEF Queue!Fresh

\* A send into the buffer, or of a caller that waits, is an offer.
LEMMA JoinOffers ==
    ASSUME LedgerInv, NEW t \in Tasks, Buffer(t) \/ SubmitPark(t)
    PROVE  Queue!Offer(t)
<1>1. /\ spc[t] = "locked" /\ ~closed
      /\ tasks' = Append(tasks, t)
      /\ UNCHANGED <<wtask, outcome, closed>>
  BY DEF Buffer, SubmitPark, MaySend, workVars, histVars
<1>2. Queue!Fresh(t)
  BY <1>1, FreshTask
<1> QED BY <1>1, <1>2 DEF Queue!Offer, Held, Settled

\* A send to a worker that waits starts the task; the line is empty then.
LEMMA HandOffStarts ==
    ASSUME LedgerInv, Receivers, NEW t \in Tasks, NEW w \in Workers, HandOff(t, w)
    PROVE  Queue!StartFresh(t)
<1>1. /\ spc[t] = "locked" /\ ~closed /\ wpc[w] = "parked"
      /\ wtask' = [wtask EXCEPT ![w] = t]
      /\ UNCHANGED <<tasks, outcome, closed>>
  BY DEF HandOff, MaySend, histVars
<1>2. TypeOK /\ wtask[w] = NoTask
  BY <1>1 DEF LedgerInv, ChannelInv, Ledger, Busy
<1>3. Queue!Fresh(t)
  BY <1>1, FreshTask
<1>4. tasks = <<>>
  BY <1>1 DEF Receivers, NoLostWakeup
<1>5. Held' = Held \cup {t} /\ Cardinality(Held) < Cardinality(Workers)
  BY <1>1, <1>2, HeldTaken, IdleWorker
<1> QED BY <1>1, <1>3, <1>4, <1>5, QueueCardinality DEF Queue!StartFresh, Settled

\* A receive starts the oldest task.
LEMMA ReceiveStarts ==
    ASSUME LedgerInv, NEW w \in Workers, Receive(w)
    PROVE  Queue!Start
<1>1. /\ wpc[w] = "recv" /\ tasks # <<>>
      /\ tasks' = Tail(tasks)
      /\ wtask' = [wtask EXCEPT ![w] = Head(tasks)]
      /\ UNCHANGED <<outcome, closed>>
  BY DEF Receive, histVars
<1>2. TypeOK /\ wtask[w] = NoTask
  BY <1>1 DEF LedgerInv, ChannelInv, Ledger, Busy
<1>3. Head(tasks) \in Tasks
  BY <1>1, <1>2, HeadTailProperties DEF TypeOK
<1>4. Held' = Held \cup {Head(tasks)} /\ Cardinality(Held) < Cardinality(Workers)
  BY <1>1, <1>2, <1>3, HeldTaken, IdleWorker
<1> QED BY <1>1, <1>4, QueueCardinality DEF Queue!Start, Settled

\* A caller that gives up waiting withdraws its task from beyond the capacity;
\* one that had not joined the line changes nothing.
LEMMA CancelWithdraws ==
    ASSUME LedgerInv, NEW t \in Tasks, SubmitCancelled(t)
    PROVE  (\E i \in DOMAIN tasks : Queue!Withdraw(i)) \/ UNCHANGED Queue!vars
<1>1. UNCHANGED <<wtask, outcome, closed>>
  BY DEF SubmitCancelled, workVars, histVars
<1>2. TypeOK /\ ChannelOrder /\ NoSenderOnClosedChannel /\ Ledger
  BY DEF LedgerInv, ChannelInv
<1>3. CASE UNCHANGED tasks
  BY <1>1, <1>3 DEF Queue!vars, Held, Settled
<1>4. ASSUME NEW i \in DOMAIN tasks, tasks[i] = t, tasks' = RemoveAt(tasks, i)
      PROVE  Queue!Withdraw(i)
  <2>1. spc[t] # "locked"
    <3>1. t \in Range(tasks)
      BY <1>4 DEF Range
    <3> QED BY <1>2, <3>1, RangeLemma
  <2>2. spc[t] = "parked"
    BY <2>1 DEF SubmitCancelled, MaySend
  <2>3. i \in Int
    BY <1>2, LenProperties DEF TypeOK
  <2>4. i > QueueSize
    BY <1>2, <1>4, <2>2, <2>3, QueueAssumption DEF ChannelOrder
  <2>5. ~closed
    BY <1>2, <2>2 DEF NoSenderOnClosedChannel
  <2> QED BY <1>1, <1>4, <2>4, <2>5, QueueRemoveAt DEF Queue!Withdraw, Held, Settled
<1> QED BY <1>3, <1>4 DEF SubmitCancelled

\* Leaving execute settles the task.
LEMMA LeaveSettles ==
    ASSUME LedgerInv, NEW w \in Workers, wpc[w] \in Busy,
           NEW o \in Outcomes, NEW pc, LeaveExecute(w, o, pc)
    PROVE  \E t \in Tasks : Queue!Settle(t)
<1>1. /\ wtask' = [wtask EXCEPT ![w] = NoTask]
      /\ outcome' = [outcome EXCEPT ![wtask[w]] = o]
      /\ UNCHANGED <<tasks, closed>>
  BY DEF LeaveExecute
<1>2. PICK t \in Tasks : t = wtask[w]
  BY BusyTask
<1>3. TypeOK /\ Ledger
  BY DEF LedgerInv, ChannelInv
<1>4. t \in Held
  BY <1>2, TaskAssumption DEF Held
<1>5. Held' = Held \ {t}
  <2>1. wtask'[w] = NoTask /\ \A v \in Workers \ {w} : wtask'[v] = wtask[v]
    BY <1>1, <1>3 DEF TypeOK
  <2>2. \A v \in Workers \ {w} : wtask[v] # t
    BY <1>2, <1>3, TaskAssumption DEF Ledger
  <2> QED BY <1>2, <2>1, <2>2 DEF Held
<1>6. Settled' = Settled \cup {t}
  <2>1. outcome'[t] = o /\ \A u \in Tasks \ {t} : outcome'[u] = outcome[u]
    BY <1>1, <1>2, <1>3 DEF TypeOK
  <2> QED BY <2>1 DEF Settled, Outcomes
<1> QED BY <1>1, <1>4, <1>5, <1>6 DEF Queue!Settle

\* The first Close that gets the lock shuts the queue; the lock waits until no
\* caller is blocked, so the line is within the capacity.
LEMMA CloseShuts ==
    ASSUME LedgerInv, NEW c \in Closers, CloseChannel(c)
    PROVE  Queue!Shut \/ UNCHANGED Queue!vars
<1>1. closed' = TRUE /\ UNCHANGED <<tasks, wtask, outcome>> /\ Readers = {}
  BY DEF CloseChannel, histVars
<1>2. Held' = Held /\ Settled' = Settled
  BY <1>1 DEF Held, Settled
<1>3. CASE closed
  BY <1>1, <1>2, <1>3 DEF Queue!vars
<1>4. CASE ~closed
  <2>1. TypeOK /\ ChannelOrder
    BY DEF LedgerInv, ChannelInv
  <2>2. /\ Len(tasks) \in Nat
        /\ DOMAIN tasks = 1..Len(tasks)
        /\ \A i \in 1..Len(tasks) : tasks[i] \in Tasks
    BY <2>1, ElementOfSeq, LenProperties DEF TypeOK
  <2>3. \A t \in Tasks : spc[t] # "parked"
    BY <1>1 DEF Readers
  <2>4. Len(tasks) <= QueueSize
    <3> SUFFICES ASSUME Len(tasks) > QueueSize PROVE FALSE
      BY <2>2, QueueAssumption
    <3>1. Len(tasks) \in 1..Len(tasks)
      BY <2>2, QueueAssumption
    <3>2. spc[tasks[Len(tasks)]] = "parked"
      BY <2>1, <2>2, <3>1 DEF ChannelOrder
    <3> QED BY <2>2, <2>3, <3>1, <3>2
  <2> QED BY <1>1, <1>2, <1>4, <2>4 DEF Queue!Shut
<1> QED BY <1>3, <1>4

\* Every step of the dispatcher is a step of the queue or none.
LEMMA NextImplementsQueue ==
    LedgerInv /\ Receivers /\ [Next]_vars => [Queue!Next]_(Queue!vars)
<1> SUFFICES ASSUME LedgerInv, Receivers, [Next]_vars PROVE [Queue!Next]_(Queue!vars)
  OBVIOUS
<1>1. TypeOK
  BY DEF LedgerInv, ChannelInv
<1>2. ASSUME NEW t \in Tasks, Queue!Offer(t) \/ Queue!StartFresh(t) \/ Queue!Settle(t)
      PROVE  Queue!Next
  BY <1>2 DEF Queue!Next
<1>3. ASSUME NEW t \in Tasks, SubmitStep(t) PROVE [Queue!Next]_(Queue!vars)
  <2>1. ASSUME NEW w \in Workers, HandOff(t, w) PROVE Queue!Next
    BY <1>2, <2>1, HandOffStarts
  <2>2. CASE Buffer(t) \/ SubmitPark(t)
    BY <1>2, <2>2, JoinOffers
  <2>3. CASE SubmitCancelled(t)
    <3>1. (\E i \in DOMAIN tasks : Queue!Withdraw(i)) => Queue!Next
      BY DEF Queue!Next
    <3> QED BY <2>3, <3>1, CancelWithdraws
  <2>4. CASE RejectClosed(t) \/ TrySubmitFull(t) \/ SubmitReturns(t)
    <3>1. UNCHANGED <<tasks, wtask, outcome, closed>>
      BY <2>4 DEF RejectClosed, TrySubmitFull, SubmitReturns, workVars, histVars
    <3> QED BY <3>1 DEF Queue!vars, Held, Settled
  <2> QED BY <1>3, <2>1, <2>2, <2>3, <2>4 DEF SubmitStep
<1>4. ASSUME UNCHANGED <<tasks, wtask, outcome, closed>> PROVE [Queue!Next]_(Queue!vars)
  BY <1>4 DEF Queue!vars, Held, Settled
<1>5. ASSUME NEW t \in Tasks,
             \/ SubmitInvalid(t) \/ SubmitCtxDone(t)
             \/ \E m \in Methods \ {"invalid"}, o \in Overrides : SubmitCall(t, m, o)
      PROVE  UNCHANGED <<tasks, wtask, outcome, closed>>
  BY <1>5 DEF SubmitInvalid, SubmitCtxDone, SubmitCall, workVars, histVars
<1>6. ASSUME NEW w \in Workers, WorkerStep(w) \/ JobEnds(w) \/ Wake(w)
      PROVE  [Queue!Next]_(Queue!vars)
  <2>1. CASE Receive(w)
    <3>1. Queue!Start
      BY <2>1, ReceiveStarts
    <3> QED BY <3>1 DEF Queue!Next
  <2>2. CASE \/ WorkerPark(w) \/ WorkerExit(w) \/ BeginAttempt(w) \/ Wake(w) \/ LastFailure(w)
             \/ PredicateRefuses(w) \/ \E delay \in Delays : Retry(w, delay)
    <3>1. UNCHANGED <<tasks, wtask, outcome, closed>>
      BY <2>2 DEF WorkerPark, WorkerExit, BeginAttempt, Wake, LastFailure, PredicateRefuses, Retry,
         histVars
    <3> QED BY <1>4, <3>1
  <2>3. CASE \/ JobSucceeds(w) \/ RefusalFails(w) \/ Exhausted(w) \/ Abandon(w)
             \/ \E counted \in SUBSET {"retried"} : WorkerPanics(w, counted)
    <3>1. PICK o \in Outcomes, pc \in {"recv", "dead"} : LeaveExecute(w, o, pc)
      BY <2>3 DEF JobSucceeds, RefusalFails, Exhausted, Abandon, WorkerPanics, Outcomes
    <3>2. wpc[w] \in Busy
      BY <2>3 DEF JobSucceeds, RefusalFails, Exhausted, Abandon, WorkerPanics, Busy
    <3> QED BY <1>2, <3>1, <3>2, LeaveSettles
  <2> QED BY <1>6, <2>1, <2>2, <2>3 DEF WorkerStep, JobEnds
<1>7. ASSUME NEW c \in Closers,
             \/ CloseInvalid(c) \/ CloseCtxDone(c) \/ CloseStep(c)
             \/ \E m \in Modes \ {"invalid"} : CloseCall(c, m)
      PROVE  [Queue!Next]_(Queue!vars)
  <2>1. CASE CloseChannel(c)
    <3>1. Queue!Shut => Queue!Next
      BY DEF Queue!Next
    <3> QED BY <2>1, <3>1, CloseShuts
  <2>2. CASE ~CloseChannel(c)
    <3>1. UNCHANGED <<tasks, wtask, outcome, closed>>
      BY <1>7, <2>2 DEF CloseInvalid, CloseCtxDone, CloseStep, CloseCall, CloseAnnounce,
         CloseSignals, CloseDrained, CloseTimesOut, SignalQuit, workVars, histVars
    <3> QED BY <1>4, <3>1
  <2> QED BY <2>1, <2>2
<1>8. CASE UNCHANGED vars
  BY <1>4, <1>8 DEF vars, workVars, histVars
<1> QED BY <1>3, <1>4, <1>5, <1>6, <1>7, <1>8 DEF Next, Terminated

LEMMA InitImplementsQueue == Init => Queue!Init
BY TaskAssumption DEF Init, Queue!Init, Held, Settled

\* The dispatcher implements the abstract queue: its submissions are started in
\* the order of their sends, each one once and at most one for every worker, and
\* only a blocked caller takes its task back.
THEOREM ImplementsQueue == Spec => ImplementsJobQueue
<1>1. Spec => [](LedgerInv /\ Receivers)
  BY LedgerInvariant, ReceiversInvariant, PTL
<1> QED
  BY <1>1, InitImplementsQueue, NextImplementsQueue, PTL
  DEF Spec, ImplementsJobQueue, Queue!Spec
===========================================================================
