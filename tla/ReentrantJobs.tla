--------------------------- MODULE ReentrantJobs ---------------------------
(***************************************************************************)
(* Dispatcher with jobs whose Process calls TrySubmit of the queue that    *)
(* runs them, as gokue.Queue lets them: such a call starts while Process   *)
(* runs, and Process does not return before it.  Submit is left to others, *)
(* since a job that waits for its own worker is its author's mistake.      *)
(***************************************************************************)
EXTENDS Dispatcher

CONSTANT Parent   \* the task whose Process makes each call, or NoTask

\* Process runs the calls it makes to their end.
JobsCall ==
    /\ \A t \in Tasks :
        spc[t] = "new" /\ spc'[t] # "new" =>
            /\ (call'[t].method = "try") = (Parent[t] # NoTask)
            /\ Parent[t] # NoTask => \E w \in Workers : wpc[w] = "run" /\ wtask[w] = Parent[t]
    /\ \A w \in Workers :
        wpc[w] = "run" /\ wpc'[w] # "run"
            => \A t \in Tasks : Parent[t] = wtask[w] => spc[t] \in Returned \cup {"new"}

\* Every Process returns that is not kept in a call.
ReentrantFairSpec ==
    /\ Init /\ [][Next /\ JobsCall]_vars
    /\ SchedulerFairness
    /\ TimerFairness
    /\ \A w \in Workers : WF_vars(JobEnds(w) /\ JobsCall)

\* README.md:281-282, "TrySubmit never blocks": wherever it is called from, it
\* returns in the end, and lets the job that calls it return.
TrySubmitReturns ==
    \A t \in Tasks : spc[t] = "rlock" /\ call[t].method = "try" ~> spc[t] \in Returned
===========================================================================
