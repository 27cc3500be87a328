----------------------------- MODULE JobQueue -----------------------------
(***************************************************************************)
(* What a Dispatcher promises, without goroutines, locks, channels or      *)
(* retries: submissions line up first in first out, at most WorkerCount of *)
(* them are executed at a time, each one is executed once and settles, a   *)
(* submission can be withdrawn only while the queue has no room for it,    *)
(* and closing the queue leaves it what it already took.                   *)
(***************************************************************************)
EXTENDS Integers, SequencesExt, FiniteSetsExt

CONSTANTS
    Tasks,
    WorkerCount, \* at least one
    Capacity

VARIABLES
    line,     \* the tasks taken or offered, oldest first
    running,  \* the tasks being executed
    settled,  \* the tasks executed to their end
    open      \* whether tasks may be offered

vars == <<line, running, settled, open>>

Fresh(t) == t \notin Range(line) \cup running \cup settled

Init ==
    /\ line = <<>>
    /\ running = {}
    /\ settled = {}
    /\ open = TRUE

\* A task joins the line, behind the capacity if its submitter has to wait.
Offer(t) ==
    /\ open
    /\ Fresh(t)
    /\ line' = Append(line, t)
    /\ UNCHANGED <<running, settled, open>>

\* A waiting submitter gives up.
Withdraw(i) ==
    /\ open
    /\ i > Capacity
    /\ line' = RemoveAt(line, i)
    /\ UNCHANGED <<running, settled, open>>

\* A worker takes the oldest task.
Start ==
    /\ line # <<>>
    /\ Cardinality(running) < WorkerCount
    /\ running' = running \cup {Head(line)}
    /\ line' = Tail(line)
    /\ UNCHANGED <<settled, open>>

\* A worker that waits for work takes a new task directly.
StartFresh(t) ==
    /\ open
    /\ Fresh(t)
    /\ line = <<>>
    /\ Cardinality(running) < WorkerCount
    /\ running' = running \cup {t}
    /\ UNCHANGED <<line, settled, open>>

Settle(t) ==
    /\ t \in running
    /\ running' = running \ {t}
    /\ settled' = settled \cup {t}
    /\ UNCHANGED <<line, open>>

\* Closing waits until no submitter is waiting.
Shut ==
    /\ open
    /\ Len(line) <= Capacity
    /\ open' = FALSE
    /\ UNCHANGED <<line, running, settled>>

Next ==
    \/ \E t \in Tasks : Offer(t) \/ StartFresh(t) \/ Settle(t)
    \/ \E i \in DOMAIN line : Withdraw(i)
    \/ Start
    \/ Shut

Spec == Init /\ [][Next]_vars

\* Whatever stands in the line is started, and whatever is started settles.
FairSpec ==
    /\ Spec
    /\ WF_vars(Start)
    /\ \A t \in Tasks : WF_vars(Settle(t))
===========================================================================
