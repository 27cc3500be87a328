------------------------- MODULE DispatcherClaims -------------------------
(***************************************************************************)
(* What comments and the README say of the dispatcher and its code does    *)
(* not do.  Each of these is violated; the run named in the README shows   *)
(* how.                                                                    *)
(***************************************************************************)
EXTENDS Dispatcher

\* dispatcher.go:236, ImmediateMode "Returns immediately without waiting for
\* workers to complete": it returns although jobs may run for ever.
ImmediateCloseReturns ==
    \A c \in Closers : cpc[c] = "lock" /\ mode[c] = "immediate" ~> cpc[c] = "nil"

\* dispatcher.go:21, DrainMode "waits for all in-flight and queued jobs to
\* complete before returning": after nil nothing is left in the queue.
DrainLeavesNothingQueued ==
    (\E c \in Closers : cpc[c] = "nil" /\ mode[c] = "drain") => tasks = <<>>
===========================================================================
