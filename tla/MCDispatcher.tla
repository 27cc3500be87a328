--------------------------- MODULE MCDispatcher ---------------------------
(* Small instances of Dispatcher for TLC.                                  *)
EXTENDS DispatcherClaims

\* Calls, workers and closers are interchangeable.
Symmetry == Permutations(Tasks) \cup Permutations(Workers) \cup Permutations(Closers)

\* The queue's own limit, and a negative override.
MixedOverrides == {NoOverride, -1}
===========================================================================
