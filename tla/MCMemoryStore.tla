-------------------------- MODULE MCMemoryStore --------------------------
(* Small instances of MemoryStore for TLC.                                *)
EXTENDS MemoryStore

Given(status, version, created, started) ==
    [status |-> status, version |-> version, created |-> created, started |-> started,
     attempts |-> 0]

\* New jobs of different age.
NewJobs == {Given("", 0, 1, Nil), Given("", 0, 2, Nil)}

\* A claimant finishes, or gives the job back.
PlainEdits == {[status |-> "succeeded", started |-> "kept"],
               [status |-> "pending", started |-> "cleared"]}
===========================================================================
