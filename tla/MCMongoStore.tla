--------------------------- MODULE MCMongoStore ---------------------------
(* Small instances of MongoStore for TLC.                                 *)
EXTENDS MongoStore

Given(created) ==
    [status |-> "", version |-> 0, created |-> created, started |-> Nil, attempts |-> 0]

\* A new job, of any age.
NewJobs == {Given(created) : created \in Times}

\* A claimant finishes, gives the job back, or asks for more time.
ClaimantEdits == {[status |-> "succeeded", started |-> "kept"],
                  [status |-> "pending", started |-> "cleared"],
                  [status |-> "running", started |-> "renewed"]}
===========================================================================
