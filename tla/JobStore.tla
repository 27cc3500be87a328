----------------------------- MODULE JobStore -----------------------------
(***************************************************************************)
(* What a JobStore promises to clients that share it.  There are no        *)
(* versions here: the store simply knows which clients hold a copy of a    *)
(* record that nobody has written since, and accepts updates from those    *)
(* only.                                                                   *)
(***************************************************************************)
EXTENDS Integers

CONSTANTS
    Ids,      \* job IDs
    Clients,  \* who calls the store
    Times,    \* creation times
    NoJob

Statuses == {"pending", "running", "succeeded", "failed"}

VARIABLES
    jobs,     \* the status and creation time of each record, or NoJob
    current,  \* the clients that hold the present state of each record
    closed

vars == <<jobs, current, closed>>

Stored == {id \in Ids : jobs[id] # NoJob}

InStatus(status) == {id \in Stored : jobs[id].status = status}

Init ==
    /\ jobs = [id \in Ids |-> NoJob]
    /\ current = [id \in Ids |-> {}]
    /\ closed = FALSE

\* c receives a copy of id, or of nothing, and drops the one it held.
Holds(c, id) == [i \in Ids |-> IF i = id THEN current[i] \cup {c} ELSE current[i] \ {c}]

Save(id, status, created) ==
    /\ jobs[id] = NoJob
    /\ jobs' = [jobs EXCEPT ![id] = [status |-> status, created |-> created]]
    /\ UNCHANGED <<current, closed>>

Read(c, id) ==
    /\ id \in Stored
    /\ UNCHANGED <<jobs, closed>>
    /\ current' = Holds(c, id)

\* An oldest pending record goes to c, and every copy of it is out of date.  A
\* remote store may fail to tell c.
Claim(c, id) ==
    /\ id \in InStatus("pending")
    /\ \A other \in InStatus("pending") : jobs[id].created <= jobs[other].created
    /\ jobs' = [jobs EXCEPT ![id].status = "running"]
    /\ \/ current' = [Holds(c, id) EXCEPT ![id] = {c}]
       \/ current' = [current EXCEPT ![id] = {}]
    /\ UNCHANGED closed

Update(c, id, status) ==
    /\ c \in current[id]
    /\ jobs' = [jobs EXCEPT ![id].status = status]
    /\ current' = [current EXCEPT ![id] = {}]
    /\ UNCHANGED closed

Delete(id) ==
    /\ id \in Stored
    /\ jobs' = [jobs EXCEPT ![id] = NoJob]
    /\ current' = [current EXCEPT ![id] = {}]
    /\ UNCHANGED closed

\* Running records return to the line, and their claimants lose them.
Requeue(stale) ==
    /\ stale \subseteq InStatus("running")
    /\ jobs' = [id \in Ids |-> IF id \in stale THEN [jobs[id] EXCEPT !.status = "pending"] ELSE jobs[id]]
    /\ current' = [id \in Ids |-> IF id \in stale THEN {} ELSE current[id]]
    /\ UNCHANGED closed

\* A client loses its copy.
Forget(c) ==
    /\ UNCHANGED <<jobs, closed>>
    /\ current' = [id \in Ids |-> current[id] \ {c}]

Close ==
    /\ closed' = TRUE
    /\ UNCHANGED <<jobs, current>>

Serve ==
    \/ \E id \in Ids :
        \/ \E status \in Statuses, created \in Times : Save(id, status, created)
        \/ Delete(id)
        \/ \E c \in Clients :
            \/ Read(c, id)
            \/ Claim(c, id)
            \/ \E status \in Statuses : Update(c, id, status)
    \/ \E stale \in SUBSET InStatus("running") : Requeue(stale)

Next ==
    \/ \E c \in Clients : Forget(c)
    \/ Close
    \/ ~closed /\ Serve

Spec == Init /\ [][Next]_vars
===========================================================================
