---------------------------- MODULE MemoryStore ----------------------------
(***************************************************************************)
(* The MemoryStore of backend/memory.go and clients that share it.  Every  *)
(* method holds the mutex from its first look at the store to its return,  *)
(* so that each one is a single step.  A call that returns an error        *)
(* changes nothing and is not a step: the guards are the code's, negated.  *)
(***************************************************************************)
EXTENDS StoreClients

CONSTANT Limits   \* the limits passed to List

ASSUME LimitAssumption == Limits \subseteq Int

VARIABLE closed   \* s.closed; s.records is records

vars == <<storeVars, closed>>

TypeOK == RecordsOK /\ closed \in BOOLEAN

\* NewMemoryStore.
Init == InitRecords /\ closed = FALSE

---------------------------------------------------------------------------

\* Fault: an empty status stays empty.
StoredAsGiven(new) == [new EXCEPT !.version = IF @ = 0 THEN 1 ELSE @]

\* The defaults of Save.
AsStored(new) ==
    [new EXCEPT !.status = IF @ = "" THEN "pending" ELSE @,
                !.version = IF @ = 0 THEN 1 ELSE @]

Save(id, new) ==
    /\ ~closed
    /\ id \notin Stored
    /\ births[id] < MaxSaves
    /\ records' = [records EXCEPT ![id] = AsStored(new)]
    /\ births' = [births EXCEPT ![id] = @ + 1]
    /\ claims' = [claims EXCEPT ![id] = 0]
    /\ UNCHANGED <<closed, copy>>

Get(c, id) ==
    /\ ~closed
    /\ id \in Stored
    /\ Hand(c, id, records[id], FALSE)
    /\ UNCHANGED <<records, closed, births, claims>>

\* Fault: no order among jobs created at the same time.
OlderByTime(i, j) == records[i].created <= records[j].created

\* The comparison in the loop of Claim.
Older(i, j) ==
    \/ records[i].created < records[j].created
    \/ records[i].created = records[j].created /\ i < j

\* Fault: any record that nobody finished.
ClaimableUnfinished == InStatus("pending") \cup InStatus("running")

Claimable == InStatus("pending")

\* Fault: the last writer's version stays.
NotWritten(rec) == rec

\* Every write takes the next version.
Written(rec) == [rec EXCEPT !.version = @ + 1]

\* Fault: the claim does not say when it began.
MarkedRunning(rec) == Written([rec EXCEPT !.status = "running", !.attempts = @ + 1])

AsClaimed(rec) ==
    Written([rec EXCEPT !.status = "running", !.started = 0, !.attempts = @ + 1])

Claim(c, id) ==
    /\ ~closed
    /\ id \in Claimable
    /\ \A other \in Claimable \ {id} : Older(id, other)
    /\ MoreWrites
    /\ records' = [records EXCEPT ![id] = AsClaimed(@)]
    /\ Hand(c, id, AsClaimed(records[id]), TRUE)
    /\ claims' = [claims EXCEPT ![id] = @ + 1]
    /\ UNCHANGED <<closed, births>>

\* Fault: an older copy overwrites a newer record.
VersionNotAhead(c) == copy[c].rec.version <= records[copy[c].id].version

VersionMatches(c) == copy[c].rec.version = records[copy[c].id].version

HasCopy(c) == copy[c] # NoRecord /\ copy[c].id \in Stored

Update(c, edit) ==
    /\ ~closed
    /\ HasCopy(c)
    /\ VersionMatches(c)
    /\ MoreWrites
    /\ records' = [records EXCEPT ![copy[c].id] = Written(Edited(copy[c].rec, edit))]
    /\ UNCHANGED <<closed, copy, births, claims>>

Delete(id) ==
    /\ ~closed
    /\ id \in Stored
    /\ records' = [records EXCEPT ![id] = NoRecord]
    /\ UNCHANGED <<closed, copy, births, claims>>

\* The comparison of List's sort.
ListedBefore(i, j) ==
    IF records[i].created # records[j].created
    THEN records[i].created < records[j].created
    ELSE i < j

Matching(filter) == {id \in Stored : records[id].status \in filter}

\* The IDs of the records List returns: the first of the sorted slice, or all of
\* it when the limit is 0 or less.
Listing(filter, limit) ==
    {id \in Matching(filter) :
        limit > 0 => Cardinality({i \in Matching(filter) : ListedBefore(i, id)}) < limit}

\* c goes on with one of the records it got.
List(c, filter, limit) ==
    /\ ~closed
    /\ \E id \in Listing(filter, limit) : Hand(c, id, records[id], FALSE)
    /\ UNCHANGED <<records, closed, births, claims>>

\* Fault: the status is not looked at.
StaleAnyStatus(id, lease) ==
    /\ records[id].started # Nil
    /\ records[id].started >= lease

\* StartedAt is not after the cutoff, now minus the lease.
Stale(id, lease) ==
    /\ records[id].status = "running"
    /\ records[id].started # Nil
    /\ records[id].started >= lease

\* Fault: the version stays.
RequeuedUnnoticed(rec) == [rec EXCEPT !.status = "pending", !.started = Nil]

Requeued(rec) == Written([rec EXCEPT !.status = "pending", !.started = Nil])

RequeueStale(lease) ==
    /\ ~closed
    /\ records' = [id \in Ids |-> IF id \in Stored /\ Stale(id, lease)
                                 THEN Requeued(records[id]) ELSE records[id]]
    /\ UNCHANGED <<closed, copy, births, claims>>

Close ==
    /\ closed' = TRUE
    /\ UNCHANGED <<records, copy, births, claims>>

---------------------------------------------------------------------------
(* What happens outside the store.                                         *)

Forget(c) == Discard(c) /\ UNCHANGED closed

Tick == TimePasses /\ UNCHANGED closed

---------------------------------------------------------------------------

Next ==
    \/ \E id \in Ids :
        \/ \E new \in NewRecords : Save(id, new)
        \/ Delete(id)
    \/ \E c \in Clients :
        \/ \E id \in Ids : Get(c, id) \/ Claim(c, id)
        \/ \E edit \in Edits : Update(c, edit)
        \/ \E filter \in {Statuses} \cup {{s} : s \in Statuses}, limit \in Limits :
              List(c, filter, limit)
        \/ Forget(c)
    \/ \E lease \in Leases : RequeueStale(lease)
    \/ Close
    \/ Tick

Spec == Init /\ [][Next]_vars

---------------------------------------------------------------------------
\* Claim and List, two searches written separately, agree on what the oldest
\* pending record is.
ClaimTakesHeadOfList ==
    [][\A c \in Clients, id \in Ids :
        Claim(c, id) => Listing({"pending"}, 1) = {id}]_vars

---------------------------------------------------------------------------
(* Liveness.                                                               *)

\* Time passes and some client calls RequeueStale again and again with the
\* longest lease.  Nothing is assumed of the claimants, who may be gone.
RequeuerFairness ==
    /\ WF_vars(Tick)
    /\ \A lease \in Leases : (\A l \in Leases : l <= lease) => WF_vars(RequeueStale(lease))

FairSpec == Spec /\ RequeuerFairness

\* Claimed work whose worker is lost goes back to the line in the end.  Callers
\* that mark a job running themselves must say when it started.
StaleWorkIsRecovered ==
    \A id \in Ids : id \in InStatus("running") ~> (id \notin InStatus("running") \/ closed)

---------------------------------------------------------------------------
(* The store keeps its contract.                                           *)

Contract == INSTANCE JobStore WITH
    NoJob <- NoRecord,
    jobs <- Jobs,
    current <- Current

\* Comparing versions tells exactly the clients that have seen every write
\* from the others.  This needs IDs that are not used again.
ImplementsJobStore == Contract!Spec
===========================================================================
