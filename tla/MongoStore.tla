---------------------------- MODULE MongoStore ----------------------------
(***************************************************************************)
(* The MongoJobStore of backend/mongodb/store.go and the clients that use  *)
(* it over a connection.  The server writes one document at a time, and    *)
(* that is all that is atomic: a clock read by the client, a statement     *)
(* about many documents, a second query and the reply are steps of their   *)
(* own, and any reply may be lost.  A statement that the server executes   *)
(* after its client gave up is that of a client whose reply is lost.       *)
(*                                                                         *)
(* The clients' clocks agree, and a call lasts at most MaxDelay.           *)
(***************************************************************************)
EXTENDS StoreClients

CONSTANT MaxDelay   \* how long a call is under way at most

ASSUME DelayAssumption ==
    /\ MaxDelay \in 1..MaxAge
    /\ \A lease \in Leases : lease + MaxDelay < MaxAge

VARIABLE request    \* the call each client is in, where it takes several steps

vars == <<storeVars, request>>

\* clock: how long ago the call read the time.
Request == [op : {"claim", "requeue", "missed"}, clock : 0..MaxDelay, lease : Leases \cup {0}]

NoRequest == [op |-> "none", clock |-> 0, lease |-> 0]

TypeOK == RecordsOK /\ request \in [Clients -> Request \cup {NoRequest}]

Init ==
    /\ InitRecords
    /\ request = [c \in Clients |-> NoRequest]

Idle(c) == request[c] = NoRequest

Calls(c, op, lease) ==
    /\ Idle(c)
    /\ request' = [request EXCEPT ![c] = [op |-> op, clock |-> 0, lease |-> lease]]

Returns(c) == request' = [request EXCEPT ![c] = NoRequest]

---------------------------------------------------------------------------

\* Fault: an empty status stays empty.
StoredAsGiven(new) == [new EXCEPT !.version = IF @ = 0 THEN 1 ELSE @]

\* The defaults of Save.
AsStored(new) ==
    [new EXCEPT !.status = IF @ = "" THEN "pending" ELSE @,
                !.version = IF @ = 0 THEN 1 ELSE @]

\* InsertOne; _id is unique.
Save(id, new) ==
    /\ id \notin Stored
    /\ births[id] < MaxSaves
    /\ records' = [records EXCEPT ![id] = AsStored(new)]
    /\ births' = [births EXCEPT ![id] = @ + 1]
    /\ claims' = [claims EXCEPT ![id] = 0]
    /\ UNCHANGED <<copy, request>>

Get(c, id) ==
    /\ Idle(c)
    /\ id \in Stored
    /\ Hand(c, id, records[id], FALSE)
    /\ UNCHANGED <<records, births, claims, request>>

\* The cursor is no snapshot: each document is as it was when it was read.
List(c, status) ==
    /\ Idle(c)
    /\ \E id \in InStatus(status) : Hand(c, id, records[id], FALSE)
    /\ UNCHANGED <<records, births, claims, request>>

Delete(id) ==
    /\ id \in Stored
    /\ records' = [records EXCEPT ![id] = NoRecord]
    /\ UNCHANGED <<copy, births, claims, request>>

---------------------------------------------------------------------------
(* Claim reads the clock, then the server picks an oldest pending job.     *)

ClaimCall(c) == Calls(c, "claim", 0) /\ UNCHANGED storeVars

Claimable == InStatus("pending")

\* Fault: the claim does not say when it began.
ClaimedUndated(rec, clock) ==
    [rec EXCEPT !.status = "running", !.attempts = @ + 1, !.version = @ + 1]

AsClaimed(rec, clock) ==
    [rec EXCEPT !.status = "running", !.started = clock, !.attempts = @ + 1, !.version = @ + 1]

\* The reply may be lost, and the job with it.
ClaimExecutes(c, id) ==
    /\ request[c].op = "claim"
    /\ id \in Claimable
    /\ \A other \in Claimable : records[id].created <= records[other].created
    /\ MoreWrites
    /\ LET rec == AsClaimed(records[id], request[c].clock)
       IN  /\ records' = [records EXCEPT ![id] = rec]
           /\ Hand(c, id, rec, TRUE) \/ UNCHANGED copy
    /\ claims' = [claims EXCEPT ![id] = @ + 1]
    /\ Returns(c)
    /\ UNCHANGED births

---------------------------------------------------------------------------
(* Update is one statement, and a second one to explain why it missed.     *)

\* Fault: the filter asks for the version that is to be written.
MatchesNext(c) ==
    /\ copy[c].id \in Stored
    /\ records[copy[c].id].version = copy[c].rec.version + 1

\* The filter of UpdateOne.
Matches(c) ==
    /\ copy[c].id \in Stored
    /\ records[copy[c].id].version = copy[c].rec.version

\* Fault: $set without $inc.
UpdatedUnnoticed(rec, edit) == Edited(rec, edit)

\* Every field is set but created_at.
Updated(rec, edit) == [Edited(rec, edit) EXCEPT !.version = @ + 1]

Update(c, edit) ==
    /\ Idle(c)
    /\ copy[c] # NoRecord
    /\ Matches(c)
    /\ MoreWrites
    /\ records' = [records EXCEPT ![copy[c].id] =
                      [Updated(copy[c].rec, edit) EXCEPT !.created = records[copy[c].id].created]]
    /\ UNCHANGED <<copy, births, claims, request>>

UpdateMisses(c) ==
    /\ copy[c] # NoRecord
    /\ ~Matches(c)
    /\ Calls(c, "missed", 0)
    /\ UNCHANGED storeVars

\* The error that follows from exists.
ErrorOf(c) == IF copy[c].id \in Stored THEN "ErrConflict" ELSE "ErrNotFound"

---------------------------------------------------------------------------
(* RequeueStale reads the clock, then the server visits the documents.     *)

RequeueCall(c, lease) == Calls(c, "requeue", lease) /\ UNCHANGED storeVars

\* Fault: the status is not looked at.
StaleAnyStatus(id, age) ==
    /\ records[id].started # Nil
    /\ records[id].started > age

\* started_at is before the cutoff, age ago; null is not before anything.
Stale(id, age) ==
    /\ records[id].status = "running"
    /\ records[id].started # Nil
    /\ records[id].started > age

\* Fault: the version stays.
RequeuedUnnoticed(rec) == [rec EXCEPT !.status = "pending", !.started = Nil]

Requeued(rec) == [rec EXCEPT !.status = "pending", !.started = Nil, !.version = @ + 1]

RequeueOne(c, id) ==
    /\ request[c].op = "requeue"
    /\ id \in Stored
    /\ Stale(id, request[c].lease + request[c].clock)
    /\ records' = [records EXCEPT ![id] = Requeued(@)]
    /\ UNCHANGED <<copy, births, claims, request>>

---------------------------------------------------------------------------

\* The call is over: Claim found nothing, Update explained its error,
\* RequeueStale went through the documents; or the connection or ctx failed.
CallEnds(c) ==
    /\ ~Idle(c)
    /\ Returns(c)
    /\ UNCHANGED storeVars

Forget(c) == Idle(c) /\ Discard(c) /\ UNCHANGED request

Tick ==
    /\ \A c \in Clients : request[c].clock < MaxDelay
    /\ TimePasses
    /\ request' = [c \in Clients |-> IF request[c].op \in {"claim", "requeue"}
                                    THEN [request[c] EXCEPT !.clock = @ + 1] ELSE request[c]]

Next ==
    \/ \E id \in Ids :
        \/ \E new \in NewRecords : Save(id, new)
        \/ Delete(id)
    \/ \E c \in Clients :
        \/ \E id \in Ids : Get(c, id) \/ ClaimExecutes(c, id) \/ RequeueOne(c, id)
        \/ \E status \in Statuses : List(c, status)
        \/ \E edit \in Edits : Update(c, edit)
        \/ \E lease \in Leases : RequeueCall(c, lease)
        \/ ClaimCall(c)
        \/ UpdateMisses(c)
        \/ CallEnds(c)
        \/ Forget(c)
    \/ Tick

Spec == Init /\ [][Next]_vars

---------------------------------------------------------------------------
(* Safety, besides what StoreClients states of every store.                *)

\* The two statements of Update tell the truth together: a caller that is told
\* of a conflict has been overtaken by another write, whatever happened between
\* the statements.  This needs IDs that are not used again.
ConflictsAreReal ==
    \A c \in Clients :
        request[c].op = "missed" /\ ErrorOf(c) = "ErrConflict"
            => records[copy[c].id].version > copy[c].rec.version

---------------------------------------------------------------------------
(* Liveness.                                                               *)

\* Calls end, time passes, and a call of RequeueStale with the longest lease is
\* made, and reaches each document, again and again.
RequeuerFairness ==
    /\ WF_vars(Tick)
    /\ \A c \in Clients : WF_vars(CallEnds(c))
    /\ \A lease \in Leases : (\A l \in Leases : l <= lease) =>
        /\ SF_vars(\E c \in Clients : RequeueCall(c, lease))
        /\ \A id \in Ids :
            SF_vars(\E c \in Clients : request[c].lease = lease /\ RequeueOne(c, id))

FairSpec == Spec /\ RequeuerFairness

\* Claimed work goes back to the line when its worker is lost, or never heard
\* of the claim because the reply got lost.
StaleWorkIsRecovered ==
    \A id \in Ids : id \in InStatus("running") ~> id \notin InStatus("running")

---------------------------------------------------------------------------
(* The store keeps its contract.                                           *)

Contract == INSTANCE JobStore WITH
    NoJob <- NoRecord,
    jobs <- Jobs,
    current <- Current,
    closed <- FALSE

\* One document at a time is enough for the contract of MemoryStore, where
\* every method is atomic: the store loses only what a lost reply loses.
ImplementsJobStore == Contract!Spec
===========================================================================
