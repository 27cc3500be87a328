--------------------------- MODULE StoreClients ---------------------------
(***************************************************************************)
(* What the stores of package backend and the goroutines that use one have *)
(* in common: the job records, the copies that the clients work on, and    *)
(* the properties that any store has to keep.  The operations are in       *)
(* MemoryStore and MongoStore.                                             *)
(*                                                                         *)
(* A client works on the copy of a record it got last: it may hold it for  *)
(* any time, change its status, hand it to Update, or be lost with it.     *)
(* Times are kept as ages: as time passes every StartedAt gets one unit    *)
(* older, in the store and in the copies, up to MaxAge.                    *)
(***************************************************************************)
EXTENDS Integers, SequencesExt, FiniteSetsExt

CONSTANTS
    Ids,         \* job IDs, in the order of the code's string comparison
    Clients,     \* the goroutines that call the store
    Times,       \* values of CreatedAt, in the resolution of the store
    NewRecords,  \* the records that callers pass to Save, without ID
    Leases,      \* the leases passed to RequeueStale
    MaxAge,      \* the age that stands for every greater one
    Edits,       \* what callers of Update change in their copies
    MaxWrites,   \* bound: how often the present records were written, by versions
    MaxSaves,    \* bound: how often an ID is saved
    NoRecord,
    Nil          \* a nil *time.Time

ASSUME OrderAssumption == Ids \subseteq Int /\ IsFiniteSet(Ids) /\ Times \subseteq Int
ASSUME AgeAssumption == MaxAge \in Nat /\ Leases \subseteq 0..MaxAge /\ Nil \notin Int
ASSUME BoundAssumption == MaxWrites \in Nat /\ MaxSaves \in Nat

Statuses == {"pending", "running", "succeeded", "failed"}

Ages == 0..MaxAge \cup {Nil}

Record == [status : Statuses, version : Nat, created : Times, started : Ages, attempts : Nat]

\* A client's copy of a record; history: for which Save of its ID the record
\* was made, and whether it came from Claim.
Copy == [id : Ids, rec : Record, birth : Nat, claimed : BOOLEAN]

\* What of a record concerns the contract.
Job == [status : Statuses, created : Times]

ASSUME RecordAssumption ==
    /\ Edits \subseteq [status : Statuses, started : {"kept", "cleared", "renewed"}]
    /\ NewRecords \subseteq [status : Statuses \cup {""}, version : Nat, created : Times,
                             started : Ages, attempts : Nat]
    /\ NoRecord \notin Record \cup Copy \cup Job

VARIABLES
    records,  \* the stored records, NoRecord for a missing key
    copy,     \* what each client got last, or NoRecord
    births,   \* history: how often each ID was saved
    claims    \* history: how often the stored record was claimed

storeVars == <<records, copy, births, claims>>

RecordsOK ==
    /\ records \in [Ids -> Record \cup {NoRecord}]
    /\ copy \in [Clients -> Copy \cup {NoRecord}]
    /\ births \in [Ids -> Nat]
    /\ claims \in [Ids -> Nat]

\* No record, and nobody has read one.
InitRecords ==
    /\ records = [id \in Ids |-> NoRecord]
    /\ copy = [c \in Clients |-> NoRecord]
    /\ births = [id \in Ids |-> 0]
    /\ claims = [id \in Ids |-> 0]

Stored == {id \in Ids : records[id] # NoRecord}

InStatus(status) == {id \in Stored : records[id].status = status}

\* c is handed a clone of rec, stored under id.
Hand(c, id, rec, claimed) ==
    copy' = [copy EXCEPT ![c] =
                [id |-> id, rec |-> rec, birth |-> births[id], claimed |-> claimed]]

\* Only a bound.
MoreWrites == MapThenSumSet(LAMBDA id : records[id].version, Stored) < MaxWrites

\* The client sets the status, and StartedAt unless it keeps it.
Edited(rec, edit) ==
    [rec EXCEPT !.status = edit.status,
                !.started = CASE edit.started = "kept" -> @
                              [] edit.started = "cleared" -> Nil
                              [] edit.started = "renewed" -> 0]

\* The client ends or goes on to something else.
Discard(c) ==
    /\ copy[c] # NoRecord
    /\ copy' = [copy EXCEPT ![c] = NoRecord]
    /\ UNCHANGED <<records, births, claims>>

Aged(rec) ==
    IF rec.started \in 0..MaxAge-1 THEN [rec EXCEPT !.started = @ + 1] ELSE rec

TimePasses ==
    /\ records' = [id \in Ids |-> IF id \in Stored THEN Aged(records[id]) ELSE NoRecord]
    /\ copy' = [c \in Clients |-> IF copy[c] = NoRecord THEN NoRecord
                                 ELSE [copy[c] EXCEPT !.rec = Aged(@)]]
    /\ UNCHANGED <<births, claims>>

---------------------------------------------------------------------------
(* Safety.                                                                 *)

\* The store would accept this client's copy.
MayUpdate(c) ==
    /\ copy[c] # NoRecord
    /\ copy[c].id \in Stored
    /\ copy[c].rec.version = records[copy[c].id].version

\* A version identifies the content of a record: whoever passes the check of
\* Update has seen every write there was, its claims and requeues included.
VersionIdentifiesContent ==
    \A c \in Clients :
        MayUpdate(c) /\ copy[c].birth = births[copy[c].id]
            => copy[c].rec = records[copy[c].id]

\* A worker whose job was given back to the line and claimed again cannot
\* store its result any more: of all the claimants of a record at most one
\* may update it, and only while the record is running.
OneClaimant ==
    /\ \A c, d \in Clients :
        /\ MayUpdate(c) /\ copy[c].claimed
        /\ MayUpdate(d) /\ copy[d].claimed
        /\ copy[c].id = copy[d].id
        => c = d
    /\ \A c \in Clients :
        MayUpdate(c) /\ copy[c].claimed => records[copy[c].id].status = "running"

\* Attempts counts the claims of the record, although every Update writes back
\* the number in the caller's copy.
AttemptsCountClaims ==
    \A id \in Stored : records[id].attempts = claims[id]

\* A finished job is not run again, neither by a late requeue nor by a claimant
\* that lost it, unless a client that has seen it finished says so or deletes it.
FinishedJobsStayFinished ==
    [][\A id \in InStatus("succeeded") \cup InStatus("failed") :
        \/ records'[id] = NoRecord
        \/ records'[id].status = records[id].status
        \/ \E c \in Clients :
            MayUpdate(c) /\ copy[c].id = id /\ copy[c].rec.status = records[id].status]_storeVars

\* What a store is of the contract: who holds the latest state of each record.
Jobs == [id \in Ids |-> IF id \in Stored
                        THEN [status |-> records[id].status, created |-> records[id].created]
                        ELSE NoRecord]

Current == [id \in Ids |-> {c \in Clients : MayUpdate(c) /\ copy[c].id = id}]
===========================================================================
