------------------------- MODULE MongoStoreProofs -------------------------
(* Theorems about MongoStore, for every value of its constants.            *)
EXTENDS MongoStore, StoreProofs

\* What the server makes of a document that it hands out.
LEMMA AsClaimedLemma ==
    ASSUME NEW rec \in Record, NEW clock \in 0..MaxDelay
    PROVE  AsClaimed(rec, clock) \in Record /\ Claimed(AsClaimed(rec, clock), rec)
<1>1. "running" \in Statuses /\ clock \in Ages
  BY AgeAssumption, DelayAssumption DEF Statuses, Ages
<1>2. rec.attempts + 1 \in Nat /\ rec.version + 1 \in Nat
  BY DEF Record
<1> QED BY <1>1, <1>2 DEF AsClaimed, Claimed, Record

LEMMA RequeuedLemma ==
    ASSUME NEW rec \in Record
    PROVE  Requeued(rec) \in Record /\ GivenBack(Requeued(rec), rec)
<1>1. "pending" \in Statuses /\ Nil \in Ages
  BY DEF Statuses, Ages
<1>2. rec.version + 1 \in Nat
  BY DEF Record
<1> QED BY <1>1, <1>2 DEF Requeued, GivenBack, Successor, Record

\* What Update makes of the caller's copy and the document it replaces.
LEMMA UpdatedLemma ==
    ASSUME NEW rec \in Record, NEW created \in Times,
           NEW edit \in [status : Statuses, started : {"kept", "cleared", "renewed"}]
    PROVE  LET new == [Updated(rec, edit) EXCEPT !.created = created]
           IN  new \in Record /\ Successor(new, rec) /\ new.created = created
<1> DEFINE edited == Edited(rec, edit)
<1>1. /\ edited \in Record
      /\ edited.version = rec.version
      /\ edited.attempts = rec.attempts
  BY EditedLemma
<1> HIDE DEF edited
<1> DEFINE written == [edited EXCEPT !.version = @ + 1]
<1>2. /\ written \in Record
      /\ written.version = rec.version + 1
      /\ written.attempts = rec.attempts
  BY <1>1 DEF Record
<1>3. Updated(rec, edit) = written
  BY DEF Updated, edited
<1> HIDE DEF written
<1> QED BY <1>2, <1>3 DEF Successor, Record

---------------------------------------------------------------------------
(* Calls.                                                                  *)

\* The steps that begin and end calls, and no more.
LEMMA CallSteps ==
    ASSUME NEW c \in Clients
    PROVE  /\ ClaimCall(c) => UNCHANGED storeVars
           /\ UpdateMisses(c) => UNCHANGED storeVars
           /\ CallEnds(c) => UNCHANGED storeVars
           /\ \A lease \in Leases : RequeueCall(c, lease) => UNCHANGED storeVars
BY DEF ClaimCall, UpdateMisses, CallEnds, RequeueCall

\* The types of a call.
LEMMA RequestTypes ==
    ASSUME TypeOK, NEW c \in Clients
    PROVE  /\ request[c].clock \in 0..MaxDelay
           /\ request[c] \in Request \cup {NoRequest}
           /\ request[c].op # "none" => request[c] \in Request
BY DelayAssumption DEF TypeOK, Request, NoRequest

\* Every step leaves the calls well formed.
LEMMA NextRequests ==
    ASSUME TypeOK, [Next]_vars
    PROVE  request' \in [Clients -> Request \cup {NoRequest}]
<1>1. ASSUME NEW c \in Clients, NEW op \in {"claim", "requeue", "missed"},
             NEW lease \in Leases \cup {0}, Calls(c, op, lease)
      PROVE  request' \in [Clients -> Request \cup {NoRequest}]
  <2>1. [op |-> op, clock |-> 0, lease |-> lease] \in Request
    BY DelayAssumption DEF Request
  <2> QED BY <1>1, <2>1 DEF Calls, TypeOK
<1>2. ASSUME NEW c \in Clients, Returns(c)
      PROVE  request' \in [Clients -> Request \cup {NoRequest}]
  BY <1>2 DEF Returns, TypeOK
<1>3. CASE UNCHANGED request
  BY <1>3 DEF TypeOK
<1>4. ASSUME Tick PROVE request' \in [Clients -> Request \cup {NoRequest}]
  <2>1. ASSUME NEW c \in Clients, request[c].op \in {"claim", "requeue"}
        PROVE  [request[c] EXCEPT !.clock = @ + 1] \in Request
    <3>1. request[c] \in Request /\ request[c].clock < MaxDelay
      BY <1>4, <2>1, RequestTypes DEF Tick
    <3>2. request[c].clock + 1 \in 0..MaxDelay
      BY <3>1, DelayAssumption DEF Request
    <3> QED BY <3>1, <3>2 DEF Request
  <2> QED BY <1>4, <2>1 DEF Tick, TypeOK
<1> QED
  BY <1>1, <1>2, <1>3, <1>4
  DEF Next, vars, Save, Delete, Get, List, Update, Forget, ClaimExecutes, RequeueOne, ClaimCall,
      RequeueCall, UpdateMisses, CallEnds

---------------------------------------------------------------------------
(* Steps.                                                                  *)

\* The steps of the store and its clients are those of StoreProofs.
LEMMA StepKinds ==
    ASSUME TypeOK, [Next]_vars
    PROVE  \/ Serving
           \/ \E c \in Clients : Discard(c)
           \/ TimePasses
           \/ UNCHANGED storeVars
<1> USE DEF TypeOK
<1>1. ASSUME NEW id \in Ids, NEW new \in NewRecords, Save(id, new) PROVE Serving
  <2>1. /\ AsStored(new) \in Record
        /\ AsStored(new).attempts = new.attempts
    <3>1. new \in [status : Statuses \cup {""}, version : Nat, created : Times,
                   started : Ages, attempts : Nat]
      BY RecordAssumption
    <3>2. /\ (IF new.status = "" THEN "pending" ELSE new.status) \in Statuses
          /\ (IF new.version = 0 THEN 1 ELSE new.version) \in Nat
      BY <3>1 DEF Statuses
    <3> QED BY <3>1, <3>2 DEF AsStored, Record
  <2>2. Saving(id)
    BY <1>1, <2>1 DEF Save, Saving
  <2> QED BY <2>2 DEF Serving
<1>2. ASSUME NEW id \in Ids, Delete(id) PROVE Serving
  BY <1>2 DEF Delete, Deleting, Serving
<1>3. ASSUME NEW c \in Clients, NEW id \in Ids, Get(c, id) PROVE Serving
  <2>1. Reading(c, id)
    BY <1>3 DEF Get, Reading
  <2> QED BY <2>1 DEF Serving
<1>4. ASSUME NEW c \in Clients, NEW status, List(c, status) PROVE Serving
  <2>1. \E id \in Ids : Reading(c, id)
    BY <1>4 DEF List, Reading, InStatus, Stored
  <2> QED BY <2>1 DEF Serving
<1>5. ASSUME NEW c \in Clients, NEW id \in Ids, ClaimExecutes(c, id) PROVE Serving
  <2> DEFINE rec == AsClaimed(records[id], request[c].clock)
  <2>1. records[id] \in Record
    BY <1>5, CopyTypes DEF ClaimExecutes, Claimable, InStatus
  <2>2. rec \in Record /\ Claimed(rec, records[id])
    BY <2>1, RequestTypes, AsClaimedLemma
  <2>3. /\ records' = [records EXCEPT ![id] = rec]
        /\ Hand(c, id, rec, TRUE) \/ UNCHANGED copy
        /\ claims' = [claims EXCEPT ![id] = @ + 1]
        /\ births' = births
        /\ id \in InStatus("pending")
        /\ Oldest(id)
    BY <1>5 DEF ClaimExecutes, Claimable, Oldest
  <2> HIDE DEF rec
  <2>4. Claiming(c, id) /\ Oldest(id)
    BY <2>2, <2>3 DEF Claiming
  <2> QED BY <2>4 DEF Serving
<1>6. ASSUME NEW c \in Clients, NEW edit \in Edits, Update(c, edit) PROVE Serving
  <2> DEFINE id == copy[c].id
             new == [Updated(copy[c].rec, edit) EXCEPT !.created = records[id].created]
  <2>1. copy[c].rec \in Record /\ records[id] \in Record /\ MayUpdate(c)
    BY <1>6, CopyTypes DEF Update, Matches, MayUpdate
  <2>2. edit \in [status : Statuses, started : {"kept", "cleared", "renewed"}]
    BY RecordAssumption
  <2>3. records[id].created \in Times
    BY <2>1 DEF Record
  <2>4. new \in Record /\ Successor(new, copy[c].rec) /\ new.created = records[id].created
    BY <2>1, <2>2, <2>3, UpdatedLemma
  <2>5. records' = [records EXCEPT ![id] = new] /\ UNCHANGED <<copy, births, claims>>
    BY <1>6 DEF Update
  <2> HIDE DEF new
  <2>6. Updating(c)
    BY <2>1, <2>4, <2>5 DEF Updating
  <2> QED BY <2>6 DEF Serving
<1>7. ASSUME NEW c \in Clients, NEW id \in Ids, RequeueOne(c, id) PROVE Serving
  <2>1. records[id] \in Record /\ id \in InStatus("running")
    BY <1>7, CopyTypes DEF RequeueOne, Stale, InStatus
  <2>2. Requeued(records[id]) \in Record /\ GivenBack(Requeued(records[id]), records[id])
    BY <2>1, RequeuedLemma
  <2>3. records' = [records EXCEPT ![id] = Requeued(records[id])] /\ UNCHANGED <<copy, births, claims>>
    BY <1>7 DEF RequeueOne
  <2>4. Requeuing({id})
    BY <2>1, <2>2, <2>3 DEF Requeuing, RecordsOK
  <2> QED BY <2>4 DEF Serving
<1>8. ASSUME NEW c \in Clients, Forget(c) PROVE \E d \in Clients : Discard(d)
  BY <1>8 DEF Forget
<1>9. ASSUME Tick PROVE TimePasses
  BY <1>9 DEF Tick
<1>10. CASE UNCHANGED vars
  BY <1>10 DEF vars
<1> QED
  BY <1>1, <1>2, <1>3, <1>4, <1>5, <1>6, <1>7, <1>8, <1>9, <1>10, CallSteps DEF Next

LEMMA NextIsStoreStep == TypeOK /\ [Next]_vars => StoreStep
BY StepKinds DEF StoreStep

---------------------------------------------------------------------------
(* Safety.                                                                 *)

StoreInv == TypeOK /\ Versions /\ Claimants

LEMMA InitStoreInv == Init => StoreInv
<1> SUFFICES ASSUME Init PROVE StoreInv
  OBVIOUS
<1>1. TypeOK
  BY DEF Init, InitRecords, TypeOK, RecordsOK
<1>2. Stored = {} /\ \A c \in Clients : copy[c] = NoRecord
  BY DEF Init, InitRecords, Stored
<1> QED BY <1>1, <1>2 DEF StoreInv, Versions, VersionIdentifiesContent, Claimants, Latest, MayUpdate

LEMMA NextStoreInv == StoreInv /\ [Next]_vars => StoreInv'
BY NextRequests, NextIsStoreStep, StepRecordsOK, StepVersions, StepClaimants DEF StoreInv, TypeOK

\* The invariant of the store: types, versions and claimants.
THEOREM StoreInvariant == Spec => []StoreInv
BY InitStoreInv, NextStoreInv, PTL DEF Spec

\* The collection, the copies of its clients and the calls under way keep their
\* types, whatever replies are lost.
THEOREM MongoTypeCorrect == Spec => []TypeOK
<1>1. StoreInv => TypeOK
  BY DEF StoreInv
<1> QED BY <1>1, StoreInvariant, PTL

\* Whoever matches the filter of Update holds what is stored, for any number of
\* clients, calls and lost replies.
THEOREM MongoVersions == Spec => []VersionIdentifiesContent
<1>1. StoreInv => VersionIdentifiesContent
  BY DEF StoreInv, Versions
<1> QED BY <1>1, StoreInvariant, PTL

\* Where the bound allows one Save of each ID, none is used twice.
THEOREM MongoSavedOnce ==
    ASSUME MaxSaves = 1
    PROVE  Spec => []SavedOnce
<1>1. Init => SavedOnce
  BY DEF Init, InitRecords, SavedOnce
<1>2. StoreInv /\ SavedOnce /\ [Next]_vars => SavedOnce'
  <2> SUFFICES ASSUME RecordsOK, SavedOnce, [Next]_vars, NEW id \in Ids PROVE births'[id] <= 1
    BY DEF StoreInv, TypeOK, SavedOnce
  <2>1. ASSUME NEW i \in Ids, NEW new \in NewRecords, Save(i, new) PROVE births'[id] <= 1
    BY <2>1 DEF Save, RecordsOK, SavedOnce
  <2>2. ASSUME births' = births PROVE births'[id] <= 1
    BY <2>2 DEF SavedOnce
  <2> QED BY <2>1, <2>2 DEF Next, vars, storeVars, Delete, Get, ClaimExecutes, RequeueOne, List,
       Update, RequeueCall, ClaimCall, UpdateMisses, CallEnds, Forget, Tick, Discard, TimePasses
<1> QED BY <1>1, <1>2, StoreInvariant, PTL DEF Spec

\* As long as no ID is used twice, at most one of the clients that claimed a
\* job can report on it, and only while it is running.
THEOREM MongoOneClaimant == Spec /\ []SavedOnce => []OneClaimant
<1>1. StoreInv /\ SavedOnce => OneClaimant
  BY SavedOnceOneClaimant DEF StoreInv, TypeOK
<1> QED BY <1>1, StoreInvariant, PTL

\* Attempts is the number of claims, those included that nobody heard of, if
\* new records have none and no ID is used twice.
THEOREM MongoAttempts ==
    ASSUME \A new \in NewRecords : new.attempts = 0
    PROVE  Spec /\ []SavedOnce => []AttemptsCountClaims
<1>1. Init => AttemptsCountClaims
  BY DEF Init, InitRecords, AttemptsCountClaims, Stored
<1>2. StoreInv /\ SavedOnce /\ AttemptsCountClaims /\ [Next]_vars => AttemptsCountClaims'
  BY NextIsStoreStep, StepAttempts DEF StoreInv, TypeOK
<1> QED BY <1>1, <1>2, StoreInvariant, PTL DEF Spec

\* As long as no ID is used twice, a finished job changes its status only by a
\* client that has seen it finished: not by a requeue that read the clock before.
THEOREM MongoFinishedStay == Spec /\ []SavedOnce => FinishedJobsStayFinished
<1> DEFINE Kept ==
        \A id \in InStatus("succeeded") \cup InStatus("failed") :
            \/ records'[id] = NoRecord
            \/ records'[id].status = records[id].status
            \/ \E c \in Clients :
                MayUpdate(c) /\ copy[c].id = id /\ copy[c].rec.status = records[id].status
<1>1. StoreInv /\ SavedOnce /\ [Next]_vars => [Kept]_storeVars
  BY NextIsStoreStep, StepKeepsFinished DEF StoreInv, TypeOK
<1> QED BY <1>1, StoreInvariant, PTL DEF Spec, FinishedJobsStayFinished

---------------------------------------------------------------------------
(* The second query of Update.                                             *)

\* A call whose update missed is that of a client that was overtaken.
Missed == \A c \in Clients : request[c].op = "missed" => Overtaken(c)

\* Only UpdateMisses makes a call one that missed, and the copy of a client in
\* such a call stays.
LEMMA MissedCalls ==
    ASSUME TypeOK, [Next]_vars, NEW c \in Clients, request'[c].op = "missed"
    PROVE  \/ UpdateMisses(c)
           \/ request[c].op = "missed" /\ (copy'[c] = copy[c] \/ TimePasses)
<1> USE DEF TypeOK
<1>1. ASSUME NEW d \in Clients, NEW op, NEW lease, Calls(d, op, lease), UNCHANGED storeVars,
             op = "missed" => d # c
      PROVE  request[c].op = "missed" /\ copy'[c] = copy[c]
  BY <1>1 DEF Calls, storeVars
<1>2. ASSUME NEW d \in Clients, Returns(d), \A e \in Clients : e # d => copy'[e] = copy[e]
      PROVE  request[c].op = "missed" /\ copy'[c] = copy[c]
  BY <1>2 DEF Returns, NoRequest
<1>3. ASSUME NEW d \in Clients, Idle(d), UNCHANGED request,
             \A e \in Clients : e # d => copy'[e] = copy[e]
      PROVE  request[c].op = "missed" /\ copy'[c] = copy[c]
  BY <1>3 DEF Idle, NoRequest
<1>4. CASE UNCHANGED <<copy, request>>
  BY <1>4
<1>5. ASSUME NEW d \in Clients, NEW id \in Ids, ClaimExecutes(d, id)
      PROVE  request[c].op = "missed" /\ copy'[c] = copy[c]
  <2>1. \A e \in Clients : e # d => copy'[e] = copy[e]
    BY <1>5 DEF ClaimExecutes, Hand, RecordsOK
  <2> QED BY <1>2, <1>5, <2>1 DEF ClaimExecutes
<1>6. ASSUME NEW d \in Clients, NEW id \in Ids, Get(d, id)
      PROVE  request[c].op = "missed" /\ copy'[c] = copy[c]
  <2>1. \A e \in Clients : e # d => copy'[e] = copy[e]
    BY <1>6 DEF Get, Hand, RecordsOK
  <2> QED BY <1>3, <1>6, <2>1 DEF Get
<1>7. ASSUME NEW d \in Clients, NEW status, List(d, status)
      PROVE  request[c].op = "missed" /\ copy'[c] = copy[c]
  <2>1. \A e \in Clients : e # d => copy'[e] = copy[e]
    BY <1>7 DEF List, Hand, RecordsOK
  <2> QED BY <1>3, <1>7, <2>1 DEF List
<1>8. ASSUME NEW d \in Clients, Forget(d)
      PROVE  request[c].op = "missed" /\ copy'[c] = copy[c]
  <2>1. \A e \in Clients : e # d => copy'[e] = copy[e]
    BY <1>8 DEF Forget, Discard, RecordsOK
  <2> QED BY <1>3, <1>8, <2>1 DEF Forget
<1>9. ASSUME Tick PROVE request[c].op = "missed" /\ TimePasses
  <2>1. request'[c].op = request[c].op
    BY <1>9, RequestTypes DEF Tick, Request
  <2> QED BY <1>9, <2>1 DEF Tick
<1>10. ASSUME NEW d \in Clients, UpdateMisses(d)
       PROVE  \/ UpdateMisses(c)
              \/ request[c].op = "missed" /\ copy'[c] = copy[c]
  BY <1>1, <1>10 DEF UpdateMisses
<1>11. ASSUME NEW d \in Clients, ClaimCall(d) \/ \E lease \in Leases : RequeueCall(d, lease)
       PROVE  request[c].op = "missed" /\ copy'[c] = copy[c]
  BY <1>1, <1>11 DEF ClaimCall, RequeueCall
<1>12. ASSUME NEW d \in Clients, CallEnds(d)
       PROVE  request[c].op = "missed" /\ copy'[c] = copy[c]
  BY <1>2, <1>12 DEF CallEnds, storeVars
<1>13. ASSUME \/ \E id \in Ids : (\E new \in NewRecords : Save(id, new)) \/ Delete(id)
              \/ \E d \in Clients, id \in Ids : RequeueOne(d, id)
              \/ \E d \in Clients, edit \in Edits : Update(d, edit)
              \/ UNCHANGED vars
       PROVE  UNCHANGED <<copy, request>>
  BY <1>13 DEF Save, Delete, RequeueOne, Update, vars, storeVars
<1> QED
  BY <1>4, <1>5, <1>6, <1>7, <1>8, <1>9, <1>10, <1>11, <1>12, <1>13 DEF Next

LEMMA NextMissed == StoreInv /\ Missed /\ [Next]_vars => Missed'
<1> SUFFICES ASSUME StoreInv, Missed, [Next]_vars, NEW c \in Clients, request'[c].op = "missed"
             PROVE  Overtaken(c)'
  BY DEF Missed
<1> USE DEF StoreInv, TypeOK
<1>1. CASE UpdateMisses(c)
  <2>1. copy[c] # NoRecord /\ ~Matches(c) /\ UNCHANGED storeVars
    BY <1>1 DEF UpdateMisses
  <2>2. Overtaken(c)
    BY <2>1, CopyTypes DEF Overtaken, Matches, Versions
  <2> QED BY <2>1, <2>2, OvertakenKept, NextIsStoreStep DEF storeVars
<1>2. CASE request[c].op = "missed" /\ (copy'[c] = copy[c] \/ TimePasses)
  BY <1>2, OvertakenKept, NextIsStoreStep DEF Missed
<1> QED BY <1>1, <1>2, MissedCalls

\* As long as no ID is used twice, a caller of Update that is told of a conflict
\* has been overtaken by another write, whatever happened between the two
\* statements.
THEOREM MongoConflictsAreReal == Spec /\ []SavedOnce => []ConflictsAreReal
<1>1. Init => Missed
  BY DEF Init, NoRequest, Missed
<1>2. StoreInv /\ Missed /\ SavedOnce => ConflictsAreReal
  <2> SUFFICES ASSUME StoreInv, SavedOnce, NEW c \in Clients, Overtaken(c), copy[c].id \in Stored
               PROVE  records[copy[c].id].version > copy[c].rec.version
    BY DEF Missed, ConflictsAreReal, ErrorOf
  <2>1. copy[c].birth \in 1..births[copy[c].id] /\ births[copy[c].id] \in Nat /\ copy[c].id \in Ids
    BY CopyTypes DEF StoreInv, TypeOK, Versions, Overtaken
  <2> QED BY <2>1 DEF SavedOnce, Overtaken
<1> QED BY <1>1, <1>2, NextMissed, StoreInvariant, PTL DEF Spec

---------------------------------------------------------------------------
(* The contract, step by step.                                             *)

\* The contract sees the same records as the store.
LEMMA ContractSees ==
    ASSUME TypeOK
    PROVE  /\ Contract!Stored = Stored
           /\ \A status : Contract!InStatus(status) = InStatus(status)
<1>1. Contract!Stored = Stored
  BY JobsLemma DEF Contract!Stored, Stored, TypeOK
<1> QED BY <1>1, JobsLemma DEF Contract!InStatus, InStatus, TypeOK

\* Whatever the server does for a client is what the contract says.
LEMMA ServingImplements ==
    ASSUME StoreInv, SavedOnce, SavedOnce', Serving
    PROVE  Contract!Serve
<1> USE DEF StoreInv, TypeOK
<1>1. ASSUME NEW id \in Ids, Saving(id) PROVE Contract!Serve
  <2>1. \E status \in Statuses, created \in Times : Contract!Save(id, status, created)
    BY <1>1, SavingContract DEF Contract!Save
  <2> QED BY <2>1 DEF Contract!Serve, Contract!Statuses, Statuses
<1>2. ASSUME NEW id \in Ids, Deleting(id), Orderly PROVE Contract!Serve
  <2>1. Contract!Delete(id)
    BY <1>2, DeletingContract, ContractSees DEF Contract!Delete
  <2> QED BY <2>1 DEF Contract!Serve
<1>3. ASSUME NEW c \in Clients, NEW id \in Ids, Reading(c, id) PROVE Contract!Serve
  <2>1. Contract!Read(c, id)
    BY <1>3, ReadingContract, ContractSees DEF Contract!Read, Contract!Holds, Reading
  <2> QED BY <2>1 DEF Contract!Serve
<1>4. ASSUME NEW c \in Clients, NEW id \in Ids, Claiming(c, id), Oldest(id), Orderly
      PROVE  Contract!Serve
  <2>1. id \in Contract!InStatus("pending")
    BY <1>4, ContractSees DEF Claiming
  <2>2. \A other \in Contract!InStatus("pending") : Jobs[id].created <= Jobs[other].created
    BY <1>4, ContractSees, JobsLemma DEF Claiming, Oldest, InStatus
  <2>3. \/ Current' = [Contract!Holds(c, id) EXCEPT ![id] = {c}]
        \/ Current' = [Current EXCEPT ![id] = {}]
    <3>1. [i \in Ids |-> IF i = id THEN {c} ELSE Current[i] \ {c}]
              = [Contract!Holds(c, id) EXCEPT ![id] = {c}]
      BY DEF Contract!Holds
    <3> QED BY <1>4, <3>1, ClaimingContract
  <2>4. Contract!Claim(c, id)
    BY <1>4, <2>1, <2>2, <2>3, ClaimingContract DEF Contract!Claim
  <2> QED BY <2>4 DEF Contract!Serve
<1>5. ASSUME NEW c \in Clients, Updating(c), Orderly PROVE Contract!Serve
  <2> DEFINE id == copy[c].id
  <2>1. id \in Ids /\ \E status \in Statuses : Contract!Update(c, id, status)
    BY <1>5, UpdatingContract DEF Contract!Update
  <2> QED BY <2>1 DEF Contract!Serve, Contract!Statuses, Statuses
<1>6. ASSUME NEW stale \in SUBSET Ids, Requeuing(stale), Orderly PROVE Contract!Serve
  <2>1. stale \in SUBSET Contract!InStatus("running")
    BY <1>6, ContractSees DEF Requeuing
  <2>2. Contract!Requeue(stale)
    BY <1>6, <2>1, RequeuingContract DEF Contract!Requeue
  <2> QED BY <2>1, <2>2 DEF Contract!Serve
<1>7. Orderly \/ \E id \in Ids : Saving(id)
  BY OrderlySteps DEF StoreStep
<1> QED BY <1>1, <1>2, <1>3, <1>4, <1>5, <1>6, <1>7 DEF Serving

\* Every step of the store is one of the contract, or none that it sees.
LEMMA NextImplements ==
    StoreInv /\ SavedOnce /\ SavedOnce' /\ [Next]_vars => [Contract!Next]_(Contract!vars)
<1> SUFFICES ASSUME StoreInv, SavedOnce, SavedOnce', [Next]_vars
             PROVE  [Contract!Next]_(Contract!vars)
  OBVIOUS
<1> USE DEF StoreInv, TypeOK
<1>1. CASE Serving
  BY <1>1, ServingImplements DEF Contract!Next
<1>2. ASSUME NEW c \in Clients, Discard(c) PROVE Contract!Next
  <2>1. Contract!Forget(c)
    BY <1>2, DiscardContract DEF Contract!Forget
  <2> QED BY <2>1 DEF Contract!Next
<1>3. CASE TimePasses
  BY <1>3, TimePassesContract DEF Contract!vars
<1>4. CASE UNCHANGED storeVars
  <2>1. Jobs' = Jobs /\ Current' = Current
    BY <1>4 DEF storeVars, Jobs, Current, MayUpdate, Stored
  <2> QED BY <2>1 DEF Contract!vars
<1> QED BY <1>1, <1>2, <1>3, <1>4, StepKinds

\* As long as no ID is used twice, the store of separate statements and lost
\* replies is the one of the contract: one document at a time is enough.
THEOREM MongoImplementsJobStore == Spec /\ []SavedOnce => ImplementsJobStore
<1>1. Init => Contract!Init
  BY DEF Init, InitRecords, Contract!Init, Jobs, Current, Stored, MayUpdate
<1> QED BY <1>1, NextImplements, StoreInvariant, PTL DEF Spec, ImplementsJobStore, Contract!Spec
===========================================================================
