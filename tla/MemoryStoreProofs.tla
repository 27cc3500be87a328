------------------------- MODULE MemoryStoreProofs -------------------------
(* Theorems about MemoryStore, for every value of its constants.           *)
EXTENDS MemoryStore, StoreProofs

\* What Claim, Update and RequeueStale make of a record.
LEMMA WrittenLemma ==
    ASSUME NEW rec \in Record
    PROVE  /\ Written(rec) \in Record
           /\ Written(rec).version = rec.version + 1
           /\ Written(rec).status = rec.status
           /\ Written(rec).created = rec.created
           /\ Written(rec).attempts = rec.attempts
BY DEF Written, Record

LEMMA AsClaimedLemma ==
    ASSUME NEW rec \in Record
    PROVE  AsClaimed(rec) \in Record /\ Claimed(AsClaimed(rec), rec)
<1> DEFINE marked == [rec EXCEPT !.status = "running", !.started = 0, !.attempts = @ + 1]
<1>1. /\ marked \in Record
      /\ marked.status = "running"
      /\ marked.version = rec.version
      /\ marked.created = rec.created
      /\ marked.attempts = rec.attempts + 1
  <2>1. "running" \in Statuses /\ 0 \in Ages
    BY AgeAssumption DEF Statuses, Ages
  <2>2. rec.attempts \in Nat /\ rec.attempts + 1 \in Nat
    BY DEF Record
  <2> QED BY <2>1, <2>2 DEF Record
<1> HIDE DEF marked
<1>2. Written(marked) \in Record /\ Claimed(Written(marked), rec)
  BY <1>1, WrittenLemma DEF Claimed
<1> QED BY <1>2 DEF AsClaimed, marked

LEMMA RequeuedLemma ==
    ASSUME NEW rec \in Record
    PROVE  Requeued(rec) \in Record /\ GivenBack(Requeued(rec), rec)
<1> DEFINE free == [rec EXCEPT !.status = "pending", !.started = Nil]
<1>1. /\ free \in Record
      /\ free.status = "pending"
      /\ free.version = rec.version
      /\ free.created = rec.created
      /\ free.attempts = rec.attempts
  BY DEF Record, Statuses, Ages
<1> HIDE DEF free
<1>2. Written(free) \in Record /\ GivenBack(Written(free), rec)
  BY <1>1, WrittenLemma DEF GivenBack, Successor
<1> QED BY <1>2 DEF Requeued, free

\* The steps of the store and its clients are those of StoreProofs.
LEMMA StepKinds ==
    ASSUME TypeOK, [Next]_vars
    PROVE  \/ ~closed /\ closed' = closed /\ Serving
           \/ closed' = closed /\ \E c \in Clients : Discard(c)
           \/ Close
           \/ closed' = closed /\ TimePasses
           \/ UNCHANGED vars
<1> USE DEF TypeOK
<1>1. ASSUME NEW id \in Ids, NEW new \in NewRecords, Save(id, new) PROVE Saving(id)
  <2>1. /\ AsStored(new) \in Record
        /\ AsStored(new).attempts = new.attempts
    <3>1. new \in [status : Statuses \cup {""}, version : Nat, created : Times,
                   started : Ages, attempts : Nat]
      BY RecordAssumption
    <3>2. /\ (IF new.status = "" THEN "pending" ELSE new.status) \in Statuses
          /\ (IF new.version = 0 THEN 1 ELSE new.version) \in Nat
      BY <3>1 DEF Statuses
    <3> QED BY <3>1, <3>2 DEF AsStored, Record
  <2> QED BY <1>1, <2>1 DEF Save, Saving
<1>2. ASSUME NEW id \in Ids, Delete(id) PROVE Deleting(id)
  BY <1>2 DEF Delete, Deleting
<1>3. ASSUME NEW c \in Clients, NEW id \in Ids, Get(c, id) PROVE Reading(c, id)
  BY <1>3 DEF Get, Reading
<1>4. ASSUME NEW c \in Clients, NEW filter, NEW limit, List(c, filter, limit)
      PROVE  \E id \in Ids : Reading(c, id)
  BY <1>4 DEF List, Listing, Matching, Reading, Stored
<1>5. ASSUME NEW c \in Clients, NEW id \in Ids, Claim(c, id)
      PROVE  Claiming(c, id) /\ Oldest(id)
  <2>1. records[id] \in Record
    BY <1>5, CopyTypes DEF Claim, Claimable, InStatus
  <2>2. /\ AsClaimed(records[id]) \in Record
        /\ Claimed(AsClaimed(records[id]), records[id])
    BY <2>1, AsClaimedLemma
  <2>3. records' = [records EXCEPT ![id] = AsClaimed(records[id])]
    BY <1>5 DEF Claim, RecordsOK
  <2>4. Oldest(id)
    <3>1. \A other \in InStatus("pending") : records[other].created \in Int
      BY CopyTypes, OrderAssumption DEF InStatus, Record
    <3>2. ASSUME NEW other \in InStatus("pending") PROVE records[id].created <= records[other].created
      BY <1>5, <3>1 DEF Claim, Claimable, Older
    <3> QED BY <3>2 DEF Oldest
  <2> QED BY <1>5, <2>2, <2>3, <2>4 DEF Claim, Claimable, Claiming
<1>6. ASSUME NEW c \in Clients, NEW edit \in Edits, Update(c, edit) PROVE Updating(c)
  <2>1. copy[c].rec \in Record /\ MayUpdate(c)
    BY <1>6, CopyTypes DEF Update, HasCopy, VersionMatches, MayUpdate
  <2> DEFINE rec == copy[c].rec
             new == Written(Edited(rec, edit))
  <2>2. edit \in [status : Statuses, started : {"kept", "cleared", "renewed"}]
    BY RecordAssumption
  <2>3. new \in Record /\ Successor(new, rec) /\ new.created = rec.created
    BY <2>1, <2>2, EditedLemma, WrittenLemma DEF Successor
  <2> QED BY <1>6, <2>1, <2>3 DEF Update, Updating
<1>7. ASSUME NEW lease \in Leases, RequeueStale(lease)
      PROVE  \E stale \in SUBSET Ids : Requeuing(stale)
  <2> DEFINE stale == {id \in Stored : Stale(id, lease)}
  <2>1. \A id \in stale : /\ records[id] \in Record
                          /\ Requeued(records[id]) \in Record
                          /\ GivenBack(Requeued(records[id]), records[id])
    BY CopyTypes, RequeuedLemma
  <2>2. \A id \in Ids : records'[id] = IF id \in stale THEN Requeued(records[id]) ELSE records[id]
    BY <1>7 DEF RequeueStale
  <2>3. records' \in [Ids -> Record \cup {NoRecord}]
    <3>1. \A id \in Ids : records'[id] \in Record \cup {NoRecord}
      BY <2>1, <2>2 DEF RecordsOK
    <3> QED BY <1>7, <3>1 DEF RequeueStale
  <2>4. stale \subseteq InStatus("running")
    BY DEF Stale, InStatus
  <2> QED BY <1>7, <2>1, <2>2, <2>3, <2>4 DEF RequeueStale, Requeuing, Stored
<1>8. ASSUME Next, closed
      PROVE  Close \/ (\E c \in Clients : Forget(c)) \/ Tick
  BY <1>8 DEF Next, Save, Delete, Get, List, Claim, Update, RequeueStale
<1>9. ASSUME Next, ~closed
      PROVE  Close \/ (\E c \in Clients : Forget(c)) \/ Tick \/ (closed' = closed /\ Serving)
  <2>1. ASSUME NEW id \in Ids, (\E new \in NewRecords : Save(id, new)) \/ Delete(id)
        PROVE  closed' = closed /\ Serving
    <3>1. Serving
      BY <2>1, <1>1, <1>2 DEF Serving
    <3> QED BY <2>1, <3>1 DEF Save, Delete
  <2>2. ASSUME NEW c \in Clients, NEW id \in Ids, Get(c, id) \/ Claim(c, id)
        PROVE  closed' = closed /\ Serving
    <3>1. Serving
      BY <2>2, <1>3, <1>5 DEF Serving
    <3> QED BY <2>2, <3>1 DEF Get, Claim
  <2>3. ASSUME NEW c \in Clients, NEW edit \in Edits, Update(c, edit)
        PROVE  closed' = closed /\ Serving
    <3>1. Serving
      BY <2>3, <1>6 DEF Serving
    <3> QED BY <2>3, <3>1 DEF Update
  <2>4. ASSUME NEW c \in Clients, NEW filter, NEW limit, List(c, filter, limit)
        PROVE  closed' = closed /\ Serving
    <3>1. Serving
      BY <2>4, <1>4 DEF Serving
    <3> QED BY <2>4, <3>1 DEF List
  <2>5. ASSUME NEW lease \in Leases, RequeueStale(lease)
        PROVE  closed' = closed /\ Serving
    <3>1. Serving
      BY <2>5, <1>7 DEF Serving
    <3> QED BY <2>5, <3>1 DEF RequeueStale
  <2> QED BY <1>9, <2>1, <2>2, <2>3, <2>4, <2>5 DEF Next
<1> QED
  BY <1>8, <1>9 DEF Forget, Tick

LEMMA NextIsStoreStep == TypeOK /\ [Next]_vars => StoreStep
BY StepKinds DEF StoreStep, Close, vars, storeVars

StoreInv == TypeOK /\ Versions /\ Claimants

LEMMA InitStoreInv == Init => StoreInv
<1> SUFFICES ASSUME Init PROVE StoreInv
  OBVIOUS
<1>1. TypeOK
  BY DEF Init, InitRecords, TypeOK, RecordsOK
<1>2. Stored = {} /\ \A c \in Clients : copy[c] = NoRecord
  BY DEF Init, InitRecords, Stored
<1> QED BY <1>1, <1>2 DEF StoreInv, Versions, VersionIdentifiesContent, Claimants, Latest, MayUpdate

LEMMA NextStoreInv == StoreInv /\ [Next]_vars => StoreInv'
<1> SUFFICES ASSUME StoreInv, [Next]_vars PROVE StoreInv'
  OBVIOUS
<1>1. closed' \in BOOLEAN
  BY DEF StoreInv, TypeOK, Next, vars, Save, Delete, Get, Claim, Update, List, Forget, RequeueStale,
     Close, Tick
<1> QED BY <1>1, NextIsStoreStep, StepRecordsOK, StepVersions, StepClaimants DEF StoreInv, TypeOK

\* The invariant of the store: types, versions and claimants.
THEOREM StoreInvariant == Spec => []StoreInv
BY InitStoreInv, NextStoreInv, PTL DEF Spec

\* The store, its records and the copies of its clients keep their types.
THEOREM MemoryTypeCorrect == Spec => []TypeOK
<1>1. StoreInv => TypeOK
  BY DEF StoreInv
<1> QED BY <1>1, StoreInvariant, PTL

\* Whoever passes the version check of Update holds what is stored, for any
\* number of clients, jobs and writes.
THEOREM MemoryVersions == Spec => []VersionIdentifiesContent
<1>1. StoreInv => VersionIdentifiesContent
  BY DEF StoreInv, Versions
<1> QED BY <1>1, StoreInvariant, PTL

\* Where the bound allows one Save of each ID, none is used twice.
THEOREM MemorySavedOnce ==
    ASSUME MaxSaves = 1
    PROVE  Spec => []SavedOnce
<1>1. Init => SavedOnce
  BY DEF Init, InitRecords, SavedOnce
<1>2. StoreInv /\ SavedOnce /\ [Next]_vars => SavedOnce'
  <2> SUFFICES ASSUME RecordsOK, SavedOnce, [Next]_vars, NEW id \in Ids PROVE births'[id] <= 1
    BY DEF StoreInv, TypeOK, SavedOnce
  <2>1. ASSUME NEW i \in Ids, NEW new \in NewRecords, Save(i, new) PROVE births'[id] <= 1
    BY <2>1 DEF Save, RecordsOK, SavedOnce
  <2>2. ASSUME births' = births PROVE births'[id] <= 1
    BY <2>2 DEF SavedOnce
  <2> QED BY <2>1, <2>2 DEF Next, vars, storeVars, Delete, Get, Claim, Update, List, Forget, RequeueStale,
       Close, Tick, Discard, TimePasses
<1> QED BY <1>1, <1>2, StoreInvariant, PTL DEF Spec

\* As long as no ID is used twice, at most one of the clients that claimed a
\* job can report on it, and only while it is running.
THEOREM MemoryOneClaimant == Spec /\ []SavedOnce => []OneClaimant
<1>1. StoreInv /\ SavedOnce => OneClaimant
  BY SavedOnceOneClaimant DEF StoreInv, TypeOK
<1> QED BY <1>1, StoreInvariant, PTL

\* Attempts is the number of claims, if new records have none and no ID is
\* used twice.
THEOREM MemoryAttempts ==
    ASSUME \A new \in NewRecords : new.attempts = 0
    PROVE  Spec /\ []SavedOnce => []AttemptsCountClaims
<1>1. Init => AttemptsCountClaims
  BY DEF Init, InitRecords, AttemptsCountClaims, Stored
<1>2. StoreInv /\ SavedOnce /\ AttemptsCountClaims /\ [Next]_vars => AttemptsCountClaims'
  BY NextIsStoreStep, StepAttempts DEF StoreInv, TypeOK
<1> QED BY <1>1, <1>2, StoreInvariant, PTL DEF Spec

\* As long as no ID is used twice, a finished job changes its status only by a
\* client that has seen it finished.
THEOREM MemoryFinishedStay == Spec /\ []SavedOnce => FinishedJobsStayFinished
<1> DEFINE Kept ==
        \A id \in InStatus("succeeded") \cup InStatus("failed") :
            \/ records'[id] = NoRecord
            \/ records'[id].status = records[id].status
            \/ \E c \in Clients :
                MayUpdate(c) /\ copy[c].id = id /\ copy[c].rec.status = records[id].status
<1>1. StoreInv /\ SavedOnce /\ [Next]_vars => [Kept]_storeVars
  BY NextIsStoreStep, StepKeepsFinished DEF StoreInv, TypeOK
<1> QED BY <1>1, StoreInvariant, PTL DEF Spec, FinishedJobsStayFinished
\* A set of records of which fewer than one is in it.
LEMMA NoneBefore ==
    ASSUME NEW S \in SUBSET Ids
    PROVE  Cardinality(S) < 1 <=> S = {}
<1>1. IsFiniteSet(S) /\ Cardinality(S) \in Nat
  BY OrderAssumption, FS_Subset, FS_CardinalityType
<1> QED BY <1>1, FS_EmptySet

\* Claim and List agree on the oldest pending record: what Claim takes is what a
\* List of the pending jobs, limited to one, returns.
THEOREM MemoryClaimsHead == Spec => ClaimTakesHeadOfList
<1> DEFINE Agree == \A c \in Clients, id \in Ids : Claim(c, id) => Listing({"pending"}, 1) = {id}
<1>1. ASSUME TypeOK, NEW c \in Clients, NEW id \in Ids, Claim(c, id)
      PROVE  Listing({"pending"}, 1) = {id}
  <2> DEFINE Before(i) == {j \in Matching({"pending"}) : ListedBefore(j, i)}
  <2>1. Matching({"pending"}) = Claimable
    BY DEF Matching, Claimable, InStatus
  <2>2. \A i \in Claimable : i \in Ids /\ i \in Int /\ records[i].created \in Int
    BY <1>1, CopyTypes, OrderAssumption DEF TypeOK, Claimable, InStatus, Stored, Record
  <2>3. id \in Claimable /\ \A other \in Claimable \ {id} : Older(id, other)
    BY <1>1 DEF Claim
  <2>4. Before(id) = {}
    BY <2>1, <2>2, <2>3 DEF ListedBefore, Older
  <2>5. ASSUME NEW other \in Claimable, other # id PROVE id \in Before(other)
    BY <2>1, <2>2, <2>3, <2>5 DEF ListedBefore, Older
  <2>6. \A i \in Claimable : Cardinality(Before(i)) < 1 <=> Before(i) = {}
    <3>1. \A i \in Claimable : Before(i) \in SUBSET Ids
      BY <2>1, <2>2
    <3> QED BY <3>1, NoneBefore
  <2>7. Listing({"pending"}, 1) = {i \in Claimable : Cardinality(Before(i)) < 1}
    BY <2>1 DEF Listing
  <2> HIDE DEF Before
  <2> QED BY <2>3, <2>4, <2>5, <2>6, <2>7
<1>2. TypeOK /\ [Next]_vars => [Agree]_vars
  BY <1>1
<1> QED BY <1>2, MemoryTypeCorrect, PTL DEF Spec, ClaimTakesHeadOfList

---------------------------------------------------------------------------
(* The contract, step by step.                                             *)

\* The contract sees the same records as the store.
LEMMA ContractSees ==
    ASSUME TypeOK
    PROVE  /\ Contract!Stored = Stored
           /\ \A status : Contract!InStatus(status) = InStatus(status)
<1>1. Contract!Stored = Stored
  BY JobsLemma DEF Contract!Stored, Stored, TypeOK
<1> QED BY <1>1, JobsLemma DEF Contract!InStatus, InStatus, TypeOK

\* Whatever the store does for a client is what the contract says.
LEMMA ServingImplements ==
    ASSUME StoreInv, SavedOnce, SavedOnce', closed' = closed, Serving
    PROVE  Contract!Serve
<1> USE DEF StoreInv, TypeOK
<1>1. ASSUME NEW id \in Ids, Saving(id) PROVE Contract!Serve
  <2>1. \E status \in Statuses, created \in Times : Contract!Save(id, status, created)
    BY <1>1, SavingContract DEF Contract!Save
  <2> QED BY <2>1 DEF Contract!Serve, Contract!Statuses, Statuses
<1>2. ASSUME NEW id \in Ids, Deleting(id), Orderly PROVE Contract!Serve
  <2>1. Contract!Delete(id)
    BY <1>2, DeletingContract, ContractSees DEF Contract!Delete
  <2> QED BY <2>1 DEF Contract!Serve
<1>3. ASSUME NEW c \in Clients, NEW id \in Ids, Reading(c, id) PROVE Contract!Serve
  <2>1. Contract!Read(c, id)
    BY <1>3, ReadingContract, ContractSees DEF Contract!Read, Contract!Holds, Reading
  <2> QED BY <2>1 DEF Contract!Serve
<1>4. ASSUME NEW c \in Clients, NEW id \in Ids, Claiming(c, id), Oldest(id), Orderly
      PROVE  Contract!Serve
  <2>1. id \in Contract!InStatus("pending")
    BY <1>4, ContractSees DEF Claiming
  <2>2. \A other \in Contract!InStatus("pending") : Jobs[id].created <= Jobs[other].created
    BY <1>4, ContractSees, JobsLemma DEF Claiming, Oldest, InStatus
  <2>3. \/ Current' = [Contract!Holds(c, id) EXCEPT ![id] = {c}]
        \/ Current' = [Current EXCEPT ![id] = {}]
    <3>1. [i \in Ids |-> IF i = id THEN {c} ELSE Current[i] \ {c}]
              = [Contract!Holds(c, id) EXCEPT ![id] = {c}]
      BY DEF Contract!Holds
    <3> QED BY <1>4, <3>1, ClaimingContract
  <2>4. Contract!Claim(c, id)
    BY <1>4, <2>1, <2>2, <2>3, ClaimingContract DEF Contract!Claim
  <2> QED BY <2>4 DEF Contract!Serve
<1>5. ASSUME NEW c \in Clients, Updating(c), Orderly PROVE Contract!Serve
  <2> DEFINE id == copy[c].id
  <2>1. id \in Ids /\ \E status \in Statuses : Contract!Update(c, id, status)
    BY <1>5, UpdatingContract DEF Contract!Update
  <2> QED BY <2>1 DEF Contract!Serve, Contract!Statuses, Statuses
<1>6. ASSUME NEW stale \in SUBSET Ids, Requeuing(stale), Orderly PROVE Contract!Serve
  <2>1. stale \in SUBSET Contract!InStatus("running")
    BY <1>6, ContractSees DEF Requeuing
  <2>2. Contract!Requeue(stale)
    BY <1>6, <2>1, RequeuingContract DEF Contract!Requeue
  <2> QED BY <2>1, <2>2 DEF Contract!Serve
<1>7. Orderly \/ \E id \in Ids : Saving(id)
  BY OrderlySteps DEF StoreStep
<1> QED BY <1>1, <1>2, <1>3, <1>4, <1>5, <1>6, <1>7 DEF Serving

\* Every step of the store is one of the contract, or none that it sees.
LEMMA NextImplements ==
    StoreInv /\ SavedOnce /\ SavedOnce' /\ [Next]_vars => [Contract!Next]_(Contract!vars)
<1> SUFFICES ASSUME StoreInv, SavedOnce, SavedOnce', [Next]_vars
             PROVE  [Contract!Next]_(Contract!vars)
  OBVIOUS
<1> USE DEF StoreInv, TypeOK
<1>1. CASE ~closed /\ closed' = closed /\ Serving
  BY <1>1, ServingImplements DEF Contract!Next
<1>2. ASSUME NEW c \in Clients, Discard(c), closed' = closed PROVE Contract!Next
  <2>1. Contract!Forget(c)
    BY <1>2, DiscardContract DEF Contract!Forget
  <2> QED BY <2>1 DEF Contract!Next
<1>3. CASE Close
  <2>1. Jobs' = Jobs /\ Current' = Current
    BY <1>3 DEF Close, Jobs, Current, MayUpdate, Stored
  <2> QED BY <1>3, <2>1 DEF Close, Contract!Next, Contract!Close
<1>4. CASE closed' = closed /\ TimePasses
  BY <1>4, TimePassesContract DEF Contract!vars
<1>5. CASE UNCHANGED vars
  <2>1. Jobs' = Jobs /\ Current' = Current
    BY <1>5 DEF vars, storeVars, Jobs, Current, MayUpdate, Stored
  <2> QED BY <1>5, <2>1 DEF vars, Contract!vars
<1> QED BY <1>1, <1>2, <1>3, <1>4, <1>5, StepKinds

\* As long as no ID is used twice, comparing versions tells the clients that
\* have seen every write from the others: the store is the one of the contract,
\* which knows its clients.
THEOREM MemoryImplementsJobStore == Spec /\ []SavedOnce => ImplementsJobStore
<1>1. Init => Contract!Init
  BY DEF Init, InitRecords, Contract!Init, Jobs, Current, Stored, MayUpdate
<1> QED BY <1>1, NextImplements, StoreInvariant, PTL DEF Spec, ImplementsJobStore, Contract!Spec
===========================================================================
