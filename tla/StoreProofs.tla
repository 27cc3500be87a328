---------------------------- MODULE StoreProofs ----------------------------
(* What holds of any store whose steps change the shared variables in the  *)
(* ways listed here, for every value of the constants.  MemoryStoreProofs  *)
(* and MongoStoreProofs show that the steps of their stores do.            *)
EXTENDS StoreClients, FiniteSetTheorems, TLAPS

Saving(id) ==
    /\ id \notin Stored
    /\ \E rec \in Record, new \in NewRecords :
        /\ rec.attempts = new.attempts
        /\ records' = [records EXCEPT ![id] = rec]
    /\ births' = [births EXCEPT ![id] = @ + 1]
    /\ claims' = [claims EXCEPT ![id] = 0]
    /\ UNCHANGED copy

Reading(c, id) ==
    /\ id \in Stored
    /\ Hand(c, id, records[id], FALSE)
    /\ UNCHANGED <<records, births, claims>>

Claimed(rec, old) ==
    /\ rec.version = old.version + 1
    /\ rec.status = "running"
    /\ rec.attempts = old.attempts + 1
    /\ rec.created = old.created

\* The claimant may not hear of it.
Claiming(c, id) ==
    /\ id \in InStatus("pending")
    /\ \E rec \in Record :
        /\ Claimed(rec, records[id])
        /\ records' = [records EXCEPT ![id] = rec]
        /\ Hand(c, id, rec, TRUE) \/ UNCHANGED copy
    /\ claims' = [claims EXCEPT ![id] = @ + 1]
    /\ UNCHANGED births

\* Whatever the caller sets, it cannot set these fields.
Successor(rec, old) ==
    /\ rec.version = old.version + 1
    /\ rec.attempts = old.attempts

Updating(c) ==
    /\ MayUpdate(c)
    /\ \E rec \in Record :
        /\ Successor(rec, copy[c].rec)
        /\ rec.created \in {copy[c].rec.created, records[copy[c].id].created}
        /\ records' = [records EXCEPT ![copy[c].id] = rec]
    /\ UNCHANGED <<copy, births, claims>>

Deleting(id) ==
    /\ id \in Stored
    /\ records' = [records EXCEPT ![id] = NoRecord]
    /\ UNCHANGED <<copy, births, claims>>

GivenBack(rec, old) ==
    /\ Successor(rec, old)
    /\ rec.status = "pending"
    /\ rec.created = old.created

Requeuing(stale) ==
    /\ stale \subseteq InStatus("running")
    /\ records' \in [Ids -> Record \cup {NoRecord}]
    /\ \A id \in Ids :
        IF id \in stale
        THEN records'[id] \in Record /\ GivenBack(records'[id], records[id])
        ELSE records'[id] = records[id]
    /\ UNCHANGED <<copy, births, claims>>

\* Nobody that waits is older.
Oldest(id) == \A other \in InStatus("pending") : records[id].created <= records[other].created

\* What a store does for its clients.
Serving ==
    \/ \E id \in Ids : Saving(id) \/ Deleting(id)
    \/ \E c \in Clients :
        \/ \E id \in Ids : Reading(c, id) \/ (Claiming(c, id) /\ Oldest(id))
        \/ Updating(c)
    \/ \E stale \in SUBSET Ids : Requeuing(stale)

StoreStep ==
    \/ Serving
    \/ \E c \in Clients : Discard(c)
    \/ TimePasses
    \/ UNCHANGED storeVars

---------------------------------------------------------------------------
(* Types.                                                                  *)

\* A record that gets older changes in nothing else.
LEMMA AgedLemma ==
    ASSUME NEW rec \in Record
    PROVE  /\ Aged(rec) \in Record
           /\ Aged(rec).status = rec.status
           /\ Aged(rec).version = rec.version
           /\ Aged(rec).created = rec.created
           /\ Aged(rec).attempts = rec.attempts
<1>1. CASE rec.started \in 0..MaxAge-1
  <2>1. Aged(rec) = [rec EXCEPT !.started = @ + 1]
    BY <1>1 DEF Aged
  <2>2. rec.started + 1 \in Ages
    BY <1>1, AgeAssumption DEF Ages
  <2> QED BY <2>1, <2>2 DEF Record
<1>2. CASE rec.started \notin 0..MaxAge-1
  BY <1>2 DEF Aged
<1> QED BY <1>1, <1>2

\* A caller's edit sets the status and the start.
LEMMA EditedLemma ==
    ASSUME NEW rec \in Record,
           NEW edit \in [status : Statuses, started : {"kept", "cleared", "renewed"}]
    PROVE  /\ Edited(rec, edit) \in Record
           /\ Edited(rec, edit).version = rec.version
           /\ Edited(rec, edit).created = rec.created
           /\ Edited(rec, edit).attempts = rec.attempts
<1> DEFINE age == CASE edit.started = "kept" -> rec.started
                    [] edit.started = "cleared" -> Nil
                    [] edit.started = "renewed" -> 0
<1>1. age \in Ages
  BY AgeAssumption DEF Record, Ages
<1> HIDE DEF age
<1>2. Edited(rec, edit) = [rec EXCEPT !.status = edit.status, !.started = age]
  BY DEF Edited, age
<1> QED BY <1>1, <1>2 DEF Record

\* As time passes, records and copies get older and nothing else happens.
LEMMA TimePassesLemma ==
    ASSUME RecordsOK, TimePasses
    PROVE  /\ RecordsOK'
           /\ \A id \in Ids : id \in Stored' <=> id \in Stored
           /\ \A id \in Stored : records[id] \in Record /\ records'[id] = Aged(records[id])
           /\ \A c \in Clients : copy'[c] = NoRecord <=> copy[c] = NoRecord
           /\ \A c \in Clients : copy[c] # NoRecord =>
                /\ copy[c].rec \in Record
                /\ copy'[c].id = copy[c].id
                /\ copy'[c].birth = copy[c].birth
                /\ copy'[c].claimed = copy[c].claimed
                /\ copy'[c].rec = Aged(copy[c].rec)
           /\ UNCHANGED <<births, claims>>
<1>1. \A id \in Stored : records[id] \in Record
  BY DEF RecordsOK, Stored
<1>2. \A id \in Ids : records'[id] = IF id \in Stored THEN Aged(records[id]) ELSE NoRecord
  BY DEF TimePasses
<1>3. \A id \in Ids : id \in Stored' <=> id \in Stored
  <2>1. ASSUME NEW id \in Stored PROVE records'[id] \in Record /\ records'[id] # NoRecord
    <3>1. id \in Ids /\ records'[id] = Aged(records[id])
      BY <1>2 DEF Stored
    <3>2. Aged(records[id]) \in Record
      BY <1>1, AgedLemma
    <3> QED BY <3>1, <3>2, RecordAssumption
  <2> QED BY <1>2, <2>1 DEF Stored
<1>4. \A c \in Clients : copy[c] # NoRecord =>
        /\ copy[c] \in Copy
        /\ copy[c].rec \in Record
        /\ copy'[c] = [copy[c] EXCEPT !.rec = Aged(@)]
  BY DEF RecordsOK, TimePasses, Copy
<1>5. \A c \in Clients : copy[c] # NoRecord =>
        /\ copy'[c] \in Copy
        /\ copy'[c] # NoRecord
        /\ copy'[c].id = copy[c].id
        /\ copy'[c].birth = copy[c].birth
        /\ copy'[c].claimed = copy[c].claimed
        /\ copy'[c].rec = Aged(copy[c].rec)
  <2> SUFFICES ASSUME NEW c \in Clients, copy[c] # NoRecord
               PROVE  /\ copy'[c] \in Copy
                      /\ copy'[c] # NoRecord
                      /\ copy'[c].id = copy[c].id
                      /\ copy'[c].birth = copy[c].birth
                      /\ copy'[c].claimed = copy[c].claimed
                      /\ copy'[c].rec = Aged(copy[c].rec)
    OBVIOUS
  <2>1. Aged(copy[c].rec) \in Record
    BY <1>4, AgedLemma
  <2>2. copy[c] \in Copy /\ copy'[c] = [copy[c] EXCEPT !.rec = Aged(@)]
    BY <1>4
  <2> DEFINE old == copy[c]
             rec == Aged(copy[c].rec)
  <2> HIDE DEF old, rec
  <2>3. old \in Copy /\ rec \in Record /\ copy'[c] = [old EXCEPT !.rec = rec]
    BY <2>1, <2>2 DEF old, rec
  <2>4. /\ copy'[c] \in Copy
        /\ copy'[c].id = old.id
        /\ copy'[c].birth = old.birth
        /\ copy'[c].claimed = old.claimed
        /\ copy'[c].rec = rec
    BY <2>3 DEF Copy
  <2> QED BY <2>4, RecordAssumption DEF old, rec
<1>6. \A c \in Clients : copy[c] = NoRecord => copy'[c] = NoRecord
  BY DEF TimePasses
<1>7. RecordsOK'
  <2>1. records' \in [Ids -> Record \cup {NoRecord}]
    <3>1. \A id \in Ids : records'[id] \in Record \cup {NoRecord}
      BY <1>1, <1>2, AgedLemma
    <3> QED BY <3>1 DEF TimePasses
  <2>2. copy' \in [Clients -> Copy \cup {NoRecord}]
    <3>1. \A c \in Clients : copy'[c] \in Copy \cup {NoRecord}
      BY <1>5, <1>6
    <3> QED BY <3>1 DEF TimePasses
  <2> QED BY <2>1, <2>2 DEF RecordsOK, TimePasses
<1> QED BY <1>1, <1>2, <1>3, <1>4, <1>5, <1>6, <1>7 DEF TimePasses, Stored

\* A client that is handed a record holds a copy of it, and no other copy changes.
LEMMA HandLemma ==
    ASSUME RecordsOK, NEW c \in Clients, NEW id \in Ids, NEW rec \in Record,
           NEW claimed \in BOOLEAN, Hand(c, id, rec, claimed)
    PROVE  /\ copy' \in [Clients -> Copy \cup {NoRecord}]
           /\ copy'[c] # NoRecord
           /\ copy'[c].id = id
           /\ copy'[c].rec = rec
           /\ copy'[c].birth = births[id]
           /\ copy'[c].claimed = claimed
           /\ \A d \in Clients : d # c => copy'[d] = copy[d]
<1>1. [id |-> id, rec |-> rec, birth |-> births[id], claimed |-> claimed] \in Copy
  BY DEF RecordsOK, Copy
<1>2. copy' = [copy EXCEPT ![c] =
                  [id |-> id, rec |-> rec, birth |-> births[id], claimed |-> claimed]]
  BY DEF Hand
<1>3. copy'[c] = [id |-> id, rec |-> rec, birth |-> births[id], claimed |-> claimed]
  BY <1>2 DEF RecordsOK
<1>4. copy' \in [Clients -> Copy \cup {NoRecord}]
  BY <1>1, <1>2 DEF RecordsOK
<1>5. \A d \in Clients : d # c => copy'[d] = copy[d]
  BY <1>2 DEF RecordsOK
<1>6. copy'[c] # NoRecord
  BY <1>1, <1>3, RecordAssumption
<1>7. /\ copy'[c].id = id
      /\ copy'[c].rec = rec
      /\ copy'[c].birth = births[id]
      /\ copy'[c].claimed = claimed
  BY <1>3
<1> QED BY <1>4, <1>5, <1>6, <1>7

\* What a client gets that reads a record.
LEMMA ReadingLemma ==
    ASSUME RecordsOK, NEW c \in Clients, NEW id \in Ids, Reading(c, id)
    PROVE  /\ id \in Stored /\ records[id] \in Record
           /\ UNCHANGED <<records, births, claims>>
           /\ copy' \in [Clients -> Copy \cup {NoRecord}]
           /\ copy'[c] # NoRecord
           /\ copy'[c].id = id
           /\ copy'[c].rec = records[id]
           /\ copy'[c].birth = births[id]
           /\ copy'[c].claimed = FALSE
           /\ \A d \in Clients : d # c => copy'[d] = copy[d]
<1>1. id \in Stored /\ UNCHANGED <<records, births, claims>>
  BY DEF Reading
<1>2. PICK rec \in Record : rec = records[id]
  BY <1>1 DEF Stored, RecordsOK
<1>3. PICK claimed \in BOOLEAN : claimed = FALSE
  OBVIOUS
<1>4. Hand(c, id, rec, claimed)
  BY <1>2, <1>3 DEF Reading
<1>5. /\ copy' \in [Clients -> Copy \cup {NoRecord}]
      /\ copy'[c] # NoRecord
      /\ copy'[c].id = id
      /\ copy'[c].rec = rec
      /\ copy'[c].birth = births[id]
      /\ copy'[c].claimed = claimed
      /\ \A d \in Clients : d # c => copy'[d] = copy[d]
  BY <1>4, HandLemma
<1> QED BY <1>1, <1>2, <1>3, <1>5

\* Every step keeps the types.
LEMMA StepRecordsOK == RecordsOK /\ StoreStep => RecordsOK'
<1> SUFFICES ASSUME RecordsOK, StoreStep PROVE RecordsOK'
  OBVIOUS
<1>1. ASSUME NEW id \in Ids, Saving(id) PROVE RecordsOK'
  <2>1. births' \in [Ids -> Nat]
    BY <1>1 DEF Saving, RecordsOK
  <2> QED BY <1>1, <2>1 DEF Saving, RecordsOK
<1>2. ASSUME NEW id \in Ids, Deleting(id) PROVE RecordsOK'
  BY <1>2 DEF Deleting, RecordsOK
<1>3. ASSUME NEW c \in Clients, NEW id \in Ids, Reading(c, id) PROVE RecordsOK'
  BY <1>3, ReadingLemma DEF RecordsOK
<1>4. ASSUME NEW c \in Clients, NEW id \in Ids, Claiming(c, id) PROVE RecordsOK'
  <2>1. PICK rec \in Record :
            /\ records' = [records EXCEPT ![id] = rec]
            /\ Hand(c, id, rec, TRUE) \/ UNCHANGED copy
    BY <1>4 DEF Claiming
  <2>2. copy' \in [Clients -> Copy \cup {NoRecord}]
    <3>1. CASE UNCHANGED copy
      BY <3>1 DEF RecordsOK
    <3>2. CASE Hand(c, id, rec, TRUE)
      BY <3>2, HandLemma
    <3> QED BY <2>1, <3>1, <3>2
  <2>3. claims' \in [Ids -> Nat]
    BY <1>4 DEF Claiming, RecordsOK
  <2> QED BY <1>4, <2>1, <2>2, <2>3 DEF Claiming, RecordsOK
<1>5. ASSUME NEW c \in Clients, Updating(c) PROVE RecordsOK'
  BY <1>5 DEF Updating, RecordsOK
<1>6. ASSUME NEW c \in Clients, Discard(c) PROVE RecordsOK'
  BY <1>6 DEF Discard, RecordsOK
<1>7. ASSUME NEW stale \in SUBSET Ids, Requeuing(stale) PROVE RecordsOK'
  BY <1>7 DEF Requeuing, RecordsOK
<1>8. CASE TimePasses
  BY <1>8, TimePassesLemma
<1>9. CASE UNCHANGED storeVars
  BY <1>9 DEF storeVars, RecordsOK
<1> QED BY <1>1, <1>2, <1>3, <1>4, <1>5, <1>6, <1>7, <1>8, <1>9 DEF StoreStep, Serving

---------------------------------------------------------------------------
(* Versions.                                                               *)

\* What VersionIdentifiesContent needs to be inductive: of the records that one
\* Save began, no copy is ahead of the store, and births count the Saves.
Versions ==
    /\ \A id \in Stored : births[id] >= 1
    /\ \A c \in Clients : copy[c] # NoRecord => copy[c].birth \in 1..births[copy[c].id]
    /\ \A c \in Clients :
        /\ copy[c] # NoRecord
        /\ copy[c].id \in Stored
        /\ copy[c].birth = births[copy[c].id]
        => copy[c].rec.version <= records[copy[c].id].version
    /\ VersionIdentifiesContent

\* The types of what the copies refer to.
LEMMA CopyTypes ==
    ASSUME RecordsOK
    PROVE  /\ \A id \in Stored : records[id] \in Record /\ records[id].version \in Nat
           /\ \A c \in Clients : copy[c] # NoRecord =>
                /\ copy[c] \in Copy
                /\ copy[c].id \in Ids
                /\ copy[c].rec \in Record
                /\ copy[c].rec.version \in Nat
                /\ copy[c].birth \in Nat
           /\ \A id \in Ids : births[id] \in Nat
BY DEF RecordsOK, Stored, Copy, Record

\* Records are removed or written with the next version, and copies are dropped
\* or taken from the store.
Orderly ==
    /\ RecordsOK'
    /\ births' = births
    /\ \A id \in Ids :
        \/ records'[id] = records[id]
        \/ records'[id] = NoRecord
        \/ id \in Stored /\ records'[id].version = records[id].version + 1
    /\ \A c \in Clients :
        \/ copy'[c] = copy[c]
        \/ copy'[c] = NoRecord
        \/ /\ copy'[c].id \in Stored'
           /\ copy'[c].rec = records'[copy'[c].id]
           /\ copy'[c].birth = births'[copy'[c].id]

\* All steps but Save and the passing of time are of this kind.
LEMMA OrderlySteps ==
    ASSUME RecordsOK, StoreStep
    PROVE  /\ Orderly \/ (\E id \in Ids : Saving(id)) \/ TimePasses
           /\ Serving => Orderly \/ \E id \in Ids : Saving(id)
<1> USE StepRecordsOK
<1>1. ASSUME NEW id \in Ids, Deleting(id) PROVE Orderly
  BY <1>1 DEF Deleting, Orderly, RecordsOK
<1>2. ASSUME NEW c \in Clients, NEW id \in Ids, Reading(c, id) PROVE Orderly
  BY <1>2, ReadingLemma DEF Orderly, Stored
<1>3. ASSUME NEW c \in Clients, NEW id \in Ids, Claiming(c, id) PROVE Orderly
  <2>1. PICK rec \in Record :
            /\ rec.version = records[id].version + 1
            /\ records' = [records EXCEPT ![id] = rec]
            /\ Hand(c, id, rec, TRUE) \/ UNCHANGED copy
    BY <1>3 DEF Claiming, Claimed
  <2>2. /\ records'[id] = rec
        /\ \A other \in Ids : other # id => records'[other] = records[other]
        /\ id \in Stored /\ id \in Stored' /\ births' = births
    BY <1>3, <2>1, RecordAssumption DEF Claiming, RecordsOK, Stored, InStatus
  <2>3. CASE UNCHANGED copy
    BY <2>1, <2>2, <2>3 DEF Orderly
  <2>4. CASE Hand(c, id, rec, TRUE)
    <3>1. /\ copy'[c].id = id /\ copy'[c].rec = rec /\ copy'[c].birth = births[id]
          /\ \A d \in Clients : d # c => copy'[d] = copy[d]
      BY <2>4, HandLemma
    <3> QED BY <2>1, <2>2, <3>1 DEF Orderly
  <2> QED BY <2>1, <2>3, <2>4
<1>4. ASSUME NEW c \in Clients, Updating(c) PROVE Orderly
  BY <1>4 DEF Updating, Successor, MayUpdate, Orderly, RecordsOK
<1>5. ASSUME NEW c \in Clients, Discard(c) PROVE Orderly
  BY <1>5 DEF Discard, Orderly, RecordsOK
<1>6. ASSUME NEW stale \in SUBSET Ids, Requeuing(stale) PROVE Orderly
  BY <1>6 DEF Requeuing, GivenBack, Successor, InStatus, Orderly
<1>7. CASE UNCHANGED storeVars
  BY <1>7 DEF storeVars, Orderly
<1> QED BY <1>1, <1>2, <1>3, <1>4, <1>5, <1>6, <1>7 DEF StoreStep, Serving

LEMMA OrderlyKeepsVersions ==
    ASSUME RecordsOK, Versions, Orderly
    PROVE  Versions'
<1>1. ASSUME NEW id \in Stored', records'[id] = records[id] \/ id \in Stored
      PROVE  /\ id \in Stored
             /\ records'[id].version >= records[id].version
             /\ records'[id] # records[id] => records'[id].version > records[id].version
  BY <1>1, CopyTypes DEF Stored, Orderly
<1>2. \A id \in Stored' : births'[id] >= 1
  BY <1>1 DEF Versions, Orderly, Stored
<1>3. ASSUME NEW c \in Clients, copy'[c] # NoRecord
      PROVE  copy'[c].birth \in 1..births'[copy'[c].id]
  <2>1. CASE copy'[c] = copy[c]
    BY <1>3, <2>1 DEF Versions, Orderly
  <2>2. CASE copy'[c].id \in Stored' /\ copy'[c].birth = births'[copy'[c].id]
    <3>1. births'[copy'[c].id] \in Nat
      BY <2>2 DEF Orderly, RecordsOK, Stored
    <3> QED BY <1>2, <2>2, <3>1
  <2> QED BY <1>3, <2>1, <2>2 DEF Orderly
<1>4. ASSUME NEW c \in Clients, copy'[c] # NoRecord, copy'[c].id \in Stored',
             copy'[c].birth = births'[copy'[c].id]
      PROVE  /\ copy'[c].rec.version <= records'[copy'[c].id].version
             /\ copy'[c].rec.version = records'[copy'[c].id].version
                    => copy'[c].rec = records'[copy'[c].id]
  <2> DEFINE id == copy'[c].id
  <2>1. records'[id] \in Record /\ records'[id].version \in Nat
    BY <1>4 DEF Orderly, RecordsOK, Stored, Record
  <2>2. CASE copy'[c].rec = records'[id]
    BY <2>1, <2>2
  <2>3. CASE copy'[c] = copy[c]
    <3>1. /\ id \in Stored
          /\ records'[id].version >= records[id].version
          /\ records'[id] # records[id] => records'[id].version > records[id].version
      BY <1>1, <1>4 DEF Orderly, Stored
    <3>2. /\ copy[c].rec.version <= records[id].version
          /\ copy[c].rec.version = records[id].version => copy[c].rec = records[id]
      BY <1>4, <2>3, <3>1 DEF Versions, VersionIdentifiesContent, MayUpdate, Orderly
    <3>3. copy[c].rec.version \in Nat /\ records[id].version \in Nat
      BY <1>4, <2>3, <3>1, CopyTypes
    <3> QED BY <2>1, <2>3, <3>1, <3>2, <3>3
  <2> QED BY <1>4, <2>2, <2>3 DEF Orderly
<1>5. VersionIdentifiesContent'
  BY <1>4 DEF VersionIdentifiesContent, MayUpdate
<1> QED BY <1>2, <1>3, <1>4, <1>5 DEF Versions

\* No step lets a copy pass for current that is not.
LEMMA StepVersions == RecordsOK /\ Versions /\ StoreStep => Versions'
<1> SUFFICES ASSUME RecordsOK, Versions, StoreStep PROVE Versions'
  OBVIOUS
<1>1. CASE Orderly
  BY <1>1, OrderlyKeepsVersions
<1>2. ASSUME NEW id \in Ids, Saving(id) PROVE Versions'
  <2>1. /\ \A other \in Ids : births'[other] = IF other = id THEN births[id] + 1 ELSE births[other]
        /\ births \in [Ids -> Nat]
        /\ \A other \in Ids : other # id => records'[other] = records[other]
        /\ copy' = copy
    BY <1>2 DEF Saving, RecordsOK
  <2>2. \A other \in Stored' : births'[other] >= 1
    BY <2>1 DEF Versions, Stored
  <2>3. \A c \in Clients : copy'[c] # NoRecord =>
            copy'[c].birth \in 1..births'[copy'[c].id]
    BY <2>1, CopyTypes DEF Versions
  <2>4. \A c \in Clients : copy[c] # NoRecord /\ copy[c].birth = births'[copy[c].id]
            => copy[c].id # id
    BY <2>1, CopyTypes DEF Versions
  <2>5. \A c \in Clients : copy[c] # NoRecord /\ copy[c].id # id =>
            /\ records'[copy[c].id] = records[copy[c].id]
            /\ births'[copy[c].id] = births[copy[c].id]
            /\ copy[c].id \in Stored' => copy[c].id \in Stored
    BY <2>1, CopyTypes DEF Stored
  <2>6. VersionIdentifiesContent'
    BY <2>1, <2>4, <2>5 DEF Versions, VersionIdentifiesContent, MayUpdate
  <2>7. \A c \in Clients :
            /\ copy'[c] # NoRecord
            /\ copy'[c].id \in Stored'
            /\ copy'[c].birth = births'[copy'[c].id]
            => copy'[c].rec.version <= records'[copy'[c].id].version
    BY <2>1, <2>4, <2>5 DEF Versions
  <2> QED BY <2>2, <2>3, <2>6, <2>7 DEF Versions
<1>3. CASE TimePasses
  <2>1. /\ \A id \in Ids : id \in Stored' <=> id \in Stored
        /\ \A id \in Stored : /\ records'[id] = Aged(records[id])
                              /\ Aged(records[id]).version = records[id].version
        /\ UNCHANGED <<births, claims>>
    BY <1>3, TimePassesLemma, AgedLemma
  <2>2. \A c \in Clients : copy'[c] # NoRecord =>
            /\ copy[c] # NoRecord
            /\ copy'[c].id = copy[c].id
            /\ copy'[c].birth = copy[c].birth
            /\ copy'[c].rec = Aged(copy[c].rec)
            /\ Aged(copy[c].rec).version = copy[c].rec.version
            /\ copy[c].id \in Ids
    BY <1>3, TimePassesLemma, AgedLemma, CopyTypes
  <2>3. \A id \in Stored' : births'[id] >= 1
    BY <2>1 DEF Versions, Stored
  <2>4. VersionIdentifiesContent'
    BY <2>1, <2>2 DEF Versions, VersionIdentifiesContent, MayUpdate
  <2> QED BY <2>1, <2>2, <2>3, <2>4 DEF Versions
<1> QED BY <1>1, <1>2, <1>3, OrderlySteps

---------------------------------------------------------------------------
(* Claimants.                                                              *)

\* c holds the latest state of its record, and not one of an earlier record
\* with the same ID.
Latest(c) == MayUpdate(c) /\ copy[c].birth = births[copy[c].id]

\* OneClaimant, of the clients whose record has not been deleted and saved anew.
Claimants ==
    /\ \A c, d \in Clients :
        /\ Latest(c) /\ copy[c].claimed
        /\ Latest(d) /\ copy[d].claimed
        /\ copy[c].id = copy[d].id
        => c = d
    /\ \A c \in Clients :
        Latest(c) /\ copy[c].claimed => records[copy[c].id].status = "running"

\* A write leaves nobody with the latest state of the record.
LEMMA WritesMakeStale ==
    ASSUME RecordsOK, Versions, Orderly, NEW c \in Clients, copy'[c] = copy[c], Latest(c)'
    PROVE  Latest(c) /\ records'[copy[c].id] = records[copy[c].id]
<1> DEFINE id == copy[c].id
<1>1. /\ copy[c] # NoRecord
      /\ records'[id] # NoRecord
      /\ copy[c].rec.version = records'[id].version
      /\ copy[c].birth = births[id]
      /\ id \in Ids
  BY CopyTypes DEF Latest, MayUpdate, Stored, Orderly
<1>2. records'[id] = records[id]
  <2> SUFFICES ASSUME id \in Stored, records'[id].version = records[id].version + 1
               PROVE  FALSE
    BY <1>1 DEF Orderly
  <2>1. copy[c].rec.version <= records[id].version
    BY <1>1 DEF Versions
  <2>2. copy[c].rec.version \in Nat /\ records[id].version \in Nat
    BY <1>1, CopyTypes
  <2> QED BY <1>1, <2>1, <2>2
<1> QED BY <1>1, <1>2 DEF Latest, MayUpdate, Stored

\* No step makes a second claimant, or one of a record that is not running.
LEMMA StepClaimants == RecordsOK /\ Versions /\ Claimants /\ StoreStep => Claimants'
<1> SUFFICES ASSUME RecordsOK, Versions, Claimants, StoreStep PROVE Claimants'
  OBVIOUS
<1>1. ASSUME Orderly,
             \A c \in Clients : \/ copy'[c] = copy[c]
                               \/ copy'[c] = NoRecord
                               \/ copy'[c].claimed = FALSE
      PROVE  Claimants'
  <2>1. \A c \in Clients : Latest(c)' /\ copy'[c].claimed =>
            /\ copy'[c] = copy[c]
            /\ Latest(c)
            /\ records'[copy[c].id] = records[copy[c].id]
    BY <1>1, WritesMakeStale DEF Latest, MayUpdate
  <2> QED BY <2>1 DEF Claimants
<1>2. ASSUME NEW c \in Clients, NEW id \in Ids, Claiming(c, id), Orderly PROVE Claimants'
  <2>1. PICK rec \in Record :
            /\ rec.version = records[id].version + 1
            /\ rec.status = "running"
            /\ records' = [records EXCEPT ![id] = rec]
            /\ Hand(c, id, rec, TRUE) \/ UNCHANGED copy
    BY <1>2 DEF Claiming, Claimed
  <2>2. CASE UNCHANGED copy
    BY <1>1, <1>2, <2>2
  <2>3. CASE Hand(c, id, rec, TRUE)
    <3>1. /\ copy'[c].id = id
          /\ records'[id] = rec
          /\ rec # records[id]
          /\ \A d \in Clients : d # c => copy'[d] = copy[d]
      <4>1. records[id].version \in Nat
        BY <1>2, CopyTypes DEF Claiming, InStatus
      <4>2. records'[id] = rec
        BY <2>1 DEF RecordsOK
      <4>3. copy'[c].id = id /\ \A d \in Clients : d # c => copy'[d] = copy[d]
        BY <2>3, HandLemma
      <4> QED BY <2>1, <4>1, <4>2, <4>3
    <3>2. \A d \in Clients : d # c /\ Latest(d)' =>
              Latest(d) /\ copy'[d] = copy[d] /\ records'[copy[d].id] = records[copy[d].id]
      BY <1>2, <3>1, WritesMakeStale
    <3>3. \A d \in Clients : d # c /\ Latest(d)' => copy'[d].id # id
      BY <3>1, <3>2
    <3> QED BY <2>1, <3>1, <3>2, <3>3 DEF Claimants
  <2> QED BY <2>1, <2>2, <2>3
<1>3. ASSUME NEW c \in Clients, NEW id \in Ids, Reading(c, id), Orderly PROVE Claimants'
  <2>1. copy'[c].claimed = FALSE /\ \A d \in Clients : d # c => copy'[d] = copy[d]
    BY <1>3, ReadingLemma
  <2> QED BY <1>1, <1>3, <2>1
<1>4. ASSUME NEW c \in Clients, Discard(c), Orderly PROVE Claimants'
  <2>1. \A d \in Clients : copy'[d] = copy[d] \/ copy'[d] = NoRecord
    BY <1>4 DEF Discard, RecordsOK
  <2> QED BY <1>1, <1>4, <2>1
<1>5. CASE Orderly /\ UNCHANGED copy
  BY <1>1, <1>5
<1>6. CASE Orderly /\ ~TimePasses
  BY <1>2, <1>3, <1>4, <1>5, <1>6
  DEF StoreStep, Serving, Saving, Deleting, Updating, Requeuing, storeVars
<1>7. ASSUME NEW id \in Ids, Saving(id) PROVE Claimants'
  <2>1. /\ \A other \in Ids : births'[other] = IF other = id THEN births[id] + 1 ELSE births[other]
        /\ \A other \in Ids : other # id => records'[other] = records[other]
        /\ copy' = copy
    BY <1>7 DEF Saving, RecordsOK
  <2>2. \A c \in Clients : copy[c] # NoRecord /\ copy[c].birth = births'[copy[c].id]
            => copy[c].id # id
    BY <2>1, CopyTypes DEF Versions
  <2>3. \A c \in Clients : Latest(c)' =>
            Latest(c) /\ records'[copy[c].id] = records[copy[c].id]
    BY <2>1, <2>2, CopyTypes DEF Latest, MayUpdate, Stored
  <2> QED BY <2>1, <2>3 DEF Claimants
<1>8. CASE TimePasses
  <2>1. /\ \A id \in Ids : id \in Stored' <=> id \in Stored
        /\ \A id \in Stored : /\ records'[id].version = records[id].version
                              /\ records'[id].status = records[id].status
        /\ UNCHANGED <<births, claims>>
    BY <1>8, TimePassesLemma, AgedLemma
  <2>2. \A c \in Clients : copy'[c] # NoRecord =>
            /\ copy[c] # NoRecord
            /\ copy'[c].id = copy[c].id
            /\ copy'[c].birth = copy[c].birth
            /\ copy'[c].claimed = copy[c].claimed
            /\ copy'[c].rec.version = copy[c].rec.version
            /\ copy[c].id \in Ids
    BY <1>8, TimePassesLemma, AgedLemma, CopyTypes
  <2>3. \A c \in Clients : Latest(c)' =>
            /\ Latest(c)
            /\ copy'[c].id = copy[c].id
            /\ copy'[c].claimed = copy[c].claimed
            /\ records'[copy[c].id].status = records[copy[c].id].status
    BY <2>1, <2>2 DEF Latest, MayUpdate
  <2> QED BY <2>3 DEF Claimants
<1> QED BY <1>6, <1>7, <1>8, OrderlySteps

---------------------------------------------------------------------------
(* A copy that is not of the latest state never is again.                  *)

\* The record that c has a copy of was deleted or written since.
Overtaken(c) ==
    /\ copy[c] # NoRecord
    /\ copy[c].id \in Stored /\ copy[c].birth = births[copy[c].id]
           => records[copy[c].id].version > copy[c].rec.version

\* Whoever was overtaken remains so while it keeps its copy.
LEMMA OvertakenKept ==
    ASSUME RecordsOK, Versions, StoreStep, NEW c \in Clients, Overtaken(c),
           copy'[c] = copy[c] \/ TimePasses
    PROVE  Overtaken(c)'
<1> DEFINE id == copy[c].id
<1>1. /\ copy[c] # NoRecord
      /\ id \in Ids
      /\ copy[c].rec \in Record
      /\ copy[c].rec.version \in Nat
      /\ copy[c].birth \in 1..births[id]
      /\ births[id] \in Nat
  BY CopyTypes DEF Overtaken, Versions
<1>2. CASE TimePasses
  <2>1. /\ id \in Stored' <=> id \in Stored
        /\ births' = births
        /\ copy'[c] # NoRecord
        /\ copy'[c].id = id
        /\ copy'[c].birth = copy[c].birth
        /\ copy'[c].rec.version = copy[c].rec.version
    BY <1>1, <1>2, TimePassesLemma, AgedLemma
  <2>2. id \in Stored => records'[id].version = records[id].version
    BY <1>2, TimePassesLemma, AgedLemma
  <2> QED BY <2>1, <2>2 DEF Overtaken
<1>3. ASSUME copy'[c] = copy[c], Orderly PROVE Overtaken(c)'
  <2>1. ASSUME id \in Stored' PROVE id \in Stored /\ records'[id].version >= records[id].version
    BY <1>1, <1>3, <2>1, CopyTypes DEF Orderly, Stored
  <2>2. id \in Stored => records[id].version \in Nat
    BY CopyTypes
  <2>3. id \in Stored' => records'[id].version \in Nat
    BY <1>3 DEF Orderly, RecordsOK, Stored, Record
  <2> QED BY <1>1, <1>3, <2>1, <2>2, <2>3 DEF Overtaken, Orderly
<1>4. ASSUME copy'[c] = copy[c], NEW new \in Ids, Saving(new) PROVE Overtaken(c)'
  <2>1. /\ \A other \in Ids : births'[other] = IF other = new THEN births[new] + 1 ELSE births[other]
        /\ \A other \in Ids : other # new => records'[other] = records[other]
    BY <1>4 DEF Saving, RecordsOK
  <2>2. CASE id = new
    BY <1>1, <1>4, <2>1, <2>2 DEF Overtaken
  <2>3. CASE id # new
    BY <1>1, <1>4, <2>1, <2>3 DEF Overtaken, Stored
  <2> QED BY <2>2, <2>3
<1> QED BY <1>2, <1>3, <1>4, OrderlySteps

---------------------------------------------------------------------------
(* What all this gives where no ID is used a second time.                  *)

SavedOnce == \A id \in Ids : births[id] <= 1

LEMMA SavedOnceLatest ==
    ASSUME RecordsOK, Versions, SavedOnce, NEW c \in Clients, MayUpdate(c)
    PROVE  Latest(c) /\ copy[c].rec = records[copy[c].id]
<1>1. /\ copy[c] # NoRecord
      /\ copy[c].id \in Ids
      /\ copy[c].birth \in 1..births[copy[c].id]
      /\ births[copy[c].id] \in Nat
  BY CopyTypes DEF MayUpdate, Versions
<1>2. copy[c].birth = births[copy[c].id]
  BY <1>1 DEF SavedOnce
<1> QED BY <1>2 DEF Latest, Versions, VersionIdentifiesContent

LEMMA SavedOnceOneClaimant ==
    RecordsOK /\ Versions /\ Claimants /\ SavedOnce => OneClaimant
BY SavedOnceLatest DEF Claimants, OneClaimant

\* Attempts are counted with the claims, and no Update gets the number wrong.
LEMMA StepAttempts ==
    ASSUME RecordsOK, Versions, SavedOnce, StoreStep, AttemptsCountClaims,
           \A new \in NewRecords : new.attempts = 0
    PROVE  AttemptsCountClaims'
<1> USE CopyTypes
<1>1. ASSUME NEW id \in Ids, Saving(id) PROVE AttemptsCountClaims'
  BY <1>1 DEF Saving, AttemptsCountClaims, RecordsOK, Stored
<1>2. ASSUME NEW id \in Ids, Deleting(id) PROVE AttemptsCountClaims'
  BY <1>2 DEF Deleting, AttemptsCountClaims, RecordsOK, Stored
<1>3. ASSUME NEW c \in Clients, NEW id \in Ids, Claiming(c, id) PROVE AttemptsCountClaims'
  BY <1>3 DEF Claiming, Claimed, AttemptsCountClaims, RecordsOK, Stored, InStatus
<1>4. ASSUME NEW c \in Clients, Updating(c) PROVE AttemptsCountClaims'
  <2>1. copy[c].rec = records[copy[c].id] /\ copy[c].id \in Stored
    BY <1>4, SavedOnceLatest DEF Updating, MayUpdate
  <2>2. PICK rec \in Record :
            /\ rec.attempts = copy[c].rec.attempts
            /\ records' = [records EXCEPT ![copy[c].id] = rec]
    BY <1>4 DEF Updating, Successor
  <2> QED BY <1>4, <2>1, <2>2 DEF Updating, AttemptsCountClaims, RecordsOK, Stored
<1>5. ASSUME NEW stale \in SUBSET Ids, Requeuing(stale) PROVE AttemptsCountClaims'
  BY <1>5 DEF Requeuing, GivenBack, Successor, AttemptsCountClaims, Stored, InStatus
<1>6. CASE TimePasses
  BY <1>6, TimePassesLemma, AgedLemma DEF AttemptsCountClaims, Stored
<1>7. CASE UNCHANGED <<records, claims>>
  BY <1>7 DEF AttemptsCountClaims, Stored
<1> QED BY <1>1, <1>2, <1>3, <1>4, <1>5, <1>6, <1>7 DEF StoreStep, Serving, Reading, Discard, storeVars

\* The body of FinishedJobsStayFinished.
LEMMA StepKeepsFinished ==
    ASSUME RecordsOK, Versions, SavedOnce, StoreStep,
           NEW id \in InStatus("succeeded") \cup InStatus("failed")
    PROVE  \/ records'[id] = NoRecord
           \/ records'[id].status = records[id].status
           \/ \E c \in Clients :
                MayUpdate(c) /\ copy[c].id = id /\ copy[c].rec.status = records[id].status
<1>1. id \in Stored /\ records[id].status \in {"succeeded", "failed"}
  BY DEF InStatus
<1>2. ASSUME NEW c \in Clients, Updating(c), copy[c].id = id
      PROVE  MayUpdate(c) /\ copy[c].rec.status = records[id].status
  BY <1>2, SavedOnceLatest DEF Updating
<1>3. CASE TimePasses
  BY <1>1, <1>3, TimePassesLemma, AgedLemma
<1>4. ASSUME NEW c \in Clients, Updating(c), copy[c].id # id
      PROVE  records'[id] = records[id]
  BY <1>1, <1>4 DEF Updating, RecordsOK
<1>5. ASSUME ~TimePasses, \A c \in Clients : ~Updating(c)
      PROVE  records'[id] \in {NoRecord, records[id]}
  BY <1>1, <1>5 DEF StoreStep, Serving, Saving, Deleting, Reading, Claiming, Discard, Requeuing, storeVars,
     RecordsOK, InStatus, Stored
<1> QED BY <1>2, <1>3, <1>4, <1>5

---------------------------------------------------------------------------
(* What the contract sees of each step.                                    *)

LEMMA JobsLemma ==
    ASSUME RecordsOK
    PROVE  /\ Jobs \in [Ids -> Job \cup {NoRecord}]
           /\ \A id \in Ids : Jobs[id] = NoRecord <=> id \notin Stored
           /\ \A id \in Stored : /\ Jobs[id] \in Job
                                 /\ Jobs[id].status = records[id].status
                                 /\ Jobs[id].created = records[id].created
<1>1. ASSUME NEW id \in Stored
      PROVE  /\ Jobs[id] \in Job
             /\ Jobs[id].status = records[id].status
             /\ Jobs[id].created = records[id].created
  <2>1. Jobs[id] = [status |-> records[id].status, created |-> records[id].created]
    BY DEF Jobs, Stored
  <2>2. records[id].status \in Statuses /\ records[id].created \in Times
    BY CopyTypes DEF Record
  <2> QED BY <2>1, <2>2 DEF Job
<1>2. \A id \in Ids : id \notin Stored => Jobs[id] = NoRecord
  BY DEF Jobs
<1>3. Jobs \in [Ids -> Job \cup {NoRecord}]
  <2>1. \A id \in Ids : Jobs[id] \in Job \cup {NoRecord}
    BY <1>1, <1>2
  <2> QED BY <2>1 DEF Jobs
<1> QED BY <1>1, <1>2, <1>3, RecordAssumption

\* Who held the latest state of a record that is not written still does.
LEMMA CurrentKept ==
    ASSUME RecordsOK, Versions, SavedOnce, Orderly, NEW c \in Clients, copy'[c] = copy[c]
    PROVE  MayUpdate(c)' <=> MayUpdate(c) /\ records'[copy[c].id] = records[copy[c].id]
<1>1. MayUpdate(c)' => Latest(c)'
  BY CopyTypes DEF MayUpdate, Latest, Orderly, Versions, SavedOnce
<1>2. MayUpdate(c)' => MayUpdate(c) /\ records'[copy[c].id] = records[copy[c].id]
  BY <1>1, WritesMakeStale DEF Latest
<1>3. MayUpdate(c) /\ records'[copy[c].id] = records[copy[c].id] => MayUpdate(c)'
  BY DEF MayUpdate, Stored
<1> QED BY <1>2, <1>3

\* A write that tells nobody: the record has a new state that no client holds.
LEMMA WriteCurrent ==
    ASSUME RecordsOK, Versions, SavedOnce, Orderly, UNCHANGED copy, NEW written \in SUBSET Ids,
           \A id \in Ids : id \in written <=> records'[id] # records[id]
    PROVE  Current' = [id \in Ids |-> IF id \in written THEN {} ELSE Current[id]]
<1>1. \A c \in Clients : MayUpdate(c)' <=> MayUpdate(c) /\ copy[c].id \notin written
  BY CurrentKept, CopyTypes DEF MayUpdate
<1>2. ASSUME NEW id \in Ids
      PROVE  {c \in Clients : MayUpdate(c)' /\ copy'[c].id = id}
                = IF id \in written THEN {} ELSE Current[id]
  BY <1>1 DEF Current
<1> QED BY <1>2 DEF Current

LEMMA SavingContract ==
    ASSUME RecordsOK, Versions, SavedOnce', NEW id \in Ids, Saving(id)
    PROVE  /\ Jobs[id] = NoRecord
           /\ \E status \in Statuses, created \in Times :
                Jobs' = [Jobs EXCEPT ![id] = [status |-> status, created |-> created]]
           /\ Current' = Current
<1>1. PICK rec \in Record : records' = [records EXCEPT ![id] = rec]
  BY DEF Saving
<1>2. /\ records'[id] = rec
      /\ \A i \in Ids : i # id => records'[i] = records[i]
      /\ rec # NoRecord
  BY <1>1, RecordAssumption DEF RecordsOK
<1>3. Jobs' = [Jobs EXCEPT ![id] = [status |-> rec.status, created |-> rec.created]]
  BY <1>2 DEF Jobs, Stored
<1>4. rec.status \in Statuses /\ rec.created \in Times
  BY DEF Record
<1>5. \A c \in Clients : copy[c] # NoRecord => copy[c].id # id
  <2>1. births'[id] = births[id] + 1 /\ births[id] \in Nat
    BY DEF Saving, RecordsOK
  <2>2. births[id] < 1
    BY <2>1 DEF SavedOnce
  <2> QED BY <2>1, <2>2, CopyTypes DEF Versions
<1>6. \A c \in Clients : MayUpdate(c)' <=> MayUpdate(c)
  BY <1>2, <1>5, CopyTypes DEF MayUpdate, Stored, Saving
<1>7. Current' = Current
  BY <1>6 DEF Current, Saving
<1> QED BY <1>3, <1>4, <1>7, JobsLemma DEF Saving

LEMMA ReadingContract ==
    ASSUME RecordsOK, Versions, SavedOnce, NEW c \in Clients, NEW id \in Ids, Reading(c, id)
    PROVE  /\ Jobs' = Jobs
           /\ Current' = [i \in Ids |-> IF i = id THEN Current[i] \cup {c} ELSE Current[i] \ {c}]
<1>1. records[id] \in Record /\ records' = records /\ id \in Stored
  BY ReadingLemma
<1>2. /\ copy'[c] # NoRecord
      /\ copy'[c].id = id
      /\ copy'[c].rec = records[id]
      /\ \A d \in Clients : d # c => copy'[d] = copy[d]
  BY ReadingLemma
<1>3. MayUpdate(c)'
  BY <1>1, <1>2 DEF MayUpdate, Stored
<1>4. \A d \in Clients : d # c => (MayUpdate(d)' <=> MayUpdate(d))
  BY <1>1, <1>2 DEF MayUpdate, Stored
<1>5. ASSUME NEW i \in Ids
      PROVE  {d \in Clients : MayUpdate(d)' /\ copy'[d].id = i}
                = IF i = id THEN Current[i] \cup {c} ELSE Current[i] \ {c}
  BY <1>2, <1>3, <1>4 DEF Current
<1>6. Current' = [i \in Ids |-> IF i = id THEN Current[i] \cup {c} ELSE Current[i] \ {c}]
  BY <1>5 DEF Current
<1> QED BY <1>1, <1>6 DEF Jobs, Stored

LEMMA ClaimingContract ==
    ASSUME RecordsOK, Versions, SavedOnce, Orderly,
           NEW c \in Clients, NEW id \in Ids, Claiming(c, id)
    PROVE  /\ Jobs' = [Jobs EXCEPT ![id].status = "running"]
           /\ \/ Current' = [i \in Ids |-> IF i = id THEN {c} ELSE Current[i] \ {c}]
              \/ Current' = [Current EXCEPT ![id] = {}]
<1>1. PICK rec \in Record :
          /\ rec.version = records[id].version + 1
          /\ rec.status = "running"
          /\ rec.created = records[id].created
          /\ records' = [records EXCEPT ![id] = rec]
          /\ Hand(c, id, rec, TRUE) \/ UNCHANGED copy
  BY DEF Claiming, Claimed
<1>2. id \in Stored /\ records[id].version \in Nat
  BY CopyTypes DEF Claiming, InStatus
<1>3. /\ records'[id] = rec
      /\ rec # NoRecord
      /\ rec # records[id]
      /\ \A i \in Ids : i # id => records'[i] = records[i]
  <2>1. records'[id] = rec /\ \A i \in Ids : i # id => records'[i] = records[i]
    BY <1>1 DEF RecordsOK
  <2>2. rec # records[id]
    BY <1>1, <1>2
  <2> QED BY <2>1, <2>2, RecordAssumption
<1>4. Jobs' = [Jobs EXCEPT ![id].status = "running"]
  <2>1. Jobs'[id] = [Jobs[id] EXCEPT !.status = "running"]
    <3>1. Jobs[id] = [status |-> records[id].status, created |-> records[id].created]
      BY <1>2 DEF Jobs
    <3>2. Jobs'[id] = [status |-> rec.status, created |-> rec.created]
      BY <1>3 DEF Jobs, Stored
    <3> QED BY <1>1, <3>1, <3>2
  <2>2. \A i \in Ids : i # id => Jobs'[i] = Jobs[i]
    BY <1>3 DEF Jobs, Stored
  <2>3. Jobs' = [i \in Ids |-> Jobs'[i]] /\ Jobs = [i \in Ids |-> Jobs[i]]
    BY DEF Jobs
  <2> QED BY <2>1, <2>2, <2>3
<1>5. CASE UNCHANGED copy
  <2>1. \A i \in Ids : i \in {id} <=> records'[i] # records[i]
    BY <1>3
  <2>2. Current' = [i \in Ids |-> IF i \in {id} THEN {} ELSE Current[i]]
    BY <1>5, <2>1, WriteCurrent
  <2>3. Current' = [Current EXCEPT ![id] = {}]
    BY <2>2 DEF Current
  <2> QED BY <1>4, <2>3
<1>6. CASE Hand(c, id, rec, TRUE)
  <2>1. /\ copy'[c] # NoRecord
        /\ copy'[c].id = id
        /\ copy'[c].rec = rec
        /\ \A d \in Clients : d # c => copy'[d] = copy[d]
    BY <1>6, HandLemma
  <2>2. MayUpdate(c)'
    BY <1>3, <2>1 DEF MayUpdate, Stored
  <2>3. \A d \in Clients : d # c => (MayUpdate(d)' <=> MayUpdate(d) /\ copy[d].id # id)
    BY <1>3, <2>1, CurrentKept, CopyTypes DEF MayUpdate
  <2>4. ASSUME NEW i \in Ids
        PROVE  {d \in Clients : MayUpdate(d)' /\ copy'[d].id = i}
                  = IF i = id THEN {c} ELSE Current[i] \ {c}
    BY <2>1, <2>2, <2>3 DEF Current
  <2>5. Current' = [i \in Ids |-> IF i = id THEN {c} ELSE Current[i] \ {c}]
    BY <2>4 DEF Current
  <2> QED BY <1>4, <2>5
<1> QED BY <1>1, <1>5, <1>6

LEMMA UpdatingContract ==
    ASSUME RecordsOK, Versions, SavedOnce, Orderly, NEW c \in Clients, Updating(c)
    PROVE  LET id == copy[c].id
           IN  /\ id \in Ids
               /\ c \in Current[id]
               /\ \E status \in Statuses : Jobs' = [Jobs EXCEPT ![id].status = status]
               /\ Current' = [Current EXCEPT ![id] = {}]
<1> DEFINE id == copy[c].id
<1>1. id \in Stored /\ copy[c].rec = records[id] /\ MayUpdate(c)
  BY SavedOnceLatest DEF Updating, MayUpdate
<1>2. PICK rec \in Record :
          /\ rec.version = records[id].version + 1
          /\ rec.created = records[id].created
          /\ records' = [records EXCEPT ![id] = rec]
  BY <1>1 DEF Updating, Successor
<1>3. records[id].version \in Nat /\ id \in Ids
  BY <1>1, CopyTypes DEF Stored
<1> HIDE DEF id
<1>4. /\ records'[id] = rec
      /\ rec # NoRecord
      /\ rec # records[id]
      /\ \A i \in Ids : i # id => records'[i] = records[i]
  <2>1. records'[id] = rec /\ \A i \in Ids : i # id => records'[i] = records[i]
    BY <1>2, <1>3 DEF RecordsOK
  <2>2. rec # records[id]
    BY <1>2, <1>3
  <2> QED BY <2>1, <2>2, RecordAssumption
<1>5. Jobs' = [Jobs EXCEPT ![id].status = rec.status]
  <2>1. Jobs'[id] = [Jobs[id] EXCEPT !.status = rec.status]
    <3>1. Jobs[id] = [status |-> records[id].status, created |-> records[id].created]
      BY <1>1, <1>3 DEF Jobs
    <3>2. Jobs'[id] = [status |-> rec.status, created |-> rec.created]
      BY <1>3, <1>4 DEF Jobs, Stored
    <3> QED BY <1>2, <3>1, <3>2
  <2>2. \A i \in Ids : i # id => Jobs'[i] = Jobs[i]
    BY <1>4 DEF Jobs, Stored
  <2>3. Jobs' = [i \in Ids |-> Jobs'[i]] /\ Jobs = [i \in Ids |-> Jobs[i]]
    BY DEF Jobs
  <2> QED BY <2>1, <2>2, <2>3
<1>6. rec.status \in Statuses
  BY DEF Record
<1>7. Current' = [Current EXCEPT ![id] = {}]
  <2>1. \A i \in Ids : i \in {id} <=> records'[i] # records[i]
    BY <1>4
  <2>2. UNCHANGED copy
    BY DEF Updating
  <2>3. Current' = [i \in Ids |-> IF i \in {id} THEN {} ELSE Current[i]]
    BY <1>3, <2>1, <2>2, WriteCurrent
  <2> QED BY <2>3 DEF Current
<1>8. c \in Current[id]
  BY <1>1, <1>3 DEF Current, id
<1> QED BY <1>3, <1>5, <1>6, <1>7, <1>8 DEF id

LEMMA DeletingContract ==
    ASSUME RecordsOK, Versions, SavedOnce, Orderly, NEW id \in Ids, Deleting(id)
    PROVE  /\ id \in Stored
           /\ Jobs' = [Jobs EXCEPT ![id] = NoRecord]
           /\ Current' = [Current EXCEPT ![id] = {}]
<1>1. /\ records'[id] = NoRecord
      /\ records[id] # NoRecord
      /\ \A i \in Ids : i # id => records'[i] = records[i]
      /\ UNCHANGED copy
  BY DEF Deleting, RecordsOK, Stored
<1>2. Jobs' = [Jobs EXCEPT ![id] = NoRecord]
  BY <1>1 DEF Jobs, Stored
<1>3. \A i \in Ids : i \in {id} <=> records'[i] # records[i]
  BY <1>1
<1>4. Current' = [i \in Ids |-> IF i \in {id} THEN {} ELSE Current[i]]
  BY <1>1, <1>3, WriteCurrent
<1> QED BY <1>2, <1>4 DEF Current, Deleting

LEMMA RequeuingContract ==
    ASSUME RecordsOK, Versions, SavedOnce, Orderly, NEW stale \in SUBSET Ids, Requeuing(stale)
    PROVE  /\ Jobs' = [id \in Ids |-> IF id \in stale
                                     THEN [Jobs[id] EXCEPT !.status = "pending"] ELSE Jobs[id]]
           /\ Current' = [id \in Ids |-> IF id \in stale THEN {} ELSE Current[id]]
<1>1. \A id \in stale : /\ id \in Stored
                       /\ records[id].version \in Nat
                       /\ records'[id] \in Record
                       /\ GivenBack(records'[id], records[id])
  BY CopyTypes DEF Requeuing, InStatus
<1>2. \A id \in Ids : id \notin stale => records'[id] = records[id]
  BY DEF Requeuing
<1>3. \A id \in stale : records'[id] # records[id]
  BY <1>1 DEF GivenBack, Successor
<1>4. Current' = [id \in Ids |-> IF id \in stale THEN {} ELSE Current[id]]
  <2>1. \A id \in Ids : id \in stale <=> records'[id] # records[id]
    BY <1>2, <1>3
  <2>2. UNCHANGED copy
    BY DEF Requeuing
  <2> QED BY <2>1, <2>2, WriteCurrent
<1>5. ASSUME NEW id \in stale PROVE Jobs'[id] = [Jobs[id] EXCEPT !.status = "pending"]
  <2>1. Jobs[id] = [status |-> records[id].status, created |-> records[id].created]
    BY <1>1 DEF Jobs
  <2>2. Jobs'[id] = [status |-> records'[id].status, created |-> records'[id].created]
    BY <1>1, RecordAssumption DEF Jobs, Stored
  <2>3. records'[id].status = "pending" /\ records'[id].created = records[id].created
    BY <1>1 DEF GivenBack
  <2> QED BY <2>1, <2>2, <2>3
<1>6. \A id \in Ids : id \notin stale => Jobs'[id] = Jobs[id]
  BY <1>2 DEF Jobs, Stored
<1>7. Jobs' = [id \in Ids |-> Jobs'[id]]
  BY DEF Jobs
<1> QED BY <1>4, <1>5, <1>6, <1>7

LEMMA DiscardContract ==
    ASSUME RecordsOK, NEW c \in Clients, Discard(c)
    PROVE  /\ Jobs' = Jobs
           /\ Current' = [id \in Ids |-> Current[id] \ {c}]
<1>1. /\ copy'[c] = NoRecord
      /\ \A d \in Clients : d # c => copy'[d] = copy[d]
      /\ records' = records
  BY DEF Discard, RecordsOK
<1>2. \A d \in Clients : MayUpdate(d)' <=> MayUpdate(d) /\ d # c
  BY <1>1 DEF MayUpdate, Stored
<1>3. ASSUME NEW id \in Ids
      PROVE  {d \in Clients : MayUpdate(d)' /\ copy'[d].id = id} = Current[id] \ {c}
  BY <1>1, <1>2 DEF Current
<1>4. Current' = [id \in Ids |-> Current[id] \ {c}]
  BY <1>3 DEF Current
<1> QED BY <1>1, <1>4 DEF Jobs, Stored

LEMMA TimePassesContract ==
    ASSUME RecordsOK, TimePasses
    PROVE  Jobs' = Jobs /\ Current' = Current
<1>1. \A id \in Ids : id \in Stored' <=> id \in Stored
  BY TimePassesLemma
<1>2. \A id \in Stored : /\ records'[id].status = records[id].status
                        /\ records'[id].created = records[id].created
                        /\ records'[id].version = records[id].version
  BY TimePassesLemma, AgedLemma
<1>3. \A c \in Clients : copy'[c] # NoRecord <=> copy[c] # NoRecord
  BY TimePassesLemma
<1>4. \A c \in Clients : copy[c] # NoRecord =>
        /\ copy'[c].id = copy[c].id
        /\ copy'[c].rec.version = copy[c].rec.version
  BY TimePassesLemma, AgedLemma
<1>5. Jobs' = Jobs
  BY <1>1, <1>2 DEF Jobs
<1>6. ASSUME NEW c \in Clients, NEW id \in Ids
      PROVE  MayUpdate(c)' /\ copy'[c].id = id <=> MayUpdate(c) /\ copy[c].id = id
  BY <1>1, <1>2, <1>3, <1>4 DEF MayUpdate
<1>7. Current' = Current
  BY <1>6 DEF Current
<1> QED BY <1>5, <1>7
===========================================================================
