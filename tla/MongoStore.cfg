SPECIFICATION FairSpec
CONSTANTS
    Ids = {1}
    Clients = {c1, c2}
    Times = {1}
    NewRecords <- NewJobs
    Edits <- ClaimantEdits
    Leases = {1}
    MaxAge = 3
    MaxDelay = 1
    MaxWrites = 5
    MaxSaves = 1
    NoRecord = NoRecord
    Nil = Nil
INVARIANTS
    TypeOK
    VersionIdentifiesContent
    OneClaimant
    ConflictsAreReal
PROPERTIES
    ImplementsJobStore
    StaleWorkIsRecovered
