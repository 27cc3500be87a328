SPECIFICATION FairSpec
CONSTANTS
    Ids = {1, 2}
    Clients = {c1, c2}
    Times = {1, 2}
    NewRecords <- NewJobs
    Edits <- PlainEdits
    Leases = {0, 1}
    Limits = {0, 1}
    MaxAge = 1
    MaxWrites = 4
    MaxSaves = 1
    NoRecord = NoRecord
    Nil = Nil
INVARIANTS
    TypeOK
    VersionIdentifiesContent
    OneClaimant
    AttemptsCountClaims
PROPERTIES
    FinishedJobsStayFinished
    ClaimTakesHeadOfList
    ImplementsJobStore
    StaleWorkIsRecovered
