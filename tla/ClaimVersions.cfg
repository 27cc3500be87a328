SPECIFICATION Spec
CONSTANTS
    Ids = {1}
    Clients = {c1, c2}
    Times = {1, 2}
    NewRecords <- NewJobs
    Edits <- PlainEdits
    Leases = {1}
    Limits = {0}
    MaxAge = 1
    MaxWrites = 4
    MaxSaves = 2
    NoRecord = NoRecord
    Nil = Nil
PROPERTIES
    NoSilentClobber
