CONSTANTS
    r1 = r1
    r2 = r2
    Requests = {r1, r2}
    Routes = {"report", "codes"}
    ReportRoutes = {"report"}
    CodeRoutes = {"codes"}
    OkStatuses = {200}
    MaxClock = 2
    MaxFaults = 2
SPECIFICATION FairSpec
INVARIANTS
    TypeOK
    ReportWellFormed
    TimesNeverOverstated
    FilesAgree
    RepairedByUse
PROPERTIES
    LogRefined
    FinishedIsRecorded
