CONSTANTS
    r1 = r1
    r2 = r2
    Requests = {r1, r2}
    Routes = {"other"}
    ReportRoutes = {}
    CodeRoutes = {}
    OkStatuses = {200}
    MaxClock = 1
    MaxFaults = 0
SPECIFICATION Spec
INVARIANT ResponseTimesExact
CHECK_DEADLOCK TRUE
