CONSTANTS
    ReportFetch = p1
    CodeFetch = p2
    r1 = r1
    p1 = p1
    p2 = p2
    Requests = {p1, p2, r1}
    Routes = {"report", "codes"}
    ReportRoutes = {"report"}
    CodeRoutes = {"codes"}
    OkStatuses = {200}
    MaxClock = 1
    MaxFaults = 1
SPECIFICATION ChartSpec
INVARIANTS
    ChartTypeOK
    ChartFailsOnlyWhenOvertaken
CHECK_DEADLOCK TRUE
