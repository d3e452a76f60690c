---------------------------- MODULE ResponseChart ----------------------------
(***************************************************************************)
(* The response-time chart of the application page                         *)
(* (3-3/public/secondpage_script.js, drawChart) against the server of      *)
(* RequestStats. The page fetches the report and the event list with two   *)
(* requests that overlap each other and every other client's requests, and *)
(* looks every listed event up in the report.                              *)
(***************************************************************************)
EXTENDS RequestStats

CONSTANTS ReportFetch,   \* the page's /getHttpResonseTime request
          CodeFetch      \* the page's /getHttpCodeList request

ASSUME FetchAssumption ==
    ReportFetch \in Requests /\ CodeFetch \in Requests /\ ReportFetch # CodeFetch

Fetches == {ReportFetch, CodeFetch}

VARIABLES
    called,        \* drawChart has been called
    body,          \* what the server read for each of the two fetches
    arrived,       \* the fetches whose response the page has handled, in order
    report_json,   \* "undefined" until the report has arrived
    chart,         \* the outcome of the second then-callback
    reads          \* history: the fetches in the order the server read for them

pageVars == <<called, body, arrived, report_json, chart, reads>>

ChartInit ==
    /\ Init
    /\ called = FALSE
    /\ body = [report |-> NoStats, codes |-> {}]
    /\ arrived = <<>>
    /\ report_json = "undefined"
    /\ chart = "none"
    /\ reads = <<>>

DrawChart ==
    /\ ~called
    /\ called' = TRUE
    /\ UNCHANGED <<vars, body, arrived, report_json, chart, reads>>

\* The two fetches are sent by drawChart, to one route each, in any order of
\* arrival; other requests are other clients'.
RoutesOf(r) == CASE r = ReportFetch -> ReportRoutes
                 [] r = CodeFetch   -> CodeRoutes
                 [] OTHER           -> Routes

Arrive(r, route) ==
    /\ r \in Fetches => called
    /\ StartRequest(r, route)
    /\ UNCHANGED pageVars

\* The handler of a fetch reads its file when it runs, and not when the
\* response is delivered.
Serve(r, status) ==
    /\ Answer(r, status)
    /\ body' = CASE r = ReportFetch -> [body EXCEPT !.report = readStats(report)]
                 [] r = CodeFetch   -> [body EXCEPT !.codes = readHttpCode(httpcode)]
                 [] OTHER           -> body
    /\ reads' = IF r \in Fetches THEN Append(reads, r) ELSE reads
    /\ UNCHANGED <<called, arrived, report_json, chart>>

CanArrive(r) == /\ req[r].st \in {"answered", "done"} 
                /\ \A i \in 1..Len(arrived) : arrived[i] # r

\* Mutant: a rejected fetch leaves null.
MutReportNull ==
    /\ CanArrive(ReportFetch)
    /\ arrived' = Append(arrived, ReportFetch)
    /\ report_json' = IF req[ReportFetch].status = Failed THEN "null" ELSE "read"
    /\ UNCHANGED <<vars, called, body, chart, reads>>

\* The body of a 500 is not JSON: response.json() rejects, nothing is set.
ReportArrives ==
    /\ CanArrive(ReportFetch)
    /\ arrived' = Append(arrived, ReportFetch)
    /\ report_json' = IF req[ReportFetch].status = Failed THEN "undefined" ELSE "read"
    /\ UNCHANGED <<vars, called, body, chart, reads>>

\* report_json[0][event]['Time'] for every event of the list.
LookUp(codes) ==
    IF codes = {} THEN "rows"
    ELSE IF report_json = "undefined" THEN "TypeError"
    ELSE IF codes \subseteq Recorded(body.report) THEN "rows" ELSE "TypeError"

CodesArrive ==
    /\ CanArrive(CodeFetch)
    /\ arrived' = Append(arrived, CodeFetch)
    /\ chart' = IF req[CodeFetch].status = Failed THEN "rejected"
                ELSE LookUp(body.codes)
    /\ UNCHANGED <<vars, called, body, report_json, reads>>

ChartNext ==
    \/ DrawChart
    \/ \E r \in Requests : \E route \in RoutesOf(r) : Arrive(r, route)
    \/ \E r \in Requests, status \in Statuses : Serve(r, status)
    \/ ReportArrives
    \/ CodesArrive
    \/ /\ \/ Tick
          \/ \E r \in Requests : Abort(r) \/ Finish(r) \/ FinishReadFails(r)
          \/ OpenHttpinfo \/ WriteHttpinfo \/ HttpinfoFails
          \/ OpenStats \/ WriteStats \/ StatsFails
          \/ CrashIdle \/ CrashInCallback \/ Restart
       /\ UNCHANGED pageVars

ChartSpec == ChartInit /\ [][ChartNext]_<<vars, pageVars>>

-----------------------------------------------------------------------------
\* The type invariant of the page.
ChartTypeOK ==
    /\ called \in BOOLEAN
    /\ body \in [report : [Events -> Entries], codes : SUBSET Events]
    /\ arrived \in Seq(Fetches)
    /\ report_json \in {"undefined", "read"}
    /\ chart \in {"none", "rows", "TypeError", "rejected"}
    /\ reads \in Seq(Fetches)

\* Without faults, the look-up of line 81 fails for two reasons only: the
\* list overtook the report on the way to the page, or the server read the
\* report before the list and an event was recorded in between.
ChartFailsOnlyWhenOvertaken ==
    (faults = 0 /\ chart = "TypeError") =>
        \/ report_json = "undefined"
        \/ arrived[1] = CodeFetch
        \/ reads[1] = ReportFetch
=============================================================================
