----------------------------- MODULE RequestStats -----------------------------
(***************************************************************************)
(* The request statistics of 3-3/src/start.js (lines 31-32, 52-130): an    *)
(* express middleware that times every request and, in the 'finish' event  *)
(* of its response, adds the time to report.json and the event's name to   *)
(* httpcodereport.json; and the routes that serve the two files.           *)
(*                                                                         *)
(* Node runs one callback at a time, so the steps of a 'finish' callback   *)
(* interleave with no other callback; they are separate actions because    *)
(* the process can die between them and each file access can fail.         *)
(***************************************************************************)
EXTENDS Integers, Sequences, FiniteSets

CONSTANTS
    Requests,       \* the requests of a behaviour
    Routes,         \* the routes behind the middleware
    ReportRoutes,   \* the routes that serve report.json
    CodeRoutes,     \* the routes that serve httpcodereport.json
    OkStatuses,     \* status codes of a handler that did not throw
    MaxClock,       \* bound on the clock
    MaxFaults       \* bound on the faults of a behaviour

Failed == 500       \* express answers this when a handler throws

ASSUME RouteAssumption ==
    ReportRoutes \subseteq Routes /\ CodeRoutes \subseteq Routes
ASSUME StatusAssumption == OkStatuses \subseteq Nat /\ Failed \notin OkStatuses
ASSUME BoundAssumption == MaxClock \in Nat /\ MaxFaults \in Nat

Statuses == OkStatuses \cup {Failed}
Events == Routes \X Statuses

VARIABLES
    clock,      \* Date().getTime()
    up,         \* the server process runs
    s_time,     \* the one start time all requests share
    req,        \* the requests, as the server sees them
    pc,         \* where the running 'finish' callback stands
    cb,         \* the locals of that callback
    report,     \* report.json
    httpcode,   \* httpcodereport.json
    faults,     \* faults so far
    healthy     \* history: events whose callback began after the last fault

vars == <<clock, up, s_time, req, pc, cb, report, httpcode, faults, healthy>>

-----------------------------------------------------------------------------
(* Files and their content. A missing, empty or cut file does not parse; a *)
(* proper prefix of a JSON object never does.                              *)

\* One element of Time: label is the N of Response_time_N, time the value;
\* real is history, the time since this very request arrived.
Samples == [label : Nat, time : Int, real : Int]
Entries == [Count : Nat, Time : Seq(Samples)]

NoEntry == [Count |-> 0, Time |-> <<>>]
NoStats == [e \in Events |-> NoEntry]

Unreadable(empty) == [ok |-> FALSE, data |-> empty]
Written(data) == [ok |-> TRUE, data |-> data]

\* Mutant: the parsed report is dropped.
MutReadStats(file) == NoStats

readStats(file) == IF file.ok THEN file.data ELSE NoStats
readHttpCode(file) == IF file.ok THEN file.data ELSE {}

\* The events that hasOwnProperty finds in a parsed report.
Recorded(stats) == {e \in Events : stats[e].Count > 0}

\* Mutant: the label is taken before the count is incremented.
MutLabelFirst(stats, e, time, real) ==
    LET count == stats[e].Count + 1
        sample == [label |-> stats[e].Count, time |-> time, real |-> real]
    IN  [stats EXCEPT ![e] = [Count |-> count,
                              Time  |-> Append(@.Time, sample)]]

\* Mutant: the count goes down.
MutCountDown(stats, e, time, real) ==
    LET count == stats[e].Count - 1
        sample == [label |-> count, time |-> time, real |-> real]
    IN  [stats EXCEPT ![e] = [Count |-> count,
                              Time  |-> Append(@.Time, sample)]]

\* Lines 107-118: create the entry when it is new, count, label, push.
AddSample(stats, e, time, real) ==
    LET count == stats[e].Count + 1
        sample == [label |-> count, time |-> time, real |-> real]
    IN  [stats EXCEPT ![e] = [Count |-> count,
                              Time  |-> Append(@.Time, sample)]]

NoCallback == [stats |-> NoStats, list |-> {}, lost |-> FALSE]

NoRequest == [st |-> "none", route |-> "", status |-> 0, start |-> 0]

\* The event string method_route_status; the method is part of the route.
EventOf(r) == <<req[r].route, req[r].status>>

-----------------------------------------------------------------------------
Init ==
    /\ clock = 0
    /\ up = TRUE
    /\ s_time = 0
    /\ req = [r \in Requests |-> NoRequest]
    /\ pc = "idle"
    /\ cb = NoCallback
    /\ report = Unreadable(NoStats)
    /\ httpcode = Unreadable({})
    /\ faults = 0
    /\ healthy = {}

\* The event loop is free to run the next callback.
Idle == up /\ pc = "idle"

CanFail == faults < MaxFaults

\* A fault happens: nothing recorded so far is known to be on disk.
NoteFault == CanFail /\ faults' = faults + 1 /\ healthy' = {}

Tick ==
    /\ clock < MaxClock
    /\ clock' = clock + 1
    /\ UNCHANGED <<up, s_time, req, pc, cb, report, httpcode, faults, healthy>>

-----------------------------------------------------------------------------
(* Requests.                                                               *)

\* Mutant: the start time is left from an earlier request.
MutStartRequest(r, route) ==
    /\ Idle
    /\ req[r].st = "none"
    /\ req' = [req EXCEPT ![r] = [st |-> "open", route |-> route,
                                  status |-> 0, start |-> clock]]
    /\ UNCHANGED <<clock, up, s_time, pc, cb, report, httpcode, faults, healthy>>

\* A request reaches the middleware.
StartRequest(r, route) ==
    /\ Idle
    /\ req[r].st = "none"
    /\ s_time' = clock
    /\ req' = [req EXCEPT ![r] = [st |-> "open", route |-> route,
                                  status |-> 0, start |-> clock]]
    /\ UNCHANGED <<clock, up, pc, cb, report, httpcode, faults, healthy>>

\* What the routes that parse a file answer: 500 exactly when it throws.
AnswerOfFile(file, status) == (status = Failed) <=> ~file.ok

\* The handler of a request answers; other routes may answer anything.
Answer(r, status) ==
    /\ Idle
    /\ req[r].st = "open"
    /\ req[r].route \in ReportRoutes => AnswerOfFile(report, status)
    /\ req[r].route \in CodeRoutes => AnswerOfFile(httpcode, status)
    /\ req' = [req EXCEPT ![r].st = "answered", ![r].status = status]
    /\ UNCHANGED <<clock, up, s_time, pc, cb, report, httpcode, faults, healthy>>

\* The client goes away first: 'finish' is never emitted.
Abort(r) ==
    /\ Idle
    /\ req[r].st \in {"open", "answered"}
    /\ req' = [req EXCEPT ![r].st = "gone"]
    /\ UNCHANGED <<clock, up, s_time, pc, cb, report, httpcode, faults, healthy>>

-----------------------------------------------------------------------------
(* The 'finish' callback.                                                  *)

\* Mutant: only an empty list gets a new event.
MutListed(e, list) == list # {}

\* Line 123: list.includes(event).
Listed(e, list) == e \in list

\* Lines 103-123, given what the two reads returned.
Process(r, stats, list, lost) ==
    LET e == EventOf(r) IN
    /\ Idle
    /\ req[r].st = "answered"
    /\ req' = [req EXCEPT ![r].st = "done"]
    /\ cb' = [stats |-> AddSample(stats, e, clock - s_time, clock - req[r].start),
              list  |-> list \cup {e},
              lost  |-> lost]
    /\ pc' = IF Listed(e, list) THEN "dumpStats" ELSE "dumpHttpinfo"
    /\ UNCHANGED <<clock, up, s_time, report, httpcode>>

Finish(r) ==
    /\ Process(r, readStats(report), readHttpCode(httpcode), FALSE)
    /\ healthy' = healthy \cup {EventOf(r)}
    /\ UNCHANGED faults

\* readFileSync throws although the file is sound; {} is used instead.
FinishReadFails(r) ==
    /\ NoteFault
    /\ \/ Process(r, NoStats, readHttpCode(httpcode), TRUE)
       \/ Process(r, readStats(report), {}, FALSE)
       \/ Process(r, NoStats, {}, TRUE)

\* writeFileSync with flag w+ first opens and truncates the file.
OpenHttpinfo ==
    /\ pc = "dumpHttpinfo"
    /\ httpcode' = Unreadable({})
    /\ pc' = "writeHttpinfo"
    /\ UNCHANGED <<clock, up, s_time, req, cb, report, faults, healthy>>

\* Mutant: the callback returns without dumpStats.
MutReturnEarly ==
    /\ pc = "writeHttpinfo"
    /\ httpcode' = Written(cb.list)
    /\ pc' = "idle"
    /\ cb' = NoCallback
    /\ UNCHANGED <<clock, up, s_time, req, report, faults, healthy>>

WriteHttpinfo ==
    /\ pc = "writeHttpinfo"
    /\ httpcode' = Written(cb.list)
    /\ pc' = "dumpStats"
    /\ UNCHANGED <<clock, up, s_time, req, cb, report, faults, healthy>>

\* The error of the open or of the write is caught and logged.
HttpinfoFails ==
    /\ NoteFault
    /\ pc \in {"dumpHttpinfo", "writeHttpinfo"}
    /\ pc' = "dumpStats"
    /\ UNCHANGED <<clock, up, s_time, req, cb, report, httpcode>>

OpenStats ==
    /\ pc = "dumpStats"
    /\ report' = Unreadable(NoStats)
    /\ pc' = "writeStats"
    /\ UNCHANGED <<clock, up, s_time, req, cb, httpcode, faults, healthy>>

WriteStats ==
    /\ pc = "writeStats"
    /\ report' = Written(cb.stats)
    /\ pc' = "idle"
    /\ cb' = NoCallback
    /\ UNCHANGED <<clock, up, s_time, req, httpcode, faults, healthy>>

StatsFails ==
    /\ NoteFault
    /\ pc \in {"dumpStats", "writeStats"}
    /\ pc' = "idle"
    /\ cb' = NoCallback
    /\ UNCHANGED <<clock, up, s_time, req, report, httpcode>>

-----------------------------------------------------------------------------
(* The process dies, with every connection, and is started again.          *)

Die ==
    /\ up
    /\ up' = FALSE
    /\ pc' = "idle"
    /\ cb' = NoCallback
    /\ req' = [r \in Requests |->
                  IF req[r].st \in {"open", "answered"}
                  THEN [req[r] EXCEPT !.st = "gone"] ELSE req[r]]
    /\ UNCHANGED <<clock, s_time, report, httpcode>>

\* Between callbacks (an uncaught exception): no file is being written.
CrashIdle == Idle /\ Die /\ UNCHANGED <<faults, healthy>>

CrashInCallback == pc # "idle" /\ NoteFault /\ Die

Restart ==
    /\ ~up
    /\ up' = TRUE
    /\ s_time' = 0
    /\ UNCHANGED <<clock, req, pc, cb, report, httpcode, faults, healthy>>

-----------------------------------------------------------------------------
Callback == OpenHttpinfo \/ WriteHttpinfo \/ OpenStats \/ WriteStats

Next ==
    \/ Tick
    \/ \E r \in Requests, route \in Routes : StartRequest(r, route)
    \/ \E r \in Requests, status \in Statuses : Answer(r, status)
    \/ \E r \in Requests : Abort(r) \/ Finish(r) \/ FinishReadFails(r)
    \/ OpenHttpinfo \/ WriteHttpinfo \/ HttpinfoFails
    \/ OpenStats \/ WriteStats \/ StatsFails
    \/ CrashIdle \/ CrashInCallback \/ Restart

Spec == Init /\ [][Next]_vars

\* A callback that has begun runs on, and a response that is being sent is
\* either delivered or its connection is closed.
Fairness ==
    /\ WF_vars(Callback)
    /\ \A r \in Requests : WF_vars(Finish(r) \/ Abort(r))

FairSpec == Spec /\ Fairness

-----------------------------------------------------------------------------
(* Properties.                                                             *)

ReqStates == {"none", "open", "answered", "done", "gone"}
RequestRecords == [st : ReqStates, route : Routes \cup {""},
                   status : Statuses \cup {0}, start : 0..MaxClock]
Callbacks == [stats : [Events -> Entries], list : SUBSET Events, lost : BOOLEAN]
PcStates == {"idle", "dumpHttpinfo", "writeHttpinfo", "dumpStats", "writeStats"}

\* The type invariant: the values of the two module-level variables, of the
\* callback's locals and of the two files.
TypeOK ==
    /\ clock \in 0..MaxClock
    /\ up \in BOOLEAN
    /\ s_time \in 0..MaxClock
    /\ req \in [Requests -> RequestRecords]
    /\ pc \in PcStates
    /\ cb \in Callbacks
    /\ report \in [ok : BOOLEAN, data : [Events -> Entries]]
    /\ httpcode \in [ok : BOOLEAN, data : SUBSET Events]
    /\ faults \in 0..MaxFaults
    /\ healthy \in SUBSET Events

\* The Count of an entry is the number of its response times, and the N-th
\* one is named Response_time_N, the name under which drawChart looks it up.
EntryOK(entry) ==
    /\ entry.Count = Len(entry.Time)
    /\ \A i \in 1..Len(entry.Time) : entry.Time[i].label = i

\* Whatever is lost on the way, a report that parses is well formed: the
\* catch branch of line 119 is never taken.
ReportWellFormed == \A e \in Events : EntryOK(readStats(report)[e])

\* All requests share s_time, yet a recorded response time is never negative
\* and never longer than the request really took, across overlapping
\* requests, crashes and restarts.
TimesNeverOverstated ==
    \A e \in Events :
        \A i \in 1..Len(readStats(report)[e].Time) :
            LET s == readStats(report)[e].Time[i]
            IN  0 <= s.time /\ s.time <= s.real

\* Without faults the two files name the same events whenever no callback is
\* running, so drawChart finds an entry for every event of the list.
FilesAgree ==
    (faults = 0 /\ pc = "idle") =>
        Recorded(readStats(report)) = readHttpCode(httpcode)

\* However the files were damaged before, an event that has been recorded
\* since the last fault is in both of them.
RepairedByUse ==
    pc = "idle" =>
        /\ healthy \subseteq Recorded(readStats(report))
        /\ healthy \subseteq readHttpCode(httpcode)

\* The middleware implements the append-only log of ReportLog. While
\* report.json is open for writing the log is what is about to be written.
TimesOf(stats) ==
    [e \in Events |-> [i \in 1..Len(stats[e].Time) |-> stats[e].Time[i].time]]

LogNow == TimesOf(IF pc = "writeStats" THEN cb.stats ELSE readStats(report))
LossPending == pc \in {"dumpHttpinfo", "writeHttpinfo", "dumpStats"} /\ cb.lost

Log == INSTANCE ReportLog
           WITH Times <- 0..MaxClock, log <- LogNow, pending <- LossPending

LogRefined == Log!Spec

\* Every recorded response time is the time its request took, as line 52 and
\* the name Response_time_N say. Refuted: s_time is shared, and a request that
\* arrives later moves the start time of one still being answered.
ResponseTimesExact ==
    \A e \in Events :
        \A i \in 1..Len(readStats(report)[e].Time) :
            readStats(report)[e].Time[i].time = readStats(report)[e].Time[i].real

\* A response that has been handed to the socket adds one to the Count of its
\* event: however many callbacks of the same event run before its own, its
\* callback comes, ends, and leaves the report one sample longer than it found
\* it, unless its connection is lost or a fault happens after the answer.
CountOf(r) == readStats(report)[EventOf(r)].Count

FinishedIsRecorded ==
    \A r \in Requests, n \in 0..MaxFaults, c \in 0..Cardinality(Requests) :
        (req[r].st = "answered" /\ pc = "idle" /\ faults = n /\ CountOf(r) = c)
            ~> /\ pc = "idle"
               /\ \/ req[r].st = "gone"
                  \/ faults > n
                  \/ req[r].st = "done" /\ CountOf(r) > c
=============================================================================
