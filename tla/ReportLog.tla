------------------------------ MODULE ReportLog ------------------------------
(***************************************************************************)
(* What the request middleware of 3-3/src/start.js promises about          *)
(* report.json: an append-only log of response times per event, of which   *)
(* each fault of the file system or the process can lose                   *)
(* either nothing or everything, never a part.                             *)
(***************************************************************************)
EXTENDS Naturals, Sequences

CONSTANTS Events,    \* method, route and status of an answered request
          Times      \* the values a response time may have

VARIABLES
    log,       \* the recorded response times of each event
    pending,   \* a failed read will make the next record replace the log
    faults     \* failed reads, failed writes and crashes within a write

logVars == <<log, pending, faults>>

EmptyLog == [e \in Events |-> <<>>]

Init ==
    /\ log = EmptyLog
    /\ pending = FALSE
    /\ faults = 0

\* One answered request is added to the log of its event.
Record(e, t) ==
    /\ ~pending
    /\ log' = [log EXCEPT ![e] = Append(@, t)]
    /\ UNCHANGED <<pending, faults>>

\* A fault keeps the log or loses it as a whole.
Fault ==
    /\ faults' = faults + 1
    /\ log' \in {log, EmptyLog}
    /\ pending' \in BOOLEAN

\* After a failed read, the record is all that is left.
RecordAlone(e, t) ==
    /\ pending
    /\ log' = [EmptyLog EXCEPT ![e] = <<t>>]
    /\ pending' = FALSE
    /\ UNCHANGED faults

Next ==
    \/ \E e \in Events, t \in Times : Record(e, t) \/ RecordAlone(e, t)
    \/ Fault

Spec == Init /\ [][Next]_logVars
=============================================================================
