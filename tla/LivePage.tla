------------------------------- MODULE LivePage -------------------------------
(***************************************************************************)
(* The two charts of the application page that follow the BMC: the CPU     *)
(* usage (3-3/public/cpuUsageChart.js) and the processes                   *)
(* (processStatus.js). second.html loads these scripts async and           *)
(* secondpage_script.js deferred, so that they run in any order, and two   *)
(* of them define a global function drawChart.                             *)
(*                                                                         *)
(* A timer takes the oldest row off a full chart and asks for a new one;   *)
(* the answers come later, in any order, or not at all. A chart is the     *)
(* number of its rows.                                                     *)
(***************************************************************************)
EXTENDS Integers, Sequences

CONSTANTS
    Procs,        \* the processes the BMC may report
    Null,         \* no process is selected
    Window,       \* the rows of a full chart: 10 in the code
    MaxPending,   \* bound on the requests of one chart under way
    MaxExtra      \* bound on the answers and clicks of the process chart

ASSUME WindowAssumption == Window \in Nat /\ Window > 2
ASSUME ProcAssumption == Null \notin Procs
ASSUME BoundAssumption == MaxPending \in Nat /\ MaxExtra \in Nat

\* secondpage_script.js, cpuUsageChart.js and processStatus.js.
Scripts == {"second", "cpu", "proc"}
NoData == -1

VARIABLES
    ran,        \* the scripts that have run, in their order
    called,     \* the scripts whose setOnLoadCallback function has run
    rows,       \* rows of the CPU chart's data, or NoData
    pending,    \* requests for /cpu/usage under way
    peak,       \* history: the most that were ever under way
    rows2,      \* rows of the process chart's data, or NoData
    pending2,   \* requests for /process_info under way
    peak2,      \* history: the most that were ever under way
    selected,   \* selectedProcessor
    buttons,    \* the processes that have a button
    extra,      \* history: answers used and buttons clicked
    created,    \* history: calls of createButtons
    recent      \* the processes of the last two rows of the process chart

scripts == <<ran, called>>
cpu == <<rows, pending, peak>>
proc == <<rows2, pending2, peak2, selected, buttons, extra, created, recent>>
vars == <<scripts, cpu, proc>>

Init ==
    /\ ran = <<>>
    /\ called = {}
    /\ rows = NoData
    /\ pending = 0
    /\ peak = 0
    /\ rows2 = NoData
    /\ pending2 = 0
    /\ peak2 = 0
    /\ selected = Null
    /\ buttons = {}
    /\ extra = 0
    /\ created = 0
    /\ recent = <<Null, Null>>

HasRun(s) == \E i \in DOMAIN ran : ran[i] = s

-----------------------------------------------------------------------------
(* The scripts.                                                            *)

Run(s) ==
    /\ ~HasRun(s)
    /\ ran' = Append(ran, s)
    /\ UNCHANGED <<called, cpu, proc>>

\* The global name drawChart stands for the function of the CPU chart: its
\* script has run, and secondpage_script.js has not run after it.
DrawsCpu ==
    \E i \in DOMAIN ran : ran[i] = "cpu" /\ \A j \in DOMAIN ran : ran[j] = "second" => j < i

\* The chart library is loaded and calls back. secondpage_script.js has passed
\* its own function, which ResponseChart models; cpuUsageChart.js looks
\* drawChart up now, and draws the response-time chart if it was replaced.
OnLoadSecond ==
    /\ HasRun("second") /\ "second" \notin called
    /\ called' = called \cup {"second"}
    /\ UNCHANGED <<ran, cpu, proc>>

OnLoadCpu ==
    /\ HasRun("cpu") /\ "cpu" \notin called
    /\ called' = called \cup {"cpu"}
    /\ rows' = IF DrawsCpu THEN 2 ELSE rows
    /\ UNCHANGED <<ran, pending, peak, proc>>

OnLoadProc ==
    /\ HasRun("proc") /\ "proc" \notin called
    /\ called' = called \cup {"proc"}
    /\ rows2' = 2
    /\ UNCHANGED <<ran, cpu, pending2, peak2, selected, buttons, extra, created, recent>>

-----------------------------------------------------------------------------
(* The timers. Without data a timer function ends in a TypeError. The      *)
(* address of the server is a variable of secondpage_script.js: before     *)
(* that has run, fetch is not reached.                                     *)

\* Mutant: a chart of Window + 1 rows counts as full.
MutFull(n) == n > Window

Full(n) == n >= Window
Trimmed(n) == IF Full(n) THEN n - 1 ELSE n

\* animateRenewal, up to its fetch.
TickCpu ==
    /\ HasRun("cpu")
    /\ rows # NoData
    /\ pending < MaxPending                                      \* bound
    /\ rows' = Trimmed(rows)
    /\ pending' = IF HasRun("second") THEN pending + 1 ELSE pending
    /\ peak' = IF pending' > peak THEN pending' ELSE peak
    /\ UNCHANGED <<scripts, proc>>

\* animateRenewal2, up to its fetch.
TickProc ==
    /\ HasRun("proc")
    /\ rows2 # NoData
    /\ pending2 < MaxPending                                     \* bound
    /\ rows2' = Trimmed(rows2)
    /\ pending2' = IF HasRun("second") THEN pending2 + 1 ELSE pending2
    /\ peak2' = IF pending2' > peak2 THEN pending2' ELSE peak2
    /\ UNCHANGED <<scripts, cpu, selected, buttons, extra, created, recent>>

-----------------------------------------------------------------------------
(* The answers. A failed request, or an answer that is not JSON, is a      *)
(* rejected promise that nobody handles.                                   *)

\* A row is added; which chart drawChart then draws is left out.
AnswerCpu ==
    /\ pending > 0
    /\ pending' = pending - 1
    /\ rows' = rows + 1
    /\ UNCHANGED <<scripts, peak, proc>>

FailCpu ==
    /\ pending > 0
    /\ pending' = pending - 1
    /\ UNCHANGED <<scripts, rows, peak, proc>>

\* Mutant: the row of initializeChartAndButtons is added twice.
MutAnswerProc(procs, p, f) ==
    /\ pending2 > 0
    /\ pending2' = pending2 - 1
    /\ extra < MaxExtra
    /\ p \in procs /\ f \in procs
    /\ IF selected = Null THEN p = f ELSE p = selected
    /\ selected' = p
    /\ rows2' = rows2 + 3
    /\ recent' = <<f, f>>
    /\ buttons' = procs
    /\ created' = created + 1
    /\ extra' = extra + 1
    /\ UNCHANGED <<scripts, cpu, peak2>>

\* Mutant: the process is the one that was selected at the time of the request.
MutAnswerOfAsked(procs, p, f) ==
    /\ pending2 > 0
    /\ pending2' = pending2 - 1
    /\ extra < MaxExtra
    /\ p \in procs /\ f \in procs
    /\ selected = Null => p = f
    /\ selected' = IF selected = Null THEN p ELSE selected
    /\ rows2' = rows2 + 2
    /\ recent' = <<p, f>>
    /\ buttons' = procs
    /\ created' = created + 1
    /\ extra' = extra + 1
    /\ UNCHANGED <<scripts, cpu, peak2>>

\* The processes procs are reported, f first. p is the selected one, which is f
\* when none was selected. Its row is added; then initializeChartAndButtons
\* makes the buttons, adds a row of f, whatever is selected, and ends in a
\* ReferenceError (json is not defined there), so that initialized stays false
\* and the next answer does the same.
AnswerProc(procs, p, f) ==
    /\ pending2 > 0
    /\ pending2' = pending2 - 1
    /\ extra < MaxExtra                                          \* bound
    /\ p \in procs /\ f \in procs
    /\ IF selected = Null THEN p = f ELSE p = selected
    /\ selected' = p
    /\ rows2' = rows2 + 2
    /\ recent' = <<p, f>>
    /\ buttons' = procs
    /\ created' = created + 1
    /\ extra' = extra + 1
    /\ UNCHANGED <<scripts, cpu, peak2>>

\* Mutant: the buttons are made before the selected process is looked up.
MutAnswerWithoutProc ==
    /\ pending2 > 0
    /\ pending2' = pending2 - 1
    /\ created' = created + 1
    /\ UNCHANGED <<scripts, cpu, rows2, peak2, selected, buttons, extra, recent>>

\* The selected process is gone, or none is reported: a TypeError before the
\* row is added. A failed request changes as little.
AnswerWithoutProc ==
    /\ pending2 > 0
    /\ pending2' = pending2 - 1
    /\ UNCHANGED <<scripts, cpu, rows2, peak2, selected, buttons, extra, created, recent>>

\* A click on a button: the process is selected, and a row is added from the
\* answer that made the button.
ClickProc(p) ==
    /\ p \in buttons
    /\ extra < MaxExtra                                          \* bound
    /\ selected' = p
    /\ rows2' = rows2 + 1
    /\ recent' = <<recent[2], p>>
    /\ extra' = extra + 1
    /\ UNCHANGED <<scripts, cpu, pending2, peak2, buttons, created>>

Next ==
    \/ \E s \in Scripts : Run(s)
    \/ OnLoadSecond \/ OnLoadCpu \/ OnLoadProc
    \/ TickCpu \/ AnswerCpu \/ FailCpu
    \/ TickProc \/ AnswerWithoutProc
    \/ \E procs \in SUBSET Procs, p, f \in Procs : AnswerProc(procs, p, f)
    \/ \E p \in Procs : ClickProc(p)

Spec == Init /\ [][Next]_vars

-----------------------------------------------------------------------------
\* The type invariant of the page. The buttons are made at most once per
\* answer, and a script is called back only after it has run.
TypeOK ==
    /\ ran \in Seq(Scripts)
    /\ called \subseteq {s \in Scripts : HasRun(s)}
    /\ rows \in Nat \cup {NoData}
    /\ pending \in 0..MaxPending
    /\ peak \in pending..MaxPending
    /\ rows2 \in Nat \cup {NoData}
    /\ pending2 \in 0..MaxPending
    /\ peak2 \in pending2..MaxPending
    /\ selected \in Procs \cup {Null}
    /\ buttons \subseteq Procs
    /\ extra \in 0..MaxExtra
    /\ created \in 0..extra
    /\ recent \in (Procs \cup {Null}) \X (Procs \cup {Null})

\* The CPU chart has at most Window rows as long as every answer comes before
\* the next tick, and one more for every request that was under way at once:
\* the timer removes a row only from a full chart (cpuUsageChart.js 62-64), and
\* late answers all find it short of one.
CpuWindow == rows + pending <= Window - 1 + peak

\* The same holds of the process chart, but for a further row per answer and
\* per click: processStatus.js 77-79 removes one row per tick, and each answer
\* adds two (98, 48).
ProcWindow == rows2 + pending2 <= Window - 1 + peak2 + extra

\* The process chart shows the selected process: one of its last two rows is
\* of it, whatever was clicked while requests were under way, for the answer is
\* read by what is selected when it arrives (processStatus.js 93), and the
\* further row of the first process (42, 48) hides no more than one row.
SelectedIsShown == selected # Null => selected \in {recent[1], recent[2]}
=============================================================================
