------------------------------ MODULE BootGraph -------------------------------
(***************************************************************************)
(* The boot graph (3-3/src/start.js 611-686). The answer to /bootgraph is  *)
(* written to cur_bootgraph.txt; then a shell runs                         *)
(*   cat cur_bootgraph.txt | perl bootgraph.pl > cur_bootgraph.svg .       *)
(* Nothing keeps two of these jobs apart, and the routes that serve the    *)
(* two files to the boot page do not wait for them. The server is that of  *)
(* BmcProxy: an exception in any callback ends a write, and not a shell.   *)
(*                                                                         *)
(* A file holds a log (or the graph of it), or is empty, or mixed: bytes   *)
(* of two logs. Both files are part of the repository.                     *)
(***************************************************************************)
EXTENDS BmcProxy

CONSTANTS
    Logs,         \* the boot logs the BMC may send
    StoredLog,    \* the one whose log and graph are part of the repository
    Empty,        \* a file that was opened for writing
    Mixed,        \* a file two jobs have written
    Registered,   \* what the routes of registered versions send
    Blank         \* a part of the page that shows nothing

ASSUME FileAssumption ==
    /\ StoredLog \in Logs
    /\ Empty \notin Logs /\ Mixed \notin Logs /\ Registered \notin Logs
    /\ Empty # Mixed

Contents == Logs \cup {Empty, Mixed}
Shown == Contents \cup {Registered, Blank}

VARIABLES
    txt,      \* cur_bootgraph.txt
    svg,      \* cur_bootgraph.svg: the log it is drawn from
    job,      \* how far each /bootgraph request has come
    data,     \* what a job writes or has read, and what a file request has read
    graph,    \* what the page shows in pie_chart
    rows,     \* what it shows in line_chart
    doubt,    \* history: jobs have overlapped, or one has ended early
    steady    \* history: no job has begun and nothing else was asked for since
              \* the page asked for the charts of the present log

files == <<txt, svg>>
charts == <<graph, rows>>
graphVars == <<files, job, data, charts, doubt, steady>>

Stages == {"none", "write", "opened", "spawned", "catted", "piped", "read", "over"}
Active(i) == job[i] \notin {"none", "over"}
Quiet == \A i \in Ids : ~Active(i)

GraphInit ==
    /\ Init
    /\ txt = StoredLog
    /\ svg = StoredLog
    /\ job = [i \in Ids |-> "none"]
    /\ data = [i \in Ids |-> Empty]
    /\ graph = Blank
    /\ rows = Blank
    /\ doubt = FALSE
    /\ steady = FALSE

-----------------------------------------------------------------------------
(* The jobs.                                                               *)

\* The BMC's answer: it is passed on, and fs.writeFile is called with the log (an
\* answer without one ends the server, as ErrorThrown does). A job that begins
\* alone writes both files anew.
BeginWrite(i, log) ==
    /\ Return(i)
    /\ kind[i] = "bootgraph"
    /\ job' = [job EXCEPT ![i] = "write"]
    /\ data' = [data EXCEPT ![i] = log]
    /\ doubt' = ~Quiet
    /\ steady' = FALSE
    /\ UNCHANGED <<files, charts>>

\* Mutant: the file is opened without truncating it (flag r+).
MutOpenTxt(i) ==
    /\ up
    /\ job[i] = "write"
    /\ job' = [job EXCEPT ![i] = "opened"]
    /\ UNCHANGED <<vars, files, data, charts, doubt, steady>>

\* writeFile opens, and truncates.
OpenTxt(i) ==
    /\ up
    /\ job[i] = "write"
    /\ job' = [job EXCEPT ![i] = "opened"]
    /\ txt' = Empty
    /\ UNCHANGED <<vars, svg, data, charts, doubt, steady>>

\* Writing new from the start of a file that holds old: the longer of two logs
\* of one boot, or the rest of the old one behind the new.
Overwritten(new, old) == IF old \in {Empty, new} THEN {new} ELSE {new, old, Mixed}

\* It writes; its callback starts the shell.
WriteTxt(i) ==
    /\ up
    /\ job[i] = "opened"
    /\ txt' \in Overwritten(data[i], txt)
    /\ job' = [job EXCEPT ![i] = "spawned"]
    /\ UNCHANGED <<vars, svg, data, charts, doubt, steady>>

\* It fails, and the callback logs the error.
WriteFails(i) ==
    /\ up
    /\ job[i] \in {"write", "opened"}
    /\ job' = [job EXCEPT ![i] = "over"]
    /\ doubt' = TRUE
    /\ UNCHANGED <<vars, files, data, charts, steady>>

\* The shell starts the two sides of the pipe. perl's side truncates the graph.
OpenSvg(i) ==
    /\ job[i] \in {"spawned", "catted"}
    /\ job' = [job EXCEPT ![i] = IF job[i] = "spawned" THEN "piped" ELSE "read"]
    /\ svg' = Empty
    /\ UNCHANGED <<vars, txt, data, charts, doubt, steady>>

\* cat reads what the log file holds by now.
Cat(i) ==
    /\ job[i] \in {"spawned", "piped"}
    /\ job' = [job EXCEPT ![i] = IF job[i] = "spawned" THEN "catted" ELSE "read"]
    /\ data' = [data EXCEPT ![i] = txt]
    /\ UNCHANGED <<vars, files, charts, doubt, steady>>

\* bootgraph.pl draws the log when it has read all of it.
DrawSvg(i) ==
    /\ job[i] = "read"
    /\ data[i] # Empty
    /\ svg' \in IF svg \in {Empty, data[i]} THEN {data[i]} ELSE {data[i], Mixed}
    /\ job' = [job EXCEPT ![i] = "over"]
    /\ UNCHANGED <<vars, txt, data, charts, doubt, steady>>

\* Without a log it prints nothing; it may also not run at all.
DrawFails(i) ==
    /\ job[i] = "read"
    /\ job' = [job EXCEPT ![i] = "over"]
    /\ doubt' = TRUE
    /\ UNCHANGED <<vars, files, data, charts, steady>>

\* The server ends while jobs write: they are cut. Shells go on.
ServerDies(i) ==
    /\ ErrorThrown(i)
    /\ job' = [j \in Ids |-> IF job[j] \in {"write", "opened"} THEN "over" ELSE job[j]]
    /\ doubt' = (doubt \/ \E j \in Ids : job[j] \in {"write", "opened"})
    /\ UNCHANGED <<files, data, charts, steady>>

-----------------------------------------------------------------------------
(* The charts of the boot page.                                            *)

\* A request whose answer will be drawn is under way.
Expected(i) == kind[i] \in FromDisk /\ conn[i] \in {"queued", "open"}

\* The last version is deselected: both charts are emptied and asked for. What
\* was asked for earlier is not cancelled, and may be drawn over them.
Draw ==
    /\ AskCharts
    /\ graph' = Blank
    /\ rows' = Blank
    /\ steady' = (Quiet /\ ~doubt /\ ~\E i \in Ids : Expected(i))
    /\ UNCHANGED <<files, job, data, doubt>>

\* Versions are selected: their graph and their drivers are asked for, each in
\* a request of its own; and so are the tree and the texts of the code view.
Select(k) ==
    /\ AskOf(k)
    /\ steady' = (steady /\ k \in Code)
    /\ UNCHANGED <<files, job, data, charts, doubt>>

\* A click on a heading of a chart's table: the drivers that have arrived last
\* are drawn again, and a graph is asked for (func_name_handler and its like).
Sort ==
    /\ rows # Blank
    /\ \E i \in Ids : kind[i] = "device_driver_info" /\ conn[i] = "closed"
    /\ AskOf("bootgraph/kernel")
    /\ rows' = Registered
    /\ steady' = FALSE
    /\ UNCHANGED <<files, job, data, graph, doubt>>

\* Mutant: the graph is answered before readFile calls back.
MutReadFile(i) ==
    /\ ServeFile(i)
    /\ data' = [data EXCEPT ![i] = IF kind[i] = "bootgraph/current" THEN Empty ELSE txt]
    /\ UNCHANGED <<files, job, charts, doubt, steady>>

\* The handler reads its file, whatever is in it.
ReadFile(i) ==
    /\ ServeFile(i)
    /\ data' = [data EXCEPT ![i] = CASE kind[i] = "bootgraph/current" -> svg
                                     [] kind[i] = "bootgraph/cur_dmesg" -> txt
                                     [] OTHER -> @]
    /\ UNCHANGED <<files, job, charts, doubt, steady>>

\* The answer is drawn over what is there, whatever has been asked for since.
Show(i) ==
    /\ Deliver(i)
    /\ graph' = CASE kind[i] = "bootgraph/current" -> data[i]
                  [] kind[i] = "bootgraph/kernel" -> Registered
                  [] OTHER -> graph
    /\ rows' = CASE kind[i] = "bootgraph/cur_dmesg" -> data[i]
                 [] kind[i] = "device_driver_info" -> Registered
                 [] OTHER -> rows
    /\ UNCHANGED <<files, job, data, doubt, steady>>

LoadPage ==
    /\ Reload
    /\ graph' = Blank
    /\ rows' = Blank
    /\ UNCHANGED <<files, job, data, doubt, steady>>

-----------------------------------------------------------------------------
GraphNext ==
    \/ Draw \/ Sort \/ LoadPage
    \/ \E k \in Kinds : Select(k)
    \/ \E i \in Ids : \E log \in Logs : BeginWrite(i, log)
    \/ \E i \in Ids :
          \/ OpenTxt(i) \/ WriteTxt(i) \/ WriteFails(i) \/ OpenSvg(i) \/ Cat(i)
          \/ DrawSvg(i) \/ DrawFails(i) \/ ServerDies(i) \/ ReadFile(i) \/ Show(i)
    \/ /\ \/ FanClick \/ Poll \/ AskInfo \/ Restart
          \/ \E k \in Kinds : AskElsewhere(k)
          \/ \E i \in Ids :
                \/ Forward(i) \/ Forget(i) \/ Refused(i) \/ Drop(i) \/ Handle(i) \/ Vanish(i)
                \/ Return(i) /\ kind[i] # "bootgraph"
                \/ \E c \in {"over", "adrift"} : ErrorLogged(i, c)
       /\ UNCHANGED graphVars

GraphSpec == GraphInit /\ [][GraphNext]_<<vars, graphVars>>

\* The browser gives its connections away, the server's handlers and callbacks
\* run, answers arrive, and the BMC answers what it is asked (assumed: the
\* server sets no limit to the time a request to it may take).
Fairness ==
    /\ WF_<<vars, graphVars>>(\E i \in Ids : ReadFile(i) \/ Show(i))
    /\ WF_<<vars, graphVars>>(UNCHANGED graphVars /\
           \E i \in Ids : Forward(i) \/ Refused(i))
    /\ WF_<<vars, graphVars>>(UNCHANGED graphVars /\ \E i \in Ids : Handle(i))
    /\ WF_<<vars, graphVars>>(\/ \E i \in Ids, log \in Logs : BeginWrite(i, log)
                              \/ /\ \E i \in Ids : Return(i) /\ kind[i] # "bootgraph"
                                 /\ UNCHANGED graphVars)

GraphFairSpec == GraphSpec /\ Fairness

-----------------------------------------------------------------------------
(* Properties.                                                             *)

\* The type invariant of the files, the jobs and the charts.
GraphTypeOK ==
    /\ txt \in Contents
    /\ svg \in Contents
    /\ job \in [Ids -> Stages]
    /\ data \in [Ids -> Contents]
    /\ graph \in Shown
    /\ rows \in Shown
    /\ doubt \in BOOLEAN
    /\ steady \in BOOLEAN

\* At rest the graph is drawn from the log beside it, both complete, unless
\* jobs have overlapped or one was cut or failed; and one job that runs alone
\* repairs both files (start.js 618-633: two requests write the same files).
GraphIsOfLog == Quiet /\ ~doubt => txt \in Logs /\ svg = txt

\* The two charts of the page are of one log, complete, when they were asked for
\* with nothing else to be drawn under way, and no job has begun and no version
\* was selected since: neither route waits for a running job (start.js 637-645,
\* 675-680), and every answer is drawn (script.js 488-735).
ChartsAgree == steady /\ graph # Blank /\ rows # Blank => graph = rows /\ graph \in Logs

\* Every request the page makes is carried through or fails, unless requests that
\* are never answered, those of the fan and of the code view, hold all of the
\* browser's connections: then even the command that turns the fan off stays in
\* its queue (script.js 347, 350-363).
RequestsServed ==
    \A i \in Ids :
        (conn[i] = "queued") ~> (conn[i] = "closed" \/ call[i] = "over" \/ Exhausted)
=============================================================================
