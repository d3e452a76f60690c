------------------------------- MODULE BmcProxy -------------------------------
(***************************************************************************)
(* The routes of 3-3/src/start.js that forward a request to the BMC, the   *)
(* fan button of the boot page (3-3/public/script.js) that uses them, and  *)
(* the connections the browser has for the page.                           *)
(*                                                                         *)
(* Four kinds of routes: some answer with the BMC's answer and throw when  *)
(* there is none, which ends the server; the fan routes and                *)
(* /cpu/usagestop only log, and keep their client waiting; some answer     *)
(* from the disk; and those of the code view answer, throw, or forget      *)
(* their client. Requests are numbered in the order in which they were     *)
(* made.                                                                   *)
(***************************************************************************)
EXTENDS Naturals, FiniteSets

CONSTANTS
    MaxConn,      \* connections of a browser to one server: 6 in practice
    MaxRequests   \* bound on the requests of a behaviour

ASSUME ConnAssumption == MaxConn \in Nat \ {0}
ASSUME RequestAssumption == MaxRequests \in Nat

Ids == 1..MaxRequests

Commands == {"fan/do", "fan/end"}
Silent == Commands \cup {"fan", "cpu/usagestop"}        \* never answered
Answering == {"cpuinfo/on", "bootgraph"}                \* res.json(JSON.parse(body))
Versioned == {"bootgraph/kernel", "device_driver_info"} \* of registered versions
FromDisk == {"bootgraph/current", "bootgraph/cur_dmesg"} \cup Versioned
Code == {"code"}                                        \* getDirectoryJSON, viewFile
Kinds == Silent \cup Answering \cup FromDisk \cup Code

VARIABLES
    flag,       \* the page's flag: 1 after a request to turn the fan on
    timer,      \* the interval that calls get_fan_info runs
    next,       \* the number of the next request
    kind,       \* the route of each request
    conn,       \* its connection: "none", "queued", "open", "closed", or "other"
                \* for one of another client
    call,       \* the server's request to the BMC: "none", "sent", "handled",
                \* "adrift" (nobody waits for its answer) or "over": the server
                \* does nothing more for it
    up,         \* the server runs
    fan,        \* the BMC's fan is on
    applied,    \* history: the commands the BMC has carried out
    calm,       \* history: no command was on its way at the last click
    reloaded    \* history: the page was loaded after the last click

page == <<flag, timer>>
requests == <<next, kind, conn, call>>
bmc == <<fan, applied>>
clicks == <<calm, reloaded>>
vars == <<page, requests, up, bmc, clicks>>

Init ==
    /\ flag = 0
    /\ timer = FALSE
    /\ next = 1
    /\ kind = [i \in Ids |-> "unused"]
    /\ conn = [i \in Ids |-> "none"]
    /\ call = [i \in Ids |-> "none"]
    /\ up = TRUE
    /\ fan = FALSE
    /\ applied = {}
    /\ calm = TRUE
    /\ reloaded = FALSE

Opened == {i \in Ids : conn[i] = "open"}

\* A command that may still reach the BMC.
OnItsWay(i) ==
    kind[i] \in Commands /\ (conn[i] = "queued" \/ call[i] \in {"sent", "adrift"})

-----------------------------------------------------------------------------
(* The boot page. fetch puts a request into the browser's queue.           *)

Queue(k) ==
    /\ next <= MaxRequests                                       \* bound
    /\ kind' = [kind EXCEPT ![next] = k]
    /\ conn' = [conn EXCEPT ![next] = "queued"]
    /\ next' = next + 1
    /\ UNCHANGED call

\* Mutant: the flag is tested before it is switched.
MutFanClick ==
    /\ flag' = 1 - flag
    /\ timer' = (flag = 0)
    /\ Queue(IF flag = 1 THEN "fan/do" ELSE "fan/end")
    /\ calm' = ~\E i \in Ids : OnItsWay(i)
    /\ reloaded' = FALSE
    /\ UNCHANGED <<up, bmc>>

\* fan_mode_handler.
FanClick ==
    /\ flag' = 1 - flag
    /\ timer' = (flag = 0)
    /\ Queue(IF flag = 0 THEN "fan/do" ELSE "fan/end")
    /\ calm' = ~\E i \in Ids : OnItsWay(i)
    /\ reloaded' = FALSE
    /\ UNCHANGED <<up, bmc>>

\* get_fan_info, once a second.
Poll ==
    /\ timer
    /\ Queue("fan")
    /\ UNCHANGED <<page, up, bmc, clicks>>

\* get_CPU_Memory_INFO_handler.
AskInfo ==
    /\ Queue("cpuinfo/on")
    /\ UNCHANGED <<page, up, bmc, clicks>>

\* A chart of registered versions, or the tree or the text of the code view.
AskOf(k) ==
    /\ k \in Versioned \cup Code
    /\ Queue(k)
    /\ UNCHANGED <<page, up, bmc, clicks>>

\* drawChart() for the present boot log, two requests at once.
AskCharts ==
    /\ next < MaxRequests                                        \* bound
    /\ kind' = [kind EXCEPT ![next] = "bootgraph/current",
                            ![next + 1] = "bootgraph/cur_dmesg"]
    /\ conn' = [conn EXCEPT ![next] = "queued", ![next + 1] = "queued"]
    /\ next' = next + 2
    /\ UNCHANGED <<page, call, up, bmc, clicks>>

\* The page is loaded again or left for the other one: what it has asked for
\* is forgotten by the browser, and not by the server.
Reload ==
    /\ flag' = 0
    /\ timer' = FALSE
    /\ conn' = [i \in Ids |-> IF conn[i] \in {"queued", "open"} THEN "closed" ELSE conn[i]]
    /\ reloaded' = TRUE
    /\ UNCHANGED <<next, kind, call, up, bmc, calm>>

-----------------------------------------------------------------------------
(* The browser: a request gets a connection in its turn.                   *)

InTurn(i) == conn[i] = "queued" /\ \A j \in Ids : j < i => conn[j] # "queued"

\* Mutant: any number of connections.
MutHasConnection(i) == InTurn(i) /\ up

HasConnection(i) == InTurn(i) /\ up /\ Cardinality(Opened) < MaxConn

\* The server is down: fetch is rejected.
Refused(i) ==
    /\ InTurn(i) /\ ~up
    /\ conn' = [conn EXCEPT ![i] = "closed"]
    /\ UNCHANGED <<page, next, kind, call, up, bmc, clicks>>

\* The browser, the network or the host gives a request up.
Drop(i) ==
    /\ conn[i] = "open"
    /\ conn' = [conn EXCEPT ![i] = "closed"]
    /\ UNCHANGED <<page, next, kind, call, up, bmc, clicks>>

-----------------------------------------------------------------------------
(* The server.                                                             *)

\* A handler passes the request on with rq.get or rq.post.
Forward(i) ==
    /\ HasConnection(i)
    /\ kind[i] \in Silent \cup Answering
    /\ conn' = [conn EXCEPT ![i] = "open"]
    /\ call' = [call EXCEPT ![i] = "sent"]
    /\ UNCHANGED <<page, next, kind, up, bmc, clicks>>

\* Other clients ask too: no page asks for /bootgraph, and /cpu/usagestop is
\* asked for by the application page.
AskElsewhere(k) ==
    /\ k \in {"bootgraph", "cpu/usagestop"}
    /\ up
    /\ next <= MaxRequests                                       \* bound
    /\ kind' = [kind EXCEPT ![next] = k]
    /\ conn' = [conn EXCEPT ![next] = "other"]
    /\ call' = [call EXCEPT ![next] = "sent"]
    /\ next' = next + 1
    /\ UNCHANGED <<page, up, bmc, clicks>>

\* A handler answers from the disk.
ServeFile(i) ==
    /\ HasConnection(i)
    /\ kind[i] \in FromDisk \cup Code
    /\ conn' = [conn EXCEPT ![i] = "open"]
    /\ UNCHANGED <<page, next, kind, call, up, bmc, clicks>>

\* Mutant: the connection is not given back (res.write without an end).
MutDeliver(i) ==
    /\ conn[i] = "open" /\ call[i] = "none"
    /\ kind[i] \in FromDisk \cup Code
    /\ UNCHANGED <<page, next, kind, conn, call, up, bmc, clicks>>

\* Its answer reaches the page.
Deliver(i) ==
    /\ conn[i] = "open" /\ call[i] = "none"
    /\ kind[i] \in FromDisk \cup Code
    /\ conn' = [conn EXCEPT ![i] = "closed"]
    /\ UNCHANGED <<page, next, kind, call, up, bmc, clicks>>

\* The compared versions do not differ, or the file is not among the
\* differences: the handler returns without an answer.
Forget(i) ==
    /\ conn[i] = "open" /\ call[i] = "none"
    /\ kind[i] \in Code
    /\ call' = [call EXCEPT ![i] = "over"]
    /\ UNCHANGED <<page, next, kind, conn, up, bmc, clicks>>

\* The callback has a body: it is answered to the client, or only logged.
Return(i) ==
    /\ up
    /\ call[i] = "handled"
    /\ call' = [call EXCEPT ![i] = "over"]
    /\ conn' = IF kind[i] \in Answering THEN [conn EXCEPT ![i] = "closed"] ELSE conn
    /\ UNCHANGED <<page, next, kind, up, bmc, clicks>>

\* The callback of a silent route has an error, which it does not look at.
ErrorLogged(i, c) ==
    /\ up
    /\ call[i] \in {"sent", "handled"}
    /\ kind[i] \in Silent
    /\ call' = [call EXCEPT ![i] = IF call[i] = "sent" THEN c ELSE "over"]
    /\ UNCHANGED <<page, next, kind, conn, up, bmc, clicks>>

\* The callback may have nothing to work with: the BMC has not answered, or the
\* file that viewFile reads is gone.
MayThrow(i) ==
    \/ kind[i] \in Answering /\ call[i] \in {"sent", "handled"}
    \/ kind[i] \in Code /\ conn[i] = "open" /\ call[i] = "none"

\* Mutant: the exception is caught, and nothing is answered.
MutErrorThrown(i) ==
    /\ up
    /\ MayThrow(i)
    /\ call' = [call EXCEPT ![i] = "over"]
    /\ UNCHANGED <<page, next, kind, conn, up, bmc, clicks>>

\* JSON.parse(undefined), data.toString() or fs.writeFile(.., undefined) throws
\* in a callback: nobody catches, the server ends with every connection. What it
\* has sent may still be carried out.
ErrorThrown(i) ==
    /\ up
    /\ MayThrow(i)
    /\ up' = FALSE
    /\ conn' = [j \in Ids |-> IF conn[j] \in {"open", "other"} THEN "closed" ELSE conn[j]]
    /\ call' = [j \in Ids |-> CASE call[j] = "sent" -> "adrift"
                                [] call[j] = "handled" -> "over"
                                [] OTHER -> call[j]]
    /\ UNCHANGED <<page, next, kind, bmc, clicks>>

Restart ==
    /\ ~up
    /\ up' = TRUE
    /\ UNCHANGED <<page, requests, bmc, clicks>>

-----------------------------------------------------------------------------
(* The BMC, in any order.                                                  *)

Handle(i) ==
    /\ call[i] \in {"sent", "adrift"}
    /\ call' = [call EXCEPT ![i] = IF call[i] = "sent" THEN "handled" ELSE "over"]
    /\ fan' = IF kind[i] \in Commands THEN kind[i] = "fan/do" ELSE fan
    /\ applied' = IF kind[i] \in Commands THEN applied \cup {i} ELSE applied
    /\ UNCHANGED <<page, next, kind, conn, up, clicks>>

\* A request the server no longer waits for has not reached the BMC.
Vanish(i) ==
    /\ call[i] = "adrift"
    /\ call' = [call EXCEPT ![i] = "over"]
    /\ UNCHANGED <<page, next, kind, conn, up, bmc, clicks>>

Next ==
    \/ FanClick \/ Poll \/ AskInfo \/ AskCharts \/ Reload \/ Restart
    \/ \E k \in Kinds : AskOf(k) \/ AskElsewhere(k)
    \/ \E i \in Ids :
          \/ Forward(i) \/ ServeFile(i) \/ Deliver(i) \/ Forget(i) \/ Refused(i) \/ Drop(i)
          \/ Return(i) \/ ErrorThrown(i) \/ Handle(i) \/ Vanish(i)
          \/ \E c \in {"over", "adrift"} : ErrorLogged(i, c)

Spec == Init /\ [][Next]_vars

-----------------------------------------------------------------------------
(* Properties.                                                             *)

\* The type invariant. The page never has more than MaxConn connections, and
\* requests are made in the order of their numbers.
TypeOK ==
    /\ flag \in {0, 1}
    /\ timer = (flag = 1)
    /\ next \in 1..(MaxRequests + 1)
    /\ kind \in [Ids -> Kinds \cup {"unused"}]
    /\ conn \in [Ids -> {"none", "queued", "open", "other", "closed"}]
    /\ call \in [Ids -> {"none", "sent", "handled", "adrift", "over"}]
    /\ up \in BOOLEAN
    /\ fan \in BOOLEAN
    /\ applied \subseteq Ids
    /\ calm \in BOOLEAN
    /\ reloaded \in BOOLEAN
    /\ \A i \in Ids : kind[i] = "unused" <=> i >= next
    /\ Cardinality(Opened) <= MaxConn

\* c is the last command the page has sent.
IsLastCommand(c) == kind[c] \in Commands /\ \A d \in Ids : d > c => kind[d] \notin Commands

\* The fan is as the button shows it (script.js 327-348) once the BMC has
\* carried out the last command, if the button was clicked only after the
\* earlier command had arrived or was lost, and the page was not loaded since:
\* commands travel on connections of their own and overtake each other, and
\* after a load the page shows a fan that is off.
FanFollowsFlag ==
    \A c \in applied : IsLastCommand(c) /\ calm /\ ~reloaded => fan = (flag = 1)

\* A client is left waiting for good only by a route that passes nothing on
\* (start.js 767-802) or by the code view (458, 536-542). A route that answers
\* with the BMC's answer answers, or ends the server when the BMC fails it (579
\* and its like) and with it every connection.
OnlySilentRoutesHold ==
    \A i \in Ids :
        conn[i] \in {"open", "other"} /\ call[i] = "over" => kind[i] \in Silent \cup Code

\* Every connection of the page is held by a request nobody will answer.
Exhausted == Cardinality({i \in Opened : call[i] = "over"}) >= MaxConn
=============================================================================
