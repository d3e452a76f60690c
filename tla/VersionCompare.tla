---------------------------- MODULE VersionCompare ----------------------------
(***************************************************************************)
(* The comparison of two kernel versions: /getDirectoryJSON and /viewFile  *)
(* of 3-3/src/start.js (405-544, 841-844) and the boot pages that use them *)
(* (3-3/public: getDirectoryTree.js, script.js 139-198, getFileInfo.js).   *)
(* The server keeps one selection and one diff_log for all pages. Requests *)
(* and answers of a page overtake each other. One page is modelled in full *)
(* and any number of others by what they do to the server (OtherPage).     *)
(*                                                                         *)
(* A tree, a log and an answer are named by the selection they were made   *)
(* for; Diff says which paths ssu_diff prints for two versions.            *)
(***************************************************************************)
EXTENDS VersionSelect

CONSTANTS
    Paths,       \* the paths ssu_diff prints
    NoPath,      \* no path
    Diff,        \* the paths printed for each pair of versions
    MaxAsks,     \* bound on the requests of a page
    MaxFaults    \* bound on crashes and failed comparisons

Pairs == {p \in Versions \X Versions : p[1] < p[2]}

ASSUME DiffAssumption == Diff \in [Pairs -> SUBSET Paths] /\ NoPath \notin Paths
ASSUME BoundAssumption == MaxAsks \in Nat \ {0} /\ MaxFaults \in Nat

VARIABLES
    up,          \* the server runs
    chosen,      \* selected_2 is not undefined; the string "null" counts
    diff_log,    \* the selection whose differences diff_log holds, or NoPair
    last,        \* history: the last selection request served by the server; 0: none, or another page
    asks,        \* requests on their way to the server
    answers,     \* answers on their way to the page
    hung,        \* number of requests the server has taken and never answers
    sent,        \* number of the last request of the page, from 1, its load
    faults,      \* crashes and failed comparisons so far
    page         \* the state of the page

server == <<up, chosen, diff_log, last>>
net == <<asks, answers, hung>>
vars == <<server, net, sent, faults, page>>

\* The two query parameters of a selection request.
Queries == (Versions \cup {Null, Undef}) \X (Versions \cup {Null, Undef})
NoPair == <<Null, Null>>
Raw == <<Undef, Undef>>

\* The page: asked is the last selection request, tree and treeId the selection
\* shown on the left and its request, before is before_element, red the
\* highlighted elements, and view the right-hand side: the file and the
\* selection its text belongs to.
Views == [path : Paths \cup {NoPath}, of : Queries]
Empty == [path |-> NoPath, of |-> NoPair]
Status == [path |-> NoPath, of |-> Raw]
PageStates == [sel : Selections, asked : 1..MaxAsks, tree : Queries, treeId : 0..MaxAsks,
               before : Paths \cup {NoPath}, red : SUBSET Paths, view : Views]
NewPage == [sel |-> NoSelection, asked |-> 1, tree |-> NoPair, treeId |-> 0,
            before |-> NoPath, red |-> {}, view |-> Empty]

\* A request. pair is the selection asked for or, for a file, the tree it was
\* clicked in, and tick the request of that tree (both history); of and seen
\* are filled in by the server: what the text belongs to, and last (history).
Messages == [id : 1..MaxAsks, kind : {"dir", "file"}, pair : Queries,
             path : Paths \cup {NoPath}, tick : 0..MaxAsks, of : Queries,
             seen : 0..MaxAsks]
AskDir(n, query) ==
    [id |-> n, kind |-> "dir", pair |-> query, path |-> NoPath,
     tick |-> 0, of |-> NoPair, seen |-> 0]
AskFile(n, f) ==
    [id |-> n, kind |-> "file", pair |-> page.tree, path |-> f,
     tick |-> page.treeId, of |-> NoPair, seen |-> 0]

\* The elements of the tree a page shows; the text of line 843 has none.
Elements(tree) == IF tree \in Pairs THEN Diff[tree] ELSE {}

Init ==
    /\ up = TRUE
    /\ chosen = FALSE
    /\ diff_log = NoPair
    /\ last = 0
    /\ asks = {AskDir(1, <<Undef, Undef>>)}
    /\ answers = {}
    /\ hung = 0
    /\ sent = 1
    /\ faults = 0
    /\ page = NewPage

-----------------------------------------------------------------------------
(* The page asks.                                                          *)

\* The page is reloaded (boot_mode_handler) and window.onload asks without a
\* selection. The browser drops what the old page was waiting for; requests of
\* the old page that still reach the server are those of OtherPage.
Load ==
    /\ sent' = 1
    /\ asks' = {AskDir(1, <<Undef, Undef>>)}
    /\ answers' = {}
    /\ hung' = 0
    /\ last' = 0
    /\ page' = NewPage
    /\ UNCHANGED <<up, chosen, diff_log, faults>>

\* Mutant: the return of lines 166-167 for an unselected version is back.
MutSelect(c) ==
    /\ ~Refused(page.sel, c)
    /\ sent < MaxAsks
    /\ LET after == AfterClick(page.sel, c)
       IN  IF c \in page.sel.checked
           THEN /\ page' = [page EXCEPT !.sel = after]
                /\ UNCHANGED <<asks, sent>>
           ELSE /\ page' = [page EXCEPT !.sel = after, !.asked = sent + 1]
                /\ asks' = asks \cup {AskDir(sent + 1, Params(after))}
                /\ sent' = sent + 1
    /\ UNCHANGED <<server, answers, hung, faults>>

\* A click on version c: the new selection is asked for.
Select(c) ==
    /\ ~Refused(page.sel, c)
    /\ sent < MaxAsks                                            \* bound
    /\ LET after == AfterClick(page.sel, c)
       IN  /\ page' = [page EXCEPT !.sel = after, !.asked = sent + 1]
           /\ asks' = asks \cup {AskDir(sent + 1, Params(after))}
    /\ sent' = sent + 1
    /\ UNCHANGED <<server, answers, hung, faults>>

\* A click on a file of the tree: selectFile posts its path.
SelectFile(f) ==
    /\ f \in Elements(page.tree)
    /\ sent < MaxAsks                                            \* bound
    /\ asks' = asks \cup {AskFile(sent + 1, f)}
    /\ sent' = sent + 1
    /\ UNCHANGED <<server, answers, hung, faults, page>>

-----------------------------------------------------------------------------
(* The server answers. Handlers run to their end, execSync included.       *)

\* isNaN of line 416.
NotANumber(v) == v \notin Versions

\* Mutant: a log of one entry counts as empty.
MutHasDifferences(query) == Cardinality(Diff[query]) > 1

\* Line 458: the log of the comparison has entries.
HasDifferences(query) == Diff[query] # {}

Answered(q) == NotANumber(q.pair[2]) \/ HasDifferences(q.pair)

\* Mutant: line 431 is missing and the old entries stay in front.
MutDirectoryJSON(q) ==
    /\ up
    /\ q.kind = "dir"
    /\ chosen' = (q.pair[2] # Undef)
    /\ diff_log' = IF NotANumber(q.pair[2]) \/ diff_log # NoPair
                   THEN diff_log ELSE q.pair
    /\ last' = q.id
    /\ asks' = asks \ {q}
    /\ answers' = IF Answered(q) THEN answers \cup {q} ELSE answers
    /\ hung' = IF Answered(q) THEN hung ELSE hung + 1
    /\ UNCHANGED <<up, sent, faults, page>>

\* /getDirectoryJSON: one version gets a text, two are compared. Two versions
\* without a difference are not answered.
DirectoryJSON(q) ==
    /\ up
    /\ q.kind = "dir"
    /\ chosen' = (q.pair[2] # Undef)
    /\ diff_log' = IF NotANumber(q.pair[2]) THEN diff_log ELSE q.pair
    /\ last' = q.id
    /\ asks' = asks \ {q}
    /\ answers' = IF Answered(q) THEN answers \cup {q} ELSE answers
    /\ hung' = IF Answered(q) THEN hung ELSE hung + 1
    /\ UNCHANGED <<up, sent, faults, page>>

\* The selections a page can send.
SentQueries == Pairs \cup {<<v, Null>> : v \in Versions \cup {Null}} \cup {<<Undef, Undef>>}

\* A selection request of another page is served; it may fail.
OtherPage(query) ==
    /\ up
    /\ chosen' = (query[2] # Undef)
    /\ diff_log' \in IF NotANumber(query[2]) THEN {diff_log} ELSE {query, NoPair}
    /\ last' = 0
    /\ UNCHANGED <<up, net, sent, faults, page>>

\* execSync throws (line 440): Express answers 500, which is no JSON. The
\* selection has changed and diff_log is empty.
CompareFails(q) ==
    /\ up
    /\ q.kind = "dir"
    /\ ~NotANumber(q.pair[2])
    /\ faults < MaxFaults                                        \* bound
    /\ faults' = faults + 1
    /\ chosen' = (q.pair[2] # Undef)
    /\ diff_log' = NoPair
    /\ last' = q.id
    /\ asks' = asks \ {q}
    /\ UNCHANGED <<up, answers, hung, sent, page>>

\* The entries of diff_log.
LogEntries == Elements(diff_log)

\* /viewFile: without selected_2 the file itself (line 522); otherwise the entry
\* of the log with this path. An empty log is a ReferenceError (line 532),
\* answered 500; without an entry there is no answer.
ViewFile(q) ==
    /\ up
    /\ q.kind = "file"
    /\ asks' = asks \ {q}
    /\ \/ /\ ~chosen
          /\ answers' = answers \cup {[q EXCEPT !.of = Raw, !.seen = last]}
          /\ UNCHANGED hung
       \/ /\ chosen
          /\ LogEntries = {}
          /\ UNCHANGED <<answers, hung>>
       \/ /\ chosen
          /\ q.path \in LogEntries
          /\ answers' = answers \cup {[q EXCEPT !.of = diff_log, !.seen = last]}
          /\ UNCHANGED hung
       \/ /\ chosen
          /\ LogEntries # {} /\ q.path \notin LogEntries
          /\ hung' = hung + 1
          /\ UNCHANGED answers
    /\ UNCHANGED <<server, sent, faults, page>>

\* The process ends: any uncaught exception of a callback, such as data being
\* undefined in line 525. What it held open is gone.
Crash ==
    /\ up
    /\ faults < MaxFaults                                        \* bound
    /\ faults' = faults + 1
    /\ up' = FALSE
    /\ chosen' = FALSE
    /\ diff_log' = NoPair
    /\ last' = 0
    /\ hung' = 0
    /\ UNCHANGED <<asks, answers, sent, page>>

\* A request that finds no server: the promise is rejected, unhandled.
Refuse(q) ==
    /\ ~up
    /\ asks' = asks \ {q}
    /\ UNCHANGED <<server, answers, hung, sent, faults, page>>

Restart ==
    /\ ~up
    /\ up' = TRUE
    /\ UNCHANGED <<chosen, diff_log, last, net, sent, faults, page>>

-----------------------------------------------------------------------------
(* The answers reach the page.                                             *)

\* The tree, or the text, replaces what was on the left.
ShowTree(a) ==
    /\ a.kind = "dir"
    /\ answers' = answers \ {a}
    /\ page' = [page EXCEPT !.tree = a.pair, !.treeId = a.id, !.red = {}]
    /\ UNCHANGED <<server, asks, hung, sent, faults>>

\* Mutant: the element shown before stays highlighted.
MutFileShown(s, a) ==
    IF s.before = a.path
    THEN IF a.path \in Elements(s.tree)
         THEN [s EXCEPT !.red = @ \ {a.path}, !.view = Empty, !.before = NoPath]
         ELSE s
    ELSE IF a.path \in Elements(s.tree)
         THEN [s EXCEPT !.red = @ \cup {a.path}, !.before = a.path,
                        !.view = [path |-> a.path, of |-> a.of]]
         ELSE s

\* Lines 20-34 of getFileInfo.js on page state s. getElementById of an element
\* that is no longer in the tree is null, and the callback ends there.
FileShown(s, a) ==
    IF s.before = a.path
    THEN IF a.path \in Elements(s.tree)
         THEN [s EXCEPT !.red = @ \ {a.path}, !.view = Empty, !.before = NoPath]
         ELSE s
    ELSE IF s.before # NoPath /\ s.before \notin Elements(s.tree)
         THEN s
    ELSE IF a.path \notin Elements(s.tree)
         THEN [s EXCEPT !.red = @ \ {s.before}]
    ELSE [s EXCEPT !.red = (@ \ {s.before}) \cup {a.path}, !.before = a.path,
                   !.view = [path |-> a.path, of |-> a.of]]

\* The text of a file arrives.
ShowFile(a) ==
    /\ a.kind = "file"
    /\ answers' = answers \ {a}
    /\ page' = FileShown(page, a)
    /\ UNCHANGED <<server, asks, hung, sent, faults>>

\* The call counter, the CPU information and the fan status are written over
\* the file (script.js 299, 312, 389); before_element stays.
ShowStatus ==
    /\ page' = [page EXCEPT !.view = Status]
    /\ UNCHANGED <<server, net, sent, faults>>

-----------------------------------------------------------------------------
Next ==
    \/ Load
    \/ ShowStatus
    \/ \E c \in Versions : Select(c)
    \/ \E f \in Paths : SelectFile(f)
    \/ \E query \in SentQueries : OtherPage(query)
    \/ \E q \in asks : DirectoryJSON(q) \/ ViewFile(q) \/ CompareFails(q) \/ Refuse(q)
    \/ Crash \/ Restart
    \/ \E a \in answers : ShowTree(a) \/ ShowFile(a)

Spec == Init /\ [][Next]_vars

-----------------------------------------------------------------------------
TypeOK ==
    /\ up \in BOOLEAN
    /\ chosen \in BOOLEAN
    /\ diff_log \in Pairs \cup {NoPair}
    /\ last \in 0..MaxAsks
    /\ asks \subseteq Messages
    /\ answers \subseteq Messages
    /\ hung \in Nat
    /\ sent \in 1..MaxAsks
    /\ faults \in 0..MaxFaults
    /\ page \in PageStates

\* A page that shows the answer to its last selection request shows the
\* selected versions: every click that changes the selection also asks for it
\* (script.js 152-193).
TreeIsOfSelection ==
    page.asked > 1 /\ page.treeId = page.asked => page.tree = Params(page.sel)

\* The text of a file is the difference between the versions of the tree it
\* was clicked in, whenever no page's selection was served in between:
\* selected_2 and diff_log are shared, and every page load resets them.
FileIsOfTree ==
    \A a \in answers : a.kind = "file" /\ a.seen = a.tick => a.of = a.pair

\* A request stays without an answer only if it compares versions without a
\* difference, or asks for a file of a tree that another selection request
\* has overtaken (start.js 458, 536-542).
HangsAreExplained ==
    [][\A q \in asks \ asks' :
          hung' > hung => IF q.kind = "dir" THEN Diff[q.pair] = {} ELSE q.tick # last]_vars

\* The file on the right is the one before_element names, and no other
\* element is highlighted, whatever trees and answers came in between
\* (getFileInfo.js 20-34).
ShownFileIsSelected ==
    /\ page.red \subseteq {page.before}
    /\ page.view.path # NoPath => page.view.path = page.before
=============================================================================
