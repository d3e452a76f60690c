# Verification of the BMC full-stack profiler

TLA+ models, TLC runs and TLAPS proofs for the profiler in this repository: a
Node/Express server (`src/3-3/src/start.js`), the pages it serves
(`src/3-3/public`) and the C tools that compare kernel trees
(`src/3-3/src/comp_kernel`). Line numbers below are those of `start.js` unless
another file is named.

## The system

| Component | State | Operations | Interacts with |
|---|---|---|---|
| Request statistics middleware (31-32, 52-130, 566-571, 902-921) | `s_time`; `report.json`, `httpcodereport.json` | time a request; add it to both files in the `finish` event; serve the files | every route behind it; the response-time chart |
| Response-time chart (`secondpage_script.js` 28-138) | `report_json`, the chart | two concurrent fetches, look-up of every listed event | statistics routes |
| Kernel version registry (136-253, 313-398) | the directory `kernel_management`; `kernel_dir_list`, `count_version`, `device_driver_info` | at start-up: parse boot logs, number and move new kernels, write hash files; later: serve list and driver info | operator, boot page |
| Version comparison (405-544, 841-866) | `selected_1`, `selected_2`, `diff_log`, shared by all clients | compare two versions, show one file | comparison tools, boot page |
| Comparison tools (`comp_kernel`) | hash trees, molt trees | `skin`, `molt`, `ssu_diff` | version directories |
| BMC proxy routes (558-609, 757-802, 870-881) | requests under way; at its ends the fan flag of the page, the browser's connections, the fan | forward a request to the BMC, parse its answer | BMC server (not in the repository), both pages |
| Boot-graph pipeline (611-673) | `cur_bootgraph.txt`, `cur_bootgraph.svg`, the running shells | write the log, run the graph script, serve files | BMC, boot page |
| Boot-log parser (313-392, 675-755) | the row being collected, the last CPU sample, the rows | fold over the lines of a kernel log | registry, boot page |
| Boot page (`script.js`, `getFileInfo.js`) | selected versions, shown tree and file, power labels | select, compare, show | most routes |
| Application page (`secondpage_script.js`, `cpuUsageChart.js`, `processStatus.js`) | chart rows, timers, fan flag | poll, draw, fan control | proxy routes |

The server is one process with one thread: a callback runs to its end before
the next one. What is hard is what happens between callbacks and around them:
module-level variables shared by overlapping requests, answers that arrive in
another order than they were asked for, files replaced by truncate-then-write,
asynchronous renames and streams that a dying process leaves undone, promises
whose rejection nobody handles, and routes that never answer. `PROJECT.json`
lists these hazards at their lines with the properties that cover them. Where
the bad case of a hazard is something the code really does, the property states
it as its exception and catches the same outcome in every other case; the note
of the hazard says which is which.

What makes each component correct:

- statistics: nothing recorded is changed or lost without a fault, a fault
  loses all or nothing, the two files agree, times are not overstated;
- chart: every listed event is found in the report;
- registry: a kernel is never lost (`VersionsArePermanent`), held twice
  (`KernelsKept`), renumbered or described by another kernel's hashes; a new kernel is registered; information is served
  for the version that was asked for;
- comparison: what a page shows belongs to the versions selected on it; every
  request is answered;
- proxy: every request is carried through or fails, no client is kept waiting
  but by the fan routes, `/cpu/usagestop` and the code view, and the fan is what
  the button shows;
- boot graph: the graph belongs to the log beside it, and the two charts of
  the page belong to one log;
- parser and tools: they compute what their reference definitions say.

## Modules

`ReportLog` is the abstract specification of the statistics: an append-only log
per event, of which a fault loses everything or nothing.

`RequestStats` is the middleware. `req` holds the requests (`StartRequest` is
the middleware function, `Answer` the route's handler, `Abort` a connection
closed before `finish`), `report` and `httpcode` the two files, as the value
the next read returns and whether they parse. The `finish` callback is
`Finish` (both reads and the change in memory), then `OpenHttpinfo` and
`WriteHttpinfo` when the event is new, then `OpenStats` and `WriteStats`.
No other callback runs in between; the steps are separate because the process
may die between them (`CrashInCallback`) and each file access may fail
(`FinishReadFails`, `HttpinfoFails`, `StatsFails`; the code catches and goes
on). `faults` counts these, and `healthy` is a history variable. A sample keeps,
next to the recorded `time`, the history value `real`. An event is a pair of
route and status; a route that serves a file answers 500 exactly when the file
does not parse. `e_time` is written and read in one callback and needs no
variable. The clock does not run backwards, a process crash loses no completed
write, and entries are objects with `Count` and `Time` (the branch of line 119
for other entries is unreachable, which `ReportWellFormed` shows).

`ResponseChart` extends `RequestStats` with one page that calls `drawChart`. Its
two fetches arrive at the server, are answered and reach the page in any order,
between the requests of other clients.

`KernelRegistry` is the start-up code and the directory it works on. `Start` is
the listing and the scan of the boot logs, `Register` one turn of the second
loop, `Settle` the `then` callbacks that run when the loop is over. `Rename`,
`OpenHash` and `WriteHash` are the asynchronous calls, which complete in any
order, the renames even while the loop runs. `fatal` says whether the host's
Node ends the process on an unhandled rejection (it does since version 15);
both are checked. The operator adds entries and boot logs and may delete
versions while the server is down. `HashFails` is an exception of `makeHashFile`
after `mkdirSync`, caught at line 206; a failing `fs.rename` throws in its
callback and is a `Crash` before `Rename`. Names that start with `V` are version
directories; kernels are registered in any order, which stands for any names.

`VersionSelect` is the selection of at most two versions that the boot page
keeps in `is_checked_version` and `version_check_count` (`script.js` 47-49,
151-188), a click on a button behind the end of the array included. The next
two modules extend it.

`VersionCompare` is `/getDirectoryJSON` and `/viewFile` with the server state
all clients share (`chosen` says whether `selected_2` is defined, `diff_log`
whose comparison the log holds), and one boot page in full: `Load`, `Select`,
`SelectFile`, and the arrival of answers (`ShowTree`, `ShowFile`) in any order.
`OtherPage` is what any number of further pages do to the server. Each handler
is one action because `execSync` blocks the only thread. Requests that are
never answered are counted in `hung`, a failing `ssu_diff` is `CompareFails`,
and `Crash`, `Refuse` and `Restart` are the life of the process. A tree, a log
and a text are named by the pair of versions they come from, and the constant
`Diff` says which paths `ssu_diff` prints for a pair. `last`, and `pair`,
`tick` and `seen` of a message, are history. Pages that share the server
matter only through `selected_2` and `diff_log`, which is why one page in full
is enough.

`PowerLabels` is the pair of power labels (`script.js` 235-248): each click
asks for the energy of the clicked version and remembers the selection of that
moment, and answers come in any order or fail. `Digit` is the one digit the
server takes from the name of the version (line 887). A label is right when it is
the energy of the selected version itself.

`CompKernel` is `skin`, `molt` and `ssu_diff`. A path is a sequence of numbers
in the order of `strcmp`, a tree maps the paths of files to contents, and a hash
stands for the content it was taken from. `molting_dir` and `comp_dir` walk two
trees with the same recursive loop: `walk` is the set of their open calls, each
with the names that are still ahead in its two lists, and since calls are
nested the one with the longest directory runs (`Top`). `Molt` and `Compare`
start a walk, `MoltStep` and `DiffStep` are one pass of the loop with what it
copies or prints and the call it makes, and `Return` is the end of a call and,
for the first one, of the tool. `tool` says whose walk it is: one version for
`molt`, both for `ssu_diff`. The trees of earlier runs stay, because `rmdir`
removes empty directories only; `dirs` keeps the directories of a molt because
`mkdir -p` may leave an empty one. The operator runs one tool at a time, and
edits a version between the tools and between two passes of a walk (`Edit`): `molt`
then copies what it finds, whatever hash it has compared. `edited` and `touched`
are history: the paths of a version edited since its first and since its last
skin. `Skin` is one step. A
file does not become a directory once it has been hashed, and no file is
unreadable. `DiffDir` is empty because `count` receives the result of a
comparison (`ssu_diff.c` 247).

`LivePage` is the CPU and the process chart of the application page. `Run` is
the execution of a script, in any order since two are `async` and one is
deferred; `OnLoad*` the callbacks of the chart library, `Tick*` the timers,
`Answer*` and `FailCpu` the ends of requests, `ClickProc` a process button. A
chart is the number of its rows. `DrawsCpu` says which of the two functions
named `drawChart` the global name stands for, and with it whether the CPU chart
is ever set up; which chart an answer then draws is left out. `recent` is the
processes of the last two rows of the process chart: an answer adds a row of the
selected process and, because `initialized` is never set, one of the first
process of the list. `Window` is 10 in the code.

`BmcProxy` is the path of a request from the boot page over the server to the
BMC and back. Requests are numbered in the order in which they are made;
`conn` is the browser's side (queued, open, closed; `MaxConn` connections,
`HasConnection`), `call` the server's request to the BMC. `FanClick`, `Poll`,
`AskInfo`, `AskCharts`, `AskOf` and `Reload` are the page, `AskElsewhere` is
another client's `/bootgraph` or the application page's `/cpu/usagestop`. Four
kinds of routes differ: those that answer with the BMC's answer (`Answering`),
those that only log and hold their client (`Silent`: the fan routes and
`/cpu/usagestop`), those that read a file (`FromDisk`), and the code view
(`Code`: `/getDirectoryJSON` and `/viewFile`, in detail in `VersionCompare`),
which answers, throws, or returns without an answer (`Forget`). All of them
share the connections. `Forward` is the handler of a proxy route, and its
callback is `Return` (a body came), `ErrorLogged` (a silent route ignores the
error) or `ErrorThrown` (`JSON.parse(undefined)`, `fs.writeFile` of a body
without a log, or `data.toString()` of a file that is gone: the server ends and
every connection with it; what it had sent may still reach the BMC). The BMC is
external: it carries commands out in any order (`Handle`), or never gets them
(`Vanish`). `calm`, `reloaded` and `applied` are history. The fan commands are
those of one page; a second open page with a button of its own is not modelled.

`BootGraph` extends `BmcProxy` with the graph job: `BeginWrite` is the callback
that has the log, `OpenTxt` and `WriteTxt` are `fs.writeFile`, and then the two
sides of the shell's pipe run in any order (`OpenSvg`, `Cat`, `DrawSvg`). Nothing
keeps two jobs apart, writes fail, and the server dies in the middle of one
(`ServerDies`: writes end, shells go on). `graph` and `rows` are what the page
shows in `pie_chart` and `line_chart`. `Draw` is the deselection of the last
version, `Select` the requests of a selection, `Sort` a click that draws the
charts of registered versions again, `ReadFile` and `Show` the routes and the
answers: charts of registered versions (`Registered`) are drawn into the same
two elements as those of the present log, in the order of arrival. A selection
makes several requests at once; here each is a step of its own, which allows
more orders than the page has. A file is named by the log it comes
from, or is `Empty` or `Mixed`. `doubt` and `steady` are history. `GraphSpec`
implements `BmcProxy`'s `Spec`: no step of a job touches a request.

`BootLog` is the parser, one action per branch of its loop, `Initcall` being the
one that ends a row. Start time, duration and return value are part of the
name of the line they come from; a CPU sample is the pair of busy and idle
time, and a utilisation a fraction, so that limiting it to 1 and the NaN of the
first sample are kept. A line carries one of the marks the parser looks for: a
driver with "nice" or "MemTotal" in its name, whose calls the parser would take
for samples, is left out, and the logs in the repository have none. `Found`, `Latest`, `Before` and `Measured` are the
reference: they say of the log what a row must hold, without the parser's
state.

The modules named `*Proofs` hold the proofs. The `MC*` modules instantiate the others
for TLC. Definitions named `Mut*` are plausible mistakes next to the definition
they would replace; no specification uses them.

## Runs

| Run | Shows | Bounds |
|---|---|---|
| `stats` | `TypeOK`, `ReportWellFormed`, `TimesNeverOverstated`, `FilesAgree`, `RepairedByUse`, `LogRefined`, `FinishedIsRecorded` | 2 requests, 2 routes, clock 0..2, 2 faults |
| `stats_exact` | `ResponseTimesExact` is violated | 2 requests, clock 0..1, no fault |
| `chart` | `ChartTypeOK`, `ChartFailsOnlyWhenOvertaken` | the page's 2 fetches, 1 other request, clock 0..1, 1 fault |
| `registry` | `TypeOK`, `KernelsKept`, `NumbersHaveNoGap`, `HashDescribesKernel`, `InfoMatchesVersion`, `VersionsArePermanent`, `RegistrationCompletes` | 2 kernels, 1 file, 3 versions, 1 crash or failed hashing |
| `registry_new` | `NewKernelIsRegistered` is violated | 2 kernels, 3 versions, no crash |
| `compare` | `TypeOK`, `TreeIsOfSelection`, `FileIsOfTree`, `ShownFileIsSelected`, `HangsAreExplained` | 3 versions, 2 paths, 5 requests per page load, 1 fault |
| `power` | `TypeOK`, `PlacesAreAccounted`, `LabelsRight` | 4 buttons for an array of 3, 6 clicks |
| `compkernel` | `TypeOK`, `MoltCoversChange`, `ReportedExactly` | 3 paths, 3 contents (the two other than the original's are interchangeable), 1 edit |
| `compkernel_table` | `TableIsPrinted` is violated | as `compkernel`, no edit |
| `live` | `TypeOK`, `CpuWindow`, `ProcWindow`, `SelectedIsShown` | 2 processes, window 4, 3 requests per chart, 5 answers and clicks |
| `bootgraph` | `TypeOK`, `FanFollowsFlag`, `OnlySilentRoutesHold`, `GraphIsOfLog`, `ChartsAgree`, `RequestsServed` | 2 connections, 3 requests, 2 logs |
| `bootlog` | `LogTypeOK`, `RowsMatchLog`, `UtilisationInRange` | logs of 6 lines, 2 names, 3 samples |

Why the bounds are enough: two requests overlap, or one meets what the other has
recorded, and what is checked of more of them is also proved for any number,
`FinishedIsRecorded` excepted; two faults allow damage, repair and damage again, or a
fault in each file; a clock of three values separates the arrival of the first
request, of the second, and the end. Two kernels and three versions allow a
number to be wasted by a crash or left by a deletion and used again.
Five requests allow a load, two selections and two files, each overtaking
another; of the three pairs of versions one has no difference and two share a
path. Six clicks select and unselect both places twice. Three paths give a
file, and a name that is a file in one tree and a directory in another; three
contents let both versions differ from the original and from each other; one
edit changes, adds or removes a file before, between or during the walks.
A window of four rows is filled and overfilled by three late answers, as one of
ten is. Two connections are exhausted by two requests that are never answered
while a third waits in the queue, as six are by six; three requests allow a
command to overtake another, two jobs to overlap, a job to meet the page's two
reads, or a late answer of a registered version to meet them,
and everything but `RequestsServed` is also proved for any number. Six lines
hold two rows with a call and a sample each, or one row whose call is nested.
`MaxClock`, `MaxFaults`, `MaxVersion`, `MaxCrashes`, `MaxAsks`,
`MaxClicks`, `MaxEdits`, `MaxPending`, `MaxExtra`, `MaxRequests` and `MaxLines`
are the only bounds in
guards. `CHECK_DEADLOCK FALSE` is set for the registry because a server that is
down may stay down, for the labels because the clicks end at their bound, and
for the parser because the log does.

Fairness. `RequestStats`: a callback that has begun runs on (`Callback`: one
thread, synchronous code), and a response handed to the socket is delivered or
its connection closes. `KernelRegistry`: the start-up code runs on and calls
already made complete. `BootGraph`: the browser hands out a free connection,
handlers and callbacks run, an answer reaches the page, and the BMC answers what
it is asked (assumed: the server sets no limit to the time of a request, so a
BMC that stays silent would hold it for ever). No fairness is assumed of clients, operators, handlers,
faults or restarts.

## What the code does not do

- `stats_exact`: `s_time` is shared, so overlapping requests record times that
  are too short, against the comment at line 52. `TimesNeverOverstated` is what
  does hold.
- `registry_new`: the comment at line 174 says that a new kernel directory is
  moved and hashed automatically. A version without `dmesg.txt`, which is what
  every registration creates, makes the next start end before it registers
  anything.
- `compkernel_table`: `ssu_diff` does not print all of the table in its comment:
  the walk ends with the shorter directory, and directories that only one
  version has changed are not entered. `ReportedExactly` is what it does print.

The other properties state their exceptions, which are things the code does.
`LabelsRight` leaves out three: when the first of two versions is unselected, the
label "First Version" keeps its value; answers that overtake each other are moved
in the order of arrival; and the tenth version is given the energy of the first.

Without a property: when `secondpage_script.js` runs after `cpuUsageChart.js` it
replaces `drawChart`, and the CPU chart stands still or never appears; and the
response-time chart and the process chart are drawn into the same element of the
application page.

`RequestsServed` excepts a browser whose connections are all held by requests
that are never answered: the page polls `/fan` once a second and no fan route
answers, a comparison without a difference and a file that is not in `diff_log`
are not answered either, and after `MaxConn` of them even the command that turns
the fan off stays in the queue.
`FanFollowsFlag` excepts a click made while an earlier command is under way, and
a page loaded again, which shows a fan that is off. `GraphIsOfLog` excepts jobs
that overlap, fail or are cut, until one that runs alone has repaired both
files. `ChartsAgree` excepts a page that has asked for a chart of a registered
version whose answer is still under way when the last version is deselected: it
is drawn over one of the two charts. `MoltCoversChange` says nothing of a file
that was itself edited after it was hashed, and everything of the others.
`RowsMatchLog` gives a row the name of the last call before its end, which
is not the initcall that ended when calls are nested.

`InfoMatchesVersion` holds under its stated condition only: no entry sorts
before `V1`, fewer than ten versions, none deleted.

## Proofs

`RequestStatsProofs` proves, for any sets of requests and routes and any bounds,
from the named assumptions of `RequestStats` (the file routes are routes, the
status codes are numbers other than 500, the bounds are natural numbers):
`TypeCorrect`, `WellFormed`, `NeverOverstated`, `FilesStayInStep`, `UseRepairs`
and the refinement `LogRefinement`.

The inductive invariant `IInv` adds to the type invariant:

- `LiveInv`: a request in progress belongs to a running server and arrived no
  later than `s_time`. Without it a restart, which resets `s_time` to 0, could
  meet a request from before and overstate its time;
- `DataInv`: the report on disk and the one in the callback are well formed;
- `ListInv` and `HealthInv`: how files and locals agree at each point of the
  callback, since between the two writes the files themselves do not;
- `LogInv`: until `report.json` is opened the callback holds what is on disk and
  one sample more, or that sample alone after a failed read.

`AddSampleFacts` says what adding a sample does to types, well-formedness,
recorded events and times; every other step leaves the reports alone or loses
them as a whole. The refinement adds that `report.json` does not parse while it
is open for writing (`Truncated`): the log then is what is about to be written,
and a fault maps to its loss.

The last section of `RequestStatsProofs` is about `ResponseChart`:
`ChartTypeCorrect` and `ChartFailsForAReason`, with the assumption that the two
fetches are different requests. Every step of the page is a step of the server
or leaves it alone, so `IInv` carries over. `OrderInv` says that without faults
the events the report has, or will have when the running callback ends
(`Known`), only grow; a list that was read first is therefore contained in a
report that was read later.

`VersionCompareProofs` proves, for any number of versions, any paths, any
outcome of the comparisons and any bounds, `CompareTypeCorrect`, `TreeMatches`,
`FileMatches`, `HighlightMatches` and `HangsExplained`, from the assumptions
that `Diff` maps pairs of versions to sets of paths and that the bounds are
numbers. Besides the properties themselves its `IInv` has:

- `SelectionInv` (from `VersionSelectProofs`): the counter, the array and the
  order of the two parameters, so that a query with two versions is a pair;
- `SentInv` and `FreshInv`: numbers of requests are not used twice, and a
  directory request still on its way is not the one whose tree is shown or
  whose comparison the server remembers;
- `PairInv`: a file is only asked for out of a tree of two versions that has it;
- `LogInv`: as long as `last` is the request a tree came from, `diff_log` holds
  the comparison of that tree. This carries `FileIsOfTree` over the shared
  state, and `HangsAreExplained` uses it to find the path in the log;
- `AskedInv`: the last selection request on its way is that of the present
  selection.

`PowerLabelsProofs` proves `PowerTypeCorrect`, `PlacesAccounted` (the counter is
the number of selected versions and of stray clicks, whatever the order of the
answers) and `LabelsAreRight`. For the last one `LabelsInv` says that, as long as
answers come in order, there is a history `h` of the states the clicks have left
behind: its end is the present selection, there is one request under way for
every click after the last answer, and the labels are those of the click of
that answer. `Leads` is what one click can do to a state, and `LabelsStayRight`
that the next answer does the same to the labels.

`LivePageProofs` proves `LiveTypeCorrect`, `CpuChartBounded`, `ProcChartBounded`
and `SelectedShown`. The conjunction of the four is inductive: a tick of a full
chart moves a row to the requests under way, a tick of another one is paid for
by `peak`, and an answer adds a row of what is selected when it arrives before
the one of the first process.

`KernelRegistryProofs` proves, for any kernels, files, number of versions and
number of crashes, `RegistryTypeCorrect`, `KernelsAreKept`,
`HashesDescribeKernels`, `VersionsStay`, `NumbersStayDense` and `InfoIsOfVersion`.

- `PlacesInv`: a rename under way still has its kernel at the top, an empty
  target, and neither of them in common with another rename (`MovesInv`); a
  kernel is in at most one place (`KernelsKept`), and `VersionsStay` adds that
  no step but a deletion takes it out of all; the hash file of a version and
  the streams that will write it are of the kernel bound to that version, also
  before it has been moved (`HashInv`). Renames and streams complete in any
  order, which is why they are described one by one and not as a queue.
- `NumbersInv` adds to `NumbersHaveNoGap` that, while kernels are registered and
  no version was deleted, the versions are exactly `1..count` (`CountInv`).
- `InfoInv`: under the condition of `InfoMatchesVersion` each parsed boot log is
  at the place of its own version.

`BootProofs` proves `ParserTypeCorrect`, `RowsAreOfLog` and
`UtilisationStaysInRange` for logs of any length and any names and samples. The
invariant adds `Collected`: what the parser holds in `obj` and `cpu_infos` is
what the reference says of the block that is not finished yet. The lemmas
named `Same*` say that a line behind place `p` changes nothing the reference
says of `p`, those named `More*` what one more line does to the unfinished
block.

The same module proves, for any number of connections and requests and any
logs, `ProxyTypeCorrect`, `FanFollows` and `OnlySilentHold` of `BmcProxy`, the
refinement `GraphImplementsProxy`, and with it `GraphTypeCorrect`, `GraphOfLog`
and `ChartsAlwaysAgree`.

- `ProxyInv` adds `StagesInv` (a queued request has no call yet, and a command
  that was carried out is neither queued nor under way), `AnswerInv` (an
  answering route whose call is over has no connection left) and `FanInv`: after
  a calm click only the last command can still be on its way, so it decides.
- `GraphInv` adds `FilesInv` (without doubt at most one job is active, and
  `JobAt` says what the files hold at each of its stages) and `ChartsInv` (since
  the page asked, no job is active, no request of a registered version is under
  way, and all that was read comes from the one log).

`CompKernelProofs` proves `ToolsTypeCorrect`, `MoltCovers` and
`DiffReportsExactly` for kernels of any size and depth, any contents and any
number of edits, from the assumptions that paths are non-empty sequences of
numbers, that the original's content is a content and that `MaxEdits` is a
number. `CommonFilesReported` says how far the comment's table can be trusted:
whatever `ssu_diff` leaves out is a file that only one version has changed. The
inductive invariant `IInv` has, besides the types and `ReportedExactly`:

- `WalkInv`: the open calls are nested, a call that waits has stepped over the
  directory it waits for, and a name that is no longer ahead is smaller than all
  that are. It is stated for any two sets of paths and used for both tools;
- `TreesInv`: sources and hashes never disagree on what is a directory, and a
  molt has the directories of its entries;
- `MoltInv`: what the version has changed is copied or still ahead of the walk
  (`Pending`), for every path that was not touched since the skin, and of the
  paths never edited the molt has nothing else;
- `DiffInv`: the output is what the table says of the paths that the walk
  reaches and has passed. It holds at every pass and becomes `ReportedExactly`
  when the last call returns.

`PendingPasses` and `WalkReturns` say what a pass and a return do to `Pending`: the
path at the loop's name is passed, those below it are left to the new call, and
what a call leaves behind is greater than every name of one of its lists. A
changed file, or a path that is reached, is therefore never left behind.

Only model-checked: the liveness properties `FinishedIsRecorded`,
`RegistrationCompletes` and `RequestsServed` (fairness is beyond the prover), and
the three properties that the code violates.

## Not modelled

- The BMC server is not in the repository; `BmcProxy` models what the routes
  expect of it.
- The managed kernel trees (`src/kernel_management`), which are nearly all of
  the repository's lines, are vendored Linux sources: data the registry moves
  and the tools compare, not code of the profiler.
- The third-party graph scripts (`bootgraph.pl`): external to `BootGraph`.
- Superseded copies of the scripts, `setupProxy.js`, the application page's
  `fan_mode_handler` (no button calls it) and the route `/write` (805-839, no
  page asks for it).
- `/get_Application_List`, which fails on an undefined name in every call.
- What the charts look like, zooming, layout and styling; the requests for the
  power labels do not take part in the pool of connections (they are always
  answered).
- `prompt.c`, an interactive shell that starts `skin` and `molt` and keeps no
  state of its own.
- The signal log (`cpuUsageChart.js` 89-143), whose old entries stay when there
  is no signal: a hazard without a property.

## What is left

The signal log of the application page, and the termination of the walks of
`molt` and `ssu_diff` as a liveness property.
