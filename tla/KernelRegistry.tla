---------------------------- MODULE KernelRegistry ----------------------------
(***************************************************************************)
(* The registration of kernel versions at start-up of 3-3/src/start.js     *)
(* (lines 139-213, with makeHashFile and the parsers it calls). Every      *)
(* directory an operator has put into kernel_management is moved into a    *)
(* new directory V<n>, next to a file of its hashes.                       *)
(*                                                                         *)
(* mkdirSync acts at once; fs.rename and the stream that writes hash.txt   *)
(* are asynchronous and complete in any order, or not at all when the      *)
(* process dies. The start-up code itself runs before any request.         *)
(***************************************************************************)
EXTENDS Naturals, FiniteSets

CONSTANTS
    Kernels,      \* names of kernel directories
    Files,        \* names of other files an operator may leave there
    Early,        \* the names that sort before "V"
    MaxVersion,   \* bound on the version numbers
    MaxCrashes    \* bound on the crashes and the failed hashings of a behaviour

ASSUME NameAssumption == Kernels \cap Files = {} /\ Early \subseteq Kernels \cup Files
ASSUME BoundAssumption == MaxVersion \in Nat /\ MaxCrashes \in Nat

Entries == Kernels \cup Files
Versions == 1..MaxVersion

VARIABLES
    top,         \* kernel_management: the entries that are not V<n> or ORG
    versions,    \* kernel_management: the numbers n of the directories V<n>
    holds,       \* the kernel directories inside each V<n>
    hash,        \* V<n>/hash.txt: "none", "cut", or the kernel it describes
    dmesg,       \* the versions whose V<n>/dmesg.txt exists
    pc,          \* "down", "register", "settle" or "serving"
    queue,       \* unregistered_file: entries still to be registered
    count,       \* count_version
    thens,       \* a parse_trace(...).then callback waits to run
    renames,     \* fs.rename calls that have not completed
    streams,     \* write streams of hash files that have not ended
    info,        \* device_driver_info: the version whose dmesg was parsed, or 0
    seen,        \* kernel_dir_list: the entries found at start-up
    fatal,       \* the host's Node ends the process on an unhandled rejection
    removed,     \* history: the operator has deleted a version
    crashes      \* crashes and failed hashings so far

disk == <<top, versions, holds, hash, dmesg>>
memory == <<pc, queue, count, thens, renames, streams, info, seen>>
rest == <<fatal, removed, crashes>>
vars == <<disk, memory, rest>>

-----------------------------------------------------------------------------
(* The order in which readdirSync lists the directory.                     *)

\* Names compare as strings, so V10 comes before V2 (for numbers below 100).
StringKey(n) == IF n < 10 THEN 100 * n ELSE 100 * (n \div 10) + 1 + (n % 10)

\* The place of V<n> in kernel_dir_list, counted from 1.
ListIndex(n) ==
    Cardinality(top \cap Early)
      + Cardinality({m \in versions : StringKey(m) <= StringKey(n)})

\* Mutant: the index of the route is not shifted by one.
MutLookupIndex(n) == (IF n < 10 THEN n ELSE n \div 10) + 1

\* The place /get_device_driver_info looks at: one digit of the name.
LookupIndex(n) == IF n < 10 THEN n ELSE n \div 10

\* What /get_device_driver_info answers for version n; 0 is no answer.
InfoFor(n) == IF LookupIndex(n) \in DOMAIN info THEN info[LookupIndex(n)] ELSE 0

NoInfo == [i \in 1..(MaxVersion + Cardinality(Entries)) |-> 0]

-----------------------------------------------------------------------------
Init ==
    /\ top = {}
    /\ versions = {}
    /\ holds = [n \in Versions |-> {}]
    /\ hash = [n \in Versions |-> "none"]
    /\ dmesg = {}
    /\ pc = "down"
    /\ queue = {}
    /\ count = 0
    /\ thens = FALSE
    /\ renames = {}
    /\ streams = {}
    /\ info = NoInfo
    /\ seen = {}
    /\ fatal \in BOOLEAN
    /\ removed = FALSE
    /\ crashes = 0

Placed == top \cup UNION {holds[n] : n \in Versions}

(* The operator.                                                           *)

\* A kernel directory, or a file, is put into kernel_management.
AddEntry(x) ==
    /\ x \notin Placed
    /\ top' = top \cup {x}
    /\ UNCHANGED <<versions, holds, hash, dmesg, memory, rest>>

\* A boot log is saved for a version; nothing in the server does this.
AddDmesg(n) ==
    /\ n \in versions \ dmesg
    /\ dmesg' = dmesg \cup {n}
    /\ UNCHANGED <<top, versions, holds, hash, memory, rest>>

\* A version is deleted while the server is down.
RemoveVersion(n) ==
    /\ pc = "down"
    /\ removed' = TRUE
    /\ n \in versions
    /\ versions' = versions \ {n}
    /\ dmesg' = dmesg \ {n}
    /\ holds' = [holds EXCEPT ![n] = {}]
    /\ hash' = [hash EXCEPT ![n] = "none"]
    /\ UNCHANGED <<top, memory, fatal, crashes>>

-----------------------------------------------------------------------------
(* The server.                                                             *)

\* The versions whose boot log is parsed before the first one that has none:
\* its readFileSync throws and ends the whole registration.
Parsed ==
    {n \in versions : \A m \in versions :
        StringKey(m) <= StringKey(n) => m \in dmesg}

\* Mutant: every entry of the directory is counted.
MutStart ==
    /\ pc = "down"
    /\ Cardinality(versions) + Cardinality(top \cap Kernels) <= MaxVersion
    /\ seen' = top
    /\ info' = NoInfo
    /\ count' = Cardinality(Parsed) + Cardinality(top)
    /\ queue' = top
    /\ pc' = "register"
    /\ UNCHANGED <<disk, thens, renames, streams, rest>>

\* Lines 140-168: list the directory, parse the boot logs of the versions.
Start ==
    /\ pc = "down"
    /\ Cardinality(versions) + Cardinality(top \cap Kernels) <= MaxVersion  \* bound
    /\ seen' = top
    /\ info' = [i \in DOMAIN NoInfo |->
                  IF \E n \in Parsed : ListIndex(n) = i
                  THEN CHOOSE n \in Parsed : ListIndex(n) = i ELSE 0]
    /\ count' = Cardinality(Parsed)
    /\ IF Parsed = versions
       THEN queue' = top /\ pc' = "register"
       ELSE queue' = {} /\ pc' = "serving"
    /\ UNCHANGED <<disk, thens, renames, streams, rest>>

\* lstatSync(...).isDirectory() is false.
SkipFile(x) ==
    /\ pc = "register"
    /\ x \in queue \cap Files
    /\ queue' = queue \ {x}
    /\ UNCHANGED <<disk, pc, count, thens, renames, streams, info, seen, rest>>

\* Mutant: the directory may exist already (mkdirSync with recursive: true).
MutRegister(k) ==
    /\ pc = "register"
    /\ k \in queue \cap Kernels
    /\ count < MaxVersion
    /\ count' = count + 1
    /\ versions' = versions \cup {count + 1}
    /\ queue' = queue \ {k}
    /\ renames' = renames \cup {<<k, count + 1>>}
    /\ streams' = streams \cup {[version |-> count + 1, kernel |-> k, open |-> FALSE]}
    /\ thens' = TRUE
    /\ UNCHANGED <<top, holds, hash, dmesg, pc, info, seen, rest>>

\* Mutant: the number is incremented twice.
MutSkipNumber(k) ==
    /\ pc = "register"
    /\ k \in queue \cap Kernels
    /\ count + 1 < MaxVersion
    /\ count' = count + 2
    /\ versions' = versions \cup {count + 2}
    /\ queue' = queue \ {k}
    /\ renames' = renames \cup {<<k, count + 2>>}
    /\ streams' = streams \cup {[version |-> count + 2, kernel |-> k, open |-> FALSE]}
    /\ thens' = TRUE
    /\ UNCHANGED <<top, holds, hash, dmesg, pc, info, seen, rest>>

\* Mutant: every directory is created under the same number.
MutSameNumber(k) ==
    /\ pc = "register"
    /\ k \in queue \cap Kernels
    /\ count < MaxVersion
    /\ count' = count
    /\ versions' = versions \cup {count + 1}
    /\ queue' = queue \ {k}
    /\ renames' = renames \cup {<<k, count + 1>>}
    /\ streams' = streams \cup {[version |-> count + 1, kernel |-> k, open |-> FALSE]}
    /\ thens' = TRUE
    /\ UNCHANGED <<top, holds, hash, dmesg, pc, info, seen, rest>>

\* Lines 181-202 for one directory: make V<count>, hash the kernel, start to
\* write the hashes and to move the kernel.
Register(k) ==
    /\ pc = "register"
    /\ k \in queue \cap Kernels
    /\ count < MaxVersion
    /\ count + 1 \notin versions
    /\ count' = count + 1
    /\ versions' = versions \cup {count + 1}
    /\ queue' = queue \ {k}
    /\ renames' = renames \cup {<<k, count + 1>>}
    /\ streams' = streams \cup {[version |-> count + 1, kernel |-> k, open |-> FALSE]}
    /\ thens' = TRUE
    /\ UNCHANGED <<top, holds, hash, dmesg, pc, info, seen, rest>>

\* mkdirSync throws EEXIST: the catch of line 206 gives the rest up.
RegisterExists(k) ==
    /\ pc = "register"
    /\ k \in queue \cap Kernels
    /\ count + 1 \in versions
    /\ count' = count + 1
    /\ queue' = {}
    /\ pc' = "settle"
    /\ UNCHANGED <<disk, thens, renames, streams, info, seen, rest>>

\* A directory or an entry of the kernel cannot be read: makeHashFile throws
\* after mkdirSync, and the same catch leaves V<count> without a kernel. The
\* lines written so far may or may not reach the file.
HashFails(k) ==
    /\ pc = "register"
    /\ k \in queue \cap Kernels
    /\ crashes < MaxCrashes
    /\ crashes' = crashes + 1
    /\ count < MaxVersion
    /\ count + 1 \notin versions
    /\ count' = count + 1
    /\ versions' = versions \cup {count + 1}
    /\ \E h \in {"none", "cut"} : hash' = [hash EXCEPT ![count + 1] = h]
    /\ queue' = {}
    /\ pc' = "settle"
    /\ UNCHANGED <<top, holds, dmesg, thens, renames, streams, info, seen, fatal, removed>>

LoopEnds ==
    /\ pc = "register"
    /\ queue = {}
    /\ pc' = "settle"
    /\ UNCHANGED <<disk, queue, count, thens, renames, streams, info, seen, rest>>

\* The process is gone, with its memory and its pending calls.
Dies ==
    /\ pc' = "down"
    /\ queue' = {}
    /\ count' = 0
    /\ thens' = FALSE
    /\ renames' = {}
    /\ streams' = {}
    /\ info' = NoInfo
    /\ seen' = {}

\* The then-callbacks parse the boot log of V<count_version>, by now the last
\* version, which is new and has none: a rejection nobody handles.
Rejected == thens /\ count \notin dmesg

Settle ==
    /\ pc = "settle"
    /\ IF Rejected /\ fatal
       THEN Dies
       ELSE /\ pc' = "serving"
            /\ thens' = FALSE
            /\ UNCHANGED <<queue, count, renames, streams, info, seen>>
    /\ UNCHANGED <<disk, rest>>

\* Mutant: the kernel is copied, and the original stays.
MutRename(k, n) ==
    /\ <<k, n>> \in renames
    /\ renames' = renames \ {<<k, n>>}
    /\ holds' = [holds EXCEPT ![n] = @ \cup {k}]
    /\ UNCHANGED <<top, versions, hash, dmesg, pc, queue, count, thens, streams,
                   info, seen, rest>>

\* The kernel directory is moved, in the thread pool. When the move fails its
\* callback throws and ends the process: Crash, before this step.
Rename(k, n) ==
    /\ <<k, n>> \in renames
    /\ renames' = renames \ {<<k, n>>}
    /\ top' = top \ {k}
    /\ holds' = [holds EXCEPT ![n] = @ \cup {k}]
    /\ UNCHANGED <<versions, hash, dmesg, pc, queue, count, thens, streams,
                   info, seen, rest>>

\* The stream is opened after the code that created it, and truncates.
OpenHash(s) ==
    /\ pc \in {"settle", "serving"}
    /\ s \in streams /\ ~s.open
    /\ hash' = [hash EXCEPT ![s.version] = "cut"]
    /\ streams' = (streams \ {s}) \cup {[s EXCEPT !.open = TRUE]}
    /\ UNCHANGED <<top, versions, holds, dmesg, pc, queue, count, thens, renames,
                   info, seen, rest>>

\* Mutant: the write is lost with the stream (end before the writes).
MutWriteHash(s) ==
    /\ pc = "serving"
    /\ s \in streams /\ s.open
    /\ streams' = streams \ {s}
    /\ UNCHANGED <<disk, pc, queue, count, thens, renames, info, seen, rest>>

\* Its lines are written by the event loop, once it runs.
WriteHash(s) ==
    /\ pc = "serving"
    /\ s \in streams /\ s.open
    /\ hash' = [hash EXCEPT ![s.version] = s.kernel]
    /\ streams' = streams \ {s}
    /\ UNCHANGED <<top, versions, holds, dmesg, pc, queue, count, thens, renames,
                   info, seen, rest>>

-----------------------------------------------------------------------------
(* The end of the process.                                                 *)

\* The operator stops the server when it is at rest.
Stop ==
    /\ pc = "serving"
    /\ renames = {} /\ streams = {}
    /\ Dies
    /\ UNCHANGED <<disk, rest>>

Crash ==
    /\ pc # "down"
    /\ crashes < MaxCrashes
    /\ crashes' = crashes + 1
    /\ Dies
    /\ UNCHANGED <<disk, fatal, removed>>

Next ==
    \/ \E x \in Entries : AddEntry(x) \/ SkipFile(x)
    \/ \E n \in Versions : AddDmesg(n) \/ RemoveVersion(n)
    \/ Start \/ LoopEnds \/ Settle \/ Stop \/ Crash
    \/ \E k \in Kernels : Register(k) \/ RegisterExists(k) \/ HashFails(k)
    \/ \E k \in Kernels, n \in Versions : Rename(k, n)
    \/ \E s \in streams : OpenHash(s) \/ WriteHash(s)

Spec == Init /\ [][Next]_vars

\* Code that has begun runs on, and calls that were made complete.
Fairness ==
    /\ WF_vars(LoopEnds \/ Settle)
    /\ WF_vars(\E x \in Entries : SkipFile(x))
    /\ WF_vars(\E k \in Kernels : Register(k) \/ RegisterExists(k) \/ HashFails(k))
    /\ WF_vars(\E k \in Kernels, n \in Versions : Rename(k, n))
    /\ WF_vars(\E s \in streams : OpenHash(s) \/ WriteHash(s))

FairSpec == Spec /\ Fairness

-----------------------------------------------------------------------------
(* Properties.                                                             *)

Streams == [version : Versions, kernel : Kernels, open : BOOLEAN]

\* The type invariant: the directory, and the server's view of it.
TypeOK ==
    /\ top \subseteq Entries
    /\ versions \subseteq Versions
    /\ holds \in [Versions -> SUBSET Kernels]
    /\ hash \in [Versions -> {"none", "cut"} \cup Kernels]
    /\ dmesg \subseteq versions
    /\ pc \in {"down", "register", "settle", "serving"}
    /\ queue \subseteq Entries
    /\ count \in 0..MaxVersion
    /\ thens \in BOOLEAN
    /\ renames \subseteq Kernels \X Versions
    /\ streams \subseteq Streams
    /\ info \in [DOMAIN NoInfo -> 0..MaxVersion]
    /\ seen \subseteq Entries
    /\ fatal \in BOOLEAN
    /\ removed \in BOOLEAN
    /\ crashes \in 0..MaxCrashes

\* A version directory holds at most one kernel, and a kernel is in at most
\* one place, whenever the process dies between the steps of a registration.
KernelsKept ==
    /\ \A n \in Versions : \A k1, k2 \in holds[n] : k1 = k2
    /\ \A k \in Kernels : \A n \in Versions :
           k \in holds[n] => /\ k \notin top
                             /\ n \in versions
                             /\ \A m \in Versions : k \in holds[m] => m = n

\* mkdirSync never meets a directory: counting the versions gives a fresh
\* number because no number below it is ever left out, unless the operator
\* deletes a version.
NumbersHaveNoGap == ~removed => \E m \in 0..MaxVersion : versions = 1..m

\* The hash file beside a kernel never describes another kernel, although it
\* is written by an asynchronous stream that survives neither crash nor exit.
HashDescribesKernel ==
    \A n \in Versions : \A k \in holds[n] : hash[n] \in {"none", "cut", k}

\* /get_device_driver_info answers for the version that was asked for or has
\* no answer, as long as no entry sorts before V1, there are fewer than ten
\* versions and none has been deleted.
InfoMatchesVersion ==
    (Early = {} /\ MaxVersion < 10 /\ ~removed) =>
        \A n \in Versions : InfoFor(n) \in {0, n}

\* A kernel is never lost: it stays in kernel_management or in one of the
\* versions through moves, crashes and restarts, until the operator deletes
\* the version it is in; and once it has been moved it stays where it is, the
\* number of its version names this kernel and no other.
VersionsArePermanent ==
    [][/\ \A n \in Versions :
             holds[n] # {} /\ n \in versions' => holds'[n] = holds[n]
       /\ \A k \in Placed :
             k \in Placed' \/ \E n \in versions \ versions' : k \in holds[n]]_vars

Registered(k) == \E n \in Versions : k \in holds[n] /\ hash[n] = k

\* Every kernel the loop has begun to handle is moved and its hashes are
\* saved, when rejections are not fatal and neither a crash, a file that cannot
\* be hashed nor a number left by a deleted version comes in between.
RegistrationCompletes ==
    \A k \in Kernels :
        (k \in queue /\ ~fatal) ~> (Registered(k) \/ crashes > 0 \/ removed)

\* What lines 172-174 say: a kernel directory found in kernel_management is
\* moved and hashed without further action. Refuted: the version directory of
\* an earlier registration has no boot log yet, its parse throws, and the
\* server runs on with the kernel left where it was.
NewKernelIsRegistered ==
    \A k \in Kernels :
        (pc = "serving" /\ k \in seen) ~> (Registered(k) \/ pc = "down" \/ removed)
=============================================================================
