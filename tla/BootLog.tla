-------------------------------- MODULE BootLog -------------------------------
(***************************************************************************)
(* The parser of a boot log: parse_dmesg of 3-3/src/start.js (313-392) and *)
(* its copy in /bootgraph/cur_dmesg (675-755). It reads the log line by    *)
(* line and makes one row for every initcall, from what it has collected   *)
(* since the row before.                                                   *)
(*                                                                         *)
(* A line is what the parser tells apart: the call of an initcall, a       *)
(* sample of the CPU counters, a sample of the memory, the end of an       *)
(* initcall, or another line. The log is any sequence of them: the kernel  *)
(* calls initcalls from within others, and its buffer loses old lines.     *)
(* A line carries one of the marks the parser looks for. (The branch of    *)
(* "] calling" falls through, and a driver with "nice" or "MemTotal" in    *)
(* its name would have the lines of its calls taken for samples: no        *)
(* initcall of the kernels at hand has such a name.)                       *)
(* A counter sample is the pair of busy (user, nice, system, irq, softirq) *)
(* and idle (idle, iowait) time. A utilisation is a fraction.              *)
(***************************************************************************)
EXTENDS Integers, Sequences

CONSTANTS
    Names,       \* initcalls
    Samples,     \* samples of the CPU counters
    Memory,      \* memory utilisations
    Undefined,   \* a property the object does not have
    MaxLines     \* bound on the lines of a log

ASSUME SampleAssumption == Samples \subseteq Nat \X Nat
ASSUME UndefinedAssumption ==
    Undefined \notin Names /\ Undefined \notin Memory /\ Undefined \notin Samples
      /\ Undefined \notin Int \X Int

Lines == [is : {"calling", "initcall"}, arg : Names]
           \cup [is : {"nice"}, arg : Samples]
           \cup [is : {"MemTotal"}, arg : Memory]
           \cup [is : {"other"}, arg : {Undefined}]

VARIABLES
    log,          \* the lines read so far
    obj,          \* the row that is being collected
    cpu_infos,    \* the last sample of the counters
    info_array,   \* the rows
    at            \* history: the line that ended each row

logVars == <<log, obj, cpu_infos, info_array, at>>

NewObject == [name |-> Undefined, mem |-> Undefined, cpu |-> Undefined,
              ends |-> Undefined]

LogInit ==
    /\ log = <<>>
    /\ obj = NewObject
    /\ cpu_infos = Undefined
    /\ info_array = <<>>
    /\ at = <<>>

\* Mutant: the utilisation is not limited to 1.
MutFraction(busy, sum) == <<busy, sum>>

\* busy / sum, at most 1.
Fraction(busy, sum) == IF busy > sum THEN <<1, 1>> ELSE <<busy, sum>>

\* user / aSum + system / aSum. Against no sample it is NaN, which becomes 0.
Utilisation(new, old) ==
    IF old = Undefined THEN <<0, 1>>
    ELSE LET busy == new[1] - old[1]
             sum == busy + (new[2] - old[2])
         IN  Fraction(busy, IF sum < 1 THEN 1 ELSE sum)

-----------------------------------------------------------------------------
(* One turn of the loop.                                                   *)

Read(line) ==
    /\ Len(log) < MaxLines                                       \* bound
    /\ log' = Append(log, line)

Skip(line) ==
    /\ line.is = "other"
    /\ Read(line)
    /\ UNCHANGED <<obj, cpu_infos, info_array, at>>

\* Start time and name.
Calling(line) ==
    /\ line.is = "calling"
    /\ Read(line)
    /\ obj' = [obj EXCEPT !.name = line.arg]
    /\ UNCHANGED <<cpu_infos, info_array, at>>

MemTotal(line) ==
    /\ line.is = "MemTotal"
    /\ Read(line)
    /\ obj' = [obj EXCEPT !.mem = line.arg]
    /\ UNCHANGED <<cpu_infos, info_array, at>>

Nice(line) ==
    /\ line.is = "nice"
    /\ Read(line)
    /\ obj' = [obj EXCEPT !.cpu = Utilisation(line.arg, cpu_infos)]
    /\ cpu_infos' = line.arg
    /\ UNCHANGED <<info_array, at>>

\* Mutant: the object is pushed and used again.
MutInitcall(line) ==
    /\ line.is = "initcall"
    /\ Read(line)
    /\ info_array' = Append(info_array, [obj EXCEPT !.ends = line.arg])
    /\ at' = Append(at, Len(log) + 1)
    /\ UNCHANGED <<obj, cpu_infos>>

\* Mutant: the row is pushed twice.
MutPush(line) ==
    /\ line.is = "initcall"
    /\ Read(line)
    /\ info_array' = info_array \o <<[obj EXCEPT !.ends = line.arg], [obj EXCEPT !.ends = line.arg]>>
    /\ at' = Append(at, Len(log) + 1)
    /\ obj' = NewObject
    /\ UNCHANGED cpu_infos

\* Duration and return value are those of this line, the name is the object's.
Initcall(line) ==
    /\ line.is = "initcall"
    /\ Read(line)
    /\ info_array' = Append(info_array, [obj EXCEPT !.ends = line.arg])
    /\ at' = Append(at, Len(log) + 1)
    /\ obj' = NewObject
    /\ UNCHANGED cpu_infos

LogNext ==
    \E line \in Lines :
        Skip(line) \/ Calling(line) \/ MemTotal(line) \/ Nice(line) \/ Initcall(line)

LogSpec == LogInit /\ [][LogNext]_logVars

-----------------------------------------------------------------------------
(* What the rows mean, in terms of the lines l of the log.                 *)

\* q is the last line of kind k before line p, and no row ends in between.
Found(l, k, q, p) ==
    /\ q \in 1..(p - 1)
    /\ l[q].is = k
    /\ \A r \in (q + 1)..(p - 1) : l[r].is \notin {k, "initcall"}

\* The block that ends with line p has no line of kind k.
Missing(l, k, p) ==
    \A q \in 1..(p - 1) :
        l[q].is = k => \E r \in (q + 1)..(p - 1) : l[r].is = "initcall"

\* v is what the last line of kind k says in the block that ends with line p.
Latest(l, k, p, v) ==
    \/ \E q \in 1..(p - 1) : Found(l, k, q, p) /\ v = l[q].arg
    \/ Missing(l, k, p) /\ v = Undefined

\* s is the last sample of the counters before line q, in any block.
Before(l, q, s) ==
    \/ \E o \in 1..(q - 1) :
          /\ l[o].is = "nice" /\ s = l[o].arg
          /\ \A r \in (o + 1)..(q - 1) : l[r].is # "nice"
    \/ (\A o \in 1..(q - 1) : l[o].is # "nice") /\ s = Undefined

\* v is the utilisation between the last sample of the block and the one before.
Measured(l, p, v) ==
    \/ \E q \in 1..(p - 1) : \E s \in Samples \cup {Undefined} :
          Found(l, "nice", q, p) /\ Before(l, q, s) /\ v = Utilisation(l[q].arg, s)
    \/ Missing(l, "nice", p) /\ v = Undefined

-----------------------------------------------------------------------------
(* Properties.                                                             *)

Rows == [name : Names \cup {Undefined}, mem : Memory \cup {Undefined},
         cpu : (Int \X Int) \cup {Undefined}, ends : Names \cup {Undefined}]

\* The type invariant: as many rows as lines that end one.
LogTypeOK ==
    /\ log \in Seq(Lines)
    /\ obj \in Rows
    /\ cpu_infos \in Samples \cup {Undefined}
    /\ info_array \in Seq(Rows)
    /\ at \in Seq(Nat)
    /\ Len(at) = Len(info_array)

\* Every initcall that ends has one row, in their order, and the row has the
\* name, the memory and the CPU utilisation of its own block: nothing of an
\* earlier block is left in it, and what one block lacks is undefined in its
\* row and in no other (start.js 319-391). The name is that of the last call
\* in the block, which is another initcall's where calls are nested.
RowsMatchLog ==
    /\ \A p \in 1..Len(log) : log[p].is = "initcall" => \E k \in 1..Len(at) : at[k] = p
    /\ \A j, k \in 1..Len(at) : j < k => at[j] < at[k]
    /\ \A k \in 1..Len(at) :
          LET p == at[k]
              row == info_array[k]
          IN  /\ p \in 1..Len(log)
              /\ log[p].is = "initcall"
              /\ row.ends = log[p].arg
              /\ Latest(log, "calling", p, row.name)
              /\ Latest(log, "MemTotal", p, row.mem)
              /\ Measured(log, p, row.cpu)

\* The utilisation lies between 0 and 1 as long as the busy counters do not
\* fall: the idle and iowait counters may, and the first sample has no
\* predecessor (start.js 357-372).
UtilisationInRange ==
    (\A q, r \in 1..Len(log) :
        q < r /\ log[q].is = "nice" /\ log[r].is = "nice" => log[q].arg[1] <= log[r].arg[1])
    => \A k \in 1..Len(info_array) :
           LET u == info_array[k].cpu
           IN  u # Undefined => 0 <= u[1] /\ u[1] <= u[2] /\ u[2] > 0
=============================================================================
