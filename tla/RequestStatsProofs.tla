-------------------------- MODULE RequestStatsProofs --------------------------
(***************************************************************************)
(* Proofs about RequestStats and about the chart of ResponseChart, for any *)
(* requests, routes, clock bound and number of faults. What is assumed of  *)
(* the two fetches of the chart is used by the last section only.          *)
(***************************************************************************)
EXTENDS ResponseChart, TLAPS

-----------------------------------------------------------------------------
(* The inductive invariant.                                                *)

\* A parsed report whose entries are well formed and never overstate a time.
StatsOK(stats) ==
    \A e \in Events :
        /\ EntryOK(stats[e])
        /\ \A i \in 1..Len(stats[e].Time) :
               /\ 0 <= stats[e].Time[i].time
               /\ stats[e].Time[i].time <= stats[e].Time[i].real

Live == {"open", "answered"}

\* A request in progress has arrived, at a running server, no later than the
\* request that set s_time last.
LiveInv ==
    /\ s_time <= clock
    /\ pc # "idle" => up
    /\ \A r \in Requests :
          req[r].st \in Live => /\ up
                                /\ req[r].start <= s_time
                                /\ req[r].route \in Routes
    /\ \A r \in Requests : req[r].st = "answered" => req[r].status \in Statuses

DataInv == StatsOK(report.data) /\ StatsOK(cb.stats)

\* While a callback runs its locals agree, and the list is written first.
ListInv ==
    faults = 0 =>
        /\ pc = "idle" => Recorded(readStats(report)) = readHttpCode(httpcode)
        /\ pc # "idle" => Recorded(cb.stats) = cb.list
        /\ pc \in {"dumpStats", "writeStats"} => readHttpCode(httpcode) = cb.list

HealthInv ==
    /\ pc = "idle" => healthy \subseteq Recorded(readStats(report))
    /\ pc = "idle" => healthy \subseteq readHttpCode(httpcode)
    /\ pc # "idle" => healthy \subseteq Recorded(cb.stats)
    /\ pc # "idle" => healthy \subseteq cb.list
    /\ pc \in {"dumpStats", "writeStats"} => healthy \subseteq readHttpCode(httpcode)

\* Until report.json is opened, the callback holds what is on disk and one
\* sample more, or that sample alone when its read failed.
OneMore(new, old, lost) ==
    \E e \in Events, t \in 0..MaxClock :
        new = IF lost THEN [Log!EmptyLog EXCEPT ![e] = <<t>>]
              ELSE [old EXCEPT ![e] = Append(@, t)]

LogInv ==
    pc \in {"dumpHttpinfo", "writeHttpinfo", "dumpStats"} =>
        OneMore(TimesOf(cb.stats), TimesOf(readStats(report)), cb.lost)

IInv == TypeOK /\ LiveInv /\ DataInv /\ ListInv /\ HealthInv /\ LogInv

-----------------------------------------------------------------------------
(* What adding a sample does to a report.                                  *)

\* The report without entries is a well-formed report.
LEMMA NoStatsFacts ==
    /\ NoStats \in [Events -> Entries]
    /\ StatsOK(NoStats)
    /\ Recorded(NoStats) = {}
    /\ TimesOf(NoStats) = Log!EmptyLog
  <1>1. NoEntry \in Entries
    BY DEF NoEntry, Entries
  <1>2. NoStats \in [Events -> Entries]
    BY <1>1 DEF NoStats
  <1>3. \A e \in Events : NoStats[e].Count = 0 /\ NoStats[e].Time = <<>>
    BY DEF NoStats, NoEntry
  <1>4. StatsOK(NoStats)
    BY <1>3 DEF StatsOK, EntryOK
  <1>5. Recorded(NoStats) = {}
    BY <1>3 DEF Recorded
  <1>6. TimesOf(NoStats) = Log!EmptyLog
    <2>1. ASSUME NEW e \in Events
          PROVE [i \in 1..Len(NoStats[e].Time) |-> NoStats[e].Time[i].time] = <<>>
      BY <1>3
    <2>2. QED
      BY <2>1 DEF TimesOf, Log!EmptyLog
  <1>7. QED
    BY <1>2, <1>4, <1>5, <1>6

\* Adding a sample yields a report, with one sample more in one entry.
LEMMA AddSampleFacts ==
    ASSUME NEW stats \in [Events -> Entries], NEW e \in Events,
           NEW t \in Int, NEW d \in Int
    PROVE  LET new == AddSample(stats, e, t, d) IN
           /\ new \in [Events -> Entries]
           /\ Recorded(new) = Recorded(stats) \cup {e}
           /\ 0 <= t /\ t <= d /\ StatsOK(stats) => StatsOK(new)
           /\ TimesOf(new) = [TimesOf(stats) EXCEPT ![e] = Append(@, t)]
  <1> DEFINE count == stats[e].Count + 1
             sample == [label |-> count, time |-> t, real |-> d]
             entry == [Count |-> count, Time |-> Append(stats[e].Time, sample)]
             new == AddSample(stats, e, t, d)
  <1>1. stats[e] \in Entries /\ stats[e].Count \in Nat /\ stats[e].Time \in Seq(Samples)
    BY DEF Entries
  <1>2. sample \in Samples
    BY <1>1 DEF Samples
  <1>3. Append(stats[e].Time, sample) \in Seq(Samples)
    BY <1>1, <1>2
  <1>4. entry \in Entries
    BY <1>1, <1>3 DEF Entries
  <1>5. new = [stats EXCEPT ![e] = entry]
    BY DEF AddSample
  <1> HIDE DEF new, entry, sample, count
  <1>6. new \in [Events -> Entries]
    BY <1>4, <1>5
  <1>7. /\ new[e] = entry
        /\ \A f \in Events : f # e => new[f] = stats[f]
    BY <1>5
  <1>8. Recorded(new) = Recorded(stats) \cup {e}
    <2>1. entry.Count > 0
      BY <1>1 DEF entry, count
    <2>2. QED
      BY <1>7, <2>1 DEF Recorded
  <1>9. /\ entry.Time = Append(stats[e].Time, sample)
        /\ Len(entry.Time) = Len(stats[e].Time) + 1
        /\ \A i \in 1..Len(stats[e].Time) : entry.Time[i] = stats[e].Time[i]
        /\ entry.Time[Len(entry.Time)] = sample
    BY <1>1, <1>2 DEF entry
  <1>10. ASSUME 0 <= t, t <= d, StatsOK(stats)
         PROVE  StatsOK(new)
    <2>1. entry.Count = Len(entry.Time)
      BY <1>1, <1>9, <1>10 DEF StatsOK, EntryOK, entry, count
    <2>2. /\ sample.label = Len(entry.Time)
          /\ sample.time = t
          /\ sample.real = d
      BY <2>1 DEF sample, entry
    <2>3. ASSUME NEW i \in 1..Len(entry.Time)
          PROVE  /\ entry.Time[i].label = i
                 /\ 0 <= entry.Time[i].time
                 /\ entry.Time[i].time <= entry.Time[i].real
      <3>1. CASE i = Len(entry.Time)
        BY <3>1, <1>9, <1>10, <2>2
      <3>2. CASE i # Len(entry.Time)
        <4>1. Len(stats[e].Time) \in Nat
          BY <1>1
        <4>2. i \in 1..Len(stats[e].Time)
          BY <3>2, <1>9, <4>1
        <4>3. QED
          BY <4>2, <1>9, <1>10 DEF StatsOK, EntryOK
      <3>3. QED
        BY <3>1, <3>2
    <2>4. QED
      BY <1>7, <1>10, <2>1, <2>3 DEF StatsOK, EntryOK
  <1>11. TimesOf(new) = [TimesOf(stats) EXCEPT ![e] = Append(@, t)]
    <2> DEFINE times(s) == [i \in 1..Len(s) |-> s[i].time]
    <2>1. times(entry.Time) = Append(times(stats[e].Time), t)
      <3>1. Len(stats[e].Time) \in Nat
        BY <1>1
      <3>2. /\ times(stats[e].Time) \in Seq(Int)
            /\ Len(times(stats[e].Time)) = Len(stats[e].Time)
        <4>1. \A i \in 1..Len(stats[e].Time) : stats[e].Time[i].time \in Int
          <5> DEFINE old == stats[e].Time
          <5>1. old \in Seq(Samples)
            BY <1>1
          <5> HIDE DEF old
          <5>2. \A i \in 1..Len(old) : old[i] \in Samples
            BY <5>1
          <5>3. \A s \in Samples : s.time \in Int
            BY DEF Samples
          <5>4. QED
            BY <5>2, <5>3 DEF old
        <4>2. QED
          BY <3>1, <4>1
      <3>3. Len(entry.Time) \in Nat /\ Len(entry.Time) = Len(stats[e].Time) + 1
        BY <3>1, <1>9
      <3>4. ASSUME NEW i \in 1..Len(entry.Time)
            PROVE entry.Time[i].time = Append(times(stats[e].Time), t)[i]
        <4>1. CASE i = Len(entry.Time)
          <5>1. entry.Time[i].time = t
            BY <4>1, <1>9 DEF sample
          <5>2. QED
            BY <5>1, <4>1, <3>2, <3>3
        <4>2. CASE i # Len(entry.Time)
          <5>1. i \in 1..Len(stats[e].Time)
            BY <4>2, <3>3, <3>1
          <5>2. Append(times(stats[e].Time), t)[i] = times(stats[e].Time)[i]
            BY <5>1, <3>2
          <5>3. QED
            BY <5>1, <5>2, <1>9
        <4>3. QED
          BY <4>1, <4>2
      <3>5. Append(times(stats[e].Time), t)
              = [i \in 1..Len(entry.Time) |-> Append(times(stats[e].Time), t)[i]]
        BY <3>2, <3>3
      <3>6. QED
        BY <3>4, <3>5
    <2>2. \A f \in Events : TimesOf(stats)[f] = times(stats[f].Time)
      BY DEF TimesOf
    <2>3. \A f \in Events : TimesOf(new)[f] = times(new[f].Time)
      BY DEF TimesOf
    <2>4. \A f \in Events :
            TimesOf(new)[f] = IF f = e THEN Append(TimesOf(stats)[e], t)
                              ELSE TimesOf(stats)[f]
      <3> HIDE DEF times
      <3>1. TAKE f \in Events
      <3>2. CASE f = e
        BY <2>1, <2>2, <2>3, <1>7, <3>2
      <3>3. CASE f # e
        BY <2>2, <2>3, <1>7, <3>3
      <3>4. QED
        BY <3>2, <3>3
    <2>5. /\ TimesOf(new) = [f \in Events |-> TimesOf(new)[f]]
          /\ TimesOf(stats) = [f \in Events |-> TimesOf(stats)[f]]
      BY DEF TimesOf
    <2> HIDE DEF times
    <2>6. QED
      BY <2>4, <2>5
  <1>12. QED
    BY <1>6, <1>8, <1>10, <1>11 DEF new

-----------------------------------------------------------------------------
(* Initial states, and the facts every case needs.                         *)

\* What the two reads return is typed, and the report is well formed.
LEMMA FileFacts ==
    ASSUME TypeOK, DataInv
    PROVE  /\ readStats(report) \in [Events -> Entries]
           /\ StatsOK(readStats(report))
           /\ readHttpCode(httpcode) \in SUBSET Events
  BY NoStatsFacts DEF TypeOK, DataInv, readStats, readHttpCode

\* The invariant holds when the server is first started.
LEMMA InitIInv == Init => IInv
  <1> SUFFICES ASSUME Init PROVE IInv
    OBVIOUS
  <1>1. TypeOK
    <2>1. NoRequest \in RequestRecords
      BY BoundAssumption DEF NoRequest, ReqStates, RequestRecords
    <2>2. req \in [Requests -> RequestRecords]
      BY <2>1 DEF Init
    <2>3. NoCallback \in Callbacks
      BY NoStatsFacts DEF NoCallback, Callbacks
    <2>4. /\ Unreadable(NoStats) \in [ok : BOOLEAN, data : [Events -> Entries]]
          /\ Unreadable({}) \in [ok : BOOLEAN, data : SUBSET Events]
      BY NoStatsFacts DEF Unreadable
    <2>5. up \in BOOLEAN
      BY DEF Init
    <2>6. clock \in 0..MaxClock /\ s_time \in 0..MaxClock /\ faults \in 0..MaxFaults
      BY BoundAssumption DEF Init
    <2>7. pc \in PcStates /\ healthy \in SUBSET Events
      BY DEF Init, PcStates
    <2>8. cb = NoCallback /\ report = Unreadable(NoStats) /\ httpcode = Unreadable({})
      BY DEF Init
    <2>9. QED
      BY <2>2, <2>3, <2>4, <2>5, <2>6, <2>7, <2>8 DEF TypeOK
  <1>2. LiveInv
    <2>1. \A r \in Requests : req[r].st = "none"
      BY DEF Init, NoRequest
    <2>2. s_time <= clock /\ pc = "idle"
      BY DEF Init
    <2>3. QED
      BY <2>1, <2>2 DEF LiveInv, Live
  <1>3. DataInv
    BY NoStatsFacts DEF Init, DataInv, Unreadable, NoCallback
  <1>4. ListInv
    BY NoStatsFacts DEF Init, ListInv, Unreadable, readStats, readHttpCode
  <1>5. HealthInv
    BY DEF Init, HealthInv
  <1>6. LogInv
    BY DEF Init, LogInv
  <1>7. QED
    BY <1>1, <1>2, <1>3, <1>4, <1>5, <1>6 DEF IInv

\* What the first half of the callback leaves in its locals, whichever of
\* its two reads failed.
LEMMA ProcessFacts ==
    ASSUME IInv, NEW r \in Requests, NEW stats, NEW list, NEW lost \in BOOLEAN,
           stats \in {readStats(report), NoStats},
           list \in {readHttpCode(httpcode), {}},
           Process(r, stats, list, lost)
    PROVE  /\ EventOf(r) \in Events
           /\ cb' \in Callbacks
           /\ StatsOK(cb.stats)'
           /\ Recorded(cb.stats)' = Recorded(stats) \cup {EventOf(r)}
           /\ cb'.list = list \cup {EventOf(r)}
           /\ cb'.lost = lost
           /\ \E t \in 0..MaxClock :
                  TimesOf(cb.stats)' = [TimesOf(stats) EXCEPT ![EventOf(r)] = Append(@, t)]
           /\ pc' \in {"dumpStats", "dumpHttpinfo"}
           /\ pc' = "dumpStats" => EventOf(r) \in list
           /\ TypeOK' \/ ~(faults' \in 0..MaxFaults /\ healthy' \in SUBSET Events)
           /\ LiveInv'
  <1> DEFINE e == EventOf(r)
             t == clock - s_time
             d == clock - req[r].start
             new == AddSample(stats, e, t, d)
  <1>1. /\ TypeOK /\ LiveInv /\ DataInv
        /\ up /\ pc = "idle" /\ req[r].st = "answered"
    BY DEF IInv, Process, Idle
  <1>2. req[r].route \in Routes /\ req[r].status \in Statuses /\ req[r].start <= s_time
    BY <1>1 DEF LiveInv, Live
  <1>3. e \in Events
    BY <1>2 DEF EventOf, Events
  <1>4. clock \in 0..MaxClock /\ s_time \in 0..MaxClock /\ req[r].start \in 0..MaxClock
    BY <1>1 DEF TypeOK, RequestRecords
  <1>5. /\ t \in 0..MaxClock /\ t \in Int /\ d \in Int /\ 0 <= t /\ t <= d
    BY <1>1, <1>2, <1>4, BoundAssumption DEF LiveInv
  <1>6. /\ stats \in [Events -> Entries]
        /\ StatsOK(stats)
        /\ list \in SUBSET Events
    BY <1>1, FileFacts, NoStatsFacts
  <1>7. /\ cb' = [stats |-> new, list |-> list \cup {e}, lost |-> lost]
        /\ pc' = IF Listed(e, list) THEN "dumpStats" ELSE "dumpHttpinfo"
        /\ req' = [req EXCEPT ![r].st = "done"]
        /\ UNCHANGED <<clock, up, s_time, report, httpcode>>
    BY DEF Process
  <1> HIDE DEF e, t, d
  <1>8. /\ new \in [Events -> Entries]
        /\ Recorded(new) = Recorded(stats) \cup {e}
        /\ StatsOK(new)
        /\ TimesOf(new) = [TimesOf(stats) EXCEPT ![e] = Append(@, t)]
    BY <1>3, <1>5, <1>6, AddSampleFacts
  <1> HIDE DEF new
  <1>9. /\ cb' \in Callbacks
        /\ cb'.stats = new /\ cb'.list = list \cup {e} /\ cb'.lost = lost
    BY <1>3, <1>6, <1>7, <1>8 DEF Callbacks
  <1>10. /\ StatsOK(cb.stats)'
         /\ Recorded(cb.stats)' = Recorded(stats) \cup {e}
         /\ TimesOf(cb.stats)' = [TimesOf(stats) EXCEPT ![e] = Append(@, t)]
    BY <1>8, <1>9 DEF StatsOK, Recorded, TimesOf
  <1>11. /\ pc' \in {"dumpStats", "dumpHttpinfo"}
         /\ pc' = "dumpStats" => e \in list
    BY <1>7 DEF Listed
  <1>12. LiveInv'
    <2>1. \A q \in Requests : /\ q # r => req'[q] = req[q]
                              /\ q = r => req'[q].st = "done"
      BY <1>1, <1>7 DEF TypeOK, RequestRecords
    <2>2. QED
      BY <1>1, <1>7, <2>1 DEF LiveInv, Live
  <1>13. TypeOK' \/ ~(faults' \in 0..MaxFaults /\ healthy' \in SUBSET Events)
    <2>1. req' \in [Requests -> RequestRecords]
      <3>1. [req[r] EXCEPT !.st = "done"] \in RequestRecords
        <4>1. req[r] \in RequestRecords
          BY <1>1 DEF TypeOK
        <4>2. QED
          BY <4>1 DEF ReqStates, RequestRecords
      <3>2. QED
        BY <1>1, <1>7, <3>1 DEF TypeOK
    <2>2. pc' \in PcStates
      BY <1>11 DEF PcStates
    <2>3. QED
      BY <1>1, <1>7, <1>9, <2>1, <2>2 DEF TypeOK
  <1>14. QED
    BY <1>3, <1>5, <1>9, <1>10, <1>11, <1>12, <1>13 DEF e

-----------------------------------------------------------------------------
(* Every step preserves the invariant.                                     *)

StoreVars == <<pc, cb, report, httpcode, faults, healthy>>
StoreInv == DataInv /\ ListInv /\ HealthInv /\ LogInv

\* A fault is counted, within the bound.
LEMMA FaultFacts ==
    ASSUME TypeOK, NoteFault
    PROVE  faults' \in 0..MaxFaults /\ faults' # 0 /\ healthy' = {}
  <1>1. faults \in 0..MaxFaults
    BY DEF TypeOK
  <1>2. faults < MaxFaults /\ faults' = faults + 1 /\ healthy' = {}
    BY DEF NoteFault, CanFail
  <1>3. QED
    BY <1>1, <1>2, BoundAssumption

\* Before report.json is opened the callback's report does not change.
LEMMA LogKept ==
    ASSUME LogInv, UNCHANGED <<cb, report>>,
           pc' \in {"dumpHttpinfo", "writeHttpinfo", "dumpStats"} =>
               pc \in {"dumpHttpinfo", "writeHttpinfo", "dumpStats"}
    PROVE  LogInv'
  <1>1. /\ TimesOf(cb.stats)' = TimesOf(cb.stats)
        /\ TimesOf(readStats(report))' = TimesOf(readStats(report))
        /\ cb'.lost = cb.lost
    BY DEF TimesOf, readStats, NoStats, NoEntry
  <1>2. QED
    BY <1>1 DEF LogInv

\* Steps that touch neither a file nor a callback.
LEMMA StoreUntouched ==
    ASSUME StoreInv, UNCHANGED StoreVars
    PROVE  StoreInv'
  <1> USE DEF StoreVars, StoreInv
  <1>1. DataInv'
    BY DEF DataInv, StatsOK, EntryOK
  <1>2. ListInv'
    BY DEF ListInv, Recorded, readStats, readHttpCode, NoStats, NoEntry
  <1>3. HealthInv'
    BY DEF HealthInv, Recorded, readStats, readHttpCode, NoStats, NoEntry
  <1>4. LogInv'
    BY LogKept DEF LogInv
  <1>5. QED
    BY <1>1, <1>2, <1>3, <1>4

\* Steps that give up a callback because of a fault.
LEMMA CallbackLost ==
    ASSUME TypeOK, StoreInv, NoteFault, pc' = "idle", cb' = NoCallback,
           UNCHANGED <<report, httpcode>>
    PROVE  StoreInv'
  <1>1. DataInv'
    <2>1. StatsOK(report.data)'
      BY DEF StoreInv, DataInv, StatsOK, EntryOK
    <2>2. StatsOK(cb.stats)'
      <3>1. cb'.stats = NoStats
        BY DEF NoCallback
      <3>2. QED
        BY <3>1, NoStatsFacts DEF StatsOK
    <2>3. QED
      BY <2>1, <2>2 DEF DataInv
  <1>2. faults' # 0 /\ healthy' = {}
    BY FaultFacts
  <1>3. ListInv' /\ HealthInv' /\ LogInv'
    BY <1>2 DEF ListInv, HealthInv, LogInv
  <1>4. QED
    BY <1>1, <1>3 DEF StoreInv

\* Every action of the server, its clients and its faults preserves it.
LEMMA NextIInv == IInv /\ [Next]_vars => IInv'
  <1> SUFFICES ASSUME IInv, [Next]_vars PROVE IInv'
    OBVIOUS
  <1>0. TypeOK /\ LiveInv /\ StoreInv
    BY DEF IInv, StoreInv
  <1>q. ASSUME TypeOK', LiveInv', StoreInv' PROVE IInv'
    BY <1>q DEF IInv, StoreInv
  <1>1. CASE Tick
    <2>1. TypeOK'
      <3>1. clock' \in 0..MaxClock
        BY <1>0, <1>1, BoundAssumption DEF Tick, TypeOK
      <3>2. QED
        BY <1>0, <1>1, <3>1 DEF Tick, TypeOK
    <2>2. LiveInv'
      BY <1>0, <1>1 DEF Tick, TypeOK, LiveInv
    <2>3. StoreInv'
      BY <1>0, <1>1, StoreUntouched DEF Tick, StoreVars
    <2>4. QED
      BY <1>q, <2>1, <2>2, <2>3
  <1>2. ASSUME NEW r \in Requests, NEW route \in Routes, StartRequest(r, route)
        PROVE  IInv'
    <2>1. TypeOK'
      <3>1. [st |-> "open", route |-> route, status |-> 0, start |-> clock] \in RequestRecords
        BY <1>0 DEF TypeOK, ReqStates, RequestRecords
      <3>2. req' \in [Requests -> RequestRecords] /\ s_time' \in 0..MaxClock
        BY <1>0, <1>2, <3>1 DEF StartRequest, TypeOK
      <3>3. UNCHANGED <<clock, up, pc, cb, report, httpcode, faults, healthy>>
        BY <1>2 DEF StartRequest
      <3>4. QED
        BY <1>0, <3>2, <3>3 DEF TypeOK
    <2>2. LiveInv'
      <3>1. /\ up' /\ s_time' = clock /\ clock' = clock /\ pc' = pc
            /\ req' = [req EXCEPT ![r] = [st |-> "open", route |-> route,
                                          status |-> 0, start |-> clock]]
            /\ clock \in Int /\ s_time <= clock
        BY <1>0, <1>2 DEF StartRequest, Idle, TypeOK, LiveInv
      <3>2. ASSUME NEW q \in Requests
            PROVE  /\ req'[q].st \in Live => /\ req'[q].start <= clock
                                             /\ req'[q].route \in Routes
                   /\ req'[q].st = "answered" => req'[q].status \in Statuses
        <4>1. CASE q = r
          <5>1. req'[q] = [st |-> "open", route |-> route,
                           status |-> 0, start |-> clock]
            BY <1>0, <3>1, <4>1 DEF TypeOK
          <5>2. QED
            BY <5>1, <3>1
        <4>2. CASE q # r
          <5>1. req'[q] = req[q] /\ req[q].start \in Int /\ s_time \in Int
            <6>1. req'[q] = req[q] /\ req[q] \in RequestRecords /\ s_time \in 0..MaxClock
              BY <1>0, <3>1, <4>2 DEF TypeOK
            <6>2. req[q].start \in 0..MaxClock
              BY <6>1 DEF RequestRecords
            <6>3. QED
              BY <6>1, <6>2, BoundAssumption
          <5>2. QED
            BY <1>0, <3>1, <5>1 DEF LiveInv, Live
        <4>3. QED
          BY <4>1, <4>2
      <3>3. QED
        BY <3>1, <3>2 DEF LiveInv
    <2>3. StoreInv'
      BY <1>0, <1>2, StoreUntouched DEF StartRequest, StoreVars
    <2>4. QED
      BY <1>q, <2>1, <2>2, <2>3
  <1>3. ASSUME NEW r \in Requests, NEW status \in Statuses, Answer(r, status)
        PROVE  IInv'
    <2>0. /\ req' = [req EXCEPT ![r].st = "answered", ![r].status = status]
          /\ UNCHANGED <<clock, up, s_time, pc, cb, report, httpcode, faults, healthy>>
          /\ req \in [Requests -> RequestRecords] /\ req[r].st = "open"
      BY <1>0, <1>3 DEF Answer, TypeOK
    <2> DEFINE new == [req[r] EXCEPT !.st = "answered", !.status = status]
    <2>a. /\ new \in RequestRecords /\ new.st = "answered" /\ new.status = status
          /\ new.route = req[r].route /\ new.start = req[r].start
      <3>1. req[r] \in RequestRecords
        BY <2>0
      <3>2. QED
        BY <3>1 DEF ReqStates, RequestRecords
    <2>b. req' = [req EXCEPT ![r] = new]
      BY <2>0
    <2> HIDE DEF new
    <2>c. req'[r] = new /\ \A q \in Requests : q # r => req'[q] = req[q]
      BY <2>0, <2>b
    <2>1. TypeOK'
      <3>1. req' \in [Requests -> RequestRecords]
        BY <2>0, <2>a, <2>b
      <3>2. QED
        BY <1>0, <2>0, <3>1 DEF TypeOK
    <2>2. LiveInv'
      <3>1. req[r].st \in Live
        BY <2>0 DEF Live
      <3>2. ASSUME NEW q \in Requests
            PROVE  /\ req'[q].st \in Live => up /\ req'[q].start <= s_time /\ req'[q].route \in Routes
                   /\ req'[q].st = "answered" => req'[q].status \in Statuses
        <4>1. CASE q = r
          BY <1>0, <2>a, <2>c, <3>1, <4>1 DEF LiveInv
        <4>2. CASE q # r
          BY <1>0, <2>c, <4>2 DEF LiveInv
        <4>3. QED
          BY <4>1, <4>2
      <3>3. QED
        BY <1>0, <2>0, <3>2 DEF LiveInv
    <2>3. StoreInv'
      BY <1>0, <1>3, StoreUntouched DEF Answer, StoreVars
    <2>4. QED
      BY <1>q, <2>1, <2>2, <2>3
  <1>4. ASSUME NEW r \in Requests, Abort(r)
        PROVE  IInv'
    <2>0. /\ req' = [req EXCEPT ![r].st = "gone"]
          /\ UNCHANGED <<clock, up, s_time, pc, cb, report, httpcode, faults, healthy>>
          /\ req \in [Requests -> RequestRecords]
      BY <1>0, <1>4 DEF Abort, TypeOK
    <2>1. TypeOK'
      <3>1. req' \in [Requests -> RequestRecords]
        BY <2>0 DEF ReqStates, RequestRecords
      <3>2. QED
        BY <1>0, <2>0, <3>1 DEF TypeOK
    <2>2. LiveInv'
      BY <1>0, <2>0 DEF RequestRecords, LiveInv, Live
    <2>3. StoreInv'
      BY <1>0, <1>4, StoreUntouched DEF Abort, StoreVars
    <2>4. QED
      BY <1>q, <2>1, <2>2, <2>3
  <1>5. ASSUME NEW r \in Requests, Finish(r)
        PROVE  IInv'
    <2> DEFINE e == EventOf(r)
               stats == readStats(report)
               list == readHttpCode(httpcode)
    <2>1. /\ Process(r, stats, list, FALSE)
          /\ healthy' = healthy \cup {e}
          /\ faults' = faults
          /\ pc = "idle"
          /\ UNCHANGED <<report, httpcode>>
      BY <1>5 DEF Finish, Process, Idle
    <2>2. /\ e \in Events
          /\ StatsOK(cb.stats)'
          /\ Recorded(cb.stats)' = Recorded(stats) \cup {e}
          /\ cb'.list = list \cup {e}
          /\ ~cb'.lost
          /\ \E t \in 0..MaxClock :
                TimesOf(cb.stats)' = [TimesOf(stats) EXCEPT ![e] = Append(@, t)]
          /\ pc' \in {"dumpStats", "dumpHttpinfo"}
          /\ pc' = "dumpStats" => e \in list
          /\ TypeOK' \/ ~(faults' \in 0..MaxFaults /\ healthy' \in SUBSET Events)
          /\ LiveInv'
      BY <2>1, ProcessFacts
    <2>3. TypeOK'
      BY <1>0, <2>1, <2>2 DEF TypeOK
    <2>4. /\ readStats(report)' = stats
          /\ readHttpCode(httpcode)' = list
      BY <2>1 DEF readStats, readHttpCode, NoStats, NoEntry
    <2> HIDE DEF e, stats, list
    <2>5. DataInv'
      BY <1>0, <2>1, <2>2 DEF StoreInv, DataInv, StatsOK, EntryOK
    <2>6. ListInv'
      BY <1>0, <2>1, <2>2, <2>4 DEF StoreInv, ListInv, stats, list
    <2>7. HealthInv'
      BY <1>0, <2>1, <2>2, <2>4 DEF StoreInv, HealthInv, stats, list
    <2>8. LogInv'
      <3>1. TimesOf(readStats(report))' = TimesOf(stats)
        BY <2>4 DEF TimesOf
      <3>2. OneMore(TimesOf(cb.stats)', TimesOf(stats), cb'.lost)
        BY <2>2 DEF OneMore
      <3>3. QED
        BY <3>1, <3>2 DEF LogInv
    <2>9. QED
      BY <1>q, <2>2, <2>3, <2>5, <2>6, <2>7, <2>8 DEF StoreInv
  <1>6. ASSUME NEW r \in Requests, FinishReadFails(r)
        PROVE  IInv'
    <2> DEFINE e == EventOf(r)
    <2>1. faults' \in 0..MaxFaults /\ faults' # 0 /\ healthy' = {}
      BY <1>0, <1>6, FaultFacts DEF FinishReadFails
    <2>2. ASSUME NEW stats, NEW lost \in BOOLEAN,
                 lost => stats = NoStats, ~lost => stats = readStats(report),
                 UNCHANGED <<report, httpcode>>,
                 e \in Events, StatsOK(cb.stats)', cb'.lost = lost,
                 \E t \in 0..MaxClock :
                     TimesOf(cb.stats)' = [TimesOf(stats) EXCEPT ![e] = Append(@, t)],
                 TypeOK' \/ ~(faults' \in 0..MaxFaults /\ healthy' \in SUBSET Events),
                 LiveInv'
          PROVE  IInv'
      <3>1. /\ e \in Events
            /\ StatsOK(cb.stats)'
            /\ cb'.lost = lost
            /\ \E t \in 0..MaxClock :
                  TimesOf(cb.stats)' = [TimesOf(stats) EXCEPT ![e] = Append(@, t)]
            /\ TypeOK' \/ ~(faults' \in 0..MaxFaults /\ healthy' \in SUBSET Events)
            /\ LiveInv'
        BY <2>2
      <3>2. TypeOK'
        BY <2>1, <3>1, BoundAssumption
      <3>3. UNCHANGED <<report, httpcode>>
        BY <2>2
      <3>4. readStats(report)' = readStats(report)
        BY <3>3 DEF readStats, NoStats, NoEntry
      <3> HIDE DEF e
      <3>5. DataInv'
        BY <1>0, <3>1, <3>3 DEF StoreInv, DataInv, StatsOK, EntryOK
      <3>6. ListInv' /\ HealthInv'
        BY <2>1 DEF ListInv, HealthInv
      <3>7. OneMore(TimesOf(cb.stats)', TimesOf(readStats(report)), cb'.lost)
        <4>1. CASE lost
          <5>1. stats = NoStats /\ TimesOf(stats) = Log!EmptyLog
            BY <2>2, <4>1, NoStatsFacts
          <5>2. Log!EmptyLog[e] = <<>>
            BY <3>1 DEF Log!EmptyLog
          <5>3. \A t \in 0..MaxClock : Append(<<>>, t) = <<t>>
            OBVIOUS
          <5>4. Log!EmptyLog \in [Events -> {<<>>}]
            BY DEF Log!EmptyLog
          <5>5. \A t \in 0..MaxClock :
                   [Log!EmptyLog EXCEPT ![e] = Append(@, t)]
                      = [Log!EmptyLog EXCEPT ![e] = <<t>>]
            BY <3>1, <5>2, <5>3, <5>4
          <5>6. QED
            BY <3>1, <4>1, <5>1, <5>5 DEF OneMore
        <4>2. CASE ~lost
          BY <2>2, <3>1, <4>2 DEF OneMore
        <4>3. QED
          BY <4>1, <4>2
      <3>8. LogInv'
        <4>1. TimesOf(readStats(report))' = TimesOf(readStats(report))
          BY <3>4 DEF TimesOf
        <4>2. QED
          BY <3>7, <4>1 DEF LogInv
      <3>9. QED
        BY <1>q, <3>1, <3>2, <3>5, <3>6, <3>8 DEF StoreInv
    <2>3. CASE Process(r, NoStats, readHttpCode(httpcode), TRUE)
      <3>1. /\ e \in Events /\ StatsOK(cb.stats)' /\ cb'.lost = TRUE
            /\ \E t \in 0..MaxClock :
                  TimesOf(cb.stats)' = [TimesOf(NoStats) EXCEPT ![e] = Append(@, t)]
            /\ TypeOK' \/ ~(faults' \in 0..MaxFaults /\ healthy' \in SUBSET Events)
            /\ LiveInv'
        BY <2>3, ProcessFacts
      <3>2. UNCHANGED <<report, httpcode>>
        BY <2>3 DEF Process
      <3>3. QED
        BY <2>2, <3>1, <3>2
    <2>4. CASE Process(r, readStats(report), {}, FALSE)
      <3>1. /\ e \in Events /\ StatsOK(cb.stats)' /\ cb'.lost = FALSE
            /\ \E t \in 0..MaxClock :
                  TimesOf(cb.stats)' = [TimesOf(readStats(report)) EXCEPT ![e] = Append(@, t)]
            /\ TypeOK' \/ ~(faults' \in 0..MaxFaults /\ healthy' \in SUBSET Events)
            /\ LiveInv'
        BY <2>4, ProcessFacts
      <3>2. UNCHANGED <<report, httpcode>>
        BY <2>4 DEF Process
      <3>3. QED
        BY <2>2, <3>1, <3>2
    <2>5. CASE Process(r, NoStats, {}, TRUE)
      <3>1. /\ e \in Events /\ StatsOK(cb.stats)' /\ cb'.lost = TRUE
            /\ \E t \in 0..MaxClock :
                  TimesOf(cb.stats)' = [TimesOf(NoStats) EXCEPT ![e] = Append(@, t)]
            /\ TypeOK' \/ ~(faults' \in 0..MaxFaults /\ healthy' \in SUBSET Events)
            /\ LiveInv'
        BY <2>5, ProcessFacts
      <3>2. UNCHANGED <<report, httpcode>>
        BY <2>5 DEF Process
      <3>3. QED
        BY <2>2, <3>1, <3>2
    <2>6. QED
      BY <1>6, <2>3, <2>4, <2>5 DEF FinishReadFails
  <1>7. CASE OpenHttpinfo
    <2>1. TypeOK'
      BY <1>0, <1>7 DEF OpenHttpinfo, TypeOK, PcStates, Unreadable
    <2>2. LiveInv'
      BY <1>0, <1>7 DEF OpenHttpinfo, LiveInv
    <2>3. DataInv'
      BY <1>0, <1>7 DEF OpenHttpinfo, StoreInv, DataInv, StatsOK, EntryOK
    <2>4. ListInv'
      BY <1>0, <1>7 DEF OpenHttpinfo, StoreInv, ListInv, Recorded
    <2>5. HealthInv'
      BY <1>0, <1>7 DEF OpenHttpinfo, StoreInv, HealthInv, Recorded
    <2>6. LogInv'
      BY <1>0, <1>7, LogKept DEF OpenHttpinfo, StoreInv
    <2>7. QED
      BY <1>q, <2>1, <2>2, <2>3, <2>4, <2>5, <2>6 DEF StoreInv
  <1>8. CASE WriteHttpinfo
    <2>1. TypeOK'
      BY <1>0, <1>8 DEF WriteHttpinfo, TypeOK, PcStates, Written, Callbacks
    <2>2. LiveInv'
      BY <1>0, <1>8 DEF WriteHttpinfo, LiveInv
    <2>3. DataInv'
      BY <1>0, <1>8 DEF WriteHttpinfo, StoreInv, DataInv, StatsOK, EntryOK
    <2>4. readHttpCode(httpcode)' = cb.list
      BY <1>8 DEF WriteHttpinfo, readHttpCode, Written
    <2>5. ListInv'
      BY <1>0, <1>8, <2>4 DEF WriteHttpinfo, StoreInv, ListInv, Recorded
    <2>6. HealthInv'
      BY <1>0, <1>8, <2>4 DEF WriteHttpinfo, StoreInv, HealthInv, Recorded
    <2>7. LogInv'
      BY <1>0, <1>8, LogKept DEF WriteHttpinfo, StoreInv
    <2>8. QED
      BY <1>q, <2>1, <2>2, <2>3, <2>5, <2>6, <2>7 DEF StoreInv
  <1>9. CASE HttpinfoFails
    <2>1. faults' \in 0..MaxFaults /\ faults' # 0 /\ healthy' = {}
      BY <1>0, <1>9, FaultFacts DEF HttpinfoFails
    <2>2. TypeOK'
      BY <1>0, <1>9, <2>1, BoundAssumption DEF HttpinfoFails, TypeOK, PcStates
    <2>3. LiveInv'
      BY <1>0, <1>9 DEF HttpinfoFails, LiveInv
    <2>4. DataInv'
      BY <1>0, <1>9 DEF HttpinfoFails, StoreInv, DataInv, StatsOK, EntryOK
    <2>5. ListInv' /\ HealthInv'
      BY <2>1 DEF ListInv, HealthInv
    <2>6. LogInv'
      BY <1>0, <1>9, LogKept DEF HttpinfoFails, StoreInv
    <2>7. QED
      BY <1>q, <2>2, <2>3, <2>4, <2>5, <2>6 DEF StoreInv
  <1>10. CASE OpenStats
    <2>1. TypeOK'
      BY <1>0, <1>10, NoStatsFacts DEF OpenStats, TypeOK, PcStates, Unreadable
    <2>2. LiveInv'
      BY <1>0, <1>10 DEF OpenStats, LiveInv
    <2>3. DataInv'
      <3>1. report'.data = NoStats
        BY <1>10 DEF OpenStats, Unreadable
      <3>2. StatsOK(report.data)'
        BY <3>1, NoStatsFacts DEF StatsOK
      <3>3. StatsOK(cb.stats)'
        BY <1>0, <1>10 DEF OpenStats, StoreInv, DataInv, StatsOK, EntryOK
      <3>4. QED
        BY <3>2, <3>3 DEF DataInv
    <2>4. ListInv'
      BY <1>0, <1>10 DEF OpenStats, StoreInv, ListInv, Recorded, readHttpCode
    <2>5. HealthInv'
      BY <1>0, <1>10 DEF OpenStats, StoreInv, HealthInv, Recorded, readHttpCode
    <2>6. LogInv'
      BY <1>10 DEF OpenStats, LogInv
    <2>7. QED
      BY <1>q, <2>1, <2>2, <2>3, <2>4, <2>5, <2>6 DEF StoreInv
  <1>11. CASE WriteStats
    <2>1. /\ report' = Written(cb.stats) /\ cb' = NoCallback /\ pc' = "idle"
          /\ pc = "writeStats"
          /\ UNCHANGED <<clock, up, s_time, req, httpcode, faults, healthy>>
      BY <1>11 DEF WriteStats
    <2>2. /\ report'.data = cb.stats
          /\ readStats(report)' = cb.stats
          /\ cb'.stats = NoStats
          /\ readHttpCode(httpcode)' = readHttpCode(httpcode)
      BY <2>1 DEF Written, readStats, NoCallback, readHttpCode
    <2>3. TypeOK'
      <3>1. report' \in [ok : BOOLEAN, data : [Events -> Entries]]
        BY <1>0, <2>1 DEF TypeOK, Written, Callbacks
      <3>2. cb' \in Callbacks
        BY <2>1, NoStatsFacts DEF NoCallback, Callbacks
      <3>3. QED
        BY <1>0, <2>1, <3>1, <3>2 DEF TypeOK, PcStates
    <2>4. LiveInv'
      BY <1>0, <2>1 DEF LiveInv
    <2>5. DataInv'
      BY <1>0, <2>2, NoStatsFacts DEF StoreInv, DataInv, StatsOK
    <2>6. Recorded(readStats(report))' = Recorded(cb.stats)
      BY <2>2 DEF Recorded
    <2>7. ListInv'
      BY <1>0, <2>1, <2>2, <2>6 DEF StoreInv, ListInv
    <2>8. HealthInv'
      BY <1>0, <2>1, <2>2, <2>6 DEF StoreInv, HealthInv
    <2>9. LogInv'
      BY <2>1 DEF LogInv
    <2>10. QED
      BY <1>q, <2>3, <2>4, <2>5, <2>7, <2>8, <2>9 DEF StoreInv
  <1>12. CASE StatsFails
    <2>1. faults' \in 0..MaxFaults /\ faults' # 0 /\ healthy' = {}
      BY <1>0, <1>12, FaultFacts DEF StatsFails
    <2>2. cb' \in Callbacks
      BY <1>12, NoStatsFacts DEF StatsFails, NoCallback, Callbacks
    <2>3. TypeOK'
      BY <1>0, <1>12, <2>1, <2>2, BoundAssumption DEF StatsFails, TypeOK, PcStates
    <2>4. LiveInv'
      BY <1>0, <1>12 DEF StatsFails, LiveInv
    <2>5. StoreInv'
      BY <1>0, <1>12, CallbackLost DEF StatsFails
    <2>6. QED
      BY <1>q, <2>3, <2>4, <2>5
  <1>13. ASSUME Die, faults' \in 0..MaxFaults, healthy' \in SUBSET Events
         PROVE  TypeOK' /\ LiveInv'
    <2>1. /\ up' = FALSE /\ pc' = "idle" /\ cb' = NoCallback
          /\ UNCHANGED <<clock, s_time, report, httpcode>>
      BY <1>13 DEF Die
    <2>2. ASSUME NEW r \in Requests
          PROVE  /\ req'[r] \in RequestRecords
                 /\ req'[r].st \notin Live
      <3>1. req[r] \in RequestRecords
        BY <1>0 DEF TypeOK
      <3>2. req'[r] = IF req[r].st \in {"open", "answered"}
                      THEN [req[r] EXCEPT !.st = "gone"] ELSE req[r]
        BY <1>13 DEF Die
      <3>3. QED
        BY <3>1, <3>2 DEF ReqStates, RequestRecords, Live
    <2>3. req' \in [Requests -> RequestRecords]
      <3>1. req' = [r \in Requests |-> req'[r]]
        BY <1>13 DEF Die
      <3>2. QED
        BY <2>2, <3>1
    <2>4. cb' \in Callbacks
      BY <2>1, NoStatsFacts DEF NoCallback, Callbacks
    <2>5. TypeOK'
      BY <1>0, <1>13, <2>1, <2>3, <2>4 DEF TypeOK, PcStates
    <2>6. LiveInv'
      BY <1>0, <2>1, <2>2 DEF LiveInv, Live
    <2>7. QED
      BY <2>5, <2>6
  <1>14. CASE CrashIdle
    <2>1. /\ Die /\ pc = "idle" /\ pc' = "idle" /\ cb' = NoCallback
          /\ UNCHANGED <<report, httpcode, faults, healthy>>
      BY <1>14 DEF CrashIdle, Idle, Die
    <2>2. TypeOK' /\ LiveInv'
      BY <1>0, <1>13, <2>1 DEF TypeOK
    <2>3. /\ readStats(report)' = readStats(report)
          /\ readHttpCode(httpcode)' = readHttpCode(httpcode)
      BY <2>1 DEF readStats, readHttpCode, NoStats, NoEntry
    <2>4. DataInv'
      <3>1. cb'.stats = NoStats
        BY <2>1 DEF NoCallback
      <3>2. QED
        BY <1>0, <2>1, <3>1, NoStatsFacts DEF StoreInv, DataInv, StatsOK
    <2>5. Recorded(readStats(report))' = Recorded(readStats(report))
      BY <2>3 DEF Recorded
    <2>6. ListInv' /\ HealthInv' /\ LogInv'
      BY <1>0, <2>1, <2>3, <2>5 DEF StoreInv, ListInv, HealthInv, LogInv
    <2>7. QED
      BY <1>q, <2>2, <2>4, <2>6 DEF StoreInv
  <1>15. CASE CrashInCallback
    <2>1. /\ Die /\ NoteFault /\ pc' = "idle" /\ cb' = NoCallback
          /\ UNCHANGED <<report, httpcode>>
      BY <1>15 DEF CrashInCallback, Die
    <2>2. faults' \in 0..MaxFaults /\ healthy' \in SUBSET Events
      BY <1>0, <2>1, FaultFacts
    <2>3. TypeOK' /\ LiveInv'
      BY <1>13, <2>1, <2>2
    <2>4. StoreInv'
      BY <1>0, <2>1, CallbackLost
    <2>5. QED
      BY <1>q, <2>3, <2>4
  <1>16. CASE Restart
    <2>1. TypeOK'
      BY <1>0, <1>16, BoundAssumption DEF Restart, TypeOK
    <2>2. LiveInv'
      BY <1>0, <1>16 DEF Restart, LiveInv, TypeOK
    <2>3. StoreInv'
      BY <1>0, <1>16, StoreUntouched DEF Restart, StoreVars
    <2>4. QED
      BY <1>q, <2>1, <2>2, <2>3
  <1>17. CASE UNCHANGED vars
    <2>1. TypeOK'
      BY <1>0, <1>17 DEF vars, TypeOK
    <2>2. LiveInv'
      BY <1>0, <1>17 DEF vars, LiveInv
    <2>3. StoreInv'
      BY <1>0, <1>17, StoreUntouched DEF vars, StoreVars
    <2>4. QED
      BY <1>q, <2>1, <2>2, <2>3
  <1>18. QED
    BY <1>1, <1>2, <1>3, <1>4, <1>5, <1>6, <1>7, <1>8, <1>9, <1>10, <1>11, <1>12,
       <1>14, <1>15, <1>16, <1>17 DEF Next

\* The invariant holds throughout.
LEMMA Invariance == Spec => []IInv
  <1>1. Init => IInv
    BY InitIInv
  <1>2. IInv /\ [Next]_vars => IInv'
    BY NextIInv
  <1>3. QED
    BY <1>1, <1>2, PTL DEF Spec

-----------------------------------------------------------------------------
(* The theorems.                                                           *)

\* Variables, locals and files keep their types.
THEOREM TypeCorrect == Spec => []TypeOK
  <1>1. IInv => TypeOK
    BY DEF IInv
  <1>2. QED
    BY <1>1, Invariance, PTL

\* What can be read of report.json is always well formed: every Count is the
\* number of response times and Response_time_N is the N-th of them.
THEOREM WellFormed == Spec => []ReportWellFormed
  <1>1. IInv => ReportWellFormed
    BY FileFacts DEF IInv, StatsOK, ReportWellFormed
  <1>2. QED
    BY <1>1, Invariance, PTL

\* For any number of overlapping requests, crashes and restarts, no recorded
\* time is negative or longer than its request took.
THEOREM NeverOverstated == Spec => []TimesNeverOverstated
  <1>1. IInv => TimesNeverOverstated
    BY FileFacts DEF IInv, StatsOK, TimesNeverOverstated
  <1>2. QED
    BY <1>1, Invariance, PTL

\* Without faults the event list and the report name the same events.
THEOREM FilesStayInStep == Spec => []FilesAgree
  <1>1. IInv => FilesAgree
    BY DEF IInv, ListInv, FilesAgree
  <1>2. QED
    BY <1>1, Invariance, PTL

\* After any damage, an event recorded since is back in both files.
THEOREM UseRepairs == Spec => []RepairedByUse
  <1>1. IInv => RepairedByUse
    BY DEF IInv, HealthInv, RepairedByUse
  <1>2. QED
    BY <1>1, Invariance, PTL

-----------------------------------------------------------------------------
(* The refinement of ReportLog.                                            *)

PreOpen == {"dumpHttpinfo", "writeHttpinfo", "dumpStats"}

\* Steps that touch neither report.json nor the callback are invisible.
LEMMA LogStutters ==
    ASSUME UNCHANGED <<cb, report, faults>>,
           pc' = "writeStats" <=> pc = "writeStats",
           pc' \in PreOpen <=> pc \in PreOpen
    PROVE  UNCHANGED <<LogNow, LossPending, faults>>
  <1>1. LogNow' = LogNow
    BY DEF LogNow, TimesOf, readStats, NoStats, NoEntry
  <1>2. LossPending' = LossPending
    BY DEF LossPending, PreOpen
  <1>3. QED
    BY <1>1, <1>2

\* A fault leaves the log as it was, or loses it when report.json was open.
LEMMA LogFault ==
    ASSUME TypeOK, NoteFault, UNCHANGED report,
           pc' # "writeStats",
           pc = "writeStats" => ~report.ok /\ pc' = "idle"
    PROVE  Log!Fault
  <1>1. faults' = faults + 1
    BY DEF NoteFault
  <1>2. LogNow' = TimesOf(readStats(report))
    BY DEF LogNow, TimesOf, readStats, NoStats, NoEntry
  <1>3. CASE pc = "writeStats"
    <2>1. LogNow' = Log!EmptyLog
      BY <1>2, <1>3, NoStatsFacts DEF readStats
    <2>2. LossPending' \in BOOLEAN
      BY <1>3 DEF LossPending
    <2>3. QED
      BY <1>1, <2>1, <2>2 DEF Log!Fault
  <1>4. CASE pc # "writeStats"
    <2>1. LogNow' = LogNow
      BY <1>2, <1>4 DEF LogNow
    <2>2. LossPending' \in BOOLEAN
      BY DEF LossPending
    <2>3. QED
      BY <1>1, <2>1, <2>2 DEF Log!Fault
  <1>5. QED
    BY <1>3, <1>4

\* While report.json is open for writing it does not parse.
Truncated == pc = "writeStats" => ~report.ok

\* That is so in every reachable state.
LEMMA TruncatedInvariance == Spec => []Truncated
  <1>1. Init => Truncated
    BY DEF Init, Truncated
  <1>2. Truncated /\ [Next]_vars => Truncated'
    <2> SUFFICES ASSUME Truncated, [Next]_vars PROVE Truncated'
      OBVIOUS
    <2>1. CASE OpenStats
      BY <2>1 DEF OpenStats, Unreadable, Truncated
    <2>2. ASSUME NEW r \in Requests, NEW stats, NEW list, NEW lost,
                 Process(r, stats, list, lost)
          PROVE  pc' # "writeStats"
      BY <2>2 DEF Process
    <2>3. ASSUME NEW r \in Requests, Finish(r) \/ FinishReadFails(r)
          PROVE  Truncated'
      BY <2>2, <2>3 DEF Finish, FinishReadFails, Truncated
    <2>4. CASE Tick \/ Restart \/ UNCHANGED vars
      BY <2>4 DEF Tick, Restart, vars, Truncated
    <2>5. ASSUME NEW r \in Requests, NEW route \in Routes, StartRequest(r, route)
          PROVE  Truncated'
      BY <2>5 DEF StartRequest, Truncated
    <2>6. ASSUME NEW r \in Requests, NEW status \in Statuses, Answer(r, status)
          PROVE  Truncated'
      BY <2>6 DEF Answer, Truncated
    <2>7. ASSUME NEW r \in Requests, Abort(r)
          PROVE  Truncated'
      BY <2>7 DEF Abort, Truncated
    <2>8. CASE OpenHttpinfo \/ WriteHttpinfo \/ HttpinfoFails
      BY <2>8 DEF OpenHttpinfo, WriteHttpinfo, HttpinfoFails, Truncated
    <2>9. CASE WriteStats \/ StatsFails \/ CrashIdle \/ CrashInCallback
      BY <2>9 DEF WriteStats, StatsFails, CrashIdle, CrashInCallback, Die, Truncated
    <2>10. QED
      BY <2>1, <2>3, <2>4, <2>5, <2>6, <2>7, <2>8, <2>9 DEF Next
  <1>3. QED
    BY <1>1, <1>2, PTL DEF Spec

\* Every step is a step of the log or leaves it unchanged.
LEMMA LogStep ==
    ASSUME IInv, Truncated, [Next]_vars
    PROVE  [Log!Next]_<<LogNow, LossPending, faults>>
  <1> DEFINE Stutter == UNCHANGED <<LogNow, LossPending, faults>>
  <1>0. TypeOK /\ LogInv
    BY DEF IInv
  <1>1. CASE Tick \/ Restart \/ UNCHANGED vars
    <2>1. UNCHANGED <<cb, report, faults, pc>>
      BY <1>1 DEF Tick, Restart, vars
    <2>2. QED
      BY <2>1, LogStutters
  <1>2. ASSUME NEW r \in Requests, NEW route \in Routes, StartRequest(r, route)
        PROVE  Stutter
    <2>1. UNCHANGED <<cb, report, faults, pc>>
      BY <1>2 DEF StartRequest
    <2>2. QED
      BY <2>1, LogStutters
  <1>3. ASSUME NEW r \in Requests, NEW status \in Statuses, Answer(r, status)
        PROVE  Stutter
    <2>1. UNCHANGED <<cb, report, faults, pc>>
      BY <1>3 DEF Answer
    <2>2. QED
      BY <2>1, LogStutters
  <1>4. ASSUME NEW r \in Requests, Abort(r)
        PROVE  Stutter
    <2>1. UNCHANGED <<cb, report, faults, pc>>
      BY <1>4 DEF Abort
    <2>2. QED
      BY <2>1, LogStutters
  <1>5. ASSUME NEW r \in Requests, Finish(r)
        PROVE  Stutter
    <2>1. /\ pc = "idle" /\ pc' # "writeStats" /\ cb'.lost = FALSE
          /\ UNCHANGED <<report, faults>>
      BY <1>5 DEF Finish, Process, Idle
    <2>2. LogNow' = LogNow
      BY <2>1 DEF LogNow, TimesOf, readStats, NoStats, NoEntry
    <2>3. LossPending' = LossPending
      BY <2>1 DEF LossPending
    <2>4. QED
      BY <2>1, <2>2, <2>3
  <1>6. ASSUME NEW r \in Requests, FinishReadFails(r)
        PROVE  Log!Fault
    <2>1. NoteFault /\ UNCHANGED report /\ pc' # "writeStats" /\ pc = "idle"
      BY <1>6 DEF FinishReadFails, Process, Idle
    <2>2. QED
      BY <1>0, <2>1, LogFault
  <1>7. CASE OpenHttpinfo \/ WriteHttpinfo
    <2>1. /\ UNCHANGED <<cb, report, faults>>
          /\ pc \in PreOpen /\ pc' \in PreOpen
      BY <1>7 DEF OpenHttpinfo, WriteHttpinfo, PreOpen
    <2>2. QED
      BY <2>1, LogStutters DEF PreOpen
  <1>8. CASE HttpinfoFails
    <2>1. NoteFault /\ UNCHANGED report /\ pc' # "writeStats" /\ pc # "writeStats"
      BY <1>8 DEF HttpinfoFails
    <2>2. QED
      BY <1>0, <2>1, LogFault DEF Log!Next
  <1>9. CASE OpenStats
    <2>1. /\ pc = "dumpStats" /\ pc' = "writeStats" /\ UNCHANGED <<cb, faults>>
      BY <1>9 DEF OpenStats
    <2>2. /\ LogNow = TimesOf(readStats(report))
          /\ LogNow' = TimesOf(cb.stats)
          /\ LossPending = (cb.lost = TRUE) /\ LossPending' = FALSE
      <3>1. LogNow = TimesOf(readStats(report)) /\ LogNow' = TimesOf(cb.stats)
        BY <2>1 DEF LogNow, TimesOf
      <3>2. cb.lost \in BOOLEAN
        BY <1>0 DEF TypeOK, Callbacks
      <3>3. LossPending = (cb.lost = TRUE) /\ LossPending' = FALSE
        BY <2>1, <3>2 DEF LossPending
      <3>4. QED
        BY <3>1, <3>3
    <2>3. OneMore(LogNow', LogNow, cb.lost)
      BY <1>0, <2>1, <2>2 DEF LogInv
    <2>4. PICK e \in Events, t \in 0..MaxClock :
             LogNow' = IF cb.lost THEN [Log!EmptyLog EXCEPT ![e] = <<t>>]
                       ELSE [LogNow EXCEPT ![e] = Append(@, t)]
      BY <2>3 DEF OneMore
    <2>5. CASE cb.lost = TRUE
      <3>1. Log!RecordAlone(e, t)
        BY <2>1, <2>2, <2>4, <2>5 DEF Log!RecordAlone
      <3>2. QED
        BY <3>1 DEF Log!Next
    <2>6. CASE cb.lost = FALSE
      <3>1. Log!Record(e, t)
        BY <2>1, <2>2, <2>4, <2>6 DEF Log!Record
      <3>2. QED
        BY <3>1 DEF Log!Next
    <2>7. QED
      BY <1>0, <2>5, <2>6 DEF TypeOK, Callbacks
  <1>10. CASE WriteStats
    <2>1. /\ pc = "writeStats" /\ pc' = "idle" /\ report' = Written(cb.stats)
          /\ faults' = faults
      BY <1>10 DEF WriteStats
    <2>2. LogNow' = LogNow
      BY <2>1 DEF LogNow, TimesOf, readStats, Written
    <2>3. LossPending' = LossPending
      BY <2>1 DEF LossPending
    <2>4. QED
      BY <2>1, <2>2, <2>3
  <1>11. CASE StatsFails \/ CrashInCallback
    <2>1. NoteFault /\ UNCHANGED report /\ pc' = "idle"
      BY <1>11 DEF StatsFails, CrashInCallback, Die
    <2>2. QED
      BY <1>0, <2>1, LogFault DEF Truncated, Log!Next
  <1>12. CASE CrashIdle
    <2>1. pc = "idle" /\ pc' = "idle" /\ UNCHANGED <<report, faults>>
      BY <1>12 DEF CrashIdle, Idle, Die
    <2>2. LogNow' = LogNow
      BY <2>1 DEF LogNow, TimesOf, readStats, NoStats, NoEntry
    <2>3. LossPending' = LossPending
      BY <2>1 DEF LossPending
    <2>4. QED
      BY <2>1, <2>2, <2>3
  <1> HIDE DEF Stutter
  <1>13. CASE \E r \in Requests : FinishReadFails(r)
    BY <1>6, <1>13 DEF Log!Next
  <1>14. Stutter => [Log!Next]_<<LogNow, LossPending, faults>>
    BY DEF Stutter
  <1>15. QED
    BY <1>1, <1>2, <1>3, <1>4, <1>5, <1>7, <1>8, <1>9, <1>10, <1>11, <1>12,
       <1>13, <1>14 DEF Next

\* The middleware and its two files implement the append-only log: a fault
\* loses none of report.json or all of it, and nothing else changes what was
\* recorded.
THEOREM LogRefinement == Spec => LogRefined
  <1>1. Init => Log!Init
    BY NoStatsFacts DEF Init, Log!Init, LogNow, LossPending, readStats, Unreadable
  <1>2. IInv /\ Truncated /\ [Next]_vars => [Log!Next]_<<LogNow, LossPending, faults>>
    BY LogStep
  <1>3. QED
    BY <1>1, <1>2, Invariance, TruncatedInvariance, PTL
    DEF Spec, LogRefined, Log!Spec, Log!logVars

-----------------------------------------------------------------------------
(* The chart of the page. Its requests are requests of RequestStats.       *)

\* A step of the page is a step of the server or leaves the server alone.
LEMMA ChartStepIsStep == [ChartNext]_<<vars, pageVars>> => [Next]_vars
  <1> SUFFICES ASSUME [ChartNext]_<<vars, pageVars>> PROVE [Next]_vars
    OBVIOUS
  <1>1. ASSUME NEW r \in Requests, NEW route \in RoutesOf(r), Arrive(r, route)
        PROVE  Next
    <2>1. route \in Routes
      BY RouteAssumption DEF RoutesOf
    <2>2. QED
      BY <1>1, <2>1 DEF Arrive, Next
  <1>2. ASSUME NEW r \in Requests, NEW status \in Statuses, Serve(r, status)
        PROVE  Next
    BY <1>2 DEF Serve, Next
  <1>3. CASE DrawChart \/ ReportArrives \/ CodesArrive
    BY <1>3 DEF DrawChart, ReportArrives, CodesArrive
  <1>4. CASE \/ Tick
             \/ \E r \in Requests : Abort(r) \/ Finish(r) \/ FinishReadFails(r)
             \/ OpenHttpinfo \/ WriteHttpinfo \/ HttpinfoFails
             \/ OpenStats \/ WriteStats \/ StatsFails
             \/ CrashIdle \/ CrashInCallback \/ Restart
    BY <1>4 DEF Next
  <1>5. QED
    BY <1>1, <1>2, <1>3, <1>4 DEF ChartNext

\* The server under the page has the invariant of the server.
LEMMA ChartServer == ChartSpec => []IInv
  <1>1. ChartInit => Init
    BY DEF ChartInit
  <1>2. QED
    BY <1>1, ChartStepIsStep, InitIInv, NextIInv, PTL DEF ChartSpec

LEMMA ChartTypeInit == ChartInit => ChartTypeOK
  <1> SUFFICES ASSUME ChartInit PROVE ChartTypeOK
    OBVIOUS
  <1>1. called \in BOOLEAN
    BY DEF ChartInit
  <1>2. body \in [report : [Events -> Entries], codes : SUBSET Events]
    BY NoStatsFacts DEF ChartInit
  <1>3. arrived \in Seq(Fetches) /\ reads \in Seq(Fetches)
    BY DEF ChartInit
  <1>4. report_json \in {"undefined", "read"} /\ chart \in {"none", "rows", "TypeError", "rejected"}
    BY DEF ChartInit
  <1>5. QED
    BY <1>1, <1>2, <1>3, <1>4 DEF ChartTypeOK

LEMMA ChartTypeStep == IInv /\ ChartTypeOK /\ [ChartNext]_<<vars, pageVars>> => ChartTypeOK'
  <1> SUFFICES ASSUME IInv, ChartTypeOK, [ChartNext]_<<vars, pageVars>> PROVE ChartTypeOK'
    OBVIOUS
  <1>1. CASE UNCHANGED pageVars
    BY <1>1 DEF pageVars, ChartTypeOK
  <1>2. CASE DrawChart
    <2>1. called' \in BOOLEAN /\ UNCHANGED <<body, arrived, report_json, chart, reads>>
      BY <1>2 DEF DrawChart
    <2>2. QED
      BY <2>1 DEF ChartTypeOK
  <1>3. ASSUME NEW r \in Requests, NEW status \in Statuses, Serve(r, status)
        PROVE  ChartTypeOK'
    <2>1. /\ readStats(report) \in [Events -> Entries]
          /\ readHttpCode(httpcode) \in SUBSET Events
      BY FileFacts DEF IInv
    <2>2. body \in [report : [Events -> Entries], codes : SUBSET Events]
      BY DEF ChartTypeOK
    <2>3. body' \in [report : [Events -> Entries], codes : SUBSET Events]
      <3>1. CASE r = ReportFetch
        BY <1>3, <2>1, <2>2, <3>1 DEF Serve
      <3>2. CASE r = CodeFetch /\ r # ReportFetch
        BY <1>3, <2>1, <2>2, <3>2 DEF Serve
      <3>3. CASE r # ReportFetch /\ r # CodeFetch
        BY <1>3, <2>2, <3>3 DEF Serve
      <3>4. QED
        BY <3>1, <3>2, <3>3
    <2>4. reads' \in Seq(Fetches)
      BY <1>3 DEF Serve, ChartTypeOK
    <2>5. UNCHANGED <<called, arrived, report_json, chart>>
      BY <1>3 DEF Serve
    <2>6. QED
      BY <2>3, <2>4, <2>5 DEF ChartTypeOK
  <1>4. CASE ReportArrives
    <2>1. arrived' \in Seq(Fetches) /\ report_json' \in {"undefined", "read"}
      BY <1>4 DEF ReportArrives, ChartTypeOK, Fetches
    <2>2. UNCHANGED <<called, body, chart, reads>>
      BY <1>4 DEF ReportArrives
    <2>3. QED
      BY <2>1, <2>2 DEF ChartTypeOK
  <1>5. CASE CodesArrive
    <2>1. arrived' \in Seq(Fetches)
      BY <1>5 DEF CodesArrive, ChartTypeOK, Fetches
    <2>2. chart' \in {"none", "rows", "TypeError", "rejected"}
      BY <1>5 DEF CodesArrive, LookUp
    <2>3. UNCHANGED <<called, body, report_json, reads>>
      BY <1>5 DEF CodesArrive
    <2>4. QED
      BY <2>1, <2>2, <2>3 DEF ChartTypeOK
  <1>6. QED
    BY <1>1, <1>2, <1>3, <1>4, <1>5 DEF ChartNext, Arrive

\* The page's variables keep their types (secondpage_script.js 28-138).
THEOREM ChartTypeCorrect == ChartSpec => []ChartTypeOK
  <1>1. QED
    BY ChartTypeInit, ChartTypeStep, ChartServer, PTL DEF ChartSpec

Served(r) == req[r].st \in {"answered", "done"}
CodesFirst == reads # <<>> /\ reads[1] = CodeFetch

\* The events the report has when no callback runs, or will have after it.
Known == Recorded(IF pc = "idle" THEN readStats(report) ELSE cb.stats)

\* Without faults the server only gets to know more events. A list that was
\* read first is therefore contained in a report that was read later; and a
\* failed look-up keeps its reason.
OrderInv ==
    faults = 0 =>
        /\ reads = <<>> => ~Served(ReportFetch) /\ ~Served(CodeFetch) /\ report_json = "undefined"
        /\ CodesFirst => req[CodeFetch].st \notin {"none", "open"}
        /\ CodesFirst => body.codes \subseteq Known
        /\ CodesFirst /\ (Served(ReportFetch) \/ report_json = "read") =>
               body.codes \subseteq Recorded(body.report)
        /\ chart = "TypeError" => arrived # <<>> /\ reads # <<>>
        /\ chart = "TypeError" =>
               report_json = "undefined" \/ arrived[1] = CodeFetch \/ reads[1] = ReportFetch

\* A step of the server alone: nothing is read for the page.
LEMMA OrderServer ==
    ASSUME IInv, OrderInv, UNCHANGED pageVars, faults = 0, faults' = 0,
           Known \subseteq Known',
           \A r \in Fetches : /\ Served(r)' => Served(r)
                              /\ req[r].st \notin {"none", "open"} =>
                                     req'[r].st \notin {"none", "open"}
    PROVE  OrderInv'
  <1>1. /\ reads' = reads /\ report_json' = report_json /\ body' = body
        /\ chart' = chart /\ arrived' = arrived
    BY DEF pageVars
  <1>2. ReportFetch \in Fetches /\ CodeFetch \in Fetches
    BY DEF Fetches
  <1>3. CodesFirst' <=> CodesFirst
    BY <1>1 DEF CodesFirst
  <1>4. Recorded(body.report)' = Recorded(body.report)
    BY <1>1 DEF Recorded
  <1>5. QED
    BY <1>1, <1>2, <1>3, <1>4 DEF OrderInv

\* What the server does on its own, as far as the page is concerned.
LEMMA ServerStep ==
    ASSUME IInv, faults = 0, faults' = 0,
           \/ Tick
           \/ \E r \in Requests, route \in Routes : StartRequest(r, route)
           \/ \E r \in Requests : Abort(r) \/ Finish(r) \/ FinishReadFails(r)
           \/ OpenHttpinfo \/ WriteHttpinfo \/ HttpinfoFails
           \/ OpenStats \/ WriteStats \/ StatsFails
           \/ CrashIdle \/ CrashInCallback \/ Restart
           \/ UNCHANGED vars
    PROVE  /\ Known \subseteq Known'
           /\ \A r \in Requests : /\ Served(r)' => Served(r)
                                  /\ req[r].st \notin {"none", "open"} =>
                                         req'[r].st \notin {"none", "open"}
  <1> DEFINE Kept == \A r \in Requests : /\ Served(r)' => Served(r)
                                         /\ req[r].st \notin {"none", "open"} =>
                                                req'[r].st \notin {"none", "open"}
  <1>1. ~NoteFault
    BY DEF NoteFault, CanFail
  <1>2. req \in [Requests -> RequestRecords]
    BY DEF IInv, TypeOK
  <1>3. req' = req => Kept
    BY DEF Served
  <1>4. UNCHANGED <<pc, cb, report>> => Known' = Known
    BY DEF Known, Recorded, readStats
  <1>5. CASE Tick \/ Restart \/ UNCHANGED vars
    BY <1>3, <1>4, <1>5 DEF Tick, Restart, vars
  <1>6. ASSUME NEW r \in Requests, NEW route \in Routes, StartRequest(r, route)
        PROVE  Known' = Known /\ Kept
    BY <1>2, <1>4, <1>6 DEF StartRequest, Served, RequestRecords
  <1>7. ASSUME NEW r \in Requests, Abort(r)
        PROVE  Known' = Known /\ Kept
    BY <1>2, <1>4, <1>7 DEF Abort, Served, RequestRecords
  <1>8. ASSUME NEW r \in Requests, Finish(r)
        PROVE  Known \subseteq Known' /\ Kept
    <2>1. Process(r, readStats(report), readHttpCode(httpcode), FALSE)
      BY <1>8 DEF Finish
    <2>2. /\ Recorded(cb.stats)' = Recorded(readStats(report)) \cup {EventOf(r)}
          /\ pc' \in {"dumpStats", "dumpHttpinfo"}
      BY <2>1, ProcessFacts
    <2>3. Known = Recorded(readStats(report))
      BY <2>1 DEF Process, Idle, Known
    <2>4. Known' = Recorded(cb.stats)'
      BY <2>2 DEF Known
    <2>5. Kept
      BY <1>2, <2>1 DEF Process, Served, RequestRecords
    <2>6. QED
      BY <2>2, <2>3, <2>4, <2>5
  <1>9. CASE OpenHttpinfo \/ WriteHttpinfo \/ OpenStats
    <2>1. pc # "idle" /\ pc' # "idle" /\ cb' = cb /\ req' = req
      BY <1>9 DEF OpenHttpinfo, WriteHttpinfo, OpenStats
    <2>2. QED
      BY <1>3, <2>1 DEF Known, Recorded
  <1>10. CASE WriteStats
    <2>1. pc # "idle" /\ pc' = "idle" /\ readStats(report)' = cb.stats /\ req' = req
      BY <1>10 DEF WriteStats, readStats, Written
    <2>2. QED
      BY <1>3, <2>1 DEF Known, Recorded
  <1>11. CASE CrashIdle
    <2>1. pc = "idle" /\ pc' = "idle" /\ report' = report
      BY <1>11 DEF CrashIdle, Idle, Die
    <2>2. Known' = Known
      BY <2>1 DEF Known, Recorded, readStats
    <2>3. Kept
      BY <1>2, <1>11 DEF CrashIdle, Die, Served, RequestRecords
    <2>4. QED
      BY <2>2, <2>3
  <1>12. QED
    BY <1>1, <1>5, <1>6, <1>7, <1>8, <1>9, <1>10, <1>11
    DEF FinishReadFails, HttpinfoFails, StatsFails, CrashInCallback

\* The handler of a request reads its file.
LEMMA OrderServe ==
    ASSUME IInv, ChartTypeOK, OrderInv, NEW r \in Requests, NEW status \in Statuses,
           Serve(r, status)
    PROVE  OrderInv'
  <1> SUFFICES ASSUME faults = 0 PROVE OrderInv'
    BY DEF OrderInv, Serve, Answer
  <1>1. /\ pc = "idle" /\ UNCHANGED <<pc, cb, report, httpcode, faults>>
        /\ req[r].st = "open" /\ req' = [req EXCEPT ![r].st = "answered", ![r].status = status]
        /\ UNCHANGED <<arrived, report_json, chart>>
    BY DEF Serve, Answer, Idle
  <1>2. req \in [Requests -> RequestRecords]
    BY DEF IInv, TypeOK
  <1>3. req'[r].st = "answered" /\ \A s \in Requests : s # r => req'[s] = req[s]
    BY <1>1, <1>2 DEF RequestRecords
  <1>4. Known' = Known /\ Known = Recorded(readStats(report))
    BY <1>1 DEF Known, Recorded, readStats
  <1>5. Known = readHttpCode(httpcode)
    BY <1>1, <1>4 DEF IInv, ListInv
  <1>6. /\ reads \in Seq(Fetches) /\ ReportFetch \in Requests /\ CodeFetch \in Requests
        /\ ReportFetch # CodeFetch
    BY FetchAssumption DEF ChartTypeOK
  <1>7. CASE r \notin Fetches
    <2>1. r # ReportFetch /\ r # CodeFetch
      BY <1>7 DEF Fetches
    <2>2. body' = body /\ reads' = reads
      BY <1>7, <2>1 DEF Serve
    <2>3. req'[ReportFetch] = req[ReportFetch] /\ req'[CodeFetch] = req[CodeFetch]
      BY <1>3, <1>6, <2>1
    <2>4. QED
      BY <1>1, <1>4, <2>2, <2>3 DEF OrderInv, CodesFirst, Served, Recorded
  <1>8. CASE r \in Fetches
    <2>1. reads' = Append(reads, r)
      BY <1>8 DEF Serve
    <2>2. /\ reads' # <<>>
          /\ reads # <<>> => reads'[1] = reads[1]
          /\ reads = <<>> => reads'[1] = r
      BY <1>6, <1>8, <2>1
    <2>3. /\ chart = "TypeError" => arrived # <<>> /\ reads # <<>>
          /\ chart = "TypeError" =>
               report_json = "undefined" \/ arrived[1] = CodeFetch \/ reads[1] = ReportFetch
      BY DEF OrderInv
    <2>4. CASE r = ReportFetch
      <3>1. body'.codes = body.codes /\ body'.report = readStats(report)
        <4>1. body' = [body EXCEPT !.report = readStats(report)]
          BY <1>6, <2>4 DEF Serve
        <4>2. QED
          BY <4>1 DEF ChartTypeOK
      <3>2. Recorded(body.report)' = Known
        BY <1>4, <3>1 DEF Recorded
      <3>3. CodesFirst' => CodesFirst
        BY <1>6, <2>2, <2>4 DEF CodesFirst
      <3>4. CodesFirst => req[CodeFetch].st \notin {"none", "open"} /\ body.codes \subseteq Known
        BY DEF OrderInv
      <3>5. req'[CodeFetch] = req[CodeFetch]
        BY <1>3, <1>6, <2>4
      <3>6. QED
        BY <1>1, <1>4, <2>2, <2>3, <3>1, <3>2, <3>3, <3>4, <3>5 DEF OrderInv
    <2>5. CASE r = CodeFetch
      <3>1. body'.codes = readHttpCode(httpcode)
        <4>1. body' = [body EXCEPT !.codes = readHttpCode(httpcode)]
          BY <1>6, <2>5 DEF Serve
        <4>2. QED
          BY <4>1 DEF ChartTypeOK
      <3>2. CodesFirst' => reads = <<>>
        <4>1. CodesFirst => req[CodeFetch].st # "open"
          BY DEF OrderInv
        <4>2. QED
          BY <1>1, <2>2, <2>5, <4>1 DEF CodesFirst
      <3>3. reads = <<>> => ~Served(ReportFetch) /\ report_json = "undefined"
        BY DEF OrderInv
      <3>4. req'[ReportFetch] = req[ReportFetch]
        BY <1>3, <1>6, <2>5
      <3>5. CodesFirst' => ~Served(ReportFetch)' /\ report_json' # "read"
        BY <1>1, <3>2, <3>3, <3>4 DEF Served
      <3>6. body'.codes \subseteq Known' /\ req'[CodeFetch].st \notin {"none", "open"}
        BY <1>3, <1>4, <1>5, <2>5, <3>1
      <3>7. QED
        BY <1>1, <2>2, <2>3, <3>5, <3>6 DEF OrderInv
    <2>6. QED
      BY <1>8, <2>4, <2>5 DEF Fetches
  <1>9. QED
    BY <1>7, <1>8

\* A response reaches the page.
LEMMA OrderArrive ==
    ASSUME IInv, ChartTypeOK, OrderInv, ReportArrives \/ CodesArrive
    PROVE  OrderInv'
  <1>1. UNCHANGED <<vars, called, body, reads>>
    BY DEF ReportArrives, CodesArrive
  <1>2. /\ faults' = faults /\ req' = req /\ body' = body /\ reads' = reads
        /\ UNCHANGED <<pc, cb, report>>
    BY <1>1 DEF vars
  <1> SUFFICES ASSUME faults = 0 PROVE OrderInv'
    BY <1>2 DEF OrderInv
  <1>3. /\ Known' = Known /\ Recorded(body.report)' = Recorded(body.report)
        /\ Served(ReportFetch)' = Served(ReportFetch) /\ Served(CodeFetch)' = Served(CodeFetch)
        /\ CodesFirst' = CodesFirst
    BY <1>2 DEF Known, Recorded, readStats, Served, CodesFirst
  <1>4. arrived \in Seq(Fetches) /\ reads \in Seq(Fetches) /\ ReportFetch # CodeFetch
    BY FetchAssumption DEF ChartTypeOK
  <1>5. CASE ReportArrives
    <2>1. /\ Served(ReportFetch) /\ arrived' = Append(arrived, ReportFetch) /\ chart' = chart
          /\ \A i \in 1..Len(arrived) : arrived[i] # ReportFetch
      BY <1>5 DEF ReportArrives, CanArrive, Served
    <2>2. reads # <<>>
      BY <2>1 DEF OrderInv
    <2>3. arrived' # <<>> /\ (arrived # <<>> => arrived'[1] = arrived[1] /\ 1 \in 1..Len(arrived)
                                                  /\ arrived[1] \in Fetches)
      BY <1>4, <2>1 DEF Fetches
    <2>4. arrived # <<>> => arrived'[1] = CodeFetch
      BY <2>1, <2>3 DEF Fetches
    <2>5. chart' = "TypeError" => arrived'[1] = CodeFetch
      BY <2>1, <2>4 DEF OrderInv
    <2>6. QED
      BY <1>2, <1>3, <2>1, <2>2, <2>3, <2>5 DEF OrderInv
  <1>6. CASE CodesArrive
    <2>1. /\ Served(CodeFetch) /\ arrived' = Append(arrived, CodeFetch)
          /\ report_json' = report_json
          /\ chart' = "TypeError" => LookUp(body.codes) = "TypeError"
      BY <1>6 DEF CodesArrive, CanArrive, Served
    <2>2. reads # <<>> /\ reads[1] \in Fetches
      BY <1>4, <2>1 DEF OrderInv
    <2>3. arrived' # <<>>
      BY <1>4, <2>1 DEF Fetches
    <2>4. chart' = "TypeError" => report_json = "undefined" \/ reads[1] = ReportFetch
      <3>1. SUFFICES ASSUME chart' = "TypeError", report_json # "undefined", reads[1] = CodeFetch
                     PROVE  FALSE
        BY <2>2 DEF Fetches
      <3>2. report_json = "read" /\ CodesFirst
        BY <2>2, <3>1 DEF ChartTypeOK, CodesFirst
      <3>3. body.codes \subseteq Recorded(body.report)
        BY <3>2 DEF OrderInv
      <3>4. QED
        BY <2>1, <3>1, <3>3 DEF LookUp
    <2>5. QED
      BY <1>2, <1>3, <2>1, <2>2, <2>3, <2>4 DEF OrderInv
  <1>7. QED
    BY <1>5, <1>6

LEMMA OrderStep == IInv /\ ChartTypeOK /\ OrderInv /\ [ChartNext]_<<vars, pageVars>> => OrderInv'
  <1> SUFFICES ASSUME IInv, ChartTypeOK, OrderInv, [ChartNext]_<<vars, pageVars>> PROVE OrderInv'
    OBVIOUS
  <1>1. CASE DrawChart
    BY <1>1 DEF DrawChart, OrderInv, vars, Known, Recorded, readStats, Served, CodesFirst
  <1> DEFINE Server ==
           \/ Tick
           \/ \E r \in Requests, route \in Routes : StartRequest(r, route)
           \/ \E r \in Requests : Abort(r) \/ Finish(r) \/ FinishReadFails(r)
           \/ OpenHttpinfo \/ WriteHttpinfo \/ HttpinfoFails
           \/ OpenStats \/ WriteStats \/ StatsFails
           \/ CrashIdle \/ CrashInCallback \/ Restart
           \/ UNCHANGED vars
  <1>2. ASSUME Server, UNCHANGED pageVars PROVE OrderInv'
    <2>1. SUFFICES ASSUME faults' = 0 PROVE OrderInv'
      BY DEF OrderInv
    <2>2. faults \in 0..MaxFaults
      BY DEF IInv, TypeOK
    <2>3. NoteFault => faults' # 0
      BY <2>2 DEF NoteFault
    <2>4. faults = 0
      BY <1>2, <2>1, <2>3
      DEF Tick, StartRequest, Abort, Finish, FinishReadFails, OpenHttpinfo, WriteHttpinfo,
          HttpinfoFails, OpenStats, WriteStats, StatsFails, CrashIdle, CrashInCallback,
          Restart, vars
    <2>5. Fetches \subseteq Requests
      BY FetchAssumption DEF Fetches
    <2>6. /\ Known \subseteq Known'
          /\ \A r \in Requests : /\ Served(r)' => Served(r)
                                 /\ req[r].st \notin {"none", "open"} =>
                                        req'[r].st \notin {"none", "open"}
      BY <1>2, <2>1, <2>4, ServerStep
    <2>7. QED
      BY <1>2, <2>1, <2>4, <2>5, <2>6, OrderServer
  <1>3. ASSUME NEW r \in Requests, NEW route \in RoutesOf(r), Arrive(r, route)
        PROVE  OrderInv'
    <2>1. route \in Routes
      BY RouteAssumption DEF RoutesOf
    <2>2. Server /\ UNCHANGED pageVars
      BY <1>3, <2>1 DEF Arrive
    <2>3. QED
      BY <1>2, <2>2
  <1>4. CASE UNCHANGED <<vars, pageVars>>
    BY <1>2, <1>4
  <1>5. ASSUME ChartNext, ~DrawChart, ~ReportArrives, ~CodesArrive,
               \A r \in Requests : \A route \in RoutesOf(r) : ~Arrive(r, route),
               \A r \in Requests, status \in Statuses : ~Serve(r, status)
        PROVE  Server /\ UNCHANGED pageVars
    BY <1>5 DEF ChartNext
  <1> HIDE DEF Server
  <1>6. QED
    BY <1>1, <1>2, <1>3, <1>4, <1>5, OrderServe, OrderArrive

\* For any number of other clients, a look-up of the chart fails without a
\* fault only when the list overtook the report, or was read after it
\* (secondpage_script.js 81).
THEOREM ChartFailsForAReason == ChartSpec => []ChartFailsOnlyWhenOvertaken
  <1>1. ChartInit => OrderInv
    <2> SUFFICES ASSUME ChartInit PROVE OrderInv
      OBVIOUS
    <2>1. reads = <<>> /\ report_json = "undefined" /\ chart = "none"
      BY DEF ChartInit
    <2>2. \A r \in Requests : ~Served(r)
      BY DEF ChartInit, Init, Served, NoRequest
    <2>3. QED
      BY <2>1, <2>2, FetchAssumption DEF OrderInv, CodesFirst
  <1>2. OrderInv => ChartFailsOnlyWhenOvertaken
    BY DEF OrderInv, ChartFailsOnlyWhenOvertaken
  <1>3. QED
    BY <1>1, <1>2, OrderStep, ChartServer, ChartTypeCorrect, PTL DEF ChartSpec
=============================================================================
