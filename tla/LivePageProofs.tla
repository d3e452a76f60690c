---------------------------- MODULE LivePageProofs ----------------------------
(***************************************************************************)
(* Proofs about LivePage: the sizes of the two charts and the process that *)
(* the process chart shows, for every order of the scripts and any number  *)
(* of processes, requests and clicks.                                      *)
(***************************************************************************)
EXTENDS LivePage, TLAPS

\* The properties together are inductive.
IInv == TypeOK /\ CpuWindow /\ ProcWindow /\ SelectedIsShown

\* A script that has run stays in the list, a new one is its last.
LEMMA RunFacts ==
    ASSUME ran \in Seq(Scripts), NEW s \in Scripts, Run(s)
    PROVE  /\ ran' \in Seq(Scripts)
           /\ DOMAIN ran' = DOMAIN ran \cup {Len(ran) + 1}
           /\ ran'[Len(ran) + 1] = s
           /\ \A i \in DOMAIN ran : ran'[i] = ran[i] /\ i \in Nat /\ i <= Len(ran)
           /\ Len(ran) \in Nat
BY DEF Run

\* A full chart loses a row, another one keeps its rows.
LEMMA TrimmedFacts ==
    ASSUME NEW n \in Nat
    PROVE  /\ Trimmed(n) \in Nat
           /\ Trimmed(n) = n - 1 \/ (Trimmed(n) = n /\ n <= Window - 1)
BY WindowAssumption DEF Trimmed, Full

-----------------------------------------------------------------------------
\* A script runs: the charts stay as they are.
LEMMA RunStep == IInv /\ (\E s \in Scripts : Run(s)) => IInv'
<1> SUFFICES ASSUME IInv, NEW s \in Scripts, Run(s) PROVE IInv'
  OBVIOUS
<1>1. ran \in Seq(Scripts) /\ UNCHANGED <<called, cpu, proc>> /\ ~HasRun(s)
  BY DEF IInv, TypeOK, Run
<1>2. /\ ran' \in Seq(Scripts)
      /\ DOMAIN ran' = DOMAIN ran \cup {Len(ran) + 1}
      /\ ran'[Len(ran) + 1] = s
      /\ \A i \in DOMAIN ran : ran'[i] = ran[i] /\ i \in Nat /\ i <= Len(ran)
      /\ Len(ran) \in Nat
  BY <1>1, RunFacts
<1>3. \A t \in Scripts : HasRun(t) => HasRun(t)'
  BY <1>2 DEF HasRun
<1>4. TypeOK'
  <2>1. called' \subseteq {t \in Scripts : HasRun(t)'}
    BY <1>1, <1>3 DEF IInv, TypeOK
  <2>2. QED
    BY <1>1, <1>2, <2>1 DEF IInv, TypeOK, cpu, proc
<1>5. CpuWindow' /\ ProcWindow'
  BY <1>1 DEF IInv, CpuWindow, ProcWindow, cpu, proc
<1>6. SelectedIsShown'
  BY <1>1 DEF IInv, SelectedIsShown, proc
<1>7. QED
  BY <1>4, <1>5, <1>6 DEF IInv

\* The chart library calls back: the charts get their first two rows.
LEMMA OnLoadStep == IInv /\ (OnLoadSecond \/ OnLoadCpu \/ OnLoadProc) => IInv'
<1> SUFFICES ASSUME IInv, OnLoadSecond \/ OnLoadCpu \/ OnLoadProc PROVE IInv'
  OBVIOUS
<1> USE DEF IInv
<1>1. CASE OnLoadSecond
  <2>1. TypeOK'
    BY <1>1 DEF OnLoadSecond, TypeOK, cpu, proc, Scripts, HasRun
  <2>2. CpuWindow' /\ ProcWindow'
    BY <1>1 DEF OnLoadSecond, CpuWindow, ProcWindow, cpu, proc
  <2>3. SelectedIsShown'
    BY <1>1 DEF OnLoadSecond, SelectedIsShown, proc
  <2>4. QED
    BY <2>1, <2>2, <2>3
<1>2. CASE OnLoadCpu
  <2>1. DrawsCpu \in BOOLEAN /\ (DrawsCpu' <=> DrawsCpu)
    BY <1>2 DEF OnLoadCpu, DrawsCpu
  <2>2. TypeOK'
    BY <1>2, <2>1 DEF OnLoadCpu, TypeOK, proc, Scripts, HasRun
  <2>3. CpuWindow' /\ ProcWindow'
    BY <1>2, WindowAssumption, BoundAssumption
      DEF OnLoadCpu, CpuWindow, ProcWindow, TypeOK, proc
  <2>4. SelectedIsShown'
    BY <1>2 DEF OnLoadCpu, SelectedIsShown, proc
  <2>5. QED
    BY <2>2, <2>3, <2>4
<1>3. CASE OnLoadProc
  <2>1. TypeOK'
    BY <1>3 DEF OnLoadProc, TypeOK, cpu, Scripts, HasRun
  <2>2. CpuWindow' /\ ProcWindow'
    BY <1>3, WindowAssumption, BoundAssumption
      DEF OnLoadProc, CpuWindow, ProcWindow, TypeOK, cpu
  <2>3. SelectedIsShown'
    BY <1>3 DEF OnLoadProc, SelectedIsShown
  <2>4. QED
    BY <2>1, <2>2, <2>3
<1>4. QED
  BY <1>1, <1>2, <1>3

\* A tick: a full chart gives up the row that its new request will bring.
LEMMA TickStep == IInv /\ (TickCpu \/ TickProc) => IInv'
<1> SUFFICES ASSUME IInv, TickCpu \/ TickProc PROVE IInv'
  OBVIOUS
<1> USE DEF IInv
<1>1. CASE TickCpu
  <2>1. /\ rows \in Nat /\ pending \in Nat /\ peak \in Nat
        /\ pending <= peak /\ peak <= MaxPending
    BY <1>1, BoundAssumption DEF TickCpu, TypeOK
  <2>2. /\ Trimmed(rows) \in Nat
        /\ Trimmed(rows) = rows - 1 \/ (Trimmed(rows) = rows /\ rows <= Window - 1)
    BY <2>1, TrimmedFacts
  <2>3. pending' = pending + 1 \/ pending' = pending
    BY <1>1 DEF TickCpu
  <2>4. /\ pending' \in 0..MaxPending /\ peak' \in pending'..MaxPending
        /\ peak' >= peak
    BY <1>1, <2>1, <2>3, BoundAssumption DEF TickCpu
  <2>5. TypeOK'
    BY <1>1, <2>2, <2>4 DEF TickCpu, TypeOK, scripts, proc, HasRun
  <2>6. CpuWindow'
    BY <1>1, <2>1, <2>2, <2>3, <2>4, WindowAssumption, BoundAssumption
      DEF TickCpu, CpuWindow
  <2>7. ProcWindow'
    BY <1>1 DEF TickCpu, ProcWindow, proc
  <2>8. SelectedIsShown'
    BY <1>1 DEF TickCpu, SelectedIsShown, proc
  <2>9. QED
    BY <2>5, <2>6, <2>7, <2>8
<1>2. CASE TickProc
  <2>1. /\ rows2 \in Nat /\ pending2 \in Nat /\ peak2 \in Nat /\ extra \in Nat
        /\ pending2 <= peak2 /\ peak2 <= MaxPending
    BY <1>2, BoundAssumption DEF TickProc, TypeOK
  <2>2. /\ Trimmed(rows2) \in Nat
        /\ Trimmed(rows2) = rows2 - 1 \/ (Trimmed(rows2) = rows2 /\ rows2 <= Window - 1)
    BY <2>1, TrimmedFacts
  <2>3. pending2' = pending2 + 1 \/ pending2' = pending2
    BY <1>2 DEF TickProc
  <2>4. /\ pending2' \in 0..MaxPending /\ peak2' \in pending2'..MaxPending
        /\ peak2' >= peak2
    BY <1>2, <2>1, <2>3, BoundAssumption DEF TickProc
  <2>5. TypeOK'
    BY <1>2, <2>2, <2>4 DEF TickProc, TypeOK, scripts, cpu, HasRun
  <2>6. ProcWindow'
    BY <1>2, <2>1, <2>2, <2>3, <2>4, WindowAssumption, BoundAssumption
      DEF TickProc, ProcWindow
  <2>7. CpuWindow' /\ SelectedIsShown'
    BY <1>2 DEF TickProc, CpuWindow, SelectedIsShown, cpu
  <2>8. QED
    BY <2>5, <2>6, <2>7
<1>3. QED
  BY <1>1, <1>2

\* An answer or a failure of the CPU chart.
LEMMA CpuAnswerStep == IInv /\ (AnswerCpu \/ FailCpu) => IInv'
<1> SUFFICES ASSUME IInv, AnswerCpu \/ FailCpu PROVE IInv'
  OBVIOUS
<1> USE DEF IInv
<1>1. /\ pending' = pending - 1 /\ pending > 0 /\ peak' = peak
      /\ rows' = rows + 1 \/ rows' = rows
      /\ UNCHANGED <<scripts, proc>>
  BY DEF AnswerCpu, FailCpu
<1>2. rows' \in Nat \cup {NoData}
  BY <1>1 DEF TypeOK, NoData
<1>3. pending' \in 0..MaxPending /\ peak' \in pending'..MaxPending
  BY <1>1, BoundAssumption DEF TypeOK
<1>4. TypeOK'
  BY <1>1, <1>2, <1>3 DEF TypeOK, scripts, proc, HasRun
<1>5. CpuWindow'
  BY <1>1, WindowAssumption, BoundAssumption DEF CpuWindow, TypeOK, NoData
<1>6. ProcWindow' /\ SelectedIsShown'
  BY <1>1 DEF ProcWindow, SelectedIsShown, proc
<1>7. QED
  BY <1>4, <1>5, <1>6

\* An answer or a click of the process chart.
LEMMA ProcAnswerStep ==
    IInv /\ (\/ AnswerWithoutProc
             \/ \E procs \in SUBSET Procs, p, f \in Procs : AnswerProc(procs, p, f)
             \/ \E p \in Procs : ClickProc(p)) => IInv'
<1> SUFFICES ASSUME IInv,
                    \/ AnswerWithoutProc
                    \/ \E procs \in SUBSET Procs, p, f \in Procs : AnswerProc(procs, p, f)
                    \/ \E p \in Procs : ClickProc(p)
             PROVE  IInv'
  OBVIOUS
<1> USE DEF IInv
<1>1. CpuWindow'
  BY DEF AnswerWithoutProc, AnswerProc, ClickProc, CpuWindow, cpu
<1>2. CASE AnswerWithoutProc
  <2>1. TypeOK'
    BY <1>2, BoundAssumption DEF AnswerWithoutProc, TypeOK, scripts, cpu, HasRun
  <2>2. ProcWindow'
    BY <1>2, WindowAssumption, BoundAssumption DEF AnswerWithoutProc, TypeOK, ProcWindow, NoData
  <2>3. SelectedIsShown'
    BY <1>2 DEF AnswerWithoutProc, SelectedIsShown
  <2>4. QED
    BY <1>1, <2>1, <2>2, <2>3
<1>3. CASE \E procs \in SUBSET Procs, p, f \in Procs : AnswerProc(procs, p, f)
  <2>1. PICK procs \in SUBSET Procs, p \in Procs, f \in Procs : AnswerProc(procs, p, f)
    BY <1>3
  <2>2. TypeOK'
    BY <2>1, BoundAssumption DEF AnswerProc, TypeOK, scripts, cpu, HasRun, NoData
  <2>3. ProcWindow'
    BY <2>1, WindowAssumption, BoundAssumption DEF AnswerProc, TypeOK, ProcWindow, NoData
  <2>4. SelectedIsShown'
    BY <2>1 DEF AnswerProc, SelectedIsShown
  <2>5. QED
    BY <1>1, <2>2, <2>3, <2>4
<1>4. CASE \E p \in Procs : ClickProc(p)
  <2>1. PICK p \in Procs : ClickProc(p)
    BY <1>4
  <2>2. TypeOK'
    BY <2>1, BoundAssumption DEF ClickProc, TypeOK, scripts, cpu, HasRun, NoData
  <2>3. ProcWindow'
    BY <2>1, WindowAssumption, BoundAssumption DEF ClickProc, TypeOK, ProcWindow, NoData
  <2>4. SelectedIsShown'
    BY <2>1 DEF ClickProc, SelectedIsShown
  <2>5. QED
    BY <1>1, <2>2, <2>3, <2>4
<1>5. QED
  BY <1>2, <1>3, <1>4

-----------------------------------------------------------------------------
\* IInv is an invariant: it holds before any script has run, and every step
\* of the page preserves it.
THEOREM Invariance == Spec => []IInv
<1>1. Init => IInv
  <2> SUFFICES ASSUME Init PROVE IInv
    OBVIOUS
  <2>1. TypeOK
    <3>1. ran \in Seq(Scripts) /\ called \subseteq {s \in Scripts : HasRun(s)}
      BY DEF Init
    <3>2. /\ selected \in Procs \cup {Null} /\ buttons \subseteq Procs
          /\ recent \in (Procs \cup {Null}) \X (Procs \cup {Null})
      BY DEF Init
    <3>3. /\ rows \in Nat \cup {NoData} /\ rows2 \in Nat \cup {NoData}
          /\ pending \in 0..MaxPending /\ peak \in pending..MaxPending
          /\ pending2 \in 0..MaxPending /\ peak2 \in pending2..MaxPending
          /\ extra \in 0..MaxExtra /\ created \in 0..extra
      BY BoundAssumption DEF Init
    <3>4. QED
      BY <3>1, <3>2, <3>3 DEF TypeOK
  <2>2. CpuWindow /\ ProcWindow
    BY WindowAssumption DEF Init, CpuWindow, ProcWindow, NoData
  <2>3. SelectedIsShown
    BY DEF Init, SelectedIsShown
  <2>4. QED
    BY <2>1, <2>2, <2>3 DEF IInv
<1>2. IInv /\ [Next]_vars => IInv'
  <2>1. IInv /\ UNCHANGED vars => IInv'
    <3> SUFFICES ASSUME IInv, UNCHANGED vars PROVE IInv'
      OBVIOUS
    <3> USE DEF IInv, vars, scripts, cpu, proc
    <3>1. TypeOK'
      BY DEF TypeOK, HasRun
    <3>2. CpuWindow' /\ ProcWindow'
      BY DEF CpuWindow, ProcWindow
    <3>3. SelectedIsShown'
      BY DEF SelectedIsShown
    <3>4. QED
      BY <3>1, <3>2, <3>3
  <2>2. QED
    BY <2>1, RunStep, OnLoadStep, TickStep, CpuAnswerStep, ProcAnswerStep DEF Next
<1>3. QED
  BY <1>1, <1>2, PTL DEF Spec

\* The type invariant, for any bounds.
THEOREM LiveTypeCorrect == Spec => []TypeOK
<1>1. IInv => TypeOK
  BY DEF IInv
<1>2. QED
  BY <1>1, Invariance, PTL

\* The CPU chart never has more rows than its window and the requests that
\* were under way at once.
THEOREM CpuChartBounded == Spec => []CpuWindow
<1>1. IInv => CpuWindow
  BY DEF IInv
<1>2. QED
  BY <1>1, Invariance, PTL

\* The process chart grows by at most one row per answer and per click.
THEOREM ProcChartBounded == Spec => []ProcWindow
<1>1. IInv => ProcWindow
  BY DEF IInv
<1>2. QED
  BY <1>1, Invariance, PTL

\* The process chart shows the selected process among its last two rows,
\* however clicks and answers interleave.
THEOREM SelectedShown == Spec => []SelectedIsShown
<1>1. IInv => SelectedIsShown
  BY DEF IInv
<1>2. QED
  BY <1>1, Invariance, PTL
=============================================================================
