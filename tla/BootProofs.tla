------------------------------ MODULE BootProofs ------------------------------
(***************************************************************************)
(* Theorems about the two ways from a boot to a chart: the boot-graph      *)
(* pipeline with the routes that serve its file (BootGraph, BmcProxy), and *)
(* the boot log with its parser (BootLog).                                 *)
(***************************************************************************)
EXTENDS BootGraph, BootLog, FiniteSetTheorems, TLAPS

-----------------------------------------------------------------------------
(* The type invariant of the proxy.                                        *)

\* What TypeOK says of everything but the number of connections.
Shapes ==
    /\ flag \in {0, 1}
    /\ timer = (flag = 1)
    /\ next \in 1..(MaxRequests + 1)
    /\ kind \in [Ids -> Kinds \cup {"unused"}]
    /\ conn \in [Ids -> {"none", "queued", "open", "other", "closed"}]
    /\ call \in [Ids -> {"none", "sent", "handled", "adrift", "over"}]
    /\ up \in BOOLEAN
    /\ fan \in BOOLEAN
    /\ applied \subseteq Ids
    /\ calm \in BOOLEAN
    /\ reloaded \in BOOLEAN
    /\ \A i \in Ids : kind[i] = "unused" <=> i >= next

LEMMA OpenedFinite == IsFiniteSet(Opened) /\ Cardinality(Opened) \in Nat
<1>1. IsFiniteSet(Ids)
  BY FS_Interval, RequestAssumption DEF Ids
<1>2. IsFiniteSet(Opened)
  BY <1>1, FS_Subset DEF Opened
<1>3. QED
  BY <1>2, FS_CardinalityType

\* Opened of the next state, in which conn is c.
OpenedIn(c) == {i \in Ids : c[i] = "open"}

LEMMA FewerOpen ==
    ASSUME NEW c, Cardinality(Opened) <= MaxConn,
           \A i \in Ids : c[i] = "open" => conn[i] = "open"
    PROVE  Cardinality(OpenedIn(c)) <= MaxConn
<1>1. OpenedIn(c) \subseteq Opened
  BY DEF OpenedIn, Opened
<1>2. IsFiniteSet(OpenedIn(c)) /\ Cardinality(OpenedIn(c)) <= Cardinality(Opened)
  BY <1>1, OpenedFinite, FS_Subset
<1>3. Cardinality(OpenedIn(c)) \in Nat
  BY <1>2, FS_CardinalityType
<1>4. QED
  BY <1>2, <1>3, OpenedFinite, ConnAssumption

LEMMA OneMoreOpen ==
    ASSUME NEW c, NEW i \in Ids, Cardinality(Opened) < MaxConn,
           \A j \in Ids : c[j] = "open" => conn[j] = "open" \/ j = i
    PROVE  Cardinality(OpenedIn(c)) <= MaxConn
<1>1. OpenedIn(c) \subseteq Opened \cup {i}
  BY DEF OpenedIn, Opened
<1>2. /\ IsFiniteSet(Opened \cup {i})
      /\ Cardinality(Opened \cup {i}) \in {Cardinality(Opened), Cardinality(Opened) + 1}
  BY OpenedFinite, FS_AddElement
<1>3. IsFiniteSet(OpenedIn(c)) /\ Cardinality(OpenedIn(c)) <= Cardinality(Opened \cup {i})
  BY <1>1, <1>2, FS_Subset
<1>4. Cardinality(OpenedIn(c)) \in Nat
  BY <1>3, FS_CardinalityType
<1>5. QED
  BY <1>2, <1>3, <1>4, OpenedFinite, ConnAssumption

LEMMA ProxyTypeInit == Init => TypeOK
<1> SUFFICES ASSUME Init PROVE TypeOK
  OBVIOUS
<1>1. Opened = {}
  BY DEF Init, Opened
<1>2. Cardinality(Opened) <= MaxConn
  BY <1>1, FS_EmptySet, ConnAssumption
<1>3. next \in 1..(MaxRequests + 1) /\ \A i \in Ids : i >= next
  BY RequestAssumption DEF Init, Ids
<1>4. \A i \in Ids : kind[i] = "unused"
  BY DEF Init
<1>5. timer = (flag = 1)
  <2>1. flag # 1
    BY DEF Init
  <2>2. timer = FALSE
    BY DEF Init
  <2>3. QED
    BY <2>1, <2>2, Zenon
<1>6. /\ kind \in [Ids -> Kinds \cup {"unused"}]
      /\ conn \in [Ids -> {"none", "queued", "open", "other", "closed"}]
      /\ call \in [Ids -> {"none", "sent", "handled", "adrift", "over"}]
  BY DEF Init
<1>7. flag \in {0, 1} /\ up \in BOOLEAN /\ fan \in BOOLEAN /\ applied \subseteq Ids
  BY DEF Init
<1>8. calm \in BOOLEAN /\ reloaded \in BOOLEAN
  BY DEF Init
<1> HIDE DEF Init
<1>9. QED
  BY <1>2, <1>3, <1>4, <1>5, <1>6, <1>7, <1>8 DEF TypeOK

LEMMA QueueShape ==
    ASSUME Shapes, NEW k \in Kinds, Queue(k)
    PROVE  /\ next' \in 1..(MaxRequests + 1) /\ next \in Ids
           /\ kind' \in [Ids -> Kinds \cup {"unused"}]
           /\ conn' \in [Ids -> {"none", "queued", "open", "other", "closed"}]
           /\ call' = call
           /\ \A i \in Ids : kind'[i] = "unused" <=> i >= next'
           /\ \A i \in Ids : conn'[i] = "open" => conn[i] = "open"
<1>1. next \in Ids /\ next' = next + 1 /\ next' \in 1..(MaxRequests + 1)
  BY RequestAssumption DEF Queue, Shapes, Ids
<1>2. \A i \in Ids : /\ kind'[i] = IF i = next THEN k ELSE kind[i]
                     /\ conn'[i] = IF i = next THEN "queued" ELSE conn[i]
  BY DEF Queue, Shapes
<1>3. k # "unused"
  BY DEF Kinds, Silent, Commands, Answering, FromDisk, Versioned, Code
<1>4. \A i \in Ids : i \in Int /\ (i >= next + 1 <=> i >= next /\ i # next)
  BY <1>1 DEF Ids
<1>5. \A i \in Ids : kind'[i] = "unused" <=> i >= next'
  BY <1>1, <1>2, <1>3, <1>4 DEF Shapes
<1>6. QED
  BY <1>1, <1>2, <1>5 DEF Queue, Shapes

LEMMA ShapesStep == Shapes /\ [Next]_vars => Shapes'
<1> SUFFICES ASSUME Shapes, [Next]_vars PROVE Shapes'
  OBVIOUS
<1> USE DEF page, bmc, clicks, requests
<1>1. CASE FanClick
  <2> DEFINE k == IF flag = 0 THEN "fan/do" ELSE "fan/end"
  <2>1. k \in Kinds /\ Queue(k)
    BY <1>1 DEF FanClick, Kinds, Silent, Commands
  <2>2. flag' \in {0, 1} /\ timer' = (flag' = 1)
    BY <1>1 DEF FanClick, Shapes
  <2>3. calm' \in BOOLEAN /\ reloaded' \in BOOLEAN
    BY <1>1 DEF FanClick
  <2>4. UNCHANGED <<up, fan, applied>>
    BY <1>1 DEF FanClick
  <2> HIDE DEF k
  <2>5. QED
    BY <2>1, <2>2, <2>3, <2>4, QueueShape DEF Shapes
<1>2. CASE Poll \/ AskInfo \/ \E k \in Kinds : AskOf(k)
  <2>1. PICK k \in Kinds : Queue(k)
    BY <1>2 DEF Poll, AskInfo, AskOf, Kinds, Silent, Answering
  <2>2. UNCHANGED <<flag, timer, up, fan, applied, calm, reloaded>>
    BY <1>2 DEF Poll, AskInfo, AskOf
  <2>3. QED
    BY <2>1, <2>2, QueueShape DEF Shapes
<1>3. CASE AskCharts
  <2>1. /\ next \in Ids /\ next + 1 \in Ids /\ next' = next + 2
        /\ next' \in 1..(MaxRequests + 1)
    BY <1>3, RequestAssumption DEF AskCharts, Shapes, Ids
  <2>2. {"bootgraph/current", "bootgraph/cur_dmesg"} \subseteq Kinds
    BY DEF Kinds, FromDisk
  <2>3. /\ kind' \in [Ids -> Kinds \cup {"unused"}]
        /\ conn' \in [Ids -> {"none", "queued", "open", "other", "closed"}]
    BY <1>3, <2>1, <2>2 DEF AskCharts, Shapes
  <2>4. \A i \in Ids : i # next /\ i # next + 1 => kind'[i] = kind[i]
    BY <1>3, <2>1 DEF AskCharts, Shapes
  <2>5. kind'[next] # "unused" /\ kind'[next + 1] # "unused"
    BY <1>3, <2>1 DEF AskCharts, Shapes
  <2>6. \A i \in Ids : i >= next + 2 <=> i >= next /\ i # next /\ i # next + 1
    BY <2>1 DEF Ids
  <2>7. \A i \in Ids : kind'[i] = "unused" <=> i >= next'
    BY <2>1, <2>4, <2>5, <2>6 DEF Shapes
  <2>8. UNCHANGED <<flag, timer, call, up, fan, applied, calm, reloaded>>
    BY <1>3 DEF AskCharts
  <2>9. QED
    BY <2>1, <2>3, <2>7, <2>8 DEF Shapes
<1>4. ASSUME NEW k \in Kinds, AskElsewhere(k) PROVE Shapes'
  <2>1. next \in Ids /\ next' = next + 1 /\ next' \in 1..(MaxRequests + 1)
    BY <1>4, RequestAssumption DEF AskElsewhere, Shapes, Ids
  <2>2. k # "unused"
    BY <1>4 DEF AskElsewhere
  <2>3. /\ kind' \in [Ids -> Kinds \cup {"unused"}]
        /\ conn' \in [Ids -> {"none", "queued", "open", "other", "closed"}]
        /\ call' \in [Ids -> {"none", "sent", "handled", "adrift", "over"}]
    BY <1>4, <2>1, <2>2 DEF AskElsewhere, Shapes
  <2>4. \A i \in Ids : kind'[i] = IF i = next THEN k ELSE kind[i]
    BY <1>4, <2>1 DEF AskElsewhere, Shapes
  <2>5. \A i \in Ids : i >= next + 1 <=> i >= next /\ i # next
    BY <2>1 DEF Ids
  <2>6. \A i \in Ids : kind'[i] = "unused" <=> i >= next'
    BY <2>1, <2>2, <2>4, <2>5 DEF Shapes
  <2>7. UNCHANGED <<flag, timer, up, fan, applied, calm, reloaded>>
    BY <1>4 DEF AskElsewhere
  <2>8. QED
    BY <2>1, <2>3, <2>6, <2>7 DEF Shapes
<1>5. CASE Reload
  <2>1. conn' \in [Ids -> {"none", "queued", "open", "other", "closed"}]
    BY <1>5 DEF Reload, Shapes
  <2>2. flag' \in {0, 1} /\ timer' = (flag' = 1) /\ reloaded' \in BOOLEAN
    <3>1. flag' = 0 /\ flag' # 1
      BY <1>5 DEF Reload
    <3>2. timer' = FALSE /\ reloaded' = TRUE
      BY <1>5 DEF Reload
    <3>3. QED
      BY <3>1, <3>2, Zenon
  <2>3. UNCHANGED <<next, kind, call, up, fan, applied, calm>>
    BY <1>5 DEF Reload
  <2>4. QED
    BY <2>1, <2>2, <2>3 DEF Shapes
<1>6. CASE Restart
  BY <1>6 DEF Restart, Shapes
<1>7. ASSUME NEW i \in Ids, \/ Forward(i) \/ ServeFile(i) \/ Deliver(i)
                            \/ Forget(i) \/ Refused(i) \/ Drop(i)
      PROVE  Shapes'
  <2>1. UNCHANGED <<flag, timer, next, kind, up, fan, applied, calm, reloaded>>
    BY <1>7 DEF Forward, ServeFile, Deliver, Forget, Refused, Drop
  <2>2. conn' \in [Ids -> {"none", "queued", "open", "other", "closed"}]
    BY <1>7 DEF Forward, ServeFile, Deliver, Forget, Refused, Drop, Shapes
  <2>3. call' \in [Ids -> {"none", "sent", "handled", "adrift", "over"}]
    BY <1>7 DEF Forward, ServeFile, Deliver, Forget, Refused, Drop, Shapes
  <2>4. QED
    BY <2>1, <2>2, <2>3 DEF Shapes
<1>8. ASSUME NEW i \in Ids, \/ Return(i) \/ ErrorThrown(i) \/ Vanish(i)
                            \/ \E c \in {"over", "adrift"} : ErrorLogged(i, c)
      PROVE  Shapes'
  <2>1. UNCHANGED <<flag, timer, next, kind, fan, applied, calm, reloaded>>
    BY <1>8 DEF Return, ErrorThrown, Vanish, ErrorLogged
  <2>2. up' \in BOOLEAN
    BY <1>8 DEF Return, ErrorThrown, Vanish, ErrorLogged, Shapes
  <2>3. conn' \in [Ids -> {"none", "queued", "open", "other", "closed"}]
    BY <1>8 DEF Return, ErrorThrown, Vanish, ErrorLogged, Shapes
  <2>4. call' \in [Ids -> {"none", "sent", "handled", "adrift", "over"}]
    <3>1. CASE ErrorThrown(i)
      BY <3>1 DEF ErrorThrown, Shapes
    <3>2. CASE Return(i) \/ Vanish(i)
      BY <3>2 DEF Return, Vanish, Shapes
    <3>3. ASSUME NEW c \in {"over", "adrift"}, ErrorLogged(i, c)
          PROVE  call' \in [Ids -> {"none", "sent", "handled", "adrift", "over"}]
      BY <3>3 DEF ErrorLogged, Shapes
    <3>4. QED
      BY <1>8, <3>1, <3>2, <3>3
  <2>5. QED
    BY <2>1, <2>2, <2>3, <2>4 DEF Shapes
<1>9. ASSUME NEW i \in Ids, Handle(i) PROVE Shapes'
  <2>1. UNCHANGED <<flag, timer, next, kind, conn, up, calm, reloaded>>
    BY <1>9 DEF Handle
  <2>2. fan' \in BOOLEAN
    BY <1>9 DEF Handle, Shapes
  <2>3. applied' \subseteq Ids
    BY <1>9 DEF Handle, Shapes
  <2>4. call' \in [Ids -> {"none", "sent", "handled", "adrift", "over"}]
    BY <1>9 DEF Handle, Shapes
  <2>5. QED
    BY <2>1, <2>2, <2>3, <2>4 DEF Shapes
<1>10. CASE UNCHANGED vars
  BY <1>10 DEF vars, Shapes
<1>11. QED
  BY <1>1, <1>2, <1>3, <1>4, <1>5, <1>6, <1>7, <1>8, <1>9, <1>10 DEF Next

\* Only a request that gets a connection opens one, and one that is free.
LEMMA ConnectionsStep ==
    Shapes /\ Cardinality(Opened) <= MaxConn /\ [Next]_vars => Cardinality(Opened') <= MaxConn
<1> SUFFICES ASSUME Shapes, Cardinality(Opened) <= MaxConn, [Next]_vars
             PROVE  Cardinality(Opened') <= MaxConn
  OBVIOUS
<1>1. Opened' = OpenedIn(conn')
  BY DEF Opened, OpenedIn
<1>2. ASSUME NEW i \in Ids, Forward(i) \/ ServeFile(i) PROVE Cardinality(Opened') <= MaxConn
  <2>1. Cardinality(Opened) < MaxConn
    BY <1>2 DEF Forward, ServeFile, HasConnection
  <2>2. \A j \in Ids : conn'[j] = "open" => conn[j] = "open" \/ j = i
    BY <1>2 DEF Forward, ServeFile, Shapes
  <2>3. QED
    BY <1>1, <2>1, <2>2, OneMoreOpen
<1>3. CASE \A j \in Ids : conn'[j] = "open" => conn[j] = "open"
  BY <1>1, <1>3, FewerOpen
<1>4. ASSUME NEW i \in Ids, \/ Deliver(i) \/ Forget(i) \/ Refused(i) \/ Drop(i) \/ Return(i)
                            \/ ErrorThrown(i) \/ Handle(i) \/ Vanish(i)
                            \/ \E c \in {"over", "adrift"} : ErrorLogged(i, c)
      PROVE  \A j \in Ids : conn'[j] = "open" => conn[j] = "open"
  BY <1>4 DEF Deliver, Forget, Refused, Drop, Return, ErrorThrown, Handle, Vanish, ErrorLogged,
              Shapes
<1>5. ASSUME \/ FanClick \/ Poll \/ AskInfo \/ AskCharts \/ Reload \/ Restart
             \/ \E k \in Kinds : AskOf(k) \/ AskElsewhere(k)
      PROVE  \A j \in Ids : conn'[j] = "open" => conn[j] = "open"
  BY <1>5 DEF FanClick, Poll, AskInfo, AskOf, AskCharts, AskElsewhere, Reload, Restart, Queue,
              Shapes, requests
<1>6. CASE UNCHANGED vars
  BY <1>3, <1>6 DEF vars, requests
<1>7. QED
  BY <1>2, <1>3, <1>4, <1>5, <1>6 DEF Next

\* Type correctness of the proxy: the page never has more than MaxConn
\* connections.
THEOREM ProxyTypeCorrect == Spec => []TypeOK
<1>1. TypeOK <=> Shapes /\ Cardinality(Opened) <= MaxConn
  BY DEF TypeOK, Shapes
<1>2. TypeOK /\ [Next]_vars => TypeOK'
  <2> SUFFICES ASSUME TypeOK, [Next]_vars PROVE TypeOK'
    OBVIOUS
  <2>1. Shapes' /\ Cardinality(Opened') <= MaxConn
    BY <1>1, ShapesStep, ConnectionsStep
  <2>2. QED
    BY <2>1 DEF TypeOK, Shapes
<1>3. QED
  BY <1>2, ProxyTypeInit, PTL DEF Spec

-----------------------------------------------------------------------------
(* The fan, and the routes that keep a client waiting.                     *)

\* A request goes through its stages in their order.
StagesInv ==
    /\ \A i \in Ids : i >= next => conn[i] = "none" /\ call[i] = "none" /\ i \notin applied
    /\ \A i \in Ids : conn[i] = "queued" => call[i] = "none"
    /\ \A i \in Ids : kind[i] \in FromDisk => call[i] = "none"
    /\ \A i \in applied : conn[i] # "queued" /\ call[i] \notin {"sent", "adrift"}

\* An answering route whose call has ended has ended its connection too.
AnswerInv ==
    \A i \in Ids : kind[i] \in Answering /\ call[i] \in {"adrift", "over"} =>
        conn[i] \notin {"open", "other"}

\* The last command says what the button shows; after a calm click no other
\* command is on its way, so the last one decides.
FanInv ==
    /\ ~reloaded => \A c \in Ids : IsLastCommand(c) => (kind[c] = "fan/do" <=> flag = 1)
    /\ calm => \A i \in Ids : OnItsWay(i) => IsLastCommand(i)
    /\ calm => \A c \in applied : IsLastCommand(c) => (fan <=> kind[c] = "fan/do")

LEMMA KindsApart ==
    /\ \A k \in Silent : k \notin Answering /\ k \notin FromDisk /\ k # "unused"
    /\ \A k \in Answering : k \notin FromDisk /\ k \notin Commands /\ k # "unused"
    /\ \A k \in FromDisk : k \notin Commands /\ k # "unused"
    /\ \A k \in Code : k \notin Answering /\ k \notin FromDisk /\ k \notin Commands
    /\ Versioned \subseteq FromDisk
    /\ Commands \subseteq Silent /\ "fan" \notin Commands /\ "fan" \notin Answering
    /\ "fan" \notin FromDisk /\ "unused" \notin Commands
BY DEF Silent, Commands, Answering, FromDisk, Versioned, Code

LEMMA ProxyInit == Init => StagesInv /\ AnswerInv /\ FanInv
<1> SUFFICES ASSUME Init PROVE StagesInv /\ AnswerInv /\ FanInv
  OBVIOUS
<1>1. \A i \in Ids : kind[i] = "unused" /\ conn[i] = "none" /\ call[i] = "none"
  BY DEF Init
<1>2. StagesInv /\ AnswerInv
  BY <1>1 DEF Init, StagesInv, AnswerInv
<1>3. FanInv
  BY <1>1, KindsApart DEF Init, FanInv, IsLastCommand, OnItsWay
<1>4. QED
  BY <1>2, <1>3

\* What a new request from the page changes.
LEMMA QueueEffect ==
    ASSUME Shapes, NEW k \in Kinds, Queue(k)
    PROVE  /\ next \in Ids /\ next' = next + 1 /\ call' = call
           /\ \A i \in Ids : /\ kind'[i] = IF i = next THEN k ELSE kind[i]
                             /\ conn'[i] = IF i = next THEN "queued" ELSE conn[i]
           /\ kind[next] = "unused"
           /\ \A i \in Ids : i > next => kind[i] = "unused"
           /\ \A i \in Ids : i >= next' => i >= next /\ i # next
<1>1. next \in Ids /\ next' = next + 1
  BY RequestAssumption DEF Queue, Shapes, Ids
<1>2. \A i \in Ids : i \in Int /\ (i > next => i >= next) /\ (i >= next + 1 => i >= next /\ i # next)
  BY <1>1 DEF Ids
<1>3. next >= next
  BY <1>1 DEF Ids
<1>4. QED
  BY <1>1, <1>2, <1>3 DEF Queue, Shapes

LEMMA StagesStep ==
    Shapes /\ StagesInv /\ AnswerInv /\ [Next]_vars => StagesInv' /\ AnswerInv'
<1> SUFFICES ASSUME Shapes, StagesInv, AnswerInv, [Next]_vars PROVE StagesInv' /\ AnswerInv'
  OBVIOUS
<1> USE DEF page, bmc, clicks, requests
<1>1. ASSUME NEW k \in Kinds, Queue(k), applied' = applied PROVE StagesInv' /\ AnswerInv'
  <2>1. StagesInv'
    BY <1>1, QueueEffect DEF StagesInv, Shapes
  <2>2. AnswerInv'
    BY <1>1, QueueEffect DEF AnswerInv
  <2>3. QED
    BY <2>1, <2>2
<1>2. CASE FanClick \/ Poll \/ AskInfo \/ \E k \in Kinds : AskOf(k)
  <2>1. \E k \in Kinds : Queue(k)
    BY <1>2 DEF FanClick, Poll, AskInfo, AskOf, Kinds, Silent, Commands, Answering
  <2>2. applied' = applied
    BY <1>2 DEF FanClick, Poll, AskInfo, AskOf
  <2>3. QED
    BY <1>1, <2>1, <2>2
<1>3. CASE AskCharts
  <2>1. next \in Ids /\ next + 1 \in Ids /\ next' = next + 2 /\ next + 1 # next
    BY <1>3, RequestAssumption DEF AskCharts, Shapes, Ids
  <2>2. \A i \in Ids : /\ i \notin {next, next + 1} => kind'[i] = kind[i] /\ conn'[i] = conn[i]
                       /\ i \in {next, next + 1} => kind'[i] \in FromDisk /\ conn'[i] = "queued"
    BY <1>3, <2>1 DEF AskCharts, Shapes, FromDisk
  <2>3. \A i \in Ids : /\ i >= next' => i >= next /\ i # next /\ i # next + 1
                       /\ i \in {next, next + 1} => i >= next
    BY <2>1 DEF Ids
  <2>4. call' = call /\ applied' = applied
    BY <1>3 DEF AskCharts
  <2>5. StagesInv'
    BY <2>2, <2>3, <2>4 DEF StagesInv, Shapes
  <2>6. AnswerInv'
    BY <2>2, <2>4, KindsApart DEF AnswerInv
  <2>7. QED
    BY <2>5, <2>6
<1>4. ASSUME NEW k \in Kinds, AskElsewhere(k) PROVE StagesInv' /\ AnswerInv'
  <2>1. next \in Ids /\ next' = next + 1
    BY <1>4, RequestAssumption DEF AskElsewhere, Shapes, Ids
  <2>2. \A i \in Ids :
            /\ kind'[i] = IF i = next THEN k ELSE kind[i]
            /\ conn'[i] = IF i = next THEN "other" ELSE conn[i]
            /\ call'[i] = IF i = next THEN "sent" ELSE call[i]
    BY <1>4, <2>1 DEF AskElsewhere, Shapes
  <2>3. \A i \in Ids : /\ i >= next' => i >= next /\ i # next
                       /\ i = next => i >= next
    BY <2>1 DEF Ids
  <2>4. applied' = applied /\ k \notin FromDisk
    BY <1>4 DEF AskElsewhere, FromDisk, Versioned
  <2>5. StagesInv'
    BY <2>1, <2>2, <2>3, <2>4 DEF StagesInv, Shapes
  <2>6. AnswerInv'
    BY <2>2 DEF AnswerInv
  <2>7. QED
    BY <2>5, <2>6
<1>5. CASE Reload
  <2>1. \A i \in Ids : conn'[i] = conn[i] \/ (conn'[i] = "closed" /\ conn[i] # "none")
    BY <1>5 DEF Reload, Shapes
  <2>2. UNCHANGED <<next, kind, call, applied>>
    BY <1>5 DEF Reload
  <2>3. StagesInv'
    BY <2>1, <2>2 DEF StagesInv, Shapes
  <2>4. AnswerInv'
    BY <2>1, <2>2 DEF AnswerInv
  <2>5. QED
    BY <2>3, <2>4
<1>6. CASE Restart
  BY <1>6 DEF Restart, StagesInv, AnswerInv
<1>7. ASSUME NEW i \in Ids, Forward(i) PROVE StagesInv' /\ AnswerInv'
  <2>1. conn[i] = "queued" /\ kind[i] \notin FromDisk
    BY <1>7, KindsApart DEF Forward, HasConnection, InTurn
  <2>2. /\ UNCHANGED <<next, kind, applied>>
        /\ \A j \in Ids : /\ conn'[j] = IF j = i THEN "open" ELSE conn[j]
                          /\ call'[j] = IF j = i THEN "sent" ELSE call[j]
    BY <1>7 DEF Forward, Shapes
  <2>3. StagesInv'
    BY <2>1, <2>2 DEF StagesInv, Shapes
  <2>4. AnswerInv'
    BY <2>2 DEF AnswerInv
  <2>5. QED
    BY <2>3, <2>4
<1>8. ASSUME NEW i \in Ids, ServeFile(i) \/ Deliver(i) \/ Refused(i) \/ Drop(i)
      PROVE  StagesInv' /\ AnswerInv'
  <2>1. UNCHANGED <<next, kind, call, applied>>
    BY <1>8 DEF ServeFile, Deliver, Refused, Drop
  <2>2. \A j \in Ids : \/ conn'[j] = conn[j]
                       \/ conn'[j] = "closed" /\ conn[j] # "none"
                       \/ conn'[j] = "open" /\ conn[j] = "queued"
    BY <1>8 DEF ServeFile, Deliver, Refused, Drop, HasConnection, InTurn, Shapes
  <2>3. StagesInv'
    BY <2>1, <2>2 DEF StagesInv, Shapes
  <2>4. AnswerInv'
    BY <2>1, <2>2 DEF AnswerInv, StagesInv
  <2>5. QED
    BY <2>3, <2>4
<1>9. ASSUME NEW i \in Ids, Return(i) PROVE StagesInv' /\ AnswerInv'
  <2>1. call[i] = "handled" /\ UNCHANGED <<next, kind, applied>>
    BY <1>9 DEF Return
  <2>2. \A j \in Ids : /\ call'[j] = IF j = i THEN "over" ELSE call[j]
                       /\ conn'[j] = IF j = i /\ kind[i] \in Answering THEN "closed" ELSE conn[j]
    BY <1>9 DEF Return, Shapes
  <2>3. StagesInv'
    BY <2>1, <2>2 DEF StagesInv, Shapes
  <2>4. AnswerInv'
    BY <2>1, <2>2 DEF AnswerInv
  <2>5. QED
    BY <2>3, <2>4
<1>10. ASSUME NEW i \in Ids, Vanish(i) \/ \E c \in {"over", "adrift"} : ErrorLogged(i, c)
       PROVE  StagesInv' /\ AnswerInv'
  <2>1. UNCHANGED <<next, kind, conn, applied>>
    BY <1>10 DEF Vanish, ErrorLogged
  <2>2. /\ \A j \in Ids : j # i => call'[j] = call[j]
        /\ \/ call[i] = "sent" /\ call'[i] \in {"over", "adrift"}
           \/ call[i] \in {"handled", "adrift"} /\ call'[i] = "over"
        /\ call[i] = "adrift" \/ kind[i] \in Silent
    <3>1. CASE Vanish(i)
      BY <3>1 DEF Vanish, Shapes
    <3>2. ASSUME NEW c \in {"over", "adrift"}, ErrorLogged(i, c)
          PROVE  /\ \A j \in Ids : j # i => call'[j] = call[j]
                 /\ \/ call[i] = "sent" /\ call'[i] \in {"over", "adrift"}
                    \/ call[i] = "handled" /\ call'[i] = "over"
                 /\ kind[i] \in Silent
      BY <3>2 DEF ErrorLogged, Shapes
    <3>3. QED
      BY <1>10, <3>1, <3>2
  <2>3. StagesInv'
    BY <2>1, <2>2 DEF StagesInv, Shapes
  <2>4. AnswerInv'
    BY <2>1, <2>2, KindsApart DEF AnswerInv
  <2>5. QED
    BY <2>3, <2>4
<1>11. ASSUME NEW i \in Ids, ErrorThrown(i) PROVE StagesInv' /\ AnswerInv'
  <2>1. UNCHANGED <<next, kind, applied>>
    BY <1>11 DEF ErrorThrown
  <2>2. \A j \in Ids :
            /\ conn'[j] = IF conn[j] \in {"open", "other"} THEN "closed" ELSE conn[j]
            /\ call[j] = "sent" => call'[j] = "adrift"
            /\ call[j] = "handled" => call'[j] = "over"
            /\ call[j] \notin {"sent", "handled"} => call'[j] = call[j]
    BY <1>11 DEF ErrorThrown, Shapes
  <2>3. StagesInv'
    BY <2>1, <2>2 DEF StagesInv, Shapes
  <2>4. AnswerInv'
    BY <2>1, <2>2 DEF AnswerInv
  <2>5. QED
    BY <2>3, <2>4
<1>12. ASSUME NEW i \in Ids, Handle(i) PROVE StagesInv' /\ AnswerInv'
  <2>1. call[i] \in {"sent", "adrift"} /\ UNCHANGED <<next, kind, conn>>
    BY <1>12 DEF Handle
  <2>2. \A j \in Ids : call'[j] = IF j = i THEN (IF call[i] = "sent" THEN "handled" ELSE "over")
                                           ELSE call[j]
    BY <1>12 DEF Handle, Shapes
  <2>3. applied' \subseteq applied \cup {i}
    BY <1>12 DEF Handle
  <2>4. StagesInv'
    BY <2>1, <2>2, <2>3 DEF StagesInv, Shapes
  <2>5. AnswerInv'
    BY <2>1, <2>2 DEF AnswerInv
  <2>6. QED
    BY <2>4, <2>5
<1>13. ASSUME NEW i \in Ids, Forget(i) PROVE StagesInv' /\ AnswerInv'
  <2>1. /\ conn[i] = "open" /\ kind[i] \notin FromDisk /\ kind[i] \notin Answering
        /\ UNCHANGED <<next, kind, conn, applied>>
    BY <1>13, KindsApart DEF Forget
  <2>2. \A j \in Ids : call'[j] = IF j = i THEN "over" ELSE call[j]
    BY <1>13 DEF Forget, Shapes
  <2>3. StagesInv'
    BY <2>1, <2>2 DEF StagesInv, Shapes
  <2>4. AnswerInv'
    BY <2>1, <2>2 DEF AnswerInv
  <2>5. QED
    BY <2>3, <2>4
<1>14. CASE UNCHANGED vars
  BY <1>14 DEF vars, StagesInv, AnswerInv
<1>15. QED
  BY <1>2, <1>3, <1>4, <1>5, <1>6, <1>7, <1>8, <1>9, <1>10, <1>11, <1>12, <1>13, <1>14 DEF Next

\* Requests that are no commands leave the commands as they are.
LEMMA OtherKinds ==
    ASSUME Shapes, StagesInv, FanInv,
           \A i \in Ids : \/ kind'[i] = kind[i]
                          \/ kind[i] = "unused" /\ kind'[i] \notin Commands,
           \A i \in Ids : OnItsWay(i)' => OnItsWay(i),
           UNCHANGED <<fan, applied, calm>>,
           reloaded' \/ UNCHANGED <<flag, reloaded>>
    PROVE  FanInv'
<1>1. \A i \in Ids : kind[i] \in Commands <=> kind'[i] \in Commands
  BY KindsApart
<1>2. \A i \in Ids : kind[i] \in Commands => kind'[i] = kind[i]
  BY KindsApart
<1>3. \A c \in Ids : IsLastCommand(c)' <=> IsLastCommand(c)
  BY <1>1 DEF IsLastCommand
<1>4. \A c \in Ids : IsLastCommand(c) => kind'[c] = kind[c]
  BY <1>2 DEF IsLastCommand
<1>5. ~reloaded' => \A c \in Ids : IsLastCommand(c)' => (kind'[c] = "fan/do" <=> flag' = 1)
  BY <1>3, <1>4 DEF FanInv
<1>6. calm' => \A i \in Ids : OnItsWay(i)' => IsLastCommand(i)'
  BY <1>3 DEF FanInv
<1>7. applied \subseteq Ids
  BY DEF Shapes
<1>8. calm' => \A c \in applied' : IsLastCommand(c)' => (fan' <=> kind'[c] = "fan/do")
  BY <1>3, <1>4, <1>7 DEF FanInv
<1>9. QED
  BY <1>5, <1>6, <1>8 DEF FanInv

LEMMA FanStep == Shapes /\ StagesInv /\ FanInv /\ [Next]_vars => FanInv'
<1> SUFFICES ASSUME Shapes, StagesInv, FanInv, [Next]_vars PROVE FanInv'
  OBVIOUS
<1> USE DEF page, bmc, clicks, requests
<1>1. CASE FanClick
  <2> DEFINE k == IF flag = 0 THEN "fan/do" ELSE "fan/end"
  <2>1. k \in Kinds /\ k \in Commands /\ Queue(k)
    BY <1>1 DEF FanClick, Kinds, Silent, Commands
  <2>2. k = "fan/do" <=> flag' = 1
    BY <1>1 DEF FanClick, Shapes
  <2> HIDE DEF k
  <2>3. PICK n \in Ids : n = next
    BY <2>1, QueueEffect
  <2>4. /\ kind'[n] = k /\ call' = call
        /\ \A i \in Ids : i # n => kind'[i] = kind[i] /\ conn'[i] = conn[i]
        /\ \A i \in Ids : i > n => kind[i] = "unused"
    BY <2>1, <2>3, QueueEffect
  <2>5. \A i \in Ids : (i > n => i # n) /\ (i # n => i > n \/ n > i)
    BY <2>3 DEF Ids
  <2>6. \A c \in Ids : IsLastCommand(c)' => c = n
    <3> SUFFICES ASSUME NEW c \in Ids, IsLastCommand(c)', c # n PROVE FALSE
      OBVIOUS
    <3>1. kind'[c] \in Commands /\ (n > c => kind'[n] \notin Commands)
      BY DEF IsLastCommand
    <3>2. QED
      BY <2>1, <2>4, <2>5, <3>1, KindsApart
  <2>7. \A d \in Ids : d > n => kind'[d] \notin Commands
    BY <2>4, <2>5, KindsApart
  <2>8. IsLastCommand(n)'
    BY <2>1, <2>4, <2>7 DEF IsLastCommand
  <2>9. n \notin applied'
    <3>1. n >= next /\ applied' = applied
      BY <1>1, <2>3 DEF FanClick, Ids
    <3>2. QED
      BY <3>1 DEF StagesInv
  <2>10. calm' => \A i \in Ids : OnItsWay(i)' => i = n
    <3>1. calm' => \A i \in Ids : ~OnItsWay(i)
      BY <1>1 DEF FanClick
    <3>2. \A i \in Ids : i # n => (OnItsWay(i)' <=> OnItsWay(i))
      BY <2>4 DEF OnItsWay
    <3>3. QED
      BY <3>1, <3>2
  <2>11. applied' \subseteq Ids
    BY <1>1 DEF FanClick, Shapes
  <2>12. \A c \in Ids : IsLastCommand(c)' => (kind'[c] = "fan/do" <=> flag' = 1)
    BY <2>2, <2>4, <2>6
  <2>13. calm' => \A i \in Ids : OnItsWay(i)' => IsLastCommand(i)'
    BY <2>8, <2>10
  <2>14. \A c \in applied' : ~IsLastCommand(c)'
    BY <2>6, <2>9, <2>11
  <2>15. QED
    BY <2>12, <2>13, <2>14 DEF FanInv
<1>2. CASE Poll \/ AskInfo \/ \E k \in Kinds : AskOf(k)
  <2>1. PICK k \in Kinds : Queue(k) /\ k \notin Commands
    <3>1. CASE Poll \/ AskInfo
      BY <3>1 DEF Poll, AskInfo, Kinds, Silent, Answering, Commands
    <3>2. ASSUME NEW k \in Kinds, AskOf(k) PROVE Queue(k) /\ k \notin Commands
      BY <3>2, KindsApart DEF AskOf
    <3>3. QED
      BY <1>2, <3>1, <3>2
  <2>2. UNCHANGED <<flag, fan, applied, calm, reloaded>>
    BY <1>2 DEF Poll, AskInfo, AskOf
  <2>3. PICK n \in Ids : n = next
    BY <2>1, QueueEffect
  <2>4. /\ kind'[n] = k /\ kind[n] = "unused" /\ call' = call
        /\ \A i \in Ids : i # n => kind'[i] = kind[i] /\ conn'[i] = conn[i]
    BY <2>1, <2>3, QueueEffect
  <2>5. \A i \in Ids : OnItsWay(i)' => OnItsWay(i)
    BY <2>1, <2>4 DEF OnItsWay
  <2>6. \A i \in Ids : kind'[i] = kind[i] \/ (kind[i] = "unused" /\ kind'[i] \notin Commands)
    BY <2>1, <2>4
  <2>7. QED
    BY <2>2, <2>5, <2>6, OtherKinds
<1>3. CASE AskCharts
  <2>1. next \in Ids /\ next + 1 \in Ids
    BY <1>3, RequestAssumption DEF AskCharts, Shapes, Ids
  <2>2. \A i \in Ids : /\ i \notin {next, next + 1} => kind'[i] = kind[i] /\ conn'[i] = conn[i]
                       /\ i \in {next, next + 1} => kind'[i] \in FromDisk /\ i >= next
    BY <1>3, <2>1 DEF AskCharts, Shapes, FromDisk, Ids
  <2>3. UNCHANGED <<flag, call, fan, applied, calm, reloaded>>
    BY <1>3 DEF AskCharts
  <2>4. \A i \in Ids : OnItsWay(i)' => OnItsWay(i)
    BY <2>2, <2>3, KindsApart DEF OnItsWay
  <2>5. \A i \in Ids : kind'[i] = kind[i] \/ (kind[i] = "unused" /\ kind'[i] \notin Commands)
    BY <2>2, KindsApart DEF Shapes
  <2>6. QED
    BY <2>3, <2>4, <2>5, OtherKinds
<1>4. ASSUME NEW k \in Kinds, AskElsewhere(k) PROVE FanInv'
  <2>1. PICK n \in Ids : n = next
    BY <1>4, RequestAssumption DEF AskElsewhere, Shapes, Ids
  <2>2. /\ kind'[n] = k /\ n >= next
        /\ \A i \in Ids : i # n => kind'[i] = kind[i] /\ conn'[i] = conn[i] /\ call'[i] = call[i]
    BY <1>4, <2>1 DEF AskElsewhere, Shapes, Ids
  <2>3. UNCHANGED <<flag, fan, applied, calm, reloaded>>
    BY <1>4 DEF AskElsewhere
  <2>4. k \notin Commands
    BY <1>4 DEF AskElsewhere, Commands
  <2>5. \A i \in Ids : OnItsWay(i)' => OnItsWay(i)
    BY <2>2, <2>4 DEF OnItsWay
  <2>6. \A i \in Ids : kind'[i] = kind[i] \/ (kind[i] = "unused" /\ kind'[i] \notin Commands)
    BY <2>2, <2>4 DEF Shapes
  <2>7. QED
    BY <2>3, <2>5, <2>6, OtherKinds
<1>5. CASE Reload
  <2>1. UNCHANGED <<kind, call, fan, applied, calm>> /\ reloaded'
    BY <1>5 DEF Reload
  <2>2. \A i \in Ids : conn'[i] = "queued" => conn[i] = "queued"
    BY <1>5 DEF Reload
  <2>3. \A i \in Ids : OnItsWay(i)' => OnItsWay(i)
    BY <2>1, <2>2 DEF OnItsWay
  <2>4. QED
    BY <2>1, <2>3, OtherKinds
<1>6. ASSUME NEW i \in Ids, \/ Forward(i) \/ ServeFile(i) \/ Deliver(i) \/ Refused(i) \/ Drop(i)
                            \/ Return(i) \/ Vanish(i) \/ Forget(i)
      PROVE  FanInv'
  <2>1. UNCHANGED <<flag, kind, fan, applied, calm, reloaded>>
    BY <1>6 DEF Forward, ServeFile, Deliver, Refused, Drop, Return, Vanish, Forget
  <2>2. \A j \in Ids : OnItsWay(j)' => OnItsWay(j)
    <3>1. CASE Forward(i)
      BY <3>1 DEF Forward, HasConnection, InTurn, OnItsWay, Shapes
    <3>2. CASE ServeFile(i) \/ Deliver(i) \/ Refused(i) \/ Drop(i)
      BY <3>2 DEF ServeFile, Deliver, Refused, Drop, OnItsWay, Shapes
    <3>3. CASE Return(i)
      BY <3>3 DEF Return, OnItsWay, Shapes
    <3>4. CASE Vanish(i) \/ Forget(i)
      BY <3>4 DEF Vanish, Forget, OnItsWay, Shapes
    <3>5. QED
      BY <1>6, <3>1, <3>2, <3>3, <3>4
  <2>3. QED
    BY <2>1, <2>2, OtherKinds
<1>7. ASSUME NEW i \in Ids, NEW c \in {"over", "adrift"}, ErrorLogged(i, c) PROVE FanInv'
  <2>1. UNCHANGED <<flag, kind, fan, applied, calm, reloaded>>
    BY <1>7 DEF ErrorLogged
  <2>2. \A j \in Ids : OnItsWay(j)' => OnItsWay(j)
    BY <1>7 DEF ErrorLogged, OnItsWay, Shapes
  <2>3. QED
    BY <2>1, <2>2, OtherKinds
<1>8. ASSUME NEW i \in Ids, ErrorThrown(i) PROVE FanInv'
  <2>1. UNCHANGED <<flag, kind, fan, applied, calm, reloaded>>
    BY <1>8 DEF ErrorThrown
  <2>2. \A j \in Ids : /\ conn'[j] = "queued" => conn[j] = "queued"
                       /\ call'[j] \in {"sent", "adrift"} => call[j] \in {"sent", "adrift"}
    BY <1>8 DEF ErrorThrown, Shapes
  <2>3. \A j \in Ids : OnItsWay(j)' => OnItsWay(j)
    BY <2>1, <2>2 DEF OnItsWay
  <2>4. QED
    BY <2>1, <2>3, OtherKinds
<1>9. ASSUME NEW i \in Ids, Handle(i) PROVE FanInv'
  <2>1. UNCHANGED <<flag, kind, conn, calm, reloaded>> /\ call[i] \in {"sent", "adrift"}
    BY <1>9 DEF Handle
  <2>2. \A j \in Ids : OnItsWay(j)' => OnItsWay(j)
    BY <1>9 DEF Handle, OnItsWay, Shapes
  <2>3. CASE kind[i] \notin Commands
    <3>1. UNCHANGED <<fan, applied>>
      BY <1>9, <2>3 DEF Handle
    <3>2. QED
      BY <2>1, <2>2, <3>1, OtherKinds
  <2>4. CASE kind[i] \in Commands
    <3>1. applied' = applied \cup {i} /\ (fan' <=> kind[i] = "fan/do")
      BY <1>9, <2>4 DEF Handle
    <3>2. \A c \in Ids : IsLastCommand(c)' <=> IsLastCommand(c)
      BY <2>1 DEF IsLastCommand
    <3>3. calm => IsLastCommand(i)
      BY <2>1, <2>4 DEF OnItsWay, FanInv
    <3>4. \A c \in Ids : IsLastCommand(c) /\ IsLastCommand(i) => c = i
      <4>1. \A c \in Ids : c # i => c > i \/ i > c
        BY DEF Ids
      <4>2. QED
        BY <4>1 DEF IsLastCommand
    <3>5. applied' \subseteq Ids
      BY <3>1 DEF Shapes
    <3>6. calm' => \A c \in applied' : IsLastCommand(c)' => (fan' <=> kind'[c] = "fan/do")
      BY <2>1, <3>1, <3>2, <3>3, <3>4, <3>5
    <3>7. ~reloaded' => \A c \in Ids : IsLastCommand(c)' => (kind'[c] = "fan/do" <=> flag' = 1)
      BY <2>1, <3>2 DEF FanInv
    <3>8. calm' => \A j \in Ids : OnItsWay(j)' => IsLastCommand(j)'
      BY <2>1, <2>2, <3>2 DEF FanInv
    <3>9. QED
      BY <3>6, <3>7, <3>8 DEF FanInv
  <2>5. QED
    BY <2>3, <2>4
<1>10. CASE Restart \/ UNCHANGED vars
  <2>1. UNCHANGED <<flag, kind, conn, call, fan, applied, calm, reloaded>>
    BY <1>10 DEF Restart, vars
  <2>2. QED
    BY <2>1 DEF FanInv, IsLastCommand, OnItsWay
<1>11. QED
  BY <1>1, <1>2, <1>3, <1>4, <1>5, <1>6, <1>7, <1>8, <1>9, <1>10 DEF Next

\* The inductive invariant of the proxy.
ProxyInv == Shapes /\ StagesInv /\ AnswerInv /\ FanInv

LEMMA ProxyAlways == Spec => []ProxyInv
<1>1. Init => ProxyInv
  <2>1. TypeOK => Shapes
    BY DEF TypeOK, Shapes
  <2>2. QED
    BY <2>1, ProxyTypeInit, ProxyInit DEF ProxyInv
<1>2. ProxyInv /\ [Next]_vars => ProxyInv'
  BY ShapesStep, StagesStep, FanStep DEF ProxyInv
<1>3. QED
  BY <1>1, <1>2, PTL DEF Spec

\* The fan follows the button for any number of requests and connections.
THEOREM FanFollows == Spec => []FanFollowsFlag
<1>1. ProxyInv => FanFollowsFlag
  <2> SUFFICES ASSUME ProxyInv, NEW c \in applied, IsLastCommand(c), calm, ~reloaded
               PROVE  fan = (flag = 1)
    BY DEF FanFollowsFlag
  <2>1. c \in Ids /\ fan \in BOOLEAN
    BY DEF ProxyInv, Shapes
  <2>2. fan <=> kind[c] = "fan/do"
    BY DEF ProxyInv, FanInv
  <2>3. kind[c] = "fan/do" <=> flag = 1
    BY <2>1 DEF ProxyInv, FanInv
  <2>4. QED
    BY <2>1, <2>2, <2>3
<1>2. QED
  BY <1>1, ProxyAlways, PTL

\* No route keeps a client waiting for an answer that will not come but those
\* that pass nothing on and those of the code view.
THEOREM OnlySilentHold == Spec => []OnlySilentRoutesHold
<1>1. ProxyInv => OnlySilentRoutesHold
  <2> SUFFICES ASSUME ProxyInv, NEW i \in Ids, conn[i] \in {"open", "other"}, call[i] = "over"
               PROVE  kind[i] \in Silent \cup Code
    BY DEF OnlySilentRoutesHold
  <2>1. kind[i] \in Silent \cup Answering \cup FromDisk \cup Code \cup {"unused"}
    BY DEF ProxyInv, Shapes, Kinds
  <2>2. kind[i] \notin Answering
    BY DEF ProxyInv, AnswerInv
  <2>3. kind[i] \notin FromDisk
    BY DEF ProxyInv, StagesInv
  <2>4. kind[i] # "unused"
    BY DEF ProxyInv, StagesInv, Shapes
  <2>5. QED
    BY <2>1, <2>2, <2>3, <2>4
<1>2. QED
  BY <1>1, ProxyAlways, PTL

-----------------------------------------------------------------------------
(* The boot graph is a proxy with files.                                   *)

LEMMA GraphStepIsProxyStep == [GraphNext]_<<vars, graphVars>> => [Next]_vars
<1> SUFFICES ASSUME [GraphNext]_<<vars, graphVars>> PROVE [Next]_vars
  OBVIOUS
<1>1. CASE Draw \/ LoadPage \/ Sort \/ \E k \in Kinds : Select(k)
  <2>1. "bootgraph/kernel" \in Kinds
    BY DEF Kinds, FromDisk, Versioned
  <2>2. QED
    BY <1>1, <2>1 DEF Draw, LoadPage, Sort, Select, Next
<1>2. ASSUME NEW i \in Ids, NEW text \in Logs, BeginWrite(i, text) PROVE Next
  BY <1>2 DEF BeginWrite, Next
<1>3. ASSUME NEW i \in Ids, \/ OpenTxt(i) \/ WriteTxt(i) \/ WriteFails(i) \/ OpenSvg(i)
                            \/ Cat(i) \/ DrawSvg(i) \/ DrawFails(i)
      PROVE  UNCHANGED vars
  BY <1>3 DEF OpenTxt, WriteTxt, WriteFails, OpenSvg, Cat, DrawSvg, DrawFails
<1>4. ASSUME NEW i \in Ids, ServerDies(i) \/ ReadFile(i) \/ Show(i) PROVE Next
  BY <1>4 DEF ServerDies, ReadFile, Show, Next
<1>5. CASE /\ \/ FanClick \/ Poll \/ AskInfo \/ Restart
              \/ \E k \in Kinds : AskElsewhere(k)
              \/ \E i \in Ids :
                    \/ Forward(i) \/ Forget(i) \/ Refused(i) \/ Drop(i) \/ Handle(i) \/ Vanish(i)
                    \/ Return(i) /\ kind[i] # "bootgraph"
                    \/ \E c \in {"over", "adrift"} : ErrorLogged(i, c)
           /\ UNCHANGED graphVars
  BY <1>5 DEF Next
<1>6. CASE UNCHANGED <<vars, graphVars>>
  BY <1>6
<1>7. QED
  BY <1>1, <1>2, <1>3, <1>4, <1>5, <1>6 DEF GraphNext

\* The composition implements the proxy: all that holds of the proxy alone
\* holds of it with the jobs, the files and the charts.
THEOREM GraphImplementsProxy == GraphSpec => Spec
<1>1. GraphInit => Init
  BY DEF GraphInit
<1>2. QED
  BY <1>1, GraphStepIsProxyStep, PTL DEF GraphSpec, Spec

-----------------------------------------------------------------------------
(* The types of the files, the jobs and the charts.                        *)

LEMMA GraphTypeInit == GraphInit => GraphTypeOK
BY FileAssumption DEF GraphInit, GraphTypeOK, Contents, Shown, Stages

LEMMA GraphTypeStep == GraphTypeOK /\ [GraphNext]_<<vars, graphVars>> => GraphTypeOK'
<1> SUFFICES ASSUME GraphTypeOK, [GraphNext]_<<vars, graphVars>> PROVE GraphTypeOK'
  OBVIOUS
<1> USE DEF files, charts
<1>1. CASE Draw
  <2>1. steady' \in BOOLEAN
    BY <1>1 DEF Draw
  <2>2. QED
    BY <1>1, <2>1 DEF Draw, GraphTypeOK, Shown
<1>2. CASE LoadPage \/ Sort
  BY <1>2 DEF LoadPage, Sort, GraphTypeOK, Shown
<1>3. ASSUME NEW i \in Ids, NEW text \in Logs, BeginWrite(i, text) PROVE GraphTypeOK'
  <2>1. doubt' \in BOOLEAN /\ steady' \in BOOLEAN
    BY <1>3 DEF BeginWrite
  <2>2. job' \in [Ids -> Stages] /\ data' \in [Ids -> Contents]
    BY <1>3 DEF BeginWrite, GraphTypeOK, Stages, Contents
  <2>3. QED
    BY <1>3, <2>1, <2>2 DEF BeginWrite, GraphTypeOK
<1>4. ASSUME NEW i \in Ids, OpenTxt(i) \/ OpenSvg(i) \/ Cat(i) PROVE GraphTypeOK'
  <2>1. job' \in [Ids -> Stages]
    BY <1>4 DEF OpenTxt, OpenSvg, Cat, GraphTypeOK, Stages
  <2>2. data' \in [Ids -> Contents] /\ txt' \in Contents /\ svg' \in Contents
    BY <1>4 DEF OpenTxt, OpenSvg, Cat, GraphTypeOK, Contents
  <2>3. QED
    BY <1>4, <2>1, <2>2 DEF OpenTxt, OpenSvg, Cat, GraphTypeOK
<1>5. ASSUME NEW i \in Ids, WriteTxt(i) \/ DrawSvg(i) PROVE GraphTypeOK'
  <2>1. job' \in [Ids -> Stages]
    BY <1>5 DEF WriteTxt, DrawSvg, GraphTypeOK, Stages
  <2>2. data[i] \in Contents /\ Mixed \in Contents
    BY DEF GraphTypeOK, Contents
  <2>3. txt' \in Contents /\ svg' \in Contents
    BY <1>5, <2>2 DEF WriteTxt, DrawSvg, Overwritten, GraphTypeOK
  <2>4. QED
    BY <1>5, <2>1, <2>3 DEF WriteTxt, DrawSvg, GraphTypeOK
<1>6. ASSUME NEW i \in Ids, WriteFails(i) \/ DrawFails(i) PROVE GraphTypeOK'
  BY <1>6 DEF WriteFails, DrawFails, GraphTypeOK, Stages
<1>7. ASSUME NEW i \in Ids, ServerDies(i) PROVE GraphTypeOK'
  <2>1. job' \in [Ids -> Stages]
    BY <1>7 DEF ServerDies, GraphTypeOK, Stages
  <2>2. doubt' \in BOOLEAN
    BY <1>7 DEF ServerDies
  <2>3. QED
    BY <1>7, <2>1, <2>2 DEF ServerDies, GraphTypeOK
<1>8. ASSUME NEW i \in Ids, ReadFile(i) \/ Show(i) PROVE GraphTypeOK'
  <2>1. CASE ReadFile(i)
    BY <2>1 DEF ReadFile, GraphTypeOK
  <2>2. CASE Show(i)
    <3>1. data[i] \in Shown /\ Registered \in Shown
      BY DEF GraphTypeOK, Shown
    <3>2. graph' \in Shown /\ rows' \in Shown
      BY <2>2, <3>1 DEF Show, GraphTypeOK
    <3>3. QED
      BY <2>2, <3>2 DEF Show, GraphTypeOK
  <2>3. QED
    BY <1>8, <2>1, <2>2
<1>9. ASSUME NEW k \in Kinds, Select(k) PROVE GraphTypeOK'
  <2>1. steady' \in BOOLEAN
    BY <1>9 DEF Select
  <2>2. QED
    BY <1>9, <2>1 DEF Select, GraphTypeOK
<1>10. CASE UNCHANGED graphVars
  BY <1>10 DEF graphVars, GraphTypeOK
<1>11. QED
  BY <1>1, <1>2, <1>3, <1>4, <1>5, <1>6, <1>7, <1>8, <1>9, <1>10 DEF GraphNext

-----------------------------------------------------------------------------
(* The files.                                                              *)

\* How far the one job has come that may run when there is no doubt.
JobAt(i) ==
    /\ job[i] \in {"write", "opened", "spawned", "catted", "read"} => data[i] \in Logs
    /\ job[i] = "opened" => txt = Empty
    /\ job[i] \in {"spawned", "catted", "piped", "read"} => txt \in Logs
    /\ job[i] \in {"spawned", "catted", "read"} => data[i] = txt
    /\ job[i] \in {"piped", "read"} => svg = Empty

FilesInv ==
    /\ \A i \in Ids : Active(i) => kind[i] = "bootgraph"
    /\ ~doubt => \A i, j \in Ids : Active(i) /\ Active(j) => i = j
    /\ ~doubt => \A i \in Ids : Active(i) => JobAt(i)
    /\ GraphIsOfLog

LEMMA FilesInit == GraphInit => FilesInv
BY FileAssumption DEF GraphInit, FilesInv, GraphIsOfLog, Active, Quiet

\* A kind is given once.
LEMMA KindStays ==
    ASSUME Shapes, [Next]_vars, NEW i \in Ids, kind[i] # "unused"
    PROVE  kind'[i] = kind[i]
<1> USE DEF requests
<1>1. ASSUME NEW k, Queue(k) PROVE kind'[i] = kind[i]
  BY <1>1 DEF Queue, Shapes, Ids
<1>2. CASE AskCharts
  BY <1>2 DEF AskCharts, Shapes, Ids
<1>3. ASSUME NEW k, AskElsewhere(k) PROVE kind'[i] = kind[i]
  BY <1>3 DEF AskElsewhere, Shapes, Ids
<1>4. CASE kind' = kind
  BY <1>4
<1>5. kind' = kind \/ AskCharts \/ (\E k : AskElsewhere(k) \/ Queue(k))
  BY DEF Next, vars, FanClick, Poll, AskInfo, AskOf, Reload, Restart, Forward, ServeFile, Deliver,
         Forget, Refused, Drop, Return, ErrorThrown, Handle, Vanish, ErrorLogged
<1>6. QED
  BY <1>1, <1>2, <1>3, <1>4, <1>5

\* A step that leaves the files, the jobs and what they work on alone.
LEMMA FilesAlone ==
    ASSUME FilesInv, UNCHANGED <<txt, svg>>, doubt' => doubt, doubt => doubt',
           \A i \in Ids : job'[i] = job[i],
           \A i \in Ids : Active(i) => data'[i] = data[i] /\ kind'[i] = kind[i]
    PROVE  FilesInv'
<1>1. \A i \in Ids : Active(i)' <=> Active(i)
  BY DEF Active
<1>2. \A i \in Ids : Active(i) => (JobAt(i)' <=> JobAt(i))
  BY DEF JobAt
<1>3. Quiet' <=> Quiet
  BY <1>1 DEF Quiet
<1>4. GraphIsOfLog'
  BY <1>3 DEF FilesInv, GraphIsOfLog
<1>5. \A i \in Ids : Active(i)' => kind'[i] = "bootgraph"
  BY <1>1 DEF FilesInv
<1>6. ~doubt' => \A i, j \in Ids : Active(i)' /\ Active(j)' => i = j
  BY <1>1 DEF FilesInv
<1>7. ~doubt' => \A i \in Ids : Active(i)' => JobAt(i)'
  BY <1>1, <1>2 DEF FilesInv
<1>8. QED
  BY <1>4, <1>5, <1>6, <1>7 DEF FilesInv

\* A step of a job that goes on.
LEMMA JobGoesOn ==
    ASSUME GraphTypeOK, FilesInv, NEW i \in Ids, Active(i), Active(i)',
           \A j \in Ids : j # i => job'[j] = job[j],
           UNCHANGED <<kind, doubt>>,
           ~doubt => JobAt(i)'
    PROVE  FilesInv'
<1>1. \A j \in Ids : Active(j)' <=> Active(j)
  BY DEF Active
<1>2. ~Quiet'
  BY DEF Quiet
<1>3. ~doubt => \A j \in Ids : Active(j) => j = i
  BY DEF FilesInv
<1>4. QED
  BY <1>1, <1>2, <1>3 DEF FilesInv, GraphIsOfLog

LEMMA FilesStep ==
    Shapes /\ StagesInv /\ GraphTypeOK /\ FilesInv /\ [GraphNext]_<<vars, graphVars>> => FilesInv'
<1> SUFFICES ASSUME Shapes, StagesInv, GraphTypeOK, FilesInv, [GraphNext]_<<vars, graphVars>>
             PROVE  FilesInv'
  OBVIOUS
<1> USE DEF files, charts
<1>1. [Next]_vars
  BY GraphStepIsProxyStep
<1>2. \A i \in Ids : kind[i] # "unused" => kind'[i] = kind[i]
  BY <1>1, KindStays
<1>3. \A i \in Ids : Active(i) => kind'[i] = kind[i]
  BY <1>2 DEF FilesInv
<1>4. CASE \/ Draw \/ Sort \/ LoadPage \/ UNCHANGED graphVars
           \/ (\E k \in Kinds : Select(k)) \/ (\E i \in Ids : Show(i))
  <2>1. UNCHANGED <<txt, svg, job, data, doubt>>
    BY <1>4 DEF Draw, Sort, LoadPage, Select, graphVars, Show
  <2>2. QED
    BY <1>3, <2>1, FilesAlone
<1>5. ASSUME NEW i \in Ids, ReadFile(i) PROVE FilesInv'
  <2>1. UNCHANGED <<txt, svg, job, doubt>> /\ kind[i] \in FromDisk \cup Code
    BY <1>5 DEF ReadFile, ServeFile
  <2>2. ~Active(i)
    BY <2>1 DEF FilesInv, FromDisk, Versioned, Code
  <2>3. \A j \in Ids : j # i => data'[j] = data[j]
    BY <1>5 DEF ReadFile, GraphTypeOK
  <2>4. QED
    BY <1>3, <2>1, <2>2, <2>3, FilesAlone
<1>6. ASSUME NEW i \in Ids, NEW text \in Logs, BeginWrite(i, text) PROVE FilesInv'
  <2>1. /\ kind[i] = "bootgraph" /\ kind' = kind /\ (doubt' <=> ~Quiet)
        /\ job'[i] = "write" /\ data'[i] = text
        /\ \A j \in Ids : j # i => job'[j] = job[j]
    BY <1>6 DEF BeginWrite, Return, GraphTypeOK
  <2>2. Active(i)' /\ \A j \in Ids : j # i => (Active(j)' <=> Active(j))
    BY <2>1 DEF Active
  <2>3. ~doubt' => \A j \in Ids : Active(j)' => j = i
    BY <2>1, <2>2 DEF Quiet
  <2>4. JobAt(i)'
    BY <2>1 DEF JobAt
  <2>5. ~Quiet'
    BY <2>2 DEF Quiet
  <2>6. \A j \in Ids : Active(j)' => kind'[j] = "bootgraph"
    BY <2>1, <2>2 DEF FilesInv
  <2>7. QED
    BY <2>3, <2>4, <2>5, <2>6 DEF FilesInv, GraphIsOfLog
<1>7. ASSUME NEW i \in Ids, OpenTxt(i) PROVE FilesInv'
  <2>1. /\ job[i] = "write" /\ job'[i] = "opened" /\ txt' = Empty /\ UNCHANGED <<svg, data, kind, doubt>>
        /\ \A j \in Ids : j # i => job'[j] = job[j]
    BY <1>7 DEF OpenTxt, GraphTypeOK, vars, requests
  <2>2. Active(i) /\ Active(i)'
    BY <2>1 DEF Active
  <2>3. ~doubt => JobAt(i)'
    BY <2>1, <2>2 DEF FilesInv, JobAt
  <2>4. QED
    BY <2>1, <2>2, <2>3, JobGoesOn
<1>8. ASSUME NEW i \in Ids, WriteTxt(i) PROVE FilesInv'
  <2>1. /\ job[i] = "opened" /\ job'[i] = "spawned" /\ txt' \in Overwritten(data[i], txt)
        /\ UNCHANGED <<svg, data, kind, doubt>>
        /\ \A j \in Ids : j # i => job'[j] = job[j]
    BY <1>8 DEF WriteTxt, GraphTypeOK, vars, requests
  <2>2. Active(i) /\ Active(i)'
    BY <2>1 DEF Active
  <2>3. ASSUME ~doubt PROVE JobAt(i)'
    <3>1. data[i] \in Logs /\ txt = Empty
      BY <2>1, <2>2, <2>3 DEF FilesInv, JobAt
    <3>2. txt' = data[i]
      BY <2>1, <3>1 DEF Overwritten
    <3>3. QED
      BY <2>1, <3>1, <3>2 DEF JobAt
  <2>4. QED
    BY <2>1, <2>2, <2>3, JobGoesOn
<1>9. ASSUME NEW i \in Ids, OpenSvg(i) PROVE FilesInv'
  <2>1. /\ \/ job[i] = "spawned" /\ job'[i] = "piped"
           \/ job[i] = "catted" /\ job'[i] = "read"
        /\ svg' = Empty /\ UNCHANGED <<txt, data, kind, doubt>>
        /\ \A j \in Ids : j # i => job'[j] = job[j]
    BY <1>9 DEF OpenSvg, GraphTypeOK, vars, requests
  <2>2. Active(i) /\ Active(i)'
    BY <2>1 DEF Active
  <2>3. ~doubt => JobAt(i)'
    BY <2>1, <2>2 DEF FilesInv, JobAt
  <2>4. QED
    BY <2>1, <2>2, <2>3, JobGoesOn
<1>10. ASSUME NEW i \in Ids, Cat(i) PROVE FilesInv'
  <2>1. /\ \/ job[i] = "spawned" /\ job'[i] = "catted"
           \/ job[i] = "piped" /\ job'[i] = "read"
        /\ data'[i] = txt /\ UNCHANGED <<txt, svg, kind, doubt>>
        /\ \A j \in Ids : j # i => job'[j] = job[j]
    BY <1>10 DEF Cat, GraphTypeOK, vars, requests
  <2>2. Active(i) /\ Active(i)'
    BY <2>1 DEF Active
  <2>3. ~doubt => JobAt(i)'
    BY <2>1, <2>2 DEF FilesInv, JobAt
  <2>4. QED
    BY <2>1, <2>2, <2>3, JobGoesOn
<1>11. ASSUME NEW i \in Ids, DrawSvg(i) PROVE FilesInv'
  <2>1. /\ job[i] = "read" /\ job'[i] = "over" /\ UNCHANGED <<txt, data, kind, doubt>>
        /\ svg' \in IF svg \in {Empty, data[i]} THEN {data[i]} ELSE {data[i], Mixed}
        /\ \A j \in Ids : j # i => job'[j] = job[j]
    BY <1>11 DEF DrawSvg, GraphTypeOK, vars, requests
  <2>2. Active(i) /\ ~Active(i)' /\ \A j \in Ids : Active(j)' => Active(j) /\ j # i
    BY <2>1 DEF Active
  <2>3. ASSUME ~doubt
        PROVE  (\A j \in Ids : ~Active(j)') /\ txt' \in Logs /\ svg' = txt'
    <3>1. txt \in Logs /\ data[i] = txt /\ svg = Empty
      BY <2>1, <2>2, <2>3 DEF FilesInv, JobAt
    <3>2. QED
      BY <2>1, <2>2, <2>3, <3>1 DEF FilesInv
  <2>4. QED
    BY <2>1, <2>2, <2>3 DEF FilesInv, GraphIsOfLog
<1>12. ASSUME NEW i \in Ids, WriteFails(i) \/ DrawFails(i) PROVE FilesInv'
  <2>1. /\ doubt' /\ kind' = kind /\ job'[i] = "over"
        /\ \A j \in Ids : j # i => job'[j] = job[j]
    BY <1>12 DEF WriteFails, DrawFails, GraphTypeOK, vars, requests
  <2>2. \A j \in Ids : Active(j)' => Active(j)
    BY <2>1 DEF Active
  <2>3. QED
    BY <2>1, <2>2 DEF FilesInv, GraphIsOfLog
<1>13. ASSUME NEW i \in Ids, ServerDies(i) PROVE FilesInv'
  <2>1. /\ UNCHANGED <<txt, svg, data, kind>>
        /\ doubt' <=> doubt \/ \E j \in Ids : job[j] \in {"write", "opened"}
        /\ \A j \in Ids : job'[j] = IF job[j] \in {"write", "opened"} THEN "over" ELSE job[j]
    BY <1>13 DEF ServerDies, ErrorThrown
  <2>2. CASE doubt'
    <3>1. \A j \in Ids : Active(j)' => Active(j)
      BY <2>1 DEF Active
    <3>2. QED
      BY <2>1, <2>2, <3>1 DEF FilesInv, GraphIsOfLog
  <2>3. CASE ~doubt'
    <3>1. ~doubt /\ \A j \in Ids : job'[j] = job[j]
      BY <2>1, <2>3
    <3>2. QED
      BY <2>1, <2>3, <3>1, FilesAlone
  <2>4. QED
    BY <2>2, <2>3
<1>14. QED
  BY <1>4, <1>5, <1>6, <1>7, <1>8, <1>9, <1>10, <1>11, <1>12, <1>13 DEF GraphNext

-----------------------------------------------------------------------------
(* The charts.                                                             *)

\* A request for one of the two files whose answer is under way.
Reading(i) == kind[i] \in FromDisk \ Versioned /\ conn[i] = "open"

\* A request for a chart of registered versions whose answer will be drawn.
Rival(i) == kind[i] \in Versioned /\ conn[i] \in {"queued", "open"}

\* As long as no job has begun, all that was read is the log of the file, and
\* nothing else will be drawn.
ChartsInv ==
    steady =>
        /\ Quiet /\ ~doubt
        /\ \A i \in Ids : Reading(i) => data[i] = txt
        /\ \A i \in Ids : ~Rival(i)
        /\ graph \in {Blank, txt}
        /\ rows \in {Blank, txt}

\* A step that hands out no file, and asks for none of registered versions.
NoFileStep ==
    \/ FanClick \/ Poll \/ AskInfo \/ AskCharts \/ Reload \/ Restart
    \/ \E k \in Kinds : (AskOf(k) /\ k \in Code) \/ AskElsewhere(k)
    \/ \E i \in Ids :
          \/ Forward(i) \/ Deliver(i) \/ Forget(i) \/ Refused(i) \/ Drop(i)
          \/ Return(i) \/ ErrorThrown(i) \/ Handle(i) \/ Vanish(i)
          \/ \E c \in {"over", "adrift"} : ErrorLogged(i, c)
    \/ UNCHANGED vars

\* Only ReadFile begins to read, and only Select and Sort ask for a rival.
LEMMA ReadingStarts ==
    ASSUME Shapes, NoFileStep
    PROVE  \A j \in Ids : (Reading(j)' => Reading(j)) /\ (Rival(j)' => Rival(j))
<1> DEFINE Fewer == \A j \in Ids : (Reading(j)' => Reading(j)) /\ (Rival(j)' => Rival(j))
<1> USE DEF requests
<1>1. ASSUME kind' = kind,
             \A j \in Ids : /\ conn'[j] = "open" =>
                                 conn[j] = "open" \/ (conn[j] = "queued" /\ kind[j] \notin FromDisk)
                            /\ conn'[j] = "queued" => conn[j] = "queued"
      PROVE  Fewer
  BY <1>1, KindsApart DEF Reading, Rival
<1>2. ASSUME NEW i \in Ids, Forward(i) PROVE Fewer
  <2>1. conn[i] = "queued" /\ kind[i] \notin FromDisk
    BY <1>2, KindsApart DEF Forward, HasConnection, InTurn
  <2>2. kind' = kind /\ \A j \in Ids : conn'[j] = IF j = i THEN "open" ELSE conn[j]
    BY <1>2 DEF Forward, Shapes
  <2>3. QED
    BY <1>1, <2>1, <2>2
<1>3. ASSUME NEW i \in Ids, \/ Deliver(i) \/ Forget(i) \/ Refused(i) \/ Drop(i) \/ Return(i)
                            \/ ErrorThrown(i) \/ Handle(i) \/ Vanish(i)
                            \/ \E c \in {"over", "adrift"} : ErrorLogged(i, c)
      PROVE  Fewer
  <2>1. kind' = kind
    BY <1>3 DEF Deliver, Forget, Refused, Drop, Return, ErrorThrown, Handle, Vanish, ErrorLogged
  <2>2. \A j \in Ids : conn'[j] \in {conn[j], "closed"}
    BY <1>3 DEF Deliver, Forget, Refused, Drop, Return, ErrorThrown, Handle, Vanish, ErrorLogged,
                Shapes
  <2>3. QED
    BY <1>1, <2>1, <2>2
<1>4. ASSUME NEW k, Queue(k), k \notin Versioned PROVE Fewer
  <2>1. \A j \in Ids : /\ j = next => kind'[j] = k /\ conn'[j] = "queued"
                       /\ j # next => conn'[j] = conn[j] /\ kind'[j] = kind[j]
    BY <1>4 DEF Queue, Shapes
  <2>2. QED
    BY <1>4, <2>1 DEF Reading, Rival
<1>5. CASE AskCharts
  <2>1. \A j \in Ids : /\ j \in {next, next + 1} => conn'[j] = "queued" /\ kind'[j] \notin Versioned
                       /\ j \notin {next, next + 1} => conn'[j] = conn[j] /\ kind'[j] = kind[j]
    BY <1>5 DEF AskCharts, Shapes, Versioned
  <2>2. QED
    BY <2>1 DEF Reading, Rival
<1>6. ASSUME NEW k \in Kinds, AskElsewhere(k) PROVE Fewer
  <2>1. \A j \in Ids : /\ j = next => conn'[j] = "other"
                       /\ j # next => conn'[j] = conn[j] /\ kind'[j] = kind[j]
    BY <1>6 DEF AskElsewhere, Shapes
  <2>2. QED
    BY <2>1 DEF Reading, Rival
<1>7. CASE Reload
  <2>1. kind' = kind /\ \A j \in Ids : conn'[j] \in {conn[j], "closed"}
    BY <1>7 DEF Reload, Shapes
  <2>2. QED
    BY <1>1, <2>1
<1>8. CASE Restart \/ UNCHANGED vars
  BY <1>1, <1>8 DEF Restart, vars
<1>9. CASE FanClick \/ Poll \/ AskInfo \/ \E k \in Kinds : AskOf(k) /\ k \in Code
  <2>1. \E k : Queue(k) /\ k \notin Versioned
    BY <1>9 DEF FanClick, Poll, AskInfo, AskOf, Code, Versioned
  <2>2. QED
    BY <1>4, <2>1
<1>10. QED
  BY <1>2, <1>3, <1>5, <1>6, <1>7, <1>8, <1>9 DEF NoFileStep

LEMMA ChartsStep ==
    Shapes /\ GraphTypeOK /\ FilesInv /\ ChartsInv /\ [GraphNext]_<<vars, graphVars>> => ChartsInv'
<1> SUFFICES ASSUME Shapes, GraphTypeOK, FilesInv, ChartsInv, [GraphNext]_<<vars, graphVars>>,
                    steady'
             PROVE  ChartsInv'
  BY DEF ChartsInv
<1> USE DEF files, charts
<1>2. CASE Draw
  <2>1. /\ UNCHANGED <<txt, job, doubt>> /\ graph' = Blank /\ rows' = Blank
        /\ Quiet /\ ~doubt
        /\ \A i \in Ids : ~Expected(i)
    BY <1>2 DEF Draw
  <2>2. NoFileStep
    BY <1>2 DEF Draw, NoFileStep
  <2>3. \A i \in Ids : ~Reading(i) /\ ~Rival(i)
    BY <2>1, KindsApart DEF Expected, Reading, Rival
  <2>4. \A i \in Ids : ~Reading(i)' /\ ~Rival(i)'
    BY <2>2, <2>3, ReadingStarts
  <2>5. Quiet'
    BY <2>1 DEF Quiet, Active
  <2>6. QED
    BY <2>1, <2>4, <2>5 DEF ChartsInv
<1>3. CASE ~Draw
  <2>1. steady /\ ~Sort
    BY <1>3 DEF GraphNext, LoadPage, BeginWrite, OpenTxt, WriteTxt, WriteFails, OpenSvg, Cat,
                DrawSvg, DrawFails, ServerDies, ReadFile, Show, Select, Sort, graphVars
  <2>2. /\ Quiet /\ ~doubt
        /\ \A i \in Ids : (Reading(i) => data[i] = txt) /\ ~Rival(i)
        /\ graph \in {Blank, txt} /\ rows \in {Blank, txt}
    BY <2>1 DEF ChartsInv
  <2>3. txt \in Logs /\ svg = txt
    BY <2>2 DEF FilesInv, GraphIsOfLog
  <2>4. \A i \in Ids : job[i] \in {"none", "over"}
    BY <2>2 DEF Quiet, Active
  <2>5. ASSUME NEW i \in Ids, ReadFile(i) PROVE ChartsInv'
    <3>1. /\ UNCHANGED <<txt, job, graph, rows, doubt, kind>> /\ conn[i] = "queued"
          /\ kind[i] \in FromDisk \ Versioned => data'[i] = txt
          /\ \A j \in Ids : j # i => data'[j] = data[j] /\ conn'[j] = conn[j]
      <4>1. /\ UNCHANGED <<txt, job, graph, rows, doubt, kind>> /\ conn[i] = "queued"
            /\ \A j \in Ids : j # i => data'[j] = data[j] /\ conn'[j] = conn[j]
        BY <2>5 DEF ReadFile, ServeFile, HasConnection, InTurn, GraphTypeOK, Shapes
      <4>2. ASSUME kind[i] \in FromDisk \ Versioned PROVE data'[i] = txt
        <5>1. kind[i] \in {"bootgraph/current", "bootgraph/cur_dmesg"}
          BY <4>2 DEF FromDisk
        <5>2. QED
          BY <2>3, <2>5, <5>1 DEF ReadFile, GraphTypeOK
      <4>3. QED
        BY <4>1, <4>2
    <3>2. Quiet' /\ ~doubt'
      BY <2>2, <3>1 DEF Quiet, Active
    <3>3. \A j \in Ids : (Reading(j)' => data'[j] = txt) /\ ~Rival(j)'
      BY <2>2, <3>1 DEF Reading, Rival
    <3>4. QED
      BY <2>2, <3>1, <3>2, <3>3 DEF ChartsInv
  <2>6. ASSUME NEW i \in Ids, Show(i) PROVE ChartsInv'
    <3>1. /\ UNCHANGED <<txt, job, data, doubt>> /\ conn[i] = "open"
          /\ kind[i] \notin Versioned
      BY <2>2, <2>6 DEF Show, Deliver, Rival
    <3>2. graph' \in {Blank, txt} /\ rows' \in {Blank, txt}
      <4>1. CASE kind[i] \in FromDisk
        <5>1. data[i] = txt
          BY <2>2, <3>1, <4>1 DEF Reading
        <5>2. kind[i] # "bootgraph/kernel" /\ kind[i] # "device_driver_info"
          BY <3>1 DEF Versioned
        <5>3. QED
          BY <2>2, <2>6, <5>1, <5>2 DEF Show
      <4>2. CASE kind[i] \notin FromDisk
        BY <2>2, <2>6, <4>2 DEF Show, FromDisk, Versioned
      <4>3. QED
        BY <4>1, <4>2
    <3>3. NoFileStep
      BY <2>6 DEF Show, NoFileStep
    <3>4. \A j \in Ids : (Reading(j)' => Reading(j)) /\ (Rival(j)' => Rival(j))
      BY <3>3, ReadingStarts
    <3>5. Quiet' /\ ~doubt'
      BY <2>2, <3>1 DEF Quiet, Active
    <3>6. QED
      BY <2>2, <3>1, <3>2, <3>4, <3>5 DEF ChartsInv
  <2>7. ASSUME UNCHANGED <<txt, data, doubt>>, \A i \in Ids : job'[i] = job[i],
               graph' \in {Blank, graph}, rows' \in {Blank, rows}, NoFileStep
        PROVE  ChartsInv'
    <3>1. \A j \in Ids : (Reading(j)' => Reading(j)) /\ (Rival(j)' => Rival(j))
      BY <2>7, ReadingStarts
    <3>2. Quiet' /\ ~doubt'
      BY <2>2, <2>7 DEF Quiet, Active
    <3>3. QED
      BY <2>2, <2>7, <3>1, <3>2 DEF ChartsInv
  <2>8. CASE LoadPage
    <3>1. NoFileStep
      BY <2>8 DEF LoadPage, NoFileStep
    <3>2. QED
      BY <2>7, <2>8, <3>1 DEF LoadPage
  <2>9. ASSUME NEW i \in Ids, ServerDies(i) PROVE ChartsInv'
    <3>1. NoFileStep
      BY <2>9 DEF ServerDies, NoFileStep
    <3>2. UNCHANGED <<txt, data, graph, rows>> /\ \A j \in Ids : job'[j] = job[j]
      BY <2>4, <2>9 DEF ServerDies
    <3>3. doubt' <=> doubt
      BY <2>4, <2>9 DEF ServerDies
    <3>4. \A j \in Ids : (Reading(j)' => Reading(j)) /\ (Rival(j)' => Rival(j))
      BY <3>1, ReadingStarts
    <3>5. Quiet' /\ ~doubt'
      BY <2>2, <3>2, <3>3 DEF Quiet, Active
    <3>6. QED
      BY <2>2, <3>2, <3>4, <3>5 DEF ChartsInv
  <2>10. ASSUME NEW k \in Kinds, Select(k) PROVE ChartsInv'
    <3>1. AskOf(k) /\ k \in Code /\ UNCHANGED <<txt, data, doubt, job, graph, rows>>
      BY <2>10 DEF Select
    <3>2. NoFileStep
      BY <3>1 DEF NoFileStep
    <3>3. QED
      BY <2>7, <3>1, <3>2
  <2>11. CASE UNCHANGED graphVars /\ NoFileStep
    BY <2>7, <2>11 DEF graphVars
  <2>12. \/ LoadPage
         \/ UNCHANGED graphVars /\ NoFileStep
         \/ \E k \in Kinds : Select(k)
         \/ \E i \in Ids : ReadFile(i) \/ Show(i) \/ ServerDies(i)
    <3>1. ~\E i \in Ids, text \in Logs : BeginWrite(i, text)
      BY DEF BeginWrite
    <3>2. ~\E i \in Ids : \/ OpenTxt(i) \/ WriteTxt(i) \/ WriteFails(i) \/ OpenSvg(i)
                          \/ Cat(i) \/ DrawSvg(i) \/ DrawFails(i)
      BY <2>4 DEF OpenTxt, WriteTxt, WriteFails, OpenSvg, Cat, DrawSvg, DrawFails
    <3>3. UNCHANGED <<vars, graphVars>> => UNCHANGED graphVars /\ NoFileStep
      BY DEF NoFileStep
    <3>4. (/\ \/ FanClick \/ Poll \/ AskInfo \/ Restart
              \/ \E k \in Kinds : AskElsewhere(k)
              \/ \E i \in Ids :
                    \/ Forward(i) \/ Forget(i) \/ Refused(i) \/ Drop(i) \/ Handle(i) \/ Vanish(i)
                    \/ Return(i) /\ kind[i] # "bootgraph"
                    \/ \E c \in {"over", "adrift"} : ErrorLogged(i, c)
           /\ UNCHANGED graphVars) => UNCHANGED graphVars /\ NoFileStep
      BY DEF NoFileStep
    <3>5. QED
      BY <1>3, <2>1, <3>1, <3>2, <3>3, <3>4 DEF GraphNext
  <2>13. QED
    BY <2>5, <2>6, <2>8, <2>9, <2>10, <2>11, <2>12
<1>4. QED
  BY <1>2, <1>3

\* The inductive invariant of the boot graph.
GraphInv == ProxyInv /\ GraphTypeOK /\ FilesInv /\ ChartsInv

LEMMA GraphAlways == GraphSpec => []GraphInv
<1>1. GraphInit => GraphInv
  <2>1. GraphInit => Init /\ ChartsInv
    BY DEF GraphInit, ChartsInv
  <2>2. TypeOK => Shapes
    BY DEF TypeOK, Shapes
  <2>3. QED
    BY <2>1, <2>2, ProxyTypeInit, ProxyInit, GraphTypeInit, FilesInit DEF GraphInv, ProxyInv
<1>2. GraphInv /\ [GraphNext]_<<vars, graphVars>> => GraphInv'
  <2> SUFFICES ASSUME GraphInv, [GraphNext]_<<vars, graphVars>> PROVE GraphInv'
    OBVIOUS
  <2>1. ProxyInv'
    BY GraphStepIsProxyStep, ShapesStep, StagesStep, FanStep DEF GraphInv, ProxyInv
  <2>2. GraphTypeOK' /\ FilesInv'
    BY GraphTypeStep, FilesStep DEF GraphInv, ProxyInv
  <2>3. ChartsInv'
    BY ChartsStep DEF GraphInv, ProxyInv
  <2>4. QED
    BY <2>1, <2>2, <2>3 DEF GraphInv
<1>3. QED
  BY <1>1, <1>2, PTL DEF GraphSpec

\* Type correctness of the files, the jobs and the charts.
THEOREM GraphTypeCorrect == GraphSpec => []GraphTypeOK
<1>1. GraphInv => GraphTypeOK
  BY DEF GraphInv
<1>2. QED
  BY <1>1, GraphAlways, PTL

\* At rest and without a doubt, the graph is of the log beside it, for any
\* number of jobs before.
THEOREM GraphOfLog == GraphSpec => []GraphIsOfLog
<1>1. GraphInv => GraphIsOfLog
  BY DEF GraphInv, FilesInv
<1>2. QED
  BY <1>1, GraphAlways, PTL

\* The two charts of the page agree when they were asked for with no other chart
\* under way, and no job has begun and no version was selected since, for any
\* number of requests and connections.
THEOREM ChartsAlwaysAgree == GraphSpec => []ChartsAgree
<1>1. GraphInv => ChartsAgree
  <2> SUFFICES ASSUME GraphInv, steady, graph # Blank, rows # Blank
               PROVE  graph = rows /\ graph \in Logs
    BY DEF ChartsAgree
  <2>1. graph = txt /\ rows = txt /\ Quiet /\ ~doubt
    BY DEF GraphInv, ChartsInv
  <2>2. QED
    BY <2>1 DEF GraphInv, FilesInv, GraphIsOfLog
<1>2. QED
  BY <1>1, GraphAlways, PTL

-----------------------------------------------------------------------------
(* The boot log: the rows of the parser describe it, for any initcalls,    *)
(* samples and lines.                                                      *)

\* What is being collected describes the block that has not ended.
Collected ==
    /\ Latest(log, "calling", Len(log) + 1, obj.name)
    /\ Latest(log, "MemTotal", Len(log) + 1, obj.mem)
    /\ Measured(log, Len(log) + 1, obj.cpu)
    /\ Before(log, Len(log) + 1, cpu_infos)

-----------------------------------------------------------------------------
(* Types.                                                                  *)

LEMMA UtilisationType ==
    ASSUME NEW new \in Samples, NEW old \in Samples \cup {Undefined}
    PROVE  Utilisation(new, old) \in Int \X Int
<1>1. new[1] \in Int /\ new[2] \in Int
  BY SampleAssumption
<1>2. CASE old = Undefined
  BY <1>2 DEF Utilisation
<1>3. CASE old \in Samples /\ old # Undefined
  <2>1. old[1] \in Int /\ old[2] \in Int
    BY <1>3, SampleAssumption
  <2>2. QED
    BY <1>1, <1>3, <2>1 DEF Utilisation, Fraction
<1>4. QED
  BY <1>2, <1>3

\* What a line of each kind carries.
LEMMA LineArgs ==
    ASSUME NEW x \in Lines
    PROVE  /\ x.is \in {"calling", "initcall"} => x.arg \in Names
           /\ x.is = "nice" => x.arg \in Samples
           /\ x.is = "MemTotal" => x.arg \in Memory
           /\ x.is \in {"calling", "initcall", "nice", "MemTotal", "other"}
BY DEF Lines

LEMMA LogTypeStep == LogTypeOK /\ [LogNext]_logVars => LogTypeOK'
<1> SUFFICES ASSUME LogTypeOK, [LogNext]_logVars PROVE LogTypeOK'
  OBVIOUS
<1>1. ASSUME NEW x \in Lines, Skip(x) \/ Calling(x) \/ MemTotal(x) \/ Nice(x) \/ Initcall(x)
      PROVE  LogTypeOK'
  <2>1. log' \in Seq(Lines)
    <3>1. log' = Append(log, x)
      BY <1>1 DEF Skip, Calling, MemTotal, Nice, Initcall, Read
    <3>2. QED
      BY <3>1 DEF LogTypeOK
  <2>2. CASE Skip(x)
    BY <2>1, <2>2 DEF LogTypeOK, Skip
  <2>3. CASE Calling(x)
    <3>1. obj' \in Rows
      BY <2>3, LineArgs DEF LogTypeOK, Calling, Rows
    <3>2. QED
      BY <2>1, <2>3, <3>1 DEF LogTypeOK, Calling
  <2>4. CASE MemTotal(x)
    <3>1. obj' \in Rows
      BY <2>4, LineArgs DEF LogTypeOK, MemTotal, Rows
    <3>2. QED
      BY <2>1, <2>4, <3>1 DEF LogTypeOK, MemTotal
  <2>5. CASE Nice(x)
    <3>1. x.arg \in Samples
      BY <2>5, LineArgs DEF Nice
    <3>2. Utilisation(x.arg, cpu_infos) \in Int \X Int
      BY <3>1, UtilisationType DEF LogTypeOK
    <3>3. obj' \in Rows
      BY <2>5, <3>2 DEF LogTypeOK, Nice, Rows
    <3>4. QED
      BY <2>1, <2>5, <3>1, <3>3 DEF LogTypeOK, Nice
  <2>6. CASE Initcall(x)
    <3>1. [obj EXCEPT !.ends = x.arg] \in Rows /\ NewObject \in Rows
      BY <2>6, LineArgs DEF LogTypeOK, Initcall, Rows, NewObject
    <3>2. Len(log) + 1 \in Nat
      BY DEF LogTypeOK
    <3>3. info_array' \in Seq(Rows) /\ at' \in Seq(Nat) /\ Len(at') = Len(info_array')
      BY <2>6, <3>1, <3>2 DEF LogTypeOK, Initcall
    <3>4. QED
      BY <2>1, <2>6, <3>1, <3>3 DEF LogTypeOK, Initcall
  <2>7. QED
    BY <1>1, <2>2, <2>3, <2>4, <2>5, <2>6
<1>2. CASE UNCHANGED logVars
  BY <1>2 DEF LogTypeOK, logVars
<1>3. QED
  BY <1>1, <1>2 DEF LogNext

LEMMA LogTypeInit == LogInit => LogTypeOK
BY DEF LogInit, LogTypeOK, NewObject, Rows

\* Type correctness of the parser, for any log.
THEOREM ParserTypeCorrect == LogSpec => []LogTypeOK
BY LogTypeInit, LogTypeStep, PTL DEF LogSpec

-----------------------------------------------------------------------------
(* A line behind position p changes nothing that is said of p.             *)

LEMMA SameFound ==
    ASSUME NEW l, NEW m, NEW k, NEW p \in Nat, NEW q,
           \A r \in 1..(p - 1) : l[r] = m[r], Found(l, k, q, p)
    PROVE  Found(m, k, q, p)
BY DEF Found

LEMMA SameMissing ==
    ASSUME NEW l, NEW m, NEW k, NEW p \in Nat,
           \A r \in 1..(p - 1) : l[r] = m[r], Missing(l, k, p)
    PROVE  Missing(m, k, p)
BY DEF Missing

LEMMA SameLatest ==
    ASSUME NEW l, NEW m, NEW k, NEW p \in Nat, NEW v,
           \A r \in 1..(p - 1) : l[r] = m[r], Latest(l, k, p, v)
    PROVE  Latest(m, k, p, v)
BY SameFound, SameMissing DEF Latest

LEMMA SameBefore ==
    ASSUME NEW l, NEW m, NEW p \in Nat, NEW s,
           \A r \in 1..(p - 1) : l[r] = m[r], Before(l, p, s)
    PROVE  Before(m, p, s)
BY DEF Before

LEMMA SameMeasured ==
    ASSUME NEW l, NEW m, NEW p \in Nat, NEW v,
           \A r \in 1..(p - 1) : l[r] = m[r], Measured(l, p, v)
    PROVE  Measured(m, p, v)
<1>1. CASE Missing(l, "nice", p) /\ v = Undefined
  BY <1>1, SameMissing DEF Measured
<1>2. CASE \E q \in 1..(p - 1) : \E s \in Samples \cup {Undefined} :
               Found(l, "nice", q, p) /\ Before(l, q, s) /\ v = Utilisation(l[q].arg, s)
  <2>1. PICK q \in 1..(p - 1), s \in Samples \cup {Undefined} :
               Found(l, "nice", q, p) /\ Before(l, q, s) /\ v = Utilisation(l[q].arg, s)
    BY <1>2
  <2>2. q \in Nat /\ \A r \in 1..(q - 1) : l[r] = m[r]
    OBVIOUS
  <2>3. Found(m, "nice", q, p)
    BY <2>1, SameFound
  <2>4. Before(m, q, s)
    BY <2>1, <2>2, SameBefore
  <2>5. l[q] = m[q]
    OBVIOUS
  <2>6. QED
    BY <2>1, <2>3, <2>4, <2>5 DEF Measured
<1>3. QED
  BY <1>1, <1>2 DEF Measured

-----------------------------------------------------------------------------
(* The block that has not ended, with one line more.                       *)

LEMMA MoreLatest ==
    ASSUME NEW l \in Seq(Lines), NEW x \in Lines, NEW k \in {"calling", "MemTotal"}, NEW v,
           Latest(l, k, Len(l) + 1, v)
    PROVE  LET m == Append(l, x)
               p == Len(l) + 2
           IN  /\ x.is \notin {k, "initcall"} => Latest(m, k, p, v)
               /\ x.is = k => Latest(m, k, p, x.arg)
               /\ x.is = "initcall" => Latest(m, k, p, Undefined)
<1> DEFINE m == Append(l, x)
           n == Len(l)
<1>1. n \in Nat /\ m[n + 1] = x /\ \A r \in 1..n : m[r] = l[r]
  OBVIOUS
<1>same. n + 1 \in Nat /\ \A r \in 1..((n + 1) - 1) : l[r] = m[r]
  BY <1>1
<1> HIDE DEF m
<1>2. Latest(m, k, n + 1, v)
  BY <1>same, SameLatest
<1> HIDE DEF n
<1>3. ASSUME x.is \notin {k, "initcall"} PROVE Latest(m, k, n + 2, v)
  BY <1>1, <1>2, <1>3 DEF Latest, Found, Missing
<1>4. ASSUME x.is = k PROVE Latest(m, k, n + 2, x.arg)
  BY <1>1, <1>4 DEF Latest, Found
<1>5. ASSUME x.is = "initcall" PROVE Latest(m, k, n + 2, Undefined)
  BY <1>1, <1>5 DEF Latest, Missing
<1>6. QED
  BY <1>3, <1>4, <1>5 DEF m, n

LEMMA MoreBefore ==
    ASSUME NEW l \in Seq(Lines), NEW x \in Lines, NEW s, Before(l, Len(l) + 1, s)
    PROVE  LET m == Append(l, x)
               p == Len(l) + 2
           IN  /\ x.is # "nice" => Before(m, p, s)
               /\ x.is = "nice" => Before(m, p, x.arg)
<1> DEFINE m == Append(l, x)
           n == Len(l)
<1>1. n \in Nat /\ m[n + 1] = x /\ \A r \in 1..n : m[r] = l[r]
  OBVIOUS
<1>same. n + 1 \in Nat /\ \A r \in 1..((n + 1) - 1) : l[r] = m[r]
  BY <1>1
<1> HIDE DEF m
<1>2. Before(m, n + 1, s)
  BY <1>same, SameBefore
<1> HIDE DEF n
<1>3. ASSUME x.is # "nice" PROVE Before(m, n + 2, s)
  BY <1>1, <1>2, <1>3 DEF Before
<1>4. ASSUME x.is = "nice" PROVE Before(m, n + 2, x.arg)
  BY <1>1, <1>4 DEF Before
<1>5. QED
  BY <1>3, <1>4 DEF m, n

LEMMA MoreMeasured ==
    ASSUME NEW l \in Seq(Lines), NEW x \in Lines, NEW v, NEW s \in Samples \cup {Undefined},
           Measured(l, Len(l) + 1, v), Before(l, Len(l) + 1, s)
    PROVE  LET m == Append(l, x)
               p == Len(l) + 2
           IN  /\ x.is \notin {"nice", "initcall"} => Measured(m, p, v)
               /\ x.is = "nice" => Measured(m, p, Utilisation(x.arg, s))
               /\ x.is = "initcall" => Measured(m, p, Undefined)
<1> DEFINE m == Append(l, x)
           n == Len(l)
<1>1. n \in Nat /\ m[n + 1] = x /\ \A r \in 1..n : m[r] = l[r]
  OBVIOUS
<1>same. n + 1 \in Nat /\ \A r \in 1..((n + 1) - 1) : l[r] = m[r]
  BY <1>1
<1> HIDE DEF m
<1>2. Measured(m, n + 1, v) /\ Before(m, n + 1, s)
  BY <1>same, SameMeasured, SameBefore
<1> HIDE DEF n
<1>3. ASSUME x.is \notin {"nice", "initcall"} PROVE Measured(m, n + 2, v)
  <2>1. \A q : Found(m, "nice", q, n + 1) => Found(m, "nice", q, n + 2)
    BY <1>1, <1>3 DEF Found
  <2>2. Missing(m, "nice", n + 1) => Missing(m, "nice", n + 2)
    BY <1>1, <1>3 DEF Missing
  <2>3. \A q \in 1..((n + 1) - 1) : q \in 1..((n + 2) - 1)
    BY <1>1
  <2>4. QED
    BY <1>2, <2>1, <2>2, <2>3 DEF Measured
<1>4. ASSUME x.is = "nice" PROVE Measured(m, n + 2, Utilisation(x.arg, s))
  <2>1. Found(m, "nice", n + 1, n + 2) /\ n + 1 \in 1..((n + 2) - 1)
    BY <1>1, <1>4 DEF Found
  <2>2. QED
    BY <1>1, <1>2, <2>1 DEF Measured
<1>5. ASSUME x.is = "initcall" PROVE Measured(m, n + 2, Undefined)
  BY <1>1, <1>5 DEF Measured, Missing
<1>6. QED
  BY <1>3, <1>4, <1>5 DEF m, n

-----------------------------------------------------------------------------
(* The invariant.                                                          *)

LEMMA CollectedInit == LogInit => Collected
<1> SUFFICES ASSUME LogInit PROVE Collected
  OBVIOUS
<1>1. Len(log) + 1 = 1 /\ obj = NewObject /\ cpu_infos = Undefined
  BY DEF LogInit
<1>2. \A k : Missing(log, k, 1)
  BY DEF Missing
<1>3. Before(log, 1, Undefined)
  BY DEF Before
<1>4. QED
  BY <1>1, <1>2, <1>3 DEF Collected, Latest, Measured, NewObject

LEMMA CollectedStep == LogTypeOK /\ Collected /\ [LogNext]_logVars => Collected'
<1> SUFFICES ASSUME LogTypeOK, Collected, [LogNext]_logVars PROVE Collected'
  OBVIOUS
<1>1. ASSUME NEW x \in Lines, Skip(x) \/ Calling(x) \/ MemTotal(x) \/ Nice(x) \/ Initcall(x)
      PROVE  Collected'
  <2> DEFINE m == Append(log, x)
             p == Len(log) + 2
  <2>1. log' = m
    BY <1>1 DEF Skip, Calling, MemTotal, Nice, Initcall, Read
  <2>2. Len(log') + 1 = p
    BY <2>1 DEF LogTypeOK
  <2>3. log \in Seq(Lines) /\ cpu_infos \in Samples \cup {Undefined} /\ obj \in Rows
    BY DEF LogTypeOK
  <2>4. /\ x.is \notin {"calling", "initcall"} => Latest(m, "calling", p, obj.name)
        /\ x.is = "calling" => Latest(m, "calling", p, x.arg)
        /\ x.is = "initcall" => Latest(m, "calling", p, Undefined)
    BY <2>3, MoreLatest DEF Collected
  <2>5. /\ x.is \notin {"MemTotal", "initcall"} => Latest(m, "MemTotal", p, obj.mem)
        /\ x.is = "MemTotal" => Latest(m, "MemTotal", p, x.arg)
        /\ x.is = "initcall" => Latest(m, "MemTotal", p, Undefined)
    BY <2>3, MoreLatest DEF Collected
  <2>6. /\ x.is \notin {"nice", "initcall"} => Measured(m, p, obj.cpu)
        /\ x.is = "nice" => Measured(m, p, Utilisation(x.arg, cpu_infos))
        /\ x.is = "initcall" => Measured(m, p, Undefined)
    BY <2>3, MoreMeasured DEF Collected
  <2>7. /\ x.is # "nice" => Before(m, p, cpu_infos)
        /\ x.is = "nice" => Before(m, p, x.arg)
    BY <2>3, MoreBefore DEF Collected
  <2> HIDE DEF m, p
  <2>8. SUFFICES /\ Latest(m, "calling", p, obj'.name)
                 /\ Latest(m, "MemTotal", p, obj'.mem)
                 /\ Measured(m, p, obj'.cpu)
                 /\ Before(m, p, cpu_infos')
    BY <2>1, <2>2 DEF Collected
  <2>9. CASE Skip(x)
    BY <2>9, <2>4, <2>5, <2>6, <2>7 DEF Skip
  <2>10. CASE Calling(x)
    <3>1. obj'.name = x.arg /\ obj'.mem = obj.mem /\ obj'.cpu = obj.cpu
      BY <2>3, <2>10 DEF Calling, Rows
    <3>2. QED
      BY <2>10, <3>1, <2>4, <2>5, <2>6, <2>7 DEF Calling
  <2>11. CASE MemTotal(x)
    <3>1. obj'.name = obj.name /\ obj'.mem = x.arg /\ obj'.cpu = obj.cpu
      BY <2>3, <2>11 DEF MemTotal, Rows
    <3>2. QED
      BY <2>11, <3>1, <2>4, <2>5, <2>6, <2>7 DEF MemTotal
  <2>12. CASE Nice(x)
    <3>1. /\ obj'.name = obj.name /\ obj'.mem = obj.mem
          /\ obj'.cpu = Utilisation(x.arg, cpu_infos) /\ cpu_infos' = x.arg
      BY <2>3, <2>12 DEF Nice, Rows
    <3>2. QED
      BY <2>12, <3>1, <2>4, <2>5, <2>6, <2>7 DEF Nice
  <2>13. CASE Initcall(x)
    <3>1. obj'.name = Undefined /\ obj'.mem = Undefined /\ obj'.cpu = Undefined
      BY <2>13 DEF Initcall, NewObject
    <3>2. QED
      BY <2>13, <3>1, <2>4, <2>5, <2>6, <2>7 DEF Initcall
  <2>14. QED
    BY <1>1, <2>9, <2>10, <2>11, <2>12, <2>13
<1>2. CASE UNCHANGED logVars
  BY <1>2 DEF Collected, logVars
<1>3. QED
  BY <1>1, <1>2 DEF LogNext

\* One row of the table is that of line p.
RowOf(l, p, row) ==
    /\ p \in 1..Len(l)
    /\ l[p].is = "initcall"
    /\ row.ends = l[p].arg
    /\ Latest(l, "calling", p, row.name)
    /\ Latest(l, "MemTotal", p, row.mem)
    /\ Measured(l, p, row.cpu)

\* A row that has been pushed keeps its meaning when the log grows.
LEMMA RowStays ==
    ASSUME NEW l \in Seq(Lines), NEW x \in Lines, NEW p, NEW row, RowOf(l, p, row)
    PROVE  RowOf(Append(l, x), p, row)
<1> DEFINE m == Append(l, x)
<1>1. p \in Nat /\ p \in 1..Len(l) /\ p \in 1..Len(m) /\ m[p] = l[p]
  BY DEF RowOf
<1>2. \A r \in 1..(p - 1) : l[r] = m[r]
  BY <1>1
<1> HIDE DEF m
<1>3. Latest(m, "calling", p, row.name) /\ Latest(m, "MemTotal", p, row.mem)
  BY <1>1, <1>2, SameLatest DEF RowOf
<1>4. Measured(m, p, row.cpu)
  BY <1>1, <1>2, SameMeasured DEF RowOf
<1>5. RowOf(m, p, row)
  BY <1>1, <1>3, <1>4 DEF RowOf
<1>6. QED
  BY <1>5 DEF m

LEMMA RowsStep == LogTypeOK /\ Collected /\ RowsMatchLog /\ [LogNext]_logVars => RowsMatchLog'
<1> SUFFICES ASSUME LogTypeOK, Collected, RowsMatchLog, [LogNext]_logVars PROVE RowsMatchLog'
  OBVIOUS
<1> DEFINE Ended(l, a) == \A p \in 1..Len(l) : l[p].is = "initcall" => \E k \in 1..Len(a) : a[k] = p
           Sorted(a) == \A j, k \in 1..Len(a) : j < k => a[j] < a[k]
           Meant(l, a, t) == \A k \in 1..Len(a) : RowOf(l, a[k], t[k])
<1>1. RowsMatchLog <=> Ended(log, at) /\ Sorted(at) /\ Meant(log, at, info_array)
  BY DEF RowsMatchLog, RowOf
<1>2. RowsMatchLog' <=> Ended(log', at') /\ Sorted(at') /\ Meant(log', at', info_array')
  BY DEF RowsMatchLog, RowOf
<1>3. ASSUME NEW x \in Lines, Skip(x) \/ Calling(x) \/ MemTotal(x) \/ Nice(x)
      PROVE  RowsMatchLog'
  <2>1. log' = Append(log, x) /\ UNCHANGED <<info_array, at>> /\ x.is # "initcall"
    BY <1>3 DEF Skip, Calling, MemTotal, Nice, Read
  <2>2. Ended(log', at')
    BY <1>1, <2>1 DEF LogTypeOK
  <2>3. Meant(log', at', info_array')
    BY <1>1, <2>1, RowStays DEF LogTypeOK
  <2>4. QED
    BY <1>1, <1>2, <2>1, <2>2, <2>3
<1>4. ASSUME NEW x \in Lines, Initcall(x) PROVE RowsMatchLog'
  <2> DEFINE n == Len(log) + 1
             c == Len(at)
             new == [obj EXCEPT !.ends = x.arg]
  <2>1. /\ log' = Append(log, x) /\ at' = Append(at, n)
        /\ info_array' = Append(info_array, new) /\ x.is = "initcall"
    BY <1>4 DEF Initcall, Read
  <2>2. /\ c \in Nat /\ n \in Nat /\ Len(info_array) = c /\ Len(at') = c + 1
        /\ Len(log') = n /\ log'[n] = x /\ at'[c + 1] = n /\ info_array'[c + 1] = new
        /\ \A k \in 1..c : at'[k] = at[k] /\ info_array'[k] = info_array[k]
        /\ \A r \in 1..(n - 1) : log'[r] = log[r]
    BY <2>1 DEF LogTypeOK
  <2>3. /\ new.ends = x.arg /\ new.name = obj.name
        /\ new.mem = obj.mem /\ new.cpu = obj.cpu
    BY DEF LogTypeOK, Rows
  <2>4. \A k \in 1..c : at[k] \in 1..(n - 1) /\ RowOf(log, at[k], info_array[k])
    BY <1>1, <2>2 DEF RowOf
  <2>5. RowOf(log', n, new)
    <3>1. Latest(log', "calling", n, obj.name) /\ Latest(log', "MemTotal", n, obj.mem)
      BY <2>2, SameLatest DEF Collected
    <3>2. Measured(log', n, obj.cpu)
      BY <2>2, SameMeasured DEF Collected
    <3> HIDE DEF n, new
    <3>3. n \in 1..n
      BY <2>2 DEF n
    <3>4. QED
      BY <2>1, <2>2, <2>3, <3>1, <3>2, <3>3 DEF RowOf
  <2>6. \A k \in 1..c : RowOf(log', at[k], info_array[k])
    <3>1. log \in Seq(Lines)
      BY DEF LogTypeOK
    <3> SUFFICES ASSUME NEW k \in 1..c PROVE RowOf(log', at[k], info_array[k])
      OBVIOUS
    <3>2. RowOf(log, at[k], info_array[k])
      BY <2>4
    <3> HIDE DEF c
    <3>3. QED
      BY <2>1, <3>1, <3>2, RowStays
  <2> HIDE DEF n, c, new
  <2>7. Meant(log', at', info_array')
    BY <2>2, <2>5, <2>6
  <2>8. Sorted(at')
    <3>1. \A j, k \in 1..c : j < k => at[j] < at[k]
      BY <1>1 DEF c
    <3> SUFFICES ASSUME NEW j \in 1..(c + 1), NEW k \in 1..(c + 1), j < k
                 PROVE  at'[j] < at'[k]
      BY <2>2
    <3>2. j \in 1..c /\ at'[j] = at[j] /\ at[j] \in 1..(n - 1)
      BY <2>2, <2>4
    <3>3. CASE k = c + 1
      BY <2>2, <3>2, <3>3
    <3>4. CASE k \in 1..c
      BY <2>2, <3>1, <3>2, <3>4
    <3>5. QED
      BY <2>2, <3>3, <3>4
  <2>9. Ended(log', at')
    <3> SUFFICES ASSUME NEW p \in 1..n, log'[p].is = "initcall"
                 PROVE  \E k \in 1..(c + 1) : at'[k] = p
      BY <2>2
    <3>1. CASE p = n
      BY <2>2, <3>1
    <3>2. CASE p \in 1..(n - 1)
      <4>1. log[p].is = "initcall" /\ p \in 1..Len(log)
        BY <2>2, <3>2 DEF n
      <4>2. PICK k \in 1..c : at[k] = p
        BY <1>1, <4>1 DEF c
      <4>3. QED
        BY <2>2, <4>2
    <3>3. QED
      BY <2>2, <3>1, <3>2
  <2>10. QED
    BY <1>2, <2>7, <2>8, <2>9
<1>5. CASE UNCHANGED logVars
  BY <1>5 DEF RowsMatchLog, logVars
<1>6. QED
  BY <1>3, <1>4, <1>5 DEF LogNext

LEMMA ParserAlways == LogSpec => [](LogTypeOK /\ Collected /\ RowsMatchLog)
<1>1. LogInit => LogTypeOK /\ Collected /\ RowsMatchLog
  <2>1. LogInit => RowsMatchLog
    BY DEF LogInit, RowsMatchLog
  <2>2. QED
    BY <2>1, LogTypeInit, CollectedInit
<1>2. LogTypeOK /\ Collected /\ RowsMatchLog /\ [LogNext]_logVars
        => (LogTypeOK /\ Collected /\ RowsMatchLog)'
  BY LogTypeStep, CollectedStep, RowsStep
<1>3. QED
  BY <1>1, <1>2, PTL DEF LogSpec

\* Every row is of its own block of the log, for every log there can be.
THEOREM RowsAreOfLog == LogSpec => []RowsMatchLog
BY ParserAlways, PTL

-----------------------------------------------------------------------------
(* The utilisation.                                                        *)

\* The busy counters of the log do not fall.
Grows(l) ==
    \A q, r \in 1..Len(l) :
        q < r /\ l[q].is = "nice" /\ l[r].is = "nice" => l[q].arg[1] <= l[r].arg[1]

InRange(u) == u # Undefined => 0 <= u[1] /\ u[1] <= u[2] /\ u[2] > 0

RangeInv ==
    Grows(log) => InRange(obj.cpu) /\ \A k \in 1..Len(info_array) : InRange(info_array[k].cpu)

\* The fraction is in range when the busy time has not fallen.
LEMMA UtilisationRange ==
    ASSUME NEW new \in Samples, NEW old \in Samples \cup {Undefined},
           old # Undefined => old[1] <= new[1]
    PROVE  InRange(Utilisation(new, old))
<1>1. new[1] \in Int /\ new[2] \in Int
  BY SampleAssumption
<1>2. CASE old = Undefined
  BY <1>2 DEF Utilisation, InRange
<1>3. CASE old # Undefined
  <2>1. old[1] \in Int /\ old[2] \in Int /\ old[1] <= new[1]
    BY <1>3, SampleAssumption
  <2> DEFINE busy == new[1] - old[1]
             sum == busy + (new[2] - old[2])
             d == IF sum < 1 THEN 1 ELSE sum
  <2>2. busy \in Int /\ busy >= 0 /\ d \in Int /\ d >= 1
    BY <1>1, <2>1
  <2>3. Utilisation(new, old) = Fraction(busy, d)
    BY <1>3 DEF Utilisation
  <2> HIDE DEF busy, d
  <2>4. QED
    BY <2>2, <2>3 DEF Fraction, InRange
<1>4. QED
  BY <1>2, <1>3

\* A log that grows well has grown well.
LEMMA GrowsBack ==
    ASSUME NEW l \in Seq(Lines), NEW x \in Lines, Grows(Append(l, x))
    PROVE  /\ Grows(l)
           /\ \A q \in 1..Len(l) : l[q].is = "nice" /\ x.is = "nice" => l[q].arg[1] <= x.arg[1]
<1> DEFINE m == Append(l, x)
           n == Len(l)
<1>1. /\ n \in Nat /\ Len(m) = n + 1 /\ m[n + 1] = x
      /\ \A r \in 1..n : m[r] = l[r]
  OBVIOUS
<1> HIDE DEF m
<1>2. Grows(m)
  BY DEF m
<1>3. QED
  BY <1>1, <1>2 DEF Grows

LEMMA RangeStep == LogTypeOK /\ Collected /\ RangeInv /\ [LogNext]_logVars => RangeInv'
<1> SUFFICES ASSUME LogTypeOK, Collected, RangeInv, [LogNext]_logVars, Grows(log')
             PROVE  /\ InRange(obj'.cpu)
                    /\ \A k \in 1..Len(info_array') : InRange(info_array'[k].cpu)
  BY DEF RangeInv, Grows, InRange
<1>1. ASSUME NEW x \in Lines, Skip(x) \/ Calling(x) \/ MemTotal(x) \/ Nice(x) \/ Initcall(x)
      PROVE  /\ InRange(obj'.cpu)
             /\ \A k \in 1..Len(info_array') : InRange(info_array'[k].cpu)
  <2>1. log \in Seq(Lines) /\ log' = Append(log, x) /\ obj \in Rows
    BY <1>1 DEF LogTypeOK, Skip, Calling, MemTotal, Nice, Initcall, Read
  <2>2. /\ Grows(log)
        /\ \A q \in 1..Len(log) :
              log[q].is = "nice" /\ x.is = "nice" => log[q].arg[1] <= x.arg[1]
    BY <2>1, GrowsBack
  <2>3. InRange(obj.cpu) /\ \A k \in 1..Len(info_array) : InRange(info_array[k].cpu)
    BY <2>2 DEF RangeInv
  <2>4. CASE Skip(x) \/ Calling(x) \/ MemTotal(x)
    <3>1. obj'.cpu = obj.cpu /\ info_array' = info_array
      BY <2>1, <2>4 DEF Skip, Calling, MemTotal, Rows
    <3>2. QED
      BY <2>3, <3>1
  <2>5. CASE Nice(x)
    <3>1. x.arg \in Samples /\ x.is = "nice" /\ info_array' = info_array
      BY <2>5, LineArgs DEF Nice
    <3>2. obj'.cpu = Utilisation(x.arg, cpu_infos)
      BY <2>1, <2>5 DEF Nice, Rows
    <3>3. \/ cpu_infos = Undefined
          \/ \E o \in 1..Len(log) : log[o].is = "nice" /\ cpu_infos = log[o].arg
      <4>1. (Len(log) + 1) - 1 = Len(log)
        BY <2>1
      <4>2. QED
        BY <4>1 DEF Collected, Before
    <3>4. cpu_infos # Undefined => cpu_infos[1] <= x.arg[1]
      BY <2>2, <3>1, <3>3
    <3>5. InRange(Utilisation(x.arg, cpu_infos))
      BY <3>1, <3>4, UtilisationRange DEF LogTypeOK
    <3>6. QED
      BY <2>3, <3>1, <3>2, <3>5
  <2>6. CASE Initcall(x)
    <3> DEFINE new == [obj EXCEPT !.ends = x.arg]
    <3>1. obj'.cpu = Undefined
      BY <2>6 DEF Initcall, NewObject
    <3>2. new.cpu = obj.cpu
      BY <2>1 DEF Rows
    <3>3. info_array' = Append(info_array, new) /\ info_array \in Seq(Rows)
      BY <2>6 DEF Initcall, LogTypeOK
    <3>4. new \in Rows
      BY <2>1, <2>6, LineArgs DEF Rows, Initcall
    <3> HIDE DEF new
    <3>5. \A k \in 1..Len(info_array') : InRange(info_array'[k].cpu)
      <4>1. \A k \in 1..Len(info_array') : k \in 1..Len(info_array) \/ k = Len(info_array) + 1
        BY <3>3, <3>4
      <4>2. /\ info_array'[Len(info_array) + 1] = new
            /\ \A k \in 1..Len(info_array) : info_array'[k] = info_array[k]
        BY <3>3, <3>4
      <4>3. QED
        BY <2>3, <3>2, <4>1, <4>2
    <3>6. QED
      BY <3>1, <3>5 DEF InRange
  <2>7. QED
    BY <1>1, <2>4, <2>5, <2>6
<1>2. CASE UNCHANGED logVars
  BY <1>2 DEF logVars, RangeInv
<1>3. QED
  BY <1>1, <1>2 DEF LogNext

\* The utilisation of every row is a number between 0 and 1 for every log
\* whose busy counters do not fall, whatever the idle counters do.
THEOREM UtilisationStaysInRange == LogSpec => []UtilisationInRange
<1>1. LogInit => RangeInv
  BY DEF LogInit, RangeInv, InRange, NewObject
<1>2. RangeInv => UtilisationInRange
  BY DEF RangeInv, UtilisationInRange, Grows, InRange
<1>3. QED
  BY <1>1, <1>2, RangeStep, ParserAlways, PTL DEF LogSpec
=============================================================================
