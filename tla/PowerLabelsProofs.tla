--------------------------- MODULE PowerLabelsProofs ---------------------------
(***************************************************************************)
(* Proofs about PowerLabels for any number of buttons, any length of the   *)
(* array and any number of clicks.                                         *)
(***************************************************************************)
EXTENDS PowerLabels, VersionSelectProofs

\* The type invariant, with the reason why the counter stays in 0..2; and only
\* buttons inside the array are ever selected, so that the click that gives a
\* place back is never a stray one.
IInv ==
    /\ TypeOK
    /\ SelectionInv(sel)
    /\ \A c \in sel.checked : ~Stray(c)
    /\ PlacesAreAccounted
    /\ stray <= sent

\* The type invariant without the Boolean variables.
DataTypes ==
    /\ sel \in Selections
    /\ asks \subseteq Asks
    /\ v1 \in Labels
    /\ v2 \in Labels
    /\ sent \in 0..MaxClicks
    /\ applied \in 0..MaxClicks
    /\ stray \in 0..MaxClicks

\* The page has just been opened.
LEMMA InitInv == Init => IInv
<1> SUFFICES ASSUME Init PROVE IInv
  OBVIOUS
<1>1. SelectionInv(sel) /\ sel \in Selections /\ sel.checked = {} /\ sel.count = 0
  BY NoSelectionInv DEF Init, NoSelection, SelectionInv
<1>2. DataTypes
  BY <1>1, ClickAssumption DEF Init, DataTypes, Labels, Dots
<1>3. ordered \in BOOLEAN /\ dropped \in BOOLEAN
  BY DEF Init
<1>4. TypeOK
  BY <1>2, <1>3 DEF TypeOK, DataTypes
<1> QED
  BY <1>1, <1>4, FS_EmptySet DEF IInv, PlacesAreAccounted, Init

\* One digit of a version's number is a version again.
LEMMA DigitType == \A c \in Versions : Digit(c) \in Versions
BY ListAssumption DEF Digit, Versions

\* A click that is not refused.
LEMMA ClickStep == IInv /\ (\E c \in Versions : Click(c)) => IInv'
<1> SUFFICES ASSUME IInv, NEW c \in Versions, Click(c) PROVE IInv'
  OBVIOUS
<1> DEFINE after == AfterClick(sel, c)
           q == [id |-> sent + 1, click |-> c,
                 s1 |-> Selected1(after), s2 |-> Selected2(after)]
<1>1. /\ sel' = after /\ sent' = sent + 1 /\ sent < MaxClicks
      /\ asks' = asks \cup {q}
      /\ v1' = v1 /\ v2' = v2 /\ applied' = applied /\ ordered' = ordered
  BY DEF Click
<1>2. sent \in 0..MaxClicks /\ stray \in 0..MaxClicks /\ stray <= sent /\ asks \subseteq Asks
  BY DEF IInv, TypeOK
<1>3. /\ SelectionInv(after)
      /\ after.count - Cardinality(after.checked)
           = sel.count - Cardinality(sel.checked)
               + IF c \notin sel.checked /\ Stray(c) THEN 1 ELSE 0
  BY ClickKeepsSelection DEF IInv, Click
<1>4. after.checked \in SUBSET Versions /\ after \in Selections
  BY <1>3 DEF SelectionInv, Selections
<1>5. Selected1(after) \in Versions \cup {Null} /\ Selected2(after) \in Versions \cup {Null}
  BY <1>4, ParamsFacts
<1>6. sent + 1 \in 1..MaxClicks
  BY <1>1, <1>2, ClickAssumption
<1>7. q \in Asks
  BY <1>5, <1>6 DEF Asks
<1>8. \A d \in sel'.checked : ~Stray(d)
  BY <1>1 DEF IInv, AfterClick
<1>9. stray' = stray + IF c \notin sel.checked /\ Stray(c) THEN 1 ELSE 0
  <2>1. Stray(c) => c \notin sel.checked
    BY DEF IInv
  <2>2. stray' = IF Stray(c) THEN stray + 1 ELSE stray
    BY DEF Click
  <2> QED
    BY <1>2, <2>1, <2>2
<1>10. PlacesAreAccounted'
  <2>1. sel.count = Cardinality(sel.checked) + stray
    BY DEF IInv, PlacesAreAccounted
  <2>2. sel.count \in Int /\ Cardinality(sel.checked) \in Int
    BY FS_CardinalityType DEF IInv, SelectionInv, Selections
  <2>3. after.count \in Int /\ Cardinality(after.checked) \in Int
    BY <1>3, FS_CardinalityType DEF SelectionInv, Selections
  <2> HIDE DEF after
  <2>4. after.count = Cardinality(after.checked) + stray'
    BY <1>2, <1>3, <1>9, <2>1, <2>2, <2>3
  <2> QED
    BY <1>1, <2>4 DEF PlacesAreAccounted
<1> HIDE DEF q, after
<1>11. stray' <= sent' /\ stray' \in 0..MaxClicks
  BY <1>1, <1>2, <1>9, ClickAssumption
<1>12. ordered' \in BOOLEAN /\ dropped' \in BOOLEAN
  BY <1>1 DEF Click, IInv, TypeOK
<1>13. DataTypes'
  BY <1>1, <1>4, <1>6, <1>7, <1>11 DEF IInv, TypeOK, DataTypes
<1>14. TypeOK'
  BY <1>12, <1>13 DEF TypeOK, DataTypes
<1> QED
  BY <1>1, <1>3, <1>8, <1>10, <1>11, <1>14 DEF IInv

\* An answer, a failed request, or a step that changes nothing.
LEMMA OtherSteps ==
    IInv /\ ((\E q \in asks : Answer(q) \/ Fail(q)) \/ UNCHANGED vars) => IInv'
<1> SUFFICES ASSUME IInv, (\E q \in asks : Answer(q) \/ Fail(q)) \/ UNCHANGED vars
             PROVE  IInv'
  OBVIOUS
<1>1. /\ sel' = sel /\ sent' = sent /\ stray' = stray /\ dropped' = dropped
      /\ asks' \subseteq asks
  BY DEF Answer, Fail, vars
<1>2. ordered' \in BOOLEAN /\ dropped' \in BOOLEAN
  BY <1>1 DEF Answer, Fail, vars, IInv, TypeOK
<1>3. v1' \in Labels /\ v2' \in Labels /\ applied' \in 0..MaxClicks
  <2>1. v1 \in Labels /\ v2 \in Labels /\ applied \in 0..MaxClicks
    BY DEF IInv, TypeOK
  <2>2. ASSUME NEW q \in asks, Answer(q)
        PROVE  v1' \in Labels /\ v2' \in Labels /\ applied' \in 0..MaxClicks
    <3>1. q.click \in Versions /\ q.id \in 1..MaxClicks
      BY DEF IInv, TypeOK, Asks
    <3>2. Digit(q.click) \in Labels /\ 0 \in Labels
      BY <3>1, DigitType DEF Labels
    <3>3. SetLabels(q)[1] \in Labels /\ SetLabels(q)[2] \in Labels
      BY <2>1, <3>2 DEF SetLabels, FirstLabel
    <3>4. v1' \in Labels /\ v2' \in Labels
      BY <2>2, <3>2, <3>3 DEF Answer, ClearLabels
    <3> QED
      BY <2>2, <3>1, <3>4, ClickAssumption DEF Answer
  <2> QED
    BY <2>1, <2>2 DEF Fail, vars
<1>4. DataTypes'
  BY <1>1, <1>3 DEF IInv, TypeOK, DataTypes
<1>5. TypeOK'
  BY <1>2, <1>4 DEF TypeOK, DataTypes
<1> QED
  BY <1>1, <1>5 DEF IInv, PlacesAreAccounted

\* The invariant holds in every reachable state.
THEOREM Invariance == Spec => []IInv
<1>1. IInv /\ [Next]_vars => IInv'
  BY ClickStep, OtherSteps DEF Next
<1> QED
  BY <1>1, InitInv, PTL DEF Spec

\* Type correctness; in particular the counter never leaves 0..2.
THEOREM PowerTypeCorrect == Spec => []TypeOK
<1>1. IInv => TypeOK
  BY DEF IInv
<1> QED
  BY <1>1, Invariance, PTL

\* Every place of the limit of two is held by a selected version or was lost
\* to a click behind the end of is_checked_version (script.js 47-49, 151-164).
THEOREM PlacesAccounted == Spec => []PlacesAreAccounted
<1>1. IInv => PlacesAreAccounted
  BY DEF IInv
<1> QED
  BY <1>1, Invariance, PTL

-----------------------------------------------------------------------------
(* The labels. Every click leaves a selection behind, and the answers come  *)
(* back to it one click after the other.                                    *)

\* What a click leaves behind: the two selected versions, and dropped.
States ==
    {a \in [s1 : Versions \cup {Null}, s2 : Versions \cup {Null}, drop : {0, 1}] :
        a.s1 = Null => a.s2 = Null}
StateOf(s, d) == [s1 |-> Selected1(s), s2 |-> Selected2(s), drop |-> IF d THEN 1 ELSE 0]

\* What a click on c makes of state a.
Leads(a, b, c) ==
    \/ b.s1 = Null /\ b.s2 = Null
    \/ b.drop = 1
    \/ /\ b.drop = a.drop
       /\ \/ b.s1 = a.s1 /\ b.s2 \in {a.s2, Null} /\ c # b.s1 /\ c # b.s2
          \/ b.s1 = c /\ b.s2 = a.s1
          \/ b.s1 = a.s1 /\ b.s2 = c /\ a.s1 # c /\ a.s1 # Null

\* The label the page shows for version c: the energy the server sends for it.
DigitOf(c) == IF c = Null THEN 0 ELSE Digit(c)

\* The labels l are those of state a.
Right(l, a) == l[1] = DigitOf(a.s1) /\ l[2] = DigitOf(a.s2)

\* h[i] is the state after click i: it agrees with the selection and with the
\* requests under way, of which there is one for every click after the last
\* answer, and the labels are those of the click of that answer.
Tells(h) ==
    /\ h \in [0..MaxClicks -> States]
    /\ h[sent] = StateOf(sel, dropped)
    /\ applied <= sent
    /\ \A q \in asks : /\ q.id > applied /\ q.id <= sent
                       /\ q.s1 = h[q.id].s1 /\ q.s2 = h[q.id].s2
                       /\ Leads(h[q.id - 1], h[q.id], q.click)
    /\ \A i \in (applied + 1)..sent : \E q \in asks : q.id = i
    /\ \A q, r \in asks : q.id = r.id => q = r
    /\ applied = 0 => h[0].s1 = Null
    /\ applied > 0 /\ h[applied].drop = 0 => Right(<<v1, v2>>, h[applied])

LabelsInv == ordered => \E h : Tells(h)

\* The parameters of the selections that can be made.
LEMMA SelectedOf ==
    ASSUME NEW s, s.checked \in SUBSET Versions
    PROVE  /\ s.checked = {} => Selected1(s) = Null /\ Selected2(s) = Null
           /\ \A a \in Versions : s.checked = {a} => Selected1(s) = a /\ Selected2(s) = Null
           /\ \A a, b \in Versions : s.checked = {a, b} /\ a < b =>
                  Selected1(s) = a /\ Selected2(s) = b
<1>1. s.checked = {} => Selected1(s) = Null /\ Selected2(s) = Null
  BY DEF Selected1, Selected2
<1>2. ASSUME NEW a \in Versions, s.checked = {a}
      PROVE  Selected1(s) = a /\ Selected2(s) = Null
  <2>1. Selected1(s) = a
    BY <1>2, MinOfVersions DEF Selected1
  <2>2. s.checked \ {Selected1(s)} = {}
    BY <1>2, <2>1
  <2>3. QED
    BY <2>1, <2>2 DEF Selected2
<1>3. ASSUME NEW a \in Versions, NEW b \in Versions, s.checked = {a, b}, a < b
      PROVE  Selected1(s) = a /\ Selected2(s) = b
  <2>1. Min({a, b}) \in {a, b} /\ Min({a, b}) <= a
    BY MinOfVersions
  <2>2. a # b /\ Min({a, b}) = a
    BY <1>3, <2>1, ListAssumption DEF Versions
  <2>3. Selected1(s) = a
    BY <1>3, <2>2 DEF Selected1
  <2>4. s.checked \ {Selected1(s)} = {b}
    BY <1>3, <2>2, <2>3
  <2>5. Min({b}) = b
    BY MinOfVersions
  <2>6. QED
    BY <2>3, <2>4, <2>5 DEF Selected2
<1>4. QED
  BY <1>1, <1>2, <1>3

\* At most two versions are selected: nothing, one, or an ordered pair.
LEMMA SelectionShapes ==
    ASSUME NEW s, SelectionInv(s)
    PROVE  \/ s.checked = {}
           \/ \E a \in Versions : s.checked = {a}
           \/ s.count = 2 /\ \E a, b \in Versions : s.checked = {a, b} /\ a < b
<1> DEFINE S == s.checked
<1>1. /\ S \in SUBSET Versions /\ IsFiniteSet(S) /\ Cardinality(S) \in Nat
      /\ s.count \in 0..2 /\ Cardinality(S) <= s.count
  BY FS_CardinalityType DEF SelectionInv, Selections
<1> SUFFICES ASSUME S # {}
             PROVE  \/ \E a \in Versions : S = {a}
                    \/ s.count = 2 /\ \E a, b \in Versions : S = {a, b} /\ a < b
  OBVIOUS
<1>2. PICK a \in Versions : a \in S /\ \A y \in S : a <= y
  BY <1>1, MinOfVersions
<1> DEFINE T == S \ {a}
<1>3. IsFiniteSet(T) /\ Cardinality(T) = Cardinality(S) - 1
  BY <1>1, <1>2, FS_RemoveElement
<1>4. CASE T = {}
  BY <1>1, <1>2, <1>4
<1>5. CASE T # {}
  <2>1. PICK b \in T : TRUE
    BY <1>5
  <2>2. b \in Versions /\ b # a /\ a <= b
    BY <1>1, <1>2, <2>1
  <2>3. a < b
    BY <2>2, ListAssumption DEF Versions
  <2>4. IsFiniteSet(T \ {b}) /\ Cardinality(T \ {b}) = Cardinality(T) - 1
    BY <1>3, <2>1, FS_RemoveElement
  <2>5. Cardinality(T \ {b}) \in Nat
    BY <2>4, FS_CardinalityType
  <2> HIDE DEF T
  <2>6. Cardinality(T \ {b}) = 0 /\ s.count = 2
    BY <1>1, <1>3, <2>4, <2>5
  <2>7. T \ {b} = {}
    BY <2>4, <2>6, FS_EmptySet
  <2>8. S = {a, b}
    BY <1>2, <2>1, <2>7 DEF T
  <2>9. QED
    BY <2>2, <2>3, <2>6, <2>8
<1>6. QED
  BY <1>4, <1>5

\* A click that is not refused, in terms of states.
LEMMA ClickLeads ==
    ASSUME IInv, NEW c \in Versions, Click(c)
    PROVE  Leads(StateOf(sel, dropped), StateOf(sel', dropped'), c)
<1> DEFINE after == AfterClick(sel, c)
           a == StateOf(sel, dropped)
           b == StateOf(after, dropped')
<1>1. /\ sel' = after
      /\ SelectionInv(sel) /\ SelectionInv(after) /\ c \notin sel.checked => sel.count # 2
  BY ClickKeepsSelection DEF IInv, Click, Refused
<1>2. /\ SelectionInv(sel) /\ SelectionInv(after)
      /\ sel.checked \in SUBSET Versions /\ after.checked \in SUBSET Versions
  BY ClickKeepsSelection DEF IInv, Click, SelectionInv, Selections
<1>3. dropped' <=> /\ after.checked # {}
                   /\ dropped \/ (Selected1(sel) = c /\ Selected2(sel) # Null)
  BY DEF Click
<1>4. /\ a.s1 = Selected1(sel) /\ a.s2 = Selected2(sel) /\ (a.drop = 1 <=> dropped)
      /\ b.s1 = Selected1(after) /\ b.s2 = Selected2(after) /\ (b.drop = 1 <=> dropped')
      /\ a.drop \in {0, 1} /\ b.drop \in {0, 1}
  BY DEF StateOf
<1>5. after.checked = IF c \in sel.checked THEN sel.checked \ {c}
                      ELSE IF Stray(c) THEN sel.checked ELSE sel.checked \cup {c}
  BY DEF AfterClick
<1>6. Null \notin Versions /\ \A x, y \in Versions : x # y => x < y \/ y < x
  BY ListAssumption DEF Versions, Null
<1>7. Stray(c) => c \notin sel.checked
  BY DEF IInv
<1> SUFFICES Leads(a, b, c)
  BY <1>1
<1> HIDE DEF a, b, after
<1>8. CASE after.checked = {}
  BY <1>2, <1>4, <1>8, SelectedOf DEF Leads
<1>9. CASE after.checked # {} /\ Stray(c)
  <2>1. after.checked = sel.checked /\ Selected1(after) = Selected1(sel)
          /\ Selected2(after) = Selected2(sel)
    BY <1>5, <1>7, <1>9 DEF Selected1, Selected2
  <2>2. c # Selected1(sel) /\ c # Selected2(sel)
    BY <1>2, <1>5, <1>6, <1>7, <1>9, SelectedOf, SelectionShapes
  <2>3. b.drop = a.drop
    BY <1>3, <1>4, <1>9, <2>2
  <2>4. QED
    BY <1>4, <2>1, <2>2, <2>3 DEF Leads
<1>10. CASE sel.checked = {} /\ ~Stray(c)
  <2>1. after.checked = {c}
    BY <1>5, <1>10
  <2>2. /\ Selected1(sel) = Null /\ Selected2(sel) = Null
        /\ Selected1(after) = c /\ Selected2(after) = Null
    BY <1>2, <1>10, <2>1, SelectedOf
  <2>3. b.drop = a.drop
    BY <1>3, <1>4, <2>1, <2>2
  <2>4. QED
    BY <1>4, <2>2, <2>3 DEF Leads
<1>11. ASSUME NEW x \in Versions, sel.checked = {x}, after.checked # {}, ~Stray(c)
       PROVE  Leads(a, b, c)
  <2>1. c # x /\ after.checked = {c, x} /\ after.checked = {x, c}
    BY <1>5, <1>11
  <2>2. Selected1(sel) = x /\ Selected2(sel) = Null
    BY <1>2, <1>11, SelectedOf
  <2>3. \/ Selected1(after) = c /\ Selected2(after) = x
        \/ Selected1(after) = x /\ Selected2(after) = c
    BY <1>2, <1>6, <2>1, SelectedOf
  <2>4. b.drop = a.drop
    BY <1>3, <1>4, <1>11, <2>2
  <2>5. QED
    BY <1>4, <1>6, <2>1, <2>2, <2>3, <2>4 DEF Leads
<1>12. ASSUME NEW x \in Versions, NEW y \in Versions, sel.checked = {x, y}, x < y,
              sel.count = 2, after.checked # {}
       PROVE  Leads(a, b, c)
  <2>1. c \in sel.checked
    BY <1>12 DEF Click, Refused
  <2>2. Selected1(sel) = x /\ Selected2(sel) = y /\ x # y
    BY <1>2, <1>12, SelectedOf, ListAssumption DEF Versions
  <2>3. CASE c = x
    <3>1. dropped'
      BY <1>3, <1>6, <1>12, <2>2, <2>3
    <3>2. QED
      BY <1>4, <3>1 DEF Leads
  <2>4. CASE c = y
    <3>1. after.checked = {x}
      BY <1>5, <1>12, <2>2, <2>4
    <3>2. Selected1(after) = x /\ Selected2(after) = Null
      BY <1>2, <3>1, SelectedOf
    <3>3. b.drop = a.drop
      BY <1>3, <1>4, <1>12, <2>2, <2>4
    <3>4. QED
      BY <1>4, <1>6, <2>2, <2>4, <3>2, <3>3 DEF Leads
  <2>5. QED
    BY <1>12, <2>1, <2>3, <2>4
<1>13. QED
  BY <1>2, <1>8, <1>9, <1>10, <1>11, <1>12, SelectionShapes

\* The answer to the next click makes labels that are right for its state.
LEMMA LabelsStayRight ==
    ASSUME NEW q \in Asks, NEW a \in States, NEW b \in States,
           Leads(a, b, q.click), q.s1 = b.s1, q.s2 = b.s2, b.drop = 0,
           a.s1 = Null \/ (a.drop = 0 => Right(<<v1, v2>>, a))
    PROVE  Right(ClearLabels(q, SetLabels(q)), b)
<1>1. q.click \in Versions /\ Null \notin Versions /\ b.s1 \in Versions \cup {Null}
        /\ b.s2 \in Versions \cup {Null}
        /\ (b.s1 = Null => b.s2 = Null)
  BY ListAssumption DEF Asks, States, Versions, Null
<1>2. CASE b.s1 = Null
  BY <1>1, <1>2 DEF Right, ClearLabels, DigitOf
<1>3. CASE b.s1 # Null
  <2>1. a.s1 # Null => Right(<<v1, v2>>, a)
    BY <1>3 DEF Leads
  <2>2. CASE b.s1 = q.click
    <3>1. SetLabels(q) = <<Digit(q.click), v1>>
      BY <2>2 DEF SetLabels, FirstLabel
    <3>2. b.s2 # Null => v1 = DigitOf(b.s2)
      BY <1>1, <1>3, <2>1, <2>2 DEF Leads, Right
    <3>3. QED
      BY <1>1, <2>2, <3>1, <3>2 DEF Right, ClearLabels, DigitOf
  <2>3. CASE b.s1 # q.click
    <3>1. b.s1 = a.s1 /\ Right(<<v1, v2>>, a)
            /\ (b.s2 \in {a.s2, Null} \/ b.s2 = q.click)
      BY <1>3, <2>1, <2>3 DEF Leads
    <3>2. SetLabels(q) = IF b.s2 = q.click THEN <<v1, Digit(q.click)>> ELSE <<v1, v2>>
      BY <2>3 DEF SetLabels, FirstLabel
    <3>3. QED
      BY <1>1, <1>3, <3>1, <3>2 DEF Right, ClearLabels, DigitOf
  <2>4. QED
    BY <2>2, <2>3
<1>4. QED
  BY <1>2, <1>3

LEMMA LabelsInit == Init => LabelsInv
<1> SUFFICES ASSUME Init PROVE LabelsInv
  OBVIOUS
<1> DEFINE n == [s1 |-> Null, s2 |-> Null, drop |-> 0]
           h == [i \in 0..MaxClicks |-> n]
<1>1. n \in States
  BY DEF States
<1>2. StateOf(sel, dropped) = n
  BY DEF StateOf, Init, NoSelection, Selected1, Selected2
<1> HIDE DEF n
<1>3. h \in [0..MaxClicks -> States] /\ h[0] = n
  BY <1>1, ClickAssumption
<1>4. n.s1 = Null
  BY DEF n
<1> HIDE DEF h
<1>5. Tells(h)
  BY <1>2, <1>3, <1>4 DEF Tells, Init
<1>6. QED
  BY <1>5 DEF LabelsInv

\* A click adds its state and its request.
LEMMA LabelsClick ==
    ASSUME IInv, LabelsInv, NEW c \in Versions, Click(c)
    PROVE  LabelsInv'
<1> SUFFICES ASSUME ordered PROVE \E h : Tells(h)'
  BY DEF LabelsInv, Click
<1>1. PICK h : Tells(h)
  BY DEF LabelsInv
<1> DEFINE b == StateOf(sel', dropped')
           q == [id |-> sent + 1, click |-> c, s1 |-> Selected1(sel'), s2 |-> Selected2(sel')]
<1>2. /\ sent' = sent + 1 /\ sent < MaxClicks /\ asks' = asks \cup {q}
      /\ v1' = v1 /\ v2' = v2 /\ applied' = applied
  BY DEF Click
<1>3. sent \in 0..MaxClicks /\ applied \in 0..MaxClicks /\ asks \subseteq Asks
        /\ \A r \in asks : r.id \in 1..MaxClicks
  BY DEF IInv, TypeOK, Asks
<1>4. b \in States /\ b.s1 = q.s1 /\ b.s2 = q.s2 /\ q.id = sent + 1 /\ q.click = c
  <2>1. sel'.checked \in SUBSET Versions
    BY ClickStep DEF IInv, SelectionInv, Selections
  <2>2. /\ Selected1(sel') \in Versions \cup {Null} /\ Selected2(sel') \in Versions \cup {Null}
        /\ Selected1(sel') = Null => Selected2(sel') = Null
    BY <2>1, ParamsFacts, ListAssumption DEF Versions, Null
  <2>3. QED
    BY <2>2 DEF StateOf, States
<1>5. /\ h \in [0..MaxClicks -> States] /\ h[sent] = StateOf(sel, dropped) /\ applied <= sent
      /\ \A r \in asks : /\ r.id > applied /\ r.id <= sent
                         /\ r.s1 = h[r.id].s1 /\ r.s2 = h[r.id].s2
                         /\ Leads(h[r.id - 1], h[r.id], r.click)
      /\ \A i \in (applied + 1)..sent : \E r \in asks : r.id = i
      /\ \A r, t \in asks : r.id = t.id => r = t
      /\ applied = 0 => h[0].s1 = Null
      /\ applied > 0 /\ h[applied].drop = 0 => Right(<<v1, v2>>, h[applied])
  BY <1>1 DEF Tells
<1>6. Leads(h[sent], b, c)
  BY <1>5, ClickLeads
<1> HIDE DEF b, q
<1>0. PICK g : g = [h EXCEPT ![sent + 1] = b]
  OBVIOUS
<1>7. /\ g \in [0..MaxClicks -> States] /\ g[sent + 1] = b
      /\ \A i \in 0..sent : g[i] = h[i]
  BY <1>0, <1>2, <1>3, <1>4, <1>5, ClickAssumption
<1>8. ASSUME NEW r \in asks'
      PROVE  /\ r.id > applied /\ r.id <= sent + 1
             /\ r.s1 = g[r.id].s1 /\ r.s2 = g[r.id].s2
             /\ Leads(g[r.id - 1], g[r.id], r.click)
  <2>1. CASE r \in asks
    <3>1. r.id \in 0..sent /\ r.id - 1 \in 0..sent
      BY <1>3, <1>5, <2>1, ClickAssumption
    <3>2. g[r.id] = h[r.id] /\ g[r.id - 1] = h[r.id - 1]
      BY <1>7, <3>1
    <3>3. QED
      BY <1>3, <1>5, <2>1, <3>1, <3>2
  <2>2. CASE r = q
    <3>1. r.id = sent + 1 /\ r.id - 1 = sent /\ g[r.id] = b /\ g[r.id - 1] = h[sent]
      BY <1>3, <1>4, <1>7, <2>2
    <3>2. QED
      BY <1>3, <1>4, <1>5, <1>6, <2>2, <3>1
  <2>3. QED
    BY <1>2, <2>1, <2>2
<1>9. \A i \in (applied + 1)..(sent + 1) : \E r \in asks' : r.id = i
  <2>1. TAKE i \in (applied + 1)..(sent + 1)
  <2>2. CASE i = sent + 1
    BY <1>2, <1>4, <2>2
  <2>3. CASE i # sent + 1
    <3>1. i \in (applied + 1)..sent
      BY <1>3, <2>3
    <3>2. QED
      BY <1>2, <1>5, <3>1
  <2>4. QED
    BY <2>2, <2>3
<1>10. \A r, t \in asks' : r.id = t.id => r = t
  <2>1. \A r \in asks : r.id # sent + 1
    BY <1>3, <1>5
  <2>2. QED
    BY <1>2, <1>4, <1>5, <2>1
<1>11. g[0] = h[0] /\ g[applied] = h[applied]
  BY <1>3, <1>5, <1>7
<1>12. applied' <= sent' /\ g[sent'] = b
  BY <1>2, <1>3, <1>5, <1>7
<1>13. Tells(g)'
  <2>1. g[sent'] = StateOf(sel', dropped') /\ applied' <= sent'
    BY <1>12 DEF b
  <2>2. \A r \in asks' : /\ r.id > applied' /\ r.id <= sent'
                         /\ r.s1 = g[r.id].s1 /\ r.s2 = g[r.id].s2
                         /\ Leads(g[r.id - 1], g[r.id], r.click)
    BY <1>2, <1>8
  <2>3. \A i \in (applied' + 1)..sent' : \E r \in asks' : r.id = i
    BY <1>2, <1>9
  <2>4. /\ applied' = 0 => g[0].s1 = Null
        /\ applied' > 0 /\ g[applied'].drop = 0 => Right(<<v1', v2'>>, g[applied'])
    BY <1>2, <1>5, <1>11
  <2>5. QED
    BY <1>7, <1>10, <2>1, <2>2, <2>3, <2>4 DEF Tells, Right
<1>14. QED
  BY <1>13

\* The answer in its turn.
LEMMA LabelsAnswer ==
    ASSUME IInv, LabelsInv, NEW q \in asks, Answer(q)
    PROVE  LabelsInv'
<1> SUFFICES ASSUME ordered' PROVE \E h : Tells(h)'
  BY DEF LabelsInv
<1> DEFINE l == ClearLabels(q, SetLabels(q))
<1>1. /\ v1' = l[1] /\ v2' = l[2] /\ asks' = asks \ {q} /\ applied' = q.id
      /\ ordered /\ q.id = applied + 1
      /\ sel' = sel /\ sent' = sent /\ dropped' = dropped
  BY DEF Answer
<1>2. PICK h : Tells(h)
  BY <1>1 DEF LabelsInv
<1>3. sent \in 0..MaxClicks /\ applied \in 0..MaxClicks /\ q \in Asks
        /\ \A r \in asks : r.id \in 1..MaxClicks
  BY DEF IInv, TypeOK, Asks
<1>4. /\ h \in [0..MaxClicks -> States] /\ h[sent] = StateOf(sel, dropped)
      /\ \A r \in asks : /\ r.id > applied /\ r.id <= sent
                         /\ r.s1 = h[r.id].s1 /\ r.s2 = h[r.id].s2
                         /\ Leads(h[r.id - 1], h[r.id], r.click)
      /\ \A i \in (applied + 1)..sent : \E r \in asks : r.id = i
      /\ \A r, t \in asks : r.id = t.id => r = t
      /\ applied = 0 => h[0].s1 = Null
      /\ applied > 0 /\ h[applied].drop = 0 => Right(<<v1, v2>>, h[applied])
  BY <1>2 DEF Tells
<1>5. q.id - 1 = applied /\ q.id \in 0..MaxClicks /\ q.id <= sent /\ q.id > 0
  BY <1>1, <1>3, <1>4
<1>6. h[q.id].drop = 0 => Right(l, h[q.id])
  <2>1. h[applied] \in States /\ h[q.id] \in States
    BY <1>3, <1>4, <1>5
  <2>2. Leads(h[applied], h[q.id], q.click) /\ q.s1 = h[q.id].s1 /\ q.s2 = h[q.id].s2
    BY <1>4, <1>5
  <2>3. h[applied].s1 = Null \/ (h[applied].drop = 0 => Right(<<v1, v2>>, h[applied]))
    BY <1>3, <1>4
  <2>4. QED
    BY <1>3, <2>1, <2>2, <2>3, LabelsStayRight
<1> HIDE DEF l
<1>7. \A r \in asks' : r \in asks /\ r.id > q.id
  <2>1. TAKE r \in asks'
  <2>2. r \in asks /\ r.id # q.id
    BY <1>1, <1>4
  <2>3. QED
    BY <1>3, <1>4, <1>5, <2>2
<1>8. \A i \in (q.id + 1)..sent : \E r \in asks' : r.id = i
  <2>1. TAKE i \in (q.id + 1)..sent
  <2>2. i \in (applied + 1)..sent /\ i # q.id
    BY <1>1, <1>3
  <2>3. QED
    BY <1>1, <1>4, <2>2
<1>9. h[q.id].drop = 0 => Right(<<v1', v2'>>, h[q.id])
  BY <1>1, <1>6 DEF Right
<1>10. Tells(h)'
  <2>1. /\ h[sent'] = StateOf(sel', dropped') /\ applied' <= sent'
        /\ applied' # 0
    BY <1>1, <1>4, <1>5
  <2>2. \A r \in asks' : /\ r.id > applied' /\ r.id <= sent'
                         /\ r.s1 = h[r.id].s1 /\ r.s2 = h[r.id].s2
                         /\ Leads(h[r.id - 1], h[r.id], r.click)
    BY <1>1, <1>4, <1>7
  <2>3. \A i \in (applied' + 1)..sent' : \E r \in asks' : r.id = i
    BY <1>1, <1>8
  <2>4. \A r, t \in asks' : r.id = t.id => r = t
    BY <1>4, <1>7
  <2>5. applied' > 0 /\ h[applied'].drop = 0 => Right(<<v1', v2'>>, h[applied'])
    BY <1>1, <1>9
  <2>6. QED
    BY <1>4, <2>1, <2>2, <2>3, <2>4, <2>5 DEF Tells, Right
<1>11. QED
  BY <1>10

LEMMA LabelsStep == IInv /\ LabelsInv /\ [Next]_vars => LabelsInv'
<1> SUFFICES ASSUME IInv, LabelsInv, [Next]_vars PROVE LabelsInv'
  OBVIOUS
<1>1. ASSUME NEW q \in asks, Fail(q) PROVE LabelsInv'
  BY <1>1 DEF Fail, LabelsInv
<1>2. CASE UNCHANGED vars
  <2>1. ASSUME NEW h PROVE Tells(h)' <=> Tells(h)
    BY <1>2 DEF vars, Tells, StateOf, Right, Selected1, Selected2
  <2>2. QED
    BY <1>2, <2>1 DEF LabelsInv, vars
<1>3. QED
  BY <1>1, <1>2, LabelsClick, LabelsAnswer DEF Next

\* Once every answer has come, in order, the last state is the selection's.
LEMMA LabelsFollow == IInv /\ LabelsInv => LabelsRight
<1> SUFFICES ASSUME IInv, LabelsInv, Settled, ~dropped, \A c \in sel.checked : c < 10
             PROVE  v1 = LabelOf(Selected1(sel)) /\ v2 = LabelOf(Selected2(sel))
  BY DEF LabelsRight
<1>1. PICK h : Tells(h)
  BY DEF LabelsInv, Settled
<1>2. sent \in Nat /\ applied \in Nat /\ sent > 0 /\ asks = {}
  BY DEF IInv, TypeOK, Settled
<1>3. /\ applied <= sent /\ h[sent] = StateOf(sel, dropped)
      /\ \A i \in (applied + 1)..sent : \E q \in asks : q.id = i
      /\ applied > 0 /\ h[applied].drop = 0 => Right(<<v1, v2>>, h[applied])
  BY <1>1 DEF Tells
<1>4. applied = sent
  BY <1>2, <1>3
<1>5. h[sent].drop = 0 /\ h[sent].s1 = Selected1(sel) /\ h[sent].s2 = Selected2(sel)
  BY <1>3 DEF StateOf
<1>6. v1 = DigitOf(Selected1(sel)) /\ v2 = DigitOf(Selected2(sel))
  BY <1>2, <1>3, <1>4, <1>5 DEF Right
<1>7. /\ Selected1(sel) = Null \/ Selected1(sel) \in sel.checked
      /\ Selected2(sel) = Null \/ Selected2(sel) \in sel.checked
  <2>1. sel.checked \in SUBSET Versions
    BY DEF IInv, TypeOK, Selections
  <2>2. Selected1(sel) = Null \/ Selected1(sel) \in sel.checked
    BY <2>1, MinOfVersions DEF Selected1
  <2> DEFINE others == sel.checked \ {Selected1(sel)}
  <2>3. others = {} \/ Min(others) \in others
    BY <2>1, MinOfVersions
  <2>4. Selected2(sel) = Null \/ Selected2(sel) \in sel.checked
    BY <2>3 DEF Selected2
  <2>5. QED
    BY <2>2, <2>4
<1>8. QED
  BY <1>6, <1>7 DEF DigitOf, LabelOf, Digit

\* When the answers come in the order of the clicks, both labels are the energy
\* of the selected versions themselves, for any sequence of clicks that has not
\* just dropped the first of two (script.js 235-248), as long as the tenth
\* version is not selected (start.js 887).
THEOREM LabelsAreRight == Spec => []LabelsRight
<1>1. IInv /\ LabelsInv /\ [Next]_vars => (IInv /\ LabelsInv)'
  BY ClickStep, OtherSteps, LabelsStep DEF Next
<1>2. Init => IInv /\ LabelsInv
  BY InitInv, LabelsInit
<1>3. QED
  BY <1>1, <1>2, LabelsFollow, PTL DEF Spec
=============================================================================
