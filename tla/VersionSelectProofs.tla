-------------------------- MODULE VersionSelectProofs --------------------------
(***************************************************************************)
(* Facts about the selection of versions on the boot page, used by the     *)
(* proofs of the modules that extend VersionSelect.                        *)
(***************************************************************************)
EXTENDS VersionSelect, FiniteSetTheorems, WellFoundedInduction, TLAPS

\* The type of a selection and the reason why its counter stays in range:
\* there are at least as many places taken as versions selected.
SelectionInv(s) ==
    /\ s \in Selections
    /\ IsFiniteSet(s.checked)
    /\ Cardinality(s.checked) <= s.count

\* A nonempty set of versions has a smallest one, which Min returns.
LEMMA MinOfVersions ==
    ASSUME NEW S \in SUBSET Versions, S # {}
    PROVE  /\ Min(S) \in S
           /\ \A y \in S : Min(S) <= y
<1>1. S \subseteq Nat
  BY ListAssumption DEF Versions
<1> DEFINE R == {ss \in Nat \X Nat : ss[1] < ss[2]}
<1>2. IsWellFoundedOn(R, Nat)
  BY NatLessThanWellFounded DEF OpToRel
<1>3. PICK x \in S : \A y \in S : <<y, x>> \notin R
  BY <1>1, <1>2, WFMin
<1>4. ASSUME NEW y \in S PROVE x <= y
  <2>1. <<y, x>> \in Nat \X Nat /\ <<y, x>>[1] = y /\ <<y, x>>[2] = x
    BY <1>1
  <2>2. ~(y < x)
    BY <1>3, <2>1
  <2> QED
    BY <1>1, <2>2
<1> QED
  BY <1>4 DEF Min

\* The parameters of a request are the two smallest selected versions, in
\* order; the second one is missing unless two versions are selected.
LEMMA ParamsFacts ==
    ASSUME NEW s, s.checked \in SUBSET Versions
    PROVE  /\ Selected1(s) \in Versions \cup {Null}
           /\ Selected2(s) \in Versions \cup {Null}
           /\ Selected2(s) # Null => /\ Selected1(s) \in Versions
                                     /\ Selected1(s) < Selected2(s)
<1>1. CASE s.checked = {}
  BY <1>1 DEF Selected1, Selected2
<1>2. CASE s.checked # {}
  <2>1. /\ Selected1(s) \in s.checked
        /\ \A y \in s.checked : Selected1(s) <= y
    BY <1>2, MinOfVersions DEF Selected1
  <2> DEFINE others == s.checked \ {Selected1(s)}
  <2>2. CASE others = {}
    BY <2>1, <2>2 DEF Selected2
  <2>3. CASE others # {}
    <3>1. Min(others) \in others
      BY <2>3, MinOfVersions
    <3>2. Selected2(s) = Min(others)
      BY <2>3 DEF Selected2
    <3>3. Selected1(s) \in Int /\ Selected2(s) \in Int
      BY <2>1, <3>1, <3>2, ListAssumption DEF Versions
    <3>4. Selected1(s) <= Selected2(s) /\ Selected1(s) # Selected2(s)
      BY <2>1, <3>1, <3>2
    <3>5. Selected1(s) < Selected2(s)
      BY <3>3, <3>4
    <3> QED
      BY <2>1, <3>1, <3>2, <3>5
  <2> QED
    BY <2>2, <2>3
<1> QED
  BY <1>1, <1>2

\* No version is selected at first.
LEMMA NoSelectionInv == SelectionInv(NoSelection)
BY FS_EmptySet DEF SelectionInv, NoSelection, Selections

\* A click that is not refused keeps the invariant; only unselecting gives a
\* place back, and every other click takes one.
LEMMA ClickKeepsSelection ==
    ASSUME NEW s, SelectionInv(s), NEW c \in Versions, ~Refused(s, c)
    PROVE  /\ SelectionInv(AfterClick(s, c))
           /\ AfterClick(s, c).count - Cardinality(AfterClick(s, c).checked)
                = s.count - Cardinality(s.checked)
                    + IF c \notin s.checked /\ Stray(c) THEN 1 ELSE 0
<1> DEFINE n == Cardinality(s.checked)
<1>1. /\ s.checked \in SUBSET Versions
      /\ s.count \in 0..2
      /\ IsFiniteSet(s.checked)
      /\ n \in Nat
      /\ n <= s.count
  BY FS_CardinalityType DEF SelectionInv, Selections
<1>2. CASE c \in s.checked
  <2>1. AfterClick(s, c) = [checked |-> s.checked \ {c}, count |-> s.count - 1]
    BY <1>2 DEF AfterClick
  <2>2. IsFiniteSet(s.checked \ {c}) /\ Cardinality(s.checked \ {c}) = n - 1
    BY <1>1, <1>2, FS_RemoveElement
  <2>3. n # 0
    BY <1>1, <1>2, FS_EmptySet
  <2>4. s.count - 1 \in 0..2 /\ n - 1 <= s.count - 1
    BY <1>1, <2>3
  <2>5. (s.count - 1) - (n - 1) = s.count - n + 0
    BY <1>1
  <2>6. SelectionInv(AfterClick(s, c))
    BY <1>1, <2>1, <2>2, <2>4 DEF SelectionInv, Selections
  <2> QED
    BY <1>2, <2>1, <2>2, <2>5, <2>6
<1>3. CASE c \notin s.checked /\ Stray(c)
  <2>1. AfterClick(s, c) = [checked |-> s.checked, count |-> s.count + 1]
    BY <1>3 DEF AfterClick
  <2>2. s.count # 2
    BY <1>3 DEF Refused
  <2>3. s.count + 1 \in 0..2 /\ n <= s.count + 1 /\ (s.count + 1) - n = s.count - n + 1
    BY <1>1, <2>2
  <2>4. SelectionInv(AfterClick(s, c))
    BY <1>1, <2>1, <2>3 DEF SelectionInv, Selections
  <2> QED
    BY <1>3, <2>1, <2>3, <2>4
<1>4. CASE c \notin s.checked /\ ~Stray(c)
  <2>1. AfterClick(s, c) = [checked |-> s.checked \cup {c}, count |-> s.count + 1]
    BY <1>4 DEF AfterClick
  <2>2. IsFiniteSet(s.checked \cup {c}) /\ Cardinality(s.checked \cup {c}) = n + 1
    BY <1>1, <1>4, FS_AddElement
  <2>3. s.count # 2
    BY <1>4 DEF Refused
  <2>4. s.count + 1 \in 0..2 /\ n + 1 <= s.count + 1
    BY <1>1, <2>3
  <2>5. (s.count + 1) - (n + 1) = s.count - n + 0
    BY <1>1
  <2>6. SelectionInv(AfterClick(s, c))
    BY <1>1, <2>1, <2>2, <2>4 DEF SelectionInv, Selections
  <2> QED
    BY <1>4, <2>1, <2>2, <2>5, <2>6
<1> QED
  BY <1>2, <1>3, <1>4
=============================================================================
