----------------------------- MODULE PowerLabels -----------------------------
(***************************************************************************)
(* The labels "First Version" and "Second Version" of the boot page        *)
(* (3-3/public/3-2.html 56-66), which ul.onclick of script.js fills with   *)
(* the energy of a boot. Every click asks the server for the version that  *)
(* was clicked and remembers the selection of that moment; the answers     *)
(* come in any order, and each one moves, sets or clears the labels.       *)
(***************************************************************************)
EXTENDS VersionSelect

CONSTANT MaxClicks   \* bound on the accepted clicks of a behaviour

ASSUME ClickAssumption == MaxClicks \in Nat

VARIABLES
    sel,       \* is_checked_version and version_check_count
    asks,      \* requests for calc_dmesg_based_watt under way
    v1, v2,    \* the labels: the version whose log was read, 0 or "..."
    sent,      \* number of the last request
    applied,   \* history: number of the last answer the page has used
    ordered,   \* history: every answer was used, in the order of the clicks
    dropped,   \* history: the first of two was unselected, one is still there
    stray      \* history: clicks on buttons behind the end of the array

vars == <<sel, asks, v1, v2, sent, applied, ordered, dropped, stray>>

Dots == -1
Labels == Versions \cup {0, Dots}

Asks == [id : 1..MaxClicks, click : Versions, s1 : Versions \cup {Null},
         s2 : Versions \cup {Null}]

\* The server takes one digit of the name "V<n>", which has one or two
\* (start.js 887): it reads the boot log of another version than the tenth.
Digit(c) == IF c < 10 THEN c ELSE c \div 10

Init ==
    /\ sel = NoSelection
    /\ asks = {}
    /\ v1 = Dots
    /\ v2 = Dots
    /\ sent = 0
    /\ applied = 0
    /\ ordered = TRUE
    /\ dropped = FALSE
    /\ stray = 0

-----------------------------------------------------------------------------
\* A click on button c: change the selection, ask for the energy of c.
Click(c) ==
    LET after == AfterClick(sel, c)
    IN  /\ ~Refused(sel, c)
        /\ sent < MaxClicks                                      \* bound
        /\ sel' = after
        /\ sent' = sent + 1
        /\ asks' = asks \cup {[id |-> sent + 1, click |-> c,
                               s1 |-> Selected1(after), s2 |-> Selected2(after)]}
        /\ dropped' = /\ after.checked # {}
                      /\ dropped \/ (Selected1(sel) = c /\ Selected2(sel) # Null)
        /\ stray' = IF Stray(c) THEN stray + 1 ELSE stray
        /\ UNCHANGED <<v1, v2, applied, ordered>>

\* Mutant: the old first label is not moved to the second place.
MutFirstLabel(q) == IF q.s1 = q.click THEN <<Digit(q.click), v2>> ELSE <<v1, v2>>

\* Lines 236-239: a new first version pushes the old one to the second place.
FirstLabel(q) == IF q.s1 = q.click THEN <<Digit(q.click), v1>> ELSE <<v1, v2>>

\* Lines 236-242.
SetLabels(q) ==
    IF q.s1 # q.click /\ q.s2 = q.click
    THEN <<v1, Digit(q.click)>> ELSE FirstLabel(q)

\* Lines 244-247: labels without a version become 0.
ClearLabels(q, l) ==
    <<IF q.s1 = Null THEN 0 ELSE l[1], IF q.s2 = Null THEN 0 ELSE l[2]>>

\* The answer to q reaches the page.
Answer(q) ==
    LET l == ClearLabels(q, SetLabels(q))
    IN  /\ v1' = l[1]
        /\ v2' = l[2]
        /\ asks' = asks \ {q}
        /\ ordered' = (ordered /\ q.id = applied + 1)
        /\ applied' = q.id
        /\ UNCHANGED <<sel, sent, dropped, stray>>

\* The version has no boot log: readFileSync throws, the page's promise is
\* rejected and nothing happens.
Fail(q) ==
    /\ asks' = asks \ {q}
    /\ ordered' = FALSE
    /\ UNCHANGED <<sel, v1, v2, sent, applied, dropped, stray>>

Next ==
    \/ \E c \in Versions : Click(c)
    \/ \E q \in asks : Answer(q) \/ Fail(q)

Spec == Init /\ [][Next]_vars

-----------------------------------------------------------------------------
\* The type invariant: at most two versions are selected (script.js 157), and
\* every label has come from a click.
TypeOK ==
    /\ sel \in Selections
    /\ asks \subseteq Asks
    /\ v1 \in Labels
    /\ v2 \in Labels
    /\ sent \in 0..MaxClicks
    /\ applied \in 0..MaxClicks
    /\ ordered \in BOOLEAN
    /\ dropped \in BOOLEAN
    /\ stray \in 0..MaxClicks

\* The counter that enforces the limit of two (script.js 157) is the number
\* of selected versions, plus one for each click on a button behind the end
\* of the array: such a click takes one of the two places for good.
PlacesAreAccounted == sel.count = Cardinality(sel.checked) + stray

Settled == sent > 0 /\ asks = {} /\ ordered

\* The label that version c ought to have: its own energy, and 0 for none.
LabelOf(c) == IF c = Null THEN 0 ELSE c

\* When the answers came in order, both labels are the energy of the selected
\* versions themselves, unless the tenth version is one of them (start.js 887),
\* or the user unselected the first of two versions and has not unselected the
\* other one since (script.js 235-248).
LabelsRight ==
    Settled /\ ~dropped /\ (\A c \in sel.checked : c < 10) =>
        /\ v1 = LabelOf(Selected1(sel))
        /\ v2 = LabelOf(Selected2(sel))
=============================================================================
