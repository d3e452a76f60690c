---------------------------- MODULE VersionSelect ----------------------------
(***************************************************************************)
(* The list of version buttons of the boot page (3-3/public/script.js      *)
(* 47-75 and the first half of ul.onclick): is_checked_version and         *)
(* version_check_count. The array has version_number entries, the list as  *)
(* many buttons as the server knows directories. Colours are left out.     *)
(***************************************************************************)
EXTENDS Integers, FiniteSets, FiniteSetsExt

CONSTANTS
    Listed,         \* number of buttons in the list
    VersionNumber   \* version_number, the length of is_checked_version

ASSUME ListAssumption == Listed \in Nat \ {0} /\ VersionNumber \in Nat

Versions == 1..Listed

\* What a request carries when no version is selected: the string "null",
\* or nothing at all.
Null == 0
Undef == -1

\* A selection: is_checked_version as the set of its ones, and the counter.
Selections == [checked : SUBSET Versions, count : 0..2]
NoSelection == [checked |-> {}, count |-> 0]

\* A button behind the end of the array: its entry is undefined, 1 - undefined
\* is NaN, and NaN is never 1.
Stray(c) == c > VersionNumber

\* Mutant: the limit is tested against the wrong number.
MutRefused(s, c) == c \notin s.checked /\ s.count = 3

\* The early return of line 157.
Refused(s, c) == c \notin s.checked /\ s.count = 2

\* Mutant: the counter is not given back.
MutAfterClick(s, c) ==
    IF c \in s.checked
    THEN [s EXCEPT !.checked = @ \ {c}]
    ELSE [checked |-> IF Stray(c) THEN s.checked ELSE s.checked \cup {c},
          count |-> s.count + 1]

\* Lines 151-164 for a click that is not refused.
AfterClick(s, c) ==
    IF c \in s.checked
    THEN [checked |-> s.checked \ {c}, count |-> s.count - 1]
    ELSE [checked |-> IF Stray(c) THEN s.checked ELSE s.checked \cup {c},
          count |-> s.count + 1]

\* The loop of lines 170-188: the first two selected versions, in order.
Selected1(s) == IF s.checked = {} THEN Null ELSE Min(s.checked)
Selected2(s) ==
    LET others == s.checked \ {Selected1(s)}
    IN  IF others = {} THEN Null ELSE Min(others)
Params(s) == <<Selected1(s), Selected2(s)>>
=============================================================================
