--------------------------- MODULE MCVersionCompare ---------------------------
EXTENDS VersionCompare, TLC

CONSTANTS f3, g3

\* ssu_diff prints the path in the second version, or in ORG: comparisons with
\* the same second version share paths. Versions 1 and 2 do not differ.
MCDiff == (<<1, 2>> :> {}) @@ (<<1, 3>> :> {f3}) @@ (<<2, 3>> :> {f3, g3})
=============================================================================
