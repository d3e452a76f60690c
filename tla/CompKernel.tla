------------------------------ MODULE CompKernel ------------------------------
(***************************************************************************)
(* The tools that compare kernel versions (3-3/src/comp_kernel). skin      *)
(* writes a tree with the hash of every file of a kernel; molt copies the  *)
(* files whose hash differs from that of the original kernel into a tree   *)
(* of their own; ssu_diff walks the molts of two versions.                 *)
(*                                                                         *)
(* A path is a sequence of names, and names are numbers in the order of    *)
(* alphasort and strcmp. A tree maps the paths of its files to contents;   *)
(* directories are the prefixes of these paths. A molt may have empty      *)
(* directories, and keeps its directories apart. A hash stands for the     *)
(* content it was taken from.                                              *)
(*                                                                         *)
(* molt and ssu_diff walk two trees side by side with the same recursive   *)
(* loop. One pass of the loop is a step, and walk is the stack of calls;   *)
(* the sources may be edited between two passes.                           *)
(***************************************************************************)
EXTENDS Integers, Sequences, SequencesExt

CONSTANTS
    Paths,       \* the paths a kernel tree may have
    Contents,    \* contents of files
    Original,    \* the content of every file of the original kernel
    MaxEdits     \* bound on the edits of a behaviour

ASSUME PathAssumption == Paths \subseteq Seq(Nat) \ {<<>>}
ASSUME ContentAssumption == Original \in Contents
ASSUME EditAssumption == MaxEdits \in Nat

Versions == {1, 2}
ORG == 0

\* A set of paths none of which is a directory of another.
Consistent(S) == \A p, q \in S : ~IsStrictPrefix(p, q)

\* The directories above a path, without the top, and those a tree may have.
Parents(path) == {SubSeq(path, 1, k) : k \in 1..(Len(path) - 1)}
Dirs == UNION {Parents(p) : p \in Paths}

Trees == UNION {[S -> Contents] : S \in {T \in SUBSET Paths : Consistent(T)}}
NoTree == [p \in {} |-> Original]

\* The files of s written over tree t.
Over(s, t) == [p \in DOMAIN s \cup DOMAIN t |-> IF p \in DOMAIN s THEN s[p] ELSE t[p]]

VARIABLES
    src,       \* the kernel sources: ORG and the two versions
    skin,      \* their __skin trees
    molt,      \* the files of the __molt trees of the versions
    dirs,      \* the directories of the __molt trees
    skinned,   \* the versions that have a __skin directory
    shed,      \* the versions that have a __molt directory
    molted,    \* history: the versions that were molted after their last skin
    edited,    \* history: the paths of a version edited since its first skin
    touched,   \* history: those edited since its last skin
    edits,     \* edits so far
    tool,      \* the versions the running tool reads: one for molt, both for ssu_diff
    walk,      \* the calls of molting_dir or comp_dir that have not returned
    out,       \* what ssu_diff has printed: path and the two sides compared
    compared   \* history: out is complete and belongs to the present trees

vars == <<src, skin, molt, dirs, skinned, shed, molted, edited, touched, edits, tool,
          walk, out, compared>>

-----------------------------------------------------------------------------
(* Directories, and the walk of two of them.                               *)

\* path is a directory of tree t.
IsDir(t, path) == \E p \in DOMAIN t : IsStrictPrefix(path, p)
IsFile(t, path) == path \in DOMAIN t

\* scandir: the names that the paths S have in a directory.
Names(S, dir) == {p[Len(dir) + 1] : p \in {q \in S : IsStrictPrefix(dir, q)}}

\* A call for directory dir of two trees: the names of the two sorted lists
\* that are still ahead.
Call(S, T, dir) == [dir |-> dir, l |-> Names(S, dir), r |-> Names(T, dir)]
Calls == [dir : Dirs \cup {<<>>}, l : SUBSET Nat, r : SUBSET Nat]

\* The call that runs; those above it wait for it.
Top(f) == \A g \in walk : Len(g.dir) <= Len(f.dir)

\* The loop goes on, and n is the smaller one of its two names.
Ahead(f, n) ==
    /\ Top(f)
    /\ f.l # {} /\ f.r # {}
    /\ \A m \in f.l \cup f.r : n <= m

\* Mutant: the loop steps over the smaller name in both lists.
MutAdvance(f, n) == [f EXCEPT !.l = @ \ {Min(@)}, !.r = @ \ {Min(@)}]

\* i++, j++ or both: the lists that have name n step over it.
Advance(f, n) == [f EXCEPT !.l = @ \ {n}, !.r = @ \ {n}]

-----------------------------------------------------------------------------
OrgTrees == {t \in Trees : \A p \in DOMAIN t : t[p] = Original}

\* The original kernel has been skinned; the versions are any kernels.
Init ==
    /\ src \in {f \in [{ORG} \cup Versions -> Trees] : f[ORG] \in OrgTrees}
    /\ skin = [v \in {ORG} \cup Versions |-> IF v = ORG THEN src[ORG] ELSE NoTree]
    /\ molt = [v \in Versions |-> NoTree]
    /\ dirs = [v \in Versions |-> {}]
    /\ skinned = {}
    /\ shed = {}
    /\ molted = {}
    /\ edited = [v \in Versions |-> {}]
    /\ touched = [v \in Versions |-> {}]
    /\ edits = 0
    /\ tool = {}
    /\ walk = {}
    /\ out = {}
    /\ compared = FALSE

\* The paths at which two trees are not the same.
Differing(s, t) ==
    {p \in DOMAIN s \cup DOMAIN t : p \in DOMAIN s \cap DOMAIN t => s[p] # t[p]}

\* The operator changes, adds or removes a file of a version, also while a
\* tool runs. A file does not become a directory or the other way round once
\* it has been hashed.
Edit(v, t) ==
    /\ edits < MaxEdits                                          \* bound
    /\ \E p \in Paths : Differing(t, src[v]) = {p}
    /\ Consistent(DOMAIN t \cup DOMAIN skin[v])
    /\ src' = [src EXCEPT ![v] = t]
    /\ edited' = IF v \in skinned
                 THEN [edited EXCEPT ![v] = @ \cup Differing(t, src[v])] ELSE edited
    /\ touched' = [touched EXCEPT ![v] = @ \cup Differing(t, src[v])]
    /\ edits' = edits + 1
    /\ UNCHANGED <<skin, molt, dirs, skinned, shed, molted, tool, walk, out, compared>>

\* skinning_dir: every file is hashed. rmdir does not remove a tree that has
\* files, so hashes of files that are gone stay.
SkinOf(v) == Over(src[v], skin[v])

\* skin <kernel> <directory>.
Skin(v) ==
    /\ tool = {}
    /\ skin' = [skin EXCEPT ![v] = SkinOf(v)]
    /\ skinned' = skinned \cup {v}
    /\ molted' = molted \ {v}
    /\ touched' = [touched EXCEPT ![v] = {}]
    /\ compared' = FALSE
    /\ UNCHANGED <<src, molt, dirs, shed, edited, edits, tool, walk, out>>

-----------------------------------------------------------------------------
(* molt.                                                                   *)

\* molt <skin of ORG> <skin of v>, up to the first call of molting_dir.
Molt(v) ==
    /\ tool = {}
    /\ v \in skinned
    /\ tool' = {v}
    /\ walk' = {Call(DOMAIN skin[ORG], DOMAIN skin[v], <<>>)}
    /\ shed' = shed \cup {v}
    /\ molted' = molted \cup {v}
    /\ compared' = FALSE
    /\ UNCHANGED <<src, skin, molt, dirs, skinned, edited, touched, edits, out>>

\* Mutant: files that the original kernel does not have are copied too.
MutToCopy(v, f, n) ==
    LET path == Append(f.dir, n)
    IN  /\ n \in f.r /\ IsFile(skin[v], path)
        /\ IsFile(skin[ORG], path) => skin[ORG][path] # skin[v][path]

\* Name n is a file of both trees, with different hashes.
ToCopy(v, f, n) ==
    LET path == Append(f.dir, n)
    IN  /\ n \in f.l \cap f.r
        /\ IsFile(skin[ORG], path) /\ IsFile(skin[v], path)
        /\ skin[ORG][path] # skin[v][path]

\* The copy is made from the sources as they are now; cp of a file that is
\* gone fails, and what an earlier run has copied stays.
CopyOf(v, path) ==
    IF path \in DOMAIN src[v] THEN Over([p \in {path} |-> src[v][p]], molt[v]) ELSE molt[v]

\* molting_dir: one pass of the loop. Two directories are a call, and
\* molting_file copies a file whose hash differs, after mkdir -p.
MoltStep(v, f, n) ==
    LET path == Append(f.dir, n)
        deeper == n \in f.l \cap f.r /\ IsDir(skin[ORG], path) /\ IsDir(skin[v], path)
    IN  /\ tool = {v}
        /\ Ahead(f, n)
        /\ walk' = (walk \ {f}) \cup {Advance(f, n)}
                     \cup IF deeper THEN {Call(DOMAIN skin[ORG], DOMAIN skin[v], path)}
                          ELSE {}
        /\ molt' = IF ToCopy(v, f, n) THEN [molt EXCEPT ![v] = CopyOf(v, path)] ELSE molt
        /\ dirs' = IF ToCopy(v, f, n) THEN [dirs EXCEPT ![v] = @ \cup Parents(path)] ELSE dirs
        /\ UNCHANGED <<src, skin, skinned, shed, molted, edited, touched, edits, tool, out,
                       compared>>

-----------------------------------------------------------------------------
(* ssu_diff. A report is the path and the two trees that are compared.     *)

Report(path, l, r) == [path |-> path, left |-> l, right |-> r]

\* diff_dir: the result of scandir is compared with 0 before it is assigned,
\* so that count is 0 and the loop does nothing.
DiffDir(path) == {}

\* Mutant: the hashes are not looked at.
MutDiffFile(path) == {Report(path, 1, 2)}

\* diff_file: two changed files with different hashes.
DiffFile(path) ==
    IF skin[1][path] = skin[2][path] THEN {} ELSE {Report(path, 1, 2)}

\* Files and directories of the molt of v.
Entries(v) == DOMAIN molt[v] \cup dirs[v]

\* ssu_diff <ORG> <molt of 1> <molt of 2>, up to the first call of comp_dir.
Compare ==
    /\ tool = {}
    /\ shed = Versions
    /\ tool' = Versions
    /\ walk' = {Call(Entries(1), Entries(2), <<>>)}
    /\ out' = {}
    /\ compared' = FALSE
    /\ UNCHANGED <<src, skin, molt, dirs, skinned, shed, molted, edited, touched, edits>>

\* What a pass of comp_dir prints: name n is in both molts, in the first only,
\* or in the second only.
Printed(f, n) ==
    LET path == Append(f.dir, n)
        dir1 == path \in dirs[1]
        dir2 == path \in dirs[2]
        dirOrg == IsDir(src[ORG], path)
    IN  CASE n \in f.l \cap f.r /\ ~dir1 /\ ~dir2 -> DiffFile(path)
          [] n \in f.l \ f.r /\ dir1 /\ dirOrg -> DiffDir(path)
          [] n \in f.l \ f.r /\ ~dir1 /\ ~dirOrg -> {Report(path, 1, ORG)}
          [] n \in f.r \ f.l /\ dir2 /\ dirOrg -> DiffDir(path)
          [] n \in f.r \ f.l /\ ~dir2 /\ ~dirOrg -> {Report(path, ORG, 2)}
          [] OTHER -> {}

\* comp_dir: one pass of the loop.
DiffStep(f, n) ==
    LET path == Append(f.dir, n)
        deeper == n \in f.l \cap f.r /\ path \in dirs[1] \cap dirs[2]
    IN  /\ tool = Versions
        /\ Ahead(f, n)
        /\ walk' = (walk \ {f}) \cup {Advance(f, n)}
                     \cup IF deeper THEN {Call(Entries(1), Entries(2), path)} ELSE {}
        /\ out' = out \cup Printed(f, n)
        /\ UNCHANGED <<src, skin, molt, dirs, skinned, shed, molted, edited, touched, edits, tool,
                       compared>>

\* One of the lists is at its end, and the call returns; the last one ends
\* the tool.
Return(f) ==
    /\ Top(f)
    /\ f.l = {} \/ f.r = {}
    /\ walk' = walk \ {f}
    /\ tool' = IF walk' = {} THEN {} ELSE tool
    /\ compared' = (walk' = {} /\ tool = Versions)
    /\ UNCHANGED <<src, skin, molt, dirs, skinned, shed, molted, edited, touched, edits, out>>

Next ==
    \/ \E v \in Versions : Skin(v) \/ Molt(v) \/ \E t \in Trees : Edit(v, t)
    \/ Compare
    \/ \E f \in walk : \/ Return(f)
                       \/ \E n \in f.l \cup f.r : \/ DiffStep(f, n)
                                                  \/ \E v \in Versions : MoltStep(v, f, n)

Spec == Init /\ [][Next]_vars

-----------------------------------------------------------------------------
\* The type invariant: a molt has only files and directories of the original
\* kernel (molt.c 104-119), and a tool walks exactly while calls are open.
TypeOK ==
    /\ src \in [{ORG} \cup Versions -> Trees]
    /\ skin \in [{ORG} \cup Versions -> Trees]
    /\ molt \in [Versions -> {t \in Trees : DOMAIN t \subseteq DOMAIN src[ORG]}]
    /\ dirs \in [Versions -> SUBSET {p \in Dirs : IsDir(src[ORG], p)}]
    /\ shed \subseteq skinned
    /\ skinned \subseteq Versions
    /\ molted \subseteq shed
    /\ edited \in [Versions -> SUBSET Paths]
    /\ touched \in [Versions -> SUBSET Paths]
    /\ edits \in 0..MaxEdits
    /\ tool \subseteq shed
    /\ tool = {} <=> walk = {}
    /\ walk \subseteq Calls
    /\ compared \in BOOLEAN

\* The files of v that the original kernel has with another content.
Changed(v) ==
    {p \in DOMAIN src[v] \cap DOMAIN src[ORG] : src[v][p] # src[ORG][p]}

\* After skin and molt, in this order, and whatever else was edited before,
\* between and during the two, the molt has every changed file that was not
\* itself edited since the skin, with its present content; and of the files not
\* edited since the first skin it has no others (molt.c 63-65 and skin.c 72-74
\* do not empty their trees, so that an edited file may stay in them).
MoltCoversChange ==
    \A v \in molted : tool # {v} =>
        /\ \A p \in Changed(v) \ touched[v] : p \in DOMAIN molt[v] /\ molt[v][p] = src[v][p]
        /\ DOMAIN molt[v] \ edited[v] \subseteq Changed(v)

\* The table in the comment of ssu_diff.c 94-107: a file of both molts is
\* reported if its hashes differ, a file of one molt against ORG.
Table ==
    {Report(p, 1, 2) : p \in {q \in DOMAIN molt[1] \cap DOMAIN molt[2] :
                                 skin[1][q] # skin[2][q]}}
      \cup {Report(p, 1, ORG) : p \in DOMAIN molt[1] \ DOMAIN molt[2]}
      \cup {Report(p, ORG, 2) : p \in DOMAIN molt[2] \ DOMAIN molt[1]}

\* The walk reaches path: its directory is in both molts, and each of them has
\* a name there that is not smaller.
Reached(path) ==
    LET dir == Front(path)
    IN  \A v \in Versions :
            /\ dir = <<>> \/ dir \in dirs[v]
            /\ \E n \in Names(Entries(v), dir) : n >= Last(path)

\* ssu_diff prints nothing outside the table of its comment, and of the table
\* exactly what the walk reaches: files in a directory that only one version
\* has changed, and files behind the last name of the other version, are left
\* out (comp_dir, ssu_diff.c 133-184, and diff_dir, 247).
ReportedExactly == compared => out = {r \in Table : Reached(r.path)}

\* The comment's promise: everything in the table is printed. The code breaks
\* it: the loop of comp_dir ends with the shorter directory.
TableIsPrinted == compared => out = Table
=============================================================================
