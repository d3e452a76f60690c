--------------------------- MODULE CompKernelProofs ---------------------------
(***************************************************************************)
(* Theorems about CompKernel, for any paths, contents and number of edits: *)
(* what molt has copied and what ssu_diff has printed when they end.       *)
(***************************************************************************)
EXTENDS CompKernel, SequenceTheorems, TLAPS

-----------------------------------------------------------------------------
(* The inductive invariant.                                                *)

\* A walk W of the paths S and T. Its calls are nested, a call that waits has
\* stepped over the directory of the call it waits for, and a name that is no
\* longer ahead is smaller than all that are.
WalkInv(W, S, T) ==
    /\ W \subseteq Calls
    /\ \A f, g \in W : \/ f = g
                       \/ IsStrictPrefix(f.dir, g.dir)
                       \/ IsStrictPrefix(g.dir, f.dir)
    /\ \A f, g \in W :
          IsStrictPrefix(f.dir, g.dir) => g.dir[Len(f.dir) + 1] \notin f.l \cup f.r
    /\ \A f \in W :
          /\ f.l \subseteq Names(S, f.dir)
          /\ f.r \subseteq Names(T, f.dir)
          /\ \A n \in (Names(S, f.dir) \ f.l) \cup (Names(T, f.dir) \ f.r) :
                \A m \in f.l \cup f.r : n < m

\* Path p is still ahead of walk W.
Pending(W, p) ==
    \E f \in W : IsStrictPrefix(f.dir, p) /\ p[Len(f.dir) + 1] \in f.l \cup f.r

\* The trees: hashes and sources never disagree on what is a directory, and
\* the molts have the directories of their entries.
TreesInv ==
    /\ skin[ORG] = src[ORG]
    /\ \A v \in Versions :
          /\ Consistent(DOMAIN src[v] \cup DOMAIN skin[v])
          /\ \A p \in Entries(v) : Parents(p) \subseteq dirs[v]
          /\ v \notin skinned => skin[v] = NoTree /\ molt[v] = NoTree

\* molt of v has copied what it has passed, and never too much.
Copied(v, p) == p \in DOMAIN molt[v] /\ molt[v][p] = src[v][p]

\* The hash of a file is that of its present content.
Hashed(v, p) == p \in DOMAIN src[v] => p \in DOMAIN skin[v] /\ skin[v][p] = src[v][p]

\* Neither skin nor molt has kept a file that is gone or not changed.
Clean(v, p) ==
    /\ Hashed(v, p)
    /\ p \in DOMAIN skin[v] => p \in DOMAIN src[v]
    /\ p \in DOMAIN molt[v] => p \in Changed(v)

MoltInv ==
    \A v \in Versions :
        /\ tool = {v} => WalkInv(walk, DOMAIN skin[ORG], DOMAIN skin[v])
        /\ v \in skinned => /\ \A p \in Paths \ touched[v] : Hashed(v, p)
                            /\ \A p \in Paths \ edited[v] : Clean(v, p)
        /\ v \in molted => \A p \in Changed(v) \ touched[v] :
                              Copied(v, p) \/ (tool = {v} /\ Pending(walk, p))

\* ssu_diff has printed what it has passed, and nothing else.
DiffInv ==
    /\ tool = Versions =>
          /\ WalkInv(walk, Entries(1), Entries(2))
          /\ \A f \in walk : f.dir = <<>> \/ f.dir \in dirs[1] \cap dirs[2]
          /\ out = {r \in Table : Reached(r.path) /\ ~Pending(walk, r.path)}
    /\ compared => tool = {}

IInv == TypeOK /\ TreesInv /\ MoltInv /\ DiffInv /\ ReportedExactly

-----------------------------------------------------------------------------
(* Paths and their directories.                                            *)

\* A strict prefix, element by element.
LEMMA StrictPrefix ==
    ASSUME NEW p \in Seq(Nat), NEW q \in Seq(Nat)
    PROVE  IsStrictPrefix(p, q) <=> /\ Len(p) < Len(q)
                                    /\ \A i \in 1..Len(p) : p[i] = q[i]
<1>1. SubSeq(p, 1, Len(p)) = p
  OBVIOUS
<1>2. ASSUME Len(p) <= Len(q)
      PROVE  /\ SubSeq(q, 1, Len(p)) \in Seq(Nat)
             /\ Len(SubSeq(q, 1, Len(p))) = Len(p)
             /\ \A i \in 1..Len(p) : SubSeq(q, 1, Len(p))[i] = q[i]
  BY <1>2
<1>3. ASSUME Len(p) <= Len(q)
      PROVE  SubSeq(p, 1, Len(p)) = SubSeq(q, 1, Len(p)) <=> \A i \in 1..Len(p) : p[i] = q[i]
  <2>1. ASSUME \A i \in 1..Len(p) : p[i] = q[i] PROVE p = SubSeq(q, 1, Len(p))
    BY <1>2, <1>3, <2>1, SeqEqual
  <2> QED
    BY <1>1, <1>2, <1>3, <2>1
<1>4. ASSUME Len(p) = Len(q), \A i \in 1..Len(p) : p[i] = q[i] PROVE p = q
  BY <1>4, SeqEqual
<1>5. Len(p) \in Nat /\ Len(q) \in Nat
  OBVIOUS
<1> QED
  BY <1>3, <1>4, <1>5 DEF IsStrictPrefix, IsPrefix

LEMMA Appended ==
    ASSUME NEW d \in Seq(Nat), NEW n \in Nat
    PROVE  /\ Append(d, n) \in Seq(Nat)
           /\ Append(d, n) # <<>>
           /\ Len(Append(d, n)) = Len(d) + 1
           /\ Append(d, n)[Len(d) + 1] = n
           /\ \A i \in 1..Len(d) : Append(d, n)[i] = d[i]
           /\ IsStrictPrefix(d, Append(d, n))
<1> DEFINE c == Append(d, n)
<1>1. /\ c \in Seq(Nat) /\ c # <<>> /\ Len(c) = Len(d) + 1
      /\ c[Len(d) + 1] = n /\ \A i \in 1..Len(d) : c[i] = d[i]
  BY AppendProperties
<1>2. Len(d) \in Nat
  OBVIOUS
<1> HIDE DEF c
<1>3. IsStrictPrefix(d, c)
  BY <1>1, <1>2, StrictPrefix
<1> QED
  BY <1>1, <1>3 DEF c

\* Of the entries of directory d, those at or below the entry n.
LEMMA BelowName ==
    ASSUME NEW d \in Seq(Nat), NEW n \in Nat, NEW p \in Seq(Nat)
    PROVE  (p = Append(d, n) \/ IsStrictPrefix(Append(d, n), p))
             <=> (IsStrictPrefix(d, p) /\ p[Len(d) + 1] = n)
<1> DEFINE c == Append(d, n)
<1>1. /\ c \in Seq(Nat) /\ Len(c) = Len(d) + 1 /\ c[Len(d) + 1] = n
      /\ \A i \in 1..Len(d) : c[i] = d[i]
      /\ IsStrictPrefix(d, c)
  BY Appended
<1>2. Len(d) \in Nat /\ Len(p) \in Nat
  OBVIOUS
<1> HIDE DEF c
<1>3. ASSUME p = c PROVE IsStrictPrefix(d, p) /\ p[Len(d) + 1] = n
  BY <1>1, <1>3
<1>4. ASSUME IsStrictPrefix(c, p) PROVE IsStrictPrefix(d, p) /\ p[Len(d) + 1] = n
  <2>1. Len(c) < Len(p) /\ \A i \in 1..Len(c) : c[i] = p[i]
    BY <1>1, <1>4, StrictPrefix
  <2>2. Len(d) < Len(p) /\ \A i \in 1..Len(d) : d[i] = p[i]
    <3>1. Len(d) < Len(p)
      BY <1>1, <1>2, <2>1
    <3>2. \A i \in 1..Len(d) : i \in 1..Len(c)
      BY <1>1, <1>2
    <3> QED
      BY <1>1, <2>1, <3>1, <3>2
  <2>3. p[Len(d) + 1] = n
    BY <1>1, <1>2, <2>1
  <2> QED
    BY <2>2, <2>3, StrictPrefix
<1>5. ASSUME IsStrictPrefix(d, p), p[Len(d) + 1] = n PROVE p = c \/ IsStrictPrefix(c, p)
  <2>1. Len(d) < Len(p) /\ \A i \in 1..Len(d) : d[i] = p[i]
    BY <1>5, StrictPrefix
  <2>2. ASSUME NEW i \in 1..Len(c) PROVE c[i] = p[i]
    <3>1. i \in 1..Len(d) \/ i = Len(d) + 1
      BY <1>1, <1>2
    <3> QED
      BY <1>1, <1>5, <2>1, <3>1
  <2>3. CASE Len(p) = Len(c)
    BY <1>1, <2>2, <2>3, SeqEqual
  <2>4. CASE Len(c) < Len(p)
    BY <1>1, <2>2, <2>4, StrictPrefix
  <2> QED
    BY <1>1, <1>2, <2>1, <2>3, <2>4
<1> QED
  BY <1>3, <1>4, <1>5 DEF c

LEMMA PrefixTransitive ==
    ASSUME NEW p \in Seq(Nat), NEW q \in Seq(Nat), NEW r \in Seq(Nat),
           IsStrictPrefix(p, q), IsStrictPrefix(q, r)
    PROVE  IsStrictPrefix(p, r)
<1>1. /\ Len(p) < Len(q) /\ \A i \in 1..Len(p) : p[i] = q[i]
      /\ Len(q) < Len(r) /\ \A i \in 1..Len(q) : q[i] = r[i]
  BY StrictPrefix
<1>2. Len(p) \in Nat /\ Len(q) \in Nat /\ Len(r) \in Nat
  OBVIOUS
<1>3. Len(p) < Len(r) /\ \A i \in 1..Len(p) : p[i] = r[i]
  BY <1>1, <1>2
<1> QED
  BY <1>3, StrictPrefix

\* Parents are the strict prefixes, the top left out.
LEMMA ParentsArePrefixes ==
    ASSUME NEW p \in Seq(Nat), NEW d
    PROVE  d \in Parents(p) <=> d \in Seq(Nat) /\ d # <<>> /\ IsStrictPrefix(d, p)
<1>1. ASSUME NEW k \in 1..(Len(p) - 1)
      PROVE  /\ SubSeq(p, 1, k) \in Seq(Nat) /\ SubSeq(p, 1, k) # <<>>
             /\ IsStrictPrefix(SubSeq(p, 1, k), p)
  <2> DEFINE e == SubSeq(p, 1, k)
  <2>1. e \in Seq(Nat) /\ Len(e) = k /\ \A i \in 1..k : e[i] = p[i]
    OBVIOUS
  <2>2. Len(p) \in Nat
    OBVIOUS
  <2> HIDE DEF e
  <2>3. e # <<>> /\ IsStrictPrefix(e, p)
    BY <2>1, <2>2, StrictPrefix
  <2> QED
    BY <2>1, <2>3 DEF e
<1>2. ASSUME d \in Seq(Nat), d # <<>>, IsStrictPrefix(d, p)
      PROVE  \E k \in 1..(Len(p) - 1) : d = SubSeq(p, 1, k)
  <2>1. Len(d) < Len(p) /\ \A i \in 1..Len(d) : d[i] = p[i]
    BY <1>2, StrictPrefix
  <2>2. Len(d) \in 1..(Len(p) - 1)
    BY <1>2, <2>1
  <2>3. /\ SubSeq(p, 1, Len(d)) \in Seq(Nat)
        /\ Len(SubSeq(p, 1, Len(d))) = Len(d)
        /\ \A i \in 1..Len(d) : SubSeq(p, 1, Len(d))[i] = p[i]
    BY <2>2
  <2>4. d = SubSeq(p, 1, Len(d))
    BY <1>2, <2>1, <2>3, SeqEqual
  <2> QED
    BY <2>2, <2>4
<1> QED
  BY <1>1, <1>2 DEF Parents

\* A path is a name in a directory.
LEMMA FrontOfPath ==
    ASSUME NEW p \in Seq(Nat), p # <<>>
    PROVE  /\ Front(p) \in Seq(Nat)
           /\ Last(p) \in Nat
           /\ p = Append(Front(p), Last(p))
           /\ Len(p) = Len(Front(p)) + 1
<1>1. Len(p) \in Nat /\ Len(p) > 0
  OBVIOUS
<1>2. /\ Front(p) \in Seq(Nat)
      /\ Len(Front(p)) = Len(p) - 1
      /\ \A i \in 1..(Len(p) - 1) : Front(p)[i] = p[i]
  <2>1. \A i \in 1..(Len(p) - 1) : p[i] \in Nat
    BY <1>1
  <2> DEFINE e == SubSeq(p, 1, Len(p) - 1)
  <2>2. /\ e \in Seq(Nat)
        /\ Len(e) = IF 1 <= Len(p) - 1 THEN Len(p) - 1 - 1 + 1 ELSE 0
        /\ \A i \in 1..(Len(p) - 1 - 1 + 1) : e[i] = p[1 + i - 1]
    BY <1>1, <2>1, SubSeqProperties
  <2>3. Front(p) = e
    BY DEF Front
  <2> HIDE DEF e
  <2>4. Len(e) = Len(p) - 1
    <3>1. CASE 1 <= Len(p) - 1
      BY <1>1, <2>2, <3>1
    <3>2. CASE Len(p) = 1
      BY <2>2, <3>2
    <3>3. \A k \in Nat : k > 0 => 1 <= k - 1 \/ k = 1
      OBVIOUS
    <3> QED
      BY <1>1, <3>1, <3>2, <3>3, Zenon
  <2>5. ASSUME NEW i \in 1..(Len(p) - 1) PROVE e[i] = p[i]
    <3>1. i \in 1..(Len(p) - 1 - 1 + 1) /\ 1 + i - 1 = i
      BY <1>1
    <3> QED
      BY <2>2, <3>1
  <2> QED
    BY <2>2, <2>3, <2>4, <2>5
<1>3. Last(p) = p[Len(p)] /\ Last(p) \in Nat
  BY <1>1 DEF Last
<1> DEFINE q == Append(Front(p), Last(p))
<1>4. /\ q \in Seq(Nat) /\ Len(q) = Len(p)
      /\ \A i \in 1..Len(Front(p)) : q[i] = Front(p)[i]
      /\ q[Len(Front(p)) + 1] = Last(p)
  BY <1>1, <1>2, <1>3, Appended
<1> HIDE DEF q
<1>5. ASSUME NEW i \in 1..Len(p) PROVE p[i] = q[i]
  <2>1. i \in 1..(Len(p) - 1) \/ i = Len(p)
    BY <1>1
  <2> QED
    BY <1>1, <1>2, <1>3, <1>4, <2>1
<1>6. p = q
  BY <1>4, <1>5, SeqEqual
<1> QED
  BY <1>1, <1>2, <1>3, <1>6 DEF q

\* The names of a directory.
LEMMA NameFacts ==
    ASSUME NEW S \in SUBSET Seq(Nat), NEW d \in Seq(Nat)
    PROVE  /\ Names(S, d) \subseteq Nat
           /\ \A n : n \in Names(S, d) <=>
                       \E p \in S : IsStrictPrefix(d, p) /\ p[Len(d) + 1] = n
<1>1. ASSUME NEW p \in S, IsStrictPrefix(d, p) PROVE p[Len(d) + 1] \in Nat
  <2>1. Len(d) < Len(p) /\ Len(d) \in Nat /\ Len(p) \in Nat
    BY <1>1, StrictPrefix
  <2> QED
    BY <2>1
<1> QED
  BY <1>1 DEF Names

-----------------------------------------------------------------------------
(* What a step does to a walk.                                             *)

LEMMA DirsArePaths == Dirs \subseteq Seq(Nat) \ {<<>>}
<1> SUFFICES ASSUME NEW p \in Paths, NEW d \in Parents(p)
             PROVE  d \in Seq(Nat) \ {<<>>}
  BY DEF Dirs
<1> QED
  BY PathAssumption, ParentsArePrefixes

LEMMA EmptyPath == <<>> \in Seq(Nat) /\ Len(<<>>) = 0
BY EmptySeq

LEMMA DirType == \A d \in Dirs \cup {<<>>} : d \in Seq(Nat)
BY DirsArePaths, EmptyPath, Zenon

LEMMA CallFields ==
    ASSUME NEW f \in Calls
    PROVE  f.dir \in Seq(Nat) /\ f.l \subseteq Nat /\ f.r \subseteq Nat
<1>1. f.dir \in Dirs \cup {<<>>} /\ f.l \subseteq Nat /\ f.r \subseteq Nat
  BY DEF Calls
<1> QED
  BY <1>1, DirType

LEMMA AdvanceFields ==
    ASSUME NEW f \in Calls, NEW n
    PROVE  /\ Advance(f, n) \in Calls
           /\ Advance(f, n).dir = f.dir
           /\ Advance(f, n).l = f.l \ {n}
           /\ Advance(f, n).r = f.r \ {n}
BY DEF Calls, Advance

LEMMA CallType ==
    ASSUME NEW S \in SUBSET Seq(Nat), NEW T \in SUBSET Seq(Nat),
           NEW d \in Dirs \cup {<<>>}
    PROVE  /\ Call(S, T, d) \in Calls
           /\ Call(S, T, d).dir = d
           /\ Call(S, T, d).l = Names(S, d)
           /\ Call(S, T, d).r = Names(T, d)
<1>1. d \in Seq(Nat)
  BY DirType
<1>2. Names(S, d) \subseteq Nat /\ Names(T, d) \subseteq Nat
  BY <1>1, NameFacts
<1> QED
  BY <1>2 DEF Call, Calls

\* Every path is below the top.
LEMMA TopOfPath ==
    ASSUME NEW p \in Seq(Nat), p # <<>>
    PROVE  IsStrictPrefix(<<>>, p) /\ <<>> \in Seq(Nat) /\ Len(<<>>) = 0
<1>1. Len(p) \in Nat \ {0}
  BY EmptySeq
<1>2. PICK e \in Seq(Nat) : e = <<>> /\ Len(e) = 0
  BY EmptyPath, Zenon
<1>3. Len(e) < Len(p) /\ \A i \in 1..Len(e) : e[i] = p[i]
  BY <1>1, <1>2
<1>4. IsStrictPrefix(e, p)
  BY <1>3, StrictPrefix
<1> QED
  BY <1>2, <1>4, Zenon

\* The first call of a tool has everything ahead.
LEMMA WalkStarts ==
    ASSUME NEW S \in SUBSET Seq(Nat), NEW T \in SUBSET Seq(Nat)
    PROVE  /\ WalkInv({Call(S, T, <<>>)}, S, T)
           /\ \A p \in S \cup T : p # <<>> => Pending({Call(S, T, <<>>)}, p)
<1> DEFINE f == Call(S, T, <<>>)
<1>1. f \in Calls /\ f.dir = <<>> /\ f.l = Names(S, <<>>) /\ f.r = Names(T, <<>>)
  BY CallType
<1> HIDE DEF f
<1>2. ~IsStrictPrefix(<<>>, <<>>)
  BY DEF IsStrictPrefix
<1>3. WalkInv({f}, S, T)
  BY <1>1, <1>2 DEF WalkInv
<1>4. ASSUME NEW p \in S \cup T, p # <<>> PROVE Pending({f}, p)
  <2>1. IsStrictPrefix(<<>>, p) /\ <<>> \in Seq(Nat) /\ Len(<<>>) = 0
    BY <1>4, TopOfPath
  <2>2. p[Len(<<>>) + 1] \in Names(S, <<>>) \cup Names(T, <<>>)
    BY <2>1, NameFacts
  <2> QED
    BY <1>1, <2>1, <2>2 DEF Pending
<1> QED
  BY <1>3, <1>4 DEF f

\* A pass of the loop for name n of call f, with the call P it may make.
Passed(W, f, n, P) == (W \ {f}) \cup {Advance(f, n)} \cup P

IsPass(W, S, T, f, n, P) ==
    /\ S \subseteq Seq(Nat) /\ T \subseteq Seq(Nat)
    /\ WalkInv(W, S, T)
    /\ f \in W
    /\ \A g \in W : Len(g.dir) <= Len(f.dir)
    /\ n \in f.l \cup f.r
    /\ \A m \in f.l \cup f.r : n <= m
    /\ \/ P = {}
       \/ Append(f.dir, n) \in Dirs /\ P = {Call(S, T, Append(f.dir, n))}

\* The other calls of the walk are those of the directories above.
LEMMA OthersAreAbove ==
    ASSUME NEW W, NEW S, NEW T, NEW f, NEW n, NEW P, IsPass(W, S, T, f, n, P),
           NEW g \in W, g # f
    PROVE  /\ IsStrictPrefix(g.dir, f.dir)
           /\ Len(g.dir) < Len(f.dir)
           /\ f.dir[Len(g.dir) + 1] \notin g.l \cup g.r
<1>1. f \in Calls /\ g \in Calls /\ f \in W /\ Len(g.dir) <= Len(f.dir)
  BY DEF IsPass, WalkInv
<1>2. f.dir \in Seq(Nat) /\ g.dir \in Seq(Nat)
  BY <1>1, CallFields
<1>3. IsStrictPrefix(f.dir, g.dir) \/ IsStrictPrefix(g.dir, f.dir)
  BY <1>1 DEF IsPass, WalkInv
<1>4. ~IsStrictPrefix(f.dir, g.dir)
  <2>1. Len(f.dir) \in Nat /\ Len(g.dir) \in Nat
    BY <1>2
  <2> QED
    BY <1>1, <1>2, <2>1, StrictPrefix
<1>5. Len(g.dir) < Len(f.dir)
  BY <1>2, <1>3, <1>4, StrictPrefix
<1>6. f.dir[Len(g.dir) + 1] \notin g.l \cup g.r
  BY <1>1, <1>3, <1>4 DEF IsPass, WalkInv
<1> QED
  BY <1>3, <1>4, <1>5, <1>6

LEMMA PassFacts ==
    ASSUME NEW W, NEW S, NEW T, NEW f, NEW n, NEW P, IsPass(W, S, T, f, n, P)
    PROVE  /\ f \in Calls /\ f.dir \in Seq(Nat) /\ n \in Nat
           /\ Append(f.dir, n) \in Seq(Nat)
           /\ \A g \in P : /\ Append(f.dir, n) \in Dirs
                           /\ g = Call(S, T, Append(f.dir, n))
                           /\ g \in Calls
                           /\ g.dir = Append(f.dir, n)
                           /\ g.l = Names(S, Append(f.dir, n))
                           /\ g.r = Names(T, Append(f.dir, n))
<1>1. f \in Calls
  BY DEF IsPass, WalkInv
<1>2. f.dir \in Seq(Nat) /\ n \in Nat
  BY <1>1, CallFields DEF IsPass
<1>3. Append(f.dir, n) \in Seq(Nat)
  BY <1>2, Appended
<1>4. ASSUME NEW g \in P
      PROVE  /\ Append(f.dir, n) \in Dirs
             /\ g = Call(S, T, Append(f.dir, n))
             /\ g \in Calls
             /\ g.dir = Append(f.dir, n)
             /\ g.l = Names(S, Append(f.dir, n))
             /\ g.r = Names(T, Append(f.dir, n))
  <2>1. Append(f.dir, n) \in Dirs /\ g = Call(S, T, Append(f.dir, n))
    BY <1>4 DEF IsPass
  <2>2. S \in SUBSET Seq(Nat) /\ T \in SUBSET Seq(Nat)
    BY DEF IsPass
  <2>3. Append(f.dir, n) \in Dirs \cup {<<>>}
    BY <2>1
  <2> QED
    BY <2>1, <2>2, <2>3, CallType
<1> QED
  BY <1>1, <1>2, <1>3, <1>4

LEMMA WalkPasses ==
    ASSUME NEW W, NEW S, NEW T, NEW f, NEW n, NEW P, IsPass(W, S, T, f, n, P)
    PROVE  WalkInv(Passed(W, f, n, P), S, T)
<1> DEFINE c == Append(f.dir, n)
           a == Advance(f, n)
<1>1. /\ f \in Calls /\ f.dir \in Seq(Nat) /\ n \in Nat /\ c \in Seq(Nat)
      /\ \A g \in P : g \in Calls /\ g.dir = c /\ g.l = Names(S, c) /\ g.r = Names(T, c)
      /\ \A g, h \in P : g = h
  BY PassFacts
<1>2. a \in Calls /\ a.dir = f.dir /\ a.l = f.l \ {n} /\ a.r = f.r \ {n}
  BY <1>1, AdvanceFields
<1>3. IsStrictPrefix(f.dir, c) /\ c[Len(f.dir) + 1] = n
      /\ \A i \in 1..Len(f.dir) : c[i] = f.dir[i]
  BY <1>1, Appended
<1>4. ASSUME NEW g \in W \ {f}
      PROVE  /\ g \in Calls
             /\ g.dir \in Seq(Nat)
             /\ IsStrictPrefix(g.dir, f.dir)
             /\ f.dir[Len(g.dir) + 1] \notin g.l \cup g.r
             /\ IsStrictPrefix(g.dir, c)
             /\ c[Len(g.dir) + 1] \notin g.l \cup g.r
  <2>1. /\ IsStrictPrefix(g.dir, f.dir)
        /\ Len(g.dir) < Len(f.dir)
        /\ f.dir[Len(g.dir) + 1] \notin g.l \cup g.r
    BY OthersAreAbove
  <2>2. g \in Calls
    BY DEF IsPass, WalkInv
  <2>3. g.dir \in Seq(Nat)
    BY <2>2, CallFields
  <2>4. IsStrictPrefix(g.dir, c)
    BY <1>1, <1>3, <2>1, <2>3, PrefixTransitive
  <2>5. Len(g.dir) + 1 \in 1..Len(f.dir)
    BY <1>1, <2>1, <2>3
  <2> QED
    BY <1>3, <2>1, <2>2, <2>3, <2>4, <2>5
<1>5. ASSUME NEW g \in Seq(Nat), NEW h \in Seq(Nat), IsStrictPrefix(g, h)
      PROVE  g # h /\ ~IsStrictPrefix(h, g)
  <2>1. Len(g) \in Nat /\ Len(h) \in Nat /\ Len(g) < Len(h)
    BY <1>5, StrictPrefix
  <2> QED
    BY <2>1, StrictPrefix
<1> HIDE DEF a, c
<1> DEFINE V == Passed(W, f, n, P)
<1>6. ASSUME NEW g \in V PROVE g \in W \ {f} \/ g = a \/ g \in P
  BY DEF Passed, a
<1> HIDE DEF V
<1>7. V \subseteq Calls
  BY <1>1, <1>2, <1>4, <1>6
<1>8. ASSUME NEW g \in V, NEW h \in V
      PROVE  g = h \/ IsStrictPrefix(g.dir, h.dir) \/ IsStrictPrefix(h.dir, g.dir)
  <2>1. CASE g \in W \ {f} /\ h \in W \ {f}
    BY <2>1 DEF IsPass, WalkInv
  <2>2. CASE g \notin W \ {f} \/ h \notin W \ {f}
    BY <1>1, <1>2, <1>3, <1>4, <1>6, <2>2
  <2> QED
    BY <2>1, <2>2
<1>9. ASSUME NEW g \in V, NEW h \in V, IsStrictPrefix(g.dir, h.dir)
      PROVE  h.dir[Len(g.dir) + 1] \notin g.l \cup g.r
  <2>1. CASE g \in W \ {f} /\ h \in W \ {f}
    BY <1>9, <2>1 DEF IsPass, WalkInv
  <2>2. CASE g \in W \ {f} /\ h \notin W \ {f}
    BY <1>1, <1>2, <1>4, <1>6, <2>2
  <2>3. CASE g = a
    <3>1. h \in P
      BY <1>1, <1>2, <1>4, <1>5, <1>6, <1>9, <2>3
    <3> QED
      BY <1>1, <1>2, <1>3, <2>3, <3>1
  <2>4. CASE g \in P
    <3>1. g.dir = c
      BY <1>1, <2>4
    <3>2. h.dir = c \/ h.dir = f.dir \/ h \in W \ {f}
      BY <1>1, <1>2, <1>6
    <3>3. h.dir \in Seq(Nat) /\ (h.dir = c \/ IsStrictPrefix(h.dir, c))
      BY <1>1, <1>3, <1>4, <3>2
    <3> QED
      BY <1>1, <1>5, <1>9, <3>1, <3>3
  <2> QED
    BY <1>6, <2>1, <2>2, <2>3, <2>4
<1>10. ASSUME NEW g \in V
       PROVE  /\ g.l \subseteq Names(S, g.dir)
              /\ g.r \subseteq Names(T, g.dir)
              /\ \A k \in (Names(S, g.dir) \ g.l) \cup (Names(T, g.dir) \ g.r) :
                    \A m \in g.l \cup g.r : k < m
  <2>1. CASE g \in W \ {f}
    BY <2>1 DEF IsPass, WalkInv
  <2>2. CASE g \in P
    BY <1>1, <2>2
  <2>3. CASE g = a
    <3>1. /\ f.l \subseteq Names(S, f.dir)
          /\ f.r \subseteq Names(T, f.dir)
          /\ \A k \in (Names(S, f.dir) \ f.l) \cup (Names(T, f.dir) \ f.r) :
                \A m \in f.l \cup f.r : k < m
      BY DEF IsPass, WalkInv
    <3>2. f.l \subseteq Nat /\ f.r \subseteq Nat
      BY <1>1, CallFields
    <3>3. \A m \in (f.l \cup f.r) \ {n} : n < m
      BY <1>1, <3>2 DEF IsPass
    <3> QED
      BY <1>2, <2>3, <3>1, <3>3
  <2> QED
    BY <1>6, <2>1, <2>2, <2>3
<1> QED
  BY <1>7, <1>8, <1>9, <1>10 DEF WalkInv, V

\* After a pass for name n nothing at n is ahead, and below n only what the
\* call it makes will find.
LEMMA PendingPasses ==
    ASSUME NEW W, NEW S, NEW T, NEW f, NEW n, NEW P, IsPass(W, S, T, f, n, P),
           NEW p \in Seq(Nat)
    PROVE  LET c == Append(f.dir, n)
               V == Passed(W, f, n, P)
           IN  /\ p = c => Pending(W, p) /\ ~Pending(V, p)
               /\ IsStrictPrefix(c, p) =>
                    /\ Pending(W, p)
                    /\ Pending(V, p) <=> /\ P # {}
                                         /\ p[Len(c) + 1] \in Names(S, c) \cup Names(T, c)
               /\ p # c /\ ~IsStrictPrefix(c, p) => (Pending(V, p) <=> Pending(W, p))
<1> DEFINE c == Append(f.dir, n)
           a == Advance(f, n)
           V == Passed(W, f, n, P)
<1>1. /\ f \in Calls /\ f.dir \in Seq(Nat) /\ n \in Nat /\ c \in Seq(Nat)
      /\ \A g \in P : g \in Calls /\ g.dir = c /\ g.l = Names(S, c) /\ g.r = Names(T, c)
  BY PassFacts
<1>2. a \in Calls /\ a.dir = f.dir /\ a.l = f.l \ {n} /\ a.r = f.r \ {n}
  BY <1>1, AdvanceFields
<1>3. (p = c \/ IsStrictPrefix(c, p)) <=> (IsStrictPrefix(f.dir, p) /\ p[Len(f.dir) + 1] = n)
  BY <1>1, BelowName
<1>4. ~IsStrictPrefix(c, c)
  BY DEF IsStrictPrefix
<1>5. f \in W /\ n \in f.l \cup f.r
  BY DEF IsPass
<1>6. ASSUME NEW g \in W \ {f}, p = c \/ IsStrictPrefix(c, p)
      PROVE  ~(IsStrictPrefix(g.dir, p) /\ p[Len(g.dir) + 1] \in g.l \cup g.r)
  <2>1. /\ IsStrictPrefix(g.dir, f.dir)
        /\ Len(g.dir) < Len(f.dir)
        /\ f.dir[Len(g.dir) + 1] \notin g.l \cup g.r
    BY OthersAreAbove
  <2>2. g \in Calls
    BY DEF IsPass, WalkInv
  <2>3. g.dir \in Seq(Nat)
    BY <2>2, CallFields
  <2>4. \A i \in 1..Len(f.dir) : f.dir[i] = p[i]
    BY <1>1, <1>3, <1>6, StrictPrefix
  <2>5. Len(g.dir) + 1 \in 1..Len(f.dir)
    BY <1>1, <2>1, <2>3
  <2> QED
    BY <2>1, <2>4, <2>5
<1>7. \A g : g \in V <=> (g \in W \ {f} \/ g = a \/ g \in P)
  BY DEF Passed
<1> HIDE DEF a, c, V
<1>8. ASSUME p = c \/ IsStrictPrefix(c, p) PROVE Pending(W, p)
  BY <1>3, <1>5, <1>8 DEF Pending
<1>9. ASSUME p = c PROVE ~Pending(V, p)
  BY <1>1, <1>2, <1>3, <1>4, <1>6, <1>7, <1>9 DEF Pending
<1>10. ASSUME IsStrictPrefix(c, p)
       PROVE  Pending(V, p) <=> P # {} /\ p[Len(c) + 1] \in Names(S, c) \cup Names(T, c)
  <2>1. ASSUME Pending(V, p)
        PROVE  P # {} /\ p[Len(c) + 1] \in Names(S, c) \cup Names(T, c)
    BY <1>1, <1>2, <1>3, <1>6, <1>7, <1>10, <2>1 DEF Pending
  <2>2. ASSUME P # {}, p[Len(c) + 1] \in Names(S, c) \cup Names(T, c)
        PROVE  Pending(V, p)
    <3>1. PICK g \in P : TRUE
      BY <2>2
    <3>2. g \in V /\ g.dir = c /\ g.l = Names(S, c) /\ g.r = Names(T, c)
      BY <1>1, <1>7
    <3> QED
      BY <1>10, <2>2, <3>2 DEF Pending
  <2> QED
    BY <2>1, <2>2
<1>11. ASSUME p # c, ~IsStrictPrefix(c, p) PROVE Pending(V, p) <=> Pending(W, p)
  <2>1. ~(IsStrictPrefix(f.dir, p) /\ p[Len(f.dir) + 1] = n)
    BY <1>3, <1>11
  <2>2. ASSUME Pending(V, p) PROVE Pending(W, p)
    BY <1>1, <1>2, <1>5, <1>7, <1>11, <2>1, <2>2 DEF Pending
  <2>3. ASSUME Pending(W, p) PROVE Pending(V, p)
    BY <1>2, <1>7, <2>1, <2>3 DEF Pending
  <2> QED
    BY <2>2, <2>3
<1> QED
  BY <1>8, <1>9, <1>10, <1>11 DEF c, V

\* What a call leaves behind when it returns is greater than every name of
\* one of its two directories.
LEMMA WalkReturns ==
    ASSUME NEW W, NEW S, NEW T, WalkInv(W, S, T), NEW f \in W, f.l = {} \/ f.r = {}
    PROVE  /\ WalkInv(W \ {f}, S, T)
           /\ \A p : Pending(W \ {f}, p) => Pending(W, p)
           /\ \A p : Pending(W, p) /\ ~Pending(W \ {f}, p) =>
                 /\ IsStrictPrefix(f.dir, p)
                 /\ \/ \A m \in Names(S, f.dir) : m < p[Len(f.dir) + 1]
                    \/ \A m \in Names(T, f.dir) : m < p[Len(f.dir) + 1]
<1>1. WalkInv(W \ {f}, S, T)
  BY DEF WalkInv
<1>2. ASSUME NEW p, Pending(W, p), ~Pending(W \ {f}, p)
      PROVE  /\ IsStrictPrefix(f.dir, p)
             /\ \/ \A m \in Names(S, f.dir) : m < p[Len(f.dir) + 1]
                \/ \A m \in Names(T, f.dir) : m < p[Len(f.dir) + 1]
  <2>1. IsStrictPrefix(f.dir, p) /\ p[Len(f.dir) + 1] \in f.l \cup f.r
    BY <1>2 DEF Pending
  <2>2. \A k \in (Names(S, f.dir) \ f.l) \cup (Names(T, f.dir) \ f.r) :
           \A m \in f.l \cup f.r : k < m
    BY DEF WalkInv
  <2> QED
    BY <2>1, <2>2
<1> QED
  BY <1>1, <1>2 DEF Pending

-----------------------------------------------------------------------------
(* Trees.                                                                  *)

LEMMA TreeFacts ==
    ASSUME NEW t \in Trees
    PROVE  /\ DOMAIN t \subseteq Paths
           /\ DOMAIN t \subseteq Seq(Nat) \ {<<>>}
           /\ Consistent(DOMAIN t)
           /\ \A p \in DOMAIN t : t[p] \in Contents
           /\ t = [p \in DOMAIN t |-> t[p]]
<1>1. PICK S \in SUBSET Paths : Consistent(S) /\ t \in [S -> Contents]
  BY DEF Trees
<1>2. DOMAIN t = S
  BY <1>1
<1> QED
  BY <1>1, <1>2, PathAssumption

LEMMA TreeFrom ==
    ASSUME NEW S \in SUBSET Paths, Consistent(S), NEW t \in [S -> Contents]
    PROVE  t \in Trees
BY DEF Trees

LEMMA NoTreeType == NoTree \in Trees /\ DOMAIN NoTree = {}
<1>1. NoTree \in [{} -> Contents] /\ DOMAIN NoTree = {}
  BY DEF NoTree
<1>2. Consistent({}) /\ {} \in SUBSET Paths
  BY DEF Consistent
<1> QED
  BY <1>1, <1>2, TreeFrom

\* One tree over another.
LEMMA Merged ==
    ASSUME NEW s, NEW t
    PROVE  /\ DOMAIN Over(s, t) = DOMAIN s \cup DOMAIN t
           /\ \A p \in DOMAIN s : Over(s, t)[p] = s[p]
           /\ \A p \in DOMAIN t \ DOMAIN s : Over(s, t)[p] = t[p]
BY DEF Over

LEMMA MergedType ==
    ASSUME NEW s, NEW t \in Trees, DOMAIN s \subseteq Paths,
           \A p \in DOMAIN s : s[p] \in Contents,
           Consistent(DOMAIN s \cup DOMAIN t)
    PROVE  Over(s, t) \in Trees
<1> DEFINE S == DOMAIN s \cup DOMAIN t
<1>1. S \in SUBSET Paths /\ Consistent(S)
  BY TreeFacts
<1>2. Over(s, t) \in [S -> Contents]
  BY TreeFacts DEF Over
<1> QED
  BY <1>1, <1>2, TreeFrom

LEMMA StateFacts ==
    ASSUME TypeOK
    PROVE  /\ \A v \in {ORG} \cup Versions :
                 /\ src[v] \in Trees /\ DOMAIN src[v] \subseteq Seq(Nat) \ {<<>>}
                 /\ skin[v] \in Trees /\ DOMAIN skin[v] \subseteq Seq(Nat) \ {<<>>}
           /\ \A v \in Versions :
                 /\ molt[v] \in Trees /\ DOMAIN molt[v] \subseteq DOMAIN src[ORG]
                 /\ dirs[v] \subseteq Dirs
                 /\ \A d \in dirs[v] : IsDir(src[ORG], d)
                 /\ Entries(v) \subseteq Seq(Nat) \ {<<>>}
<1>1. ASSUME NEW v \in {ORG} \cup Versions PROVE src[v] \in Trees /\ skin[v] \in Trees
  BY DEF TypeOK
<1>2. ASSUME NEW v \in Versions
      PROVE  /\ molt[v] \in Trees /\ DOMAIN molt[v] \subseteq DOMAIN src[ORG]
             /\ dirs[v] \subseteq Dirs
             /\ \A d \in dirs[v] : IsDir(src[ORG], d)
  BY DEF TypeOK
<1>3. ASSUME NEW v \in Versions PROVE Entries(v) \subseteq Seq(Nat) \ {<<>>}
  <2>1. DOMAIN molt[v] \subseteq Seq(Nat) \ {<<>>}
    BY <1>2, TreeFacts
  <2> QED
    BY <1>2, <2>1, DirsArePaths DEF Entries
<1> QED
  BY <1>1, <1>2, <1>3, TreeFacts

\* A directory of a tree, or of a molt, is one the trees may have.
LEMMA DirIsKnown ==
    ASSUME NEW t \in Trees, NEW d \in Seq(Nat), d # <<>>, IsDir(t, d)
    PROVE  d \in Dirs
<1>1. PICK p \in DOMAIN t : IsStrictPrefix(d, p)
  BY DEF IsDir
<1>2. p \in Paths /\ p \in Seq(Nat)
  BY TreeFacts
<1>3. d \in Parents(p)
  BY <1>1, <1>2, ParentsArePrefixes
<1> QED
  BY <1>2, <1>3 DEF Dirs

-----------------------------------------------------------------------------
(* The passes of molt and ssu_diff are passes of a walk.                   *)

LEMMA MoltPass ==
    ASSUME TypeOK, MoltInv, NEW v \in Versions, NEW f \in walk, NEW n \in f.l \cup f.r,
           MoltStep(v, f, n)
    PROVE  LET S == DOMAIN skin[ORG]
               T == DOMAIN skin[v]
               c == Append(f.dir, n)
               P == IF n \in f.l \cap f.r /\ IsDir(skin[ORG], c) /\ IsDir(skin[v], c)
                    THEN {Call(S, T, c)} ELSE {}
           IN  /\ IsPass(walk, S, T, f, n, P)
               /\ walk' = Passed(walk, f, n, P)
               /\ WalkInv(walk', S, T)
<1> DEFINE S == DOMAIN skin[ORG]
           T == DOMAIN skin[v]
           c == Append(f.dir, n)
           P == IF n \in f.l \cap f.r /\ IsDir(skin[ORG], c) /\ IsDir(skin[v], c)
                THEN {Call(S, T, c)} ELSE {}
<1>1. S \subseteq Seq(Nat) /\ T \subseteq Seq(Nat) /\ skin[v] \in Trees
  BY StateFacts
<1>2. tool = {v} /\ WalkInv(walk, S, T) /\ f \in Calls
  BY DEF MoltStep, MoltInv, WalkInv
<1>3. f.dir \in Seq(Nat) /\ n \in Nat
  BY <1>2, CallFields
<1>4. c \in Seq(Nat) /\ c # <<>>
  BY <1>3, Appended
<1>5. IsDir(skin[v], c) => c \in Dirs
  BY <1>1, <1>4, DirIsKnown
<1>6. (\A g \in walk : Len(g.dir) <= Len(f.dir)) /\ (\A m \in f.l \cup f.r : n <= m)
  BY DEF MoltStep, Ahead, Top
<1>7. P = {} \/ (c \in Dirs /\ P = {Call(S, T, c)})
  BY <1>5
<1>8. walk' = Passed(walk, f, n, P)
  BY DEF MoltStep, Passed
<1> HIDE DEF P, S, T
<1>9. IsPass(walk, S, T, f, n, P)
  BY <1>1, <1>2, <1>6, <1>7 DEF IsPass
<1>10. WalkInv(walk', S, T)
  BY <1>8, <1>9, WalkPasses
<1> QED
  BY <1>8, <1>9, <1>10 DEF P, S, T

LEMMA DiffPass ==
    ASSUME TypeOK, DiffInv, NEW f \in walk, NEW n \in f.l \cup f.r, DiffStep(f, n)
    PROVE  LET S == Entries(1)
               T == Entries(2)
               c == Append(f.dir, n)
               P == IF n \in f.l \cap f.r /\ c \in dirs[1] \cap dirs[2]
                    THEN {Call(S, T, c)} ELSE {}
           IN  /\ IsPass(walk, S, T, f, n, P)
               /\ walk' = Passed(walk, f, n, P)
               /\ WalkInv(walk', S, T)
<1> DEFINE S == Entries(1)
           T == Entries(2)
           c == Append(f.dir, n)
           P == IF n \in f.l \cap f.r /\ c \in dirs[1] \cap dirs[2]
                THEN {Call(S, T, c)} ELSE {}
<1>1. S \subseteq Seq(Nat) /\ T \subseteq Seq(Nat) /\ dirs[1] \subseteq Dirs
  BY StateFacts DEF Versions
<1>2. WalkInv(walk, S, T)
  BY DEF DiffStep, DiffInv
<1>3. (\A g \in walk : Len(g.dir) <= Len(f.dir)) /\ (\A m \in f.l \cup f.r : n <= m)
  BY DEF DiffStep, Ahead, Top
<1>4. P = {} \/ (c \in Dirs /\ P = {Call(S, T, c)})
  BY <1>1
<1>5. walk' = Passed(walk, f, n, P)
  BY DEF DiffStep, Passed
<1> HIDE DEF P, S, T
<1>6. IsPass(walk, S, T, f, n, P)
  BY <1>1, <1>2, <1>3, <1>4 DEF IsPass
<1>7. WalkInv(walk', S, T)
  BY <1>5, <1>6, WalkPasses
<1> QED
  BY <1>5, <1>6, <1>7 DEF P, S, T

LEMMA CopyFacts ==
    ASSUME TypeOK, NEW v \in Versions, NEW c \in DOMAIN src[ORG]
    PROVE  /\ CopyOf(v, c) \in Trees
           /\ DOMAIN CopyOf(v, c) \subseteq DOMAIN src[ORG]
           /\ Parents(c) \subseteq {d \in Dirs : IsDir(src[ORG], d)}
           /\ DOMAIN CopyOf(v, c) = DOMAIN molt[v] \cup ({c} \cap DOMAIN src[v])
           /\ c \in DOMAIN src[v] => CopyOf(v, c)[c] = src[v][c]
           /\ \A p \in DOMAIN molt[v] \ {c} : CopyOf(v, c)[p] = molt[v][p]
<1>1. /\ src[ORG] \in Trees /\ src[v] \in Trees
      /\ molt[v] \in Trees /\ DOMAIN molt[v] \subseteq DOMAIN src[ORG]
  BY StateFacts
<1>2. c \in Paths /\ c \in Seq(Nat)
  BY <1>1, TreeFacts
<1>3. ASSUME NEW d \in Parents(c) PROVE d \in Dirs /\ IsDir(src[ORG], d)
  <2>1. IsStrictPrefix(d, c)
    BY <1>2, ParentsArePrefixes
  <2> QED
    BY <1>2, <2>1 DEF Dirs, IsDir
<1>4. CASE c \in DOMAIN src[v]
  <2> DEFINE s == [p \in {c} |-> src[v][p]]
  <2>1. DOMAIN s = {c} /\ s[c] = src[v][c] /\ src[v][c] \in Contents
    BY <1>1, <1>4, TreeFacts
  <2>2. CopyOf(v, c) = Over(s, molt[v])
    BY <1>4 DEF CopyOf
  <2> HIDE DEF s
  <2>3. Consistent(DOMAIN s \cup DOMAIN molt[v])
    <3>1. DOMAIN s \cup DOMAIN molt[v] \subseteq DOMAIN src[ORG]
      BY <1>1, <2>1
    <3>2. Consistent(DOMAIN src[ORG])
      BY <1>1, TreeFacts
    <3> QED
      BY <3>1, <3>2 DEF Consistent
  <2>4. Over(s, molt[v]) \in Trees
    BY <1>1, <1>2, <2>1, <2>3, MergedType
  <2>5. /\ DOMAIN Over(s, molt[v]) = DOMAIN molt[v] \cup {c}
        /\ Over(s, molt[v])[c] = src[v][c]
        /\ \A p \in DOMAIN molt[v] \ {c} : Over(s, molt[v])[p] = molt[v][p]
    <3>1. /\ DOMAIN Over(s, molt[v]) = DOMAIN s \cup DOMAIN molt[v]
          /\ \A p \in DOMAIN s : Over(s, molt[v])[p] = s[p]
          /\ \A p \in DOMAIN molt[v] \ DOMAIN s : Over(s, molt[v])[p] = molt[v][p]
      BY Merged
    <3> QED
      BY <2>1, <3>1
  <2> QED
    BY <1>1, <1>3, <1>4, <2>2, <2>4, <2>5
<1>5. CASE c \notin DOMAIN src[v]
  BY <1>1, <1>3, <1>5 DEF CopyOf
<1> QED
  BY <1>4, <1>5

-----------------------------------------------------------------------------
(* Type correctness.                                                       *)

LEMMA TypeInit == Init => TypeOK
<1> SUFFICES ASSUME Init PROVE TypeOK
  OBVIOUS
<1>1. src \in [{ORG} \cup Versions -> Trees]
  BY DEF Init
<1>2. skin \in [{ORG} \cup Versions -> Trees]
  BY <1>1, NoTreeType DEF Init
<1>3. molt \in [Versions -> {t \in Trees : DOMAIN t \subseteq DOMAIN src[ORG]}]
  BY NoTreeType DEF Init
<1>4. dirs \in [Versions -> SUBSET {p \in Dirs : IsDir(src[ORG], p)}]
  BY DEF Init
<1>5. edits \in 0..MaxEdits
  BY EditAssumption DEF Init
<1>6. /\ shed = {} /\ skinned = {} /\ molted = {}
      /\ edited \in [Versions -> SUBSET Paths] /\ touched \in [Versions -> SUBSET Paths]
      /\ tool = {} /\ walk = {} /\ compared \in BOOLEAN
  BY DEF Init
<1> QED
  BY <1>1, <1>2, <1>3, <1>4, <1>5, <1>6 DEF TypeOK

LEMMA TypeStep == IInv /\ [Next]_vars => TypeOK'
<1> SUFFICES ASSUME IInv, [Next]_vars PROVE TypeOK'
  OBVIOUS
<1> USE DEF IInv
<1>1. ASSUME NEW v \in Versions, Skin(v) PROVE TypeOK'
  <2>1. /\ src[v] \in Trees /\ skin[v] \in Trees
        /\ DOMAIN src[v] \subseteq Paths
        /\ \A p \in DOMAIN src[v] : src[v][p] \in Contents
    BY StateFacts, TreeFacts
  <2>2. Consistent(DOMAIN src[v] \cup DOMAIN skin[v])
    BY DEF TreesInv
  <2>3. SkinOf(v) \in Trees
    BY <2>1, <2>2, MergedType DEF SkinOf
  <2>4. skin' \in [{ORG} \cup Versions -> Trees]
    BY <1>1, <2>3 DEF Skin, TypeOK
  <2> QED
    BY <1>1, <2>4 DEF Skin, TypeOK
<1>2. ASSUME NEW v \in Versions, Molt(v) PROVE TypeOK'
  <2>1. DOMAIN skin[ORG] \in SUBSET Seq(Nat) /\ DOMAIN skin[v] \in SUBSET Seq(Nat)
    BY StateFacts
  <2>2. walk' = {Call(DOMAIN skin[ORG], DOMAIN skin[v], <<>>)} /\ tool' = {v}
    BY <1>2 DEF Molt
  <2>3. WalkInv({Call(DOMAIN skin[ORG], DOMAIN skin[v], <<>>)}, DOMAIN skin[ORG], DOMAIN skin[v])
    BY <2>1, WalkStarts
  <2>4. walk' \subseteq Calls
    BY <2>2, <2>3 DEF WalkInv
  <2>5. walk' # {} /\ tool' # {}
    BY <2>2
  <2> QED
    BY <1>2, <2>2, <2>4, <2>5 DEF Molt, TypeOK
<1>3. ASSUME NEW v \in Versions, NEW t \in Trees, Edit(v, t) PROVE TypeOK'
  <2>1. src' \in [{ORG} \cup Versions -> Trees] /\ src'[ORG] = src[ORG]
    BY <1>3 DEF Edit, TypeOK, ORG, Versions
  <2>2. edits' \in 0..MaxEdits
    BY <1>3, EditAssumption DEF Edit, TypeOK
  <2>3. edited' \in [Versions -> SUBSET Paths] /\ touched' \in [Versions -> SUBSET Paths]
    <3>1. Differing(t, src[v]) \subseteq Paths
      BY <1>3 DEF Edit
    <3> QED
      BY <1>3, <3>1 DEF Edit, TypeOK
  <2>4. dirs' \in [Versions -> SUBSET {p \in Dirs : IsDir(src'[ORG], p)}]
    BY <1>3, <2>1 DEF Edit, TypeOK
  <2> QED
    BY <1>3, <2>1, <2>2, <2>3, <2>4 DEF Edit, TypeOK
<1>4. CASE Compare
  <2>1. Entries(1) \in SUBSET Seq(Nat) /\ Entries(2) \in SUBSET Seq(Nat)
    BY StateFacts DEF Versions
  <2>2. walk' = {Call(Entries(1), Entries(2), <<>>)} /\ tool' = Versions
    BY <1>4 DEF Compare
  <2>3. WalkInv({Call(Entries(1), Entries(2), <<>>)}, Entries(1), Entries(2))
    BY <2>1, WalkStarts
  <2>4. walk' \subseteq Calls
    BY <2>2, <2>3 DEF WalkInv
  <2>5. walk' # {} /\ tool' # {}
    BY <2>2 DEF Versions
  <2> QED
    BY <1>4, <2>4, <2>5 DEF Compare, TypeOK
<1>5. ASSUME NEW f \in walk, Return(f) PROVE TypeOK'
  BY <1>5 DEF Return, TypeOK
<1>6. ASSUME NEW f \in walk, NEW n \in f.l \cup f.r, DiffStep(f, n) PROVE TypeOK'
  <2>1. walk' # {}
    BY <1>6 DEF DiffStep
  <2>2. walk' \subseteq Calls
    BY <1>6, DiffPass DEF WalkInv
  <2> QED
    BY <1>6, <2>1, <2>2 DEF DiffStep, TypeOK
<1>7. ASSUME NEW v \in Versions, NEW f \in walk, NEW n \in f.l \cup f.r, MoltStep(v, f, n)
      PROVE  TypeOK'
  <2>1. walk' # {}
    BY <1>7 DEF MoltStep
  <2>2. walk' \subseteq Calls
    BY <1>7, MoltPass DEF WalkInv
  <2> DEFINE c == Append(f.dir, n)
  <2>3. CASE ToCopy(v, f, n)
    <3>1. c \in DOMAIN src[ORG]
      BY <2>3 DEF ToCopy, IsFile, TreesInv
    <3>2. /\ CopyOf(v, c) \in {t \in Trees : DOMAIN t \subseteq DOMAIN src[ORG]}
          /\ Parents(c) \subseteq {d \in Dirs : IsDir(src[ORG], d)}
      BY <3>1, CopyFacts
    <3>3. molt' = [molt EXCEPT ![v] = CopyOf(v, c)]
          /\ dirs' = [dirs EXCEPT ![v] = @ \cup Parents(c)]
      BY <1>7, <2>3 DEF MoltStep
    <3> HIDE DEF c
    <3>4. molt' \in [Versions -> {t \in Trees : DOMAIN t \subseteq DOMAIN src[ORG]}]
      BY <3>2, <3>3 DEF TypeOK
    <3>5. dirs' \in [Versions -> SUBSET {p \in Dirs : IsDir(src[ORG], p)}]
      BY <3>2, <3>3 DEF TypeOK
    <3> QED
      BY <1>7, <2>1, <2>2, <3>4, <3>5 DEF MoltStep, TypeOK
  <2>4. CASE ~ToCopy(v, f, n)
    BY <1>7, <2>1, <2>2, <2>4 DEF MoltStep, TypeOK
  <2> QED
    BY <2>3, <2>4
<1>8. CASE UNCHANGED vars
  BY <1>8 DEF vars, TypeOK
<1> QED
  BY <1>1, <1>2, <1>3, <1>4, <1>5, <1>6, <1>7, <1>8 DEF Next

-----------------------------------------------------------------------------
(* The trees stay consistent.                                              *)

LEMMA ParentsOfParents ==
    ASSUME NEW p \in Seq(Nat), NEW d \in Parents(p)
    PROVE  Parents(d) \subseteq Parents(p)
<1>1. d \in Seq(Nat) /\ IsStrictPrefix(d, p)
  BY ParentsArePrefixes
<1> SUFFICES ASSUME NEW e \in Parents(d) PROVE e \in Parents(p)
  OBVIOUS
<1>2. e \in Seq(Nat) /\ e # <<>> /\ IsStrictPrefix(e, d)
  BY <1>1, ParentsArePrefixes
<1>3. IsStrictPrefix(e, p)
  BY <1>1, <1>2, PrefixTransitive
<1> QED
  BY <1>2, <1>3, ParentsArePrefixes

LEMMA TreesInit == Init => TreesInv
<1> SUFFICES ASSUME Init PROVE TreesInv
  OBVIOUS
<1>1. skin[ORG] = src[ORG] /\ \A v \in Versions : skin[v] = NoTree /\ molt[v] = NoTree
  BY DEF Init, ORG, Versions
<1>2. ASSUME NEW v \in Versions PROVE Consistent(DOMAIN src[v] \cup DOMAIN skin[v])
  <2>1. src[v] \in Trees
    BY DEF Init
  <2>2. Consistent(DOMAIN src[v])
    BY <2>1, TreeFacts
  <2>3. DOMAIN src[v] \cup DOMAIN skin[v] = DOMAIN src[v]
    BY <1>1, NoTreeType
  <2> QED
    BY <2>2, <2>3
<1>3. ASSUME NEW v \in Versions PROVE Entries(v) = {}
  BY <1>1, NoTreeType DEF Entries, Init
<1> QED
  BY <1>1, <1>2, <1>3 DEF TreesInv

LEMMA TreesStep == IInv /\ [Next]_vars => TreesInv'
<1> SUFFICES ASSUME IInv, [Next]_vars PROVE TreesInv'
  OBVIOUS
<1> USE DEF IInv
<1>1. ASSUME NEW v \in Versions, Skin(v) PROVE TreesInv'
  <2>1. skin'[v] = SkinOf(v) /\ \A w \in ({ORG} \cup Versions) \ {v} : skin'[w] = skin[w]
    BY <1>1 DEF Skin, TypeOK
  <2>2. DOMAIN skin'[v] = DOMAIN src[v] \cup DOMAIN skin[v]
    <3>1. DOMAIN Over(src[v], skin[v]) = DOMAIN src[v] \cup DOMAIN skin[v]
      BY Merged
    <3> QED
      BY <2>1, <3>1 DEF SkinOf
  <2>3. skin'[ORG] = src'[ORG]
    BY <1>1, <2>1 DEF Skin, TreesInv, ORG, Versions
  <2>4. ASSUME NEW w \in Versions
        PROVE  Consistent(DOMAIN src'[w] \cup DOMAIN skin'[w])
    <3>1. DOMAIN src'[w] \cup DOMAIN skin'[w] = DOMAIN src[w] \cup DOMAIN skin[w]
      BY <1>1, <2>1, <2>2 DEF Skin
    <3> QED
      BY <3>1 DEF TreesInv
  <2>5. ASSUME NEW w \in Versions
        PROVE  /\ \A p \in Entries(w)' : Parents(p) \subseteq dirs'[w]
               /\ w \notin skinned' => skin'[w] = NoTree /\ molt'[w] = NoTree
    BY <1>1, <2>1 DEF Skin, TreesInv, Entries
  <2> QED
    BY <2>3, <2>4, <2>5 DEF TreesInv
<1>2. ASSUME NEW v \in Versions, NEW t \in Trees, Edit(v, t) PROVE TreesInv'
  <2>1. src'[v] = t /\ \A w \in ({ORG} \cup Versions) \ {v} : src'[w] = src[w]
    BY <1>2 DEF Edit, TypeOK
  <2>2. skin'[ORG] = src'[ORG]
    BY <1>2, <2>1 DEF Edit, TreesInv, ORG, Versions
  <2>3. ASSUME NEW w \in Versions
        PROVE  /\ Consistent(DOMAIN src'[w] \cup DOMAIN skin'[w])
               /\ \A p \in Entries(w)' : Parents(p) \subseteq dirs'[w]
               /\ w \notin skinned' => skin'[w] = NoTree /\ molt'[w] = NoTree
    BY <1>2, <2>1 DEF Edit, TreesInv, Entries
  <2> QED
    BY <2>2, <2>3 DEF TreesInv
<1>3. ASSUME NEW v \in Versions, NEW f \in walk, NEW n \in f.l \cup f.r, MoltStep(v, f, n)
      PROVE  TreesInv'
  <2> DEFINE c == Append(f.dir, n)
  <2>1. CASE ToCopy(v, f, n)
    <3>1. c \in DOMAIN src[ORG]
      BY <2>1 DEF ToCopy, IsFile, TreesInv
    <3>2. c \in Seq(Nat)
      BY <3>1, StateFacts
    <3>3. DOMAIN CopyOf(v, c) \subseteq DOMAIN molt[v] \cup {c}
      <4>1. DOMAIN CopyOf(v, c) = DOMAIN molt[v] \cup ({c} \cap DOMAIN src[v])
        BY <3>1, CopyFacts
      <4> QED
        BY <4>1
    <3>4. /\ molt' = [molt EXCEPT ![v] = CopyOf(v, c)]
          /\ dirs' = [dirs EXCEPT ![v] = @ \cup Parents(c)]
      BY <1>3, <2>1 DEF MoltStep
    <3> HIDE DEF c
    <3>5. /\ molt'[v] = CopyOf(v, c) /\ dirs'[v] = dirs[v] \cup Parents(c)
          /\ \A w \in Versions \ {v} : molt'[w] = molt[w] /\ dirs'[w] = dirs[w]
      BY <3>4 DEF TypeOK
    <3>6. ASSUME NEW w \in Versions, NEW p \in Entries(w)'
          PROVE  Parents(p) \subseteq dirs'[w]
      <4>1. CASE w # v
        BY <3>5, <4>1 DEF TreesInv, Entries
      <4>2. CASE w = v
        <5>1. p \in Entries(v) \/ p = c \/ p \in Parents(c)
          BY <3>3, <3>5, <4>2 DEF Entries
        <5>2. p \in Entries(v) => Parents(p) \subseteq dirs[v]
          BY DEF TreesInv
        <5>3. p \in Parents(c) => Parents(p) \subseteq Parents(c)
          BY <3>2, ParentsOfParents
        <5> QED
          BY <3>5, <4>2, <5>1, <5>2, <5>3
      <4> QED
        BY <4>1, <4>2
    <3>7. v \in skinned
      BY <1>3 DEF MoltStep, TypeOK
    <3>8. ASSUME NEW w \in Versions
          PROVE  /\ Consistent(DOMAIN src'[w] \cup DOMAIN skin'[w])
                 /\ w \notin skinned' => skin'[w] = NoTree /\ molt'[w] = NoTree
      BY <1>3, <3>5, <3>7 DEF MoltStep, TreesInv
    <3>9. skin'[ORG] = src'[ORG]
      BY <1>3 DEF MoltStep, TreesInv
    <3> QED
      BY <3>6, <3>8, <3>9 DEF TreesInv
  <2>2. CASE ~ToCopy(v, f, n)
    BY <1>3, <2>2 DEF MoltStep, TreesInv, Entries
  <2> QED
    BY <2>1, <2>2
<1>4. ASSUME UNCHANGED <<src, skin, molt, dirs, skinned>>
      PROVE  TreesInv'
  BY <1>4 DEF TreesInv, Entries
<1>5. ASSUME \/ \E v \in Versions : Molt(v)
             \/ Compare
             \/ \E f \in walk : Return(f) \/ \E n \in f.l \cup f.r : DiffStep(f, n)
             \/ UNCHANGED vars
      PROVE  UNCHANGED <<src, skin, molt, dirs, skinned>>
  BY <1>5 DEF Molt, Compare, Return, DiffStep, vars
<1> QED
  BY <1>1, <1>2, <1>3, <1>4, <1>5 DEF Next

-----------------------------------------------------------------------------
(* molt.                                                                   *)

\* A pass finds its name in every tree that has something at or below it.
LEMMA NameIsListed ==
    ASSUME NEW W, NEW S, NEW T, NEW f, NEW n, NEW P, IsPass(W, S, T, f, n, P),
           NEW p \in Seq(Nat), p = Append(f.dir, n) \/ IsStrictPrefix(Append(f.dir, n), p)
    PROVE  /\ p \in S => n \in f.l
           /\ p \in T => n \in f.r
<1>1. f.dir \in Seq(Nat) /\ n \in Nat
  BY PassFacts
<1>2. IsStrictPrefix(f.dir, p) /\ p[Len(f.dir) + 1] = n
  BY <1>1, BelowName
<1>3. S \in SUBSET Seq(Nat) /\ T \in SUBSET Seq(Nat)
  BY DEF IsPass
<1>4. (p \in S => n \in Names(S, f.dir)) /\ (p \in T => n \in Names(T, f.dir))
  BY <1>1, <1>2, <1>3, NameFacts
<1>5. \A k \in (Names(S, f.dir) \ f.l) \cup (Names(T, f.dir) \ f.r) :
         \A m \in f.l \cup f.r : k < m
  BY DEF IsPass, WalkInv
<1>6. n \in f.l \cup f.r
  BY DEF IsPass
<1>7. n \notin (Names(S, f.dir) \ f.l) \cup (Names(T, f.dir) \ f.r)
  BY <1>1, <1>5, <1>6
<1> QED
  BY <1>4, <1>7

LEMMA EntryIsListed ==
    ASSUME NEW W, NEW S, NEW T, NEW f, NEW n, NEW P, IsPass(W, S, T, f, n, P)
    PROVE  /\ Append(f.dir, n) \in S => n \in f.l
           /\ Append(f.dir, n) \in T => n \in f.r
<1>1. PICK p \in Seq(Nat) : p = Append(f.dir, n)
  BY PassFacts
<1>2. p = Append(f.dir, n) \/ IsStrictPrefix(Append(f.dir, n), p)
  BY <1>1
<1>3. (p \in S => n \in f.l) /\ (p \in T => n \in f.r)
  BY <1>2, NameIsListed
<1> QED
  BY <1>1, <1>3

LEMMA MoltInit == Init => MoltInv
<1> SUFFICES ASSUME Init PROVE MoltInv
  OBVIOUS
<1>1. tool = {} /\ skinned = {} /\ molted = {}
  BY DEF Init
<1> QED
  BY <1>1 DEF MoltInv

\* The histories of the edits stay, and what they are about.
LEMMA MoltUnchanged ==
    ASSUME MoltInv,
           UNCHANGED <<src, skin, molt, skinned, molted, edited, touched>>,
           tool # tool' \/ walk # walk' =>
               \A v \in Versions : tool # {v} /\ tool' # {v}
    PROVE  MoltInv'
<1>1. \A v \in Versions : /\ Changed(v)' = Changed(v)
                          /\ \A p : /\ Hashed(v, p)' <=> Hashed(v, p)
                                    /\ Clean(v, p)' <=> Clean(v, p)
                                    /\ Copied(v, p)' <=> Copied(v, p)
  BY DEF Changed, Hashed, Clean, Copied
<1> QED
  BY <1>1 DEF MoltInv

LEMMA SkinKeepsMolts ==
    ASSUME IInv, NEW v \in Versions, Skin(v)
    PROVE  MoltInv'
<1> USE DEF IInv
<1>1. skin'[v] = SkinOf(v) /\ \A w \in Versions \ {v} : skin'[w] = skin[w]
  BY DEF Skin, TypeOK
<1>2. /\ tool = {} /\ tool' = {} /\ molted' = molted \ {v} /\ skinned' = skinned \cup {v}
      /\ edited' = edited /\ src' = src /\ molt' = molt
      /\ \A w \in Versions \ {v} : touched'[w] = touched[w]
  BY DEF Skin, TypeOK
<1>3. \A w \in Versions : Changed(w)' = Changed(w) /\ \A p : Copied(w, p)' <=> Copied(w, p)
  BY <1>2 DEF Changed, Copied
<1>4. ASSUME NEW w \in Versions \ {v}
      PROVE  \A p : (Hashed(w, p)' <=> Hashed(w, p)) /\ (Clean(w, p)' <=> Clean(w, p))
  BY <1>1, <1>2, <1>3 DEF Hashed, Clean
<1>5. /\ DOMAIN skin'[v] = DOMAIN src[v] \cup DOMAIN skin[v]
      /\ \A p \in DOMAIN src[v] : skin'[v][p] = src[v][p]
  <2>1. /\ DOMAIN Over(src[v], skin[v]) = DOMAIN src[v] \cup DOMAIN skin[v]
        /\ \A p \in DOMAIN src[v] : Over(src[v], skin[v])[p] = src[v][p]
    BY Merged
  <2> QED
    BY <1>1, <2>1 DEF SkinOf
<1>6. \A p : Hashed(v, p)'
  BY <1>2, <1>5 DEF Hashed
<1>7. ASSUME NEW p \in Paths \ edited[v] PROVE Clean(v, p)'
  <2>1. /\ p \in DOMAIN skin[v] => p \in DOMAIN src[v]
        /\ p \in DOMAIN molt[v] => p \in Changed(v)
    <3>1. CASE v \in skinned
      BY <3>1 DEF MoltInv, Clean
    <3>2. CASE v \notin skinned
      BY <3>2, NoTreeType DEF TreesInv
    <3> QED
      BY <3>1, <3>2
  <2> QED
    BY <1>2, <1>3, <1>5, <1>6, <2>1 DEF Clean
<1>8. ASSUME NEW w \in Versions, w \in skinned'
      PROVE  /\ \A p \in Paths \ touched'[w] : Hashed(w, p)'
             /\ \A p \in Paths \ edited'[w] : Clean(w, p)'
  <2>1. CASE w = v
    BY <1>2, <1>6, <1>7, <2>1
  <2>2. CASE w # v
    BY <1>2, <1>4, <1>8, <2>2 DEF MoltInv
  <2> QED
    BY <2>1, <2>2
<1>9. ASSUME NEW w \in Versions, w \in molted'
      PROVE  \A p \in Changed(w)' \ touched'[w] : Copied(w, p)'
  <2>1. w \in molted /\ w # v
    BY <1>2, <1>9
  <2>2. \A p \in Changed(w) \ touched[w] : Copied(w, p)
    BY <1>2, <2>1 DEF MoltInv
  <2> QED
    BY <1>2, <1>3, <2>1, <2>2
<1> QED
  BY <1>2, <1>8, <1>9 DEF MoltInv

LEMMA EditKeepsMolts ==
    ASSUME IInv, NEW v \in Versions, NEW t \in Trees, Edit(v, t)
    PROVE  MoltInv'
<1> USE DEF IInv
<1>1. \A w \in ({ORG} \cup Versions) \ {v} : src'[w] = src[w]
  BY DEF Edit, TypeOK
<1>2. v # ORG
  BY DEF ORG, Versions
<1>3. UNCHANGED <<skin, molt, skinned, molted, tool, walk>> /\ src'[ORG] = src[ORG]
  BY <1>1, <1>2 DEF Edit
<1>4. ASSUME NEW w \in Versions \ {v}
      PROVE  /\ Changed(w)' = Changed(w)
             /\ \A p : /\ Hashed(w, p)' <=> Hashed(w, p)
                       /\ Clean(w, p)' <=> Clean(w, p)
                       /\ Copied(w, p)' <=> Copied(w, p)
             /\ touched'[w] = touched[w] /\ edited'[w] = edited[w]
  <2>1. src'[w] = src[w]
    BY <1>1
  <2>2. Changed(w)' = Changed(w)
    BY <1>3, <2>1 DEF Changed
  <2>3. touched'[w] = touched[w] /\ edited'[w] = edited[w]
    BY DEF Edit, TypeOK
  <2> QED
    BY <1>3, <2>1, <2>2, <2>3 DEF Hashed, Clean, Copied
<1>5. ASSUME NEW p, p \notin Differing(t, src[v])
      PROVE  /\ p \in Changed(v)' <=> p \in Changed(v)
             /\ Hashed(v, p)' <=> Hashed(v, p)
             /\ Clean(v, p)' <=> Clean(v, p)
             /\ p \in DOMAIN src[v] => (Copied(v, p)' <=> Copied(v, p))
  <2>1. src'[v] = t
    BY DEF Edit, TypeOK
  <2>2. /\ p \in DOMAIN src'[v] <=> p \in DOMAIN src[v]
        /\ p \in DOMAIN src[v] => src'[v][p] = src[v][p]
    BY <1>5, <2>1 DEF Differing
  <2>3. p \in Changed(v)' <=> p \in Changed(v)
    BY <1>3, <2>2 DEF Changed
  <2>4. Hashed(v, p)' <=> Hashed(v, p)
    BY <1>3, <2>2 DEF Hashed
  <2> QED
    BY <1>3, <2>2, <2>3, <2>4 DEF Clean, Copied
<1>6. /\ touched'[v] = touched[v] \cup Differing(t, src[v])
      /\ v \in skinned => edited'[v] = edited[v] \cup Differing(t, src[v])
  BY DEF Edit, TypeOK
<1>7. ASSUME NEW w \in Versions, w \in skinned'
      PROVE  /\ \A p \in Paths \ touched'[w] : Hashed(w, p)'
             /\ \A p \in Paths \ edited'[w] : Clean(w, p)'
  <2>1. /\ \A p \in Paths \ touched[w] : Hashed(w, p)
        /\ \A p \in Paths \ edited[w] : Clean(w, p)
    BY <1>3, <1>7 DEF MoltInv
  <2>2. CASE w = v
    <3>1. v \in skinned
      BY <1>3, <1>7, <2>2
    <3>2. ASSUME NEW p \in Paths \ touched'[v] PROVE Hashed(v, p)'
      BY <1>5, <1>6, <2>1, <2>2, <3>2
    <3>3. ASSUME NEW p \in Paths \ edited'[v] PROVE Clean(v, p)'
      BY <1>5, <1>6, <2>1, <2>2, <3>1, <3>3
    <3> QED
      BY <2>2, <3>2, <3>3
  <2>3. CASE w # v
    BY <1>4, <2>1, <2>3
  <2> QED
    BY <2>2, <2>3
<1>8. ASSUME NEW w \in Versions, w \in molted', NEW p \in Changed(w)' \ touched'[w]
      PROVE  Copied(w, p)' \/ (tool' = {w} /\ Pending(walk', p))
  <2>1. \A q \in Changed(w) \ touched[w] : Copied(w, q) \/ (tool = {w} /\ Pending(walk, q))
    BY <1>3, <1>8 DEF MoltInv
  <2>2. /\ p \in Changed(w) \ touched[w]
        /\ p \in DOMAIN src[w] => (Copied(w, p)' <=> Copied(w, p))
    <3>1. CASE w = v
      BY <1>5, <1>6, <1>8, <3>1
    <3>2. CASE w # v
      BY <1>4, <1>8, <3>2
    <3> QED
      BY <3>1, <3>2
  <2>3. p \in DOMAIN src[w]
    BY <2>2 DEF Changed
  <2>4. Copied(w, p)' <=> Copied(w, p)
    BY <2>2, <2>3
  <2> QED
    BY <1>3, <2>1, <2>2, <2>4
<1>9. ASSUME NEW w \in Versions, tool' = {w}
      PROVE  WalkInv(walk', DOMAIN skin'[ORG], DOMAIN skin'[w])
  BY <1>3, <1>9 DEF MoltInv
<1> QED
  BY <1>7, <1>8, <1>9 DEF MoltInv

\* A path that both trees have is not left behind by a call that returns.
LEMMA CommonIsNotLeft ==
    ASSUME NEW W, NEW S \in SUBSET Seq(Nat), NEW T \in SUBSET Seq(Nat), WalkInv(W, S, T),
           NEW f \in W, f.l = {} \/ f.r = {}, NEW p \in S \cap T, Pending(W, p)
    PROVE  Pending(W \ {f}, p)
<1>1. SUFFICES ASSUME ~Pending(W \ {f}, p) PROVE FALSE
  OBVIOUS
<1>2. /\ IsStrictPrefix(f.dir, p)
      /\ \/ \A m \in Names(S, f.dir) : m < p[Len(f.dir) + 1]
         \/ \A m \in Names(T, f.dir) : m < p[Len(f.dir) + 1]
  BY <1>1, WalkReturns
<1>3. f \in Calls
  BY DEF WalkInv
<1>4. f.dir \in Seq(Nat)
  BY <1>3, CallFields
<1>5. /\ p[Len(f.dir) + 1] \in Names(S, f.dir) \cap Names(T, f.dir)
      /\ Names(S, f.dir) \subseteq Nat
  BY <1>2, <1>4, NameFacts
<1> QED
  BY <1>2, <1>5

\* The files that molt of v has to copy are in both trees it walks.
LEMMA ChangedIsWalked ==
    ASSUME IInv, NEW v \in skinned, NEW p \in Changed(v) \ touched[v]
    PROVE  /\ p \in DOMAIN skin[ORG] \cap DOMAIN skin[v]
           /\ skin[ORG][p] # skin[v][p]
           /\ p \in Seq(Nat) /\ p # <<>>
           /\ p \in DOMAIN src[v] /\ p \in DOMAIN src[ORG]
<1>1. p \in DOMAIN src[v] /\ p \in DOMAIN src[ORG] /\ src[v][p] # src[ORG][p]
  BY DEF Changed
<1>2. p \in Paths /\ p \in Seq(Nat) /\ p # <<>>
  BY <1>1, StateFacts, TreeFacts DEF IInv
<1>3. v \in Versions
  BY DEF IInv, TypeOK
<1>4. p \in DOMAIN skin[v] /\ src[v][p] = skin[v][p] /\ skin[ORG] = src[ORG]
  BY <1>1, <1>2, <1>3 DEF Hashed, IInv, MoltInv, TreesInv
<1> QED
  BY <1>1, <1>2, <1>4

LEMMA MoltBegins ==
    ASSUME IInv, NEW v \in Versions, Molt(v)
    PROVE  MoltInv'
<1> USE DEF IInv
<1> DEFINE S == DOMAIN skin[ORG]
           T == DOMAIN skin[v]
<1>1. /\ tool = {} /\ tool' = {v} /\ walk' = {Call(S, T, <<>>)}
      /\ UNCHANGED <<src, skin, molt, skinned, edited, touched>> /\ v \in skinned
  BY DEF Molt
<1>2. S \in SUBSET Seq(Nat) /\ T \in SUBSET Seq(Nat)
  BY StateFacts
<1>3. WalkInv(walk', S, T) /\ \A p \in S \cup T : p # <<>> => Pending(walk', p)
  BY <1>1, <1>2, WalkStarts
<1>4. \A w \in Versions : /\ Changed(w)' = Changed(w)
                          /\ \A p : /\ Hashed(w, p)' <=> Hashed(w, p)
                                    /\ Clean(w, p)' <=> Clean(w, p)
                                    /\ Copied(w, p)' <=> Copied(w, p)
  BY <1>1 DEF Changed, Hashed, Clean, Copied
<1>5. ASSUME NEW w \in Versions, w \in molted'
      PROVE  \A p \in Changed(w) \ touched[w] :
                Copied(w, p) \/ (tool' = {w} /\ Pending(walk', p))
  <2>1. CASE w \in molted
    BY <1>1, <2>1 DEF MoltInv
  <2>2. CASE w \notin molted
    <3>1. w = v
      BY <1>5, <2>2 DEF Molt
    <3>2. \A p \in Changed(v) \ touched[v] : p \in S /\ p # <<>>
      BY <1>1, ChangedIsWalked
    <3> QED
      BY <1>1, <1>3, <3>1, <3>2
  <2> QED
    BY <2>1, <2>2
<1>6. ASSUME NEW w \in Versions, tool' = {w} PROVE w = v
  BY <1>1, <1>6
<1> HIDE DEF S, T
<1>7. ASSUME NEW w \in Versions, tool' = {w}
      PROVE  WalkInv(walk', DOMAIN skin'[ORG], DOMAIN skin'[w])
  BY <1>1, <1>3, <1>6, <1>7 DEF S, T
<1>8. ASSUME NEW w \in Versions, w \in skinned'
      PROVE  /\ \A p \in Paths \ touched'[w] : Hashed(w, p)'
             /\ \A p \in Paths \ edited'[w] : Clean(w, p)'
  BY <1>1, <1>4, <1>8 DEF MoltInv
<1> QED
  BY <1>1, <1>4, <1>5, <1>7, <1>8 DEF MoltInv

LEMMA MoltReturns ==
    ASSUME IInv, NEW f \in walk, Return(f)
    PROVE  MoltInv'
<1> USE DEF IInv
<1>1. /\ f.l = {} \/ f.r = {}
      /\ walk' = walk \ {f}
      /\ tool' = IF walk' = {} THEN {} ELSE tool
      /\ UNCHANGED <<src, skin, molt, skinned, molted, edited, touched>>
  BY DEF Return
<1>2. \A w \in Versions : /\ Changed(w)' = Changed(w)
                          /\ \A p : /\ Hashed(w, p)' <=> Hashed(w, p)
                                    /\ Clean(w, p)' <=> Clean(w, p)
                                    /\ Copied(w, p)' <=> Copied(w, p)
  BY <1>1 DEF Changed, Hashed, Clean, Copied
<1>3. ASSUME NEW w \in Versions, tool' = {w}
      PROVE  WalkInv(walk', DOMAIN skin'[ORG], DOMAIN skin'[w])
  <2>1. tool = {w}
    BY <1>1, <1>3
  <2>2. WalkInv(walk, DOMAIN skin[ORG], DOMAIN skin[w])
    BY <2>1 DEF MoltInv
  <2> QED
    BY <1>1, <2>2, WalkReturns
<1>4. ASSUME NEW w \in Versions, w \in molted', NEW p \in Changed(w) \ touched[w]
      PROVE  Copied(w, p) \/ (tool' = {w} /\ Pending(walk', p))
  <2>1. SUFFICES ASSUME ~Copied(w, p) PROVE tool' = {w} /\ Pending(walk', p)
    OBVIOUS
  <2>2. w \in skinned /\ tool = {w} /\ Pending(walk, p)
    BY <1>1, <1>4, <2>1 DEF MoltInv, TypeOK
  <2>3. p \in DOMAIN skin[ORG] \cap DOMAIN skin[w]
    BY <2>2, ChangedIsWalked
  <2>4. /\ DOMAIN skin[ORG] \in SUBSET Seq(Nat) /\ DOMAIN skin[w] \in SUBSET Seq(Nat)
        /\ WalkInv(walk, DOMAIN skin[ORG], DOMAIN skin[w])
    BY <2>2, StateFacts DEF MoltInv
  <2>5. Pending(walk \ {f}, p)
    BY <1>1, <2>2, <2>3, <2>4, CommonIsNotLeft
  <2>6. walk' # {}
    BY <1>1, <2>5 DEF Pending
  <2> QED
    BY <1>1, <2>2, <2>5, <2>6
<1>5. ASSUME NEW w \in Versions, w \in skinned'
      PROVE  /\ \A p \in Paths \ touched'[w] : Hashed(w, p)'
             /\ \A p \in Paths \ edited'[w] : Clean(w, p)'
  BY <1>1, <1>2, <1>5 DEF MoltInv
<1> QED
  BY <1>1, <1>2, <1>3, <1>4, <1>5 DEF MoltInv

\* A pass of molt of v copies the changed file it is at, and leaves the
\* changed files below it to the call it makes.
LEMMA MoltPassCopies ==
    ASSUME IInv, NEW v \in Versions, NEW f \in walk, NEW n \in f.l \cup f.r,
           MoltStep(v, f, n), NEW p \in Changed(v) \ touched[v], Pending(walk, p)
    PROVE  Copied(v, p)' \/ Pending(walk', p)
<1> USE DEF IInv
<1> DEFINE S == DOMAIN skin[ORG]
           T == DOMAIN skin[v]
           c == Append(f.dir, n)
           P == IF n \in f.l \cap f.r /\ IsDir(skin[ORG], c) /\ IsDir(skin[v], c)
                THEN {Call(S, T, c)} ELSE {}
<1>1. IsPass(walk, S, T, f, n, P) /\ walk' = Passed(walk, f, n, P)
  BY MoltPass
<1>2. /\ p \in S \cap T /\ skin[ORG][p] # skin[v][p]
      /\ p \in Seq(Nat) /\ p \in DOMAIN src[v] /\ p \in DOMAIN src[ORG]
  <2>1. v \in skinned
    BY DEF MoltStep, TypeOK
  <2> QED
    BY <2>1, ChangedIsWalked
<1>3. p = c \/ IsStrictPrefix(c, p) => n \in f.l \cap f.r
  BY <1>1, <1>2, NameIsListed
<1>4. /\ IsStrictPrefix(c, p) =>
            (Pending(walk', p) <=> P # {} /\ p[Len(c) + 1] \in Names(S, c) \cup Names(T, c))
      /\ p # c /\ ~IsStrictPrefix(c, p) => Pending(walk', p)
  <2> HIDE DEF P, S, T
  <2>1. p \in Seq(Nat)
    BY <1>2
  <2>2. LET V == Passed(walk, f, n, P)
        IN  /\ IsStrictPrefix(c, p) =>
                 (Pending(V, p) <=> P # {} /\ p[Len(c) + 1] \in Names(S, c) \cup Names(T, c))
            /\ p # c /\ ~IsStrictPrefix(c, p) => (Pending(V, p) <=> Pending(walk, p))
    BY <1>1, <2>1, PendingPasses
  <2> HIDE DEF c
  <2> QED
    BY <1>1, <2>2
<1>5. CASE p = c
  <2>1. ToCopy(v, f, n)
    BY <1>2, <1>3, <1>5 DEF ToCopy, IsFile
  <2>2. molt' = [molt EXCEPT ![v] = CopyOf(v, c)] /\ src' = src
    BY <2>1 DEF MoltStep
  <2>3. molt'[v] = CopyOf(v, c)
    BY <2>2 DEF TypeOK
  <2>4. c \in DOMAIN CopyOf(v, c) /\ CopyOf(v, c)[c] = src[v][c]
    <3>1. /\ DOMAIN CopyOf(v, c) = DOMAIN molt[v] \cup ({c} \cap DOMAIN src[v])
          /\ c \in DOMAIN src[v] => CopyOf(v, c)[c] = src[v][c]
      BY <1>2, <1>5, CopyFacts
    <3> QED
      BY <1>2, <1>5, <3>1
  <2> QED
    BY <1>5, <2>2, <2>3, <2>4 DEF Copied
<1>6. CASE IsStrictPrefix(c, p)
  <2>1. IsDir(skin[ORG], c) /\ IsDir(skin[v], c)
    BY <1>2, <1>6 DEF IsDir
  <2>2. P # {}
    BY <1>3, <1>6, <2>1
  <2>3. c \in Seq(Nat) /\ S \in SUBSET Seq(Nat)
    BY <1>1, PassFacts, StateFacts
  <2>4. p[Len(c) + 1] \in Names(S, c)
    BY <1>2, <1>6, <2>3, NameFacts
  <2> HIDE DEF P, S, T, c
  <2> QED
    BY <1>4, <1>6, <2>2, <2>4
<1> QED
  BY <1>4, <1>5, <1>6

LEMMA MoltWalks ==
    ASSUME IInv, NEW v \in Versions, NEW f \in walk, NEW n \in f.l \cup f.r, MoltStep(v, f, n)
    PROVE  MoltInv'
<1> USE DEF IInv
<1> DEFINE c == Append(f.dir, n)
<1>1. /\ tool = {v} /\ tool' = {v}
      /\ UNCHANGED <<src, skin, skinned, molted, edited, touched>>
  BY DEF MoltStep
<1>2. WalkInv(walk', DOMAIN skin[ORG], DOMAIN skin[v])
  BY MoltPass
<1>3. \A w \in Versions : /\ Changed(w)' = Changed(w)
                          /\ \A p : Hashed(w, p)' <=> Hashed(w, p)
  BY <1>1 DEF Changed, Hashed
<1>4. \A w \in Versions \ {v} : molt'[w] = molt[w]
  BY DEF MoltStep, TypeOK
<1>5. \/ molt'[v] = molt[v]
      \/ /\ ToCopy(v, f, n) /\ c \in DOMAIN src[ORG]
         /\ molt'[v] = CopyOf(v, c)
         /\ DOMAIN CopyOf(v, c) = DOMAIN molt[v] \cup ({c} \cap DOMAIN src[v])
         /\ c \in DOMAIN src[v] => CopyOf(v, c)[c] = src[v][c]
         /\ \A p \in DOMAIN molt[v] \ {c} : CopyOf(v, c)[p] = molt[v][p]
  <2>1. CASE ToCopy(v, f, n)
    <3>1. c \in DOMAIN src[ORG]
      BY <2>1 DEF ToCopy, IsFile, TreesInv
    <3>2. molt' = [molt EXCEPT ![v] = CopyOf(v, c)]
      BY <2>1 DEF MoltStep
    <3>3. molt'[v] = CopyOf(v, c)
      BY <3>2 DEF TypeOK
    <3> QED
      BY <2>1, <3>1, <3>3, CopyFacts
  <2>2. CASE ~ToCopy(v, f, n)
    BY <2>2 DEF MoltStep
  <2> QED
    BY <2>1, <2>2
<1>6. ASSUME NEW w \in Versions, w \in skinned, NEW p \in Paths \ edited[w]
      PROVE  Clean(w, p)'
  <2>1. Clean(w, p)
    BY <1>6 DEF MoltInv
  <2>2. p \in DOMAIN molt'[w] => p \in Changed(w)
    <3>1. CASE molt'[w] = molt[w]
      BY <2>1, <3>1 DEF Clean
    <3>2. CASE w = v /\ molt'[v] # molt[v]
      <4>1. ToCopy(v, f, n) /\ DOMAIN molt'[v] = DOMAIN molt[v] \cup ({c} \cap DOMAIN src[v])
        BY <1>5, <3>2
      <4>2. skin[ORG] = src[ORG]
        BY DEF TreesInv
      <4>3. p = c /\ c \in DOMAIN src[v] => c \in Changed(v)
        BY <2>1, <3>2, <4>1, <4>2 DEF ToCopy, IsFile, Changed, Clean, Hashed
      <4> HIDE DEF c
      <4> QED
        BY <2>1, <3>2, <4>1, <4>3 DEF Clean
    <3> QED
      BY <1>4, <3>1, <3>2
  <2> QED
    BY <1>1, <1>3, <2>1, <2>2 DEF Clean
<1>7. ASSUME NEW w \in Versions, w \in molted, NEW p \in Changed(w) \ touched[w]
      PROVE  Copied(w, p)' \/ (tool' = {w} /\ Pending(walk', p))
  <2>1. Copied(w, p) \/ (tool = {w} /\ Pending(walk, p))
    BY <1>7 DEF MoltInv
  <2>2. CASE w # v
    <3>1. Copied(w, p)
      BY <1>1, <2>1, <2>2
    <3> QED
      BY <1>1, <1>4, <2>2, <3>1 DEF Copied
  <2>3. CASE w = v /\ Copied(w, p)
    <3>1. p \in DOMAIN src[v]
      BY <1>7, <2>3 DEF Changed
    <3> HIDE DEF c
    <3> QED
      BY <1>1, <1>5, <2>3, <3>1 DEF Copied
  <2>4. CASE w = v /\ Pending(walk, p)
    BY <1>1, <1>7, <2>1, <2>4, MoltPassCopies
  <2> QED
    BY <2>1, <2>2, <2>3, <2>4
<1>8. ASSUME NEW w \in Versions, tool' = {w} PROVE w = v
  BY <1>1, <1>8
<1> QED
  BY <1>1, <1>2, <1>3, <1>6, <1>7, <1>8 DEF MoltInv

LEMMA MoltKept == IInv /\ [Next]_vars => MoltInv'
<1> SUFFICES ASSUME IInv, [Next]_vars PROVE MoltInv'
  OBVIOUS
<1>1. ASSUME Compare PROVE MoltInv'
  <2>1. tool = {} /\ tool' = Versions /\ UNCHANGED <<src, skin, molt, skinned, molted, edited, touched>>
    BY <1>1 DEF Compare
  <2>2. \A v \in Versions : tool # {v} /\ tool' # {v}
    BY <2>1 DEF Versions
  <2> QED
    BY <2>1, <2>2, MoltUnchanged DEF IInv
<1>2. ASSUME NEW f \in walk, NEW n \in f.l \cup f.r, DiffStep(f, n) PROVE MoltInv'
  <2>1. /\ tool = Versions /\ tool' = Versions
        /\ UNCHANGED <<src, skin, molt, skinned, molted, edited, touched>>
    BY <1>2 DEF DiffStep
  <2>2. \A v \in Versions : tool # {v} /\ tool' # {v}
    BY <2>1 DEF Versions
  <2> QED
    BY <2>1, <2>2, MoltUnchanged DEF IInv
<1>3. ASSUME UNCHANGED vars PROVE MoltInv'
  BY <1>3, MoltUnchanged DEF vars, IInv
<1> QED
  BY <1>1, <1>2, <1>3, SkinKeepsMolts, EditKeepsMolts, MoltBegins, MoltReturns, MoltWalks
  DEF Next

-----------------------------------------------------------------------------
(* ssu_diff.                                                               *)

LEMMA FrontOfAppend ==
    ASSUME NEW d \in Seq(Nat), NEW n \in Nat
    PROVE  Front(Append(d, n)) = d /\ Last(Append(d, n)) = n
<1> DEFINE c == Append(d, n)
<1>1. /\ c \in Seq(Nat) /\ c # <<>> /\ Len(c) = Len(d) + 1 /\ c[Len(d) + 1] = n
      /\ \A i \in 1..Len(d) : c[i] = d[i]
  BY Appended
<1> HIDE DEF c
<1>2. PICK e \in Seq(Nat), m \in Nat : /\ e = Front(c) /\ m = Last(c)
                                       /\ c = Append(e, m) /\ Len(c) = Len(e) + 1
  BY <1>1, FrontOfPath
<1>3. /\ Append(e, m)[Len(e) + 1] = m
      /\ \A i \in 1..Len(e) : Append(e, m)[i] = e[i]
  BY Appended
<1>4. Len(d) \in Nat /\ Len(e) \in Nat
  OBVIOUS
<1>5. Len(e) = Len(d)
  BY <1>1, <1>2, <1>4
<1>6. m = n
  BY <1>1, <1>2, <1>3, <1>5
<1>7. \A i \in 1..Len(d) : d[i] = e[i]
  BY <1>1, <1>2, <1>3, <1>5
<1>8. d = e
  BY <1>5, <1>7, SeqEqual
<1> QED
  BY <1>2, <1>6, <1>8 DEF c

\* Above a path is its directory, or above that.
LEMMA AboveFront ==
    ASSUME NEW c \in Seq(Nat), c # <<>>, NEW p \in Seq(Nat), IsStrictPrefix(c, p)
    PROVE  /\ p # <<>> /\ Front(p) \in Seq(Nat) /\ Front(p) # <<>>
           /\ Front(p) = c \/ c \in Parents(Front(p))
<1>1. Len(c) < Len(p) /\ \A i \in 1..Len(c) : c[i] = p[i]
  BY StrictPrefix
<1>2. Len(c) \in Nat \ {0} /\ Len(p) \in Nat
  BY EmptySeq
<1>3. p # <<>>
  BY <1>1, <1>2, EmptyPath
<1>4. PICK d \in Seq(Nat), m \in Nat : /\ d = Front(p) /\ p = Append(d, m)
                                       /\ Len(p) = Len(d) + 1
  BY <1>3, FrontOfPath
<1>5. \A i \in 1..Len(d) : p[i] = d[i]
  <2>1. \A i \in 1..Len(d) : Append(d, m)[i] = d[i]
    BY Appended
  <2> QED
    BY <1>4, <2>1, Zenon
<1>6. Len(d) \in Nat /\ Len(c) <= Len(d)
  BY <1>1, <1>2, <1>4
<1>7. \A i \in 1..Len(c) : c[i] = d[i]
  BY <1>1, <1>2, <1>5, <1>6
<1>8. CASE Len(c) = Len(d)
  <2>1. c = d
    BY <1>7, <1>8, SeqEqual
  <2> QED
    BY <1>3, <1>4, <2>1
<1>9. CASE Len(c) < Len(d)
  <2>1. IsStrictPrefix(c, d)
    BY <1>7, <1>9, StrictPrefix
  <2>2. d # <<>>
    BY <1>2, <1>9, EmptyPath
  <2>3. c \in Parents(d)
    BY <2>1, ParentsArePrefixes
  <2> QED
    BY <1>3, <1>4, <2>2, <2>3
<1> QED
  BY <1>2, <1>6, <1>8, <1>9

\* A name is in a directory of a molt if and only if its path is an entry.
LEMMA EntryNames ==
    ASSUME TypeOK, TreesInv, NEW v \in Versions, NEW d \in Seq(Nat), NEW n \in Nat
    PROVE  n \in Names(Entries(v), d) <=> Append(d, n) \in Entries(v)
<1> DEFINE c == Append(d, n)
<1>1. c \in Seq(Nat) /\ c # <<>>
  BY Appended
<1>2. Entries(v) \in SUBSET Seq(Nat)
  BY StateFacts
<1>3. n \in Names(Entries(v), d)
        <=> \E p \in Entries(v) : IsStrictPrefix(d, p) /\ p[Len(d) + 1] = n
  BY <1>2, NameFacts
<1>4. \A p \in Entries(v) : (p = c \/ IsStrictPrefix(c, p))
                               <=> (IsStrictPrefix(d, p) /\ p[Len(d) + 1] = n)
  BY <1>2, BelowName
<1>5. ASSUME NEW p \in Entries(v), IsStrictPrefix(c, p) PROVE c \in Entries(v)
  <2>1. c \in Parents(p)
    BY <1>1, <1>2, <1>5, ParentsArePrefixes
  <2> QED
    BY <2>1 DEF TreesInv, Entries
<1> QED
  BY <1>3, <1>4, <1>5

\* A file of a molt is not a directory of the original kernel or of a molt.
LEMMA FileIsNoDir ==
    ASSUME TypeOK, NEW v \in Versions, NEW c \in DOMAIN molt[v]
    PROVE  /\ ~IsDir(src[ORG], c)
           /\ \A w \in Versions : c \notin dirs[w]
<1>1. c \in DOMAIN src[ORG] /\ src[ORG] \in Trees
  BY StateFacts
<1>2. Consistent(DOMAIN src[ORG])
  BY <1>1, TreeFacts
<1>3. ~IsDir(src[ORG], c)
  BY <1>1, <1>2 DEF Consistent, IsDir
<1> QED
  BY <1>3, StateFacts

\* The rows of the table for one path.
LEMMA TableRows ==
    ASSUME NEW r
    PROVE  r \in Table <=>
             \/ \E p \in DOMAIN molt[1] \cap DOMAIN molt[2] :
                   skin[1][p] # skin[2][p] /\ r = Report(p, 1, 2)
             \/ \E p \in DOMAIN molt[1] \ DOMAIN molt[2] : r = Report(p, 1, ORG)
             \/ \E p \in DOMAIN molt[2] \ DOMAIN molt[1] : r = Report(p, ORG, 2)
BY DEF Table

LEMMA ReportFields ==
    ASSUME NEW p, NEW l, NEW k
    PROVE  Report(p, l, k).path = p
BY DEF Report

\* A pass of comp_dir prints the rows of its path.
LEMMA PrintedRows ==
    ASSUME IInv, NEW f \in walk, NEW n \in f.l \cup f.r, DiffStep(f, n)
    PROVE  Printed(f, n) = {r \in Table : r.path = Append(f.dir, n)}
<1> USE DEF IInv
<1> DEFINE c == Append(f.dir, n)
           D1 == DOMAIN molt[1]
           D2 == DOMAIN molt[2]
           R == {r \in Table : r.path = c}
<1>1. PICK P : IsPass(walk, Entries(1), Entries(2), f, n, P)
  BY DiffPass
<1>2. f.dir \in Seq(Nat) /\ n \in Nat /\ c \in Seq(Nat)
  BY <1>1, PassFacts
<1>3. (c \in Entries(1) => n \in f.l) /\ (c \in Entries(2) => n \in f.r)
  BY <1>1, EntryIsListed
<1>4. f.l \subseteq Names(Entries(1), f.dir) /\ f.r \subseteq Names(Entries(2), f.dir)
  BY <1>1 DEF IsPass, WalkInv
<1>5. (n \in f.l <=> c \in Entries(1)) /\ (n \in f.r <=> c \in Entries(2))
  BY <1>2, <1>3, <1>4, EntryNames DEF Versions
<1>6. c \in D1 \/ c \in D2 => ~IsDir(src[ORG], c) /\ c \notin dirs[1] /\ c \notin dirs[2]
  BY FileIsNoDir DEF Versions
<1>7. c \in dirs[1] \/ c \in dirs[2] => IsDir(src[ORG], c)
  BY StateFacts DEF Versions
<1>8. \A r : r \in R <=> \/ c \in D1 \cap D2 /\ skin[1][c] # skin[2][c] /\ r = Report(c, 1, 2)
                         \/ c \in D1 \ D2 /\ r = Report(c, 1, ORG)
                         \/ c \in D2 \ D1 /\ r = Report(c, ORG, 2)
  <2> SUFFICES ASSUME NEW r
               PROVE  r \in R <=>
                        \/ c \in D1 \cap D2 /\ skin[1][c] # skin[2][c] /\ r = Report(c, 1, 2)
                        \/ c \in D1 \ D2 /\ r = Report(c, 1, ORG)
                        \/ c \in D2 \ D1 /\ r = Report(c, ORG, 2)
    OBVIOUS
  <2>1. r \in R <=> r \in Table /\ r.path = c
    OBVIOUS
  <2>2. r \in Table <=>
             \/ \E p \in D1 \cap D2 : skin[1][p] # skin[2][p] /\ r = Report(p, 1, 2)
             \/ \E p \in D1 \ D2 : r = Report(p, 1, ORG)
             \/ \E p \in D2 \ D1 : r = Report(p, ORG, 2)
    BY TableRows
  <2>3. \A p, l, k : Report(p, l, k).path = p
    BY ReportFields
  <2> HIDE DEF R, c, D1, D2
  <2> QED
    BY <2>1, <2>2, <2>3
<1>9. (c \in Entries(1) <=> c \in D1 \/ c \in dirs[1])
      /\ (c \in Entries(2) <=> c \in D2 \/ c \in dirs[2])
  BY DEF Entries
<1>10. CASE n \in f.l \cap f.r /\ c \notin dirs[1] /\ c \notin dirs[2]
  <2>1. Printed(f, n) = DiffFile(c)
    BY <1>10 DEF Printed
  <2>2. c \in D1 \cap D2
    BY <1>5, <1>9, <1>10
  <2> HIDE DEF R, c, D1, D2
  <2>3. R = DiffFile(c)
    BY <1>8, <2>2 DEF DiffFile
  <2> QED
    BY <2>1, <2>3 DEF R, c
<1>11. CASE n \in f.l \cap f.r /\ (c \in dirs[1] \/ c \in dirs[2])
  <2>1. Printed(f, n) = {}
    BY <1>11 DEF Printed
  <2>2. c \notin D1 /\ c \notin D2
    BY <1>6, <1>11
  <2> HIDE DEF R, c, D1, D2
  <2>3. R = {}
    BY <1>8, <2>2
  <2> QED
    BY <2>1, <2>3 DEF R, c
<1>12. CASE n \in f.l \ f.r
  <2>1. c \notin D2
    BY <1>5, <1>9, <1>12
  <2>2. CASE c \in dirs[1]
    <3>1. Printed(f, n) = {}
      BY <1>7, <1>12, <2>2 DEF Printed, DiffDir
    <3>2. c \notin D1
      BY <1>6, <2>2
    <3> HIDE DEF R, c, D1, D2
    <3>3. R = {}
      BY <1>8, <2>1, <3>2
    <3> QED
      BY <3>1, <3>3 DEF R, c
  <2>3. CASE c \notin dirs[1]
    <3>1. c \in D1
      BY <1>5, <1>9, <1>12, <2>3
    <3>2. Printed(f, n) = {Report(c, 1, ORG)}
      BY <1>6, <1>12, <2>3, <3>1 DEF Printed
    <3> HIDE DEF R, c, D1, D2
    <3>3. R = {Report(c, 1, ORG)}
      BY <1>8, <2>1, <3>1
    <3> QED
      BY <3>2, <3>3 DEF R, c
  <2> QED
    BY <2>2, <2>3
<1>13. CASE n \in f.r \ f.l
  <2>1. c \notin D1
    BY <1>5, <1>9, <1>13
  <2>2. CASE c \in dirs[2]
    <3>1. Printed(f, n) = {}
      BY <1>7, <1>13, <2>2 DEF Printed, DiffDir
    <3>2. c \notin D2
      BY <1>6, <2>2
    <3> HIDE DEF R, c, D1, D2
    <3>3. R = {}
      BY <1>8, <2>1, <3>2
    <3> QED
      BY <3>1, <3>3 DEF R, c
  <2>3. CASE c \notin dirs[2]
    <3>1. c \in D2
      BY <1>5, <1>9, <1>13, <2>3
    <3>2. Printed(f, n) = {Report(c, ORG, 2)}
      BY <1>6, <1>13, <2>3, <3>1 DEF Printed
    <3> HIDE DEF R, c, D1, D2
    <3>3. R = {Report(c, ORG, 2)}
      BY <1>8, <2>1, <3>1
    <3> QED
      BY <3>2, <3>3 DEF R, c
  <2> QED
    BY <2>2, <2>3
<1> QED
  BY <1>10, <1>11, <1>12, <1>13

LEMMA TablePaths ==
    ASSUME TypeOK, NEW r \in Table
    PROVE  r.path \in Seq(Nat) /\ r.path # <<>> /\ r.path \in Entries(1) \cup Entries(2)
<1>1. \E p \in DOMAIN molt[1] \cup DOMAIN molt[2] : r.path = p
  BY TableRows, ReportFields
<1>2. r.path \in Entries(1) \cup Entries(2)
  BY <1>1 DEF Entries
<1>3. Entries(1) \cup Entries(2) \subseteq Seq(Nat) \ {<<>>}
  BY StateFacts DEF Versions
<1> QED
  BY <1>2, <1>3

\* The walk is in every directory above what it reaches.
LEMMA ReachedBelow ==
    ASSUME TypeOK, TreesInv, NEW c \in Seq(Nat), c # <<>>, NEW p \in Seq(Nat),
           IsStrictPrefix(c, p), Reached(p), NEW v \in Versions
    PROVE  c \in dirs[v]
<1>1. Front(p) # <<>> /\ (Front(p) = c \/ c \in Parents(Front(p)))
  BY AboveFront
<1>2. Front(p) \in dirs[v]
  BY <1>1 DEF Reached
<1>3. Parents(Front(p)) \subseteq dirs[v]
  BY <1>2 DEF TreesInv, Entries
<1> QED
  BY <1>1, <1>2, <1>3

\* A pass of comp_dir is at a path it reaches.
LEMMA ReachedAt ==
    ASSUME IInv, NEW f \in walk, NEW n \in f.l \cup f.r, DiffStep(f, n)
    PROVE  Reached(Append(f.dir, n))
<1> USE DEF IInv
<1> DEFINE c == Append(f.dir, n)
<1>1. PICK P : IsPass(walk, Entries(1), Entries(2), f, n, P)
  BY DiffPass
<1>2. f.dir \in Seq(Nat) /\ n \in Nat /\ f \in Calls
  BY <1>1, PassFacts
<1>3. Front(c) = f.dir /\ Last(c) = n
  BY <1>2, FrontOfAppend
<1>4. f.l \subseteq Nat /\ f.r \subseteq Nat
  BY <1>2, CallFields
<1>5. f.l \subseteq Names(Entries(1), f.dir) /\ f.r \subseteq Names(Entries(2), f.dir)
  BY <1>1 DEF IsPass, WalkInv
<1>6. f.l # {} /\ f.r # {} /\ \A m \in f.l \cup f.r : n <= m
  BY DEF DiffStep, Ahead
<1>7. \A v \in Versions : \E m \in Names(Entries(v), f.dir) : m >= n
  <2>1. \E m \in Names(Entries(1), f.dir) : m >= n
    BY <1>2, <1>4, <1>5, <1>6
  <2>2. \E m \in Names(Entries(2), f.dir) : m >= n
    BY <1>2, <1>4, <1>5, <1>6
  <2> QED
    BY <2>1, <2>2 DEF Versions
<1>8. \A v \in Versions : f.dir = <<>> \/ f.dir \in dirs[v]
  BY DEF DiffStep, DiffInv, Versions
<1> HIDE DEF c
<1>9. Reached(c)
  BY <1>3, <1>7, <1>8 DEF Reached
<1> QED
  BY <1>9 DEF c

\* What ssu_diff reads does not change while it walks.
LEMMA DiffReads ==
    ASSUME UNCHANGED <<skin, molt, dirs>>
    PROVE  /\ Table' = Table
           /\ \A p : Reached(p)' <=> Reached(p)
           /\ \A v \in Versions : Entries(v)' = Entries(v)
<1>1. Table' = Table
  BY DEF Table
<1>2. \A v \in Versions : Entries(v)' = Entries(v)
  BY DEF Entries
<1>3. \A p : Reached(p)' <=> Reached(p)
  BY DEF Reached, Entries
<1> QED
  BY <1>1, <1>2, <1>3

\* A row is printed by the pass that is at its path; the rows below that path
\* are left to the call that the pass makes, if the walk reaches them.
LEMMA RowsPassed ==
    ASSUME IInv, NEW f \in walk, NEW n \in f.l \cup f.r, DiffStep(f, n), NEW r \in Table
    PROVE  r \in out' <=> Reached(r.path) /\ ~Pending(walk', r.path)
<1> USE DEF IInv
<1> DEFINE S == Entries(1)
           T == Entries(2)
           p == r.path
           c == Append(f.dir, n)
           P == IF n \in f.l \cap f.r /\ c \in dirs[1] \cap dirs[2]
                THEN {Call(S, T, c)} ELSE {}
<1>1. IsPass(walk, S, T, f, n, P) /\ walk' = Passed(walk, f, n, P)
  BY DiffPass
<1>2. p \in Seq(Nat) /\ p \in S \cup T
  BY TablePaths
<1>3. c \in Seq(Nat) /\ c # <<>>
  <2>1. f.dir \in Seq(Nat) /\ n \in Nat
    BY <1>1, PassFacts
  <2> QED
    BY <2>1, Appended
<1>4. r \in out <=> Reached(p) /\ ~Pending(walk, p)
  <2>1. out = {q \in Table : Reached(q.path) /\ ~Pending(walk, q.path)}
    BY DEF DiffStep, DiffInv
  <2> QED
    BY <2>1
<1>5. r \in out' <=> r \in out \/ p = c
  <2>1. Printed(f, n) = {q \in Table : q.path = c} /\ out' = out \cup Printed(f, n)
    BY PrintedRows DEF DiffStep
  <2> QED
    BY <2>1
<1>6. Reached(c)
  BY ReachedAt
<1>7. /\ p = c => Pending(walk, p) /\ ~Pending(walk', p)
      /\ IsStrictPrefix(c, p) =>
            /\ Pending(walk, p)
            /\ Pending(walk', p) <=> P # {} /\ p[Len(c) + 1] \in Names(S, c) \cup Names(T, c)
      /\ p # c /\ ~IsStrictPrefix(c, p) => (Pending(walk', p) <=> Pending(walk, p))
  <2> HIDE DEF P, S, T, p
  <2> QED
    BY <1>1, <1>2, PendingPasses
<1>8. ASSUME IsStrictPrefix(c, p), Reached(p) PROVE Pending(walk', p)
  <2>1. c \in dirs[1] \cap dirs[2]
    BY <1>2, <1>3, <1>8, ReachedBelow DEF Versions
  <2>2. c \in S \cap T
    BY <2>1 DEF Entries
  <2>3. (c \in S => n \in f.l) /\ (c \in T => n \in f.r)
    BY <1>1, EntryIsListed
  <2>4. n \in f.l \cap f.r
    BY <2>2, <2>3
  <2>5. P # {}
    BY <2>1, <2>4
  <2>6. S \in SUBSET Seq(Nat) /\ T \in SUBSET Seq(Nat)
    BY <1>1 DEF IsPass
  <2> HIDE DEF P, S, T, c, p
  <2>7. p[Len(c) + 1] \in Names(S, c) \cup Names(T, c)
    BY <1>2, <1>3, <1>8, <2>6, NameFacts
  <2> QED
    BY <1>7, <1>8, <2>5, <2>7
<1>9. IsStrictPrefix(c, p) => p # c
  BY DEF IsStrictPrefix
<1> HIDE DEF P, S, T, c, p
<1>10. r \in out' <=> Reached(p) /\ ~Pending(walk', p)
  BY <1>4, <1>5, <1>6, <1>7, <1>8, <1>9
<1> QED
  BY <1>10 DEF p

LEMMA DiffWalks ==
    ASSUME IInv, NEW f \in walk, NEW n \in f.l \cup f.r, DiffStep(f, n)
    PROVE  DiffInv' /\ ReportedExactly'
<1> USE DEF IInv
<1> DEFINE c == Append(f.dir, n)
           P == IF n \in f.l \cap f.r /\ c \in dirs[1] \cap dirs[2]
                THEN {Call(Entries(1), Entries(2), c)} ELSE {}
<1>1. tool = Versions /\ tool' = Versions /\ UNCHANGED <<skin, molt, dirs, compared>>
  BY DEF DiffStep
<1>2. ~compared'
  BY <1>1 DEF DiffInv, Versions
<1>3. /\ Table' = Table
      /\ \A p : Reached(p)' <=> Reached(p)
      /\ Entries(1)' = Entries(1) /\ Entries(2)' = Entries(2)
  BY <1>1, DiffReads DEF Versions
<1>4. /\ IsPass(walk, Entries(1), Entries(2), f, n, P)
      /\ walk' = Passed(walk, f, n, P)
      /\ WalkInv(walk', Entries(1), Entries(2))
  BY DiffPass
<1>5. f \in Calls /\ \A g \in P : g.dir = c
  BY <1>4, PassFacts
<1>6. Advance(f, n).dir = f.dir
  BY <1>5, AdvanceFields
<1>7. ASSUME NEW g \in walk' PROVE g.dir = <<>> \/ g.dir \in dirs[1] \cap dirs[2]
  <2>1. g \in walk \/ g = Advance(f, n) \/ g \in P
    BY <1>4 DEF Passed
  <2>2. \A h \in walk : h.dir = <<>> \/ h.dir \in dirs[1] \cap dirs[2]
    BY <1>1 DEF DiffInv
  <2>3. P # {} => c \in dirs[1] \cap dirs[2]
    OBVIOUS
  <2> HIDE DEF P, c
  <2> QED
    BY <1>5, <1>6, <2>1, <2>2, <2>3
<1>8. out' = {r \in Table : Reached(r.path) /\ ~Pending(walk', r.path)}
  <2>1. out' \subseteq Table
    <3>1. out \subseteq Table
      BY <1>1 DEF DiffInv
    <3>2. Printed(f, n) \subseteq Table
      BY PrintedRows
    <3> QED
      BY <3>1, <3>2 DEF DiffStep
  <2>2. \A r \in Table : r \in out' <=> Reached(r.path) /\ ~Pending(walk', r.path)
    BY RowsPassed
  <2> QED
    BY <2>1, <2>2
<1> HIDE DEF P, c
<1> QED
  BY <1>1, <1>2, <1>3, <1>4, <1>7, <1>8 DEF DiffInv, ReportedExactly

\* A call that returns leaves nothing behind that the walk reaches.
LEMMA ReachedIsNotLeft ==
    ASSUME IInv, tool = Versions, NEW f \in walk, f.l = {} \/ f.r = {},
           NEW p \in Seq(Nat), Reached(p), Pending(walk, p)
    PROVE  Pending(walk \ {f}, p)
<1> USE DEF IInv
<1> DEFINE k == p[Len(f.dir) + 1]
           c == Append(f.dir, k)
<1>1. SUFFICES ASSUME ~Pending(walk \ {f}, p) PROVE FALSE
  OBVIOUS
<1>2. WalkInv(walk, Entries(1), Entries(2))
  BY DEF DiffInv
<1>3. /\ IsStrictPrefix(f.dir, p)
      /\ \/ \A m \in Names(Entries(1), f.dir) : m < k
         \/ \A m \in Names(Entries(2), f.dir) : m < k
  BY <1>1, <1>2, WalkReturns
<1>4. PICK v \in Versions : \A m \in Names(Entries(v), f.dir) : m < k
  BY <1>3 DEF Versions
<1>5. f.dir \in Seq(Nat)
  <2>1. f \in Calls
    BY <1>2 DEF WalkInv
  <2> QED
    BY <2>1, CallFields
<1>6. k \in Nat
  <2>1. Len(f.dir) < Len(p) /\ Len(f.dir) \in Nat /\ Len(p) \in Nat
    BY <1>3, <1>5, StrictPrefix
  <2> QED
    BY <2>1
<1> HIDE DEF k
<1>7. p = c \/ IsStrictPrefix(c, p)
  BY <1>3, <1>5, <1>6, BelowName DEF k
<1>8. \A m \in Names(Entries(v), f.dir) : m \in Nat
  <2>1. Entries(v) \in SUBSET Seq(Nat)
    BY StateFacts
  <2> QED
    BY <1>5, <2>1, NameFacts
<1>9. CASE p = c
  <2>1. Front(p) = f.dir /\ Last(p) = k
    BY <1>5, <1>6, <1>9, FrontOfAppend
  <2>2. \E m \in Names(Entries(v), f.dir) : m >= k
    BY <2>1 DEF Reached
  <2> QED
    BY <1>4, <1>6, <1>8, <2>2
<1>10. CASE IsStrictPrefix(c, p)
  <2>1. c \in Seq(Nat) /\ c # <<>>
    BY <1>5, <1>6, Appended
  <2>2. c \in dirs[v]
    BY <1>10, <2>1, ReachedBelow
  <2>3. k \in Names(Entries(v), f.dir)
    BY <1>5, <1>6, <2>2, EntryNames DEF Entries
  <2> QED
    BY <1>4, <1>6, <2>3
<1> QED
  BY <1>7, <1>9, <1>10

LEMMA DiffReturns ==
    ASSUME IInv, NEW f \in walk, Return(f)
    PROVE  DiffInv' /\ ReportedExactly'
<1> USE DEF IInv
<1>1. /\ f.l = {} \/ f.r = {}
      /\ walk' = walk \ {f}
      /\ tool' = IF walk' = {} THEN {} ELSE tool
      /\ compared' = (walk' = {} /\ tool = Versions)
      /\ UNCHANGED <<skin, molt, dirs, out>>
  BY DEF Return
<1>2. CASE tool # Versions
  <2>1. tool' # Versions /\ ~compared'
    BY <1>1, <1>2 DEF Versions
  <2> QED
    BY <2>1 DEF DiffInv, ReportedExactly
<1>3. CASE tool = Versions
  <2>1. /\ Table' = Table
        /\ \A p : Reached(p)' <=> Reached(p)
        /\ Entries(1)' = Entries(1) /\ Entries(2)' = Entries(2)
    BY <1>1, DiffReads DEF Versions
  <2>2. /\ WalkInv(walk, Entries(1), Entries(2))
        /\ \A g \in walk : g.dir = <<>> \/ g.dir \in dirs[1] \cap dirs[2]
        /\ out = {r \in Table : Reached(r.path) /\ ~Pending(walk, r.path)}
    BY <1>3 DEF DiffInv
  <2>3. WalkInv(walk', Entries(1), Entries(2)) /\ \A p : Pending(walk', p) => Pending(walk, p)
    BY <1>1, <2>2, WalkReturns
  <2>4. ASSUME NEW r \in Table, Reached(r.path), Pending(walk, r.path)
        PROVE  Pending(walk', r.path)
    <3>1. r.path \in Seq(Nat)
      BY TablePaths
    <3> QED
      BY <1>1, <1>3, <2>4, <3>1, ReachedIsNotLeft
  <2>5. out' = {r \in Table : Reached(r.path) /\ ~Pending(walk', r.path)}
    BY <1>1, <2>2, <2>3, <2>4
  <2>6. ASSUME compared' PROVE out' = {r \in Table : Reached(r.path)}
    <3>1. walk' = {}
      BY <1>1, <2>6
    <3>2. \A p : ~Pending(walk', p)
      BY <3>1 DEF Pending
    <3> QED
      BY <2>5, <3>2
  <2>7. compared' => tool' = {}
    BY <1>1
  <2>8. \A g \in walk' : g.dir = <<>> \/ g.dir \in dirs'[1] \cap dirs'[2]
    BY <1>1, <2>2
  <2> QED
    BY <2>1, <2>3, <2>5, <2>6, <2>7, <2>8 DEF DiffInv, ReportedExactly
<1> QED
  BY <1>2, <1>3

LEMMA DiffBegins ==
    ASSUME IInv, Compare
    PROVE  DiffInv' /\ ReportedExactly'
<1> USE DEF IInv
<1> DEFINE S == Entries(1)
           T == Entries(2)
           f == Call(S, T, <<>>)
<1>1. /\ tool' = Versions /\ walk' = {f} /\ out' = {} /\ ~compared'
      /\ UNCHANGED <<skin, molt, dirs>>
  BY DEF Compare
<1>2. Table' = Table /\ Entries(1)' = S /\ Entries(2)' = T
  BY <1>1, DiffReads DEF Versions
<1>3. S \in SUBSET Seq(Nat) /\ T \in SUBSET Seq(Nat)
  BY StateFacts DEF Versions
<1>4. \A r \in Table : r.path \in S \cup T /\ r.path # <<>>
  BY TablePaths
<1>5. f.dir = <<>>
  BY DEF Call
<1> HIDE DEF S, T
<1>6. WalkInv({f}, S, T) /\ \A p \in S \cup T : p # <<>> => Pending({f}, p)
  BY <1>3, WalkStarts
<1> HIDE DEF f
<1>7. \A r \in Table : Pending(walk', r.path)
  BY <1>1, <1>4, <1>6
<1>8. out' = {r \in Table' : Reached(r.path)' /\ ~Pending(walk', r.path)}
  BY <1>1, <1>2, <1>7
<1> QED
  BY <1>1, <1>2, <1>5, <1>6, <1>8 DEF DiffInv, ReportedExactly

LEMMA DiffKept == IInv /\ [Next]_vars => DiffInv' /\ ReportedExactly'
<1> SUFFICES ASSUME IInv, [Next]_vars PROVE DiffInv' /\ ReportedExactly'
  OBVIOUS
<1> USE DEF IInv
<1>1. ASSUME UNCHANGED <<skin, molt, dirs, tool, walk, out, compared>>
      PROVE  DiffInv' /\ ReportedExactly'
  <2>1. /\ Table' = Table
        /\ \A p : Reached(p)' <=> Reached(p)
        /\ Entries(1)' = Entries(1) /\ Entries(2)' = Entries(2)
    BY <1>1, DiffReads DEF Versions
  <2> QED
    BY <1>1, <2>1 DEF DiffInv, ReportedExactly
<1>2. ASSUME tool' # Versions, ~compared' PROVE DiffInv' /\ ReportedExactly'
  BY <1>2 DEF DiffInv, ReportedExactly
<1>3. ASSUME NEW v \in Versions, Skin(v) PROVE DiffInv' /\ ReportedExactly'
  <2>1. tool' # Versions /\ ~compared'
    BY <1>3 DEF Skin, Versions
  <2> QED
    BY <1>2, <2>1
<1>4. ASSUME NEW v \in Versions, Molt(v) PROVE DiffInv' /\ ReportedExactly'
  <2>1. tool' # Versions /\ ~compared'
    BY <1>4 DEF Molt, Versions
  <2> QED
    BY <1>2, <2>1
<1>5. ASSUME NEW v \in Versions, NEW t \in Trees, Edit(v, t)
      PROVE  DiffInv' /\ ReportedExactly'
  BY <1>1, <1>5 DEF Edit
<1>6. ASSUME NEW v \in Versions, NEW f \in walk, NEW n \in f.l \cup f.r, MoltStep(v, f, n)
      PROVE  DiffInv' /\ ReportedExactly'
  <2>1. tool = {v} /\ tool' = tool /\ compared' = compared
    BY <1>6 DEF MoltStep
  <2>2. tool' # Versions /\ tool # {}
    BY <2>1 DEF Versions
  <2>3. ~compared'
    BY <2>1, <2>2 DEF DiffInv
  <2> QED
    BY <1>2, <2>2, <2>3
<1>7. ASSUME UNCHANGED vars PROVE DiffInv' /\ ReportedExactly'
  BY <1>1, <1>7 DEF vars
<1> QED
  BY <1>3, <1>4, <1>5, <1>6, <1>7, DiffBegins, DiffWalks, DiffReturns DEF Next

-----------------------------------------------------------------------------
(* Theorems.                                                               *)

LEMMA InitInv == Init => IInv
<1> SUFFICES ASSUME Init PROVE IInv
  OBVIOUS
<1>1. DiffInv /\ ReportedExactly
  BY DEF Init, DiffInv, ReportedExactly, Versions
<1> QED
  BY <1>1, TypeInit, TreesInit, MoltInit DEF IInv

LEMMA NextInv == IInv /\ [Next]_vars => IInv'
BY TypeStep, TreesStep, MoltKept, DiffKept DEF IInv

LEMMA Invariance == Spec => []IInv
BY InitInv, NextInv, PTL DEF Spec

\* The trees, the two walks and what they have written keep their types: the
\* molts hold only files of the original kernel, a call is for a directory
\* that a kernel can have, and a tool reads only molts that exist (skin.c
\* 26-77, molt.c 23-164, ssu_diff.c 25-185).
THEOREM ToolsTypeCorrect == Spec => []TypeOK
<1>1. IInv => TypeOK
  BY DEF IInv
<1> QED
  BY <1>1, Invariance, PTL

\* Whatever the kernels are, and whatever is edited before, between and during
\* skin and molt, molt run after skin has copied every changed file that was not
\* itself edited since the skin, with its present content, when its walk ends,
\* and of the files not edited since the first skin no others (molting_dir and
\* molting_file, molt.c 70-164).
THEOREM MoltCovers == Spec => []MoltCoversChange
<1>1. IInv => MoltCoversChange
  <2> SUFFICES ASSUME IInv, NEW v \in molted, tool # {v}
               PROVE  /\ \A p \in Changed(v) \ touched[v] :
                            p \in DOMAIN molt[v] /\ molt[v][p] = src[v][p]
                      /\ DOMAIN molt[v] \ edited[v] \subseteq Changed(v)
    BY DEF MoltCoversChange
  <2>1. v \in Versions /\ v \in skinned
    BY DEF IInv, TypeOK
  <2>2. \A p \in Changed(v) \ touched[v] : Copied(v, p)
    BY <2>1 DEF IInv, MoltInv
  <2>3. \A p \in Paths \ edited[v] : Clean(v, p)
    BY <2>1 DEF IInv, MoltInv
  <2>4. DOMAIN molt[v] \subseteq Paths
    BY <2>1, StateFacts, TreeFacts DEF IInv
  <2> QED
    BY <2>2, <2>3, <2>4 DEF Copied, Clean
<1> QED
  BY <1>1, Invariance, PTL

\* When ssu_diff ends it has printed the rows of its comment's table that its
\* walk reaches, and no other line (comp_dir and diff_file, ssu_diff.c
\* 109-227).
THEOREM DiffReportsExactly == Spec => []ReportedExactly
<1>1. IInv => ReportedExactly
  BY DEF IInv
<1> QED
  BY <1>1, Invariance, PTL

\* The part of the table that the walk cannot miss: a file of both molts.
CommonIsReported ==
    compared => \A p \in DOMAIN molt[1] \cap DOMAIN molt[2] :
                    skin[1][p] # skin[2][p] => Report(p, 1, 2) \in out

\* A file of both molts is reached: its directories are in both, and its own
\* name is in both lists.
LEMMA CommonIsReached ==
    ASSUME TypeOK, TreesInv, NEW p \in DOMAIN molt[1] \cap DOMAIN molt[2]
    PROVE  Reached(p)
<1>1. /\ \A v \in Versions : p \in Entries(v)
      /\ p \in Seq(Nat) /\ p # <<>>
  <2>1. \A v \in Versions : p \in Entries(v)
    BY DEF Entries, Versions
  <2> QED
    BY <2>1, StateFacts DEF Versions
<1>2. PICK d \in Seq(Nat), m \in Nat : d = Front(p) /\ m = Last(p) /\ p = Append(d, m)
  BY <1>1, FrontOfPath
<1>3. \A v \in Versions : m \in Names(Entries(v), d)
  BY <1>1, <1>2, EntryNames
<1>4. IsStrictPrefix(d, p)
  <2>1. IsStrictPrefix(d, Append(d, m))
    BY Appended
  <2> QED
    BY <1>2, <2>1
<1>5. d # <<>> => d \in Parents(p)
  BY <1>1, <1>4, ParentsArePrefixes
<1>6. \A v \in Versions : d = <<>> \/ d \in dirs[v]
  BY <1>1, <1>5 DEF TreesInv
<1>7. m >= m
  OBVIOUS
<1> QED
  BY <1>2, <1>3, <1>6, <1>7 DEF Reached

\* A file that both versions have changed, with different hashes, is always
\* printed: the loop that ends with the shorter directory (ssu_diff.c 133) can
\* leave out only files of one of the molts.
THEOREM CommonFilesReported == Spec => []CommonIsReported
<1>1. IInv => CommonIsReported
  <2> SUFFICES ASSUME IInv, compared, NEW p \in DOMAIN molt[1] \cap DOMAIN molt[2],
                      skin[1][p] # skin[2][p]
               PROVE  Report(p, 1, 2) \in out
    BY DEF CommonIsReported
  <2>1. Reached(p)
    BY CommonIsReached DEF IInv
  <2>2. Report(p, 1, 2) \in Table
    BY TableRows
  <2>3. Report(p, 1, 2).path = p
    BY ReportFields
  <2>4. out = {r \in Table : Reached(r.path)}
    BY DEF IInv, ReportedExactly
  <2> QED
    BY <2>1, <2>2, <2>3, <2>4
<1> QED
  BY <1>1, Invariance, PTL
=============================================================================
