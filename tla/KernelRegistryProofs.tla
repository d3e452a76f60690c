------------------------- MODULE KernelRegistryProofs -------------------------
(***************************************************************************)
(* Proofs about KernelRegistry: numbering, places and hash files of the    *)
(* kernels for any kernels, any number of versions, crashes and deletions. *)
(***************************************************************************)
EXTENDS KernelRegistry, FiniteSetTheorems, TLAPS

\* k is in V<n>, or its move there has begun.
Bound(k, n) == k \in holds[n] \/ <<k, n>> \in renames

\* What the disk and the pending calls have in common.
MovesInv ==
    /\ queue \subseteq top
    /\ pc = "down" => renames = {} /\ streams = {} /\ queue = {}
    /\ \A k \in Kernels, n \in Versions : <<k, n>> \in renames =>
          n \in versions /\ k \in top /\ k \notin queue /\ holds[n] = {}
    /\ \A k1, k2 \in Kernels, n \in Versions :
          <<k1, n>> \in renames /\ <<k2, n>> \in renames => k1 = k2
    /\ \A k \in Kernels, n1, n2 \in Versions :
          <<k, n1>> \in renames /\ <<k, n2>> \in renames => n1 = n2

\* The hash file and the streams that write it belong to the kernel of the
\* version, also before that has been moved.
HashInv ==
    /\ \A n \in Versions \ versions : holds[n] = {} /\ hash[n] = "none"
    /\ \A k \in Kernels, n \in Versions : Bound(k, n) => hash[n] \in {"none", "cut", k}
    /\ \A s \in streams : s.version \in versions
    /\ \A s \in streams : \A k \in Kernels : Bound(k, s.version) => k = s.kernel

\* While kernels are registered the count is the number of the versions.
CountInv ==
    pc = "register" /\ ~removed => versions = 1..count

\* The list of parsed boot logs has each version at its own place.
InfoInv ==
    (Early = {} /\ MaxVersion < 10 /\ ~removed) =>
        \A i \in DOMAIN NoInfo : info[i] \in {0, i}

-----------------------------------------------------------------------------
\* The number of the versions that were parsed fits the bound.
LEMMA ParsedCount ==
    ASSUME TypeOK
    PROVE  Cardinality(Parsed) \in 0..MaxVersion
<1>1. IsFiniteSet(Versions) /\ Cardinality(Versions) = MaxVersion
  BY FS_Interval, BoundAssumption DEF Versions
<1>2. Parsed \in SUBSET Versions
  BY DEF TypeOK, Parsed
<1>3. IsFiniteSet(Parsed) /\ Cardinality(Parsed) <= MaxVersion
  BY <1>1, <1>2, FS_Subset
<1>4. Cardinality(Parsed) \in Nat
  BY <1>3, FS_CardinalityType
<1>5. QED
  BY <1>3, <1>4, BoundAssumption

\* There is no list of boot logs in NoInfo.
LEMMA NoInfoType == NoInfo \in [DOMAIN NoInfo -> 0..MaxVersion]
<1> DEFINE D == 1..(MaxVersion + Cardinality(Entries))
<1>1. NoInfo = [i \in D |-> 0]
  BY DEF NoInfo
<1>2. 0 \in 0..MaxVersion
  BY BoundAssumption
<1> HIDE DEF D
<1>3. QED
  BY <1>1, <1>2

LEMMA TypeInit == Init => TypeOK
<1> SUFFICES ASSUME Init PROVE TypeOK
  OBVIOUS
<1>1. info \in [DOMAIN NoInfo -> 0..MaxVersion]
  BY NoInfoType DEF Init
<1>2. count \in 0..MaxVersion /\ crashes \in 0..MaxCrashes
  BY BoundAssumption DEF Init
<1>3. holds \in [Versions -> SUBSET Kernels]
  BY DEF Init
<1>4. hash \in [Versions -> {"none", "cut"} \cup Kernels]
  BY DEF Init
<1>5. QED
  BY <1>1, <1>2, <1>3, <1>4 DEF Init, TypeOK

\* The type invariant, one action after the other.
LEMMA TypeStep == TypeOK /\ [Next]_vars => TypeOK'
<1> SUFFICES ASSUME TypeOK, [Next]_vars PROVE TypeOK'
  OBVIOUS
<1> USE DEF TypeOK, disk, memory, rest
<1>1. ASSUME NEW x \in Entries, AddEntry(x) \/ SkipFile(x) PROVE TypeOK'
  BY <1>1 DEF AddEntry, SkipFile
<1>2. ASSUME NEW n \in Versions, AddDmesg(n) \/ RemoveVersion(n) PROVE TypeOK'
  <2>1. CASE AddDmesg(n)
    BY <2>1 DEF AddDmesg
  <2>2. CASE RemoveVersion(n)
    <3>1. versions' \subseteq Versions /\ dmesg' \subseteq versions'
      BY <2>2 DEF RemoveVersion
    <3>2. holds' \in [Versions -> SUBSET Kernels]
      BY <2>2 DEF RemoveVersion
    <3>3. hash' \in [Versions -> {"none", "cut"} \cup Kernels]
      BY <2>2 DEF RemoveVersion
    <3>4. QED
      BY <2>2, <3>1, <3>2, <3>3 DEF RemoveVersion
  <2>3. QED
    BY <1>2, <2>1, <2>2
<1>3. CASE Start
  <2>1. count' \in 0..MaxVersion
    BY <1>3, ParsedCount DEF Start
  <2>2. info' \in [DOMAIN NoInfo -> 0..MaxVersion]
    <3>1. \A i : (\E n \in Parsed : ListIndex(n) = i) =>
              (CHOOSE n \in Parsed : ListIndex(n) = i) \in Versions
      BY DEF Parsed
    <3>2. Versions \subseteq 0..MaxVersion /\ 0 \in 0..MaxVersion
      BY BoundAssumption DEF Versions
    <3> DEFINE D == DOMAIN NoInfo
               V(i) == IF \E n \in Parsed : ListIndex(n) = i
                       THEN CHOOSE n \in Parsed : ListIndex(n) = i ELSE 0
    <3>3. \A i : V(i) \in 0..MaxVersion
      BY <3>1, <3>2
    <3>4. info' = [i \in D |-> V(i)]
      BY <1>3 DEF Start
    <3> HIDE DEF D, V
    <3>5. info' \in [D -> 0..MaxVersion]
      BY <3>3, <3>4
    <3>6. QED
      BY <3>5 DEF D
  <2>3. queue' \subseteq Entries /\ pc' \in {"register", "serving"}
    BY <1>3 DEF Start
  <2>4. QED
    BY <1>3, <2>1, <2>2, <2>3 DEF Start
<1>4. CASE LoopEnds
  BY <1>4 DEF LoopEnds
<1>5. ASSUME Dies, UNCHANGED disk, UNCHANGED <<fatal, removed>>, crashes' \in 0..MaxCrashes
      PROVE  TypeOK'
  <2>1. info' \in [DOMAIN NoInfo -> 0..MaxVersion]
    BY <1>5, NoInfoType DEF Dies
  <2>2. count' \in 0..MaxVersion
    BY <1>5, BoundAssumption DEF Dies
  <2>3. QED
    BY <1>5, <2>1, <2>2 DEF Dies
<1>6. CASE Settle
  BY <1>5, <1>6 DEF Settle
<1>7. CASE Stop
  BY <1>5, <1>7 DEF Stop
<1>8. CASE Crash
  BY <1>5, <1>8, BoundAssumption DEF Crash
<1>9. ASSUME NEW k \in Kernels, Register(k) PROVE TypeOK'
  <2>1. count + 1 \in Versions /\ count' \in 0..MaxVersion
    BY <1>9, BoundAssumption DEF Register, Versions
  <2>2. versions' \subseteq Versions /\ dmesg' \subseteq versions'
    BY <1>9, <2>1 DEF Register
  <2>3. renames' \subseteq Kernels \X Versions
    BY <1>9, <2>1 DEF Register
  <2>4. streams' \subseteq Streams
    <3>1. [version |-> count + 1, kernel |-> k, open |-> FALSE] \in Streams
      BY <2>1 DEF Streams
    <3>2. QED
      BY <1>9, <3>1 DEF Register
  <2>5. QED
    BY <1>9, <2>1, <2>2, <2>3, <2>4 DEF Register
<1>10. ASSUME NEW k \in Kernels, RegisterExists(k) PROVE TypeOK'
  BY <1>10, BoundAssumption DEF RegisterExists, Versions
<1>11. ASSUME NEW k \in Kernels, NEW n \in Versions, Rename(k, n) PROVE TypeOK'
  BY <1>11 DEF Rename
<1>12. ASSUME NEW s \in streams, OpenHash(s) PROVE TypeOK'
  <2>1. s \in Streams
    OBVIOUS
  <2>2. hash' \in [Versions -> {"none", "cut"} \cup Kernels] /\ streams' \subseteq Streams
    BY <1>12, <2>1 DEF OpenHash, Streams
  <2>3. QED
    BY <1>12, <2>2 DEF OpenHash
<1>13. ASSUME NEW s \in streams, WriteHash(s) PROVE TypeOK'
  <2>1. s \in Streams
    OBVIOUS
  <2>2. hash' \in [Versions -> {"none", "cut"} \cup Kernels] /\ streams' \subseteq Streams
    BY <1>13, <2>1 DEF WriteHash, Streams
  <2>3. QED
    BY <1>13, <2>2 DEF WriteHash
<1>14. CASE UNCHANGED vars
  BY <1>14 DEF vars
<1>15. ASSUME NEW k \in Kernels, HashFails(k) PROVE TypeOK'
  <2>1. /\ count + 1 \in Versions /\ count' \in 0..MaxVersion
        /\ crashes' \in 0..MaxCrashes
    BY <1>15, BoundAssumption DEF HashFails, Versions
  <2>2. versions' \subseteq Versions /\ dmesg' \subseteq versions'
    BY <1>15, <2>1 DEF HashFails
  <2>3. hash' \in [Versions -> {"none", "cut"} \cup Kernels]
    BY <1>15 DEF HashFails
  <2>4. QED
    BY <1>15, <2>1, <2>2, <2>3 DEF HashFails
<1>16. QED
  BY <1>1, <1>2, <1>3, <1>4, <1>6, <1>7, <1>8, <1>9, <1>10, <1>11, <1>12, <1>13, <1>14, <1>15
    DEF Next

\* Type correctness: the registry's view of the directory, for any kernels.
THEOREM RegistryTypeCorrect == Spec => []TypeOK
BY TypeInit, TypeStep, PTL DEF Spec

-----------------------------------------------------------------------------
(* The places of the kernels.                                              *)

PlacesInv == MovesInv /\ KernelsKept /\ HashInv

LEMMA PlacesInit == TypeOK /\ Init => PlacesInv
BY DEF Init, PlacesInv, MovesInv, KernelsKept, HashInv, Bound

\* A new version has a fresh number, so nothing else is bound to it; a move
\* takes the kernel out of its old place; a stream writes for its own kernel.
LEMMA PlacesStep == TypeOK /\ PlacesInv /\ [Next]_vars => PlacesInv'
<1> SUFFICES ASSUME TypeOK, PlacesInv, [Next]_vars PROVE PlacesInv'
  OBVIOUS
<1> USE DEF PlacesInv, disk, memory, rest
<1>1. ASSUME NEW x \in Entries, AddEntry(x) PROVE PlacesInv'
  <2>1. \A n \in Versions : x \notin holds[n]
    BY <1>1 DEF AddEntry, Placed
  <2>2. MovesInv' /\ HashInv'
    BY <1>1 DEF AddEntry, MovesInv, HashInv, Bound
  <2>3. KernelsKept'
    BY <1>1, <2>1 DEF AddEntry, KernelsKept
  <2>4. QED
    BY <2>2, <2>3
<1>2. ASSUME NEW x \in Entries, SkipFile(x) PROVE PlacesInv'
  BY <1>2 DEF SkipFile, MovesInv, HashInv, KernelsKept, Bound
<1>3. ASSUME NEW n \in Versions, AddDmesg(n) PROVE PlacesInv'
  BY <1>3 DEF AddDmesg, MovesInv, HashInv, KernelsKept, Bound
<1>4. ASSUME NEW n \in Versions, RemoveVersion(n) PROVE PlacesInv'
  <2>1. renames = {} /\ streams = {} /\ queue = {}
    BY <1>4 DEF RemoveVersion, MovesInv
  <2>2. \A m \in Versions : /\ holds'[m] = IF m = n THEN {} ELSE holds[m]
                            /\ hash'[m] = IF m = n THEN "none" ELSE hash[m]
    BY <1>4 DEF RemoveVersion, TypeOK
  <2>3. MovesInv'
    BY <1>4, <2>1 DEF RemoveVersion, MovesInv
  <2>4. KernelsKept'
    BY <1>4, <2>2 DEF RemoveVersion, KernelsKept
  <2>5. HashInv'
    BY <1>4, <2>1, <2>2 DEF RemoveVersion, HashInv, Bound
  <2>6. QED
    BY <2>3, <2>4, <2>5
<1>5. CASE Start
  BY <1>5 DEF Start, MovesInv, HashInv, KernelsKept, Bound
<1>6. CASE LoopEnds
  BY <1>6 DEF LoopEnds, MovesInv, HashInv, KernelsKept, Bound
<1>7. ASSUME Dies, UNCHANGED disk PROVE PlacesInv'
  BY <1>7 DEF Dies, MovesInv, HashInv, KernelsKept, Bound
<1>8. CASE Settle
  <2>1. CASE Dies
    BY <1>7, <1>8, <2>1 DEF Settle
  <2>2. CASE ~Dies
    BY <1>8, <2>2 DEF Settle, MovesInv, HashInv, KernelsKept, Bound
  <2>3. QED
    BY <2>1, <2>2
<1>9. CASE Stop \/ Crash
  BY <1>7, <1>9 DEF Stop, Crash
<1>10. ASSUME NEW k \in Kernels, Register(k) PROVE PlacesInv'
  <2> DEFINE v == count + 1
             new == [version |-> v, kernel |-> k, open |-> FALSE]
  <2>1. v \in Versions \ versions
    BY <1>10, BoundAssumption DEF Register, TypeOK, Versions
  <2>2. holds[v] = {} /\ hash[v] = "none"
    BY <2>1 DEF HashInv
  <2>3. /\ versions' = versions \cup {v} /\ queue' = queue \ {k} /\ k \in queue
        /\ renames' = renames \cup {<<k, v>>} /\ streams' = streams \cup {new}
        /\ UNCHANGED <<top, holds, hash, pc>> /\ pc # "down"
    BY <1>10 DEF Register
  <2>4. /\ \A m \in Versions : <<k, m>> \notin renames
        /\ \A j \in Kernels : <<j, v>> \notin renames
    BY <2>1, <2>3 DEF MovesInv
  <2>5. new.version = v /\ new.kernel = k
    OBVIOUS
  <2> HIDE DEF v, new
  <2>6. MovesInv'
    BY <2>1, <2>2, <2>3, <2>4 DEF MovesInv
  <2>7. KernelsKept'
    BY <2>3 DEF KernelsKept
  <2>8. \A j \in Kernels, m \in Versions :
            Bound(j, m)' => Bound(j, m) \/ (j = k /\ m = v)
    BY <2>3 DEF Bound
  <2>9. HashInv'
    <3>1. \A n \in Versions \ versions' : holds'[n] = {} /\ hash'[n] = "none"
      BY <2>3 DEF HashInv
    <3>2. \A j \in Kernels, n \in Versions : Bound(j, n)' => hash'[n] \in {"none", "cut", j}
      BY <2>2, <2>3, <2>8 DEF HashInv
    <3>3. \A s \in streams' : s.version \in versions'
      BY <2>3, <2>5 DEF HashInv
    <3>4. \A j \in Kernels : ~Bound(j, v)
      BY <2>2, <2>4 DEF Bound
    <3>5. \A s \in streams' : \A j \in Kernels : Bound(j, s.version)' => j = s.kernel
      <4> SUFFICES ASSUME NEW s \in streams', NEW j \in Kernels, Bound(j, s.version)'
                   PROVE  j = s.kernel
        OBVIOUS
      <4>1. CASE s = new
        BY <4>1, <2>1, <2>5, <2>8, <3>4
      <4>2. CASE s \in streams
        <5>1. s.version \in versions /\ versions \subseteq Versions
          BY <4>2 DEF HashInv, TypeOK
        <5>2. s.version # v /\ s.version \in Versions
          BY <5>1, <2>1
        <5>3. QED
          BY <4>2, <5>2, <2>8 DEF HashInv
      <4>3. QED
        BY <4>1, <4>2, <2>3
    <3>6. QED
      BY <3>1, <3>2, <3>3, <3>5 DEF HashInv
  <2>10. QED
    BY <2>6, <2>7, <2>9
<1>11. ASSUME NEW k \in Kernels, RegisterExists(k) PROVE PlacesInv'
  BY <1>11 DEF RegisterExists, MovesInv, HashInv, KernelsKept, Bound
<1>12. ASSUME NEW k \in Kernels, NEW n \in Versions, Rename(k, n) PROVE PlacesInv'
  <2>1. <<k, n>> \in renames /\ n \in versions /\ k \in top /\ k \notin queue /\ holds[n] = {}
    BY <1>12 DEF Rename, MovesInv
  <2>2. \A m \in Versions : holds'[m] = IF m = n THEN {k} ELSE holds[m]
    BY <1>12, <2>1 DEF Rename, TypeOK
  <2>3. /\ renames' = renames \ {<<k, n>>} /\ top' = top \ {k}
        /\ UNCHANGED <<versions, hash, pc, queue, streams>>
    BY <1>12 DEF Rename
  <2>4. \A j \in Kernels, m \in Versions :
            <<j, m>> \in renames' => <<j, m>> \in renames /\ j # k /\ m # n
    BY <2>1, <2>3 DEF MovesInv
  <2>5. MovesInv'
    BY <2>1, <2>2, <2>3, <2>4 DEF MovesInv
  <2>6. KernelsKept'
    BY <2>1, <2>2, <2>3 DEF KernelsKept
  <2>7. \A j \in Kernels, m \in Versions : Bound(j, m)' => Bound(j, m)
    BY <2>1, <2>2, <2>3 DEF Bound
  <2>8. HashInv'
    <3>1. \A m \in Versions \ versions' : holds'[m] = {} /\ hash'[m] = "none"
      BY <2>1, <2>2, <2>3 DEF HashInv
    <3>2. \A s \in streams : s.version \in Versions
      BY DEF HashInv, TypeOK
    <3>3. QED
      BY <2>3, <2>7, <3>1, <3>2 DEF HashInv
  <2>9. QED
    BY <2>5, <2>6, <2>8
<1>13. ASSUME NEW s \in streams, OpenHash(s) \/ WriteHash(s) PROVE PlacesInv'
  <2>1. s \in Streams /\ s.version \in versions /\ s.version \in Versions
    BY DEF HashInv, TypeOK
  <2>2. /\ UNCHANGED <<top, versions, holds, pc, queue, renames>>
        /\ \A m \in Versions : m # s.version => hash'[m] = hash[m]
        /\ hash'[s.version] \in {"cut", s.kernel}
    BY <1>13, <2>1 DEF OpenHash, WriteHash, TypeOK
  <2>3. \A t \in streams' : \E u \in streams : t.version = u.version /\ t.kernel = u.kernel
    <3>1. [s EXCEPT !.open = TRUE].version = s.version
            /\ [s EXCEPT !.open = TRUE].kernel = s.kernel
      BY <2>1 DEF Streams
    <3>2. QED
      BY <1>13, <3>1 DEF OpenHash, WriteHash
  <2>4. pc # "down"
    BY <1>13 DEF OpenHash, WriteHash
  <2>5. MovesInv' /\ KernelsKept'
    BY <2>2, <2>4 DEF MovesInv, KernelsKept
  <2>6. \A j \in Kernels, m \in Versions : Bound(j, m)' <=> Bound(j, m)
    BY <2>2 DEF Bound
  <2>7. HashInv'
    <3>1. \A m \in Versions \ versions' : holds'[m] = {} /\ hash'[m] = "none"
      BY <2>1, <2>2 DEF HashInv
    <3>2. \A j \in Kernels, m \in Versions : Bound(j, m)' => hash'[m] \in {"none", "cut", j}
      BY <2>1, <2>2, <2>6 DEF HashInv
    <3>3. \A t \in streams' : t.version \in versions'
      BY <2>2, <2>3 DEF HashInv
    <3>4. \A t \in streams' : t.version \in Versions
      BY <2>2, <3>3 DEF TypeOK
    <3>5. \A t \in streams' : \A j \in Kernels : Bound(j, t.version)' => j = t.kernel
      BY <2>3, <2>6, <3>4 DEF HashInv
    <3>6. QED
      BY <3>1, <3>2, <3>3, <3>5 DEF HashInv
  <2>8. QED
    BY <2>5, <2>7
<1>14. CASE UNCHANGED vars
  BY <1>14 DEF vars, MovesInv, HashInv, KernelsKept, Bound
<1>15. ASSUME NEW k \in Kernels, HashFails(k) PROVE PlacesInv'
  <2> DEFINE v == count + 1
  <2>1. v \in Versions \ versions
    BY <1>15, BoundAssumption DEF HashFails, TypeOK, Versions
  <2>2. /\ versions' = versions \cup {v} /\ queue' = {} /\ pc' = "settle"
        /\ UNCHANGED <<top, holds, renames, streams>>
    BY <1>15 DEF HashFails
  <2>3. /\ \A m \in Versions : m # v => hash'[m] = hash[m]
        /\ hash'[v] \in {"none", "cut"}
    BY <1>15, <2>1 DEF HashFails, TypeOK
  <2> HIDE DEF v
  <2>4. MovesInv' /\ KernelsKept'
    BY <2>1, <2>2 DEF MovesInv, KernelsKept
  <2>5. HashInv'
    BY <2>1, <2>2, <2>3 DEF HashInv, Bound
  <2>6. QED
    BY <2>4, <2>5
<1>16. QED
  BY <1>1, <1>2, <1>3, <1>4, <1>5, <1>6, <1>8, <1>9, <1>10, <1>11, <1>12, <1>13, <1>14, <1>15
    DEF Next

LEMMA PlacesAlways == Spec => [](TypeOK /\ PlacesInv)
<1>1. Init => TypeOK /\ PlacesInv
  BY TypeInit, PlacesInit
<1>2. TypeOK /\ PlacesInv /\ [Next]_vars => (TypeOK /\ PlacesInv)'
  BY TypeStep, PlacesStep
<1>3. QED
  BY <1>1, <1>2, PTL DEF Spec

\* A kernel is in one place and a version holds one kernel, for any number of
\* kernels, versions and crashes.
THEOREM KernelsAreKept == Spec => []KernelsKept
<1>1. TypeOK /\ PlacesInv => KernelsKept
  BY DEF PlacesInv
<1>2. QED
  BY <1>1, PlacesAlways, PTL

\* A hash file never describes another kernel than the one beside it.
THEOREM HashesDescribeKernels == Spec => []HashDescribesKernel
<1>1. TypeOK /\ PlacesInv => HashDescribesKernel
  BY DEF PlacesInv, HashInv, Bound, HashDescribesKernel, TypeOK
<1>2. QED
  BY <1>1, PlacesAlways, PTL

\* A kernel is never lost, and once it has been moved it stays: a later version
\* never takes its number, since a pending move has a version of its own, which
\* is still empty.
THEOREM VersionsStay == Spec => VersionsArePermanent
<1> DEFINE Stays == \A n \in Versions :
                        holds[n] # {} /\ n \in versions' => holds'[n] = holds[n]
           Kept == \A k \in Placed :
                       k \in Placed' \/ \E n \in versions \ versions' : k \in holds[n]
<1>1. TypeOK /\ PlacesInv /\ [Next]_vars => Stays /\ Kept
  <2> SUFFICES ASSUME TypeOK, PlacesInv, [Next]_vars PROVE Stays /\ Kept
    OBVIOUS
  <2>1. CASE UNCHANGED holds /\ top \subseteq top'
    BY <2>1 DEF Placed
  <2>2. ASSUME NEW m \in Versions, RemoveVersion(m) PROVE Stays /\ Kept
    <3>1. /\ m \in versions \ versions' /\ top' = top
          /\ \A n \in Versions : n # m => holds'[n] = holds[n]
      BY <2>2 DEF RemoveVersion, TypeOK
    <3>2. Stays
      BY <3>1
    <3>3. Kept
      BY <3>1 DEF Placed
    <3>4. QED
      BY <3>2, <3>3
  <2>3. ASSUME NEW k \in Kernels, NEW m \in Versions, Rename(k, m)
        PROVE  Stays /\ Kept
    <3>1. holds[m] = {}
      BY <2>3 DEF Rename, PlacesInv, MovesInv
    <3>2. /\ top' = top \ {k} /\ k \in holds'[m]
          /\ \A n \in Versions : n # m => holds'[n] = holds[n]
      BY <2>3 DEF Rename, TypeOK
    <3>3. Stays
      BY <3>1, <3>2
    <3>4. Kept
      BY <3>1, <3>2 DEF Placed
    <3>5. QED
      BY <3>3, <3>4
  <2>4. \/ UNCHANGED holds /\ top \subseteq top'
        \/ \E m \in Versions : RemoveVersion(m)
        \/ \E k \in Kernels, m \in Versions : Rename(k, m)
    BY DEF Next, AddEntry, SkipFile, AddDmesg, Start, LoopEnds, Settle, Stop, Crash,
           Register, RegisterExists, HashFails, OpenHash, WriteHash, disk, vars
  <2>5. QED
    BY <2>1, <2>2, <2>3, <2>4
<1>2. TypeOK /\ PlacesInv /\ [Next]_vars => [Stays /\ Kept]_vars
  BY <1>1
<1>3. QED
  BY <1>2, PlacesAlways, PTL DEF Spec, VersionsArePermanent

-----------------------------------------------------------------------------
(* The numbers of the versions.                                            *)

\* Counting the numbers up to m gives m.
LEMMA CountUp ==
    ASSUME NEW m \in Nat
    PROVE  IsFiniteSet(1..m) /\ Cardinality(1..m) = m
BY FS_Interval

NumbersInv == NumbersHaveNoGap /\ CountInv

LEMMA NumbersInit == TypeOK /\ Init => NumbersInv
<1> SUFFICES ASSUME Init PROVE NumbersInv
  OBVIOUS
<1>1. versions = 1..0 /\ 0 \in 0..MaxVersion
  BY BoundAssumption DEF Init
<1>2. QED
  BY <1>1 DEF Init, NumbersInv, NumbersHaveNoGap, CountInv

\* The loop begins only when every version has been parsed and counted.
LEMMA NumbersStep == TypeOK /\ NumbersInv /\ [Next]_vars => NumbersInv'
<1> SUFFICES ASSUME TypeOK, NumbersInv, [Next]_vars PROVE NumbersInv'
  OBVIOUS
<1> USE DEF NumbersInv, NumbersHaveNoGap, CountInv
<1>1. CASE Start
  <2>1. UNCHANGED <<versions, removed>>
    BY <1>1 DEF Start, disk, rest
  <2>2. ASSUME pc' = "register", ~removed PROVE versions = 1..count'
    <3>1. count' = Cardinality(versions)
      BY <1>1, <2>2 DEF Start
    <3>2. PICK m \in 0..MaxVersion : versions = 1..m
      BY <2>2
    <3>3. Cardinality(1..m) = m
      BY CountUp, BoundAssumption
    <3>4. QED
      BY <3>1, <3>2, <3>3
  <2>3. QED
    BY <2>1, <2>2
<1>2. ASSUME NEW k \in Kernels, Register(k) PROVE NumbersInv'
  <2>1. /\ pc = "register" /\ count \in 0..MaxVersion /\ count < MaxVersion
        /\ count' = count + 1 /\ versions' = versions \cup {count + 1}
        /\ removed' = removed
    BY <1>2 DEF Register, TypeOK, rest
  <2>2. ASSUME ~removed PROVE versions' = 1..count' /\ count' \in 0..MaxVersion
    <3>1. versions = 1..count
      BY <2>1, <2>2
    <3>2. QED
      BY <2>1, <3>1, BoundAssumption
  <2>3. QED
    BY <2>1, <2>2
<1>3. CASE removed'
  BY <1>3
<1>4. CASE UNCHANGED <<versions, removed>> /\ (pc' = "register" => UNCHANGED <<pc, count>>)
  BY <1>4
<1>5. \/ Start \/ removed' \/ \E k \in Kernels : Register(k)
      \/ \E k \in Kernels : HashFails(k)
      \/ UNCHANGED <<versions, removed>> /\ (pc' = "register" => UNCHANGED <<pc, count>>)
  BY DEF Next, vars, AddEntry, AddDmesg, RemoveVersion, SkipFile, LoopEnds, Settle, Dies,
         Stop, Crash, RegisterExists, Rename, OpenHash, WriteHash, disk, memory, rest
<1>6. ASSUME NEW k \in Kernels, HashFails(k) PROVE NumbersInv'
  <2>1. /\ pc = "register" /\ count \in 0..MaxVersion /\ count < MaxVersion
        /\ count' = count + 1 /\ versions' = versions \cup {count + 1}
        /\ removed' = removed
    BY <1>6 DEF HashFails, TypeOK
  <2>2. ASSUME ~removed PROVE versions' = 1..count' /\ count' \in 0..MaxVersion
    <3>1. versions = 1..count
      BY <2>1, <2>2
    <3>2. QED
      BY <2>1, <3>1, BoundAssumption
  <2>3. QED
    BY <2>1, <2>2
<1>7. QED
  BY <1>1, <1>2, <1>3, <1>4, <1>5, <1>6

LEMMA NumbersAlways == Spec => [](TypeOK /\ NumbersInv)
<1>1. Init => TypeOK /\ NumbersInv
  BY TypeInit, NumbersInit
<1>2. TypeOK /\ NumbersInv /\ [Next]_vars => (TypeOK /\ NumbersInv)'
  BY TypeStep, NumbersStep
<1>3. QED
  BY <1>1, <1>2, PTL DEF Spec

\* As long as no version is deleted, their numbers are 1 to m for some m:
\* crashes during a registration leave no gap.
THEOREM NumbersStayDense == Spec => []NumbersHaveNoGap
<1>1. TypeOK /\ NumbersInv => NumbersHaveNoGap
  BY DEF NumbersInv
<1>2. QED
  BY <1>1, NumbersAlways, PTL

-----------------------------------------------------------------------------
(* The list of parsed boot logs.                                           *)

\* Up to nine versions, and with no name before them, V<n> is at place n.
LEMMA PlaceInList ==
    ASSUME TypeOK, NumbersHaveNoGap, ~removed, Early = {}, MaxVersion < 10,
           NEW n \in versions
    PROVE  ListIndex(n) = n
<1>1. PICK m \in 0..MaxVersion : versions = 1..m
  BY DEF NumbersHaveNoGap
<1>2. \A j \in versions : StringKey(j) = 100 * j
  BY <1>1, BoundAssumption DEF StringKey
<1>3. {j \in versions : StringKey(j) <= StringKey(n)} = 1..n
  BY <1>1, <1>2, BoundAssumption
<1>4. n \in Nat /\ Cardinality(1..n) = n
  BY <1>1, CountUp, BoundAssumption
<1>5. Cardinality(top \cap Early) = 0
  BY FS_EmptySet
<1> DEFINE S == {j \in versions : StringKey(j) <= StringKey(n)}
<1>6. ListIndex(n) = Cardinality(top \cap Early) + Cardinality(S)
  BY DEF ListIndex
<1>7. Cardinality(S) = n
  BY <1>3, <1>4
<1> HIDE DEF S
<1>8. QED
  BY <1>4, <1>5, <1>6, <1>7

LEMMA InfoStep == TypeOK /\ NumbersInv /\ InfoInv /\ [Next]_vars => InfoInv'
<1> SUFFICES ASSUME TypeOK, NumbersInv, InfoInv, [Next]_vars,
                    Early = {}, MaxVersion < 10, ~removed', NEW i \in DOMAIN NoInfo
             PROVE  info'[i] \in {0, i}
  BY DEF InfoInv
<1>1. CASE Start
  <2> DEFINE D == DOMAIN NoInfo
             V(j) == IF \E n \in Parsed : ListIndex(n) = j
                     THEN CHOOSE n \in Parsed : ListIndex(n) = j ELSE 0
  <2>1. ~removed
    BY <1>1 DEF Start, rest
  <2>2. \A n \in Parsed : ListIndex(n) = n
    BY <2>1, PlaceInList DEF Parsed, NumbersInv
  <2>3. V(i) \in {0, i}
    BY <2>2
  <2>4. info' = [j \in D |-> V(j)] /\ i \in D
    BY <1>1 DEF Start
  <2> HIDE DEF D, V
  <2>5. QED
    BY <2>3, <2>4
<1>2. CASE info' = NoInfo
  <2>1. NoInfo[i] = 0
    BY DEF NoInfo
  <2>2. QED
    BY <1>2, <2>1
<1>3. CASE UNCHANGED <<info, removed>>
  BY <1>3 DEF InfoInv
<1>4. Start \/ info' = NoInfo \/ removed' \/ UNCHANGED <<info, removed>>
  BY DEF Next, vars, AddEntry, AddDmesg, RemoveVersion, SkipFile, LoopEnds, Settle, Dies,
         Stop, Crash, Register, RegisterExists, HashFails, Rename, OpenHash, WriteHash, memory, rest
<1>5. QED
  BY <1>1, <1>2, <1>3, <1>4

\* With fewer than ten versions, none deleted and no name before V1, the boot
\* log a route answers with is that of the version it was asked for.
THEOREM InfoIsOfVersion == Spec => []InfoMatchesVersion
<1>1. Init => InfoInv
  BY DEF Init, InfoInv, NoInfo
<1>2. TypeOK /\ InfoInv => InfoMatchesVersion
  <2> SUFFICES ASSUME TypeOK, InfoInv, Early = {}, MaxVersion < 10, ~removed,
                      NEW n \in Versions
               PROVE  InfoFor(n) \in {0, n}
    BY DEF InfoMatchesVersion
  <2>1. LookupIndex(n) = n
    BY BoundAssumption DEF LookupIndex, Versions
  <2>2. DOMAIN info = DOMAIN NoInfo
    BY DEF TypeOK
  <2>3. QED
    BY <2>1, <2>2 DEF InfoInv, InfoFor
<1>3. QED
  BY <1>1, <1>2, InfoStep, NumbersAlways, PTL DEF Spec
=============================================================================
