-------------------------- MODULE VersionCompareProofs --------------------------
(***************************************************************************)
(* Proofs about VersionCompare for any number of versions and paths, any   *)
(* differences, and any bounds.                                            *)
(***************************************************************************)
EXTENDS VersionCompare, VersionSelectProofs

-----------------------------------------------------------------------------
(* The inductive invariant.                                                *)

InTransit == asks \cup answers

\* Numbers that have been given out.
SentInv ==
    /\ \A q \in InTransit : q.id <= sent /\ q.tick <= sent
    /\ last <= sent
    /\ page.treeId <= sent
    /\ page.asked <= sent

\* A selection request that has not been served is known to nobody else.
FreshInv ==
    /\ \A q, r \in asks : q.id = r.id => q = r
    /\ \A q \in asks : q.kind = "dir" =>
          /\ q.id # last
          /\ q.id # page.treeId
          /\ \A r \in asks : r.tick # q.id
          /\ \A a \in answers : a.id # q.id

\* What requests ask for; files are clicked in trees that were answered.
PairInv ==
    /\ \A q \in InTransit : q.kind = "dir" => q.pair \in Pairs \/ NotANumber(q.pair[2])
    /\ \A q \in asks : q.kind = "file" =>
          q.pair \in Pairs /\ q.path \in Diff[q.pair] /\ q.tick > 0
    /\ page.tree \in Pairs => page.treeId > 0

\* If request i was the last to change the server, the log is that of pair.
LogIs(i, pair) == i = last => chosen /\ diff_log = pair

\* The log belongs to the last request served, as the page, the answers and
\* the files that were clicked remember it.
LogInv ==
    /\ page.tree \in Pairs => LogIs(page.treeId, page.tree)
    /\ \A a \in answers : a.kind = "dir" /\ a.pair \in Pairs => LogIs(a.id, a.pair)
    /\ \A q \in asks : q.kind = "file" => LogIs(q.tick, q.pair)

\* The last selection request carries the selection of the page.
AskedInv ==
    \A q \in InTransit :
        q.kind = "dir" /\ q.id = page.asked /\ page.asked > 1
            => q.pair = Params(page.sel)

IInv ==
    /\ TypeOK
    /\ SelectionInv(page.sel)
    /\ SentInv
    /\ FreshInv
    /\ PairInv
    /\ LogInv
    /\ AskedInv
    /\ TreeIsOfSelection
    /\ FileIsOfTree
    /\ ShownFileIsSelected

\* The type invariant without the Boolean variables.
DataTypes ==
    /\ diff_log \in Pairs \cup {NoPair}
    /\ last \in 0..MaxAsks
    /\ asks \subseteq Messages
    /\ answers \subseteq Messages
    /\ hung \in Nat
    /\ sent \in 1..MaxAsks
    /\ faults \in 0..MaxFaults
    /\ page \in PageStates

-----------------------------------------------------------------------------
(* Requests and answers.                                                   *)

\* A request for a selection, and for a file of the tree, as records.
LEMMA AskTypes ==
    ASSUME TypeOK, NEW n \in 1..MaxAsks
    PROVE  /\ \A query \in Queries : AskDir(n, query) \in Messages
           /\ \A f \in Paths : AskFile(n, f) \in Messages
<1>1. NoPair \in Queries
  BY DEF NoPair, Queries
<1>2. page.tree \in Queries /\ page.treeId \in 0..MaxAsks
  BY DEF TypeOK, PageStates
<1> QED
  BY <1>1, <1>2, BoundAssumption DEF Messages, AskDir, AskFile

\* The queries a page can send have the type of queries, and carry two
\* versions in order or no second version.
LEMMA SelectionQuery ==
    ASSUME NEW s, SelectionInv(s)
    PROVE  /\ Params(s) \in Queries
           /\ Params(s) \in Pairs \/ NotANumber(Params(s)[2])
<1>1. s.checked \in SUBSET Versions
  BY DEF SelectionInv, Selections
<1>2. /\ Selected1(s) \in Versions \cup {Null}
      /\ Selected2(s) \in Versions \cup {Null}
      /\ Selected2(s) # Null => Selected1(s) \in Versions /\ Selected1(s) < Selected2(s)
  BY <1>1, ParamsFacts
<1>3. Null \notin Versions
  BY ListAssumption DEF Null, Versions
<1> QED
  BY <1>2, <1>3 DEF Params, Queries, Pairs, NotANumber

\* What a text or a tree has for elements are paths.
LEMMA ElementsArePaths == \A tree : Elements(tree) \subseteq Paths
BY DiffAssumption DEF Elements

\* A pair of versions has a second version.
LEMMA PairHasSecond == \A p \in Pairs : ~NotANumber(p[2]) /\ p[2] # Undef /\ p \in Queries
BY ListAssumption DEF Pairs, NotANumber, Undef, Versions, Queries

-----------------------------------------------------------------------------
\* The initial states: the page has just been opened.
LEMMA InitInv == Init => IInv
<1> SUFFICES ASSUME Init PROVE IInv
  OBVIOUS
<1>1. /\ NoPair \in Queries
      /\ <<Undef, Undef>> \in Queries
      /\ 1 \in 1..MaxAsks
      /\ NoPair \notin Pairs
  BY BoundAssumption, ListAssumption DEF NoPair, Queries, Pairs, Versions, Null
<1>2. SelectionInv(page.sel) /\ page.sel \in Selections
  BY NoSelectionInv DEF Init, NewPage, SelectionInv
<1>3. page \in PageStates
  BY <1>1, <1>2, BoundAssumption DEF Init, NewPage, PageStates, Views, Empty
<1>4. AskDir(1, <<Undef, Undef>>) \in Messages
  BY <1>1, BoundAssumption DEF Messages, AskDir
<1>5. TypeOK
  <2>1. up \in BOOLEAN /\ chosen \in BOOLEAN
    BY DEF Init
  <2>2. DataTypes
    BY <1>1, <1>3, <1>4, BoundAssumption DEF Init, DataTypes
  <2> QED
    BY <2>1, <2>2 DEF TypeOK, DataTypes
<1>6. Undef \notin Versions
  BY ListAssumption DEF Undef, Versions
<1> QED
  BY <1>1, <1>2, <1>5, <1>6, DiffAssumption
  DEF Init, IInv, SentInv, FreshInv, PairInv, LogInv, AskedInv, TreeIsOfSelection,
      FileIsOfTree, ShownFileIsSelected, InTransit, NewPage, AskDir, NotANumber, Empty

-----------------------------------------------------------------------------
(* Every step keeps it. What a step does not touch is kept as it is.       *)

\* The parts about the page alone, when the page does not change.
LEMMA PageUntouched ==
    ASSUME IInv, page' = page
    PROVE  SelectionInv(page.sel)' /\ TreeIsOfSelection' /\ ShownFileIsSelected'
BY DEF IInv, TreeIsOfSelection, ShownFileIsSelected

\* The page is loaded again.
LEMMA LoadStep == IInv /\ Load => IInv'
<1> SUFFICES ASSUME IInv, Load PROVE IInv'
  OBVIOUS
<1> USE DEF Load
<1>1. /\ NoPair \in Queries
      /\ <<Undef, Undef>> \in Queries
      /\ 1 \in 1..MaxAsks
      /\ NoPair \notin Pairs
  BY BoundAssumption, ListAssumption DEF NoPair, Queries, Pairs, Versions, Null
<1>2. page'.sel = NoSelection
  BY DEF NewPage
<1>3. SelectionInv(page.sel)' /\ page'.sel \in Selections
  BY <1>2, NoSelectionInv DEF SelectionInv
<1>4. page' \in PageStates
  BY <1>1, <1>3, BoundAssumption DEF NewPage, PageStates, Views, Empty
<1>5. AskDir(1, <<Undef, Undef>>) \in Messages
  BY <1>1, BoundAssumption DEF Messages, AskDir
<1>6. TypeOK'
  <2>1. up' \in BOOLEAN /\ chosen' \in BOOLEAN
    BY DEF IInv, TypeOK
  <2>2. DataTypes'
    BY <1>1, <1>4, <1>5, BoundAssumption DEF IInv, TypeOK, DataTypes
  <2> QED
    BY <2>1, <2>2 DEF TypeOK, DataTypes
<1>7. Undef \notin Versions
  BY ListAssumption DEF Undef, Versions
<1> QED
  BY <1>1, <1>3, <1>6, <1>7, DiffAssumption
  DEF IInv, SentInv, FreshInv, PairInv, LogInv, AskedInv, TreeIsOfSelection,
      FileIsOfTree, ShownFileIsSelected, InTransit, NewPage, AskDir, NotANumber, Empty

\* A version is clicked: the new request has a new number.
LEMMA SelectStep == IInv /\ (\E c \in Versions : Select(c)) => IInv'
<1> SUFFICES ASSUME IInv, NEW c \in Versions, Select(c) PROVE IInv'
  OBVIOUS
<1> DEFINE after == AfterClick(page.sel, c)
           q == AskDir(sent + 1, Params(after))
<1>1. /\ asks' = asks \cup {q}
      /\ answers' = answers /\ last' = last /\ chosen' = chosen
      /\ diff_log' = diff_log /\ sent' = sent + 1
      /\ page' = [page EXCEPT !.sel = after, !.asked = sent + 1]
      /\ sent < MaxAsks
      /\ up' = up /\ hung' = hung /\ faults' = faults
  BY DEF Select, server
<1>2. page \in PageStates /\ sent \in 1..MaxAsks /\ last \in 0..MaxAsks
  BY DEF IInv, TypeOK
<1>3. sent + 1 \in 1..MaxAsks /\ sent + 1 > sent /\ sent + 1 > 1
  BY <1>1, <1>2, BoundAssumption
<1>4. SelectionInv(after)
  BY ClickKeepsSelection DEF IInv, Select
<1>5. Params(after) \in Queries /\ (Params(after) \in Pairs \/ NotANumber(Params(after)[2]))
  BY <1>4, SelectionQuery
<1>6. /\ page' \in PageStates
      /\ page'.sel = after /\ page'.asked = sent + 1
      /\ page'.tree = page.tree /\ page'.treeId = page.treeId
      /\ page'.red = page.red /\ page'.view = page.view /\ page'.before = page.before
  BY <1>1, <1>2, <1>3, <1>4 DEF PageStates, SelectionInv
<1>7. q \in Messages
  BY <1>3, <1>5, AskTypes DEF IInv
<1>8. /\ q.id = sent + 1 /\ q.kind = "dir" /\ q.tick = 0 /\ q.pair = Params(after)
  BY DEF AskDir
<1> HIDE DEF q, after
<1>9. TypeOK'
  <2>1. up' \in BOOLEAN /\ chosen' \in BOOLEAN
    BY <1>1 DEF IInv, TypeOK
  <2>2. DataTypes'
    BY <1>1, <1>3, <1>6, <1>7 DEF IInv, TypeOK, DataTypes
  <2> QED
    BY <2>1, <2>2 DEF TypeOK, DataTypes
<1>10. \A r \in InTransit : r.id \in Nat \ {0} /\ r.tick \in Int /\ r.id <= sent /\ r.tick <= sent
  BY DEF IInv, TypeOK, Messages, InTransit, SentInv
<1>11. page.treeId \in Int /\ page.treeId <= sent /\ last <= sent
  BY <1>2 DEF IInv, SentInv, PageStates
<1>12. SentInv'
  BY <1>1, <1>2, <1>3, <1>6, <1>8, <1>10, <1>11 DEF SentInv, InTransit
<1>13. FreshInv'
  BY <1>1, <1>2, <1>3, <1>6, <1>8, <1>10, <1>11 DEF IInv, FreshInv, InTransit
<1>14. PairInv'
  BY <1>1, <1>5, <1>6, <1>8 DEF IInv, PairInv, InTransit
<1>15. LogInv'
  BY <1>1, <1>6, <1>8 DEF IInv, LogInv, LogIs
<1>16. AskedInv'
  BY <1>1, <1>2, <1>3, <1>6, <1>8, <1>10 DEF AskedInv, InTransit
<1>17. TreeIsOfSelection' /\ FileIsOfTree' /\ ShownFileIsSelected'
  BY <1>1, <1>2, <1>3, <1>6, <1>11 DEF IInv, TreeIsOfSelection, FileIsOfTree, ShownFileIsSelected
<1> QED
  BY <1>4, <1>6, <1>9, <1>12, <1>13, <1>14, <1>15, <1>16, <1>17 DEF IInv

\* A file of the tree is clicked.
LEMMA SelectFileStep == IInv /\ (\E f \in Paths : SelectFile(f)) => IInv'
<1> SUFFICES ASSUME IInv, NEW f \in Paths, SelectFile(f) PROVE IInv'
  OBVIOUS
<1> DEFINE q == AskFile(sent + 1, f)
<1>1. /\ asks' = asks \cup {q}
      /\ answers' = answers /\ last' = last /\ chosen' = chosen
      /\ diff_log' = diff_log /\ sent' = sent + 1
      /\ page' = page /\ sent < MaxAsks
      /\ up' = up /\ hung' = hung /\ faults' = faults
  BY DEF SelectFile, server
<1>2. page \in PageStates /\ sent \in 1..MaxAsks /\ last \in 0..MaxAsks
  BY DEF IInv, TypeOK
<1>3. sent + 1 \in 1..MaxAsks /\ sent + 1 > sent
  BY <1>1, <1>2, BoundAssumption
<1>4. page.tree \in Pairs /\ f \in Diff[page.tree]
  BY DEF SelectFile, Elements
<1>5. q \in Messages
  BY <1>3, AskTypes DEF IInv
<1>6. /\ q.id = sent + 1 /\ q.kind = "file" /\ q.tick = page.treeId
      /\ q.pair = page.tree /\ q.path = f
  BY DEF AskFile
<1> HIDE DEF q
<1>7. TypeOK'
  <2>1. up' \in BOOLEAN /\ chosen' \in BOOLEAN
    BY <1>1 DEF IInv, TypeOK
  <2>2. DataTypes'
    BY <1>1, <1>3, <1>5 DEF IInv, TypeOK, DataTypes
  <2> QED
    BY <2>1, <2>2 DEF TypeOK, DataTypes
<1>8. \A r \in InTransit : r.id \in Int /\ r.tick \in Int /\ r.id <= sent /\ r.tick <= sent
  BY DEF IInv, TypeOK, Messages, InTransit, SentInv
<1>9. /\ page.treeId \in Int /\ page.treeId <= sent /\ last <= sent
      /\ page.asked \in Int /\ page.asked <= sent
  BY <1>2 DEF IInv, SentInv, PageStates
<1>10. SentInv'
  BY <1>1, <1>2, <1>3, <1>6, <1>8, <1>9 DEF SentInv, InTransit
<1>11. FreshInv'
  BY <1>1, <1>2, <1>3, <1>6, <1>8, <1>9 DEF IInv, FreshInv, InTransit
<1>12. PairInv'
  BY <1>1, <1>4, <1>6 DEF IInv, PairInv, InTransit
<1>13. LogInv'
  BY <1>1, <1>4, <1>6 DEF IInv, LogInv, LogIs
<1>14. AskedInv'
  BY <1>1, <1>6 DEF IInv, AskedInv, InTransit
<1>15. FileIsOfTree'
  BY <1>1 DEF IInv, FileIsOfTree
<1> QED
  BY <1>1, <1>7, <1>10, <1>11, <1>12, <1>13, <1>14, <1>15, PageUntouched DEF IInv

\* The type invariant after a step of the server that takes request q away,
\* adds at most an answer, and leaves the page alone.
LEMMA ServerTypes ==
    ASSUME TypeOK, up' \in BOOLEAN, chosen' \in BOOLEAN,
           diff_log' \in Pairs \cup {NoPair}, last' \in 0..MaxAsks,
           asks' \subseteq asks, answers' \subseteq Messages, hung' \in Nat,
           faults' \in 0..MaxFaults, sent' = sent, page' = page
    PROVE  TypeOK'
<1>1. DataTypes'
  BY DEF TypeOK, DataTypes
<1> QED
  BY <1>1 DEF TypeOK, DataTypes

\* A selection request q is served, with the comparison's log or without.
LEMMA DirectoryFacts ==
    ASSUME IInv, NEW q \in asks, q.kind = "dir", TypeOK',
           asks' = asks \ {q}, last' = q.id, sent' = sent, page' = page,
           answers' = answers \/ (/\ answers' = answers \cup {q}
                                  /\ q.pair \in Pairs => chosen' /\ diff_log' = q.pair)
    PROVE  IInv'
<1>1. q.id <= sent
  BY DEF IInv, SentInv, InTransit
<1>2. SentInv'
  BY <1>1 DEF IInv, SentInv, InTransit
<1>3. FreshInv'
  BY DEF IInv, FreshInv
<1>4. PairInv'
  BY DEF IInv, PairInv, InTransit
<1>5. LogInv'
  <2>1. /\ page.treeId # q.id
        /\ \A a \in answers : a.id # q.id
        /\ \A r \in asks : r.tick # q.id
    BY DEF IInv, FreshInv
  <2> QED
    BY <2>1 DEF LogInv, LogIs
<1>6. AskedInv'
  BY DEF IInv, AskedInv, InTransit
<1>7. FileIsOfTree'
  BY DEF IInv, FileIsOfTree
<1> QED
  BY <1>2, <1>3, <1>4, <1>5, <1>6, <1>7, PageUntouched DEF IInv

\* /getDirectoryJSON.
LEMMA DirectoryJSONStep == IInv /\ (\E q \in asks : DirectoryJSON(q)) => IInv'
<1> SUFFICES ASSUME IInv, NEW q \in asks, DirectoryJSON(q) PROVE IInv'
  OBVIOUS
<1>1. q \in Messages /\ (q.pair \in Pairs \/ NotANumber(q.pair[2]))
  BY DEF IInv, TypeOK, PairInv, InTransit, DirectoryJSON
<1>2. TypeOK'
  <2>1. chosen' \in BOOLEAN /\ up' \in BOOLEAN
    BY DEF DirectoryJSON, IInv, TypeOK
  <2>2. diff_log' \in Pairs \cup {NoPair}
    BY <1>1 DEF DirectoryJSON, IInv, TypeOK
  <2>3. last' \in 0..MaxAsks /\ answers' \subseteq Messages
    BY <1>1 DEF DirectoryJSON, IInv, TypeOK, Messages
  <2>4. hung' \in Nat
    BY DEF DirectoryJSON, IInv, TypeOK
  <2>5. asks' \subseteq asks /\ faults' \in 0..MaxFaults /\ sent' = sent /\ page' = page
    BY DEF DirectoryJSON, IInv, TypeOK
  <2> QED
    BY <2>1, <2>2, <2>3, <2>4, <2>5, ServerTypes DEF IInv
<1>3. q.pair \in Pairs => chosen' /\ diff_log' = q.pair
  BY PairHasSecond DEF DirectoryJSON
<1>4. answers' = answers \/ answers' = answers \cup {q}
  BY DEF DirectoryJSON
<1> QED
  BY <1>2, <1>3, <1>4, DirectoryFacts DEF DirectoryJSON

\* A comparison that fails.
LEMMA CompareFailsStep == IInv /\ (\E q \in asks : CompareFails(q)) => IInv'
<1> SUFFICES ASSUME IInv, NEW q \in asks, CompareFails(q) PROVE IInv'
  OBVIOUS
<1>1. q \in Messages
  BY DEF IInv, TypeOK
<1>2. TypeOK'
  <2>1. chosen' \in BOOLEAN /\ up' \in BOOLEAN
    BY DEF CompareFails, IInv, TypeOK
  <2>2. diff_log' \in Pairs \cup {NoPair} /\ last' \in 0..MaxAsks
    BY <1>1 DEF CompareFails, Messages
  <2>3. faults' \in 0..MaxFaults
    BY BoundAssumption DEF CompareFails, IInv, TypeOK
  <2>4. /\ asks' \subseteq asks /\ sent' = sent /\ page' = page
        /\ answers' \subseteq Messages /\ hung' \in Nat
    BY DEF CompareFails, IInv, TypeOK
  <2> QED
    BY <2>1, <2>2, <2>3, <2>4, ServerTypes DEF IInv
<1> QED
  BY <1>2, DirectoryFacts DEF CompareFails

\* The server changes without a request of this page: the log is nobody's.
LEMMA ForeignStep ==
    ASSUME IInv, TypeOK', last' = 0, asks' = asks, answers' = answers,
           sent' = sent, page' = page
    PROVE  IInv'
<1>1. /\ \A q \in InTransit : q.id \in Nat \ {0}
      /\ sent \in Nat
  BY DEF IInv, TypeOK, Messages, InTransit
<1>2. SentInv'
  BY <1>1 DEF IInv, SentInv, InTransit
<1>3. FreshInv'
  BY <1>1 DEF IInv, FreshInv, InTransit
<1>4. PairInv' /\ AskedInv' /\ FileIsOfTree'
  BY DEF IInv, PairInv, AskedInv, FileIsOfTree, InTransit
<1>5. LogInv'
  <2>1. /\ page.tree \in Pairs => page.treeId # 0
        /\ \A q \in asks : q.kind = "file" => q.tick # 0
    BY DEF IInv, PairInv
  <2> QED
    BY <1>1, <2>1 DEF LogInv, LogIs, InTransit
<1> QED
  BY <1>2, <1>3, <1>4, <1>5, PageUntouched DEF IInv

\* A selection request of another page.
LEMMA OtherPageStep == IInv /\ (\E query \in SentQueries : OtherPage(query)) => IInv'
<1> SUFFICES ASSUME IInv, NEW query \in SentQueries, OtherPage(query) PROVE IInv'
  OBVIOUS
<1>1. query \in Pairs \/ NotANumber(query[2])
  BY ListAssumption DEF SentQueries, NotANumber, Versions, Null, Undef
<1>2. chosen' \in BOOLEAN /\ up' \in BOOLEAN
  BY DEF OtherPage, IInv, TypeOK
<1>3. diff_log' \in Pairs \cup {NoPair}
  BY <1>1 DEF OtherPage, IInv, TypeOK
<1>4. /\ last' = 0 /\ asks' = asks /\ answers' = answers /\ hung' = hung
      /\ sent' = sent /\ page' = page /\ faults' = faults
  BY DEF OtherPage, net
<1>5. /\ last' \in 0..MaxAsks /\ asks' \subseteq asks /\ answers' \subseteq Messages
      /\ hung' \in Nat /\ faults' \in 0..MaxFaults
  BY <1>4, BoundAssumption DEF IInv, TypeOK
<1>6. TypeOK'
  BY <1>2, <1>3, <1>4, <1>5, ServerTypes DEF IInv
<1> QED
  BY <1>4, <1>6, ForeignStep

\* The process ends.
LEMMA CrashStep == IInv /\ Crash => IInv'
<1> SUFFICES ASSUME IInv, Crash PROVE IInv'
  OBVIOUS
<1>1. chosen' \in BOOLEAN /\ up' \in BOOLEAN
  BY DEF Crash
<1>2. /\ last' = 0 /\ asks' = asks /\ answers' = answers
      /\ sent' = sent /\ page' = page
  BY DEF Crash
<1>3. /\ last' \in 0..MaxAsks /\ asks' \subseteq asks /\ answers' \subseteq Messages
      /\ hung' \in Nat /\ diff_log' \in Pairs \cup {NoPair}
  BY <1>2, BoundAssumption DEF Crash, IInv, TypeOK
<1>4. faults' \in 0..MaxFaults
  BY BoundAssumption DEF Crash, IInv, TypeOK
<1>5. TypeOK'
  BY <1>1, <1>2, <1>3, <1>4, ServerTypes DEF IInv
<1> QED
  BY <1>2, <1>5, ForeignStep

\* A step that leaves the log alone, takes requests away and adds at most one
\* answer a to a file request that was under way.
LEMMA FileFacts ==
    ASSUME IInv, TypeOK', asks' \subseteq asks, last' = last, chosen' = chosen,
           diff_log' = diff_log, sent' = sent, page' = page,
           NEW q \in asks, q.kind = "file", NEW a, a.id = q.id, a.tick = q.tick,
           a.kind = "file", a.seen = a.tick => a.of = a.pair,
           answers' = answers \/ answers' = answers \cup {a}
    PROVE  IInv'
<1>1. SentInv'
  BY DEF IInv, SentInv, InTransit
<1>2. FreshInv'
  BY DEF IInv, FreshInv
<1>3. PairInv'
  BY DEF IInv, PairInv, InTransit
<1>4. LogInv'
  BY DEF IInv, LogInv, LogIs
<1>5. AskedInv' /\ FileIsOfTree'
  BY DEF IInv, AskedInv, FileIsOfTree, InTransit
<1> QED
  BY <1>1, <1>2, <1>3, <1>4, <1>5, PageUntouched DEF IInv

\* /viewFile. If the tree of the file is the last selection served, the log is
\* that of the tree, and it has the file.
LEMMA ViewFileStep == IInv /\ (\E q \in asks : ViewFile(q)) => IInv'
<1> SUFFICES ASSUME IInv, NEW q \in asks, ViewFile(q) PROVE IInv'
  OBVIOUS
<1>1. /\ q \in Messages /\ q.kind = "file"
      /\ q.tick = last => chosen /\ diff_log = q.pair
  BY DEF IInv, TypeOK, LogInv, LogIs, ViewFile
<1>2. /\ asks' = asks \ {q} /\ sent' = sent /\ page' = page /\ faults' = faults
      /\ up' = up /\ chosen' = chosen /\ diff_log' = diff_log /\ last' = last
  BY DEF ViewFile, server
<1>3. last \in 0..MaxAsks /\ diff_log \in Queries /\ Raw \in Queries
  BY PairHasSecond DEF IInv, TypeOK, NoPair, Raw, Queries
<1>4. PICK o \in Queries :
          /\ (o = Raw /\ ~chosen) \/ o = diff_log
          /\ answers' \in {answers, answers \cup {[q EXCEPT !.of = o, !.seen = last]}}
  BY <1>3 DEF ViewFile
<1> DEFINE a == [q EXCEPT !.of = o, !.seen = last]
<1>5. /\ a \in Messages
      /\ a.id = q.id /\ a.kind = q.kind /\ a.pair = q.pair
      /\ a.tick = q.tick /\ a.of = o /\ a.seen = last
  BY <1>1, <1>3 DEF Messages
<1>6. answers' = answers \/ answers' = answers \cup {a}
  BY <1>4
<1> HIDE DEF a
<1>7. a.seen = a.tick => a.of = a.pair
  BY <1>1, <1>4, <1>5
<1>8. TypeOK'
  <2>1. chosen' \in BOOLEAN /\ up' \in BOOLEAN
    BY <1>2 DEF IInv, TypeOK
  <2>2. hung' \in Nat
    BY DEF ViewFile, IInv, TypeOK
  <2>3. /\ diff_log' \in Pairs \cup {NoPair} /\ last' \in 0..MaxAsks
        /\ asks' \subseteq asks /\ answers' \subseteq Messages /\ faults' \in 0..MaxFaults
    BY <1>2, <1>5, <1>6 DEF IInv, TypeOK
  <2> QED
    BY <1>2, <2>1, <2>2, <2>3, ServerTypes DEF IInv
<1> QED
  BY <1>1, <1>2, <1>5, <1>6, <1>7, <1>8, FileFacts

\* Requests are lost, or nothing happens to them; the server may start.
LEMMA NoAnswerFacts ==
    ASSUME IInv, TypeOK', asks' \subseteq asks, answers' = answers, last' = last,
           chosen' = chosen, diff_log' = diff_log, sent' = sent, page' = page
    PROVE  IInv'
<1>1. SentInv' /\ FreshInv' /\ PairInv'
  BY DEF IInv, SentInv, FreshInv, PairInv, InTransit
<1>2. LogInv' /\ AskedInv' /\ FileIsOfTree'
  BY DEF IInv, LogInv, LogIs, AskedInv, FileIsOfTree, InTransit
<1> QED
  BY <1>1, <1>2, PageUntouched DEF IInv

\* A refused connection, a restart, and a step that changes nothing.
LEMMA QuietSteps ==
    IInv /\ ((\E q \in asks : Refuse(q)) \/ Restart \/ UNCHANGED vars) => IInv'
<1> SUFFICES ASSUME IInv, (\E q \in asks : Refuse(q)) \/ Restart \/ UNCHANGED vars
             PROVE  IInv'
  OBVIOUS
<1>1. /\ asks' \subseteq asks /\ answers' = answers /\ hung' = hung /\ last' = last
      /\ chosen' = chosen /\ diff_log' = diff_log /\ sent' = sent /\ page' = page
      /\ faults' = faults
  BY DEF Refuse, Restart, vars, server, net
<1>2. up' \in BOOLEAN /\ chosen' \in BOOLEAN
  <2>1. up' = up \/ up' = TRUE
    BY DEF Refuse, Restart, vars, server
  <2> QED
    BY <1>1, <2>1 DEF IInv, TypeOK
<1>3. /\ diff_log' \in Pairs \cup {NoPair} /\ last' \in 0..MaxAsks
      /\ answers' \subseteq Messages /\ hung' \in Nat /\ faults' \in 0..MaxFaults
  BY <1>1 DEF IInv, TypeOK
<1>4. TypeOK'
  BY <1>1, <1>2, <1>3, ServerTypes DEF IInv
<1> QED
  BY <1>1, <1>4, NoAnswerFacts

\* The type invariant after a step of the page.
LEMMA PageTypes ==
    ASSUME TypeOK, page' \in PageStates, answers' \subseteq answers,
           UNCHANGED <<server, asks, hung, sent, faults>>
    PROVE  TypeOK'
<1>1. up' \in BOOLEAN /\ chosen' \in BOOLEAN
  BY DEF TypeOK, server
<1>2. DataTypes'
  BY DEF TypeOK, DataTypes, server
<1> QED
  BY <1>1, <1>2 DEF TypeOK, DataTypes

\* A tree arrives.
LEMMA ShowTreeStep == IInv /\ (\E a \in answers : ShowTree(a)) => IInv'
<1> SUFFICES ASSUME IInv, NEW a \in answers, ShowTree(a) PROVE IInv'
  OBVIOUS
<1>1. page \in PageStates /\ a \in Messages /\ a.kind = "dir"
  BY DEF IInv, TypeOK, ShowTree
<1>2. a.pair \in Queries /\ a.id \in 0..MaxAsks
  BY <1>1 DEF Messages
<1>3. /\ page' \in PageStates
      /\ page'.tree = a.pair /\ page'.treeId = a.id /\ page'.red = {}
      /\ page'.sel = page.sel /\ page'.asked = page.asked
      /\ page'.view = page.view /\ page'.before = page.before
  BY <1>1, <1>2 DEF ShowTree, PageStates
<1>4. /\ answers' = answers \ {a} /\ asks' = asks /\ sent' = sent
      /\ last' = last /\ chosen' = chosen /\ diff_log' = diff_log
  BY DEF ShowTree, server
<1>5. TypeOK'
  BY <1>3, PageTypes DEF IInv, ShowTree
<1>6. SentInv'
  BY <1>3, <1>4 DEF IInv, SentInv, InTransit
<1>7. FreshInv'
  BY <1>3, <1>4 DEF IInv, FreshInv
<1>8. a.id > 0
  BY <1>1 DEF Messages
<1>9. PairInv'
  BY <1>3, <1>4, <1>8 DEF IInv, PairInv, InTransit
<1>10. LogInv'
  BY <1>1, <1>3, <1>4 DEF IInv, LogInv, LogIs
<1>11. AskedInv' /\ FileIsOfTree'
  BY <1>3, <1>4 DEF IInv, AskedInv, FileIsOfTree, InTransit
<1>12. TreeIsOfSelection'
  BY <1>1, <1>3 DEF IInv, AskedInv, TreeIsOfSelection, InTransit
<1>13. ShownFileIsSelected' /\ SelectionInv(page.sel)'
  BY <1>3 DEF IInv, ShownFileIsSelected
<1> QED
  BY <1>5, <1>6, <1>7, <1>9, <1>10, <1>11, <1>12, <1>13 DEF IInv

\* The page changes in its right-hand side and its highlighting only.
LEMMA ViewFacts ==
    ASSUME IInv, TypeOK', ShownFileIsSelected', asks' = asks, answers' \subseteq answers,
           last' = last, chosen' = chosen, diff_log' = diff_log, sent' = sent,
           page'.sel = page.sel, page'.asked = page.asked,
           page'.tree = page.tree, page'.treeId = page.treeId
    PROVE  IInv'
<1>1. SentInv' /\ FreshInv' /\ PairInv'
  BY DEF IInv, SentInv, FreshInv, PairInv, InTransit
<1>2. LogInv' /\ AskedInv' /\ FileIsOfTree'
  BY DEF IInv, LogInv, LogIs, AskedInv, FileIsOfTree, InTransit
<1>3. TreeIsOfSelection' /\ SelectionInv(page.sel)'
  BY DEF IInv, TreeIsOfSelection
<1> QED
  BY <1>1, <1>2, <1>3 DEF IInv

\* The text of a file arrives.
LEMMA ShowFileStep == IInv /\ (\E a \in answers : ShowFile(a)) => IInv'
<1> SUFFICES ASSUME IInv, NEW a \in answers, ShowFile(a) PROVE IInv'
  OBVIOUS
<1>1. page \in PageStates /\ a \in Messages
  BY DEF IInv, TypeOK
<1>2. page' = FileShown(page, a)
  BY DEF ShowFile
<1>3. a.path \in Elements(page.tree) => a.path \in Paths
  BY ElementsArePaths
<1>4. Empty \in Views /\ (a.path \in Paths => [path |-> a.path, of |-> a.of] \in Views)
  BY <1>1 DEF Empty, Views, Messages, NoPair, Queries
<1>5. /\ page' \in PageStates
      /\ page'.sel = page.sel /\ page'.asked = page.asked
      /\ page'.tree = page.tree /\ page'.treeId = page.treeId
  BY <1>1, <1>2, <1>3, <1>4 DEF FileShown, PageStates
<1>6. ShownFileIsSelected'
  BY <1>1, <1>2 DEF IInv, ShownFileIsSelected, FileShown, PageStates, Empty
<1>7. TypeOK'
  BY <1>5, PageTypes DEF IInv, ShowFile
<1> QED
  BY <1>5, <1>6, <1>7, ViewFacts DEF ShowFile, server

\* A status text is written over the file.
LEMMA ShowStatusStep == IInv /\ ShowStatus => IInv'
<1> SUFFICES ASSUME IInv, ShowStatus PROVE IInv'
  OBVIOUS
<1>1. page \in PageStates /\ Status \in Views
  BY DEF IInv, TypeOK, Status, Views, Raw, Queries
<1>2. /\ page' \in PageStates /\ page'.view = Status
      /\ page'.sel = page.sel /\ page'.asked = page.asked
      /\ page'.tree = page.tree /\ page'.treeId = page.treeId
      /\ page'.red = page.red /\ page'.before = page.before
  BY <1>1 DEF ShowStatus, PageStates
<1>3. ShownFileIsSelected'
  BY <1>2 DEF IInv, ShownFileIsSelected, Status
<1>4. TypeOK'
  BY <1>2, PageTypes DEF IInv, ShowStatus, net
<1> QED
  BY <1>2, <1>3, <1>4, ViewFacts DEF ShowStatus, server, net

\* The invariant is inductive.
LEMMA StepInv == IInv /\ [Next]_vars => IInv'
BY LoadStep, SelectStep, SelectFileStep, DirectoryJSONStep, CompareFailsStep,
   OtherPageStep, CrashStep, ViewFileStep, QuietSteps, ShowTreeStep, ShowFileStep,
   ShowStatusStep
DEF Next

\* The invariant holds in every reachable state.
THEOREM Invariance == Spec => []IInv
BY InitInv, StepInv, PTL DEF Spec

-----------------------------------------------------------------------------
\* Type correctness for any versions, paths, differences and bounds.
THEOREM CompareTypeCorrect == Spec => []TypeOK
<1>1. IInv => TypeOK
  BY DEF IInv
<1> QED
  BY <1>1, Invariance, PTL

\* The tree of the last selection request is that of the selected versions
\* (ul.onclick, script.js 152-193).
THEOREM TreeMatches == Spec => []TreeIsOfSelection
<1>1. IInv => TreeIsOfSelection
  BY DEF IInv
<1> QED
  BY <1>1, Invariance, PTL

\* The text of a file belongs to the tree it was clicked in unless the
\* server's selection changed in between (start.js 405-406, 518-544).
THEOREM FileMatches == Spec => []FileIsOfTree
<1>1. IInv => FileIsOfTree
  BY DEF IInv
<1> QED
  BY <1>1, Invariance, PTL

\* The file shown is the one before_element names and no other element is
\* highlighted (getFileInfo.js 20-34).
THEOREM HighlightMatches == Spec => []ShownFileIsSelected
<1>1. IInv => ShownFileIsSelected
  BY DEF IInv
<1> QED
  BY <1>1, Invariance, PTL

\* Only comparisons without a difference and files of a tree that was
\* overtaken stay without an answer (start.js 458, 536-542).
THEOREM HangsExplained == Spec => HangsAreExplained
<1> DEFINE Hang == \A q \in asks \ asks' :
                      hung' > hung => IF q.kind = "dir" THEN Diff[q.pair] = {} ELSE q.tick # last
<1>1. ASSUME IInv, Next PROVE Hang
  <2> SUFFICES ASSUME NEW q \in asks \ asks', hung' > hung
               PROVE  IF q.kind = "dir" THEN Diff[q.pair] = {} ELSE q.tick # last
    OBVIOUS
  <2>1. hung \in Nat
    BY <1>1 DEF IInv, TypeOK
  <2>2. hung' # hung
    BY <2>1
  <2>3. ~Load
    BY <2>1 DEF Load
  <2>4. ~Crash
    BY <2>1 DEF Crash
  <2>5. PICK r \in asks : DirectoryJSON(r) \/ ViewFile(r)
    BY <1>1, <2>2, <2>3, <2>4
    DEF Next, ShowStatus, Select, SelectFile, OtherPage, CompareFails, Refuse, Restart,
        ShowTree, ShowFile, net
  <2>6. r = q
    BY <2>5 DEF DirectoryJSON, ViewFile
  <2>7. CASE DirectoryJSON(r)
    BY <2>2, <2>6, <2>7 DEF DirectoryJSON, Answered, HasDifferences
  <2>8. CASE ViewFile(r)
    <3>1. chosen /\ q.path \notin LogEntries
      BY <2>2, <2>6, <2>8 DEF ViewFile
    <3>2. /\ q.kind = "file" /\ q.pair \in Pairs /\ q.path \in Diff[q.pair]
          /\ q.tick = last => diff_log = q.pair
      BY <1>1, <2>6, <2>8 DEF IInv, PairInv, LogInv, LogIs, ViewFile
    <3> QED
      BY <3>1, <3>2 DEF LogEntries, Elements
  <2> QED
    BY <2>5, <2>7, <2>8
<1>2. IInv /\ [Next]_vars => [Hang]_vars
  BY <1>1
<1> QED
  BY <1>2, Invariance, PTL DEF Spec, HangsAreExplained
=============================================================================
