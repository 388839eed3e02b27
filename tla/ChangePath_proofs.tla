-------------------------- MODULE ChangePath_proofs --------------------------
(* changeMediaLocationPath for any roots, files, requests, calls, tables and *)
(* page sizes: the types, that the other tables follow the rows, and that    *)
(* no file is left in a place that is not scanned any more.                  *)
EXTENDS ChangePath, FiniteSetTheorems, SequenceTheorems, TLAPS

\* A call has handled no more rows than the pages it fetched hold, and none
\* before it has verified a sample.
CountsFitPages ==
  \A c \in Calls :
    /\ IsFiniteSet(call[c].page)
    /\ call[c].updated + call[c].failed + Cardinality(call[c].page) <= call[c].offset
    /\ call[c].pc \in {"idle", "lookup", "files", "adopt", "count", "verify"} =>
         call[c].updated = 0 /\ call[c].failed = 0 /\ call[c].offset = 0 /\ call[c].page = {}

\* How many files the other tables name.
Named == Cardinality(data[Tables[1]])

\* Whatever a call does with the root of a path, the relative path stays: the
\* tables go on naming as many files, each once, and the rows that had data
\* at the start go on being different files.
TablesStay ==
  \A t \in TableNames :
    /\ IsFiniteSet(data[t]) /\ Cardinality(data[t]) = Named
    /\ \A p, q \in data[t] : p[2] = q[2] => p = q

RowsStay ==
  /\ Named <= Len(scanned_files)
  /\ \A id, other \in 1 .. Named : scanned_files[id][2] = scanned_files[other][2] => id = other

Carries(c) ==
  /\ \A row \in call[c].page :
       Root(row[2]) = call[c].old /\ scanned_files[row[1]][2] = row[2][2]
  /\ call[c].pc = "data" =>
       /\ Root(call[c].from) = call[c].old /\ Root(call[c].to) = call[c].new
       /\ call[c].from[2] = call[c].to[2]

RelativePathsStay == TablesStay /\ RowsStay /\ \A c \in Calls : Carries(c)

CallsAgree == \A c, d \in Calls : Active(c) /\ Active(d) => call[c].new = call[d].new

\* A row of a page is where the page says, or another call has moved it to
\* where this one would; no other row with data is there.
PageHolds(c) ==
  \A row \in call[c].page :
    /\ scanned_files[row[1]] \in {row[2], <<call[c].new, row[2][2]>>}
    /\ call[c].old # call[c].new =>
         \A id \in 1 .. Named : id # row[1] => scanned_files[id] # row[2]

\* Nor is one where a row was that a call is moving the data of.
LeftBehind(c) ==
  call[c].pc = "data" /\ call[c].from # call[c].to =>
    \A id \in 1 .. Named : scanned_files[id] # call[c].from

\* A table names a row, or will when a call that moves its data gets there.
NamedOrSoon(id, t) ==
  \/ scanned_files[id] \in data[t]
  \/ \E c \in Calls : /\ call[c].pc = "data" /\ call[c].to = scanned_files[id]
                      /\ call[c].from \in data[t]
                      /\ \E i \in DOMAIN Tables : i >= call[c].table /\ Tables[i] = t

DataInv ==
  "data" \notin harm =>
    /\ CallsAgree
    /\ \A c \in Calls : PageHolds(c) /\ LeftBehind(c)
    /\ \A t \in TableNames : \A id \in 1 .. Named : NamedOrSoon(id, t)

\* What a call knows of the rows under the old root.
OldRoot(c) ==
  LET ids == IdsUnder(call[c].old)
  IN  \* no more than it has counted
      /\ call[c].pc \in {"verify", "page", "data", "finish", "remove"} =>
           Cardinality(ids) <= call[c].total
      \* one that has fetched a page has rows of it left or has handled one
      /\ call[c].offset > 0 =>
           call[c].page # {} \/ call[c].updated > 0 \/ call[c].failed > 0
      \* all in its page, if that was the only one and no row of it failed
      /\ call[c].offset > 0 /\ call[c].failed = 0 /\ call[c].total <= call[c].offset =>
           \A id \in ids : \E row \in call[c].page : row[1] = id
      \* one that ends with rows moved has handled its pages
      /\ call[c].pc \in {"finish", "remove"} /\ call[c].updated > 0 =>
           call[c].total <= call[c].offset /\ call[c].page = {}
      /\ call[c].pc = "remove" =>
           /\ call[c].updated > 0 /\ call[c].failed = 0
           /\ call[c].new \in user_settings

Placed(root) ==
  \/ root \in user_settings
  \/ \E c \in Calls : Active(c) /\ call[c].new = root /\ call[c].updated > 0

PlaceInv ==
  "place" \notin harm =>
    /\ CallsAgree
    /\ \A c \in Calls : Active(c) => call[c].old # call[c].new
    /\ \A c \in Calls : Active(c) => OldRoot(c)
    /\ \A id \in Ids : Placed(Root(scanned_files[id]))

Inv == TypeOK /\ CountsFitPages /\ RelativePathsStay /\ DataInv /\ PlaceInv

-----------------------------------------------------------------------------
(* Facts about the operators of the model.                                 *)

LEMMA SmallFacts ==
  /\ Tables # <<>> /\ DOMAIN Tables = 1 .. Len(Tables) /\ Len(Tables) \in Nat \ {0}
  /\ BatchSize \in Nat \ {0} /\ Home \in Roots
  /\ Idle \in CallStates /\ 1 \in DOMAIN Tables /\ Tables[1] \in TableNames
<1>1. Tables # <<>> /\ DOMAIN Tables = 1 .. Len(Tables) /\ Len(Tables) \in Nat \ {0}
  BY Shape, LenProperties, EmptySeq
<1>2. 1 \in DOMAIN Tables
  BY <1>1
<1>3. QED
  BY <1>1, <1>2, Bounds, Shape DEF Idle, CallStates, TableNames

LEMMA IdsAreFinite ==
  ASSUME TypeOK
  PROVE  /\ Ids = 1 .. Len(scanned_files) /\ Len(scanned_files) \in Nat
         /\ IsFiniteSet(Ids) /\ Cardinality(Ids) = Len(scanned_files)
         /\ \A ids \in SUBSET Ids : /\ ids \in SUBSET Nat /\ IsFiniteSet(ids)
                                    /\ Cardinality(ids) \in Nat
                                    /\ Cardinality(ids) <= Len(scanned_files)
<1>1. Ids = 1 .. Len(scanned_files) /\ Len(scanned_files) \in Nat
  BY LenProperties DEF TypeOK, Ids
<1>2. IsFiniteSet(Ids) /\ Cardinality(Ids) = Len(scanned_files)
  BY <1>1, FS_Interval
<1>3. ASSUME NEW ids \in SUBSET Ids
      PROVE  /\ ids \in SUBSET Nat /\ IsFiniteSet(ids)
             /\ Cardinality(ids) \in Nat /\ Cardinality(ids) <= Len(scanned_files)
  <2>1. IsFiniteSet(ids) /\ Cardinality(ids) <= Len(scanned_files)
    BY <1>2, <1>3, FS_Subset
  <2>2. QED
    BY <1>1, <2>1, FS_CardinalityType
<1>4. QED
  BY <1>1, <1>2, <1>3

\* LIMIT and OFFSET: each row has a rank of its own.
LEMMA RanksDiffer ==
  ASSUME NEW ids \in SUBSET Nat, IsFiniteSet(ids)
  PROVE  /\ \A id \in ids : Rank(ids, id) \in 0 .. Cardinality(ids) - 1
         /\ \A i, j \in ids : Rank(ids, i) = Rank(ids, j) => i = j
<1> DEFINE Before(id) == {before \in ids : before < id}
<1>1. \A id \in ids : IsFiniteSet(Before(id)) /\ Rank(ids, id) = Cardinality(Before(id))
  BY FS_Subset DEF Rank
<1>2. ASSUME NEW i \in ids PROVE Rank(ids, i) \in 0 .. Cardinality(ids) - 1
  <2>1. Before(i) \subseteq ids \ {i}
    OBVIOUS
  <2>2. IsFiniteSet(ids \ {i}) /\ Cardinality(ids \ {i}) = Cardinality(ids) - 1
    BY FS_RemoveElement
  <2>3. Cardinality(Before(i)) <= Cardinality(ids \ {i})
    BY <2>1, <2>2, FS_Subset
  <2>4. Cardinality(Before(i)) \in Nat /\ Cardinality(ids) \in Nat
    BY <1>1, FS_CardinalityType
  <2>5. QED
    BY <1>1, <2>2, <2>3, <2>4
<1>3. ASSUME NEW i \in ids, NEW j \in ids, i < j PROVE Rank(ids, i) # Rank(ids, j)
  <2>1. Before(i) \subseteq Before(j) /\ i \in Before(j) /\ i \notin Before(i)
    <3>1. i \in Nat /\ j \in Nat /\ \A k \in ids : k \in Nat
      OBVIOUS
    <3>2. ASSUME NEW k \in Before(i) PROVE k \in Before(j)
      BY <1>3, <3>1, <3>2
    <3>3. i \in Before(j) /\ ~ (i \in Before(i))
      BY <1>3, <3>1
    <3>4. QED
      BY <3>2, <3>3
  <2>2. Before(i) # Before(j)
    BY <2>1
  <2> HIDE DEF Before
  <2>3. Cardinality(Before(i)) # Cardinality(Before(j))
    BY <1>1, <2>1, <2>2, FS_Subset
  <2>4. QED
    BY <1>1, <2>3
<1>4. QED
  BY <1>2, <1>3

\* A page has at most BatchSize rows, and as many rows are before it as OFFSET says.
LEMMA PageFits ==
  ASSUME NEW ids \in SUBSET Nat, IsFiniteSet(ids), NEW offset \in Nat, NEW page,
         page = PageOf(ids, offset)
  PROVE  /\ IsFiniteSet(page) /\ Cardinality(page) \in Nat
         /\ Cardinality(page) <= BatchSize
         /\ page # {} => offset + Cardinality(page) <= Cardinality(ids)
         /\ \A row \in page : row[1] \in ids /\ row = <<row[1], scanned_files[row[1]]>>
         /\ offset = 0 /\ Cardinality(ids) <= BatchSize =>
              \A id \in ids : \E row \in page : row[1] = id
<1> USE Bounds
<1>1. Cardinality(ids) \in Nat
  BY FS_CardinalityType
<1>2. ASSUME NEW row \in page
      PROVE  /\ row[1] \in ids /\ row = <<row[1], scanned_files[row[1]]>>
             /\ Rank(ids, row[1]) \in offset .. offset + BatchSize - 1
  BY DEF PageOf
<1>3. ASSUME NEW lo \in Int, NEW hi \in Int, \A row \in page : Rank(ids, row[1]) \in lo .. hi
      PROVE  IsFiniteSet(page) /\ Cardinality(page) <= Cardinality(lo .. hi)
  <2> DEFINE rank == [row \in page |-> Rank(ids, row[1])]
  <2>1. rank \in [page -> lo .. hi]
    BY <1>3
  <2>2. ASSUME NEW r \in page, NEW s \in page, rank[r] = rank[s] PROVE r = s
    <3>1. Rank(ids, r[1]) = Rank(ids, s[1])
      BY <2>2
    <3>2. r[1] = s[1]
      BY <3>1, <1>2, RanksDiffer
    <3>3. QED
      BY <3>2, <1>2
  <2>3. rank \in Injection(page, lo .. hi)
    BY <2>1, <2>2 DEF Injection, IsInjective
  <2>4. QED
    BY <2>3, FS_Injection, FS_Interval
<1>4. IsFiniteSet(page) /\ Cardinality(page) <= BatchSize /\ Cardinality(page) \in Nat
  <2>1. offset \in Int /\ offset + BatchSize - 1 \in Int
    OBVIOUS
  <2>2. IsFiniteSet(page) /\ Cardinality(page) <= Cardinality(offset .. offset + BatchSize - 1)
    BY <1>2, <1>3, <2>1
  <2>3. Cardinality(offset .. offset + BatchSize - 1) = BatchSize
    BY <2>1, FS_Interval
  <2>4. QED
    BY <2>2, <2>3, FS_CardinalityType
<1>5. ASSUME page # {} PROVE offset + Cardinality(page) <= Cardinality(ids)
  <2>1. \A row \in page : Rank(ids, row[1]) \in offset .. Cardinality(ids) - 1
    BY <1>1, <1>2, RanksDiffer
  <2>2. Cardinality(ids) - 1 \in Int /\ offset <= Cardinality(ids) - 1
    BY <1>1, <1>5, <2>1
  <2>3. Cardinality(page) <= Cardinality(offset .. Cardinality(ids) - 1)
    BY <1>3, <2>1, <2>2
  <2>4. Cardinality(offset .. Cardinality(ids) - 1) = Cardinality(ids) - offset
    BY <1>1, <2>2, FS_Interval
  <2>5. QED
    BY <1>1, <1>4, <2>3, <2>4
<1>6. ASSUME offset = 0, Cardinality(ids) <= BatchSize, NEW id \in ids
      PROVE  \E row \in page : row[1] = id
  <2>1. Rank(ids, id) \in offset .. offset + BatchSize - 1
    BY <1>1, <1>6, RanksDiffer
  <2>2. <<id, scanned_files[id]>> \in page
    BY <2>1 DEF PageOf
  <2>3. QED
    BY <2>2
<1>7. QED
  BY <1>2, <1>4, <1>5, <1>6

\* What the steps leave of a call.
LEMMA GotoLeaves ==
  ASSUME TypeOK, NEW c \in Calls,
         NEW pc \in {"files", "adopt", "count", "page", "finish", "remove"}, Goto(c, pc)
  PROVE  /\ call' \in [Calls -> CallStates]
         /\ call'[c] = [call[c] EXCEPT !.pc = pc]
         /\ \A d \in Calls : d # c => call'[d] = call[d]
<1> DEFINE new == [call[c] EXCEPT !.pc = pc]
<1>1. call[c] \in CallStates
  BY DEF TypeOK
<1>2. new \in CallStates
  BY <1>1 DEF CallStates
<1>3. call' = [call EXCEPT ![c] = new]
  BY DEF Goto
<1> HIDE DEF new
<1>4. call' \in [Calls -> CallStates] /\ call'[c] = new /\ \A d \in Calls : d # c => call'[d] = call[d]
  BY <1>2, <1>3 DEF TypeOK
<1>5. QED
  BY <1>4 DEF new

LEMMA AnswerLeaves ==
  ASSUME TypeOK, NEW c \in Calls, Answer(c)
  PROVE  /\ call' \in [Calls -> CallStates]
         /\ call'[c] = Idle
         /\ \A d \in Calls : d # c => call'[d] = call[d]
BY SmallFacts DEF TypeOK, Answer

-----------------------------------------------------------------------------
(* TypeOK and CountsFitPages.                                              *)

\* What they say of one call.
CallFits(c) ==
  LET handled == call[c].updated + call[c].failed + Cardinality(call[c].page)
  IN  /\ <<call[c].old, call[c].new>> \in Requests \/ call[c] = Idle
      /\ IsFiniteSet(call[c].page) /\ call[c].page \subseteq Ids \X Paths
      /\ call[c].pc = "data" => call[c].from \in Paths /\ call[c].to \in Paths
      /\ handled <= Len(scanned_files) /\ handled <= call[c].offset
      /\ call[c].pc \in {"idle", "lookup", "files", "adopt", "count", "verify"} =>
           call[c].updated = 0 /\ call[c].failed = 0 /\ call[c].offset = 0 /\ call[c].page = {}

\* The rows at the start: one for each file that was found.
LEMMA InitRows ==
  ASSUME NEW found \in SUBSET Files, scanned_files = SetToSeq({<<Home, f>> : f \in found})
  PROVE  LET paths == {<<Home, f>> : f \in found}
         IN  /\ IsFiniteSet(paths) /\ paths \subseteq Paths
             /\ scanned_files \in Seq(paths) /\ Len(scanned_files) = Cardinality(paths)
             /\ IsInjective(scanned_files)
<1> DEFINE paths == {<<Home, f>> : f \in found}
<1>1. IsFiniteSet(paths)
  <2> DEFINE file == [p \in paths |-> p[2]]
  <2>1. file \in [paths -> Files]
    OBVIOUS
  <2>2. \A p, q \in paths : file[p] = file[q] => p = q
    OBVIOUS
  <2>3. file \in Injection(paths, Files)
    BY <2>1, <2>2 DEF Injection, IsInjective
  <2>4. QED
    BY <2>3, FS_Injection, Shape
<1>2. paths \subseteq Paths
  BY Shape DEF Paths
<1>3. PICK seq : seq \in [1 .. Cardinality(paths) -> paths] /\ IsInjective(seq)
  BY <1>1, FS_CardinalityType DEF ExistsBijection, Bijection, Injection
<1>4. scanned_files \in [1 .. Cardinality(paths) -> paths] /\ IsInjective(scanned_files)
  BY <1>3 DEF SetToSeq
<1>5. Cardinality(paths) \in Nat
  BY <1>1, FS_CardinalityType
<1> HIDE DEF paths
<1>6. scanned_files \in Seq(paths) /\ Len(scanned_files) = Cardinality(paths)
  BY <1>4, <1>5
<1>7. QED
  BY <1>1, <1>2, <1>4, <1>6 DEF paths

LEMMA TypeInit == Init => TypeOK /\ CountsFitPages
<1> SUFFICES ASSUME Init PROVE TypeOK /\ CountsFitPages
  OBVIOUS
<1>1. PICK found \in (SUBSET Files) \ {{}} :
        /\ scanned_files = SetToSeq({<<Home, f>> : f \in found})
        /\ data = [t \in TableNames |-> {<<Home, f>> : f \in found}]
  BY DEF Init
<1> DEFINE paths == {<<Home, f>> : f \in found}
<1>2. paths \subseteq Paths /\ scanned_files \in Seq(paths) /\ IsInjective(scanned_files)
  BY <1>1, InitRows
<1>3. scanned_files \in Seq(Paths) /\ Len(scanned_files) \in Nat
  BY <1>2, SeqMonotonic, LenProperties
<1>4. data \in [TableNames -> SUBSET Paths]
  BY <1>1, <1>2
<1>5. call \in [Calls -> CallStates] /\ \A c \in Calls : call[c] = Idle
  BY SmallFacts DEF Init
<1>6. \A c \in Calls : CallFits(c)
  <2>1. IsFiniteSet(Idle.page) /\ Cardinality(Idle.page) = 0
    BY FS_EmptySet DEF Idle
  <2>2. {} \subseteq Ids \X Paths
    OBVIOUS
  <2>3. ASSUME NEW c \in Calls PROVE CallFits(c)
    <3>1. call[c] = Idle
      BY <1>5
    <3>2. QED
      BY <1>3, <2>1, <2>2, <3>1 DEF CallFits, Idle
  <2>4. QED
    BY <2>3
<1>7. user_settings \subseteq Roots /\ scanRoots \subseteq Roots /\ events \in 0 .. MaxEvents /\ harm \subseteq {"data", "place"}
  BY Shape, Bounds DEF Init
<1>8. QED
  BY <1>2, <1>3, <1>4, <1>5, <1>6, <1>7 DEF TypeOK, CountsFitPages, CallFits

\* A step that changes one call, and takes no row away.
LEMMA OthersFit ==
  ASSUME TypeOK, CountsFitPages, NEW c \in Calls,
         \A d \in Calls : d # c => call'[d] = call[d],
         scanned_files' \in Seq(Paths), Len(scanned_files') >= Len(scanned_files),
         CallFits(c)'
  PROVE  \A d \in Calls : CallFits(d)'
<1>1. ASSUME NEW d \in Calls, d # c PROVE CallFits(d)'
  <2>1. CallFits(d) /\ call'[d] = call[d]
    BY <1>1 DEF TypeOK, CountsFitPages, CallFits
  <2>2. Ids \subseteq Ids' /\ Len(scanned_files) \in Nat /\ Len(scanned_files') \in Nat
    BY LenProperties DEF TypeOK, Ids
  <2>3. call[d].updated \in Nat /\ call[d].failed \in Nat /\ Cardinality(call[d].page) \in Nat
    BY FS_CardinalityType DEF TypeOK, CountsFitPages, CallStates
  <2>4. QED
    BY <2>1, <2>2, <2>3 DEF CallFits
<1>2. QED
  BY <1>1

\* A step that ends a call, or only takes it to its next statement.
LEMMA AnswerFits ==
  ASSUME TypeOK, NEW c \in Calls, Answer(c), scanned_files' = scanned_files
  PROVE  CallFits(c)'
<1>1. call'[c] = Idle
  BY AnswerLeaves
<1>2. IsFiniteSet({}) /\ Cardinality({}) = 0
  BY FS_EmptySet
<1>3. Len(scanned_files) \in Nat
  BY LenProperties DEF TypeOK
<1>4. QED
  BY <1>1, <1>2, <1>3 DEF CallFits, Idle

LEMMA GotoFits ==
  ASSUME TypeOK, CountsFitPages, NEW c \in Calls, scanned_files' = scanned_files,
         NEW pc \in {"files", "adopt", "count", "page", "finish", "remove"}, Goto(c, pc),
         \/ call[c].pc \in {"lookup", "files", "adopt", "count", "verify"}
         \/ call[c].pc \in {"page", "finish"} /\ pc \in {"finish", "remove"}
  PROVE  CallFits(c)'
<1>1. call'[c] = [call[c] EXCEPT !.pc = pc] /\ call[c] \in CallStates /\ call[c] # Idle
  <2>1. call'[c] = [call[c] EXCEPT !.pc = pc]
    BY GotoLeaves
  <2>2. call[c] \in CallStates
    BY DEF TypeOK
  <2>3. QED
    BY <2>1, <2>2 DEF Idle
<1>2. /\ call'[c].pc = pc /\ call'[c].old = call[c].old /\ call'[c].new = call[c].new
      /\ call'[c].page = call[c].page /\ call'[c].offset = call[c].offset
      /\ call'[c].updated = call[c].updated /\ call'[c].failed = call[c].failed
  BY <1>1 DEF CallStates
<1>3. Ids' = Ids
  BY DEF Ids
<1>4. QED
  BY <1>1, <1>2, <1>3 DEF CallFits, TypeOK, CountsFitPages

\* The steps of the handler, one by one: the call keeps its type and fits.
LEMMA TypeAsk ==
  ASSUME TypeOK, CountsFitPages, NEW c \in Calls, NEW r \in Requests, Ask(c, r)
  PROVE  /\ call' \in [Calls -> CallStates] /\ CallFits(c)'
         /\ \A d \in Calls : d # c => call'[d] = call[d]
<1> DEFINE new == [Idle EXCEPT !.pc = "lookup", !.old = r[1], !.new = r[2]]
<1>1. r[1] \in Roots /\ r[2] \in Roots /\ r = <<r[1], r[2]>>
  BY Shape
<1>2. new \in CallStates
  BY <1>1, SmallFacts DEF Idle, CallStates
<1>3. call' = [call EXCEPT ![c] = new] /\ scanned_files' = scanned_files
  BY DEF Ask, DB
<1>4. /\ new.old = r[1] /\ new.new = r[2] /\ new.page = {} /\ new.pc = "lookup"
      /\ new.updated = 0 /\ new.failed = 0 /\ new.offset = 0
  BY DEF Idle
<1> HIDE DEF new
<1>5. call' \in [Calls -> CallStates] /\ call'[c] = new /\ \A d \in Calls : d # c => call'[d] = call[d]
  BY <1>2, <1>3 DEF TypeOK
<1>6. IsFiniteSet({}) /\ Cardinality({}) = 0 /\ Len(scanned_files) \in Nat
  BY FS_EmptySet, LenProperties DEF TypeOK
<1>7. <<new.old, new.new>> \in Requests
  BY <1>1, <1>4
<1>8. CallFits(c)'
  <2>1. /\ call'[c].page = {} /\ call'[c].pc = "lookup" /\ call'[c].updated = 0
        /\ call'[c].failed = 0 /\ call'[c].offset = 0
        /\ <<call'[c].old, call'[c].new>> \in Requests
    BY <1>4, <1>5, <1>7
  <2>2. Cardinality(call'[c].page) = 0 /\ IsFiniteSet(call'[c].page)
    BY <1>6, <2>1
  <2>3. QED
    BY <1>3, <1>6, <2>1, <2>2 DEF CallFits
<1>9. QED
  BY <1>5, <1>8

LEMMA TypeCount ==
  ASSUME TypeOK, CountsFitPages, NEW c \in Calls, Count(c)
  PROVE  /\ call' \in [Calls -> CallStates] /\ CallFits(c)'
         /\ \A d \in Calls : d # c => call'[d] = call[d]
<1>1. CASE Answer(c)
  BY <1>1, AnswerLeaves, AnswerFits DEF Count, DB
<1>2. CASE call' = [call EXCEPT ![c].pc = "verify", ![c].total = Cardinality(IdsUnder(call[c].old))]
  <2> DEFINE new == [call[c] EXCEPT !.pc = "verify", !.total = Cardinality(IdsUnder(call[c].old))]
  <2>1. call[c] \in CallStates /\ call[c].pc = "count" /\ call[c] # Idle
    BY DEF TypeOK, Count, Idle
  <2>2. IdsUnder(call[c].old) \in SUBSET Ids
    BY DEF IdsUnder
  <2>3. Cardinality(IdsUnder(call[c].old)) \in Nat
    BY <2>2, IdsAreFinite
  <2>4. new \in CallStates
    BY <2>1, <2>3 DEF CallStates
  <2>5. /\ new.old = call[c].old /\ new.new = call[c].new /\ new.page = call[c].page
        /\ new.pc = "verify" /\ new.offset = call[c].offset
        /\ new.updated = call[c].updated /\ new.failed = call[c].failed
    BY <2>1 DEF CallStates
  <2>6. call' = [call EXCEPT ![c] = new] /\ scanned_files' = scanned_files
    BY <1>2 DEF Count, DB
  <2> HIDE DEF new
  <2>7. call' \in [Calls -> CallStates] /\ call'[c] = new /\ \A d \in Calls : d # c => call'[d] = call[d]
    BY <2>4, <2>6 DEF TypeOK
  <2>8. CallFits(c)'
    BY <2>1, <2>5, <2>6, <2>7 DEF CallFits, TypeOK, CountsFitPages, Ids
  <2>9. QED
    BY <2>7, <2>8
<1>3. QED
  BY <1>1, <1>2 DEF Count

LEMMA TypeFetch ==
  ASSUME TypeOK, CountsFitPages, NEW c \in Calls, FetchPage(c)
  PROVE  /\ call' \in [Calls -> CallStates] /\ CallFits(c)'
         /\ \A d \in Calls : d # c => call'[d] = call[d]
<1> DEFINE ids == IdsUnder(call[c].old)
           page == PageOf(ids, call[c].offset)
<1>1. CASE Goto(c, "finish")
  BY <1>1, GotoLeaves, GotoFits DEF FetchPage, DB
<1>2. CASE page # {} /\ call' = [call EXCEPT ![c].page = page, ![c].offset = call[c].offset + BatchSize]
  <2> DEFINE new == [call[c] EXCEPT !.page = page, !.offset = call[c].offset + BatchSize]
  <2>1. call[c] \in CallStates /\ call[c].pc = "page" /\ call[c].page = {} /\ call[c] # Idle
    BY DEF TypeOK, FetchPage, Idle
  <2>2. ids \in SUBSET Ids /\ call[c].offset \in Nat
    BY <2>1 DEF IdsUnder, CallStates
  <2>3. /\ ids \in SUBSET Nat /\ IsFiniteSet(ids)
        /\ Cardinality(ids) \in Nat /\ Cardinality(ids) <= Len(scanned_files)
    BY <2>2, IdsAreFinite
  <2>4. /\ IsFiniteSet(page) /\ Cardinality(page) \in Nat /\ Cardinality(page) <= BatchSize
        /\ call[c].offset + Cardinality(page) <= Cardinality(ids)
        /\ \A row \in page : row[1] \in ids /\ row = <<row[1], scanned_files[row[1]]>>
    BY <1>2, <2>2, <2>3, PageFits
  <2>5. page \subseteq Ids \X Paths /\ page \subseteq Nat \X Paths
    <3>1. ASSUME NEW row \in page PROVE row \in Ids \X Paths /\ row \in Nat \X Paths
      <4>1. row[1] \in Ids /\ row[1] \in Nat /\ row = <<row[1], scanned_files[row[1]]>>
        BY <2>2, <2>3, <2>4
      <4>2. scanned_files[row[1]] \in Paths
        BY <4>1, IdsAreFinite, ElementOfSeq DEF TypeOK
      <4>3. QED
        BY <4>1, <4>2
    <3>2. QED
      BY <3>1
  <2> HIDE DEF page
  <2>6. new \in CallStates
    <3>1. call[c].offset + BatchSize \in Nat /\ page \in SUBSET (Nat \X Paths)
      BY <2>2, <2>5, Bounds
    <3>2. QED
      BY <2>1, <3>1 DEF CallStates
  <2>7. /\ new.old = call[c].old /\ new.new = call[c].new /\ new.page = page
        /\ new.pc = "page" /\ new.offset = call[c].offset + BatchSize
        /\ new.updated = call[c].updated /\ new.failed = call[c].failed
    BY <2>1 DEF CallStates
  <2>8. call' = [call EXCEPT ![c] = new] /\ scanned_files' = scanned_files
    BY <1>2 DEF FetchPage, DB
  <2> HIDE DEF new
  <2>9. call' \in [Calls -> CallStates] /\ call'[c] = new /\ \A d \in Calls : d # c => call'[d] = call[d]
    BY <2>6, <2>8 DEF TypeOK
  <2>10. call[c].updated \in Nat /\ call[c].failed \in Nat
    BY <2>1 DEF CallStates
  <2>11. call[c].updated + call[c].failed <= call[c].offset
    <3>1. Cardinality(call[c].page) = 0
      BY <2>1, FS_EmptySet
    <3>2. call[c].updated + call[c].failed + Cardinality(call[c].page) <= call[c].offset
      BY DEF CountsFitPages
    <3>3. QED
      BY <2>10, <3>1, <3>2
  <2>12. /\ call[c].updated + call[c].failed + Cardinality(page) <= Len(scanned_files)
         /\ call[c].updated + call[c].failed + Cardinality(page) <= call[c].offset + BatchSize
    <3>1. Len(scanned_files) \in Nat /\ BatchSize \in Nat
      BY IdsAreFinite, Bounds
    <3>2. /\ Cardinality(page) \in Nat /\ Cardinality(page) <= BatchSize
          /\ call[c].offset + Cardinality(page) <= Cardinality(ids)
          /\ Cardinality(ids) \in Nat /\ Cardinality(ids) <= Len(scanned_files)
      BY <2>3, <2>4
    <3>3. call[c].offset \in Nat
      BY <2>2
    <3> HIDE DEF ids
    <3>4. QED
      BY <2>10, <2>11, <3>1, <3>2, <3>3
  <2>13. <<call[c].old, call[c].new>> \in Requests
    BY <2>1 DEF TypeOK
  <2>14. CallFits(c)'
    BY <2>1, <2>4, <2>5, <2>7, <2>8, <2>9, <2>12, <2>13 DEF CallFits, Ids
  <2>15. QED
    BY <2>9, <2>14
<1>3. QED
  BY <1>1, <1>2 DEF FetchPage

\* The two outcomes of MoveRow for a row of the page.
Target(c, row) == <<call[c].new, row[2][2]>>

RowMoved(c, row) ==
  /\ call[c].pc = "page"
  /\ ~ Taken(row[1], Target(c, row))
  /\ scanned_files' = [scanned_files EXCEPT ![row[1]] = Target(c, row)]
  /\ call' = [call EXCEPT ![c].pc = "data", ![c].page = call[c].page \ {row},
                         ![c].from = row[2], ![c].to = Target(c, row), ![c].table = 1,
                         ![c].updated = @ + 1]
  /\ UNCHANGED <<data, user_settings, scanRoots, harm>>

RowFailed(c, row) ==
  /\ call[c].pc = "page"
  /\ call' = [call EXCEPT ![c].page = call[c].page \ {row}, ![c].failed = @ + 1]
  /\ UNCHANGED <<scanned_files, data, user_settings, scanRoots, harm>>

LEMMA MoveRowOutcomes ==
  ASSUME NEW c \in Calls, MoveRow(c)
  PROVE  \E row \in call[c].page : RowMoved(c, row) \/ RowFailed(c, row)
BY DEF MoveRow, RowMoved, RowFailed, Target

\* A row that is moved: it keeps its relative path, and gets one no other row has.
LEMMA RowMoves ==
  ASSUME TypeOK, NEW c \in Calls, NEW row \in call[c].page, RowMoved(c, row)
  PROVE  /\ row[1] \in Ids /\ row[2] \in Paths /\ Target(c, row) \in Paths /\ row = <<row[1], row[2]>>
         /\ scanned_files' \in Seq(Paths) /\ Len(scanned_files') = Len(scanned_files)
         /\ IsInjective(scanned_files') /\ Ids' = Ids
         /\ scanned_files'[row[1]] = Target(c, row)
         /\ \A id \in Ids : id # row[1] => scanned_files'[id] = scanned_files[id]
<1>1. row \in Ids \X Paths /\ call[c].new \in Roots
  BY DEF TypeOK, CallStates
<1>2. row[1] \in Ids /\ row[2] \in Paths /\ Target(c, row) \in Paths /\ row = <<row[1], row[2]>>
  BY <1>1 DEF Paths, Target
<1>3. row[1] \in 1 .. Len(scanned_files) /\ scanned_files \in Seq(Paths)
  BY <1>2, IdsAreFinite DEF TypeOK
<1>4. scanned_files' \in Seq(Paths) /\ Len(scanned_files') = Len(scanned_files)
  BY <1>2, <1>3, ExceptSeq DEF RowMoved
<1>5. Ids' = Ids
  BY <1>4 DEF Ids
<1>6. /\ scanned_files'[row[1]] = Target(c, row)
      /\ \A id \in Ids : id # row[1] => scanned_files'[id] = scanned_files[id]
  BY <1>2 DEF Ids, RowMoved
<1>7. \A id \in Ids : id # row[1] => scanned_files[id] # Target(c, row)
  BY DEF Taken, RowMoved
<1>8. IsInjective(scanned_files')
  <2>1. \A i, j \in Ids : scanned_files[i] = scanned_files[j] => i = j
    BY DEF TypeOK, IsInjective, Ids
  <2>2. \A i, j \in Ids : scanned_files'[i] = scanned_files'[j] => i = j
    BY <1>6, <1>7, <2>1
  <2>3. QED
    BY <1>5, <2>2 DEF IsInjective, Ids
<1>9. QED
  BY <1>2, <1>4, <1>5, <1>6, <1>8

\* What is left of a page when one row of it has been handled.
LEMMA PageShrinks ==
  ASSUME TypeOK, CountsFitPages, NEW c \in Calls, NEW row \in call[c].page
  PROVE  LET rest == call[c].page \ {row}
         IN  /\ rest \in SUBSET (Nat \X Paths) /\ rest \in SUBSET (Ids \X Paths)
             /\ IsFiniteSet(rest) /\ Cardinality(rest) \in Nat
             /\ Cardinality(call[c].page) = Cardinality(rest) + 1
<1>1. /\ IsFiniteSet(call[c].page) /\ call[c].page \subseteq Ids \X Paths
      /\ call[c].page \in SUBSET (Nat \X Paths)
  BY DEF CountsFitPages, TypeOK, CallStates
<1>2. /\ IsFiniteSet(call[c].page \ {row})
      /\ Cardinality(call[c].page \ {row}) = Cardinality(call[c].page) - 1
  BY <1>1, FS_RemoveElement
<1>3. Cardinality(call[c].page) \in Nat /\ Cardinality(call[c].page \ {row}) \in Nat
  BY <1>1, <1>2, FS_CardinalityType
<1>4. QED
  BY <1>1, <1>2, <1>3

LEMMA TypeMoveRow ==
  ASSUME TypeOK, CountsFitPages, NEW c \in Calls, MoveRow(c)
  PROVE  /\ call' \in [Calls -> CallStates] /\ CallFits(c)'
         /\ \A d \in Calls : d # c => call'[d] = call[d]
         /\ scanned_files' \in Seq(Paths) /\ Len(scanned_files') = Len(scanned_files)
         /\ IsInjective(scanned_files')
<1>1. call[c] \in CallStates /\ call[c].pc = "page" /\ call[c] # Idle
  BY DEF TypeOK, MoveRow, Idle
<1>2. PICK row \in call[c].page : RowMoved(c, row) \/ RowFailed(c, row)
  BY MoveRowOutcomes
<1> DEFINE to == Target(c, row)
           page == call[c].page \ {row}
           Counts(new) == /\ new.old = call[c].old /\ new.new = call[c].new /\ new.page = page
                          /\ new.offset = call[c].offset
                          /\ new.updated \in Nat /\ new.failed \in Nat
                          /\ new.updated + new.failed = call[c].updated + call[c].failed + 1
<1>3. /\ page \in SUBSET (Nat \X Paths) /\ page \in SUBSET (Ids \X Paths)
      /\ IsFiniteSet(page) /\ Cardinality(page) \in Nat
      /\ Cardinality(call[c].page) = Cardinality(page) + 1
  BY PageShrinks
<1>4. /\ call[c].updated \in Nat /\ call[c].failed \in Nat /\ call[c].offset \in Nat
      /\ Len(scanned_files) \in Nat
      /\ <<call[c].old, call[c].new>> \in Requests
      /\ call[c].updated + call[c].failed + Cardinality(call[c].page) <= Len(scanned_files)
      /\ call[c].updated + call[c].failed + Cardinality(call[c].page) <= call[c].offset
  BY <1>1, IdsAreFinite DEF TypeOK, CountsFitPages, CallStates
<1> HIDE DEF page
<1>5. ASSUME NEW new \in CallStates, Counts(new), call' = [call EXCEPT ![c] = new],
             new.pc = "page" \/ (new.pc = "data" /\ new.from \in Paths /\ new.to \in Paths),
             Len(scanned_files') = Len(scanned_files), Ids' = Ids
      PROVE  /\ call' \in [Calls -> CallStates] /\ CallFits(c)'
             /\ \A d \in Calls : d # c => call'[d] = call[d]
  <2>1. /\ call' \in [Calls -> CallStates] /\ call'[c] = new
        /\ \A d \in Calls : d # c => call'[d] = call[d]
    BY <1>5 DEF TypeOK
  <2>2. /\ new.updated + new.failed + Cardinality(new.page) <= Len(scanned_files)
        /\ new.updated + new.failed + Cardinality(new.page) <= new.offset
    <3>1. /\ new.updated \in Nat /\ new.failed \in Nat /\ new.page = page
          /\ new.updated + new.failed = call[c].updated + call[c].failed + 1
          /\ new.offset = call[c].offset
      BY <1>5
    <3>2. /\ new.updated + new.failed + Cardinality(page) <= Len(scanned_files)
          /\ new.updated + new.failed + Cardinality(page) <= call[c].offset
      BY <1>3, <1>4, <3>1
    <3>3. QED
      BY <3>1, <3>2
  <2>3. CallFits(c)'
    BY <1>3, <1>4, <1>5, <2>1, <2>2 DEF CallFits
  <2>4. QED
    BY <2>1, <2>3
<1>6. CASE RowMoved(c, row)
  <2> DEFINE new == [call[c] EXCEPT !.pc = "data", !.page = page, !.from = row[2], !.to = to,
                                    !.table = 1, !.updated = @ + 1]
  <2>1. /\ row[2] \in Paths /\ to \in Paths /\ Ids' = Ids
        /\ scanned_files' \in Seq(Paths) /\ Len(scanned_files') = Len(scanned_files)
        /\ IsInjective(scanned_files')
    BY <1>6, RowMoves
  <2> HIDE DEF to
  <2>2. new \in CallStates
    <3>1. /\ call[c].updated + 1 \in Nat /\ 1 \in DOMAIN Tables
          /\ row[2] \in Paths \cup {<<>>} /\ to \in Paths \cup {<<>>}
          /\ page \in SUBSET (Nat \X Paths)
      BY <1>3, <1>4, <2>1, SmallFacts
    <3>2. QED
      BY <1>1, <3>1 DEF CallStates
  <2>3. Counts(new) /\ new.pc = "data" /\ new.from \in Paths /\ new.to \in Paths
    <3>1. /\ new.old = call[c].old /\ new.new = call[c].new /\ new.page = page
          /\ new.offset = call[c].offset /\ new.updated = call[c].updated + 1
          /\ new.failed = call[c].failed /\ new.pc = "data"
          /\ new.from = row[2] /\ new.to = to
      BY <1>1 DEF CallStates
    <3> HIDE DEF new
    <3>2. QED
      BY <1>4, <2>1, <3>1
  <2>4. call' = [call EXCEPT ![c] = new]
    BY <1>6 DEF RowMoved, page, to
  <2> HIDE DEF new, Counts
  <2>5. QED
    BY <1>5, <2>1, <2>2, <2>3, <2>4
<1>7. CASE RowFailed(c, row)
  <2> DEFINE new == [call[c] EXCEPT !.page = page, !.failed = @ + 1]
  <2>1. new \in CallStates
    <3>1. call[c].failed + 1 \in Nat /\ page \in SUBSET (Nat \X Paths)
      BY <1>3, <1>4
    <3>2. QED
      BY <1>1, <3>1 DEF CallStates
  <2>2. Counts(new) /\ new.pc = "page"
    <3>1. /\ new.old = call[c].old /\ new.new = call[c].new /\ new.page = page
          /\ new.offset = call[c].offset /\ new.updated = call[c].updated
          /\ new.failed = call[c].failed + 1 /\ new.pc = "page"
      BY <1>1 DEF CallStates
    <3> HIDE DEF new
    <3>2. QED
      BY <1>4, <3>1
  <2>3. call' = [call EXCEPT ![c] = new]
    BY <1>7 DEF RowFailed, page
  <2>4. Len(scanned_files') = Len(scanned_files) /\ Ids' = Ids
    BY <1>7 DEF RowFailed, Ids
  <2> HIDE DEF new, Counts
  <2>5. QED
    BY <1>5, <1>7, <2>1, <2>2, <2>3, <2>4 DEF TypeOK, RowFailed
<1>8. QED
  BY <1>2, <1>6, <1>7

LEMMA TypeMoveData ==
  ASSUME TypeOK, CountsFitPages, NEW c \in Calls, MoveData(c)
  PROVE  /\ call' \in [Calls -> CallStates] /\ CallFits(c)'
         /\ \A d \in Calls : d # c => call'[d] = call[d]
         /\ data' \in [TableNames -> SUBSET Paths]
<1>1. /\ call[c] \in CallStates /\ call[c].pc = "data" /\ call[c] # Idle
      /\ call[c].from \in Paths /\ call[c].to \in Paths
  <2>1. call[c].pc = "data"
    BY DEF MoveData
  <2>2. call[c] \in CallStates /\ call[c].from \in Paths /\ call[c].to \in Paths
    BY <2>1 DEF TypeOK
  <2>3. QED
    BY <2>1, <2>2 DEF Idle
<1>2. scanned_files' = scanned_files /\ Ids' = Ids
  BY DEF MoveData, Ids
<1> DEFINE Same(new) == /\ new.old = call[c].old /\ new.new = call[c].new /\ new.page = call[c].page
                        /\ new.offset = call[c].offset
                        /\ new.updated = call[c].updated /\ new.failed = call[c].failed
<1>3. ASSUME NEW new \in CallStates, Same(new), call' = [call EXCEPT ![c] = new],
             new.pc = "page" \/ (new.pc = "data" /\ new.from \in Paths /\ new.to \in Paths)
      PROVE  /\ call' \in [Calls -> CallStates] /\ CallFits(c)'
             /\ \A d \in Calls : d # c => call'[d] = call[d]
  <2>1. /\ call' \in [Calls -> CallStates] /\ call'[c] = new
        /\ \A d \in Calls : d # c => call'[d] = call[d]
    BY <1>3 DEF TypeOK
  <2>2. CallFits(c)'
    BY <1>1, <1>2, <1>3, <2>1 DEF CallFits, TypeOK, CountsFitPages
  <2>3. QED
    BY <2>1, <2>2
<1>4. data' \in [TableNames -> SUBSET Paths]
  <2> DEFINE renamed == Renamed(Tables[call[c].table], call[c].from, call[c].to)
  <2>1. data[Tables[call[c].table]] \in SUBSET Paths
    BY <1>1 DEF TypeOK, CallStates, TableNames
  <2>2. renamed \in SUBSET Paths
    BY <1>1, <2>1 DEF Renamed
  <2> HIDE DEF renamed
  <2>3. data' = data \/ data' = [data EXCEPT ![Tables[call[c].table]] = renamed]
    BY DEF MoveData, renamed
  <2>4. QED
    BY <2>2, <2>3 DEF TypeOK
<1>5. CASE call[c].table = Len(Tables) /\ call' = [call EXCEPT ![c].pc = "page", ![c].from = <<>>,
                                                       ![c].to = <<>>, ![c].table = 1]
  <2> DEFINE new == [call[c] EXCEPT !.pc = "page", !.from = <<>>, !.to = <<>>, !.table = 1]
  <2>1. new \in CallStates
    BY <1>1, SmallFacts DEF CallStates
  <2>2. Same(new) /\ new.pc = "page"
    BY <1>1 DEF CallStates
  <2>3. call' = [call EXCEPT ![c] = new]
    BY <1>5
  <2> HIDE DEF new, Same
  <2>4. QED
    BY <1>3, <1>4, <2>1, <2>2, <2>3
<1>6. CASE call[c].table # Len(Tables) /\ call' = [call EXCEPT ![c].table = @ + 1]
  <2> DEFINE new == [call[c] EXCEPT !.table = @ + 1]
  <2>1. call[c].table + 1 \in DOMAIN Tables
    BY <1>1, <1>6, SmallFacts DEF CallStates
  <2>2. new \in CallStates
    BY <1>1, <2>1 DEF CallStates
  <2>3. Same(new) /\ new.pc = "data" /\ new.from \in Paths /\ new.to \in Paths
    BY <1>1 DEF CallStates
  <2>4. call' = [call EXCEPT ![c] = new]
    BY <1>6
  <2> HIDE DEF new, Same
  <2>5. QED
    BY <1>3, <1>4, <2>2, <2>3, <2>4
<1>7. QED
  BY <1>5, <1>6 DEF MoveData

\* The other steps go to the next statement or answer.
LEMMA TypeShortStep ==
  ASSUME TypeOK, CountsFitPages, NEW c \in Calls,
         Lookup(c) \/ Fallback(c) \/ Adopt(c) \/ Verify(c) \/ Finish(c) \/ RemoveOld(c)
  PROVE  /\ call' \in [Calls -> CallStates] /\ CallFits(c)'
         /\ \A d \in Calls : d # c => call'[d] = call[d]
         /\ scanned_files' = scanned_files /\ data' = data /\ scanRoots' = scanRoots
         /\ user_settings' \subseteq Roots
         /\ harm' = harm \/ harm' = harm \cup {"place"}
<1>1. scanned_files' = scanned_files /\ data' = data /\ scanRoots' = scanRoots
  BY DEF Lookup, Fallback, Adopt, Verify, Finish, RemoveOld, DB
<1>2. harm' = harm \/ harm' = harm \cup {"place"}
  BY DEF Lookup, Fallback, Adopt, Verify, Finish, RemoveOld, DB
<1>3. call[c].old \in Roots /\ call[c].new \in Roots
  BY DEF TypeOK, CallStates
<1>4. user_settings' \subseteq Roots
  BY <1>3 DEF Lookup, Fallback, Adopt, Verify, Finish, RemoveOld, DB, TypeOK
<1>5. \/ Answer(c)
      \/ \E pc \in {"files", "adopt", "count", "page", "finish", "remove"} :
           /\ Goto(c, pc)
           /\ \/ call[c].pc \in {"lookup", "files", "adopt", "count", "verify"}
              \/ call[c].pc \in {"page", "finish"} /\ pc \in {"finish", "remove"}
  BY DEF Lookup, Fallback, Adopt, Verify, Finish, RemoveOld
<1>6. QED
  BY <1>1, <1>2, <1>4, <1>5, AnswerLeaves, AnswerFits, GotoLeaves, GotoFits

LEMMA EventCounts ==
  ASSUME TypeOK, Event \/ UNCHANGED events
  PROVE  events' \in 0 .. MaxEvents
BY Bounds DEF TypeOK, Event

\* One step of a call.
LEMMA TypeCallStep ==
  ASSUME TypeOK, CountsFitPages, NEW c \in Calls,
         (\E r \in Requests : Ask(c, r)) \/ ServerStep(c)
  PROVE  /\ TypeOK' /\ CountsFitPages'
         /\ \A d \in Calls : d # c => call'[d] = call[d]
<1>1. /\ call' \in [Calls -> CallStates] /\ CallFits(c)'
      /\ \A d \in Calls : d # c => call'[d] = call[d]
  BY TypeAsk, TypeCount, TypeFetch, TypeMoveRow, TypeMoveData, TypeShortStep DEF ServerStep
<1>2. /\ scanned_files' \in Seq(Paths) /\ IsInjective(scanned_files')
      /\ Len(scanned_files') = Len(scanned_files)
  <2>1. CASE MoveRow(c)
    BY <2>1, TypeMoveRow
  <2>2. CASE scanned_files' = scanned_files
    BY <2>2 DEF TypeOK
  <2>3. QED
    BY <2>1, <2>2, TypeShortStep DEF ServerStep, Ask, Count, FetchPage, MoveData, DB
<1>3. data' \in [TableNames -> SUBSET Paths]
  <2>1. CASE MoveData(c)
    BY <2>1, TypeMoveData
  <2>2. CASE data' = data
    BY <2>2 DEF TypeOK
  <2>3. QED
    BY <2>1, <2>2, TypeShortStep DEF ServerStep, Ask, Count, FetchPage, MoveRow, DB
<1>4. user_settings' \subseteq Roots /\ scanRoots' \subseteq Roots
  BY TypeShortStep DEF ServerStep, Ask, Count, FetchPage, MoveRow, MoveData, DB, TypeOK
<1>5. events' \in 0 .. MaxEvents
  <2>1. Event \/ UNCHANGED events
    BY DEF ServerStep, Ask, Lookup, Fallback, Adopt, Count, Verify, FetchPage, MoveRow, MoveData,
           Finish, RemoveOld, NoFault, Fault
  <2>2. QED
    BY <2>1, EventCounts
<1>6. harm' \subseteq {"data", "place"}
  BY TypeShortStep DEF ServerStep, Ask, Count, FetchPage, MoveRow, MoveData, TypeOK
<1>7. \A d \in Calls : CallFits(d)'
  <2>1. Len(scanned_files') >= Len(scanned_files)
    BY <1>2, IdsAreFinite
  <2>2. QED
    BY <1>1, <1>2, <2>1, OthersFit
<1>8. QED
  BY <1>1, <1>2, <1>3, <1>4, <1>5, <1>6, <1>7 DEF TypeOK, CountsFitPages, CallFits

\* A scan finds a file that has no row: the rows keep their ids.
LEMMA RowIsAdded ==
  ASSUME TypeOK, NEW path \in Paths, ScanFile(path)
  PROVE  /\ scanned_files' \in Seq(Paths) /\ IsInjective(scanned_files')
         /\ Len(scanned_files') = Len(scanned_files) + 1
         /\ scanned_files'[Len(scanned_files) + 1] = path
         /\ \A id \in Ids : scanned_files'[id] = scanned_files[id]
<1>1. /\ scanned_files' \in Seq(Paths) /\ Len(scanned_files') = Len(scanned_files) + 1
      /\ scanned_files'[Len(scanned_files) + 1] = path
      /\ \A id \in 1 .. Len(scanned_files) : scanned_files'[id] = scanned_files[id]
  BY AppendProperties DEF ScanFile, TypeOK
<1>2. \A id \in Ids : scanned_files'[id] = scanned_files[id] /\ scanned_files[id] # path
  BY <1>1, IdsAreFinite DEF ScanFile, PathsInUse
<1>3. \A i, j \in Ids : scanned_files[i] = scanned_files[j] => i = j
  BY DEF TypeOK, IsInjective, Ids
<1>4. DOMAIN scanned_files' = 1 .. Len(scanned_files) + 1
  BY <1>1, LenProperties
<1>5. \A id \in DOMAIN scanned_files' : id \in Ids \/ id = Len(scanned_files) + 1
  BY <1>4, IdsAreFinite
<1>6. IsInjective(scanned_files')
  BY <1>1, <1>2, <1>3, <1>5 DEF IsInjective
<1>7. QED
  BY <1>1, <1>2, <1>6

LEMMA TypeStep ==
  ASSUME TypeOK, CountsFitPages, [Next]_vars
  PROVE  TypeOK' /\ CountsFitPages'
<1>1. CASE \E c \in Calls : (\E r \in Requests : Ask(c, r)) \/ ServerStep(c)
  BY <1>1, TypeCallStep
<1>2. ASSUME NEW root \in Roots, Register(root) \/ Deregister(root) PROVE TypeOK' /\ CountsFitPages'
  <2>1. events' \in 0 .. MaxEvents
    BY <1>2, EventCounts DEF Register, Deregister
  <2>2. QED
    BY <1>2, <2>1 DEF Register, Deregister, TypeOK, CountsFitPages, Ids
<1>3. CASE StartScan \/ EndScan
  BY <1>3 DEF StartScan, EndScan, DB, TypeOK, CountsFitPages, Ids
<1>4. ASSUME NEW path \in Paths, ScanFile(path) PROVE TypeOK' /\ CountsFitPages'
  <2>1. Ids \subseteq Ids' /\ Len(scanned_files') = Len(scanned_files) + 1
        /\ scanned_files' \in Seq(Paths) /\ IsInjective(scanned_files') /\ Len(scanned_files) \in Nat
    BY <1>4, RowIsAdded, IdsAreFinite, LenProperties DEF Ids
  <2>2. /\ call' = call /\ data' = data /\ user_settings' = user_settings /\ scanRoots' = scanRoots
        /\ events' = events /\ harm' \subseteq {"data", "place"}
    BY <1>4 DEF ScanFile, TypeOK
  <2>3. ASSUME NEW c \in Calls
        PROVE  /\ call[c].page \subseteq Ids' \X Paths
               /\ call[c].updated + call[c].failed + Cardinality(call[c].page) <= Len(scanned_files')
    <3>1. /\ call[c].updated \in Nat /\ call[c].failed \in Nat /\ Cardinality(call[c].page) \in Nat
          /\ call[c].page \subseteq Ids \X Paths
          /\ call[c].updated + call[c].failed + Cardinality(call[c].page) <= Len(scanned_files)
      BY FS_CardinalityType DEF TypeOK, CountsFitPages, CallStates
    <3>2. QED
      BY <2>1, <3>1
  <2>4. QED
    BY <2>1, <2>2, <2>3 DEF TypeOK, CountsFitPages
<1>5. CASE Crash
  <2>1. call' \in [Calls -> CallStates] /\ \A c \in Calls : call'[c] = Idle
    BY <1>5, SmallFacts DEF Crash
  <2>2. IsFiniteSet({}) /\ Cardinality({}) = 0 /\ Len(scanned_files) \in Nat
    BY FS_EmptySet, IdsAreFinite
  <2>3. events' \in 0 .. MaxEvents
    BY <1>5, EventCounts DEF Crash
  <2>4. \A c \in Calls : CallFits(c)'
    <3>1. scanned_files' = scanned_files
      BY <1>5 DEF Crash, DB
    <3>2. ASSUME NEW c \in Calls PROVE CallFits(c)'
      <4>1. call'[c] = Idle /\ Cardinality(Idle.page) = 0 /\ IsFiniteSet(Idle.page)
        BY <2>1, <2>2 DEF Idle
      <4>2. QED
        BY <2>2, <3>1, <4>1 DEF CallFits, Idle
    <3>3. QED
      BY <3>2
  <2>5. QED
    BY <1>5, <2>1, <2>3, <2>4 DEF Crash, DB, TypeOK, CountsFitPages, CallFits
<1>6. CASE UNCHANGED vars
  BY <1>6 DEF vars, TypeOK, CountsFitPages, Ids
<1>7. QED
  BY <1>1, <1>2, <1>3, <1>4, <1>5, <1>6 DEF Next

\* Every variable keeps its type, no two rows have one path, and no call
\* handles more rows than there are, whatever calls, scans and failures do.
THEOREM TypesAreKept == Spec => []TypeOK
<1>1. Spec => [](TypeOK /\ CountsFitPages)
  BY TypeInit, TypeStep, PTL DEF Spec
<1>2. QED
  BY <1>1, PTL

-----------------------------------------------------------------------------
(* RelativePathsStay.                                                      *)

LEMMA RelativeInit == Init => RelativePathsStay /\ DataInv /\ PlaceInv
<1> SUFFICES ASSUME Init PROVE RelativePathsStay /\ DataInv /\ PlaceInv
  OBVIOUS
<1>1. PICK found \in (SUBSET Files) \ {{}} :
        /\ scanned_files = SetToSeq({<<Home, f>> : f \in found})
        /\ data = [t \in TableNames |-> {<<Home, f>> : f \in found}]
  BY DEF Init
<1> DEFINE paths == {<<Home, f>> : f \in found}
<1>2. /\ IsFiniteSet(paths) /\ scanned_files \in Seq(paths)
      /\ Len(scanned_files) = Cardinality(paths) /\ IsInjective(scanned_files)
  BY <1>1, InitRows
<1>3. \A t \in TableNames : data[t] = paths
  BY <1>1
<1>4. Named = Len(scanned_files) /\ Len(scanned_files) \in Nat
  BY <1>2, <1>3, SmallFacts, LenProperties DEF Named
<1>5. /\ Ids = 1 .. Len(scanned_files)
      /\ \A id \in Ids : scanned_files[id] \in paths /\ Root(scanned_files[id]) = Home
  <2>1. Ids = 1 .. Len(scanned_files) /\ \A id \in Ids : scanned_files[id] \in paths
    BY <1>2, LenProperties, ElementOfSeq DEF Ids
  <2>2. \A p \in paths : Root(p) = Home
    BY DEF Root
  <2>3. QED
    BY <2>1, <2>2
<1>6. \A p, q \in paths : p[2] = q[2] => p = q
  OBVIOUS
<1> HIDE DEF paths
<1>7. TablesStay
  BY <1>2, <1>3, <1>4, <1>6 DEF TablesStay
<1>8. RowsStay
  <2>1. ASSUME NEW id \in Ids, NEW other \in Ids, scanned_files[id][2] = scanned_files[other][2]
        PROVE  id = other
    <3>1. scanned_files[id] = scanned_files[other]
      BY <1>5, <1>6, <2>1
    <3>2. QED
      BY <1>2, <3>1 DEF IsInjective, Ids
  <2>2. QED
    BY <1>4, <1>5, <2>1 DEF RowsStay
<1>9. \A c \in Calls : call[c] = Idle
  BY DEF Init
<1>10. \A c \in Calls : ~ Active(c) /\ call[c].page = {} /\ call[c].pc # "data"
  BY <1>9 DEF Active, Idle
<1>11. DataInv
  BY <1>3, <1>4, <1>5, <1>10 DEF DataInv, CallsAgree, PageHolds, LeftBehind, NamedOrSoon
<1>12. PlaceInv
  BY <1>5, <1>10 DEF PlaceInv, CallsAgree, Placed, Init
<1>13. QED
  BY <1>7, <1>8, <1>10, <1>11, <1>12 DEF RelativePathsStay, Carries

\* A table that follows a move names as many files as before, each once.
LEMMA RenamedStays ==
  ASSUME TypeOK, RelativePathsStay, NEW c \in Calls, call[c].pc = "data", NEW t \in TableNames
  PROVE  LET after == Renamed(t, call[c].from, call[c].to)
         IN  /\ IsFiniteSet(after) /\ Cardinality(after) = Named
             /\ \A p, q \in after : p[2] = q[2] => p = q
<1> DEFINE from == call[c].from
           to == call[c].to
           rest == data[t] \ {from}
<1>1. IsFiniteSet(data[t]) /\ Cardinality(data[t]) = Named /\ \A p, q \in data[t] : p[2] = q[2] => p = q
  BY DEF RelativePathsStay, TablesStay
<1>2. from[2] = to[2]
  BY DEF RelativePathsStay, Carries
<1>3. CASE from \in data[t] /\ Renamed(t, from, to) = rest \cup {to}
  <2>1. to \notin rest
    BY <1>1, <1>2, <1>3
  <2>2. IsFiniteSet(rest) /\ Cardinality(rest) = Cardinality(data[t]) - 1
    BY <1>1, <1>3, FS_RemoveElement
  <2>3. IsFiniteSet(rest \cup {to}) /\ Cardinality(rest \cup {to}) = Cardinality(rest) + 1
    BY <2>1, <2>2, FS_AddElement
  <2>4. Cardinality(data[t]) \in Nat
    BY <1>1, FS_CardinalityType
  <2>5. \A p, q \in rest \cup {to} : p[2] = q[2] => p = q
    BY <1>1, <1>2, <1>3
  <2>6. QED
    BY <1>1, <1>3, <2>2, <2>3, <2>4, <2>5
<1>4. CASE Renamed(t, from, to) = data[t]
  BY <1>1, <1>4
<1>5. QED
  BY <1>3, <1>4 DEF Renamed

LEMMA TablesStep ==
  ASSUME TypeOK, RelativePathsStay, [Next]_vars
  PROVE  TablesStay' /\ Named' = Named
<1>1. CASE data' = data
  BY <1>1 DEF RelativePathsStay, TablesStay, Named
<1>2. ASSUME NEW c \in Calls, MoveData(c), data' # data PROVE TablesStay' /\ Named' = Named
  <2> DEFINE table == Tables[call[c].table]
             after == Renamed(table, call[c].from, call[c].to)
  <2>1. call[c].pc = "data" /\ data' = [data EXCEPT ![table] = after]
    BY <1>2 DEF MoveData
  <2>2. table \in TableNames
    BY DEF TypeOK, CallStates, TableNames
  <2>3. /\ IsFiniteSet(after) /\ Cardinality(after) = Named
        /\ \A p, q \in after : p[2] = q[2] => p = q
    BY <2>1, <2>2, RenamedStays
  <2> HIDE DEF after, table
  <2>4. data'[table] = after /\ \A t \in TableNames : t # table => data'[t] = data[t]
    BY <2>1, <2>2 DEF TypeOK
  <2>5. \A t \in TableNames : /\ IsFiniteSet(data'[t]) /\ Cardinality(data'[t]) = Named
                              /\ \A p, q \in data'[t] : p[2] = q[2] => p = q
    BY <2>3, <2>4 DEF RelativePathsStay, TablesStay
  <2>6. Named' = Named
    BY <2>5, SmallFacts DEF Named
  <2>7. QED
    BY <2>5, <2>6 DEF TablesStay
<1>3. QED
  BY <1>1, <1>2 DEF Next, ServerStep, Ask, Lookup, Fallback, Adopt, Count, Verify, FetchPage,
       MoveRow, Finish, RemoveOld, Register, Deregister, StartScan, ScanFile, EndScan, Crash, DB, vars

\* The rows keep their ids and relative paths, and only MoveRow moves one.
LEMMA RowsKeepTheirNames ==
  ASSUME TypeOK, CountsFitPages, RelativePathsStay, [Next]_vars
  PROVE  /\ Ids \subseteq Ids' /\ Len(scanned_files) <= Len(scanned_files')
         /\ \A id \in Ids : scanned_files'[id][2] = scanned_files[id][2]
         /\ (\A c \in Calls : ~ MoveRow(c)) =>
              \A id \in Ids : scanned_files'[id] = scanned_files[id]
<1>1. CASE scanned_files' = scanned_files
  BY <1>1, IdsAreFinite DEF Ids
<1>2. ASSUME NEW path \in Paths, ScanFile(path)
      PROVE  /\ Ids \subseteq Ids' /\ Len(scanned_files) <= Len(scanned_files')
             /\ \A id \in Ids : scanned_files'[id] = scanned_files[id]
  BY <1>2, RowIsAdded, IdsAreFinite, LenProperties DEF Ids
<1>3. ASSUME NEW c \in Calls, MoveRow(c), scanned_files' # scanned_files
      PROVE  /\ Ids \subseteq Ids' /\ Len(scanned_files) <= Len(scanned_files')
             /\ \A id \in Ids : scanned_files'[id][2] = scanned_files[id][2]
  <2>1. PICK row \in call[c].page : RowMoved(c, row)
    BY <1>3, MoveRowOutcomes DEF RowFailed
  <2>2. scanned_files[row[1]][2] = Target(c, row)[2]
    BY DEF RelativePathsStay, Carries, Target
  <2>3. /\ Len(scanned_files') = Len(scanned_files) /\ Ids' = Ids
        /\ scanned_files'[row[1]] = Target(c, row)
        /\ \A id \in Ids : id # row[1] => scanned_files'[id] = scanned_files[id]
    BY <2>1, RowMoves
  <2>4. QED
    BY <2>2, <2>3, IdsAreFinite
<1>4. QED
  BY <1>1, <1>2, <1>3 DEF Next, ServerStep, Ask, Lookup, Fallback, Adopt, Count, Verify, FetchPage,
       MoveData, Finish, RemoveOld, Register, Deregister, StartScan, EndScan, Crash, DB, vars

-----------------------------------------------------------------------------
(* What the steps leave of the call that takes them.                       *)

Others(c) == \A d \in Calls : d # c => call'[d] = call[d]

\* A step that moves nothing and keeps the page: the call is over or goes on.
Quiet(c) ==
  /\ Others(c) /\ UNCHANGED <<scanned_files, data, scanRoots>>
  /\ call[c].pc \notin {"idle", "data"}
  /\ \/ call'[c] = Idle
     \/ /\ call'[c].pc \notin {"idle", "data"}
        /\ call'[c].old = call[c].old /\ call'[c].new = call[c].new
        /\ call'[c].page = call[c].page /\ call'[c].offset = call[c].offset
        /\ call'[c].updated = call[c].updated /\ call'[c].failed = call[c].failed

LEMMA GotoIsQuiet ==
  ASSUME TypeOK, NEW c \in Calls, call[c].pc \notin {"idle", "data"},
         NEW pc \in {"files", "adopt", "count", "page", "finish", "remove"}, Goto(c, pc),
         UNCHANGED <<scanned_files, data, scanRoots>>
  PROVE  Quiet(c) /\ call'[c].pc = pc /\ call'[c].total = call[c].total
<1>1. call'[c] = [call[c] EXCEPT !.pc = pc] /\ Others(c)
  BY GotoLeaves DEF Others
<1>2. call[c] \in CallStates
  BY DEF TypeOK
<1>3. QED
  BY <1>1, <1>2 DEF Quiet, CallStates

LEMMA AnswerIsQuiet ==
  ASSUME TypeOK, NEW c \in Calls, Answer(c), UNCHANGED <<scanned_files, data, scanRoots>>,
         call[c].pc \notin {"idle", "data"}
  PROVE  Quiet(c) /\ call'[c] = Idle
BY AnswerLeaves DEF Quiet, Others

LEMMA CountIsQuiet ==
  ASSUME TypeOK, NEW c \in Calls, Count(c)
  PROVE  /\ Quiet(c) /\ UNCHANGED user_settings /\ harm' = harm /\ call[c].pc = "count"
         /\ \/ call'[c] = Idle
            \/ call'[c].pc = "verify" /\ call'[c].total = Cardinality(IdsUnder(call[c].old))
<1>1. UNCHANGED <<scanned_files, data, scanRoots, user_settings, harm>> /\ call[c].pc = "count"
  BY DEF Count, DB
<1>2. CASE Answer(c)
  BY <1>1, <1>2, AnswerIsQuiet
<1>3. CASE call' = [call EXCEPT ![c].pc = "verify", ![c].total = Cardinality(IdsUnder(call[c].old))]
  <2>1. call[c] \in CallStates
    BY DEF TypeOK
  <2>2. /\ call'[c] = [call[c] EXCEPT !.pc = "verify", !.total = Cardinality(IdsUnder(call[c].old))]
        /\ Others(c)
    BY <1>3 DEF TypeOK, Others
  <2>3. QED
    BY <1>1, <2>1, <2>2 DEF Quiet, CallStates
<1>4. QED
  BY <1>2, <1>3 DEF Count

LEMMA ShortStepsAreQuiet ==
  ASSUME TypeOK, NEW c \in Calls,
         Lookup(c) \/ Fallback(c) \/ Adopt(c) \/ Verify(c) \/ Finish(c) \/ RemoveOld(c)
  PROVE  Quiet(c)
<1>1. UNCHANGED <<scanned_files, data, scanRoots>> /\ call[c].pc \notin {"idle", "data"}
  BY DEF Lookup, Fallback, Adopt, Verify, Finish, RemoveOld, DB
<1>2. \/ Answer(c)
      \/ \E pc \in {"files", "adopt", "count", "page", "finish", "remove"} : Goto(c, pc)
  BY DEF Lookup, Fallback, Adopt, Verify, Finish, RemoveOld
<1>3. QED
  BY <1>1, <1>2, AnswerIsQuiet, GotoIsQuiet

LEMMA AskLeaves ==
  ASSUME TypeOK, NEW c \in Calls, NEW r \in Requests, Ask(c, r)
  PROVE  /\ Others(c) /\ UNCHANGED <<scanned_files, data, user_settings, scanRoots>>
         /\ call'[c].pc = "lookup" /\ call'[c].old = r[1] /\ call'[c].new = r[2]
         /\ call'[c].page = {} /\ call'[c].updated = 0 /\ call'[c].failed = 0
         /\ call'[c].offset = 0
<1> DEFINE new == [Idle EXCEPT !.pc = "lookup", !.old = r[1], !.new = r[2]]
<1>1. /\ new.pc = "lookup" /\ new.old = r[1] /\ new.new = r[2] /\ new.page = {}
      /\ new.updated = 0 /\ new.failed = 0 /\ new.offset = 0
  BY DEF Idle
<1>2. call' = [call EXCEPT ![c] = new] /\ UNCHANGED <<scanned_files, data, user_settings, scanRoots>>
  BY DEF Ask, DB
<1> HIDE DEF new
<1>3. call'[c] = new /\ Others(c)
  BY <1>2 DEF TypeOK, Others
<1>4. QED
  BY <1>1, <1>2, <1>3

\* The page that is fetched has the rows as they are.
Fetched(c) ==
  /\ Others(c) /\ UNCHANGED <<scanned_files, data, user_settings, scanRoots>>
  /\ call[c].pc = "page" /\ call'[c].pc = "page" /\ call[c].page = {}
  /\ call'[c].old = call[c].old /\ call'[c].new = call[c].new
  /\ call'[c].total = call[c].total
  /\ call'[c].updated = call[c].updated /\ call'[c].failed = call[c].failed
  /\ call'[c].offset = call[c].offset + BatchSize /\ call[c].offset < call[c].total
  /\ call'[c].page # {} /\ call'[c].page = PageOf(IdsUnder(call[c].old), call[c].offset)
  /\ \A row \in call'[c].page :
       /\ row[1] \in IdsUnder(call[c].old) /\ row = <<row[1], scanned_files[row[1]]>>

LEMMA FetchLeaves ==
  ASSUME TypeOK, NEW c \in Calls, FetchPage(c)
  PROVE  \/ Quiet(c) /\ Goto(c, "finish") /\ UNCHANGED user_settings
         \/ Fetched(c)
<1>1. UNCHANGED <<scanned_files, data, user_settings, scanRoots>> /\ call[c].pc = "page"
  BY DEF FetchPage, DB
<1>2. CASE Goto(c, "finish")
  BY <1>1, <1>2, GotoIsQuiet
<1> DEFINE ids == IdsUnder(call[c].old)
           page == PageOf(ids, call[c].offset)
<1>3. CASE /\ page # {} /\ call[c].offset < call[c].total
           /\ call' = [call EXCEPT ![c].page = page, ![c].offset = call[c].offset + BatchSize]
  <2>1. call[c] \in CallStates /\ call[c].page = {}
    BY DEF TypeOK, FetchPage
  <2>2. ids \in SUBSET Ids /\ call[c].offset \in Nat
    BY <2>1 DEF IdsUnder, CallStates
  <2>3. ids \in SUBSET Nat /\ IsFiniteSet(ids)
    BY <2>2, IdsAreFinite
  <2>4. \A row \in page : row[1] \in ids /\ row = <<row[1], scanned_files[row[1]]>>
    BY <2>2, <2>3, PageFits
  <2>5. /\ call'[c] = [call[c] EXCEPT !.page = page, !.offset = call[c].offset + BatchSize]
        /\ Others(c)
    BY <1>3 DEF TypeOK, Others
  <2> HIDE DEF page
  <2>6. /\ call'[c].old = call[c].old /\ call'[c].new = call[c].new /\ call'[c].page = page
        /\ call'[c].total = call[c].total
        /\ call'[c].pc = call[c].pc /\ call'[c].offset = call[c].offset + BatchSize
        /\ call'[c].updated = call[c].updated /\ call'[c].failed = call[c].failed
    BY <2>1, <2>5 DEF CallStates
  <2>7. QED
    BY <1>1, <1>3, <2>1, <2>4, <2>5, <2>6 DEF Fetched, page
<1>4. QED
  BY <1>2, <1>3 DEF FetchPage

Handled(c, row) ==
  /\ Others(c) /\ call[c].pc = "page"
  /\ call'[c].old = call[c].old /\ call'[c].new = call[c].new
  /\ call'[c].total = call[c].total /\ call'[c].offset = call[c].offset
  /\ call'[c].page = call[c].page \ {row}

LEMMA RowMovedLeaves ==
  ASSUME TypeOK, NEW c \in Calls, NEW row \in call[c].page, RowMoved(c, row)
  PROVE  /\ Handled(c, row)
         /\ call'[c].pc = "data" /\ call'[c].from = row[2] /\ call'[c].to = Target(c, row)
         /\ call'[c].table = 1
         /\ call'[c].updated = call[c].updated + 1 /\ call'[c].failed = call[c].failed
<1>1. call[c] \in CallStates /\ call[c].pc = "page"
  BY DEF TypeOK, RowMoved
<1>2. /\ call'[c] = [call[c] EXCEPT !.pc = "data", !.page = call[c].page \ {row},
                       !.from = row[2], !.to = Target(c, row), !.table = 1, !.updated = @ + 1]
      /\ Others(c)
  BY DEF TypeOK, RowMoved, Others
<1>3. QED
  BY <1>1, <1>2 DEF Handled, CallStates

LEMMA RowFailedLeaves ==
  ASSUME TypeOK, NEW c \in Calls, NEW row \in call[c].page, RowFailed(c, row)
  PROVE  /\ Handled(c, row)
         /\ call'[c].pc = "page"
         /\ call'[c].updated = call[c].updated /\ call'[c].failed = call[c].failed + 1
<1>1. call[c] \in CallStates /\ call[c].pc = "page"
  BY DEF TypeOK, RowFailed
<1>2. /\ call'[c] = [call[c] EXCEPT !.page = call[c].page \ {row}, !.failed = @ + 1]
      /\ Others(c)
  BY DEF TypeOK, RowFailed, Others
<1>3. QED
  BY <1>1, <1>2 DEF Handled, CallStates

\* MoveData for one table; after the last one the call goes back to its page.
LEMMA MoveDataLeaves ==
  ASSUME TypeOK, NEW c \in Calls, MoveData(c)
  PROVE  /\ Others(c) /\ UNCHANGED <<scanned_files, user_settings, scanRoots>>
         /\ call[c].pc = "data"
         /\ call'[c].old = call[c].old /\ call'[c].new = call[c].new
         /\ call'[c].total = call[c].total /\ call'[c].offset = call[c].offset
         /\ call'[c].page = call[c].page
         /\ call'[c].updated = call[c].updated /\ call'[c].failed = call[c].failed
         /\ \/ call[c].table = Len(Tables) /\ call'[c].pc = "page"
            \/ /\ call[c].table # Len(Tables) /\ call'[c].pc = "data"
               /\ call'[c].from = call[c].from /\ call'[c].to = call[c].to
               /\ call'[c].table = call[c].table + 1
<1>1. /\ call[c] \in CallStates /\ call[c].pc = "data"
      /\ UNCHANGED <<scanned_files, user_settings, scanRoots>>
  BY DEF TypeOK, MoveData
<1>2. CASE call[c].table = Len(Tables) /\ call' = [call EXCEPT ![c].pc = "page", ![c].from = <<>>,
                                                       ![c].to = <<>>, ![c].table = 1]
  <2>1. /\ call'[c] = [call[c] EXCEPT !.pc = "page", !.from = <<>>, !.to = <<>>, !.table = 1]
        /\ Others(c)
    BY <1>2 DEF TypeOK, Others
  <2>2. call[c].table = Len(Tables)
    BY <1>2
  <2>3. QED
    BY <1>1, <2>1, <2>2 DEF CallStates
<1>3. CASE call[c].table # Len(Tables) /\ call' = [call EXCEPT ![c].table = @ + 1]
  <2>1. call'[c] = [call[c] EXCEPT !.table = @ + 1] /\ Others(c)
    BY <1>3 DEF TypeOK, Others
  <2>2. QED
    BY <1>1, <1>3, <2>1 DEF CallStates
<1>4. QED
  BY <1>2, <1>3 DEF MoveData

-----------------------------------------------------------------------------
(* RelativePathsStay, continued.                                           *)

LEMMA CarriesStep ==
  ASSUME TypeOK, CountsFitPages, RelativePathsStay, [Next]_vars, NEW c \in Calls
  PROVE  Carries(c)'
<1>1. \A id \in Ids : scanned_files'[id][2] = scanned_files[id][2]
  BY RowsKeepTheirNames
<1>2. Carries(c) /\ \A row \in call[c].page : row[1] \in Ids
  BY DEF RelativePathsStay, TypeOK
<1>3. CASE call'[c] = call[c]
  BY <1>1, <1>2, <1>3 DEF Carries
<1>4. CASE Quiet(c)
  BY <1>1, <1>2, <1>4 DEF Quiet, Carries, Idle
<1>5. ASSUME NEW r \in Requests, Ask(c, r) PROVE Carries(c)'
  BY <1>5, AskLeaves DEF Carries
<1>6. CASE Fetched(c)
  BY <1>6 DEF Fetched, Carries, IdsUnder
<1>7. ASSUME NEW row \in call[c].page, RowFailed(c, row) PROVE Carries(c)'
  BY <1>1, <1>2, <1>7, RowFailedLeaves DEF Carries, Handled
<1>8. ASSUME NEW row \in call[c].page, RowMoved(c, row) PROVE Carries(c)'
  BY <1>1, <1>2, <1>8, RowMovedLeaves DEF Carries, Handled, Target, Root
<1>9. CASE MoveData(c)
  BY <1>1, <1>2, <1>9, MoveDataLeaves DEF Carries
<1>10. CASE Crash
  BY <1>10 DEF Crash, Carries, Idle
<1>11. ASSUME NEW d \in Calls, d # c, (\E r \in Requests : Ask(d, r)) \/ ServerStep(d)
       PROVE  call'[c] = call[c]
  BY <1>11, TypeCallStep
<1>12. QED
  BY <1>3, <1>4, <1>5, <1>6, <1>7, <1>8, <1>9, <1>10, <1>11, ShortStepsAreQuiet, CountIsQuiet,
     FetchLeaves, MoveRowOutcomes
  DEF Next, ServerStep, Register, Deregister, StartScan, ScanFile, EndScan, vars

LEMMA RelativeStep ==
  ASSUME TypeOK, CountsFitPages, RelativePathsStay, [Next]_vars
  PROVE  RelativePathsStay'
<1>1. TablesStay' /\ Named' = Named
  BY TablesStep
<1>2. RowsStay'
  <2>1. /\ Ids \subseteq Ids' /\ Len(scanned_files) <= Len(scanned_files')
        /\ \A id \in Ids : scanned_files'[id][2] = scanned_files[id][2]
    BY RowsKeepTheirNames
  <2>2. Named \in Nat
    BY SmallFacts, FS_CardinalityType DEF Named, RelativePathsStay, TablesStay
  <2>3. Named <= Len(scanned_files) /\ \A id \in 1 .. Named : id \in Ids
    BY <2>2, IdsAreFinite DEF RelativePathsStay, RowsStay
  <2>4. Len(scanned_files') \in Nat /\ Len(scanned_files) \in Nat
    BY TypeStep, IdsAreFinite, LenProperties DEF TypeOK
  <2>5. QED
    BY <1>1, <2>1, <2>2, <2>3, <2>4 DEF RelativePathsStay, RowsStay
<1>3. QED
  BY <1>1, <1>2, CarriesStep DEF RelativePathsStay

-----------------------------------------------------------------------------
(* DataInv: the other tables follow the rows.                              *)

\* What has happened has happened.
LEMMA HarmStays ==
  ASSUME [Next]_vars
  PROVE  /\ "data" \in harm => "data" \in harm'
         /\ "place" \in harm => "place" \in harm'
BY DEF Next, ServerStep, Ask, Lookup, Fallback, Adopt, Count, Verify, FetchPage, MoveRow, MoveData,
       Finish, RemoveOld, Register, Deregister, StartScan, ScanFile, EndScan, Crash, vars

\* A step of one call, or one beside the calls.
LEMMA WhoSteps ==
  ASSUME TypeOK, CountsFitPages, [Next]_vars
  PROVE  \/ \E c \in Calls : /\ Others(c)
                             /\ \/ \E r \in Requests : Ask(c, r)
                                \/ Quiet(c) /\ data' = data
                                \/ Fetched(c)
                                \/ \E row \in call[c].page : RowMoved(c, row) \/ RowFailed(c, row)
                                \/ MoveData(c)
         \/ call' = call /\ UNCHANGED <<scanned_files, data>>
         \/ call' = call /\ data' = data /\ \E path \in Paths : ScanFile(path)
         \/ Crash
<1>1. ASSUME NEW c \in Calls, (\E r \in Requests : Ask(c, r)) \/ ServerStep(c)
      PROVE  /\ Others(c)
             /\ \/ \E r \in Requests : Ask(c, r)
                \/ Quiet(c) /\ data' = data
                \/ Fetched(c)
                \/ \E row \in call[c].page : RowMoved(c, row) \/ RowFailed(c, row)
                \/ MoveData(c)
  <2>1. Others(c)
    BY <1>1, TypeCallStep DEF Others
  <2>2. CASE Lookup(c) \/ Fallback(c) \/ Adopt(c) \/ Verify(c) \/ Finish(c) \/ RemoveOld(c)
    BY <2>1, <2>2, ShortStepsAreQuiet, TypeShortStep
  <2>3. QED
    BY <1>1, <2>1, <2>2, CountIsQuiet, FetchLeaves, MoveRowOutcomes DEF ServerStep, Count, Quiet
<1>2. QED
  BY <1>1 DEF Next, Register, Deregister, StartScan, ScanFile, EndScan, DB, vars

LEMMA CallsGoOnAgreeing ==
  ASSUME TypeOK, CountsFitPages, CallsAgree, [Next]_vars, "data" \notin harm' \/ "place" \notin harm'
  PROVE  CallsAgree'
<1>1. ASSUME NEW c \in Calls, Others(c),
             Active(c)' => /\ \A d \in Calls \ {c} : Active(d) => call[d].new = call'[c].new
      PROVE  CallsAgree'
  BY <1>1 DEF Others, CallsAgree, Active
<1>2. ASSUME NEW c \in Calls, Others(c), ~ Active(c)' \/ (Active(c) /\ call'[c].new = call[c].new)
      PROVE  CallsAgree'
  BY <1>1, <1>2 DEF CallsAgree
<1>3. ASSUME NEW c \in Calls, NEW r \in Requests, Others(c), Ask(c, r) PROVE CallsAgree'
  <2>1. ~ (\E d \in Calls \ {c} : Active(d) /\ call[d].new # r[2])
    BY <1>3 DEF Ask
  <2>2. call'[c].new = r[2]
    BY <1>3, AskLeaves
  <2>3. QED
    BY <1>1, <1>3, <2>1, <2>2
<1>4. CASE Crash
  BY <1>4 DEF Crash, CallsAgree, Active, Idle
<1>5. CASE call' = call
  BY <1>5 DEF CallsAgree, Active
<1>6. ASSUME NEW c \in Calls, Others(c),
             \/ Quiet(c) \/ Fetched(c) \/ MoveData(c)
             \/ \E row \in call[c].page : RowMoved(c, row) \/ RowFailed(c, row)
      PROVE  CallsAgree'
  <2>1. CASE Quiet(c)
    BY <1>2, <1>6, <2>1 DEF Quiet, Active, Idle
  <2>2. CASE Fetched(c)
    BY <1>2, <1>6, <2>2 DEF Fetched, Active
  <2>3. CASE MoveData(c)
    BY <1>2, <1>6, <2>3, MoveDataLeaves DEF Active
  <2>4. ASSUME NEW row \in call[c].page, RowMoved(c, row) \/ RowFailed(c, row) PROVE CallsAgree'
    BY <1>2, <1>6, <2>4, RowMovedLeaves, RowFailedLeaves DEF Handled, Active
  <2>5. QED
    BY <1>6, <2>1, <2>2, <2>3, <2>4
<1>7. QED
  BY <1>3, <1>4, <1>5, <1>6, WhoSteps

\* While calls agree, a row that moves goes where each of them would move it.
LEMMA WhereRowsGo ==
  ASSUME TypeOK, CountsFitPages, RelativePathsStay, CallsAgree, [Next]_vars,
         NEW c \in Calls, Active(c), NEW id \in Ids
  PROVE  \/ scanned_files'[id] = scanned_files[id]
         \/ scanned_files'[id] = <<call[c].new, scanned_files[id][2]>>
<1>1. CASE \A d \in Calls : ~ MoveRow(d)
  BY <1>1, RowsKeepTheirNames
<1>2. ASSUME NEW d \in Calls, MoveRow(d)
      PROVE  \/ scanned_files'[id] = scanned_files[id]
             \/ scanned_files'[id] = <<call[c].new, scanned_files[id][2]>>
  <2>1. PICK row \in call[d].page : RowMoved(d, row) \/ RowFailed(d, row)
    BY <1>2, MoveRowOutcomes
  <2>2. CASE RowFailed(d, row)
    BY <2>2 DEF RowFailed
  <2>3. CASE RowMoved(d, row)
    <3>1. /\ scanned_files'[row[1]] = Target(d, row)
          /\ id # row[1] => scanned_files'[id] = scanned_files[id]
      BY <2>3, RowMoves
    <3>2. call[d].new = call[c].new
      BY <2>3 DEF RowMoved, CallsAgree, Active
    <3>3. scanned_files[row[1]][2] = row[2][2]
      BY DEF RelativePathsStay, Carries
    <3>4. QED
      BY <3>1, <3>2, <3>3 DEF Target
  <2>4. QED
    BY <2>1, <2>2, <2>3
<1>3. QED
  BY <1>1, <1>2

LEMMA NamedRows ==
  ASSUME TypeOK, RelativePathsStay
  PROVE  Named \in Nat /\ \A id \in 1 .. Named : id \in Ids
<1>1. Named \in Nat
  BY SmallFacts, FS_CardinalityType DEF Named, RelativePathsStay, TablesStay
<1>2. QED
  BY <1>1, IdsAreFinite DEF RelativePathsStay, RowsStay

\* A call keeps its page or loses a row of it, and keeps what it carries.
LEMMA PageGoesOnHolding ==
  ASSUME TypeOK, CountsFitPages, RelativePathsStay, CallsAgree, [Next]_vars,
         NEW c \in Calls, PageHolds(c), call'[c].page \subseteq call[c].page,
         call'[c].old = call[c].old, call'[c].new = call[c].new
  PROVE  PageHolds(c)'
<1> SUFFICES ASSUME NEW row \in call[c].page
             PROVE  /\ scanned_files'[row[1]] \in {row[2], <<call[c].new, row[2][2]>>}
                    /\ call[c].old # call[c].new =>
                         \A id \in 1 .. Named : id # row[1] => scanned_files'[id] # row[2]
  BY TablesStep DEF PageHolds
<1>1. Active(c) /\ row[1] \in Ids
  BY DEF CountsFitPages, TypeOK, Active
<1>2. scanned_files[row[1]][2] = row[2][2] /\ Root(row[2]) = call[c].old
  BY DEF RelativePathsStay, Carries
<1>3. scanned_files'[row[1]] \in {row[2], <<call[c].new, row[2][2]>>}
  BY <1>1, <1>2, WhereRowsGo DEF PageHolds
<1>4. ASSUME call[c].old # call[c].new, NEW id \in 1 .. Named, id # row[1]
      PROVE  scanned_files'[id] # row[2]
  <2>1. id \in Ids /\ scanned_files[id] # row[2]
    BY <1>4, NamedRows DEF PageHolds
  <2>2. scanned_files'[id] = scanned_files[id] \/ scanned_files'[id] = <<call[c].new, scanned_files[id][2]>>
    BY <1>1, <2>1, WhereRowsGo
  <2>3. QED
    BY <1>2, <1>4, <2>1, <2>2 DEF Root
<1>5. QED
  BY <1>3, <1>4

LEMMA LeftGoesOnBehind ==
  ASSUME TypeOK, CountsFitPages, RelativePathsStay, CallsAgree, [Next]_vars,
         NEW c \in Calls, LeftBehind(c), call[c].pc = "data",
         call'[c].from = call[c].from, call'[c].to = call[c].to
  PROVE  LeftBehind(c)'
<1> SUFFICES ASSUME call[c].from # call[c].to, NEW id \in 1 .. Named
             PROVE  scanned_files'[id] # call[c].from
  BY TablesStep DEF LeftBehind
<1>1. /\ Root(call[c].from) = call[c].old /\ Root(call[c].to) = call[c].new
      /\ call[c].from[2] = call[c].to[2] /\ call[c].from \in Paths /\ call[c].to \in Paths
  BY DEF RelativePathsStay, Carries, TypeOK
<1>2. call[c].old # call[c].new
  BY <1>1 DEF Root, Paths
<1>3. id \in Ids /\ scanned_files[id] # call[c].from
  BY NamedRows DEF LeftBehind
<1>4. scanned_files'[id] = scanned_files[id] \/ scanned_files'[id] = <<call[c].new, scanned_files[id][2]>>
  BY <1>3, WhereRowsGo DEF Active
<1>5. QED
  BY <1>1, <1>2, <1>3, <1>4 DEF Root

LEMMA PagesStep ==
  ASSUME TypeOK, CountsFitPages, RelativePathsStay, DataInv, [Next]_vars, "data" \notin harm',
         NEW c \in Calls
  PROVE  PageHolds(c)' /\ LeftBehind(c)'
<1>1. CallsAgree /\ PageHolds(c) /\ LeftBehind(c)
  BY HarmStays DEF DataInv
<1>2. CASE call'[c] = call[c]
  <2>1. PageHolds(c)'
    BY <1>1, <1>2, PageGoesOnHolding
  <2>2. ASSUME call[c].pc # "data" PROVE LeftBehind(c)'
    BY <1>2, <2>2 DEF LeftBehind
  <2>3. ASSUME call[c].pc = "data" PROVE LeftBehind(c)'
    BY <1>1, <1>2, <2>3, LeftGoesOnBehind
  <2>4. QED
    BY <2>1, <2>2, <2>3
<1>3. CASE call'[c] = Idle
  BY <1>3 DEF PageHolds, LeftBehind, Idle
<1>4. CASE Quiet(c)
  <2>1. CASE call'[c] # Idle
    BY <1>1, <1>4, <2>1, PageGoesOnHolding DEF Quiet, LeftBehind
  <2>2. QED
    BY <1>3, <2>1
<1>5. ASSUME NEW r \in Requests, Ask(c, r) PROVE PageHolds(c)' /\ LeftBehind(c)'
  BY <1>5, AskLeaves DEF PageHolds, LeftBehind
<1>6. CASE Fetched(c)
  <2>1. LeftBehind(c)'
    BY <1>6 DEF Fetched, LeftBehind
  <2>2. ASSUME NEW row \in call'[c].page
        PROVE  /\ row[1] \in Ids /\ scanned_files[row[1]] = row[2]
               /\ \A id \in 1 .. Named : id # row[1] => scanned_files[id] # row[2]
    <3>1. row[1] \in Ids /\ scanned_files[row[1]] = row[2]
      BY <1>6 DEF Fetched, IdsUnder
    <3>2. \A id \in Ids : scanned_files[id] = scanned_files[row[1]] => id = row[1]
      BY <3>1 DEF TypeOK, IsInjective, Ids
    <3>3. QED
      BY <3>1, <3>2, NamedRows
  <2>3. scanned_files' = scanned_files /\ Named' = Named
    BY <1>6, TablesStep DEF Fetched
  <2>4. QED
    BY <2>1, <2>2, <2>3 DEF PageHolds
<1>7. ASSUME NEW row \in call[c].page, RowFailed(c, row) PROVE PageHolds(c)' /\ LeftBehind(c)'
  <2>1. Handled(c, row) /\ call'[c].pc = "page"
    BY <1>7, RowFailedLeaves
  <2>2. QED
    BY <1>1, <2>1, PageGoesOnHolding DEF Handled, LeftBehind
<1>8. ASSUME NEW row \in call[c].page, RowMoved(c, row) PROVE PageHolds(c)' /\ LeftBehind(c)'
  <2>1. Handled(c, row) /\ call'[c].from = row[2] /\ call'[c].to = Target(c, row)
    BY <1>8, RowMovedLeaves
  <2>2. PageHolds(c)'
    BY <1>1, <2>1, PageGoesOnHolding DEF Handled
  <2>3. ASSUME row[2] # Target(c, row), NEW id \in 1 .. Named PROVE scanned_files'[id] # row[2]
    <3>1. /\ scanned_files'[row[1]] = Target(c, row) /\ row[2] \in Paths
          /\ \A i \in Ids : i # row[1] => scanned_files'[i] = scanned_files[i]
      BY <1>8, RowMoves
    <3>2. Root(row[2]) = call[c].old
      BY DEF RelativePathsStay, Carries
    <3>3. call[c].old # call[c].new
      BY <2>3, <3>1, <3>2 DEF Target, Root, Paths
    <3>4. id # row[1] => scanned_files[id] # row[2]
      BY <1>1, <3>3 DEF PageHolds
    <3>5. QED
      BY <2>3, <3>1, <3>4, NamedRows
  <2>4. QED
    BY <2>1, <2>2, <2>3, TablesStep DEF LeftBehind
<1>9. CASE MoveData(c)
  <2>1. PageHolds(c)'
    BY <1>1, <1>9, PageGoesOnHolding, MoveDataLeaves
  <2>2. LeftBehind(c)'
    <3>1. CASE call'[c].pc = "data"
      BY <1>1, <1>9, <3>1, LeftGoesOnBehind, MoveDataLeaves
    <3>2. QED
      BY <3>1 DEF LeftBehind
  <2>3. QED
    BY <2>1, <2>2
<1>10. QED
  BY <1>2, <1>3, <1>4, <1>5, <1>6, <1>7, <1>8, <1>9, WhoSteps DEF Others, Crash

\* Each table goes on naming the rows with data, or will.
LEMMA NamedStep ==
  ASSUME TypeOK, CountsFitPages, RelativePathsStay, DataInv, [Next]_vars, "data" \notin harm',
         NEW t \in TableNames, NEW id \in 1 .. Named
  PROVE  NamedOrSoon(id, t)'
<1>1. /\ CallsAgree /\ NamedOrSoon(id, t) /\ id \in Ids
      /\ \A c \in Calls : PageHolds(c) /\ LeftBehind(c)
  BY HarmStays, NamedRows DEF DataInv
<1>2. CASE /\ data' = data /\ scanned_files'[id] = scanned_files[id]
           /\ \A c \in Calls : call[c].pc = "data" => call'[c] = call[c]
  BY <1>1, <1>2 DEF NamedOrSoon
<1>3. CASE Crash
  <2>1. \A c \in Calls : call[c].pc # "data"
    BY <1>3 DEF Crash
  <2>2. QED
    BY <1>2, <1>3, <2>1 DEF Crash, DB
<1>4. ASSUME NEW path \in Paths, ScanFile(path), data' = data, call' = call
      PROVE  NamedOrSoon(id, t)'
  BY <1>1, <1>2, <1>4, RowIsAdded
<1>5. ASSUME NEW c \in Calls, Others(c), call[c].pc # "data", data' = data,
             scanned_files' = scanned_files
      PROVE  NamedOrSoon(id, t)'
  BY <1>2, <1>5 DEF Others
<1>6. ASSUME NEW c \in Calls, NEW row \in call[c].page, Others(c), RowMoved(c, row)
      PROVE  NamedOrSoon(id, t)'
  <2>1. /\ Handled(c, row) /\ call'[c].pc = "data" /\ call'[c].from = row[2]
        /\ call'[c].to = Target(c, row) /\ call'[c].table = 1
    BY <1>6, RowMovedLeaves
  <2>2. /\ scanned_files'[row[1]] = Target(c, row)
        /\ \A i \in Ids : i # row[1] => scanned_files'[i] = scanned_files[i]
    BY <1>6, RowMoves
  <2>3. data' = data /\ call[c].pc = "page"
    BY <1>6 DEF RowMoved
  <2>4. CASE scanned_files'[id] = scanned_files[id]
    BY <1>2, <1>6, <2>3, <2>4 DEF Others
  <2>5. CASE scanned_files'[id] # scanned_files[id]
    <3>1. id = row[1] /\ scanned_files[id] # Target(c, row)
      BY <1>1, <2>2, <2>5
    <3>2. scanned_files[id] = row[2]
      BY <1>1, <3>1 DEF PageHolds, Target
    <3>3. scanned_files[id][2] = row[2][2]
      BY <3>2
    <3>4. CASE scanned_files[id] \in data[t]
      <4>1. \E i \in DOMAIN Tables : i >= 1 /\ Tables[i] = t
        BY SmallFacts DEF TableNames
      <4>2. QED
        BY <2>1, <2>2, <2>3, <3>1, <3>2, <3>4, <4>1 DEF NamedOrSoon
    <3>5. ASSUME NEW d \in Calls, call[d].pc = "data", call[d].to = scanned_files[id] PROVE FALSE
      <4>1. Root(call[d].to) = call[d].new /\ call[d].to \in Paths
        BY <3>5 DEF RelativePathsStay, Carries, TypeOK
      <4>2. call[d].new = call[c].new
        BY <1>1, <2>3, <3>5 DEF CallsAgree, Active
      <4>3. QED
        BY <3>1, <3>2, <3>5, <4>1, <4>2 DEF Root, Paths, Target
    <3>6. QED
      BY <1>1, <3>4, <3>5 DEF NamedOrSoon
  <2>6. QED
    BY <2>4, <2>5
<1>7. ASSUME NEW c \in Calls, Others(c), MoveData(c) PROVE NamedOrSoon(id, t)'
  <2> DEFINE table == Tables[call[c].table]
             from == call[c].from
             to == call[c].to
             path == scanned_files[id]
  <2>1. /\ call[c].pc = "data" /\ scanned_files' = scanned_files
        /\ \/ call[c].table = Len(Tables) /\ call'[c].pc = "page"
           \/ /\ call[c].table # Len(Tables) /\ call'[c].pc = "data"
              /\ call'[c].from = from /\ call'[c].to = to
              /\ call'[c].table = call[c].table + 1
    BY <1>7, MoveDataLeaves
  <2>2. data' = [data EXCEPT ![table] = Renamed(table, from, to)]
    BY <1>7 DEF MoveData
  <2>3. /\ Root(from) = call[c].old /\ Root(to) = call[c].new /\ from[2] = to[2]
        /\ from \in Paths /\ to \in Paths
    BY <2>1 DEF RelativePathsStay, Carries, TypeOK
  <2>4. call[c].table \in DOMAIN Tables /\ table \in TableNames
    BY DEF TypeOK, CallStates, TableNames
  <2>5. \A s \in TableNames : s # table => data'[s] = data[s]
    BY <2>2, <2>4 DEF TypeOK
  <2>6. data'[table] = data[table] \/ data'[table] = (data[table] \ {from}) \cup {to}
    BY <2>2, <2>4 DEF TypeOK, Renamed
  <2>7. from \in data[table] => to \in data'[table]
    BY <2>2, <2>4 DEF TypeOK, Renamed
  <2>8. \A p \in data[t] : p \in data'[t] \/ (p = from /\ to \in data'[t] /\ from # to)
    BY <2>5, <2>6
  <2>9. CASE path \in data[t]
    <3>1. ~ (path = from /\ from # to)
      BY <1>1, <2>1 DEF LeftBehind
    <3>2. QED
      BY <2>1, <2>8, <2>9, <3>1 DEF NamedOrSoon
  <2>10. ASSUME NEW d \in Calls, call[d].pc = "data", call[d].to = path, call[d].from \in data[t],
                NEW i \in DOMAIN Tables, i >= call[d].table, Tables[i] = t
         PROVE  NamedOrSoon(id, t)'
    <3>1. CASE path \in data'[t]
      BY <2>1, <3>1 DEF NamedOrSoon
    <3>2. CASE d # c /\ call[d].from \in data'[t]
      <4>1. call'[d] = call[d]
        BY <1>7, <3>2 DEF Others
      <4>2. QED
        BY <2>1, <2>10, <3>2, <4>1 DEF NamedOrSoon
    <3>3. CASE d # c /\ call[d].from = from /\ to \in data'[t]
      <4>1. /\ Root(call[d].to) = call[d].new /\ call[d].from[2] = call[d].to[2]
            /\ call[d].to \in Paths /\ call[d].new = call[c].new
        BY <1>1, <2>1, <2>10 DEF RelativePathsStay, Carries, TypeOK, CallsAgree, Active
      <4>2. call[d].to = <<call[c].new, from[2]>>
        BY <3>3, <4>1 DEF Root, Paths
      <4>3. to = <<call[c].new, from[2]>>
        BY <2>3 DEF Root, Paths
      <4>4. QED
        BY <2>10, <3>1, <3>3, <4>2, <4>3
    <3>4. CASE d = c /\ table = t
      BY <2>7, <2>10, <3>1, <3>4
    <3>5. CASE d = c /\ table # t
      <4>1. i # call[c].table /\ i > call[c].table /\ i <= Len(Tables) /\ i \in Nat
            /\ call[c].table \in Nat
        BY <2>4, <2>10, <3>5, SmallFacts
      <4>2. /\ call'[c].pc = "data" /\ call'[c].from = from /\ call'[c].to = to
            /\ i >= call'[c].table
        BY <2>1, <4>1
      <4>3. from \in data'[t]
        BY <2>5, <2>10, <3>5
      <4>4. QED
        BY <2>1, <2>10, <3>5, <4>2, <4>3 DEF NamedOrSoon
    <3>6. QED
      BY <2>8, <2>10, <3>2, <3>3, <3>4, <3>5
  <2>11. QED
    BY <1>1, <2>9, <2>10 DEF NamedOrSoon
<1>8. QED
  <2>1. ASSUME NEW c \in Calls, Others(c),
               \/ \E r \in Requests : Ask(c, r)
               \/ Quiet(c) /\ data' = data
               \/ Fetched(c)
               \/ \E row \in call[c].page : RowFailed(c, row)
        PROVE  NamedOrSoon(id, t)'
    <3>1. ASSUME NEW r \in Requests, Ask(c, r) PROVE NamedOrSoon(id, t)'
      BY <1>5, <2>1, <3>1, AskLeaves DEF Ask, Active
    <3>2. ASSUME NEW row \in call[c].page, RowFailed(c, row) PROVE NamedOrSoon(id, t)'
      BY <1>5, <2>1, <3>2 DEF RowFailed
    <3>3. QED
      BY <1>5, <2>1, <3>1, <3>2 DEF Quiet, Fetched
  <2>2. QED
    BY <1>2, <1>3, <1>4, <1>6, <1>7, <2>1, WhoSteps

LEMMA DataStep ==
  ASSUME TypeOK, CountsFitPages, RelativePathsStay, DataInv, [Next]_vars
  PROVE  DataInv'
<1> SUFFICES ASSUME "data" \notin harm'
             PROVE  /\ CallsAgree'
                    /\ \A c \in Calls : PageHolds(c)' /\ LeftBehind(c)'
                    /\ \A t \in TableNames : \A id \in 1 .. Named' : NamedOrSoon(id, t)'
  BY DEF DataInv
<1>1. CallsAgree'
  BY HarmStays, CallsGoOnAgreeing DEF DataInv
<1>2. \A c \in Calls : PageHolds(c)' /\ LeftBehind(c)'
  BY PagesStep
<1>3. \A t \in TableNames : \A id \in 1 .. Named : NamedOrSoon(id, t)'
  BY NamedStep
<1>4. QED
  BY <1>1, <1>2, <1>3, TablesStep

-----------------------------------------------------------------------------
(* PlaceInv: no file is left in a place that is not scanned.               *)

PlaceFacts ==
  /\ CallsAgree
  /\ \A c \in Calls : Active(c) => call[c].old # call[c].new
  /\ \A c \in Calls : Active(c) => OldRoot(c)
  /\ \A id \in Ids : Placed(Root(scanned_files[id]))

\* No row comes to the old root of a call.
LEMMA OldRootsEmpty ==
  ASSUME TypeOK, CountsFitPages, RelativePathsStay, PlaceFacts, [Next]_vars, "place" \notin harm',
         NEW c \in Calls, Active(c)
  PROVE  LET before == IdsUnder(call[c].old)
             after == {id \in Ids' : Root(scanned_files'[id]) = call[c].old}
         IN  /\ after \subseteq before
             /\ Cardinality(after) \in Nat /\ Cardinality(before) \in Nat
             /\ Cardinality(after) <= Cardinality(before)
<1> DEFINE before == IdsUnder(call[c].old)
           after == {id \in Ids' : Root(scanned_files'[id]) = call[c].old}
<1>1. after \subseteq before
  <2>1. CASE scanned_files' = scanned_files
    BY <2>1 DEF IdsUnder, Ids
  <2>2. ASSUME NEW path \in Paths, ScanFile(path) PROVE after \subseteq before
    <3>1. Root(path) # call[c].old
      BY <2>2 DEF ScanFile
    <3>2. /\ scanned_files'[Len(scanned_files) + 1] = path
          /\ Ids' = 1 .. Len(scanned_files) + 1 /\ Ids = 1 .. Len(scanned_files)
          /\ \A id \in Ids : scanned_files'[id] = scanned_files[id]
          /\ Len(scanned_files) \in Nat
      BY <2>2, RowIsAdded, IdsAreFinite, LenProperties DEF Ids
    <3>3. QED
      BY <3>1, <3>2 DEF IdsUnder
  <2>3. ASSUME NEW d \in Calls, NEW row \in call[d].page, RowMoved(d, row) PROVE after \subseteq before
    <3>1. /\ Ids' = Ids /\ scanned_files'[row[1]] = Target(d, row)
          /\ \A id \in Ids : id # row[1] => scanned_files'[id] = scanned_files[id]
      BY <2>3, RowMoves
    <3>2. call[d].new = call[c].new /\ call[c].old # call[c].new
      BY <2>3 DEF RowMoved, PlaceFacts, CallsAgree, Active
    <3>3. QED
      BY <3>1, <3>2 DEF IdsUnder, Target, Root
  <2>4. QED
    BY <2>1, <2>2, <2>3, WhoSteps, AskLeaves, MoveDataLeaves DEF Quiet, Fetched, RowFailed, Crash, DB
<1>2. before \in SUBSET Ids
  BY DEF IdsUnder
<1>3. IsFiniteSet(before) /\ Cardinality(before) \in Nat
  BY <1>2, IdsAreFinite
<1> HIDE DEF before, after
<1>4. IsFiniteSet(after) /\ Cardinality(after) <= Cardinality(before)
  BY <1>1, <1>3, FS_Subset
<1>5. Cardinality(after) \in Nat
  BY <1>4, FS_CardinalityType
<1>6. QED
  BY <1>1, <1>3, <1>4, <1>5 DEF before, after

\* What a call knows of the rows under its old root stays true while it goes on.
LEMMA OldRootKept ==
  ASSUME TypeOK, CountsFitPages, RelativePathsStay, PlaceFacts, [Next]_vars, "place" \notin harm',
         NEW c \in Calls, Active(c),
         call'[c].old = call[c].old, call'[c].offset = call[c].offset,
         call'[c].page = call[c].page, call'[c].updated = call[c].updated,
         call'[c].failed = call[c].failed, call'[c].total = call[c].total,
         call'[c].pc \in {"verify", "page", "data", "finish", "remove"} =>
           call[c].pc \in {"verify", "page", "data", "finish", "remove"},
         call'[c].pc \in {"finish", "remove"} /\ call[c].updated > 0 =>
           call[c].total <= call[c].offset /\ call[c].page = {},
         call'[c].pc = "remove" =>
           call[c].updated > 0 /\ call[c].failed = 0 /\ call'[c].new \in user_settings'
  PROVE  OldRoot(c)'
<1> DEFINE before == IdsUnder(call[c].old)
           after == {id \in Ids' : Root(scanned_files'[id]) = call[c].old}
<1>1. /\ after \subseteq before
      /\ Cardinality(after) \in Nat /\ Cardinality(before) \in Nat
      /\ Cardinality(after) <= Cardinality(before)
  BY OldRootsEmpty
<1>2. IdsUnder(call[c].old)' = after /\ OldRoot(c)
  BY DEF IdsUnder, PlaceFacts
<1>3. call[c].total \in Nat
  BY DEF TypeOK, CallStates
<1> HIDE DEF before, after
<1>4. call'[c].pc \in {"verify", "page", "data", "finish", "remove"} =>
        Cardinality(after) <= call'[c].total
  BY <1>1, <1>2, <1>3 DEF OldRoot, before
<1>5. call[c].offset > 0 /\ call[c].failed = 0 /\ call[c].total <= call[c].offset =>
           \A id \in after : \E row \in call[c].page : row[1] = id
  BY <1>1, <1>2 DEF OldRoot, before
<1>6. call[c].offset > 0 => call[c].page # {} \/ call[c].updated > 0 \/ call[c].failed > 0
  BY <1>2 DEF OldRoot
<1>7. QED
  BY <1>2, <1>4, <1>5, <1>6 DEF OldRoot

\* The registration that a call has made, or found, is not withdrawn by another.
LEMMA NewRootStays ==
  ASSUME PlaceFacts, [Next]_vars, "place" \notin harm',
         NEW c \in Calls, Active(c), call[c].new \in user_settings
  PROVE  call[c].new \in user_settings'
<1>1. CASE user_settings \subseteq user_settings'
  BY <1>1
<1>2. ASSUME NEW d \in Calls, RemoveOld(d) PROVE call[c].new \in user_settings'
  BY <1>2 DEF RemoveOld, PlaceFacts, CallsAgree, Active
<1>3. QED
  BY <1>1, <1>2 DEF Next, ServerStep, Ask, Lookup, Fallback, Adopt, Count, Verify, FetchPage,
       MoveRow, MoveData, Finish, Register, Deregister, StartScan, ScanFile, EndScan, Crash, DB, vars

LEMMA OldRootStep ==
  ASSUME TypeOK, CountsFitPages, RelativePathsStay, PlaceFacts, [Next]_vars, "place" \notin harm',
         NEW c \in Calls, Active(c)'
  PROVE  OldRoot(c)' /\ call'[c].old # call'[c].new
<1> DEFINE Goal == OldRoot(c)' /\ call'[c].old # call'[c].new
<1>1. Active(c) => OldRoot(c) /\ call[c].old # call[c].new
  BY DEF PlaceFacts
<1>2. call'[c] # Idle
  BY DEF Active, Idle
<1>3. CASE call'[c] = call[c]
  <2>1. Active(c)
    BY <1>3 DEF Active
  <2>2. /\ call[c].pc \in {"finish", "remove"} /\ call[c].updated > 0 =>
             call[c].total <= call[c].offset /\ call[c].page = {}
        /\ call[c].pc = "remove" =>
             call[c].updated > 0 /\ call[c].failed = 0 /\ call[c].new \in user_settings
    BY <1>1, <2>1 DEF OldRoot
  <2>3. call[c].pc = "remove" => call[c].new \in user_settings'
    BY <2>1, <2>2, NewRootStays
  <2>4. OldRoot(c)'
    BY <1>3, <2>1, <2>2, <2>3, OldRootKept
  <2>5. QED
    BY <1>1, <1>3, <2>1, <2>4
<1>4. ASSUME NEW r \in Requests, Ask(c, r) PROVE Goal
  <2>1. r[1] # r[2]
    BY <1>4 DEF Ask
  <2>2. QED
    BY <1>4, <2>1, AskLeaves DEF OldRoot
<1>5. CASE Lookup(c) \/ Fallback(c) \/ Adopt(c) \/ Verify(c) \/ Finish(c)
  <2>1. Active(c) /\ Quiet(c)
    BY <1>5, ShortStepsAreQuiet DEF Lookup, Fallback, Adopt, Verify, Finish, Active
  <2>2. /\ call'[c].old = call[c].old /\ call'[c].new = call[c].new
        /\ call'[c].page = call[c].page /\ call'[c].offset = call[c].offset
        /\ call'[c].updated = call[c].updated /\ call'[c].failed = call[c].failed
    BY <1>2, <2>1 DEF Quiet
  <2>3. PICK pc \in {"files", "adopt", "count", "page", "finish", "remove"} :
          /\ Goto(c, pc)
          /\ pc = "page" => call[c].pc = "verify"
          /\ pc = "remove" => /\ call[c].pc = "finish" /\ call[c].updated > 0 /\ call[c].failed = 0
                              /\ call[c].new \in user_settings'
          /\ pc # "finish"
    BY <1>2, <1>5, AnswerLeaves DEF Lookup, Fallback, Adopt, Verify, Finish, Success
  <2>4. call'[c].pc = pc /\ call'[c].total = call[c].total
    BY <2>1, <2>3, GotoIsQuiet DEF Quiet
  <2>5. call[c].pc = "finish" /\ call[c].updated > 0 => call[c].total <= call[c].offset /\ call[c].page = {}
    BY <1>1, <2>1 DEF OldRoot
  <2>6. OldRoot(c)'
    BY <2>1, <2>2, <2>3, <2>4, <2>5, OldRootKept
  <2>7. QED
    BY <1>1, <2>1, <2>2, <2>6
<1>6. CASE Count(c)
  <2>1. /\ Active(c) /\ scanned_files' = scanned_files
        /\ call'[c].old = call[c].old /\ call'[c].new = call[c].new
        /\ call'[c].offset = call[c].offset /\ call'[c].pc = "verify"
        /\ call'[c].total = Cardinality(IdsUnder(call[c].old))
    BY <1>2, <1>6, CountIsQuiet DEF Quiet, Active
  <2>2. call[c].offset = 0
    BY <1>6 DEF Count, CountsFitPages
  <2>3. IdsUnder(call[c].old)' = IdsUnder(call[c].old)
    BY <2>1 DEF IdsUnder, Ids
  <2>4. Cardinality(IdsUnder(call[c].old)) \in Nat
    BY IdsAreFinite DEF IdsUnder
  <2>5. QED
    BY <1>1, <2>1, <2>2, <2>3, <2>4 DEF OldRoot
<1>7. CASE FetchPage(c) /\ Quiet(c) /\ Goto(c, "finish")
  <2>1. Active(c) /\ call[c].pc = "page"
    BY <1>7 DEF FetchPage, Active
  <2>2. /\ call'[c].old = call[c].old /\ call'[c].new = call[c].new
        /\ call'[c].page = call[c].page /\ call'[c].offset = call[c].offset
        /\ call'[c].updated = call[c].updated /\ call'[c].failed = call[c].failed
        /\ call'[c].pc = "finish" /\ call'[c].total = call[c].total
    BY <1>2, <1>7, <2>1, GotoIsQuiet DEF Quiet
  <2>3. /\ call[c].updated \in Nat /\ call[c].failed \in Nat /\ call[c].page = {}
        /\ call[c].offset \in Nat /\ call[c].total \in Nat
    BY <1>7 DEF FetchPage, TypeOK, CallStates
  <2>4. call[c].updated + call[c].failed <= call[c].offset
    <3>1. Cardinality(call[c].page) = 0
      BY <2>3, FS_EmptySet
    <3>2. call[c].updated + call[c].failed + Cardinality(call[c].page) <= call[c].offset
      BY DEF CountsFitPages
    <3>3. QED
      BY <2>3, <3>1, <3>2
  <2>5. call[c].updated > 0 => call[c].total <= call[c].offset
    <3>1. ~ (call[c].offset > 0 /\ call[c].offset < call[c].total /\ call[c].updated > 0)
      BY <1>7 DEF FetchPage
    <3>2. QED
      BY <2>3, <2>4, <3>1
  <2>6. OldRoot(c)'
    BY <2>1, <2>2, <2>3, <2>5, OldRootKept
  <2>7. QED
    BY <1>1, <2>1, <2>2, <2>6
<1>8. CASE FetchPage(c) /\ Fetched(c)
  <2> DEFINE ids == IdsUnder(call[c].old)
  <2>1. Active(c) /\ OldRoot(c)
    BY <1>1, <1>8 DEF Fetched, Active
  <2>2. ids' = ids /\ call'[c].old = call[c].old /\ call'[c].new = call[c].new
    BY <1>8 DEF Fetched, IdsUnder, Ids
  <2>3. ids \in SUBSET Nat /\ IsFiniteSet(ids) /\ Cardinality(ids) \in Nat
    BY IdsAreFinite DEF IdsUnder
  <2>4. /\ call[c].updated \in Nat /\ call[c].failed \in Nat
        /\ call[c].offset \in Nat /\ call[c].total \in Nat /\ BatchSize \in Nat \ {0}
    BY Bounds DEF TypeOK, CallStates
  <2>5. Cardinality(ids) <= call[c].total
    BY <1>8, <2>1 DEF OldRoot, Fetched
  <2>6. ASSUME call[c].failed = 0, call[c].total <= call[c].offset + BatchSize
        PROVE  \A id \in ids : \E row \in call'[c].page : row[1] = id
    <3>1. call[c].offset > 0 => call[c].updated > 0
      BY <1>8, <2>1, <2>4, <2>6 DEF OldRoot, Fetched
    <3>2. ~ (call[c].offset > 0 /\ call[c].updated > 0)
      BY <1>8 DEF FetchPage, Fetched
    <3>3. call[c].offset = 0
      BY <2>4, <3>1, <3>2
    <3>4. Cardinality(ids) <= BatchSize
      BY <2>3, <2>4, <2>5, <2>6, <3>3
    <3>5. call'[c].page = PageOf(ids, call[c].offset)
      BY <1>8 DEF Fetched
    <3>6. QED
      BY <2>3, <2>4, <3>3, <3>4, <3>5, PageFits
  <2> HIDE DEF ids
  <2>7. /\ call'[c].pc = "page" /\ call'[c].total = call[c].total
        /\ call'[c].offset = call[c].offset + BatchSize /\ call'[c].failed = call[c].failed
        /\ call'[c].page # {}
    BY <1>8 DEF Fetched
  <2>8. IdsUnder(call[c].old)' = ids
    BY <2>2 DEF ids
  <2>9. OldRoot(c)'
    BY <2>4, <2>5, <2>6, <2>7, <2>8 DEF OldRoot
  <2>10. QED
    BY <1>1, <2>1, <2>2, <2>9
<1>9. ASSUME NEW row \in call[c].page, RowMoved(c, row) \/ RowFailed(c, row) PROVE Goal
  <2> DEFINE before == IdsUnder(call[c].old)
             after == {id \in Ids' : Root(scanned_files'[id]) = call[c].old}
  <2>1. /\ Handled(c, row)
        /\ \/ /\ RowMoved(c, row) /\ call'[c].pc = "data"
              /\ call'[c].updated = call[c].updated + 1 /\ call'[c].failed = call[c].failed
           \/ /\ call'[c].pc = "page"
              /\ call'[c].updated = call[c].updated /\ call'[c].failed = call[c].failed + 1
    BY <1>9, RowMovedLeaves, RowFailedLeaves
  <2>2. Active(c) /\ call[c].pc = "page" /\ OldRoot(c) /\ call[c].old # call[c].new
    BY <1>1, <2>1 DEF Handled, Active
  <2>3. /\ after \subseteq before
        /\ Cardinality(after) \in Nat /\ Cardinality(before) \in Nat
        /\ Cardinality(after) <= Cardinality(before)
    BY <2>2, OldRootsEmpty
  <2>4. IdsUnder(call[c].old)' = after
    BY <2>1 DEF IdsUnder, Handled
  <2>5. /\ call[c].updated \in Nat /\ call[c].failed \in Nat
        /\ call[c].offset \in Nat /\ call[c].total \in Nat
    BY DEF TypeOK, CallStates
  <2>6. Cardinality(after) <= call[c].total
    BY <2>2, <2>3, <2>5 DEF OldRoot
  <2>7. ASSUME call'[c].failed = 0, call[c].offset > 0, call[c].total <= call[c].offset, NEW id \in after
        PROVE  \E other \in call'[c].page : other[1] = id
    <3>1. RowMoved(c, row) /\ call[c].failed = 0
      BY <2>1, <2>5, <2>7
    <3>2. PICK other \in call[c].page : other[1] = id
      BY <2>2, <2>3, <2>7, <3>1 DEF OldRoot
    <3>3. scanned_files'[row[1]] = Target(c, row)
      BY <3>1, RowMoves
    <3>4. Root(scanned_files'[id]) = call[c].old
      BY <2>7
    <3>5. id # row[1]
      BY <2>2, <3>3, <3>4 DEF Target, Root
    <3>6. QED
      BY <2>1, <3>2, <3>5 DEF Handled
  <2> HIDE DEF before, after
  <2>8. call'[c].updated > 0 \/ call'[c].failed > 0
    BY <2>1, <2>5
  <2>9. OldRoot(c)'
    BY <2>1, <2>4, <2>6, <2>7, <2>8 DEF OldRoot, Handled
  <2>10. QED
    BY <2>1, <2>2, <2>9 DEF Handled
<1>10. CASE MoveData(c)
  <2>1. /\ call'[c].old = call[c].old /\ call'[c].new = call[c].new
        /\ call'[c].total = call[c].total /\ call'[c].offset = call[c].offset
        /\ call'[c].page = call[c].page
        /\ call'[c].updated = call[c].updated /\ call'[c].failed = call[c].failed
        /\ call[c].pc = "data" /\ call'[c].pc \in {"page", "data"}
    BY <1>10, MoveDataLeaves
  <2>2. Active(c)
    BY <2>1 DEF Active
  <2>3. OldRoot(c)'
    BY <2>1, <2>2, OldRootKept
  <2>4. QED
    BY <1>1, <2>1, <2>2, <2>3
<1>11. CASE RemoveOld(c) \/ Crash
  BY <1>2, <1>11, AnswerLeaves DEF RemoveOld, Crash
<1>12. ASSUME NEW d \in Calls, d # c, (\E r \in Requests : Ask(d, r)) \/ ServerStep(d)
       PROVE  call'[c] = call[c]
  BY <1>12, TypeCallStep
<1>13. CASE FetchPage(c)
  BY <1>7, <1>8, <1>13, FetchLeaves
<1>14. CASE MoveRow(c)
  BY <1>9, <1>14, MoveRowOutcomes
<1>15. CASE ServerStep(c) \/ \E r \in Requests : Ask(c, r)
  BY <1>4, <1>5, <1>6, <1>10, <1>11, <1>13, <1>14, <1>15 DEF ServerStep
<1>16. QED
  BY <1>3, <1>11, <1>12, <1>15
  DEF Next, Register, Deregister, StartScan, ScanFile, EndScan, vars

\* A place that is scanned, or that a call is about to register, stays so; the
\* one that RemoveOld withdraws has no rows any more.
LEMMA PlacesStay ==
  ASSUME TypeOK, CountsFitPages, RelativePathsStay, PlaceFacts, [Next]_vars, "place" \notin harm',
         NEW root, Placed(root), \E id \in Ids : Root(scanned_files[id]) = root
  PROVE  Placed(root)'
<1>1. ASSUME root \in user_settings PROVE root \in user_settings'
  <2>1. CASE user_settings \subseteq user_settings'
    BY <1>1, <2>1
  <2>2. ASSUME NEW c \in Calls, RemoveOld(c) PROVE root \in user_settings'
    <3>1. /\ Active(c) /\ OldRoot(c) /\ call[c].pc = "remove"
      BY <2>2 DEF RemoveOld, Active, PlaceFacts
    <3>2. /\ call[c].updated > 0 /\ call[c].failed = 0 /\ call[c].page = {}
          /\ call[c].total <= call[c].offset
      BY <3>1 DEF OldRoot
    <3>3. call[c].offset > 0
      <4>1. /\ call[c].updated \in Nat /\ call[c].failed \in Nat /\ call[c].offset \in Nat
            /\ call[c].updated + call[c].failed + Cardinality(call[c].page) <= call[c].offset
        BY DEF TypeOK, CallStates, CountsFitPages
      <4>2. Cardinality(call[c].page) = 0
        BY <3>2, FS_EmptySet
      <4>3. QED
        BY <3>2, <4>1, <4>2
    <3>4. IdsUnder(call[c].old) = {}
      BY <3>1, <3>2, <3>3 DEF OldRoot
    <3>5. root # call[c].old
      BY <3>4 DEF IdsUnder
    <3>6. QED
      BY <1>1, <2>2, <3>5 DEF RemoveOld
  <2>3. QED
    BY <2>1, <2>2 DEF Next, ServerStep, Ask, Lookup, Fallback, Adopt, Count, Verify, FetchPage,
       MoveRow, MoveData, Finish, Register, Deregister, StartScan, ScanFile, EndScan, Crash, DB, vars
<1>2. ASSUME NEW c \in Calls, Active(c), call[c].new = root, call[c].updated > 0
      PROVE  Placed(root)'
  <2>1. CASE call'[c] = call[c]
    BY <1>2, <2>1 DEF Placed, Active
  <2>2. CASE call'[c] # Idle /\ Quiet(c)
    BY <1>2, <2>2 DEF Quiet, Placed, Active
  <2>3. CASE Fetched(c)
    BY <1>2, <2>3 DEF Fetched, Placed, Active
  <2>4. ASSUME NEW row \in call[c].page, RowMoved(c, row) \/ RowFailed(c, row) PROVE Placed(root)'
    <3>1. call[c].updated \in Nat
      BY DEF TypeOK, CallStates
    <3>2. /\ call'[c].new = root /\ call'[c].updated > 0 /\ call'[c].pc # "idle"
      BY <1>2, <2>4, <3>1, RowMovedLeaves, RowFailedLeaves DEF Handled
    <3>3. QED
      BY <3>2 DEF Placed, Active
  <2>5. CASE MoveData(c)
    BY <1>2, <2>5, MoveDataLeaves DEF Placed, Active
  <2>6. CASE Lookup(c) \/ Fallback(c) \/ Adopt(c) \/ Count(c) \/ Verify(c)
    BY <1>2, <2>6 DEF Lookup, Fallback, Adopt, Count, Verify, CountsFitPages
  <2>7. CASE Finish(c)
    BY <1>2, <2>7 DEF Finish, Placed
  <2>8. CASE RemoveOld(c)
    <3>1. call[c].new \in user_settings /\ call[c].new # call[c].old
      BY <1>2, <2>8 DEF RemoveOld, PlaceFacts, OldRoot, Active
    <3>2. QED
      BY <1>2, <2>8, <3>1 DEF RemoveOld, Placed
  <2>9. ASSUME NEW r \in Requests, Ask(c, r) PROVE FALSE
    BY <1>2, <2>9 DEF Ask
  <2>10. CASE Crash
    BY <1>2, <2>10 DEF Crash
  <2>11. CASE FetchPage(c)
    <3>1. Goto(c, "finish") /\ Quiet(c) => call'[c] # Idle
      BY GotoIsQuiet DEF FetchPage, Idle, Quiet, DB
    <3>2. QED
      BY <2>2, <2>3, <2>11, <3>1, FetchLeaves
  <2>12. CASE MoveRow(c)
    BY <2>4, <2>12, MoveRowOutcomes
  <2>13. ASSUME NEW d \in Calls, d # c, (\E r \in Requests : Ask(d, r)) \/ ServerStep(d)
         PROVE  call'[c] = call[c]
    BY <2>13, TypeCallStep
  <2>14. CASE ServerStep(c) \/ \E r \in Requests : Ask(c, r)
    BY <2>5, <2>6, <2>7, <2>8, <2>9, <2>11, <2>12, <2>14 DEF ServerStep
  <2>15. QED
    BY <2>1, <2>10, <2>13, <2>14
    DEF Next, Register, Deregister, StartScan, ScanFile, EndScan, vars
<1>3. QED
  BY <1>1, <1>2 DEF Placed

LEMMA PlaceStep ==
  ASSUME TypeOK, CountsFitPages, RelativePathsStay, PlaceInv, [Next]_vars
  PROVE  PlaceInv'
<1> SUFFICES ASSUME "place" \notin harm'
             PROVE  /\ CallsAgree'
                    /\ \A c \in Calls : Active(c)' => OldRoot(c)' /\ call'[c].old # call'[c].new
                    /\ \A id \in Ids' : Placed(Root(scanned_files[id]))'
  BY DEF PlaceInv
<1>1. PlaceFacts
  BY HarmStays DEF PlaceInv, PlaceFacts
<1>2. CallsAgree'
  BY <1>1, CallsGoOnAgreeing DEF PlaceFacts
<1>3. \A c \in Calls : Active(c)' => OldRoot(c)' /\ call'[c].old # call'[c].new
  BY <1>1, OldRootStep
<1>4. ASSUME NEW id \in Ids, scanned_files'[id] = scanned_files[id]
      PROVE  Placed(Root(scanned_files[id]))'
  <2>1. PICK root : root = Root(scanned_files[id])
    OBVIOUS
  <2>2. Placed(root)
    BY <1>1, <2>1 DEF PlaceFacts
  <2>3. Placed(root)'
    BY <1>1, <2>1, <2>2, PlacesStay
  <2>4. Root(scanned_files'[id]) = root
    BY <1>4, <2>1 DEF Root
  <2>5. QED
    BY <2>3, <2>4 DEF Placed, Root
<1>5. ASSUME NEW path \in Paths, ScanFile(path), NEW id \in Ids'
      PROVE  Placed(Root(scanned_files[id]))'
  <2>1. Root(path) \in user_settings'
    BY <1>5 DEF ScanFile
  <2>2. /\ scanned_files'[Len(scanned_files) + 1] = path
        /\ Ids' = 1 .. Len(scanned_files) + 1 /\ Ids = 1 .. Len(scanned_files)
        /\ \A i \in Ids : scanned_files'[i] = scanned_files[i]
        /\ Len(scanned_files) \in Nat
    BY <1>5, RowIsAdded, IdsAreFinite, LenProperties DEF Ids
  <2>3. id \in Ids \/ id = Len(scanned_files) + 1
    BY <2>2
  <2>4. CASE id \in Ids
    BY <1>4, <2>2, <2>4
  <2>5. CASE id = Len(scanned_files) + 1
    BY <2>1, <2>2, <2>5 DEF Placed
  <2>6. QED
    BY <2>3, <2>4, <2>5
<1>6. ASSUME NEW c \in Calls, NEW row \in call[c].page, RowMoved(c, row), NEW id \in Ids'
      PROVE  Placed(Root(scanned_files[id]))'
  <2>1. /\ Ids' = Ids /\ scanned_files'[row[1]] = Target(c, row)
        /\ \A i \in Ids : i # row[1] => scanned_files'[i] = scanned_files[i]
    BY <1>6, RowMoves
  <2>2. /\ call'[c].new = call[c].new /\ call'[c].pc = "data" /\ call'[c].updated > 0
    <3>1. call[c].updated \in Nat
      BY DEF TypeOK, CallStates
    <3>2. QED
      BY <1>6, <3>1, RowMovedLeaves DEF Handled
  <2>3. CASE id = row[1]
    BY <2>1, <2>2, <2>3 DEF Placed, Active, Target, Root
  <2>4. CASE id # row[1]
    BY <1>4, <1>6, <2>1, <2>4
  <2>5. QED
    BY <2>3, <2>4
<1>7. ASSUME scanned_files' = scanned_files, NEW id \in Ids' PROVE Placed(Root(scanned_files[id]))'
  BY <1>4, <1>7 DEF Ids
<1>8. \A id \in Ids' : Placed(Root(scanned_files[id]))'
  BY <1>5, <1>6, <1>7, WhoSteps, AskLeaves, MoveDataLeaves DEF Quiet, Fetched, RowFailed, Crash, DB
<1>9. QED
  BY <1>2, <1>3, <1>8

-----------------------------------------------------------------------------
LEMMA Invariance == Spec => []Inv
<1>1. Init => Inv
  BY TypeInit, RelativeInit DEF Inv
<1>2. Inv /\ [Next]_vars => Inv'
  BY TypeStep, RelativeStep, DataStep, PlaceStep DEF Inv
<1>3. QED
  BY <1>1, <1>2, PTL DEF Spec

\* The other tables follow the rows: whatever two or more calls, scans and
\* registrations do between the statements of changeMediaLocationPath, a row that
\* had data when the server started is named by them, but while a call moves it.
THEOREM DataFollowsTheRows == Spec => []DataFollowsTheFile
<1>1. Inv => DataFollowsTheFile
  <2> SUFFICES ASSUME Inv, "data" \notin harm, NEW table \in TableNames,
                      NEW id \in 1 .. Cardinality(data[table])
               PROVE  \/ scanned_files[id] \in data[table]
                      \/ \E c \in Calls : call[c].pc = "data" /\ call[c].to = scanned_files[id]
    BY DEF DataFollowsTheFile
  <2>1. Cardinality(data[table]) = Named
    BY DEF Inv, RelativePathsStay, TablesStay
  <2>2. NamedOrSoon(id, table)
    BY <2>1 DEF Inv, DataInv
  <2>3. QED
    BY <2>2 DEF NamedOrSoon
<1>2. QED
  BY <1>1, Invariance, PTL

\* The registrations follow the files: RemoveOld withdraws no root that rows are
\* still under, and what a call moved is under the root it registers.
THEOREM NoFileLosesItsPlace == Spec => []EveryFileHasALocation
<1>1. Inv => EveryFileHasALocation
  <2> SUFFICES ASSUME Inv, "place" \notin harm, NEW id \in Ids
               PROVE  \/ Root(scanned_files[id]) \in user_settings
                      \/ \E c \in Calls : Active(c) /\ call[c].new = Root(scanned_files[id])
    BY DEF EveryFileHasALocation, PathsInUse
  <2>1. Placed(Root(scanned_files[id]))
    BY DEF Inv, PlaceInv
  <2>2. QED
    BY <2>1 DEF Placed
<1>2. QED
  BY <1>1, Invariance, PTL

=============================================================================
