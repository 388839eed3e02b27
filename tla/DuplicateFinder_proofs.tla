------------------------ MODULE DuplicateFinder_proofs ------------------------
(* Theorems about DuplicateFinder, for any number of files, similarities,    *)
(* ranks, thresholds and sizes of a batch.                                   *)
EXTENDS DuplicateFinder, FiniteSetTheorems, SequenceTheorems, WellFoundedInduction, TLAPS

-----------------------------------------------------------------------------
(* The inductive invariant. What the statements of the script are still to   *)
(* do is counted as done: "later" means after the script.                    *)

Script == finder.script
Statements == DOMAIN Script

\* What a run knows are processed files, groups that were once made, and scores.
Ids == 1 .. lastGroup

FinderRecord == finder = [x \in DOMAIN IdleFinder |-> finder[x]]
IsScript(s) == s \in Seq({ s[i] : i \in DOMAIN s })
ScriptSeq == IsScript(Script)

FinderTypes ==
  /\ finder.last \in 0 .. N /\ finder.size \in Nat /\ finder.top \in 0 .. N
  /\ finder.pc \notin {"idle", "query"} => finder.last + finder.size <= N
  /\ finder.batch \subseteq processed /\ finder.ungrouped \subseteq processed
  /\ finder.leftover \subseteq processed
  /\ DOMAIN finder.reps \subseteq Ids
  /\ \A g \in DOMAIN finder.reps : finder.reps[g] \in processed
  /\ \A g \in DOMAIN finder.counts : finder.counts[g] \in Int
  /\ finder.todo \subseteq DOMAIN finder.counts \cap Ids
  /\ finder.pc = "members" => finder.group \in DOMAIN finder.counts \cap Ids
  /\ DOMAIN finder.low \subseteq processed
  /\ \A f \in DOMAIN finder.low : finder.low[f] \in Levels

TableTypes ==
  /\ \A g \in DOMAIN groups : groups[g].rep \in processed
  /\ \A row \in DOMAIN members : row[2] \in processed
  /\ lastGroup \in Nat

\* A statement carries what it is to write.
StatementType(s) ==
  /\ s.op \in {"insert", "unflag", "update", "reload", "delete", "add", "count", "countone"}
  /\ s.g \in Ids
  /\ s.op = "insert" => s.f \in processed /\ s.score \in Levels /\ s.flag \in BOOLEAN
  /\ s.op = "update" => s.rep \in processed /\ s.count \in Int
  /\ s.op = "add" => /\ s.f \in processed /\ s.score \in Levels /\ s.old \in Levels
                     /\ s.from \in Ids \cap DOMAIN finder.counts
  /\ s.op = "count" => s.count \in Int

\* Inserts come first, the second half of a move last; there is one update, and the
\* cache is loaded after it.
ScriptOrder ==
  /\ \A i, j \in Statements : i < j /\ Script[j].op = "insert" => Script[i].op = "insert"
  /\ \A i, j \in Statements : Script[i].op = "update" /\ Script[j].op = "update" => i = j
  /\ \A i, j \in Statements : Script[i].op = "add" => j <= i
  /\ Script # <<>> => finder.pc \in {"files", "members"}
  /\ \A i \in Statements :
       /\ finder.pc = "files" /\ Script[i].op = "update" =>
            \E j \in Statements : i < j /\ Script[j].op = "reload" /\ Script[j].g = Script[i].g
       /\ Script[i].op \in {"delete", "add"} => finder.pc = "members"
       /\ finder.pc = "members" =>
            /\ Script[i].op = "delete" => Script[i].g = finder.group
            /\ Script[i].op = "add" => Script[i].g # finder.group /\ Script[i].f \in moved
            /\ Script[i].op = "insert" /\ Script[i].flag => Script[i].g # finder.group
            /\ Script[i].op = "insert" => Script[i].f \in moved

Flagged(g, f)   == <<g, f>> \in DOMAIN members /\ members[<<g, f>>].flag
WillInsert(g, f) == \E i \in Statements : Script[i].op = "insert" /\ Script[i].g = g /\ Script[i].f = f
WillFlag(g, f)  == \E i \in Statements :
  Script[i].op = "insert" /\ Script[i].g = g /\ Script[i].f = f /\ Script[i].flag
WillUnflag(g, f) == \E i \in Statements : Script[i].op = "unflag" /\ Script[i].g = g /\ Script[i].f = f
WillUpdate(g)   == \E i \in Statements : Script[i].op = "update" /\ Script[i].g = g
WillUpdateTo(g, f) == \E i \in Statements : Script[i].op = "update" /\ Script[i].g = g /\ Script[i].rep = f
WillReload(g)   == \E i \in Statements : Script[i].op = "reload" /\ Script[i].g = g

FlaggedLater(g, f) == (Flagged(g, f) \/ WillFlag(g, f)) /\ ~ WillUnflag(g, f)
RepLater(g, f) ==
  \/ WillUpdateTo(g, f)
  \/ ~ WillUpdate(g) /\ groups[g].rep = f
MemberLater(g, f) == <<g, f>> \in DOMAIN members \/ WillInsert(g, f)

\* The flags of a group will name its representative, and nobody else.
FlagsLater ==
  \A g \in DOMAIN groups : \A f \in Files :
    /\ FlaggedLater(g, f) => RepLater(g, f)
    /\ g \notin unmarked /\ RepLater(g, f) => FlaggedLater(g, f)

\* What a run looks at to move it is no representative.
LowIsUnflagged ==
  /\ finder.pc = "members" => \A f \in DOMAIN finder.low : ~ Flagged(finder.group, f)
  /\ \A i \in Statements : Script[i].op = "delete" => ~ Flagged(Script[i].g, Script[i].f)

CacheAgrees ==
  finder.pc \in {"ungrouped", "files"} =>
    \A g \in DOMAIN groups : \/ WillReload(g)
                             \/ g \in DOMAIN finder.reps /\ finder.reps[g] = groups[g].rep

SimilarLater ==
  \A g \in DOMAIN groups : \A f, h \in Files \ moved :
    MemberLater(g, f) /\ MemberLater(g, h) => Similar(f, h)

\* A reset that does not race with a run ends with no groups.
QuietReset ==
  ~ raced => /\ reset # "none" => finder.pc = "idle"
             /\ reset = "checkpoint" => groups = <<>>

Content == FlagsLater /\ LowIsUnflagged /\ CacheAgrees /\ SimilarLater

ContentInv == ~ raced /\ reset = "none" => Content

ScriptTypes == \A i \in Statements : StatementType(Script[i])

Shapes == /\ TypeOK /\ FinderRecord /\ FinderTypes /\ TableTypes
          /\ ScriptSeq /\ ScriptTypes /\ ScriptOrder

Inv == Shapes /\ QuietReset /\ ContentInv

-----------------------------------------------------------------------------
(* Similarity, and lists of files.                                          *)

LEMMA ConstantFacts ==
  /\ N \in Nat /\ Files = 1 .. N /\ IsFiniteSet(Files)
  /\ Levels \subseteq Nat /\ Identity \in Levels
  /\ \A level \in Levels : level <= Identity
  /\ DefaultMin \in Levels /\ DefaultMax \in Levels
<1>1. N \in Nat /\ Levels \subseteq Nat /\ DefaultMin \in Levels /\ DefaultMax \in Levels
  BY FinderAssumption
<1>2. PICK top \in Levels : \A level \in Levels : level <= top
  BY FinderAssumption
<1>3. top \in Levels /\ \A level \in Levels : top >= level
  BY <1>1, <1>2
<1>4. Identity \in Levels /\ \A level \in Levels : Identity >= level
  BY <1>3 DEF Identity, Max
<1>5. IsFiniteSet(Files)
  BY <1>1, FS_Interval DEF Files
<1>6. QED
  BY <1>1, <1>4, <1>5 DEF Files

LEMMA PairOfFiles ==
  ASSUME NEW f \in Files, NEW h \in Files, f # h
  PROVE  {f, h} \in Pairs
<1>1. IsFiniteSet({h}) /\ Cardinality({h}) = 1
  BY FS_Singleton
<1>2. f \notin {h} /\ {h} \cup {f} = {f, h}
  OBVIOUS
<1>3. Cardinality({h} \cup {f}) = Cardinality({h}) + 1
  BY <1>1, <1>2, FS_AddElement
<1>4. QED
  BY <1>1, <1>2, <1>3 DEF Pairs

LEMMA SimIsLevel ==
  ASSUME TypeOK, NEW f \in Files, NEW h \in Files
  PROVE  Sim(f, h) \in Levels /\ Sim(f, h) = Sim(h, f)
<1>1. CASE f = h
  BY <1>1, ConstantFacts DEF Sim
<1>2. CASE f # h
  BY <1>2, PairOfFiles DEF Sim, TypeOK
<1>3. QED
  BY <1>1, <1>2

\* A file resembles itself, and resemblance goes both ways.
LEMMA SimilarFacts ==
  ASSUME TypeOK, NEW f \in Files, NEW h \in Files
  PROVE  /\ Similar(f, f)
         /\ Similar(f, h) <=> Similar(h, f)
<1>1. ThresholdMin \in Levels
  BY DEF TypeOK, ThresholdMin
<1>2. QED
  BY <1>1, ConstantFacts, SimIsLevel DEF Similar, Sim

LEMMA SmallerSet ==
  ASSUME NEW S, IsFiniteSet(S), NEW T \in SUBSET S, T # S
  PROVE  IsFiniteSet(T) /\ Cardinality(T) \in Nat /\ Cardinality(S) \in Nat
         /\ Cardinality(T) < Cardinality(S)
<1>1. IsFiniteSet(T) /\ Cardinality(T) <= Cardinality(S)
      /\ (Cardinality(T) = Cardinality(S) => T = S)
  BY FS_Subset
<1>2. Cardinality(T) \in Nat /\ Cardinality(S) \in Nat
  BY <1>1, FS_CardinalityType
<1>3. QED
  BY <1>1, <1>2

\* The list of a set of files is a sequence of files of the set.
LEMMA AscendingIsAList ==
  ASSUME NEW S \in SUBSET Files
  PROVE  /\ Ascending(S) \in Seq(S) /\ Len(Ascending(S)) = Cardinality(S)
         /\ Cardinality(S) \in Nat /\ (S # {} => Cardinality(S) # 0)
<1> DEFINE n == Cardinality(S)
           rank == [f \in S |-> Cardinality(Earlier(f, S))]
           below == 0 .. n - 1
<1>1. IsFiniteSet(S) /\ n \in Nat /\ (S # {} => n # 0)
  BY ConstantFacts, FS_Subset, FS_CardinalityType, FS_EmptySet
<1>2. ASSUME NEW f \in S
      PROVE  rank[f] \in below
  <2>1. Earlier(f, S) \subseteq S /\ f \notin Earlier(f, S)
    BY ConstantFacts DEF Earlier
  <2>2. Earlier(f, S) # S
    BY <2>1
  <2>3. Cardinality(Earlier(f, S)) \in Nat /\ Cardinality(Earlier(f, S)) < n
    BY <2>1, <2>2, <1>1, SmallerSet
  <2>4. QED
    BY <2>3, <1>1
<1>3. ASSUME NEW f \in S, NEW h \in S, h < f
      PROVE  rank[h] < rank[f]
  <2>1. Earlier(h, S) \subseteq Earlier(f, S)
    <3> SUFFICES ASSUME NEW x \in Earlier(h, S)
                 PROVE  x \in Earlier(f, S)
      OBVIOUS
    <3>1. x \in S /\ x < h
      BY DEF Earlier
    <3>2. f \in Int /\ h \in Int /\ x \in Int
      BY <3>1, ConstantFacts
    <3>3. x < f
      BY <3>1, <3>2, <1>3
    <3>4. QED
      BY <3>1, <3>3 DEF Earlier
  <2>2. h \in Earlier(f, S) /\ h \notin Earlier(h, S)
    BY <1>3, ConstantFacts DEF Earlier
  <2>3. IsFiniteSet(Earlier(f, S))
    BY <1>1, FS_Subset DEF Earlier
  <2>4. Cardinality(Earlier(h, S)) < Cardinality(Earlier(f, S))
    BY <2>1, <2>2, <2>3, SmallerSet
  <2>5. QED
    BY <2>4
<1>4. rank \in Injection(S, below)
  <2>1. rank \in [S -> below]
    BY <1>2
  <2>2. ASSUME NEW f \in S, NEW h \in S, rank[f] = rank[h]
        PROVE  f = h
    <3>1. f \in Nat /\ h \in Nat /\ rank[f] \in Nat
      BY ConstantFacts, <1>2, <1>1
    <3>2. ~ (f < h) /\ ~ (h < f)
      BY <1>3, <2>2, <3>1
    <3>3. QED
      BY <3>1, <3>2
  <2>3. QED
    BY <2>1, <2>2 DEF Injection, IsInjective
<1>5. IsFiniteSet(below) /\ Cardinality(below) = n
  BY <1>1, FS_Interval
<1>6. ASSUME NEW k \in below
      PROVE  \E f \in S : rank[f] = k
  <2> HIDE DEF rank, below
  <2>1. rank \in Surjection(S, below)
    BY <1>4, <1>5, <1>1, FS_Injection
  <2>2. QED
    BY <2>1 DEF Surjection
<1>7. ASSUME NEW i \in 1 .. n
      PROVE  Ascending(S)[i] \in S
  <2>1. i - 1 \in below
    BY <1>1
  <2>2. PICK f \in S : rank[f] = i - 1
    BY <1>6, <2>1
  <2>3. \E h \in S : Cardinality(Earlier(h, S)) = i - 1
    BY <2>2
  <2>4. QED
    BY <2>3 DEF Ascending
<1>8. Ascending(S) = [i \in 1 .. n |-> Ascending(S)[i]]
  BY DEF Ascending
<1>9. Ascending(S) \in [1 .. n -> S]
  BY <1>7, <1>8
<1>10. Ascending(S) \in Seq(S) /\ Len(Ascending(S)) = n
  BY <1>1, <1>9, SeqDef, LenProperties
<1>11. QED
  BY <1>1, <1>10

\* Of finitely many ranks one is the highest, and one is the first to be so.
LEMMA HighestRank ==
  ASSUME NEW n \in Nat \ {0}, NEW f \in [1 .. n -> Nat]
  PROVE  \E i \in 1 .. n : \A j \in 1 .. n : f[j] <= f[i]
<1> DEFINE Highest(m, i) == \A j \in 1 .. m : f[j] <= f[i]
           Bad == { m \in 1 .. n : \A i \in 1 .. m : ~ Highest(m, i) }
<1>1. CASE Bad = {}
  <2>1. n \in 1 .. n
    OBVIOUS
  <2>2. n \notin Bad
    <3> HIDE DEF Bad
    <3>1. QED
      BY <1>1
  <2>3. QED
    BY <2>1, <2>2
<1>2. CASE Bad # {}
  <2>1. Bad \subseteq Nat
    OBVIOUS
  <2>2. PICK m \in Bad : \A k \in Bad : ~ (<<k, m>> \in OpToRel(<, Nat))
    BY <1>2, <2>1, WFMin, NatLessThanWellFounded
  <2>3. m \in 1 .. n /\ \A k \in Bad : ~ (k < m)
    BY <2>1, <2>2 DEF OpToRel
  <2>4. m # 1
    <3>1. CASE m = 1
      <4>1. 1 \in 1 .. m /\ Highest(m, 1)
        BY <3>1
      <4>2. QED
        BY <4>1
    <3>2. QED
      BY <3>1
  <2>5. m - 1 \in 1 .. n /\ m - 1 < m
    BY <2>3, <2>4
  <2>6. m - 1 \notin Bad
    BY <2>3, <2>5
  <2>7. PICK i \in 1 .. m - 1 : Highest(m - 1, i)
    BY <2>5, <2>6
  <2>8. f[i] \in Nat /\ f[m] \in Nat /\ i \in 1 .. m /\ m \in 1 .. m
    BY <2>3, <2>5, <2>7
  <2>9. \A j \in 1 .. m : (j = m \/ j \in 1 .. m - 1) /\ f[j] \in Nat
    BY <2>3
  <2>10. CASE f[m] <= f[i]
    <3>1. Highest(m, i)
      BY <2>7, <2>9, <2>10
    <3>2. QED
      BY <3>1, <2>8
  <2>11. CASE f[i] <= f[m]
    <3>1. Highest(m, m)
      BY <2>7, <2>8, <2>9, <2>11
    <3>2. QED
      BY <3>1, <2>8
  <2>12. QED
    BY <2>8, <2>10, <2>11
<1>3. QED
  BY <1>1, <1>2

LEMMA RepresentativeIsListed ==
  ASSUME NEW files \in Seq(Files), Len(files) # 0
  PROVE  \E i \in DOMAIN files : selectRepresentative(files) = files[i]
<1> DEFINE n == Len(files)
           ranks == [i \in 1 .. n |-> Rank[files[i]]]
           Best == { i \in DOMAIN files : \A j \in DOMAIN files :
                                            ~ isBetterRepresentative(files[j], files[i]) }
<1>1. n \in Nat \ {0} /\ DOMAIN files = 1 .. n /\ \A i \in 1 .. n : files[i] \in Files
  BY LenProperties, ElementOfSeq
<1>2. ranks \in [1 .. n -> Nat]
  BY <1>1, FinderAssumption
<1>3. PICK i \in 1 .. n : \A j \in 1 .. n : ranks[j] <= ranks[i]
  <2> HIDE DEF ranks, n
  <2>1. QED
    BY <1>1, <1>2, HighestRank
<1>4. i \in Best
  BY <1>1, <1>2, <1>3 DEF isBetterRepresentative
<1>5. Best \subseteq Nat
  BY <1>1
<1>6. PICK first \in Best : \A k \in Best : ~ (<<k, first>> \in OpToRel(<, Nat))
  <2> HIDE DEF Best
  <2>1. QED
    BY <1>4, <1>5, WFMin, NatLessThanWellFounded
<1>7. first \in Best /\ \A k \in Best : first <= k
  <2> HIDE DEF Best
  <2>1. \A k \in Best : k \in Nat /\ first \in Nat /\ ~ (k < first)
    BY <1>5, <1>6 DEF OpToRel
  <2>2. QED
    BY <2>1
<1>8. Min(Best) \in Best
  <2> HIDE DEF Best
  <2>1. QED
    BY <1>7 DEF Min
<1>9. selectRepresentative(files) = files[Min(Best)]
  BY DEF selectRepresentative
<1>10. QED
  BY <1>8, <1>9

Joined(s, first, rest) == s = first \o rest

\* Files that are gathered resemble each other.
LEMMA GatheredAreSimilar ==
  ASSUME TypeOK, NEW start \in Seq(Files), NEW list \in SUBSET Files,
         NEW joined \in Gather(start, list),
         \A f, h \in ToSet(start) : Similar(f, h)
  PROVE  /\ joined \in SUBSET Files /\ joined \subseteq list
         /\ \A f, h \in ToSet(start) \cup joined : Similar(f, h)
<1>1. joined \subseteq list \ ToSet(start) /\ joined \in SUBSET Files
  BY DEF Gather
<1>2. \A f \in ToSet(start) : f \in Files
  BY ElementOfSeq, LenProperties DEF ToSet
<1>3. ASSUME NEW f \in joined, NEW h \in ToSet(start) \cup Earlier(f, joined)
      PROVE  Similar(f, h)
  BY <1>1 DEF Gather
<1>4. ASSUME NEW f \in joined, NEW h \in joined
      PROVE  Similar(f, h)
  <2>1. f \in Int /\ h \in Int /\ f \in Files /\ h \in Files
    BY <1>1, ConstantFacts
  <2>2. CASE f = h
    BY <2>1, <2>2, SimilarFacts
  <2>3. CASE h < f
    <3>1. h \in Earlier(f, joined)
      BY <2>3 DEF Earlier
    <3>2. QED
      BY <3>1, <1>3
  <2>4. CASE f < h
    <3>1. f \in Earlier(h, joined)
      BY <2>4 DEF Earlier
    <3>2. QED
      BY <3>1, <1>3, <2>1, SimilarFacts
  <2>5. QED
    BY <2>1, <2>2, <2>3, <2>4
<1>5. ASSUME NEW f \in joined, NEW h \in ToSet(start)
      PROVE  Similar(f, h) /\ Similar(h, f)
  <2>1. f \in Files /\ h \in Files /\ Similar(f, h)
    BY <1>1, <1>2, <1>3
  <2>2. QED
    BY <2>1, SimilarFacts
<1>6. QED
  BY <1>1, <1>4, <1>5

\* The list of a new group: files of P that resemble each other, one of which
\* represents them.
LEMMA NewGroupList ==
  ASSUME TypeOK, NEW P \in SUBSET Files, NEW start \in Seq(P), start # <<>>, NEW list \in SUBSET P,
         NEW joined \in Gather(start, list),
         \A f, h \in ToSet(start) : Similar(f, h),
         NEW files, Joined(files, start, Ascending(joined))
  PROVE  /\ files \in Seq(P) /\ Len(files) \in Nat \ {0} /\ Len(files) = Len(start) + Cardinality(joined)
         /\ \A i, j \in 1 .. Len(files) : Similar(files[i], files[j])
         /\ \E i \in 1 .. Len(files) : selectRepresentative(files) = files[i]
<1>1. start \in Seq(Files) /\ list \in SUBSET Files
  BY SeqMonotonic
<1>2. /\ joined \in SUBSET Files /\ joined \subseteq P
      /\ \A f, h \in ToSet(start) \cup joined : Similar(f, h)
  BY <1>1, GatheredAreSimilar
<1>3. Ascending(joined) \in Seq(joined) /\ Len(Ascending(joined)) = Cardinality(joined)
  BY <1>2, AscendingIsAList
<1>4. Ascending(joined) \in Seq(P)
  BY <1>2, <1>3, SeqMonotonic
<1>5. Len(start) \in Nat \ {0}
  BY LenProperties, EmptySeq
<1>6. /\ files \in Seq(P) /\ Len(files) = Len(start) + Len(Ascending(joined))
      /\ \A i \in 1 .. Len(start) : files[i] = start[i]
      /\ \A i \in Len(start) + 1 .. Len(start) + Len(Ascending(joined)) :
           files[i] = Ascending(joined)[i - Len(start)]
  BY <1>4, ConcatProperties DEF Joined
<1>7. Len(Ascending(joined)) \in Nat
  BY <1>3, LenProperties
<1>8. ASSUME NEW i \in 1 .. Len(files)
      PROVE  files[i] \in ToSet(start) \cup joined
  <2>1. CASE i \in 1 .. Len(start)
    BY <2>1, <1>6, LenProperties DEF ToSet
  <2>2. CASE i \in Len(start) + 1 .. Len(start) + Len(Ascending(joined))
    <3>1. i - Len(start) \in 1 .. Len(Ascending(joined))
      BY <2>2, <1>5, <1>7
    <3>2. Ascending(joined)[i - Len(start)] \in joined
      BY <3>1, <1>3, ElementOfSeq
    <3>3. QED
      BY <2>2, <3>2, <1>6
  <2>3. QED
    BY <2>1, <2>2, <1>5, <1>6, <1>7
<1>9. files \in Seq(Files) /\ Len(files) \in Nat \ {0}
  BY <1>5, <1>6, <1>7, SeqMonotonic
<1>10. \E i \in 1 .. Len(files) : selectRepresentative(files) = files[i]
  BY <1>9, RepresentativeIsListed, LenProperties
<1>11. QED
  BY <1>2, <1>3, <1>6, <1>8, <1>9, <1>10

-----------------------------------------------------------------------------
(* Scripts.                                                                 *)

LEMMA SeqOfItself ==
  ASSUME NEW S, NEW s \in Seq(S)
  PROVE  IsScript(s) /\ DOMAIN s = 1 .. Len(s) /\ Len(s) \in Nat
<1>1. s \in [1 .. Len(s) -> S] /\ Len(s) \in Nat
  BY LenProperties
<1>2. s \in [1 .. Len(s) -> { s[i] : i \in DOMAIN s }]
  BY <1>1
<1>3. QED
  BY <1>1, <1>2, SeqDef DEF IsScript

\* The statements that addMembers leaves to be executed.
LEMMA AddMembersScript ==
  ASSUME NEW g, NEW files \in Seq(Files), Len(files) # 0, NEW script, script = addMembers(g, files),
         NEW rep, rep = selectRepresentative(files), NEW n, n = Len(files)
  PROVE  /\ IsScript(script) /\ n \in Nat
         /\ DOMAIN script = 1 .. n + 2
         /\ \A i \in 1 .. n : script[i] = Insert(g, files[i], Sim(files[i], rep), files[i] = rep)
         /\ script[n + 1] = Update(g, rep, n)
         /\ script[n + 2] = Reload(g)
<1> DEFINE inserts == [i \in DOMAIN files |-> Insert(g, files[i], Sim(files[i], rep), files[i] = rep)]
           rest == <<Update(g, rep, n), Reload(g)>>
           S == { inserts[i] : i \in 1 .. n } \cup { Update(g, rep, n), Reload(g) }
<1>1. script = inserts \o rest
  BY DEF addMembers
<1>2. n \in Nat /\ DOMAIN files = 1 .. n
  BY LenProperties
<1>3. inserts \in [1 .. n -> S]
  <2>1. inserts = [i \in 1 .. n |-> inserts[i]]
    BY <1>2
  <2>2. \A i \in 1 .. n : inserts[i] \in S
    OBVIOUS
  <2> HIDE DEF inserts, S
  <2>3. QED
    BY <2>1, <2>2
<1>4. inserts \in Seq(S) /\ Len(inserts) = n
  <2> HIDE DEF inserts, S
  <2>1. QED
    BY <1>2, <1>3, SeqDef, LenProperties
<1>5. rest \in Seq(S) /\ Len(rest) = 2 /\ rest[1] = Update(g, rep, n) /\ rest[2] = Reload(g)
  OBVIOUS
<1>6. /\ script \in Seq(S) /\ Len(script) = n + 2
      /\ \A i \in 1 .. n : script[i] = inserts[i]
      /\ \A i \in n + 1 .. n + 2 : script[i] = rest[i - n]
  <2> HIDE DEF inserts, S, rest
  <2>1. /\ script \in Seq(S) /\ Len(script) = n + 2
        /\ \A i \in 1 .. n + 2 : script[i] = IF i <= n THEN inserts[i] ELSE rest[i - n]
    <3>1. /\ inserts \o rest \in Seq(S) /\ Len(inserts \o rest) = Len(inserts) + Len(rest)
          /\ \A i \in 1 .. Len(inserts) + Len(rest) :
               (inserts \o rest)[i] = IF i <= Len(inserts) THEN inserts[i] ELSE rest[i - Len(inserts)]
      BY <1>4, <1>5, ConcatProperties
    <3>2. QED
      BY <3>1, <1>1, <1>4, <1>5
  <2>2. QED
    BY <2>1, <1>2
<1>7. script[n + 1] = rest[1] /\ script[n + 2] = rest[2]
  <2> HIDE DEF rest
  <2>1. n + 1 \in n + 1 .. n + 2 /\ n + 2 \in n + 1 .. n + 2 /\ n + 1 - n = 1 /\ n + 2 - n = 2
    BY <1>2
  <2>2. QED
    BY <2>1, <1>6
<1>8. \A i \in 1 .. n : inserts[i] = Insert(g, files[i], Sim(files[i], rep), files[i] = rep)
  BY <1>2
<1>9. IsScript(script) /\ DOMAIN script = 1 .. n + 2
  <2> HIDE DEF S
  <2>1. QED
    BY <1>6, SeqOfItself
<1> HIDE DEF inserts, rest, S
<1>10. QED
  BY <1>2, <1>5, <1>6, <1>7, <1>8, <1>9

\* The rest of a script.
LEMMA TailOfScript ==
  ASSUME ScriptSeq, Script # <<>>, NEW rest, rest = Tail(Script)
  PROVE  /\ IsScript(rest)
         /\ Len(Script) \in Nat \ {0} /\ Statements = 1 .. Len(Script)
         /\ DOMAIN rest = 1 .. Len(Script) - 1
         /\ \A i \in DOMAIN rest : i + 1 \in Statements /\ rest[i] = Script[i + 1]
         /\ \A i \in Statements : i # 1 => i - 1 \in DOMAIN rest /\ rest[i - 1] = Script[i]
         /\ 1 \in Statements /\ Head(Script) = Script[1]
<1> DEFINE S == { Script[i] : i \in Statements }
<1>1. Script \in Seq(S)
  BY DEF ScriptSeq, IsScript, Statements
<1> HIDE DEF S
<1>2. /\ Len(Script) \in Nat \ {0} /\ Statements = 1 .. Len(Script)
  BY <1>1, EmptySeq, LenProperties DEF Statements
<1>3. /\ rest \in Seq(S) /\ Len(rest) = Len(Script) - 1
      /\ \A i \in 1 .. Len(rest) : rest[i] = Script[i + 1]
  <2>1. /\ Tail(Script) \in Seq(S) /\ Len(Tail(Script)) = Len(Script) - 1
        /\ \A i \in 1 .. Len(Tail(Script)) : Tail(Script)[i] = Script[i + 1]
    BY <1>1, HeadTailProperties
  <2>2. QED
    BY <2>1
<1>4. IsScript(rest) /\ DOMAIN rest = 1 .. Len(rest)
  <2>1. PICK r, T : r = rest /\ T = S
    OBVIOUS
  <2>2. r \in Seq(T)
    BY <1>3, <2>1
  <2>3. IsScript(r) /\ DOMAIN r = 1 .. Len(r)
    BY <2>2, SeqOfItself
  <2>4. QED
    BY <2>1, <2>3
<1>5. Head(Script) = Script[1]
  BY <1>1
<1>6. ASSUME NEW i \in Statements, i # 1
      PROVE  i - 1 \in DOMAIN rest /\ rest[i - 1] = Script[i]
  <2>1. i - 1 \in 1 .. Len(rest) /\ (i - 1) + 1 = i
    BY <1>2, <1>3, <1>6
  <2>2. QED
    BY <2>1, <1>3, <1>4
<1>7. QED
  BY <1>2, <1>3, <1>4, <1>5, <1>6


\* Without statements left, later is now.
LEMMA NothingLeft ==
  ASSUME Script = <<>>
  PROVE  /\ Statements = {}
         /\ \A g, f : /\ FlaggedLater(g, f) <=> Flagged(g, f)
                      /\ RepLater(g, f) <=> groups[g].rep = f
                      /\ MemberLater(g, f) <=> <<g, f>> \in DOMAIN members
                      /\ ~ WillReload(g)
<1>1. Statements = {}
  BY DEF Statements
<1>2. QED
  BY <1>1 DEF FlaggedLater, RepLater, WillUpdateTo, MemberLater, WillReload, WillFlag, WillInsert, WillUpdate, WillUnflag

-----------------------------------------------------------------------------
(* Types: steps of a run that leave the tables and the script alone.        *)

Pcs == {"idle", "query", "reps", "ungrouped", "files", "cross", "group", "members"}

\* A run that has nothing left to write, over the tables as they are.
LEMMA QuietShapes ==
  ASSUME Shapes, FinderRecord', FinderTypes', finder'.pc \in Pcs, Script' = <<>>,
         checkpoint' \in 0 .. N, moved' \subseteq processed',
         UNCHANGED <<threshold, similarity, processed, groups, members, lastGroup, reset, late, unmarked>>
  PROVE  Shapes'
<1>1. Statements' = {}
  BY DEF Statements
<1>2. ScriptSeq' /\ ScriptTypes' /\ ScriptOrder'
  BY <1>1 DEF ScriptSeq, IsScript, ScriptTypes, ScriptOrder, Statements
<1>3. TypeOK' /\ TableTypes'
  BY DEF Shapes, TypeOK, TableTypes, Pcs, Ids, FinderTypes
<1>4. QED
  BY <1>2, <1>3 DEF Shapes

\* Fields of the run that a step leaves alone.
SameBatch == finder'.last = finder.last /\ finder'.size = finder.size /\ finder'.top = finder.top
SameLists == /\ finder'.batch = finder.batch /\ finder'.ungrouped = finder.ungrouped
             /\ finder'.leftover = finder.leftover
SameCross == /\ finder'.counts = finder.counts /\ finder'.todo = finder.todo
             /\ finder'.group = finder.group /\ finder'.low = finder.low

LEMMA StartShapes ==
  ASSUME Shapes, Start
  PROVE  Shapes'
<1>1. FinderRecord'
  BY DEF Shapes, FinderRecord, Start, IdleFinder
<1>2. /\ SameLists
      /\ SameCross
      /\ finder'.last = checkpoint /\ finder'.size = finder.size /\ finder'.top = finder.top
      /\ finder'.pc = "query" /\ Script' = <<>> /\ finder'.reps = finder.reps
  BY DEF Shapes, FinderRecord, Start, At, IdleFinder, Script, SameBatch, SameLists, SameCross
<1>3. FinderTypes'
  <2>1. FinderTypes /\ checkpoint \in 0 .. N /\ UNCHANGED <<processed, lastGroup>>
    BY DEF Shapes, TypeOK, Start, tables
  <2>2. QED
    BY <1>2, <2>1 DEF FinderTypes, Ids, SameBatch, SameLists, SameCross
<1>4. QED
  BY <1>1, <1>2, <1>3, QuietShapes DEF Shapes, TypeOK, Start, Pcs, tables, history, FinderTypes

LEMMA LoadRepresentativesShapes ==
  ASSUME Shapes, LoadRepresentatives
  PROVE  Shapes'
<1>1. FinderRecord'
  BY DEF Shapes, FinderRecord, LoadRepresentatives, IdleFinder
<1>2. /\ SameBatch
      /\ SameLists
      /\ SameCross
      /\ finder'.pc = "ungrouped" /\ Script' = <<>> /\ finder.pc = "reps"
      /\ finder'.reps = [g \in DOMAIN groups |-> groups[g].rep]
  BY DEF Shapes, FinderRecord, LoadRepresentatives, At, IdleFinder, Script, SameBatch, SameLists, SameCross
<1>3. FinderTypes'
  <2>1. /\ FinderTypes /\ UNCHANGED <<processed, lastGroup>>
        /\ DOMAIN groups \subseteq Ids /\ \A g \in DOMAIN groups : groups[g].rep \in processed
    BY DEF Shapes, TypeOK, TableTypes, LoadRepresentatives, tables, Ids
  <2>2. QED
    BY <1>2, <2>1 DEF FinderTypes, Ids, SameBatch, SameLists, SameCross
<1>4. QED
  BY <1>1, <1>2, <1>3, QuietShapes DEF Shapes, TypeOK, LoadRepresentatives, Pcs, tables, history, FinderTypes

LEMMA LoadUngroupedShapes ==
  ASSUME Shapes, LoadUngrouped
  PROVE  Shapes'
<1>1. FinderRecord'
  BY DEF Shapes, FinderRecord, LoadUngrouped, IdleFinder
<1>2. /\ SameBatch
      /\ SameCross
      /\ finder'.pc = "files" /\ Script' = <<>> /\ finder.pc = "ungrouped"
      /\ finder'.batch = finder.batch /\ finder'.leftover = finder.leftover /\ finder'.reps = finder.reps
      /\ finder'.ungrouped \subseteq processed
  BY DEF Shapes, FinderRecord, LoadUngrouped, At, IdleFinder, Script, SameBatch, SameLists, SameCross
<1>3. FinderTypes'
  <2>1. FinderTypes /\ UNCHANGED <<processed, lastGroup>>
    BY DEF Shapes, LoadUngrouped, tables
  <2>2. QED
    BY <1>2, <2>1 DEF FinderTypes, Ids, SameBatch, SameLists, SameCross
<1>4. QED
  BY <1>1, <1>2, <1>3, QuietShapes DEF Shapes, TypeOK, LoadUngrouped, Pcs, tables, history, FinderTypes

LEMMA upsertCheckpointShapes ==
  ASSUME Shapes, upsertCheckpoint
  PROVE  Shapes'
<1>1. FinderRecord'
  BY DEF Shapes, FinderRecord, upsertCheckpoint, IdleFinder
<1>2. /\ SameBatch
      /\ SameLists
      /\ SameCross
      /\ finder'.pc = "cross" /\ Script' = <<>> /\ finder.pc = "files" /\ finder'.reps = finder.reps
  BY DEF Shapes, FinderRecord, upsertCheckpoint, At, IdleFinder, Script, SameBatch, SameLists, SameCross
<1>3. FinderTypes'
  <2>1. FinderTypes /\ UNCHANGED <<processed, lastGroup>>
    BY DEF Shapes, upsertCheckpoint, tables
  <2>2. QED
    BY <1>2, <2>1 DEF FinderTypes, Ids, SameBatch, SameLists, SameCross
<1>4. QED
  BY <1>1, <1>2, <1>3, QuietShapes DEF Shapes, TypeOK, upsertCheckpoint, Pcs, tables, history, FinderTypes

LEMMA LoadGroupsShapes ==
  ASSUME Shapes, LoadGroups
  PROVE  Shapes'
<1>1. FinderRecord'
  BY DEF Shapes, FinderRecord, LoadGroups, IdleFinder
<1>2. /\ SameBatch
      /\ SameLists
      /\ finder'.pc = "group" /\ Script' = <<>> /\ finder.pc = "cross" /\ finder'.group = finder.group
      /\ finder'.low = finder.low /\ finder'.todo = DOMAIN groups
      /\ finder'.reps = [g \in DOMAIN groups |-> groups[g].rep]
      /\ finder'.counts = [g \in DOMAIN groups |-> groups[g].count]
  BY DEF Shapes, FinderRecord, LoadGroups, At, IdleFinder, Script, SameBatch, SameLists, SameCross
<1>3. FinderTypes'
  <2>1. /\ FinderTypes /\ UNCHANGED <<processed, lastGroup>>
        /\ DOMAIN groups \subseteq Ids
        /\ \A g \in DOMAIN groups : groups[g].rep \in processed /\ groups[g].count \in Int
    BY DEF Shapes, TypeOK, TableTypes, LoadGroups, tables, Ids
  <2>2. QED
    BY <1>2, <2>1 DEF FinderTypes, Ids, SameBatch, SameLists, SameCross
<1>4. QED
  BY <1>1, <1>2, <1>3, QuietShapes DEF Shapes, TypeOK, LoadGroups, Pcs, tables, history, FinderTypes

LEMMA LoadMembersShapes ==
  ASSUME Shapes, NEW g, LoadMembers(g)
  PROVE  Shapes'
<1>1. FinderRecord'
  BY DEF Shapes, FinderRecord, LoadMembers, IdleFinder
<1>2. /\ SameBatch
      /\ SameLists
      /\ finder'.pc = "members" /\ Script' = <<>> /\ finder.pc = "group" /\ finder'.group = g
      /\ g \in finder.todo /\ finder'.todo = finder.todo \ {g} /\ finder'.counts = finder.counts
      /\ finder'.reps = finder.reps
      /\ DOMAIN finder'.low \subseteq { f \in Files : <<g, f>> \in DOMAIN members }
      /\ \A f \in DOMAIN finder'.low : finder'.low[f] = members[<<g, f>>].score
  BY DEF Shapes, FinderRecord, LoadMembers, At, IdleFinder, Script, SameBatch, SameLists, SameCross, Members
<1>3. FinderTypes'
  <2>1. /\ FinderTypes /\ UNCHANGED <<processed, lastGroup>>
        /\ \A f : <<g, f>> \in DOMAIN members => f \in processed /\ members[<<g, f>>].score \in Levels
    BY DEF Shapes, TypeOK, TableTypes, LoadMembers, tables
  <2>2. QED
    BY <1>2, <2>1 DEF FinderTypes, Ids, SameBatch, SameLists, SameCross
<1>4. QED
  BY <1>1, <1>2, <1>3, QuietShapes DEF Shapes, TypeOK, LoadMembers, Pcs, tables, history, FinderTypes

LEMMA MembersDoneShapes ==
  ASSUME Shapes, MembersDone
  PROVE  Shapes'
<1>1. FinderRecord'
  BY DEF Shapes, FinderRecord, MembersDone, IdleFinder
<1>2. /\ SameBatch
      /\ SameLists
      /\ SameCross
      /\ finder'.pc = "group" /\ Script' = <<>> /\ finder.pc = "members" /\ finder'.reps = finder.reps
  BY DEF Shapes, FinderRecord, MembersDone, At, IdleFinder, Script, SameBatch, SameLists, SameCross
<1>3. FinderTypes'
  <2>1. FinderTypes /\ UNCHANGED <<processed, lastGroup>>
    BY DEF Shapes, MembersDone, tables
  <2>2. QED
    BY <1>2, <2>1 DEF FinderTypes, Ids, SameBatch, SameLists, SameCross
<1>4. QED
  BY <1>1, <1>2, <1>3, QuietShapes DEF Shapes, TypeOK, MembersDone, Pcs, tables, history, FinderTypes

LEMMA BatchDoneShapes ==
  ASSUME Shapes, BatchDone
  PROVE  Shapes'
<1>1. FinderRecord'
  BY DEF FinderRecord, BatchDone, IdleFinder
<1>2. /\ finder'.pc = "query" /\ Script' = <<>> /\ finder.pc = "group"
      /\ finder'.last = finder.last + finder.size /\ finder'.size = 0 /\ finder'.top = finder.top
      /\ finder'.batch = {} /\ finder'.ungrouped = {} /\ finder'.leftover = {}
      /\ finder'.reps = <<>> /\ finder'.counts = <<>> /\ finder'.low = <<>> /\ finder'.todo = {}
  BY DEF BatchDone, At, IdleFinder, Script, AfterBatch
<1>3. FinderTypes'
  <2>1. FinderTypes /\ UNCHANGED <<processed, lastGroup>>
    BY DEF Shapes, BatchDone, tables
  <2>2. finder.last + finder.size \in 0 .. N
    BY <1>2, <2>1, ConstantFacts DEF FinderTypes
  <2>3. QED
    BY <1>2, <2>1, <2>2 DEF FinderTypes
<1>4. QED
  BY <1>1, <1>2, <1>3, QuietShapes DEF Shapes, TypeOK, BatchDone, Pcs, tables, history

LEMMA IdleTypes ==
  ASSUME finder' = IdleFinder
  PROVE  FinderRecord' /\ FinderTypes' /\ Script' = <<>> /\ finder'.pc = "idle"
BY ConstantFacts DEF FinderRecord, FinderTypes, IdleFinder, Script

LEMMA QueryShapes ==
  ASSUME Shapes, Query
  PROVE  Shapes'
<1> DEFINE new == { f \in processed : f > finder.last }
           batch == { f \in new : Cardinality(Earlier(f, new)) < BatchSize }
<1>1. CASE new = {} /\ finder' = IdleFinder
  BY <1>1, IdleTypes, QuietShapes DEF Shapes, TypeOK, Query, Pcs, tables, history
<1>2. ASSUME NEW top \in batch,
             finder' = [finder EXCEPT !.pc = "reps", !.batch = batch, !.top = top,
                                      !.size = Cardinality(batch)]
      PROVE  Shapes'
  <2>1. FinderRecord'
    BY <1>2 DEF Shapes, FinderRecord, IdleFinder
  <2>2. /\ finder'.pc = "reps" /\ Script' = <<>> /\ finder'.last = finder.last
        /\ finder'.batch = batch /\ finder'.top = top /\ finder'.size = Cardinality(batch)
        /\ finder'.ungrouped = finder.ungrouped /\ finder'.leftover = finder.leftover
        /\ finder'.reps = finder.reps /\ SameCross
    BY <1>2 DEF Shapes, FinderRecord, Query, At, IdleFinder, Script, SameCross
  <2>3. /\ FinderTypes /\ UNCHANGED <<processed, lastGroup>>
        /\ processed \subseteq Files /\ finder.last \in 0 .. N
    BY DEF Shapes, TypeOK, Query, tables
  <2>4. PICK last, files : last = finder.last /\ files = batch
    OBVIOUS
  <2>5. last \in 0 .. N /\ N \in Nat
    BY <2>3, <2>4, ConstantFacts
  <2>6. files \subseteq last + 1 .. N /\ files \subseteq processed /\ top \in files
    <3>1. \A f \in files : f \in processed /\ f > last
      BY <2>4
    <3>2. \A f \in processed : f \in 1 .. N
      BY <2>3, ConstantFacts
    <3>3. QED
      BY <3>1, <3>2, <2>4, <2>5
  <2>7. top \in last + 1 .. N
    BY <2>6
  <2>8. IsFiniteSet(last + 1 .. N) /\ Cardinality(last + 1 .. N) = N - last
    <3>1. /\ IsFiniteSet(last + 1 .. N)
          /\ Cardinality(last + 1 .. N) = IF last + 1 > N THEN 0 ELSE N - (last + 1) + 1
      BY <2>5, FS_Interval
    <3>2. QED
      BY <3>1, <2>5, <2>7
  <2>9. IsFiniteSet(files) /\ Cardinality(files) <= N - last
    BY <2>6, <2>8, FS_Subset
  <2>10. Cardinality(batch) \in Nat /\ finder.last + Cardinality(batch) <= N /\ top \in 0 .. N
    <3>1. Cardinality(files) \in Nat
      BY <2>9, FS_CardinalityType
    <3>2. last + Cardinality(files) <= N /\ top \in 0 .. N
      BY <3>1, <2>5, <2>7, <2>9
    <3>3. QED
      BY <3>1, <3>2, <2>4
  <2>11. FinderTypes'
    <3>1. batch \subseteq processed
      BY <2>4, <2>6
    <3> HIDE DEF batch
    <3>2. QED
      BY <2>2, <2>3, <2>10, <3>1 DEF FinderTypes, SameCross, Ids
  <2>12. QED
    BY <2>1, <2>2, <2>11, QuietShapes DEF Shapes, TypeOK, Query, Pcs, tables, history
<1>3. QED
  BY <1>1, <1>2 DEF Query

\* A file of the batch that is put into no group.
LEMMA NextFileShapes ==
  ASSUME Shapes, finder.pc = "files", NEW f, NEW leftover \in SUBSET processed,
         NextFile(f, leftover, <<>>), UNCHANGED <<threshold, similarity, processed, tables, reset, disturbances, history>>
  PROVE  Shapes'
<1>1. FinderRecord'
  BY DEF Shapes, FinderRecord, NextFile, IdleFinder
<1>2. /\ SameBatch /\ SameCross /\ finder'.pc = "files" /\ Script' = <<>>
      /\ finder'.batch = finder.batch \ {f} /\ finder'.leftover = leftover
      /\ finder'.ungrouped = finder.ungrouped /\ finder'.reps = finder.reps
  BY DEF Shapes, FinderRecord, NextFile, IdleFinder, Script, SameBatch, SameCross
<1>3. FinderTypes'
  <2>1. FinderTypes
    BY DEF Shapes
  <2>2. QED
    BY <1>2, <2>1 DEF FinderTypes, Ids, SameBatch, SameCross, tables
<1>4. QED
  BY <1>1, <1>2, <1>3, QuietShapes DEF Shapes, TypeOK, Pcs, tables, history

-----------------------------------------------------------------------------
(* Types: steps that leave statements to be executed.                       *)

\* A decision that leaves the tables to its statements.
LEMMA DecisionShapes ==
  ASSUME Shapes, FinderRecord', FinderTypes', finder'.pc \in Pcs,
         ScriptSeq', ScriptTypes', ScriptOrder', moved' \subseteq processed',
         UNCHANGED <<threshold, similarity, processed, groups, members, lastGroup, checkpoint,
                     reset, late, unmarked>>
  PROVE  Shapes'
<1>1. TypeOK' /\ TableTypes'
  BY DEF Shapes, TypeOK, TableTypes, Pcs, Ids, FinderTypes
<1>2. QED
  BY <1>1 DEF Shapes

LEMMA LowShrinks ==
  ASSUME Shapes, NEW f \in DOMAIN finder.low, At("members"), NEW script, NEW low,
         low = [h \in DOMAIN finder.low \ {f} |-> finder.low[h]],
         \/ finder' = [finder EXCEPT !.low = low, !.script = script]
         \/ finder' = [finder EXCEPT !.low = low] /\ script = <<>>,
         UNCHANGED <<processed, lastGroup>>
  PROVE  /\ FinderRecord' /\ FinderTypes' /\ Script' = script /\ finder'.pc = "members"
         /\ finder.pc = "members" /\ finder'.group = finder.group /\ finder'.counts = finder.counts
         /\ finder'.low = low /\ finder'.reps = finder.reps
<1>1. FinderRecord'
  BY DEF Shapes, FinderRecord, IdleFinder
<1>2. /\ SameBatch /\ SameLists /\ finder'.pc = "members" /\ Script' = script
      /\ finder.pc = "members" /\ finder'.group = finder.group /\ finder'.counts = finder.counts
      /\ finder'.todo = finder.todo /\ finder'.low = low /\ finder'.reps = finder.reps
  BY DEF Shapes, FinderRecord, IdleFinder, At, Script, SameBatch, SameLists
<1>3. FinderTypes'
  <2>1. FinderTypes
    BY DEF Shapes
  <2>2. DOMAIN low \subseteq processed /\ \A h \in DOMAIN low : low[h] \in Levels
    BY <2>1 DEF FinderTypes
  <2>3. QED
    BY <1>2, <2>1, <2>2 DEF FinderTypes, Ids, SameBatch, SameLists
<1>4. QED
  BY <1>1, <1>2, <1>3

LEMMA CheckMemberShapes ==
  ASSUME Shapes, NEW f \in Files, CheckMember(f)
  PROVE  Shapes'
<1> DEFINE low == [h \in DOMAIN finder.low \ {f} |-> finder.low[h]]
<1>1. /\ f \in DOMAIN finder.low /\ At("members")
      /\ UNCHANGED <<threshold, similarity, processed, groups, members, lastGroup, checkpoint,
                     reset, late, unmarked>>
  BY DEF CheckMember, tables
<1>2. CASE finder' = [finder EXCEPT !.low = low] /\ UNCHANGED moved
  <2>1. FinderRecord' /\ FinderTypes' /\ Script' = <<>> /\ finder'.pc = "members"
    BY <1>1, <1>2, LowShrinks
  <2>2. QED
    BY <1>1, <1>2, <2>1, QuietShapes DEF Shapes, TypeOK, Pcs
<1>3. ASSUME NEW h \in BetterGroups(f), NEW script,
             script = <<Delete(finder.group, f),
                        Add(h, f, Sim(f, finder.reps[h]), finder.group, finder.low[f])>>,
             finder' = [finder EXCEPT !.low = low, !.script = script],
             moved' = moved \cup {f}
      PROVE  Shapes'
  <2>1. /\ FinderRecord' /\ FinderTypes' /\ Script' = script /\ finder'.pc = "members"
        /\ finder.pc = "members" /\ finder'.group = finder.group /\ finder'.counts = finder.counts
    BY <1>1, <1>3, LowShrinks
  <2>2. ScriptSeq' /\ Statements' = 1 .. 2
    <3>1. script \in Seq({script[1], script[2]}) /\ DOMAIN script = 1 .. 2
      BY <1>3
    <3>2. {script[1], script[2]} = { script[i] : i \in DOMAIN script }
      BY <3>1
    <3>3. QED
      BY <2>1, <3>1, <3>2 DEF ScriptSeq, IsScript, Statements
  <2>3. Script'[1] = Delete(finder.group, f)
        /\ Script'[2] = Add(h, f, Sim(f, finder.reps[h]), finder.group, finder.low[f])
    BY <2>1, <1>3
  <2>4. /\ h \in DOMAIN finder.reps /\ h # finder.group /\ f \in processed
        /\ h \in Ids /\ finder.group \in Ids \cap DOMAIN finder.counts
        /\ finder.low[f] \in Levels /\ finder.reps[h] \in Files /\ processed \subseteq Files
    BY <1>1, <1>3, <2>1 DEF BetterGroups, Others, Shapes, FinderTypes, TypeOK
  <2>5. Sim(f, finder.reps[h]) \in Levels
    BY <2>4, SimIsLevel DEF Shapes
  <2>6. ScriptTypes'
    <3>1. ASSUME NEW s, s = Delete(finder.group, f)
          PROVE  StatementType(s)'
      BY <3>1, <1>1, <2>1, <2>4 DEF StatementType, Delete, Ids
    <3>2. ASSUME NEW s, s = Add(h, f, Sim(f, finder.reps[h]), finder.group, finder.low[f])
          PROVE  StatementType(s)'
      BY <3>2, <1>1, <2>1, <2>4, <2>5 DEF StatementType, Add, Ids
    <3> SUFFICES ASSUME NEW i \in 1 .. 2
                 PROVE  StatementType(Script[i])'
      BY <2>2 DEF ScriptTypes
    <3>3. PICK s : s = Script'[i]
      OBVIOUS
    <3>4. StatementType(s)'
      BY <2>3, <3>1, <3>2, <3>3
    <3>5. QED
      BY <3>3, <3>4
  <2>7. ScriptOrder'
    BY <2>1, <2>2, <2>3, <2>4, <1>3 DEF ScriptOrder, Delete, Add
  <2>8. QED
    BY <1>1, <1>3, <2>1, <2>2, <2>4, <2>6, <2>7, DecisionShapes DEF Shapes, TypeOK, Pcs
<1>4. QED
  BY <1>2, <1>3 DEF CheckMember


\* One list of statements after another.
LEMMA OneAfterTheOther ==
  ASSUME NEW S, NEW first \in Seq(S), NEW rest \in Seq(S), NEW s, Joined(s, first, rest),
         NEW m, Len(first) = m, NEW n, Len(rest) = n
  PROVE  /\ IsScript(s) /\ m \in Nat /\ n \in Nat /\ DOMAIN s = 1 .. m + n
         /\ \A i \in 1 .. m : s[i] = first[i]
         /\ \A i \in 1 .. n : s[m + i] = rest[i]
<1>1. /\ s \in Seq(S) /\ Len(s) = m + n
      /\ \A i \in 1 .. m + n : s[i] = IF i <= m THEN first[i] ELSE rest[i - m]
  BY ConcatProperties DEF Joined
<1>2. m \in Nat /\ n \in Nat
  BY LenProperties
<1>3. IsScript(s) /\ DOMAIN s = 1 .. m + n
  <2>1. PICK r, k : r = s /\ k = m + n
    OBVIOUS
  <2>2. r \in Seq(S) /\ Len(r) = k
    BY <1>1, <2>1
  <2>3. IsScript(r) /\ DOMAIN r = 1 .. k
    BY <2>2, SeqOfItself
  <2>4. QED
    BY <2>1, <2>3
<1>4. \A i \in 1 .. n : m + i \in 1 .. m + n /\ ~ (m + i <= m) /\ (m + i) - m = i
  BY <1>2
<1>5. \A i \in 1 .. m : i \in 1 .. m + n /\ i <= m
  BY <1>2
<1>6. QED
  <2>1. \A i \in 1 .. m : s[i] = first[i]
    BY <1>1, <1>5
  <2>2. \A i \in 1 .. n : s[m + i] = rest[i]
    BY <1>1, <1>4
  <2>3. QED
    BY <1>2, <1>3, <2>1, <2>2

\* addToGroup and then one or two statements more.
Swap(s, g, f, score, rep, count) ==
  s[1] = Insert(g, f, score, TRUE) /\ s[2] = Unflag(g, rep) /\ s[3] = Update(g, f, count)
NoSwap(s, g, f, score, rep, count) ==
  s[1] = Insert(g, f, score, FALSE) /\ s[2] = Update(g, rep, count)

LEMMA AddAndMore ==
  ASSUME NEW g, NEW f, NEW score, NEW rep, groups[g].rep = rep, NEW count, groups[g].count + 1 = count,
         NEW S, NEW rest \in Seq(S), NEW n, Len(rest) = n, NEW s, Joined(s, addToGroup(g, f, score), rest)
  PROVE  /\ IsScript(s) /\ n \in Nat
         /\ \/ /\ isBetterRepresentative(f, rep) /\ DOMAIN s = 1 .. 3 + n
               /\ Swap(s, g, f, score, rep, count) /\ \A i \in 1 .. n : s[3 + i] = rest[i]
            \/ /\ DOMAIN s = 1 .. 2 + n
               /\ NoSwap(s, g, f, score, rep, count) /\ \A i \in 1 .. n : s[2 + i] = rest[i]
<1>1. PICK first : addToGroup(g, f, score) = first
  OBVIOUS
<1>2. Joined(s, first, rest)
  BY <1>1
<1>3. CASE isBetterRepresentative(f, rep)
           /\ first = <<Insert(g, f, score, TRUE), Unflag(g, rep), Update(g, f, count)>>
  <2> DEFINE T == S \cup { Insert(g, f, score, TRUE), Unflag(g, rep), Update(g, f, count) }
  <2>1. first \in Seq(T) /\ Len(first) = 3
    BY <1>3
  <2>2. rest \in Seq(T)
    <3>1. S \subseteq T
      OBVIOUS
    <3> HIDE DEF T
    <3>2. QED
      BY <3>1, SeqMonotonic
  <2> HIDE DEF T
  <2>3. /\ IsScript(s) /\ n \in Nat /\ DOMAIN s = 1 .. 3 + n
        /\ \A i \in 1 .. 3 : s[i] = first[i]
        /\ \A i \in 1 .. n : s[3 + i] = rest[i]
    <3>1. PICK m : Len(first) = m
      OBVIOUS
    <3>2. first \in Seq(T)
      BY <2>1
    <3>4. IsScript(s)
      BY <1>2, <2>2, <3>1, <3>2, OneAfterTheOther
    <3>5. n \in Nat /\ DOMAIN s = 1 .. m + n
      BY <1>2, <2>2, <3>1, <3>2, OneAfterTheOther
    <3>6. \A i \in 1 .. m : s[i] = first[i]
      BY <1>2, <2>2, <3>1, <3>2, OneAfterTheOther
    <3>7. \A i \in 1 .. n : s[m + i] = rest[i]
      BY <1>2, <2>2, <3>1, <3>2, OneAfterTheOther
    <3>3. m = 3
      BY <2>1, <3>1
    <3>8. QED
      BY <3>3, <3>4, <3>5, <3>6, <3>7
  <2>4. Swap(s, g, f, score, rep, count)
    <3>1. first[1] = Insert(g, f, score, TRUE) /\ first[2] = Unflag(g, rep) /\ first[3] = Update(g, f, count)
      BY <1>3
    <3>2. 1 \in 1 .. 3 /\ 2 \in 1 .. 3 /\ 3 \in 1 .. 3
      OBVIOUS
    <3>3. QED
      BY <3>1, <3>2, <2>3 DEF Swap
  <2>5. QED
    BY <1>3, <2>3, <2>4
<1>4. CASE first = <<Insert(g, f, score, FALSE), Update(g, rep, count)>>
  <2> DEFINE T == S \cup { Insert(g, f, score, FALSE), Update(g, rep, count) }
  <2>1. first \in Seq(T) /\ Len(first) = 2
    BY <1>4
  <2>2. rest \in Seq(T)
    <3>1. S \subseteq T
      OBVIOUS
    <3> HIDE DEF T
    <3>2. QED
      BY <3>1, SeqMonotonic
  <2> HIDE DEF T
  <2>3. /\ IsScript(s) /\ n \in Nat /\ DOMAIN s = 1 .. 2 + n
        /\ \A i \in 1 .. 2 : s[i] = first[i]
        /\ \A i \in 1 .. n : s[2 + i] = rest[i]
    <3>1. PICK m : Len(first) = m
      OBVIOUS
    <3>2. first \in Seq(T)
      BY <2>1
    <3>4. IsScript(s)
      BY <1>2, <2>2, <3>1, <3>2, OneAfterTheOther
    <3>5. n \in Nat /\ DOMAIN s = 1 .. m + n
      BY <1>2, <2>2, <3>1, <3>2, OneAfterTheOther
    <3>6. \A i \in 1 .. m : s[i] = first[i]
      BY <1>2, <2>2, <3>1, <3>2, OneAfterTheOther
    <3>7. \A i \in 1 .. n : s[m + i] = rest[i]
      BY <1>2, <2>2, <3>1, <3>2, OneAfterTheOther
    <3>3. m = 2
      BY <2>1, <3>1
    <3>8. QED
      BY <3>3, <3>4, <3>5, <3>6, <3>7
  <2>4. NoSwap(s, g, f, score, rep, count)
    <3>1. first[1] = Insert(g, f, score, FALSE) /\ first[2] = Update(g, rep, count)
      BY <1>4
    <3>2. 1 \in 1 .. 2 /\ 2 \in 1 .. 2
      OBVIOUS
    <3>3. QED
      BY <3>1, <3>2, <2>3 DEF NoSwap
  <2>5. QED
    BY <2>3, <2>4
<1>5. \/ /\ isBetterRepresentative(f, rep)
         /\ first = <<Insert(g, f, score, TRUE), Unflag(g, rep), Update(g, f, count)>>
      \/ first = <<Insert(g, f, score, FALSE), Update(g, rep, count)>>
  BY <1>1 DEF addToGroup
<1>6. QED
  BY <1>3, <1>4, <1>5

-----------------------------------------------------------------------------
(* Types: the decisions about the files of a batch.                         *)

LEMMA FilesRecord ==
  ASSUME Shapes, At("files"), NEW batch, NEW leftover \in SUBSET processed, NEW script,
         \/ finder' = [finder EXCEPT !.batch = batch, !.leftover = leftover, !.script = script]
            /\ batch \subseteq processed
         \/ finder' = [finder EXCEPT !.leftover = leftover, !.script = script] /\ batch = finder.batch,
         UNCHANGED processed, lastGroup' \in {lastGroup, lastGroup + 1}
  PROVE  /\ FinderRecord' /\ FinderTypes' /\ Script' = script /\ finder'.pc = "files"
         /\ finder.pc = "files" /\ Script = <<>> /\ finder'.reps = finder.reps
         /\ finder'.counts = finder.counts /\ Ids \subseteq Ids'
<1>1. FinderRecord'
  BY DEF Shapes, FinderRecord, IdleFinder
<1>2. /\ SameBatch /\ SameCross /\ finder'.pc = "files" /\ Script' = script
      /\ finder'.batch = batch /\ finder'.leftover = leftover /\ finder'.ungrouped = finder.ungrouped
      /\ finder.pc = "files" /\ Script = <<>> /\ finder'.reps = finder.reps
  BY DEF Shapes, FinderRecord, IdleFinder, At, Script, SameBatch, SameCross
<1>3. FinderTypes /\ batch \subseteq processed
  BY DEF Shapes, FinderTypes
<1>4. Ids \subseteq Ids'
  BY DEF Shapes, TableTypes, Ids
<1>5. FinderTypes'
  BY <1>2, <1>3, <1>4 DEF FinderTypes, SameBatch, SameCross
<1>6. QED
  BY <1>1, <1>2, <1>4, <1>5 DEF SameCross

LEMMA TypesOfScript ==
  ASSUME NEW s, Script' = s, \A i \in DOMAIN s : \E x : x = s[i] /\ StatementType(x)'
  PROVE  ScriptTypes'
<1> SUFFICES ASSUME NEW i \in DOMAIN s
             PROVE  StatementType(Script[i])'
  BY DEF ScriptTypes, Statements
<1>1. PICK x : x = s[i] /\ StatementType(x)'
  OBVIOUS
<1>2. x = Script'[i]
  BY <1>1
<1>3. QED
  BY <1>1, <1>2

\* The statements of a file that joins a group.
SwapJoin(s, g, f, score, rep, count) ==
  DOMAIN s = 1 .. 4 /\ Swap(s, g, f, score, rep, count) /\ s[4] = Reload(g)
PlainJoin(s, g, f, score, rep, count) ==
  DOMAIN s = 1 .. 3 /\ NoSwap(s, g, f, score, rep, count) /\ s[3] = Reload(g)

LEMMA JoinScript ==
  ASSUME NEW g, NEW f, NEW score, NEW rep, groups[g].rep = rep, NEW count, groups[g].count + 1 = count,
         NEW s, Joined(s, addToGroup(g, f, score), <<Reload(g)>>)
  PROVE  /\ IsScript(s)
         /\ \/ isBetterRepresentative(f, rep) /\ SwapJoin(s, g, f, score, rep, count)
            \/ PlainJoin(s, g, f, score, rep, count)
<1>1. PICK rest, n : rest = <<Reload(g)>> /\ Len(rest) = n
  OBVIOUS
<1>2. rest \in Seq({Reload(g)}) /\ Len(rest) = 1 /\ rest[1] = Reload(g)
  BY <1>1
<1>3. Joined(s, addToGroup(g, f, score), rest)
  BY <1>1
<1>4. /\ IsScript(s)
      /\ \/ /\ isBetterRepresentative(f, rep) /\ DOMAIN s = 1 .. 3 + n
            /\ Swap(s, g, f, score, rep, count) /\ \A i \in 1 .. n : s[3 + i] = rest[i]
         \/ /\ DOMAIN s = 1 .. 2 + n
            /\ NoSwap(s, g, f, score, rep, count) /\ \A i \in 1 .. n : s[2 + i] = rest[i]
  <2>1. rest \in Seq({Reload(g)}) /\ Len(rest) = n /\ groups[g].rep = rep /\ groups[g].count + 1 = count
    BY <1>1, <1>2
  <2>2. QED
    BY <1>3, <2>1, AddAndMore
<1>5. n = 1
  BY <1>1, <1>2
<1>6. 3 + n = 4 /\ 2 + n = 3 /\ 1 \in 1 .. n /\ 3 + 1 = 4 /\ 2 + 1 = 3
  BY <1>5
<1>7. QED
  BY <1>2, <1>4, <1>6 DEF SwapJoin, PlainJoin

\* A file of the batch joins a group.
LEMMA JoinShapes ==
  ASSUME Shapes, FinderRecord', FinderTypes', finder'.pc = "files",
         NEW g \in DOMAIN groups, NEW f \in processed, NEW score \in Levels,
         Script' = addToGroup(g, f, score) \o <<Reload(g)>>,
         UNCHANGED <<threshold, similarity, processed, groups, members, lastGroup, checkpoint,
                     reset, late, moved, unmarked>>
  PROVE  Shapes'
<1>1. PICK s, rep, count : s = Script' /\ groups[g].rep = rep /\ groups[g].count + 1 = count
  OBVIOUS
<1>2. groups[g].rep = rep /\ groups[g].count + 1 = count
  BY <1>1
<1>3. Joined(s, addToGroup(g, f, score), <<Reload(g)>>)
  BY <1>1 DEF Joined
<1>4. /\ IsScript(s)
      /\ \/ SwapJoin(s, g, f, score, rep, count)
         \/ PlainJoin(s, g, f, score, rep, count)
  BY <1>2, <1>3, JoinScript
<1>5. Script' = s
  BY <1>1
<1>6. \A x : x = Reload(g) => StatementType(x)' /\ x.op = "reload" /\ x.g = g
  BY DEF StatementType, Reload, Shapes, TypeOK, Ids
<1>7. ASSUME NEW x
      PROVE  /\ x = Insert(g, f, score, TRUE) => StatementType(x)' /\ x.op = "insert"
             /\ x = Insert(g, f, score, FALSE) => StatementType(x)' /\ x.op = "insert"
             /\ x = Unflag(g, rep) => StatementType(x)' /\ x.op = "unflag"
             /\ x = Update(g, f, count) => StatementType(x)' /\ x.op = "update" /\ x.g = g
             /\ x = Update(g, rep, count) => StatementType(x)' /\ x.op = "update" /\ x.g = g
  <2>1. g \in Ids' /\ f \in processed' /\ rep \in processed' /\ count \in Int
    BY <1>1 DEF Shapes, TypeOK, TableTypes, Ids
  <2>2. x = Insert(g, f, score, TRUE) => StatementType(x)' /\ x.op = "insert"
    BY <2>1 DEF StatementType, Insert
  <2>3. x = Insert(g, f, score, FALSE) => StatementType(x)' /\ x.op = "insert"
    BY <2>1 DEF StatementType, Insert
  <2>4. x = Unflag(g, rep) => StatementType(x)' /\ x.op = "unflag"
    BY <2>1 DEF StatementType, Unflag
  <2>5. x = Update(g, f, count) => StatementType(x)' /\ x.op = "update" /\ x.g = g
    BY <2>1 DEF StatementType, Update
  <2>6. x = Update(g, rep, count) => StatementType(x)' /\ x.op = "update" /\ x.g = g
    BY <2>1 DEF StatementType, Update
  <2>7. QED
    BY <2>2, <2>3, <2>4, <2>5, <2>6
<1>8. ScriptTypes' /\ ScriptOrder'
  <2>1. CASE SwapJoin(s, g, f, score, rep, count)
    <3>1. PICK a, b, c, d : a = s[1] /\ b = s[2] /\ c = s[3] /\ d = s[4]
      OBVIOUS
    <3>2. /\ StatementType(a)' /\ a.op = "insert" /\ StatementType(b)' /\ b.op = "unflag"
          /\ StatementType(c)' /\ c.op = "update" /\ c.g = g
          /\ StatementType(d)' /\ d.op = "reload" /\ d.g = g
      BY <1>6, <1>7, <2>1, <3>1 DEF Swap, SwapJoin
    <3>3. \A i \in DOMAIN s : i \in 1 .. 4 /\ (i = 1 \/ i = 2 \/ i = 3 \/ i = 4)
      BY <2>1 DEF SwapJoin
    <3>4. ScriptTypes'
      BY <1>5, <3>1, <3>2, <3>3, TypesOfScript
    <3>5. /\ s[1].op = "insert" /\ s[2].op = "unflag" /\ s[3].op = "update" /\ s[3].g = g
          /\ s[4].op = "reload" /\ s[4].g = g /\ 4 \in DOMAIN s
      BY <2>1, <3>1, <3>2 DEF SwapJoin
    <3>6. ScriptOrder'
      <4>1. \A i \in DOMAIN s : s[i].op = "insert" => i = 1
        BY <3>3, <3>5
      <4>2. \A i \in DOMAIN s : s[i].op = "update" => i = 3
        BY <3>3, <3>5
      <4>3. \A i \in DOMAIN s : s[i].op \notin {"delete", "add"}
        BY <3>3, <3>5
      <4>4. \A i, j \in DOMAIN s : i < j => j # 1
        BY <3>3
      <4>5. \A i \in DOMAIN s : s[i].op = "update" =>
              \E j \in DOMAIN s : i < j /\ s[j].op = "reload" /\ s[j].g = s[i].g
        BY <3>5, <4>2
      <4>6. Script' = s /\ Statements' = DOMAIN s /\ finder'.pc = "files"
        BY <1>5 DEF Statements
      <4>7. QED
        BY <4>1, <4>2, <4>3, <4>4, <4>5, <4>6, SMTT(60) DEF ScriptOrder
    <3>7. QED
      BY <3>4, <3>6
  <2>2. CASE PlainJoin(s, g, f, score, rep, count)
    <3>1. PICK a, b, c : a = s[1] /\ b = s[2] /\ c = s[3]
      OBVIOUS
    <3>2. /\ StatementType(a)' /\ a.op = "insert"
          /\ StatementType(b)' /\ b.op = "update" /\ b.g = g
          /\ StatementType(c)' /\ c.op = "reload" /\ c.g = g
      BY <1>6, <1>7, <2>2, <3>1 DEF NoSwap, PlainJoin
    <3>3. \A i \in DOMAIN s : i \in 1 .. 3 /\ (i = 1 \/ i = 2 \/ i = 3)
      BY <2>2 DEF PlainJoin
    <3>4. ScriptTypes'
      BY <1>5, <3>1, <3>2, <3>3, TypesOfScript
    <3>5. /\ s[1].op = "insert" /\ s[2].op = "update" /\ s[2].g = g
          /\ s[3].op = "reload" /\ s[3].g = g /\ 3 \in DOMAIN s
      BY <2>2, <3>1, <3>2 DEF PlainJoin
    <3>6. ScriptOrder'
      BY <1>5, <3>3, <3>5 DEF ScriptOrder, Statements
    <3>7. QED
      BY <3>4, <3>6
  <2>3. QED
    BY <1>4, <2>1, <2>2
<1>9. ScriptSeq'
  BY <1>4, <1>5 DEF ScriptSeq
<1>10. QED
  BY <1>8, <1>9, DecisionShapes DEF Shapes, TypeOK, Pcs

\* A new group gets the next id, its representative is one of its files.
LEMMA NewGroupTables ==
  ASSUME Shapes, NEW P \in SUBSET processed, NEW files \in Seq(P), Len(files) # 0, CreateGroup(files),
         UNCHANGED <<threshold, similarity, processed, members, checkpoint, reset, late, moved, unmarked>>,
         NEW g, g = lastGroup + 1, NEW rep, rep = selectRepresentative(files)
  PROVE  /\ files \in Seq(Files) /\ rep \in processed /\ \E i \in 1 .. Len(files) : rep = files[i]
         /\ \A i \in 1 .. Len(files) : files[i] \in processed
         /\ lastGroup' = g /\ g \in Nat /\ g \notin DOMAIN groups /\ Ids \subseteq Ids' /\ g \in Ids' /\ g \notin Ids
         /\ DOMAIN groups' = DOMAIN groups \cup {g}
         /\ \A h \in DOMAIN groups : groups'[h] = groups[h]
         /\ groups'[g].rep = rep
         /\ \A h \in DOMAIN groups' : groups'[h] \in [rep : Files, count : Int] /\ groups'[h].rep \in processed
<1>1. processed \subseteq Files /\ lastGroup \in Nat /\ DOMAIN groups \subseteq 1 .. lastGroup
  BY DEF Shapes, TypeOK, TableTypes
<1>2. files \in Seq(Files) /\ files \in Seq(processed)
  BY <1>1, SeqMonotonic
<1>3. \A i \in 1 .. Len(files) : files[i] \in processed
  BY <1>2, ElementOfSeq
<1>4. rep \in processed /\ \E i \in 1 .. Len(files) : rep = files[i]
  BY <1>2, <1>3, RepresentativeIsListed, LenProperties
<1>5. lastGroup' = g /\ g \in Nat /\ g \notin DOMAIN groups /\ Ids \subseteq Ids' /\ g \in Ids' /\ g \notin Ids
  BY <1>1 DEF CreateGroup, Ids
<1>6. groups' = [h \in DOMAIN groups \cup {g} |->
                   IF h = g THEN [rep |-> rep, count |-> 1] ELSE groups[h]]
  BY DEF CreateGroup
<1>7. /\ DOMAIN groups' = DOMAIN groups \cup {g}
      /\ \A h \in DOMAIN groups : groups'[h] = groups[h]
      /\ groups'[g] = [rep |-> rep, count |-> 1]
  BY <1>5, <1>6
<1>8. \A h \in DOMAIN groups : groups[h] \in [rep : Files, count : Int] /\ groups[h].rep \in processed
  BY DEF Shapes, TypeOK, TableTypes
<1>9. groups'[g] \in [rep : Files, count : Int] /\ groups'[g].rep = rep
  BY <1>1, <1>4, <1>7
<1>10. \A h \in DOMAIN groups' : groups'[h] \in [rep : Files, count : Int] /\ groups'[h].rep \in processed
  BY <1>4, <1>7, <1>8, <1>9
<1>11. QED
  BY <1>2, <1>3, <1>4, <1>5, <1>7, <1>9, <1>10

LEMMA NewGroupShapes ==
  ASSUME Shapes, FinderRecord', FinderTypes', finder'.pc = "files",
         NEW P \in SUBSET processed, NEW files \in Seq(P), Len(files) # 0, CreateGroup(files),
         Script' = addMembers(lastGroup + 1, files),
         UNCHANGED <<threshold, similarity, processed, members, checkpoint, reset, late, moved, unmarked>>
  PROVE  Shapes'
<1>1. PICK g, rep, s, n : /\ g = lastGroup + 1 /\ rep = selectRepresentative(files)
                          /\ s = addMembers(g, files) /\ n = Len(files)
  OBVIOUS
<1>2. /\ files \in Seq(Files) /\ rep \in processed
      /\ \A i \in 1 .. Len(files) : files[i] \in processed
      /\ lastGroup' = g /\ g \in Nat /\ Ids \subseteq Ids' /\ g \in Ids'
      /\ DOMAIN groups' = DOMAIN groups \cup {g}
      /\ \A h \in DOMAIN groups' : groups'[h] \in [rep : Files, count : Int] /\ groups'[h].rep \in processed
  BY <1>1, NewGroupTables
<1>3. Script' = s
  BY <1>1
<1>4. /\ IsScript(s) /\ n \in Nat
      /\ DOMAIN s = 1 .. n + 2
      /\ \A i \in 1 .. n : s[i] = Insert(g, files[i], Sim(files[i], rep), files[i] = rep)
      /\ s[n + 1] = Update(g, rep, n)
      /\ s[n + 2] = Reload(g)
  BY <1>1, <1>2, AddMembersScript
<1>5. \A i \in DOMAIN s : i \in 1 .. n \/ i = n + 1 \/ i = n + 2
  BY <1>4
<1>6. ASSUME NEW i \in 1 .. n, NEW x, x = s[i]
      PROVE  StatementType(x)' /\ x.op = "insert"
  <2>1. PICK f, score, flag : /\ f = files[i] /\ score = Sim(f, rep) /\ flag = (f = rep)
    OBVIOUS
  <2>2. f \in processed' /\ f \in Files /\ rep \in Files /\ flag \in BOOLEAN /\ g \in Ids'
    BY <1>1, <1>2, <2>1 DEF Shapes, TypeOK
  <2>3. score \in Levels
    BY <2>1, <2>2, SimIsLevel DEF Shapes
  <2>4. x = Insert(g, f, score, flag)
    BY <1>4, <1>6, <2>1
  <2>5. QED
    BY <2>2, <2>3, <2>4 DEF StatementType, Insert
<1>7. ASSUME NEW x, x = Update(g, rep, n)
      PROVE  StatementType(x)' /\ x.op = "update" /\ x.g = g
  BY <1>2, <1>4, <1>7 DEF StatementType, Update
<1>8. ASSUME NEW x, x = Reload(g)
      PROVE  StatementType(x)' /\ x.op = "reload" /\ x.g = g
  BY <1>2, <1>8 DEF StatementType, Reload
<1>9. \A i \in DOMAIN s : \E x : x = s[i] /\ StatementType(x)'
  BY <1>4, <1>5, <1>6, <1>7, <1>8
<1>10. ScriptTypes'
  BY <1>3, <1>9, TypesOfScript
<1>11. /\ \A i \in 1 .. n : s[i].op = "insert"
       /\ s[n + 1].op = "update" /\ s[n + 1].g = g /\ s[n + 2].op = "reload" /\ s[n + 2].g = g
  BY <1>4, <1>6, <1>7, <1>8
<1>12. ScriptOrder'
  BY <1>3, <1>4, <1>5, <1>11 DEF ScriptOrder, Statements
<1>13. TypeOK' /\ TableTypes'
  <2>1. TypeOK /\ TableTypes /\ FinderTypes'
    BY DEF Shapes
  <2>2. QED
    BY <1>2, <2>1 DEF TypeOK, TableTypes, Ids, FinderTypes
<1>14. QED
  BY <1>3, <1>4, <1>10, <1>12, <1>13 DEF Shapes, ScriptSeq

\* The files of a new group that a decision makes.
LEMMA CrossBatchFiles ==
  ASSUME Shapes, NEW f \in finder.batch, NEW u \in CrossBatchMatches(f),
         NEW joined \in Gather(<<u, f>>, finder.ungrouped),
         NEW files, Joined(files, <<u, f>>, Ascending(joined))
  PROVE  /\ files \in Seq(processed) /\ Len(files) \in Nat \ {0}
         /\ \A i, j \in 1 .. Len(files) : Similar(files[i], files[j])
         /\ \E i \in 1 .. Len(files) : selectRepresentative(files) = files[i]
<1>1. /\ f \in processed /\ u \in processed /\ finder.ungrouped \in SUBSET processed
      /\ processed \in SUBSET Files /\ TypeOK
  BY DEF Shapes, TypeOK, FinderTypes, CrossBatchMatches
<1>2. Similar(f, u) /\ f \in Files /\ u \in Files
  BY <1>1 DEF CrossBatchMatches
<1>3. Similar(u, f) /\ Similar(f, f) /\ Similar(u, u)
  BY <1>1, <1>2, SimilarFacts
<1>4. PICK start, P : start = <<u, f>> /\ P = processed
  OBVIOUS
<1>5. start \in Seq(P) /\ start # <<>> /\ ToSet(start) = {u, f}
  BY <1>1, <1>4 DEF ToSet
<1>6. P \in SUBSET Files /\ finder.ungrouped \in SUBSET P /\ joined \in Gather(start, finder.ungrouped)
      /\ Joined(files, start, Ascending(joined))
      /\ \A x, y \in ToSet(start) : Similar(x, y)
  BY <1>1, <1>2, <1>3, <1>4, <1>5
<1>7. PICK list : list = finder.ungrouped
  OBVIOUS
<1>8. list \in SUBSET P /\ joined \in Gather(start, list)
  BY <1>6, <1>7
<1>9. /\ files \in Seq(P) /\ Len(files) \in Nat \ {0}
      /\ \A i, j \in 1 .. Len(files) : Similar(files[i], files[j])
      /\ \E i \in 1 .. Len(files) : selectRepresentative(files) = files[i]
  BY <1>1, <1>5, <1>6, <1>8, NewGroupList
<1>10. QED
  BY <1>4, <1>9

LEMMA LeftoverFiles ==
  ASSUME Shapes, NEW f \in finder.leftover, NEW joined \in Gather(<<f>>, finder.leftover),
         NEW files, Joined(files, <<f>>, Ascending(joined))
  PROVE  /\ files \in Seq(processed) /\ Len(files) \in Nat \ {0}
         /\ \A i, j \in 1 .. Len(files) : Similar(files[i], files[j])
         /\ \E i \in 1 .. Len(files) : selectRepresentative(files) = files[i]
<1>1. /\ f \in processed /\ finder.leftover \in SUBSET processed
      /\ processed \in SUBSET Files /\ TypeOK
  BY DEF Shapes, TypeOK, FinderTypes
<1>2. f \in Files /\ Similar(f, f)
  BY <1>1, SimilarFacts
<1>3. PICK start, P, list : start = <<f>> /\ P = processed /\ list = finder.leftover
  OBVIOUS
<1>4. start \in Seq(P) /\ start # <<>> /\ ToSet(start) = {f}
  BY <1>1, <1>3 DEF ToSet
<1>5. P \in SUBSET Files /\ list \in SUBSET P /\ joined \in Gather(start, list)
      /\ Joined(files, start, Ascending(joined))
      /\ \A x, y \in ToSet(start) : Similar(x, y)
  BY <1>1, <1>2, <1>3, <1>4
<1>6. /\ files \in Seq(P) /\ Len(files) \in Nat \ {0}
      /\ \A i, j \in 1 .. Len(files) : Similar(files[i], files[j])
      /\ \E i \in 1 .. Len(files) : selectRepresentative(files) = files[i]
  BY <1>1, <1>4, <1>5, NewGroupList
<1>7. QED
  BY <1>3, <1>6

\* What Examine(f) can do.
LEMMA ExamineCases ==
  ASSUME Shapes, NEW f \in finder.batch, Examine(f)
  PROVE  /\ At("files") /\ f \in processed
         /\ UNCHANGED <<threshold, similarity, processed, members, checkpoint, reset, late, moved, unmarked>>
         /\ \/ /\ \E leftover \in SUBSET processed : NextFile(f, leftover, <<>>)
               /\ UNCHANGED <<groups, lastGroup>>
            \/ /\ \E g \in DOMAIN groups :
                    /\ g \in Fitting(f) /\ Sim(f, finder.reps[g]) \in Levels
                    /\ NextFile(f, finder.leftover, addToGroup(g, f, Sim(f, finder.reps[g])) \o <<Reload(g)>>)
               /\ UNCHANGED <<groups, lastGroup>>
            \/ \E files \in Seq(processed) :
                 /\ Len(files) \in Nat \ {0}
                 /\ \A i, j \in 1 .. Len(files) : Similar(files[i], files[j])
                 /\ CreateGroup(files)
                 /\ NextFile(f, finder.leftover, addMembers(lastGroup + 1, files))
<1>1. /\ At("files") /\ f \in processed /\ finder.leftover \in SUBSET processed
      /\ UNCHANGED <<threshold, similarity, processed, members, checkpoint, reset, late, moved, unmarked>>
  BY DEF Examine, Shapes, FinderTypes, history
<1>2. CASE /\ NextFile(f, finder.leftover, <<>>)
           /\ UNCHANGED <<groups, lastGroup>>
  BY <1>1, <1>2
<1>3. CASE /\ \E g \in Fitting(f) :
                NextFile(f, finder.leftover,
                         IF g \in DOMAIN groups
                           THEN addToGroup(g, f, Sim(f, finder.reps[g])) \o <<Reload(g)>>
                           ELSE <<>>)
           /\ UNCHANGED <<groups, lastGroup>>
  <2>1. PICK g \in Fitting(f) :
          NextFile(f, finder.leftover,
                   IF g \in DOMAIN groups
                     THEN addToGroup(g, f, Sim(f, finder.reps[g])) \o <<Reload(g)>>
                     ELSE <<>>)
    BY <1>3
  <2>2. CASE g \notin DOMAIN groups
    BY <1>1, <1>3, <2>1, <2>2
  <2>3. CASE g \in DOMAIN groups
    <3>1. f \in Files /\ finder.reps[g] \in Files /\ TypeOK
      BY <1>1, <2>1 DEF Fitting, BestGroups, Shapes, FinderTypes, TypeOK
    <3>2. Sim(f, finder.reps[g]) \in Levels
      BY <3>1, SimIsLevel
    <3>3. NextFile(f, finder.leftover, addToGroup(g, f, Sim(f, finder.reps[g])) \o <<Reload(g)>>)
      BY <2>1, <2>3
    <3>4. QED
      BY <1>1, <1>3, <2>1, <2>3, <3>2, <3>3
  <2>4. QED
    BY <2>2, <2>3
<1>4. ASSUME NEW u \in CrossBatchMatches(f), NEW joined \in Gather(<<u, f>>, finder.ungrouped),
             CreateGroup(<<u, f>> \o Ascending(joined)),
             NextFile(f, finder.leftover, addMembers(lastGroup + 1, <<u, f>> \o Ascending(joined)))
      PROVE  \E files \in Seq(processed) :
               /\ Len(files) \in Nat \ {0}
               /\ \A i, j \in 1 .. Len(files) : Similar(files[i], files[j])
               /\ CreateGroup(files)
               /\ NextFile(f, finder.leftover, addMembers(lastGroup + 1, files))
  <2>1. PICK files : files = <<u, f>> \o Ascending(joined)
    OBVIOUS
  <2>2. CreateGroup(files) /\ NextFile(f, finder.leftover, addMembers(lastGroup + 1, files))
    BY <1>4, <2>1
  <2>3. files \in Seq(processed) /\ Len(files) \in Nat \ {0}
        /\ \A i, j \in 1 .. Len(files) : Similar(files[i], files[j])
    <3>1. Joined(files, <<u, f>>, Ascending(joined))
      BY <2>1 DEF Joined
    <3>2. QED
      BY <3>1, CrossBatchFiles
  <2>4. QED
    BY <2>2, <2>3
<1>5. CASE NextFile(f, finder.leftover \cup {f}, <<>>) /\ UNCHANGED <<groups, lastGroup>>
  <2>1. finder.leftover \cup {f} \in SUBSET processed
    BY <1>1
  <2>2. QED
    BY <1>1, <1>5, <2>1
<1>6. \/ /\ NextFile(f, finder.leftover, <<>>)
         /\ UNCHANGED <<groups, lastGroup>>
      \/ /\ \E g \in Fitting(f) :
              NextFile(f, finder.leftover,
                       IF g \in DOMAIN groups
                         THEN addToGroup(g, f, Sim(f, finder.reps[g])) \o <<Reload(g)>>
                         ELSE <<>>)
         /\ UNCHANGED <<groups, lastGroup>>
      \/ \E u \in CrossBatchMatches(f) : \E joined \in Gather(<<u, f>>, finder.ungrouped) :
           /\ CreateGroup(<<u, f>> \o Ascending(joined))
           /\ NextFile(f, finder.leftover, addMembers(lastGroup + 1, <<u, f>> \o Ascending(joined)))
      \/ NextFile(f, finder.leftover \cup {f}, <<>>) /\ UNCHANGED <<groups, lastGroup>>
  BY Zenon DEF Examine
<1>7. QED
  BY <1>1, <1>2, <1>3, <1>4, <1>5, <1>6

LEMMA NextFileRecord ==
  ASSUME Shapes, At("files"), NEW f, NEW leftover \in SUBSET processed, NEW script,
         NextFile(f, leftover, script), UNCHANGED processed, lastGroup' \in {lastGroup, lastGroup + 1}
  PROVE  /\ FinderRecord' /\ FinderTypes' /\ Script' = script /\ finder'.pc = "files"
         /\ finder.pc = "files" /\ Script = <<>> /\ finder'.reps = finder.reps
         /\ finder'.counts = finder.counts /\ Ids \subseteq Ids'
<1>1. PICK batch : batch = finder.batch \ {f}
  OBVIOUS
<1>2. batch \subseteq processed
  BY <1>1 DEF Shapes, FinderTypes
<1>3. finder' = [finder EXCEPT !.batch = batch, !.leftover = leftover, !.script = script]
  BY <1>1 DEF NextFile
<1>4. QED
  BY <1>2, <1>3, FilesRecord

LEMMA ExamineShapes ==
  ASSUME Shapes, NEW f \in finder.batch, Examine(f)
  PROVE  Shapes'
<1>1. /\ At("files") /\ f \in processed /\ finder.leftover \in SUBSET processed
      /\ UNCHANGED <<threshold, similarity, processed, members, checkpoint, reset, late, moved, unmarked>>
  BY ExamineCases DEF Shapes, FinderTypes
<1>2. ASSUME NEW leftover \in SUBSET processed, NextFile(f, leftover, <<>>), UNCHANGED <<groups, lastGroup>>
      PROVE  Shapes'
  <2>1. PICK script : script = <<>>
    OBVIOUS
  <2>2. NextFile(f, leftover, script) /\ UNCHANGED processed /\ lastGroup' \in {lastGroup, lastGroup + 1}
    BY <1>1, <1>2, <2>1
  <2>3. FinderRecord' /\ FinderTypes' /\ Script' = script /\ finder'.pc = "files"
    BY <1>1, <2>2, NextFileRecord
  <2>4. QED
    BY <1>1, <1>2, <2>1, <2>3, QuietShapes DEF Shapes, TypeOK, Pcs
<1>3. ASSUME NEW g \in DOMAIN groups, Sim(f, finder.reps[g]) \in Levels,
             NextFile(f, finder.leftover, addToGroup(g, f, Sim(f, finder.reps[g])) \o <<Reload(g)>>),
             UNCHANGED <<groups, lastGroup>>
      PROVE  Shapes'
  <2>1. PICK script, leftover, score :
          /\ script = addToGroup(g, f, Sim(f, finder.reps[g])) \o <<Reload(g)>>
          /\ leftover = finder.leftover /\ score = Sim(f, finder.reps[g])
    OBVIOUS
  <2>2. NextFile(f, leftover, script) /\ leftover \in SUBSET processed
        /\ UNCHANGED processed /\ lastGroup' \in {lastGroup, lastGroup + 1}
    BY <1>1, <1>3, <2>1
  <2>3. FinderRecord' /\ FinderTypes' /\ Script' = script /\ finder'.pc = "files"
    BY <1>1, <2>2, NextFileRecord
  <2>4. score \in Levels /\ Script' = addToGroup(g, f, score) \o <<Reload(g)>>
    BY <1>3, <2>1, <2>3
  <2>5. QED
    BY <1>1, <1>3, <2>3, <2>4, JoinShapes
<1>4. ASSUME NEW files \in Seq(processed), Len(files) # 0, CreateGroup(files),
             NextFile(f, finder.leftover, addMembers(lastGroup + 1, files))
      PROVE  Shapes'
  <2>1. PICK script, leftover, P :
          script = addMembers(lastGroup + 1, files) /\ leftover = finder.leftover /\ P = processed
    OBVIOUS
  <2>2. NextFile(f, leftover, script) /\ leftover \in SUBSET processed
        /\ UNCHANGED processed /\ lastGroup' \in {lastGroup, lastGroup + 1}
    BY <1>1, <1>4, <2>1 DEF CreateGroup
  <2>3. FinderRecord' /\ FinderTypes' /\ Script' = script /\ finder'.pc = "files"
    BY <1>1, <2>2, NextFileRecord
  <2>4. Script' = addMembers(lastGroup + 1, files) /\ P \in SUBSET processed /\ files \in Seq(P)
    BY <1>4, <2>1, <2>3
  <2>5. QED
    BY <1>1, <1>4, <2>3, <2>4, NewGroupShapes
<1>5. QED
  BY <1>2, <1>3, <1>4, ExamineCases

\* What GroupLeftover(f) can do.
LEMMA GroupLeftoverCases ==
  ASSUME Shapes, NEW f \in finder.leftover, GroupLeftover(f)
  PROVE  /\ At("files")
         /\ UNCHANGED <<threshold, similarity, processed, members, checkpoint, reset, late, moved, unmarked>>
         /\ \E leftover \in SUBSET processed :
              \/ /\ finder' = [finder EXCEPT !.leftover = leftover, !.script = <<>>]
                 /\ UNCHANGED <<groups, lastGroup>>
              \/ \E files \in Seq(processed) :
                   /\ Len(files) \in Nat \ {0}
                   /\ \A i, j \in 1 .. Len(files) : Similar(files[i], files[j])
                   /\ CreateGroup(files)
                   /\ finder' = [finder EXCEPT !.leftover = leftover,
                                               !.script = addMembers(lastGroup + 1, files)]
<1>1. /\ At("files") /\ finder.leftover \in SUBSET processed
      /\ UNCHANGED <<threshold, similarity, processed, members, checkpoint, reset, late, moved, unmarked>>
  BY DEF GroupLeftover, Shapes, FinderTypes, history
<1>2. PICK joined \in Gather(<<f>>, finder.leftover) :
        \/ /\ CreateGroup(<<f>> \o Ascending(joined))
           /\ finder' = [finder EXCEPT !.leftover = (@ \ {f}) \ joined,
                                       !.script = addMembers(lastGroup + 1, <<f>> \o Ascending(joined))]
        \/ /\ finder' = [finder EXCEPT !.leftover = (@ \ {f}) \ joined, !.script = <<>>]
           /\ UNCHANGED <<groups, lastGroup>>
  BY Zenon DEF GroupLeftover
<1>3. PICK leftover : leftover = (finder.leftover \ {f}) \ joined
  OBVIOUS
<1>4. leftover \in SUBSET processed
  BY <1>1, <1>3
<1>5. PICK files : files = <<f>> \o Ascending(joined)
  OBVIOUS
<1>6. files \in Seq(processed) /\ Len(files) \in Nat \ {0}
      /\ \A i, j \in 1 .. Len(files) : Similar(files[i], files[j])
  <2>1. Joined(files, <<f>>, Ascending(joined))
    BY <1>5 DEF Joined
  <2>2. QED
    BY <2>1, LeftoverFiles
<1>7. \/ /\ CreateGroup(files)
         /\ finder' = [finder EXCEPT !.leftover = leftover, !.script = addMembers(lastGroup + 1, files)]
      \/ /\ finder' = [finder EXCEPT !.leftover = leftover, !.script = <<>>]
         /\ UNCHANGED <<groups, lastGroup>>
  BY <1>2, <1>3, <1>5
<1>8. QED
  BY <1>1, <1>4, <1>6, <1>7

LEMMA GroupLeftoverShapes ==
  ASSUME Shapes, NEW f \in finder.leftover, GroupLeftover(f)
  PROVE  Shapes'
<1>1. /\ At("files")
      /\ UNCHANGED <<threshold, similarity, processed, members, checkpoint, reset, late, moved, unmarked>>
  BY GroupLeftoverCases
<1>2. PICK leftover \in SUBSET processed :
        \/ /\ finder' = [finder EXCEPT !.leftover = leftover, !.script = <<>>]
           /\ UNCHANGED <<groups, lastGroup>>
        \/ \E files \in Seq(processed) :
             /\ Len(files) \in Nat \ {0}
             /\ CreateGroup(files)
             /\ finder' = [finder EXCEPT !.leftover = leftover, !.script = addMembers(lastGroup + 1, files)]
  BY GroupLeftoverCases
<1>3. PICK batch : batch = finder.batch
  OBVIOUS
<1>4. CASE /\ finder' = [finder EXCEPT !.leftover = leftover, !.script = <<>>]
           /\ UNCHANGED <<groups, lastGroup>>
  <2>1. PICK script : script = <<>>
    OBVIOUS
  <2>2. finder' = [finder EXCEPT !.leftover = leftover, !.script = script]
        /\ UNCHANGED processed /\ lastGroup' \in {lastGroup, lastGroup + 1}
    BY <1>1, <1>4, <2>1
  <2>3. FinderRecord' /\ FinderTypes' /\ Script' = script /\ finder'.pc = "files"
    BY <1>1, <1>3, <2>2, FilesRecord
  <2>4. QED
    BY <1>1, <1>4, <2>1, <2>3, QuietShapes DEF Shapes, TypeOK, Pcs
<1>5. ASSUME NEW files \in Seq(processed), Len(files) # 0, CreateGroup(files),
             finder' = [finder EXCEPT !.leftover = leftover, !.script = addMembers(lastGroup + 1, files)]
      PROVE  Shapes'
  <2>1. PICK script, P : script = addMembers(lastGroup + 1, files) /\ P = processed
    OBVIOUS
  <2>2. finder' = [finder EXCEPT !.leftover = leftover, !.script = script]
        /\ UNCHANGED processed /\ lastGroup' \in {lastGroup, lastGroup + 1}
    BY <1>1, <1>5, <2>1 DEF CreateGroup
  <2>3. FinderRecord' /\ FinderTypes' /\ Script' = script /\ finder'.pc = "files"
    BY <1>1, <1>3, <2>2, FilesRecord
  <2>4. Script' = addMembers(lastGroup + 1, files) /\ P \in SUBSET processed /\ files \in Seq(P)
    BY <1>5, <2>1, <2>3
  <2>5. QED
    BY <1>1, <1>5, <2>3, <2>4, NewGroupShapes
<1>6. QED
  BY <1>2, <1>4, <1>5

-----------------------------------------------------------------------------
(* Types: the statements of the script are executed one by one.             *)

\* The first statement is gone, the others are as they were.
LEMMA RestOfScript ==
  ASSUME Shapes, Script # <<>>, NEW rest, rest = Tail(Script), Script' = rest,
         finder'.pc = finder.pc, finder'.group = finder.group, finder'.counts = finder.counts,
         UNCHANGED <<processed, lastGroup, moved>>
  PROVE  ScriptSeq' /\ ScriptTypes' /\ ScriptOrder'
<1>1. /\ IsScript(rest)
      /\ Len(Script) \in Nat \ {0} /\ Statements = 1 .. Len(Script)
      /\ DOMAIN rest = 1 .. Len(Script) - 1
      /\ \A i \in DOMAIN rest : i + 1 \in Statements /\ rest[i] = Script[i + 1]
      /\ \A i \in Statements : i # 1 => i - 1 \in DOMAIN rest /\ rest[i - 1] = Script[i]
  BY TailOfScript DEF Shapes
<1>2. ScriptSeq' /\ Statements' = DOMAIN rest /\ \A i : Script'[i] = rest[i]
  BY <1>1 DEF ScriptSeq, Statements
<1>3. ASSUME NEW x, StatementType(x)
      PROVE  StatementType(x)'
  BY <1>3 DEF StatementType, Ids
<1>4. \A i \in DOMAIN rest : \E x : x = rest[i] /\ StatementType(x)'
  BY <1>1, <1>3 DEF Shapes, ScriptTypes
<1>5. ScriptTypes'
  BY <1>4, TypesOfScript
<1>6. ScriptOrder'
  <2>1. ScriptOrder
    BY DEF Shapes
  <2>2. ASSUME NEW i \in DOMAIN rest, NEW j \in DOMAIN rest, i < j, rest[j].op = "insert"
        PROVE  rest[i].op = "insert"
    <3>1. i + 1 \in Statements /\ j + 1 \in Statements /\ i + 1 < j + 1
          /\ rest[i] = Script[i + 1] /\ rest[j] = Script[j + 1]
      BY <1>1, <2>2
    <3>2. QED
      BY <2>1, <2>2, <3>1 DEF ScriptOrder
  <2>3. ASSUME NEW i \in DOMAIN rest, NEW j \in DOMAIN rest, rest[i].op = "update", rest[j].op = "update"
        PROVE  i = j
    <3>1. i + 1 \in Statements /\ j + 1 \in Statements
          /\ rest[i] = Script[i + 1] /\ rest[j] = Script[j + 1]
      BY <1>1
    <3>2. i + 1 = j + 1 /\ i \in Int /\ j \in Int
      BY <1>1, <2>1, <2>3, <3>1 DEF ScriptOrder
    <3>3. QED
      BY <3>2
  <2>4. ASSUME NEW i \in DOMAIN rest, NEW j \in DOMAIN rest, rest[i].op = "add"
        PROVE  j <= i
    <3>1. i + 1 \in Statements /\ j + 1 \in Statements /\ rest[i] = Script[i + 1]
      BY <1>1
    <3>2. j + 1 <= i + 1 /\ i \in Int /\ j \in Int
      BY <1>1, <2>1, <2>4, <3>1 DEF ScriptOrder
    <3>3. QED
      BY <3>2
  <2>5. ASSUME NEW i \in DOMAIN rest, finder.pc = "files", rest[i].op = "update"
        PROVE  \E j \in DOMAIN rest : i < j /\ rest[j].op = "reload" /\ rest[j].g = rest[i].g
    <3>1. i + 1 \in Statements /\ rest[i] = Script[i + 1] /\ i \in Nat \ {0}
      BY <1>1
    <3>2. PICK k \in Statements : i + 1 < k /\ Script[k].op = "reload" /\ Script[k].g = Script[i + 1].g
      BY <2>1, <2>5, <3>1 DEF ScriptOrder
    <3>3. k \in Nat /\ k # 1 /\ i < k - 1
      BY <1>1, <3>1, <3>2
    <3>4. k - 1 \in DOMAIN rest /\ rest[k - 1] = Script[k]
      BY <1>1, <3>3
    <3>5. QED
      BY <3>1, <3>2, <3>3, <3>4
  <2>6. Script # <<>> => finder.pc \in {"files", "members"}
    BY <2>1 DEF ScriptOrder
  <2>7. ASSUME NEW i \in DOMAIN rest
        PROVE  /\ rest[i].op \in {"delete", "add"} => finder.pc = "members"
               /\ finder.pc = "members" =>
                    /\ rest[i].op = "delete" => rest[i].g = finder.group
                    /\ rest[i].op = "add" => rest[i].g # finder.group /\ rest[i].f \in moved
                    /\ rest[i].op = "insert" /\ rest[i].flag => rest[i].g # finder.group
                    /\ rest[i].op = "insert" => rest[i].f \in moved
    <3>1. i + 1 \in Statements /\ rest[i] = Script[i + 1]
      BY <1>1
    <3>2. QED
      BY <2>1, <3>1 DEF ScriptOrder
  <2>8. QED
    BY <1>2, <2>2, <2>3, <2>4, <2>5, <2>6, <2>7 DEF ScriptOrder
<1>7. QED
  BY <1>2, <1>5, <1>6

\* The run after a statement that is only taken from the script.
LEMMA DoneRecord ==
  ASSUME Shapes, Script # <<>>, NEW rest, rest = Tail(Script), finder' = [finder EXCEPT !.script = rest],
         UNCHANGED <<processed, lastGroup, moved>>
  PROVE  /\ FinderRecord' /\ FinderTypes' /\ ScriptSeq' /\ ScriptTypes' /\ ScriptOrder' /\ Script' = rest
         /\ finder'.pc = finder.pc /\ finder'.reps = finder.reps /\ finder'.group = finder.group
         /\ finder'.low = finder.low /\ finder'.counts = finder.counts
<1>1. FinderRecord'
  BY DEF Shapes, FinderRecord, IdleFinder
<1>2. /\ SameBatch /\ SameLists /\ SameCross /\ Script' = rest /\ finder'.pc = finder.pc
      /\ finder'.reps = finder.reps
  BY DEF Shapes, FinderRecord, IdleFinder, Script, SameBatch, SameLists, SameCross
<1>3. FinderTypes'
  <2>1. FinderTypes
    BY DEF Shapes
  <2>2. QED
    BY <1>2, <2>1 DEF FinderTypes, Ids, SameBatch, SameLists, SameCross
<1>4. finder'.counts = finder.counts /\ finder'.group = finder.group /\ finder'.low = finder.low
  BY <1>2 DEF SameCross
<1>5. ScriptSeq' /\ ScriptTypes' /\ ScriptOrder'
  BY <1>2, <1>4, RestOfScript
<1>6. QED
  BY <1>1, <1>2, <1>3, <1>4, <1>5

\* A statement that loads the cached representative of a group.
LEMMA ReloadRecord ==
  ASSUME Shapes, Script # <<>>, NEW rest, rest = Tail(Script), NEW g \in Ids,
         finder' = [finder EXCEPT !.script = rest, !.reps = Cached(g)],
         UNCHANGED <<processed, groups, lastGroup, moved>>
  PROVE  /\ FinderRecord' /\ FinderTypes' /\ ScriptSeq' /\ ScriptTypes' /\ ScriptOrder' /\ Script' = rest
         /\ finder'.pc = finder.pc /\ finder'.group = finder.group /\ finder'.low = finder.low
         /\ \A h \in DOMAIN finder.reps : h # g => h \in DOMAIN finder'.reps /\ finder'.reps[h] = finder.reps[h]
         /\ g \in DOMAIN groups => g \in DOMAIN finder'.reps /\ finder'.reps[g] = groups[g].rep
<1>1. PICK reps : reps = Cached(g)
  OBVIOUS
<1>2. finder' = [finder EXCEPT !.script = rest, !.reps = reps]
  BY <1>1
<1>3. FinderRecord'
  BY <1>2 DEF Shapes, FinderRecord, IdleFinder
<1>4. /\ SameBatch /\ SameLists /\ SameCross /\ Script' = rest /\ finder'.pc = finder.pc
      /\ finder'.reps = reps
  BY <1>2 DEF Shapes, FinderRecord, IdleFinder, Script, SameBatch, SameLists, SameCross
<1>5. /\ FinderTypes /\ \A h \in DOMAIN groups : groups[h].rep \in processed
  BY DEF Shapes, TableTypes
<1>6. /\ DOMAIN reps \subseteq Ids /\ \A h \in DOMAIN reps : reps[h] \in processed
      /\ \A h \in DOMAIN finder.reps : h # g => h \in DOMAIN reps /\ reps[h] = finder.reps[h]
      /\ g \in DOMAIN groups => g \in DOMAIN reps /\ reps[g] = groups[g].rep
  BY <1>1, <1>5 DEF Cached, FinderTypes
<1>7. FinderTypes'
  BY <1>4, <1>5, <1>6 DEF FinderTypes, Ids, SameBatch, SameLists, SameCross
<1>8. finder'.counts = finder.counts /\ finder'.group = finder.group /\ finder'.low = finder.low
  BY <1>4 DEF SameCross
<1>9. ScriptSeq' /\ ScriptTypes' /\ ScriptOrder'
  BY <1>4, <1>8, RestOfScript
<1>10. QED
  BY <1>3, <1>4, <1>6, <1>7, <1>8, <1>9

\* The tables after a statement.
LEMMA StatementTables ==
  ASSUME Shapes, FinderTypes', finder'.pc \in Pcs, NEW s, StatementType(s),
         \/ /\ s.op = "insert"
            /\ members' = [row \in DOMAIN members \cup {<<s.g, s.f>>} |->
                             IF row \in DOMAIN members THEN members[row]
                                                       ELSE [score |-> s.score, flag |-> s.flag]]
            /\ UNCHANGED groups
         \/ /\ s.op = "unflag"
            /\ members' = IF <<s.g, s.f>> \in DOMAIN members
                            THEN [members EXCEPT ![<<s.g, s.f>>].flag = FALSE] ELSE members
            /\ UNCHANGED groups
         \/ /\ s.op = "update"
            /\ GroupRow(s.g, [rep |-> s.rep, count |-> s.count])
            /\ UNCHANGED members
         \/ /\ s.op = "delete"
            /\ members' = [row \in DOMAIN members \ {<<s.g, s.f>>} |-> members[row]]
            /\ UNCHANGED groups
         \/ /\ s.op = "count"
            /\ GroupRow(s.g, [groups[s.g] EXCEPT !.count = s.count])
            /\ UNCHANGED members
         \/ /\ s.op = "countone"
            /\ GroupRow(s.g, [groups[s.g] EXCEPT !.count = @ + 1])
            /\ UNCHANGED members
         \/ UNCHANGED <<groups, members>>,
         unmarked' = unmarked \/ unmarked' = unmarked \cup {s.g},
         UNCHANGED <<threshold, similarity, processed, lastGroup, checkpoint, reset, late, moved>>
  PROVE  TypeOK' /\ TableTypes'
<1> DEFINE RowType(m, row) == /\ row \in (1 .. lastGroup) \X Files
                              /\ m[row] \in [score : Levels, flag : BOOLEAN] /\ row[2] \in processed
           GroupType(t, g) == t[g] \in [rep : Files, count : Int] /\ t[g].rep \in processed
<1>1. /\ TypeOK /\ TableTypes /\ s.g \in 1 .. lastGroup /\ processed \subseteq Files
      /\ \A row \in DOMAIN members : RowType(members, row)
      /\ \A g \in DOMAIN groups : GroupType(groups, g)
  BY DEF Shapes, TypeOK, TableTypes, StatementType, Ids
<1>2. \A row \in DOMAIN members' : RowType(members', row)
  <2>1. CASE UNCHANGED members
    BY <1>1, <2>1
  <2>2. CASE s.op = "insert" /\ members' = [row \in DOMAIN members \cup {<<s.g, s.f>>} |->
                             IF row \in DOMAIN members THEN members[row]
                                                       ELSE [score |-> s.score, flag |-> s.flag]]
    <3>1. s.f \in processed /\ s.f \in Files /\ s.score \in Levels /\ s.flag \in BOOLEAN
      BY <1>1, <2>2 DEF StatementType
    <3>2. PICK row0, new : row0 = <<s.g, s.f>> /\ new = [score |-> s.score, flag |-> s.flag]
      OBVIOUS
    <3>3. row0 \in (1 .. lastGroup) \X Files /\ row0[2] \in processed
          /\ new \in [score : Levels, flag : BOOLEAN]
      BY <1>1, <3>1, <3>2
    <3>4. members' = [row \in DOMAIN members \cup {row0} |->
                        IF row \in DOMAIN members THEN members[row] ELSE new]
      BY <2>2, <3>2
    <3>5. QED
      BY <1>1, <3>3, <3>4
  <2>3. CASE members' = IF <<s.g, s.f>> \in DOMAIN members
                          THEN [members EXCEPT ![<<s.g, s.f>>].flag = FALSE] ELSE members
    <3>1. PICK row0 : row0 = <<s.g, s.f>>
      OBVIOUS
    <3>2. CASE row0 \notin DOMAIN members
      BY <1>1, <2>3, <3>1, <3>2
    <3>3. CASE row0 \in DOMAIN members
      <4>1. members' = [members EXCEPT ![row0].flag = FALSE]
        BY <2>3, <3>1, <3>3
      <4>2. RowType(members, row0)
        BY <1>1, <3>3
      <4>3. [members[row0] EXCEPT !.flag = FALSE] \in [score : Levels, flag : BOOLEAN]
        BY <4>2
      <4>4. DOMAIN members' = DOMAIN members
            /\ \A row \in DOMAIN members : row # row0 => members'[row] = members[row]
        BY <4>1
      <4>5. members'[row0] = [members[row0] EXCEPT !.flag = FALSE]
        BY <4>1, <3>3
      <4>6. QED
        BY <1>1, <4>2, <4>3, <4>4, <4>5
    <3>4. QED
      BY <3>2, <3>3
  <2>4. CASE members' = [row \in DOMAIN members \ {<<s.g, s.f>>} |-> members[row]]
    BY <1>1, <2>4
  <2>5. QED
    BY <2>1, <2>2, <2>3, <2>4
<1>3. DOMAIN groups' = DOMAIN groups /\ \A g \in DOMAIN groups : GroupType(groups', g)
  <2>1. CASE UNCHANGED groups
    BY <1>1, <2>1
  <2>2. ASSUME NEW row, s.g \in DOMAIN groups, groups' = [groups EXCEPT ![s.g] = row],
               row \in [rep : Files, count : Int], row.rep \in processed
        PROVE  DOMAIN groups' = DOMAIN groups /\ \A g \in DOMAIN groups : GroupType(groups', g)
    BY <1>1, <2>2
  <2>3. CASE s.op = "update" /\ GroupRow(s.g, [rep |-> s.rep, count |-> s.count])
    <3>1. PICK row : row = [rep |-> s.rep, count |-> s.count]
      OBVIOUS
    <3>2. row \in [rep : Files, count : Int] /\ row.rep \in processed
      BY <1>1, <2>3, <3>1 DEF StatementType
    <3>3. GroupRow(s.g, row)
      BY <2>3, <3>1
    <3>4. QED
      BY <2>1, <2>2, <3>2, <3>3 DEF GroupRow
  <2>4. CASE s.op = "count" /\ GroupRow(s.g, [groups[s.g] EXCEPT !.count = s.count])
    <3>1. CASE s.g \notin DOMAIN groups
      BY <2>1, <2>4, <3>1 DEF GroupRow
    <3>2. CASE s.g \in DOMAIN groups
      <4>1. PICK row : row = [groups[s.g] EXCEPT !.count = s.count]
        OBVIOUS
      <4>2. s.count \in Int /\ GroupType(groups, s.g)
        BY <1>1, <2>4, <3>2 DEF StatementType
      <4>3. row \in [rep : Files, count : Int] /\ row.rep \in processed
        BY <4>1, <4>2
      <4>4. GroupRow(s.g, row)
        BY <2>4, <4>1
      <4>5. QED
        BY <2>2, <3>2, <4>3, <4>4 DEF GroupRow
    <3>3. QED
      BY <3>1, <3>2
  <2>5. CASE s.op = "countone" /\ GroupRow(s.g, [groups[s.g] EXCEPT !.count = @ + 1])
    <3>1. CASE s.g \notin DOMAIN groups
      BY <2>1, <2>5, <3>1 DEF GroupRow
    <3>2. CASE s.g \in DOMAIN groups
      <4>1. PICK row : row = [groups[s.g] EXCEPT !.count = @ + 1]
        OBVIOUS
      <4>2. GroupType(groups, s.g)
        BY <1>1, <3>2
      <4>3. row \in [rep : Files, count : Int] /\ row.rep \in processed
        BY <4>1, <4>2
      <4>4. GroupRow(s.g, row)
        BY <2>5, <4>1
      <4>5. QED
        BY <2>2, <3>2, <4>3, <4>4 DEF GroupRow
    <3>3. QED
      BY <3>1, <3>2
  <2>6. QED
    BY <2>1, <2>3, <2>4, <2>5
<1>4. unmarked' \subseteq 1 .. lastGroup
  BY <1>1 DEF TypeOK
<1>5. QED
  BY <1>1, <1>2, <1>3, <1>4 DEF TypeOK, TableTypes, FinderTypes, Pcs

LEMMA OneStatement ==
  ASSUME NEW x
  PROVE  IsScript(<<x>>) /\ DOMAIN <<x>> = {1} /\ <<x>>[1] = x
<1>1. <<x>> \in Seq({x}) /\ Len(<<x>>) = 1 /\ <<x>>[1] = x
  OBVIOUS
<1>2. PICK s, S : s = <<x>> /\ S = {x}
  OBVIOUS
<1>3. s \in Seq(S) /\ Len(s) = 1
  BY <1>1, <1>2
<1>4. IsScript(s) /\ DOMAIN s = 1 .. Len(s)
  BY <1>3, SeqOfItself
<1>5. 1 .. Len(s) = {1}
  BY <1>3
<1>6. QED
  BY <1>1, <1>2, <1>4, <1>5

\* The second half of a move: the file is added, or put back.
IsSecondHalf(new, g, f, score, from, less, old) ==
  new = IF g \in DOMAIN groups
          THEN addToGroup(g, f, score) \o <<SetCount(from, less), CountOne(g)>>
          ELSE <<Insert(from, f, old, FALSE)>>

SwapMove(s, g, f, score, rep, count, from, less) ==
  /\ DOMAIN s = 1 .. 5 /\ Swap(s, g, f, score, rep, count)
  /\ s[4] = SetCount(from, less) /\ s[5] = CountOne(g)
PlainMove(s, g, f, score, rep, count, from, less) ==
  /\ DOMAIN s = 1 .. 4 /\ NoSwap(s, g, f, score, rep, count)
  /\ s[3] = SetCount(from, less) /\ s[4] = CountOne(g)
PutBack(s, from, f, old) == DOMAIN s = {1} /\ s[1] = Insert(from, f, old, FALSE)

LEMMA MoveScript ==
  ASSUME NEW g, NEW f, NEW score, NEW rep, groups[g].rep = rep, NEW count, groups[g].count + 1 = count,
         NEW from, NEW less, NEW old, NEW new,
         IsSecondHalf(new, g, f, score, from, less, old)
  PROVE  /\ IsScript(new)
         /\ \/ /\ g \in DOMAIN groups /\ isBetterRepresentative(f, rep)
               /\ SwapMove(new, g, f, score, rep, count, from, less)
            \/ g \in DOMAIN groups /\ PlainMove(new, g, f, score, rep, count, from, less)
            \/ g \notin DOMAIN groups /\ PutBack(new, from, f, old)
<1>1. CASE g \notin DOMAIN groups
  <2>1. new = <<Insert(from, f, old, FALSE)>>
    BY <1>1 DEF IsSecondHalf
  <2>2. PICK x : x = Insert(from, f, old, FALSE)
    OBVIOUS
  <2>3. new = <<x>>
    BY <2>1, <2>2
  <2>4. IsScript(new) /\ DOMAIN new = {1} /\ new[1] = x
    BY <2>3, OneStatement
  <2>5. QED
    BY <1>1, <2>2, <2>4 DEF PutBack
<1>2. CASE g \in DOMAIN groups
  <2>1. PICK rest, S, n : /\ rest = <<SetCount(from, less), CountOne(g)>>
                          /\ S = {SetCount(from, less), CountOne(g)} /\ Len(rest) = n
    OBVIOUS
  <2>2. rest \in Seq(S) /\ Len(rest) = 2 /\ rest[1] = SetCount(from, less) /\ rest[2] = CountOne(g)
    BY <2>1
  <2>3. Joined(new, addToGroup(g, f, score), rest)
    BY <1>2, <2>1 DEF Joined, IsSecondHalf
  <2>4. PICK s : s = new
    OBVIOUS
  <2>5. Joined(s, addToGroup(g, f, score), rest) /\ rest \in Seq(S) /\ Len(rest) = n
    BY <2>1, <2>2, <2>3, <2>4
  <2>6. /\ IsScript(s)
        /\ \/ /\ isBetterRepresentative(f, rep) /\ DOMAIN s = 1 .. 3 + n
              /\ Swap(s, g, f, score, rep, count) /\ \A i \in 1 .. n : s[3 + i] = rest[i]
           \/ /\ DOMAIN s = 1 .. 2 + n
              /\ NoSwap(s, g, f, score, rep, count) /\ \A i \in 1 .. n : s[2 + i] = rest[i]
    BY <2>5, AddAndMore
  <2>7. n = 2
    BY <2>2, <2>5
  <2>8. 3 + n = 5 /\ 2 + n = 4 /\ 1 \in 1 .. n /\ 2 \in 1 .. n
        /\ 3 + 1 = 4 /\ 3 + 2 = 5 /\ 2 + 1 = 3 /\ 2 + 2 = 4
    BY <2>7
  <2>9. /\ IsScript(s)
        /\ \/ /\ isBetterRepresentative(f, rep) /\ DOMAIN s = 1 .. 5
              /\ Swap(s, g, f, score, rep, count) /\ s[4] = SetCount(from, less) /\ s[5] = CountOne(g)
           \/ /\ DOMAIN s = 1 .. 4
              /\ NoSwap(s, g, f, score, rep, count) /\ s[3] = SetCount(from, less) /\ s[4] = CountOne(g)
    BY <2>2, <2>6, <2>8
  <2>10. QED
    BY <1>2, <2>4, <2>9 DEF SwapMove, PlainMove
<1>3. QED
  BY <1>1, <1>2

NewScript(s) ==
  IF s.g \in DOMAIN groups
    THEN addToGroup(s.g, s.f, s.score) \o <<SetCount(s.from, finder.counts[s.from] - 1), CountOne(s.g)>>
    ELSE <<Insert(s.from, s.f, s.old, FALSE)>>

LEMMA MoveShapes ==
  ASSUME Shapes, Script # <<>>, NEW s, s = Script[1], s.op = "add", 1 \in Statements, NEW new,
         new = NewScript(s),
         finder' = [finder EXCEPT !.script = new],
         UNCHANGED <<threshold, similarity, processed, groups, members, lastGroup, checkpoint,
                     reset, late, moved, unmarked>>
  PROVE  Shapes' /\ Script' = new /\ finder'.pc = "members" /\ finder'.group = finder.group
         /\ finder'.low = finder.low /\ s.g # finder.group /\ s.f \in moved /\ s.g \in Ids
<1>1. StatementType(s) /\ ScriptOrder
  BY DEF Shapes, ScriptTypes
<1>2. PICK g, f, score, from, old : g = s.g /\ f = s.f /\ score = s.score /\ from = s.from /\ old = s.old
  OBVIOUS
<1>3. /\ finder.pc = "members" /\ g # finder.group /\ f \in moved /\ g \in Ids /\ f \in processed
      /\ score \in Levels /\ old \in Levels /\ from \in Ids /\ from \in DOMAIN finder.counts
  BY <1>1, <1>2 DEF ScriptOrder, StatementType
<1>4. PICK less, rep, count : /\ less = finder.counts[from] - 1 /\ groups[g].rep = rep
                              /\ groups[g].count + 1 = count
  OBVIOUS
<1>5. less \in Int /\ TypeOK
  BY <1>3, <1>4 DEF Shapes, FinderTypes
<1>6. PICK t : t = new
  OBVIOUS
<1>7. IsSecondHalf(t, g, f, score, from, less, old)
  BY <1>2, <1>4, <1>6 DEF IsSecondHalf, NewScript
<1>8. /\ IsScript(t)
      /\ \/ g \in DOMAIN groups /\ SwapMove(t, g, f, score, rep, count, from, less)
         \/ g \in DOMAIN groups /\ PlainMove(t, g, f, score, rep, count, from, less)
         \/ PutBack(t, from, f, old)
  <2>1. groups[g].rep = rep /\ groups[g].count + 1 = count
    BY <1>4
  <2>2. QED
    BY <1>7, <2>1, MoveScript
<1>9. FinderRecord' /\ Script' = t /\ finder'.pc = "members" /\ finder'.counts = finder.counts
      /\ SameBatch /\ SameLists /\ SameCross /\ finder'.reps = finder.reps
  BY <1>3, <1>6 DEF Shapes, FinderRecord, IdleFinder, Script, SameBatch, SameLists, SameCross
<1>10. FinderTypes'
  <2>1. FinderTypes /\ UNCHANGED <<processed, lastGroup>>
    BY DEF Shapes
  <2>2. QED
    BY <1>3, <1>9, <2>1 DEF FinderTypes, Ids, SameBatch, SameLists, SameCross
<1>11. ASSUME NEW x
       PROVE  /\ x = SetCount(from, less) => StatementType(x)' /\ x.op = "count"
              /\ x = CountOne(g) => StatementType(x)' /\ x.op = "countone"
              /\ x = Insert(from, f, old, FALSE) => StatementType(x)' /\ x.op = "insert" /\ x.f = f /\ ~ x.flag
  <2>1. x = SetCount(from, less) => StatementType(x)' /\ x.op = "count"
    BY <1>3, <1>5 DEF StatementType, SetCount, Ids
  <2>2. x = CountOne(g) => StatementType(x)' /\ x.op = "countone"
    BY <1>3 DEF StatementType, CountOne, Ids
  <2>3. x = Insert(from, f, old, FALSE) => StatementType(x)' /\ x.op = "insert" /\ x.f = f /\ ~ x.flag
    BY <1>3 DEF StatementType, Insert, Ids
  <2>4. QED
    BY <2>1, <2>2, <2>3
<1>12. ASSUME NEW x, g \in DOMAIN groups
       PROVE  /\ x = Insert(g, f, score, TRUE) => StatementType(x)' /\ x.op = "insert" /\ x.g = g /\ x.f = f
              /\ x = Insert(g, f, score, FALSE) => StatementType(x)' /\ x.op = "insert" /\ x.g = g /\ x.f = f
              /\ x = Unflag(g, rep) => StatementType(x)' /\ x.op = "unflag"
              /\ x = Update(g, f, count) => StatementType(x)' /\ x.op = "update"
              /\ x = Update(g, rep, count) => StatementType(x)' /\ x.op = "update"
  <2>1. g \in Ids' /\ f \in processed' /\ rep \in processed' /\ count \in Int
    BY <1>3, <1>4, <1>12 DEF Shapes, TypeOK, TableTypes, Ids
  <2>2. x = Insert(g, f, score, TRUE) => StatementType(x)' /\ x.op = "insert" /\ x.g = g /\ x.f = f
    BY <1>3, <2>1 DEF StatementType, Insert
  <2>3. x = Insert(g, f, score, FALSE) => StatementType(x)' /\ x.op = "insert" /\ x.g = g /\ x.f = f
    BY <1>3, <2>1 DEF StatementType, Insert
  <2>4. x = Unflag(g, rep) => StatementType(x)' /\ x.op = "unflag"
    BY <2>1 DEF StatementType, Unflag
  <2>5. x = Update(g, f, count) => StatementType(x)' /\ x.op = "update"
    BY <2>1 DEF StatementType, Update
  <2>6. x = Update(g, rep, count) => StatementType(x)' /\ x.op = "update"
    BY <2>1 DEF StatementType, Update
  <2>7. QED
    BY <2>2, <2>3, <2>4, <2>5, <2>6
<1>13. ScriptTypes' /\ ScriptOrder'
  <2>1. CASE g \in DOMAIN groups /\ SwapMove(t, g, f, score, rep, count, from, less)
    <3>1. PICK a, b, c, d, e : a = t[1] /\ b = t[2] /\ c = t[3] /\ d = t[4] /\ e = t[5]
      OBVIOUS
    <3>2. /\ StatementType(a)' /\ a.op = "insert" /\ a.g = g /\ a.f = f
          /\ StatementType(b)' /\ b.op = "unflag"
          /\ StatementType(c)' /\ c.op = "update"
          /\ StatementType(d)' /\ d.op = "count"
          /\ StatementType(e)' /\ e.op = "countone"
      BY <1>11, <1>12, <2>1, <3>1 DEF SwapMove, Swap
    <3>3. \A i \in DOMAIN t : i \in 1 .. 5 /\ (i = 1 \/ i = 2 \/ i = 3 \/ i = 4 \/ i = 5)
      BY <2>1 DEF SwapMove
    <3>4. ScriptTypes'
      BY <1>9, <3>1, <3>2, <3>3, TypesOfScript
    <3>5. /\ t[1].op = "insert" /\ t[1].g = g /\ t[1].f = f /\ t[2].op = "unflag" /\ t[3].op = "update"
          /\ t[4].op = "count" /\ t[5].op = "countone"
      BY <3>1, <3>2
    <3>6. ScriptOrder'
      BY <1>3, <1>9, <3>3, <3>5 DEF ScriptOrder, Statements, SameCross
    <3>7. QED
      BY <3>4, <3>6
  <2>2. CASE g \in DOMAIN groups /\ PlainMove(t, g, f, score, rep, count, from, less)
    <3>1. PICK a, b, c, d : a = t[1] /\ b = t[2] /\ c = t[3] /\ d = t[4]
      OBVIOUS
    <3>2. /\ StatementType(a)' /\ a.op = "insert" /\ a.g = g /\ a.f = f
          /\ StatementType(b)' /\ b.op = "update"
          /\ StatementType(c)' /\ c.op = "count"
          /\ StatementType(d)' /\ d.op = "countone"
      BY <1>11, <1>12, <2>2, <3>1 DEF PlainMove, NoSwap
    <3>3. \A i \in DOMAIN t : i \in 1 .. 4 /\ (i = 1 \/ i = 2 \/ i = 3 \/ i = 4)
      BY <2>2 DEF PlainMove
    <3>4. ScriptTypes'
      BY <1>9, <3>1, <3>2, <3>3, TypesOfScript
    <3>5. /\ t[1].op = "insert" /\ t[1].g = g /\ t[1].f = f /\ t[2].op = "update"
          /\ t[3].op = "count" /\ t[4].op = "countone"
      BY <3>1, <3>2
    <3>6. ScriptOrder'
      BY <1>3, <1>9, <3>3, <3>5 DEF ScriptOrder, Statements, SameCross
    <3>7. QED
      BY <3>4, <3>6
  <2>3. CASE PutBack(t, from, f, old)
    <3>1. PICK a : a = t[1]
      OBVIOUS
    <3>2. StatementType(a)' /\ a.op = "insert" /\ a.f = f /\ ~ a.flag
      BY <1>11, <2>3, <3>1 DEF PutBack
    <3>3. \A i \in DOMAIN t : i = 1
      BY <2>3 DEF PutBack
    <3>4. ScriptTypes'
      BY <1>9, <3>1, <3>2, <3>3, TypesOfScript
    <3>5. t[1].op = "insert" /\ t[1].f = f /\ ~ t[1].flag
      BY <3>1, <3>2
    <3>6. ScriptOrder'
      BY <1>3, <1>9, <3>3, <3>5 DEF ScriptOrder, Statements, SameCross
    <3>7. QED
      BY <3>4, <3>6
  <2>4. QED
    BY <1>8, <2>1, <2>2, <2>3
<1>14. ScriptSeq'
  BY <1>8, <1>9 DEF ScriptSeq
<1>15. Shapes'
  BY <1>9, <1>10, <1>13, <1>14, DecisionShapes DEF Shapes, TypeOK, Pcs
<1>16. QED
  BY <1>2, <1>3, <1>6, <1>9, <1>15 DEF SameCross

\* What a statement does to the members and the groups.
WritesTables(s) ==
  \/ /\ s.op = "insert"
     /\ members' = [row \in DOMAIN members \cup {<<s.g, s.f>>} |->
                      IF row \in DOMAIN members THEN members[row]
                                                ELSE [score |-> s.score, flag |-> s.flag]]
     /\ UNCHANGED groups
  \/ /\ s.op = "unflag"
     /\ members' = IF <<s.g, s.f>> \in DOMAIN members
                     THEN [members EXCEPT ![<<s.g, s.f>>].flag = FALSE] ELSE members
     /\ UNCHANGED groups
  \/ /\ s.op = "update"
     /\ GroupRow(s.g, [rep |-> s.rep, count |-> s.count])
     /\ UNCHANGED members
  \/ /\ s.op = "delete"
     /\ members' = [row \in DOMAIN members \ {<<s.g, s.f>>} |-> members[row]]
     /\ UNCHANGED groups
  \/ /\ s.op = "count"
     /\ GroupRow(s.g, [groups[s.g] EXCEPT !.count = s.count])
     /\ UNCHANGED members
  \/ /\ s.op = "countone"
     /\ GroupRow(s.g, [groups[s.g] EXCEPT !.count = @ + 1])
     /\ UNCHANGED members

Conflict(s) == s.op = "insert" /\ s.flag /\ <<s.g, s.f>> \in DOMAIN members

LEMMA ExecuteCases ==
  ASSUME Shapes, Execute
  PROVE  /\ Script # <<>> /\ 1 \in Statements /\ StatementType(Script[1])
         /\ UNCHANGED <<threshold, similarity, processed, lastGroup, checkpoint, reset, disturbances,
                        raced, late, moved>>
         /\ \/ /\ WritesTables(Script[1]) /\ finder' = [finder EXCEPT !.script = Tail(Script)]
               /\ Script[1].op \notin {"reload", "add"}
            \/ /\ Script[1].op = "reload" /\ UNCHANGED <<groups, members>>
               /\ finder' = [finder EXCEPT !.script = Tail(Script), !.reps = Cached(Script[1].g)]
            \/ /\ Script[1].op = "add" /\ UNCHANGED <<groups, members>>
               /\ finder' = [finder EXCEPT !.script = NewScript(Script[1])]
         /\ unmarked' = IF Conflict(Script[1]) THEN unmarked \cup {Script[1].g} ELSE unmarked
<1>1. Script # <<>>
  BY DEF Execute, Script
<1>2. PICK rest : rest = Tail(Script)
  OBVIOUS
<1>3. 1 \in Statements /\ Head(Script) = Script[1]
  BY <1>1, <1>2, TailOfScript DEF Shapes
<1>4. StatementType(Script[1])
  BY <1>3 DEF Shapes, ScriptTypes
<1>5. Head(finder.script) = Script[1] /\ Tail(finder.script) = Tail(Script)
  BY <1>3 DEF Script
<1>6. UNCHANGED <<threshold, similarity, processed, lastGroup, checkpoint, reset, disturbances,
                  raced, late, moved>>
  BY DEF Execute
<1>7. unmarked' = IF Conflict(Script[1]) THEN unmarked \cup {Script[1].g} ELSE unmarked
  BY <1>5, Zenon DEF Execute, Conflict
<1>8. \/ /\ WritesTables(Script[1]) /\ finder' = [finder EXCEPT !.script = Tail(Script)]
         /\ Script[1].op \notin {"reload", "add"}
      \/ /\ Script[1].op = "reload" /\ UNCHANGED <<groups, members>>
         /\ finder' = [finder EXCEPT !.script = Tail(Script), !.reps = Cached(Script[1].g)]
      \/ /\ Script[1].op = "add" /\ UNCHANGED <<groups, members>>
         /\ finder' = [finder EXCEPT !.script = NewScript(Script[1])]
  BY <1>5 DEF Execute, WritesTables, NewScript
<1>9. QED
  BY <1>1, <1>3, <1>4, <1>6, <1>7, <1>8

LEMMA ExecuteShapes ==
  ASSUME Shapes, Execute
  PROVE  Shapes'
<1>1. PICK s, rest : s = Script[1] /\ rest = Tail(Script)
  OBVIOUS
<1>2. /\ Script # <<>> /\ 1 \in Statements /\ StatementType(s)
      /\ UNCHANGED <<threshold, similarity, processed, lastGroup, checkpoint, reset, disturbances,
                     raced, late, moved>>
      /\ \/ WritesTables(s) /\ finder' = [finder EXCEPT !.script = rest]
         \/ /\ s.op = "reload" /\ UNCHANGED <<groups, members>>
            /\ finder' = [finder EXCEPT !.script = rest, !.reps = Cached(s.g)]
         \/ /\ s.op = "add" /\ UNCHANGED <<groups, members>>
            /\ finder' = [finder EXCEPT !.script = NewScript(s)]
      /\ unmarked' = unmarked \/ unmarked' = unmarked \cup {s.g}
      /\ s.op = "add" => unmarked' = unmarked
  <2>1. /\ Script # <<>> /\ 1 \in Statements /\ StatementType(Script[1])
        /\ UNCHANGED <<threshold, similarity, processed, lastGroup, checkpoint, reset, disturbances,
                       raced, late, moved>>
    BY ExecuteCases
  <2>2. \/ WritesTables(Script[1]) /\ finder' = [finder EXCEPT !.script = Tail(Script)]
        \/ /\ Script[1].op = "reload" /\ UNCHANGED <<groups, members>>
           /\ finder' = [finder EXCEPT !.script = Tail(Script), !.reps = Cached(Script[1].g)]
        \/ /\ Script[1].op = "add" /\ UNCHANGED <<groups, members>>
           /\ finder' = [finder EXCEPT !.script = NewScript(Script[1])]
    BY ExecuteCases
  <2>3. unmarked' = unmarked \/ unmarked' = unmarked \cup {Script[1].g}
    BY ExecuteCases
  <2>4. Script[1].op = "add" => unmarked' = unmarked
    BY ExecuteCases DEF Conflict
  <2>5. QED
    BY <1>1, <2>1, <2>2, <2>3, <2>4
<1>3. finder.pc \in Pcs /\ s.g \in Ids
  BY <1>2 DEF Shapes, TypeOK, Pcs, StatementType
<1>4. CASE WritesTables(s) /\ finder' = [finder EXCEPT !.script = rest]
  <2>1. /\ FinderRecord' /\ FinderTypes' /\ ScriptSeq' /\ ScriptTypes' /\ ScriptOrder'
        /\ finder'.pc \in Pcs
    BY <1>1, <1>2, <1>3, <1>4, DoneRecord
  <2>2. TypeOK' /\ TableTypes'
    BY <1>2, <1>4, <2>1, StatementTables DEF WritesTables
  <2>3. QED
    BY <2>1, <2>2 DEF Shapes
<1>5. CASE /\ s.op = "reload" /\ UNCHANGED <<groups, members>>
           /\ finder' = [finder EXCEPT !.script = rest, !.reps = Cached(s.g)]
  <2>1. /\ FinderRecord' /\ FinderTypes' /\ ScriptSeq' /\ ScriptTypes' /\ ScriptOrder'
        /\ finder'.pc \in Pcs
    <3>1. PICK g \in Ids : g = s.g
      BY <1>3
    <3>2. finder' = [finder EXCEPT !.script = rest, !.reps = Cached(g)]
      BY <1>5, <3>1
    <3>3. QED
      BY <1>1, <1>2, <1>3, <1>5, <3>2, ReloadRecord
  <2>2. TypeOK' /\ TableTypes'
    BY <1>2, <1>5, <2>1, StatementTables
  <2>3. QED
    BY <2>1, <2>2 DEF Shapes
<1>6. CASE /\ s.op = "add" /\ UNCHANGED <<groups, members>>
           /\ finder' = [finder EXCEPT !.script = NewScript(s)]
  <2>1. PICK new : new = NewScript(s)
    OBVIOUS
  <2>2. finder' = [finder EXCEPT !.script = new]
    BY <1>6, <2>1
  <2>3. QED
    BY <1>1, <1>2, <1>6, <2>1, <2>2, MoveShapes
<1>7. QED
  BY <1>2, <1>4, <1>5, <1>6

-----------------------------------------------------------------------------
(* Types: the rest of the server.                                           *)

LEMMA SameRun ==
  ASSUME Shapes, UNCHANGED <<finder, lastGroup, moved>>, processed \subseteq processed'
  PROVE  FinderRecord' /\ FinderTypes' /\ ScriptSeq' /\ ScriptTypes' /\ ScriptOrder'
<1>1. FinderRecord' /\ ScriptSeq' /\ ScriptOrder' /\ Script' = Script
  BY DEF Shapes, FinderRecord, ScriptSeq, ScriptOrder, Script, Statements
<1>2. FinderTypes'
  BY DEF Shapes, FinderTypes, Ids
<1>3. ASSUME NEW x, StatementType(x)
      PROVE  StatementType(x)'
  BY <1>3 DEF StatementType, Ids
<1>4. PICK s : s = Script
  OBVIOUS
<1>5. \A i \in DOMAIN s : \E x : x = s[i] /\ StatementType(x)'
  BY <1>3, <1>4 DEF Shapes, ScriptTypes, Statements
<1>6. ScriptTypes'
  BY <1>1, <1>4, <1>5, TypesOfScript
<1>7. QED
  BY <1>1, <1>2, <1>6

LEMMA FileProcessedShapes ==
  ASSUME Shapes, NEW f \in Files, FileProcessed(f)
  PROVE  Shapes'
<1>1. FinderRecord' /\ FinderTypes' /\ ScriptSeq' /\ ScriptTypes' /\ ScriptOrder'
  BY SameRun DEF FileProcessed, tables
<1>2. TypeOK' /\ TableTypes'
  BY DEF Shapes, TypeOK, TableTypes, FileProcessed, tables
<1>3. QED
  BY <1>1, <1>2 DEF Shapes

LEMMA ResetShapes ==
  ASSUME Shapes, ResetStep
  PROVE  Shapes'
<1>1. UNCHANGED <<finder, lastGroup, moved, processed>>
  BY DEF ResetStep, ResetMembers, ResetGroups, ResetCheckpoint, history
<1>2. FinderRecord' /\ FinderTypes' /\ ScriptSeq' /\ ScriptTypes' /\ ScriptOrder'
  BY <1>1, SameRun
<1>3. TypeOK /\ TableTypes
  BY DEF Shapes
<1>4. TypeOK' /\ TableTypes'
  <2>1. CASE ResetMembers
    BY <1>3, <2>1 DEF TypeOK, TableTypes, ResetMembers
  <2>2. CASE ResetGroups
    BY <1>3, <2>2 DEF TypeOK, TableTypes, ResetGroups, history
  <2>3. CASE ResetCheckpoint
    BY <1>3, <2>3, ConstantFacts DEF TypeOK, TableTypes, ResetCheckpoint, history
  <2>4. QED
    BY <2>1, <2>2, <2>3 DEF ResetStep
<1>5. QED
  BY <1>2, <1>4 DEF Shapes

LEMMA ConfigShapes ==
  ASSUME Shapes, NEW range \in Thresholds, onConfigChange(Effective(range))
  PROVE  Shapes'
<1>1. UNCHANGED <<finder, lastGroup, moved, processed>>
  BY DEF onConfigChange, tables
<1>2. FinderRecord' /\ FinderTypes' /\ ScriptSeq' /\ ScriptTypes' /\ ScriptOrder'
  BY <1>1, SameRun
<1>3. Effective(range) \in Levels \X Levels
  BY FinderAssumption, ConstantFacts DEF Effective
<1>4. TypeOK' /\ TableTypes'
  BY <1>3 DEF Shapes, TypeOK, TableTypes, onConfigChange, tables
<1>5. QED
  BY <1>2, <1>4 DEF Shapes

LEMMA IdleScript ==
  ASSUME finder' = IdleFinder
  PROVE  ScriptSeq' /\ ScriptTypes' /\ ScriptOrder'
<1>1. Script' = <<>> /\ Statements' = {}
  BY DEF Script, Statements, IdleFinder
<1>2. QED
  BY <1>1 DEF ScriptSeq, IsScript, ScriptTypes, ScriptOrder, Statements

LEMMA CrashShapes ==
  ASSUME Shapes, Crash
  PROVE  Shapes'
<1>1. FinderRecord' /\ FinderTypes' /\ ScriptSeq' /\ ScriptTypes' /\ ScriptOrder'
  BY IdleTypes, IdleScript DEF Crash
<1>2. threshold' \in Levels \X Levels
  BY FinderAssumption DEF Crash
<1>3. TypeOK' /\ TableTypes'
  BY <1>2, ConstantFacts DEF Shapes, TypeOK, TableTypes, Crash, tables, IdleFinder
<1>4. QED
  BY <1>1, <1>3 DEF Shapes

LEMMA ShapesAtTheStart ==
  ASSUME Init
  PROVE  Shapes
<1>1. Script = <<>> /\ Statements = {}
  BY DEF Init, Script, Statements, IdleFinder
<1>2. ScriptSeq /\ ScriptTypes /\ ScriptOrder
  BY <1>1 DEF ScriptSeq, IsScript, ScriptTypes, ScriptOrder, Statements
<1>3. FinderRecord /\ FinderTypes
  BY ConstantFacts DEF Init, FinderRecord, FinderTypes, IdleFinder
<1>4. threshold \in Levels \X Levels /\ similarity \in [Pairs -> Levels]
  BY FinderAssumption DEF Init
<1>5. TypeOK /\ TableTypes
  BY <1>4, ConstantFacts DEF Init, TypeOK, TableTypes, IdleFinder
<1>6. QED
  BY <1>2, <1>3, <1>5 DEF Shapes

LEMMA ShapesAreKept ==
  ASSUME Shapes, [Next]_vars
  PROVE  Shapes'
<1>1. CASE UNCHANGED vars
  <2>1. FinderRecord' /\ FinderTypes' /\ ScriptSeq' /\ ScriptTypes' /\ ScriptOrder'
    BY <1>1, SameRun DEF vars, tables, history
  <2>2. TypeOK' /\ TableTypes'
    BY <1>1 DEF Shapes, TypeOK, TableTypes, vars, tables, history
  <2>3. QED
    BY <2>1, <2>2 DEF Shapes
<1>2. CASE Run
  <2>1. CASE Start
    BY <2>1, StartShapes
  <2>2. CASE Query
    BY <2>2, QueryShapes
  <2>3. CASE LoadRepresentatives
    BY <2>3, LoadRepresentativesShapes
  <2>4. CASE LoadUngrouped
    BY <2>4, LoadUngroupedShapes
  <2>5. CASE \E f \in finder.batch : Examine(f)
    BY <2>5, ExamineShapes
  <2>6. CASE \E f \in finder.leftover : GroupLeftover(f)
    BY <2>6, GroupLeftoverShapes
  <2>7. CASE upsertCheckpoint
    BY <2>7, upsertCheckpointShapes
  <2>8. CASE LoadGroups
    BY <2>8, LoadGroupsShapes
  <2>9. CASE MembersDone
    BY <2>9, MembersDoneShapes
  <2>10. CASE BatchDone
    BY <2>10, BatchDoneShapes
  <2>11. CASE Execute
    BY <2>11, ExecuteShapes
  <2>12. CASE \E g \in finder.todo : LoadMembers(g)
    BY <2>12, LoadMembersShapes
  <2>13. CASE \E f \in Files : CheckMember(f)
    BY <2>13, CheckMemberShapes
  <2>14. QED
    BY <1>2, <2>1, <2>2, <2>3, <2>4, <2>5, <2>6, <2>7, <2>8, <2>9, <2>10, <2>11, <2>12, <2>13 DEF Run
<1>3. CASE \E f \in Files : FileProcessed(f)
  BY <1>3, FileProcessedShapes
<1>4. CASE ResetStep
  BY <1>4, ResetShapes
<1>5. CASE \E range \in Thresholds : onConfigChange(Effective(range))
  BY <1>5, ConfigShapes
<1>6. CASE Crash
  BY <1>6, CrashShapes
<1>7. QED
  BY <1>1, <1>2, <1>3, <1>4, <1>5, <1>6 DEF Next

\* Every variable keeps its type: whatever the order of decisions, statements, resets
\* and crashes, a run writes rows of groups that were made, for files that were
\* processed, and neither its place nor the checkpoint passes the last file.
THEOREM TypesAreKept == Spec => []TypeOK
<1>1. Init => Shapes
  BY ShapesAtTheStart
<1>2. Shapes /\ [Next]_vars => Shapes'
  BY ShapesAreKept
<1>3. Shapes => TypeOK
  BY DEF Shapes
<1>4. QED
  BY <1>1, <1>2, <1>3, PTL DEF Spec

-----------------------------------------------------------------------------
(* A reset that does not race with a run ends with no groups.               *)

\* What all steps of a run have in common.
LEMMA RunFacts ==
  ASSUME Shapes, QuietReset, Run
  PROVE  /\ UNCHANGED <<threshold, similarity, processed, reset>>
         /\ ~ raced' => ~ raced /\ reset = "none"
<1>1. /\ ~ raced /\ finder.pc # "idle" => reset = "none"
      /\ Script # <<>> => finder.pc # "idle"
  BY DEF QuietReset, Shapes, ScriptOrder
<1>2. CASE Start
  BY <1>2 DEF Start
<1>3. CASE Query \/ LoadRepresentatives \/ LoadUngrouped \/ LoadGroups
  <2>1. finder.pc # "idle"
    BY <1>3 DEF Query, LoadRepresentatives, LoadUngrouped, LoadGroups, At
  <2>2. UNCHANGED <<threshold, similarity, processed, reset, raced>>
    BY <1>3 DEF Query, LoadRepresentatives, LoadUngrouped, LoadGroups, history
  <2>3. QED
    BY <1>1, <2>1, <2>2
<1>4. CASE upsertCheckpoint \/ MembersDone \/ BatchDone
  BY <1>1, <1>4 DEF upsertCheckpoint, MembersDone, BatchDone, At, history
<1>5. CASE \E f \in finder.batch : Examine(f)
  BY <1>1, <1>5 DEF Examine, At, history
<1>6. CASE \E f \in finder.leftover : GroupLeftover(f)
  BY <1>1, <1>6 DEF GroupLeftover, At, history
<1>7. CASE \E g \in finder.todo : LoadMembers(g)
  <2>1. finder.pc # "idle"
    BY <1>7 DEF LoadMembers, At
  <2>2. UNCHANGED <<threshold, similarity, processed, reset, raced>>
    BY <1>7 DEF LoadMembers, history
  <2>3. QED
    BY <1>1, <2>1, <2>2
<1>8. CASE \E f \in Files : CheckMember(f)
  <2>1. finder.pc # "idle"
    BY <1>8 DEF CheckMember, At
  <2>2. UNCHANGED <<threshold, similarity, processed, reset, raced>>
    BY <1>8, Zenon DEF CheckMember
  <2>3. QED
    BY <1>1, <2>1, <2>2
<1>9. CASE Execute
  BY <1>1, <1>9, ExecuteCases
<1>10. QED
  BY <1>2, <1>3, <1>4, <1>5, <1>6, <1>7, <1>8, <1>9 DEF Run

LEMMA QuietResetIsKept ==
  ASSUME Shapes, QuietReset, [Next]_vars
  PROVE  QuietReset'
<1>1. CASE UNCHANGED vars
  BY <1>1 DEF QuietReset, vars, tables, history
<1>2. CASE Run
  BY <1>2, RunFacts DEF QuietReset
<1>3. CASE \E f \in Files : FileProcessed(f)
  BY <1>3 DEF QuietReset, FileProcessed, tables
<1>4. CASE ResetMembers
  BY <1>4 DEF QuietReset, ResetMembers
<1>5. CASE ResetGroups
  BY <1>5 DEF QuietReset, ResetGroups, history
<1>6. CASE ResetCheckpoint
  BY <1>6 DEF QuietReset, ResetCheckpoint, history
<1>7. CASE \E range \in Thresholds : onConfigChange(Effective(range))
  BY <1>7 DEF QuietReset, onConfigChange, tables
<1>8. CASE Crash
  BY <1>8 DEF QuietReset, Crash
<1>9. QED
  BY <1>1, <1>2, <1>3, <1>4, <1>5, <1>6, <1>7, <1>8 DEF Next, ResetStep

-----------------------------------------------------------------------------
(* Groups, flags and the cache: steps that leave the tables alone.          *)

SameTables == UNCHANGED <<threshold, similarity, groups, members, unmarked>>

LEMMA SameSimilar ==
  ASSUME UNCHANGED <<threshold, similarity>>, NEW f, NEW h
  PROVE  Similar(f, h)' <=> Similar(f, h)
BY DEF Similar, Sim, ThresholdMin

\* The same statements over the same tables.
LEMMA SameLater ==
  ASSUME FlagsLater, SimilarLater, SameTables, Script' = Script, moved \subseteq moved'
  PROVE  FlagsLater' /\ SimilarLater'
<1>1. Statements' = Statements /\ UNCHANGED <<groups, members, unmarked, threshold, similarity>>
  BY DEF Statements, SameTables
<1>2. ASSUME NEW g, NEW f
      PROVE  (FlaggedLater(g, f)' <=> FlaggedLater(g, f)) /\ (RepLater(g, f)' <=> RepLater(g, f))
  BY <1>1 DEF FlaggedLater, RepLater, WillUpdateTo, Flagged, WillFlag, WillUnflag, WillUpdate
<1>3. FlagsLater'
  BY <1>1, <1>2 DEF FlagsLater
<1>4. SimilarLater'
  BY <1>1 DEF SimilarLater, MemberLater, WillInsert, Similar, Sim, ThresholdMin
<1>5. QED
  BY <1>3, <1>4

\* A run that has nothing left to write, before and after.
LEMMA QuietContent ==
  ASSUME Content, SameTables, Script = <<>>, Script' = <<>>, moved' = moved \/ moved \subseteq moved',
         finder'.pc = "members" => \A f \in DOMAIN finder'.low : ~ Flagged(finder'.group, f),
         finder'.pc \in {"ungrouped", "files"} =>
           \A g \in DOMAIN groups : g \in DOMAIN finder'.reps /\ finder'.reps[g] = groups[g].rep
  PROVE  Content'
<1>1. FlagsLater' /\ SimilarLater'
  BY SameLater DEF Content
<1>2. Statements' = {} /\ UNCHANGED <<groups, members>>
  BY DEF Statements, SameTables
<1>3. LowIsUnflagged'
  BY <1>2 DEF LowIsUnflagged, Flagged
<1>4. CacheAgrees'
  BY <1>2 DEF CacheAgrees
<1>5. QED
  BY <1>1, <1>3, <1>4 DEF Content

\* Without statements left, the cache of a run that looks at files is right.
LEMMA CacheNow ==
  ASSUME Content, Script = <<>>, finder.pc \in {"ungrouped", "files"}
  PROVE  \A g \in DOMAIN groups : g \in DOMAIN finder.reps /\ finder.reps[g] = groups[g].rep
BY NothingLeft DEF Content, CacheAgrees

\* The steps of a run that write nothing, and leave nothing to be written.
LEMMA ReadingContent ==
  ASSUME Shapes, Content,
         \/ Start \/ Query \/ LoadRepresentatives \/ LoadUngrouped \/ upsertCheckpoint \/ LoadGroups
         \/ MembersDone \/ BatchDone \/ \E g \in finder.todo : LoadMembers(g)
  PROVE  Content'
<1>1. finder = [x \in DOMAIN IdleFinder |-> finder[x]]
  BY DEF Shapes, FinderRecord
<1>2. CASE Start
  <2>1. SameTables /\ Script = <<>> /\ UNCHANGED moved
    BY <1>2 DEF Start, At, SameTables, tables, Script
  <2>2. Script' = <<>> /\ finder'.pc = "query"
    BY <1>1, <1>2 DEF Start, At, Script, IdleFinder
  <2>3. QED
    BY <2>1, <2>2, QuietContent
<1>3. CASE Query
  <2>1. SameTables /\ Script = <<>> /\ UNCHANGED moved
    BY <1>3 DEF Query, At, SameTables, tables, history, Script
  <2>2. Script' = <<>> /\ finder'.pc \in {"idle", "reps"}
    <3>1. PICK batch, top, size :
            \/ finder' = IdleFinder
            \/ finder' = [finder EXCEPT !.pc = "reps", !.batch = batch, !.top = top, !.size = size]
      BY <1>3, Zenon DEF Query
    <3>2. finder.script = <<>>
      BY <2>1 DEF Script
    <3>3. CASE finder' = IdleFinder
      BY <3>3 DEF Script, IdleFinder
    <3>4. CASE finder' = [finder EXCEPT !.pc = "reps", !.batch = batch, !.top = top, !.size = size]
      BY <1>1, <3>2, <3>4 DEF Script, IdleFinder
    <3>5. QED
      BY <3>1, <3>3, <3>4
  <2>3. QED
    BY <2>1, <2>2, QuietContent
<1>4. CASE LoadRepresentatives
  <2>1. SameTables /\ Script = <<>> /\ UNCHANGED moved
    BY <1>4 DEF LoadRepresentatives, At, SameTables, tables, history, Script
  <2>2. Script' = <<>> /\ finder'.pc = "ungrouped" /\ finder'.reps = [g \in DOMAIN groups |-> groups[g].rep]
    BY <1>1, <1>4 DEF LoadRepresentatives, At, Script, IdleFinder
  <2>3. \A g \in DOMAIN groups : g \in DOMAIN finder'.reps /\ finder'.reps[g] = groups[g].rep
    BY <2>2
  <2>4. QED
    BY <2>1, <2>2, <2>3, QuietContent
<1>5. CASE LoadUngrouped
  <2>1. SameTables /\ Script = <<>> /\ UNCHANGED moved
    BY <1>5 DEF LoadUngrouped, At, SameTables, tables, history, Script
  <2>2. Script' = <<>> /\ finder'.pc = "files" /\ finder.pc = "ungrouped" /\ finder'.reps = finder.reps
    BY <1>1, <1>5 DEF LoadUngrouped, At, Script, IdleFinder
  <2>3. \A g \in DOMAIN groups : g \in DOMAIN finder'.reps /\ finder'.reps[g] = groups[g].rep
    BY <2>1, <2>2, CacheNow
  <2>4. QED
    BY <2>1, <2>2, <2>3, QuietContent
<1>6. CASE upsertCheckpoint
  <2>1. SameTables /\ Script = <<>> /\ UNCHANGED moved
    BY <1>6 DEF upsertCheckpoint, At, SameTables, tables, history, Script
  <2>2. Script' = <<>> /\ finder'.pc = "cross"
    BY <1>1, <1>6 DEF upsertCheckpoint, At, Script, IdleFinder
  <2>3. QED
    BY <2>1, <2>2, QuietContent
<1>7. CASE LoadGroups
  <2>1. SameTables /\ Script = <<>> /\ UNCHANGED moved
    BY <1>7 DEF LoadGroups, At, SameTables, tables, history, Script
  <2>2. Script' = <<>> /\ finder'.pc = "group"
    BY <1>1, <1>7 DEF LoadGroups, At, Script, IdleFinder
  <2>3. QED
    BY <2>1, <2>2, QuietContent
<1>8. CASE MembersDone
  <2>1. SameTables /\ Script = <<>> /\ UNCHANGED moved
    BY <1>8 DEF MembersDone, At, SameTables, tables, history, Script
  <2>2. Script' = <<>> /\ finder'.pc = "group"
    BY <1>1, <1>8 DEF MembersDone, At, Script, IdleFinder
  <2>3. QED
    BY <2>1, <2>2, QuietContent
<1>9. CASE BatchDone
  <2>1. SameTables /\ Script = <<>> /\ UNCHANGED moved
    BY <1>9 DEF BatchDone, At, SameTables, tables, history, Script
  <2>2. Script' = <<>> /\ finder'.pc = "query"
    BY <1>9 DEF BatchDone, Script, IdleFinder
  <2>3. QED
    BY <2>1, <2>2, QuietContent
<1>10. ASSUME NEW g, LoadMembers(g)
       PROVE  Content'
  <2>1. SameTables /\ Script = <<>> /\ UNCHANGED moved
    BY <1>10 DEF LoadMembers, At, SameTables, tables, history, Script
  <2>2. Script' = <<>> /\ finder'.pc = "members" /\ finder'.group = g
        /\ \A f \in DOMAIN finder'.low : ~ members[<<g, f>>].flag
    BY <1>1, <1>10 DEF LoadMembers, At, Script, IdleFinder
  <2>3. \A f \in DOMAIN finder'.low : ~ Flagged(finder'.group, f)
    BY <2>2 DEF Flagged
  <2>4. QED
    BY <2>1, <2>2, <2>3, QuietContent
<1>11. QED
  BY <1>2, <1>3, <1>4, <1>5, <1>6, <1>7, <1>8, <1>9, <1>10

-----------------------------------------------------------------------------
(* Groups, flags and the cache: steps that leave statements to be executed. *)

Writes == {"insert", "unflag", "update"}
NothingWritten == \A i \in Statements : Script[i].op \notin Writes

\* Statements that do not write flags or representatives: later is now.
LEMMA LaterNow ==
  ASSUME NothingWritten, NEW g, NEW f
  PROVE  /\ FlaggedLater(g, f) <=> Flagged(g, f)
         /\ RepLater(g, f) <=> groups[g].rep = f
         /\ MemberLater(g, f) <=> <<g, f>> \in DOMAIN members
BY DEF FlaggedLater, RepLater, WillUpdateTo, MemberLater, WillFlag, WillInsert, WillUpdate, WillUnflag, Writes, NothingWritten

LEMMA LaterThen ==
  ASSUME NEW s, Script' = s, UNCHANGED <<groups, members>>, NEW g, NEW f,
         \A i \in DOMAIN s : s[i].op = "insert" => s[i].flag = FALSE,
         \A i \in DOMAIN s : s[i].op \notin {"unflag", "update"}
  PROVE  /\ FlaggedLater(g, f)' <=> Flagged(g, f)
         /\ RepLater(g, f)' <=> groups[g].rep = f
<1>1. Statements' = DOMAIN s
  BY DEF Statements
<1>2. WillFlag(g, f)' = FALSE
  BY <1>1 DEF WillFlag
<1>3. WillUnflag(g, f)' = FALSE /\ WillUpdate(g)' = FALSE
  BY <1>1 DEF WillUnflag, WillUpdate
<1>4. RepLater(g, f)' <=> groups[g].rep = f
  BY <1>1, <1>3 DEF RepLater, WillUpdateTo
<1>5. FlaggedLater(g, f)' <=> Flagged(g, f)
  BY <1>2, <1>3 DEF FlaggedLater, Flagged
<1>6. QED
  BY <1>4, <1>5

\* Statements that put a file into a group, or back: the flags stay as they are.
LEMMA PlainFlags ==
  ASSUME FlagsLater, NothingWritten,
         NEW s, Script' = s, UNCHANGED <<groups, members, unmarked>>,
         \A i \in DOMAIN s : s[i].op = "insert" => s[i].flag = FALSE,
         \A i \in DOMAIN s : s[i].op \notin {"unflag", "update"}
  PROVE  FlagsLater'
<1>1. ASSUME NEW g, NEW f
      PROVE  (FlaggedLater(g, f)' <=> FlaggedLater(g, f)) /\ (RepLater(g, f)' <=> RepLater(g, f))
  BY LaterNow, LaterThen
<1>2. QED
  BY <1>1 DEF FlagsLater

\* What addToGroup leaves to be executed comes first, and no other write after it.
AddsFirst(s, g, f, score, rep, count) ==
  \/ /\ isBetterRepresentative(f, rep) /\ {1, 2, 3} \subseteq DOMAIN s
     /\ Swap(s, g, f, score, rep, count)
     /\ \A i \in DOMAIN s : i \in {1, 2, 3} \/ s[i].op \notin Writes
  \/ /\ {1, 2} \subseteq DOMAIN s /\ NoSwap(s, g, f, score, rep, count)
     /\ \A i \in DOMAIN s : i \in {1, 2} \/ s[i].op \notin Writes

InsertsOnly(g, f) == \A h, x : WillInsert(h, x) => h = g /\ x = f

\* addToGroup: the new representative gets the flag that the old one loses.
LEMMA AddFlags ==
  ASSUME FlagsLater, NothingWritten,
         NEW s, Script' = s, UNCHANGED <<groups, members, unmarked>>,
         NEW g \in DOMAIN groups, NEW f \in Files, NEW score, NEW rep, groups[g].rep = rep, rep \in Files,
         NEW count, AddsFirst(s, g, f, score, rep, count)
  PROVE  FlagsLater' /\ InsertsOnly(g, f)'
<1>1. Statements' = DOMAIN s
  BY DEF Statements
<1>2. \A h \in DOMAIN groups : \A x \in Files :
        /\ Flagged(h, x) => groups[h].rep = x
        /\ h \notin unmarked /\ groups[h].rep = x => Flagged(h, x)
  BY LaterNow DEF FlagsLater
<1>3. CASE /\ isBetterRepresentative(f, rep) /\ {1, 2, 3} \subseteq DOMAIN s
           /\ Swap(s, g, f, score, rep, count)
           /\ \A i \in DOMAIN s : i \in {1, 2, 3} \/ s[i].op \notin Writes
  <2>1. f # rep
    <3>1. Rank[f] > Rank[rep] /\ Rank[f] \in Nat /\ Rank[rep] \in Nat
      BY <1>3, FinderAssumption DEF isBetterRepresentative
    <3>2. QED
      BY <3>1
  <2>2. /\ s[1].op = "insert" /\ s[1].g = g /\ s[1].f = f /\ s[1].flag = TRUE
        /\ s[2].op = "unflag" /\ s[2].g = g /\ s[2].f = rep
        /\ s[3].op = "update" /\ s[3].g = g /\ s[3].rep = f
        /\ 1 \in DOMAIN s /\ 2 \in DOMAIN s /\ 3 \in DOMAIN s
    BY <1>3 DEF Swap, Insert, Unflag, Update
  <2>3. ASSUME NEW i \in DOMAIN s
        PROVE  /\ s[i].op = "insert" => i = 1
               /\ s[i].op = "unflag" => i = 2
               /\ s[i].op = "update" => i = 3
    BY <1>3, <2>2 DEF Writes
  <2>4. ASSUME NEW h, NEW x
        PROVE  /\ WillInsert(h, x)' => h = g /\ x = f
               /\ WillFlag(h, x)' <=> h = g /\ x = f
               /\ WillUnflag(h, x)' <=> h = g /\ x = rep
               /\ RepLater(h, x)' <=> IF h = g THEN x = f ELSE groups[h].rep = x
    <3>1. WillInsert(h, x)' => h = g /\ x = f
      BY <1>1, <2>2, <2>3 DEF WillInsert
    <3>2. WillFlag(h, x)' <=> h = g /\ x = f
      BY <1>1, <2>2, <2>3 DEF WillFlag
    <3>3. WillUnflag(h, x)' <=> h = g /\ x = rep
      BY <1>1, <2>2, <2>3 DEF WillUnflag
    <3>4. RepLater(h, x)' <=> IF h = g THEN x = f ELSE groups[h].rep = x
      BY <1>1, <2>2, <2>3 DEF RepLater, WillUpdateTo, WillUpdate
    <3>5. QED
      BY <3>1, <3>2, <3>3, <3>4
  <2>5. ASSUME NEW h, NEW x
        PROVE  FlaggedLater(h, x)' <=> (Flagged(h, x) \/ (h = g /\ x = f)) /\ ~ (h = g /\ x = rep)
    <3>1. Flagged(h, x)' <=> Flagged(h, x)
      BY DEF Flagged
    <3>2. FlaggedLater(h, x)' <=> (Flagged(h, x)' \/ WillFlag(h, x)') /\ ~ WillUnflag(h, x)'
      BY DEF FlaggedLater
    <3>3. WillFlag(h, x)' <=> h = g /\ x = f
      BY <2>4, Zenon
    <3>4. WillUnflag(h, x)' <=> h = g /\ x = rep
      BY <2>4, Zenon
    <3>5. QED
      BY <3>1, <3>2, <3>3, <3>4, Zenon
  <2>6. ASSUME NEW h \in DOMAIN groups, NEW x \in Files
        PROVE  /\ FlaggedLater(h, x)' => RepLater(h, x)'
               /\ h \notin unmarked /\ RepLater(h, x)' => FlaggedLater(h, x)'
    <3>1. CASE h = g
      <4>1. Flagged(h, x) => x = rep
        BY <1>2, <3>1
      <4>2. (FlaggedLater(h, x)' <=> x = f) /\ (RepLater(h, x)' <=> x = f)
        BY <2>1, <2>4, <2>5, <3>1, <4>1
      <4>3. QED
        BY <4>2
    <3>2. CASE h # g
      <4>1. FlaggedLater(h, x)' <=> Flagged(h, x)
        BY <2>5, <3>2, Zenon
      <4>2. RepLater(h, x)' <=> groups[h].rep = x
        BY <2>4, <3>2, Zenon
      <4>3. QED
        BY <1>2, <4>1, <4>2, Zenon
    <3>3. QED
      BY <3>1, <3>2
  <2>7. FlagsLater'
    BY <2>6 DEF FlagsLater
  <2>8. QED
    BY <2>4, <2>7 DEF InsertsOnly
<1>4. CASE /\ {1, 2} \subseteq DOMAIN s /\ NoSwap(s, g, f, score, rep, count)
           /\ \A i \in DOMAIN s : i \in {1, 2} \/ s[i].op \notin Writes
  <2>1. /\ s[1].op = "insert" /\ s[1].g = g /\ s[1].f = f /\ s[1].flag = FALSE
        /\ s[2].op = "update" /\ s[2].g = g /\ s[2].rep = rep
        /\ 1 \in DOMAIN s /\ 2 \in DOMAIN s
    BY <1>4 DEF NoSwap, Insert, Update
  <2>2. ASSUME NEW i \in DOMAIN s
        PROVE  /\ s[i].op = "insert" => i = 1
               /\ s[i].op # "unflag"
               /\ s[i].op = "update" => i = 2
    BY <1>4, <2>1 DEF Writes
  <2>3. ASSUME NEW h, NEW x
        PROVE  /\ WillInsert(h, x)' => h = g /\ x = f
               /\ ~ WillFlag(h, x)' /\ ~ WillUnflag(h, x)'
               /\ RepLater(h, x)' <=> groups[h].rep = x
    <3>1. WillInsert(h, x)' => h = g /\ x = f
      BY <1>1, <2>1, <2>2 DEF WillInsert
    <3>2. ~ WillFlag(h, x)' /\ ~ WillUnflag(h, x)'
      BY <1>1, <2>1, <2>2 DEF WillFlag, WillUnflag
    <3>3. RepLater(h, x)' <=> groups[h].rep = x
      BY <1>1, <2>1, <2>2 DEF RepLater, WillUpdateTo, WillUpdate
    <3>4. QED
      BY <3>1, <3>2, <3>3
  <2>4. ASSUME NEW h, NEW x
        PROVE  FlaggedLater(h, x)' <=> Flagged(h, x)
    BY <2>3 DEF FlaggedLater, Flagged
  <2>5. FlagsLater'
    BY <1>2, <2>3, <2>4 DEF FlagsLater
  <2>6. QED
    BY <2>3, <2>5 DEF InsertsOnly
<1>5. QED
  BY <1>3, <1>4 DEF AddsFirst

\* A member stays, or its row is to be deleted: it is no representative.
LEMMA CheckMemberContent ==
  ASSUME Shapes, Content, NEW f \in Files, CheckMember(f)
  PROVE  Content'
<1> DEFINE low == [h \in DOMAIN finder.low \ {f} |-> finder.low[h]]
<1>1. /\ f \in DOMAIN finder.low /\ At("members") /\ Script = <<>> /\ SameTables
      /\ UNCHANGED <<processed, lastGroup>> /\ finder.pc = "members"
  BY DEF CheckMember, tables, At, Script, SameTables
<1>2. \A h \in DOMAIN finder.low : ~ Flagged(finder.group, h)
  BY <1>1 DEF Content, LowIsUnflagged
<1>3. CASE finder' = [finder EXCEPT !.low = low] /\ UNCHANGED moved
  <2>1. /\ Script' = <<>> /\ finder'.pc = "members" /\ finder'.group = finder.group
        /\ finder'.low = low
    BY <1>1, <1>3, LowShrinks
  <2>2. \A h \in DOMAIN finder'.low : ~ Flagged(finder'.group, h)
    BY <1>2, <2>1
  <2>3. QED
    BY <1>1, <1>3, <2>1, <2>2, QuietContent
<1>4. ASSUME NEW h \in BetterGroups(f), NEW script,
             script = <<Delete(finder.group, f),
                        Add(h, f, Sim(f, finder.reps[h]), finder.group, finder.low[f])>>,
             finder' = [finder EXCEPT !.low = low, !.script = script],
             moved' = moved \cup {f}
      PROVE  Content'
  <2>1. /\ Script' = script /\ finder'.pc = "members" /\ finder'.group = finder.group
        /\ finder'.low = low
    BY <1>1, <1>4, LowShrinks
  <2>2. /\ DOMAIN script = {1, 2} /\ script[1].op = "delete" /\ script[2].op = "add"
        /\ script[1].g = finder.group /\ script[1].f = f
    BY <1>4 DEF Delete, Add
  <2>3. Statements' = {1, 2} /\ Statements = {} /\ UNCHANGED <<groups, members, unmarked, threshold, similarity>>
    BY <1>1, <2>1, <2>2 DEF Statements, SameTables
  <2>4. NothingWritten
    BY <2>3 DEF NothingWritten
  <2>5. /\ \A i \in DOMAIN script : script[i].op = "insert" => script[i].flag = FALSE
        /\ \A i \in DOMAIN script : script[i].op \notin {"unflag", "update"}
    BY <2>2
  <2>6. FlagsLater'
    BY <2>1, <2>3, <2>4, <2>5, PlainFlags DEF Content
  <2>7. LowIsUnflagged'
    <3>1. \A x \in DOMAIN finder'.low : ~ Flagged(finder.group, x)'
      BY <1>2, <2>1, <2>3 DEF Flagged
    <3>2. \A i \in Statements' : (Script[i].op = "delete" => ~ Flagged(Script[i].g, Script[i].f))'
      BY <1>1, <1>2, <2>1, <2>2, <2>3 DEF Flagged
    <3>3. QED
      BY <3>1, <3>2 DEF LowIsUnflagged
  <2>8. CacheAgrees'
    BY <2>1 DEF CacheAgrees
  <2>9. SimilarLater'
    <3>1. ASSUME NEW g, NEW x
          PROVE  MemberLater(g, x)' <=> MemberLater(g, x)
      BY <2>1, <2>2, <2>3 DEF MemberLater, WillInsert
    <3>2. \A x, y : Similar(x, y)' <=> Similar(x, y)
      BY <2>3, SameSimilar
    <3>3. QED
      BY <1>4, <2>3, <3>1, <3>2 DEF SimilarLater, Content
  <2>10. QED
    BY <2>6, <2>7, <2>8, <2>9 DEF Content
<1>5. QED
  BY <1>3, <1>4 DEF CheckMember

\* The group that a file joins has only members that the file resembles, the one
\* with the flag included: it is the representative.
LEMMA FittingFacts ==
  ASSUME Shapes, Content, Script = <<>>, finder.pc = "files",
         NEW g \in DOMAIN groups, NEW f \in Files, g \in Fitting(f)
  PROVE  \A x \in Files : <<g, x>> \in DOMAIN members => Similar(f, x)
<1>1. /\ g \in BestGroups(f)
      /\ \A x \in Members(g) : members[<<g, x>>].flag \/ Similar(f, x)
  BY DEF Fitting, SimilarToAllMembers
<1>2. finder.reps[g] = groups[g].rep /\ Similar(f, finder.reps[g])
  BY <1>1, CacheNow DEF BestGroups
<1>3. \A x \in Files : Flagged(g, x) => groups[g].rep = x
  BY NothingLeft DEF Content, FlagsLater
<1>4. QED
  BY <1>1, <1>2, <1>3 DEF Members, Flagged

\* A file joins a group.
LEMMA JoinContent ==
  ASSUME Shapes, Content, Script = <<>>, finder.pc = "files", finder'.pc = "files", finder'.reps = finder.reps,
         NEW g \in DOMAIN groups, NEW f \in processed, g \in Fitting(f), NEW score \in Levels,
         NEW s, Script' = s, Joined(s, addToGroup(g, f, score), <<Reload(g)>>), SameTables, UNCHANGED moved
  PROVE  Content'
<1>1. PICK rep, count : groups[g].rep = rep /\ groups[g].count + 1 = count
  OBVIOUS
<1>2. groups[g].rep = rep /\ groups[g].count + 1 = count /\ Script' = s
  BY <1>1
<1>3. Joined(s, addToGroup(g, f, score), <<Reload(g)>>)
  OBVIOUS
<1>4. \/ isBetterRepresentative(f, rep) /\ SwapJoin(s, g, f, score, rep, count)
      \/ PlainJoin(s, g, f, score, rep, count)
  BY <1>2, <1>3, JoinScript
<1>5. f \in Files /\ rep \in Files /\ UNCHANGED <<groups, members, unmarked, threshold, similarity>>
  BY <1>2 DEF Shapes, TypeOK, SameTables
<1>6. NothingWritten
  BY NothingLeft DEF NothingWritten
<1>7. AddsFirst(s, g, f, score, rep, count)
  <2>1. CASE isBetterRepresentative(f, rep) /\ SwapJoin(s, g, f, score, rep, count)
    BY <2>1 DEF AddsFirst, SwapJoin, Reload, Writes
  <2>2. CASE PlainJoin(s, g, f, score, rep, count)
    BY <2>2 DEF AddsFirst, PlainJoin, Reload, Writes
  <2>3. QED
    BY <1>4, <2>1, <2>2
<1>8. FlagsLater' /\ InsertsOnly(g, f)'
  <2>1. FlagsLater
    BY DEF Content
  <2>2. QED
    BY <1>2, <1>5, <1>6, <1>7, <2>1, AddFlags
<1>9. WillReload(g)'
  <2>1. CASE SwapJoin(s, g, f, score, rep, count)
    BY <1>2, <2>1 DEF SwapJoin, Reload, WillReload, Statements
  <2>2. CASE PlainJoin(s, g, f, score, rep, count)
    BY <1>2, <2>2 DEF PlainJoin, Reload, WillReload, Statements
  <2>3. QED
    BY <1>4, <2>1, <2>2
<1>10. CacheAgrees'
  <2>1. \A h \in DOMAIN groups : h \in DOMAIN finder.reps /\ finder.reps[h] = groups[h].rep
    BY CacheNow
  <2>2. QED
    BY <1>5, <1>9, <2>1 DEF CacheAgrees
<1>11. LowIsUnflagged'
  <2>1. \A i \in DOMAIN s : s[i].op # "delete"
    <3>1. CASE SwapJoin(s, g, f, score, rep, count)
      BY <3>1 DEF SwapJoin, Swap, Insert, Unflag, Update, Reload
    <3>2. CASE PlainJoin(s, g, f, score, rep, count)
      BY <3>2 DEF PlainJoin, NoSwap, Insert, Update, Reload
    <3>3. QED
      BY <1>4, <3>1, <3>2
  <2>2. QED
    BY <1>2, <2>1 DEF LowIsUnflagged, Statements
<1>12. SimilarLater'
  <2>1. ASSUME NEW h, NEW x, MemberLater(h, x)'
        PROVE  <<h, x>> \in DOMAIN members \/ (h = g /\ x = f)
    BY <1>5, <1>8, <2>1 DEF MemberLater, InsertsOnly
  <2>2. \A h \in DOMAIN groups : \A x, y \in Files \ moved :
          <<h, x>> \in DOMAIN members /\ <<h, y>> \in DOMAIN members => Similar(x, y)
    BY NothingLeft DEF Content, SimilarLater
  <2>3. \A x \in Files : <<g, x>> \in DOMAIN members => Similar(f, x)
    BY <1>5, FittingFacts
  <2>4. /\ Similar(f, f)
        /\ \A x \in Files : Similar(f, x) <=> Similar(x, f)
    BY <1>5, SimilarFacts DEF Shapes
  <2>5. \A x, y : Similar(x, y)' <=> Similar(x, y)
    BY <1>5, SameSimilar
  <2>6. ASSUME NEW h \in DOMAIN groups, NEW x \in Files \ moved, NEW y \in Files \ moved,
               MemberLater(h, x)', MemberLater(h, y)'
        PROVE  Similar(x, y)
    BY <2>1, <2>2, <2>3, <2>4, <2>6
  <2>7. QED
    BY <1>5, <2>5, <2>6 DEF SimilarLater
<1>13. QED
  BY <1>8, <1>10, <1>11, <1>12 DEF Content

AddsMembers(s, files) == s = addMembers(lastGroup + 1, files)

AddsMembersTo(s, g, files, rep, n) ==
  /\ n \in Nat
  /\ DOMAIN s = 1 .. n + 2
  /\ \A i \in 1 .. n : s[i] = Insert(g, files[i], Sim(files[i], rep), files[i] = rep)
  /\ s[n + 1] = Update(g, rep, n)
  /\ s[n + 2] = Reload(g)

LEMMA NewGroupScript ==
  ASSUME NEW files \in Seq(Files), Len(files) # 0, NEW s, AddsMembers(s, files),
         NEW g, g = lastGroup + 1, NEW rep, rep = selectRepresentative(files), NEW n, n = Len(files)
  PROVE  AddsMembersTo(s, g, files, rep, n)
<1>1. s = addMembers(g, files)
  BY DEF AddsMembers
<1>2. QED
  BY <1>1, AddMembersScript DEF AddsMembersTo

\* A new group: its files resemble each other, one of them is its representative.
LEMMA NewGroupContent ==
  ASSUME Shapes, Content, Script = <<>>, finder.pc = "files", finder'.pc = "files", finder'.reps = finder.reps,
         NEW P \in SUBSET processed, NEW files \in Seq(P), Len(files) # 0, CreateGroup(files),
         \A i, j \in 1 .. Len(files) : Similar(files[i], files[j]),
         NEW s, Script' = s, AddsMembers(s, files),
         UNCHANGED <<threshold, similarity, processed, members, checkpoint, reset, late, moved, unmarked>>
  PROVE  Content'
<1>1. PICK g, rep, n : g = lastGroup + 1 /\ rep = selectRepresentative(files) /\ n = Len(files)
  OBVIOUS
<1>2. /\ files \in Seq(Files) /\ rep \in processed /\ \E i \in 1 .. n : rep = files[i]
      /\ g \notin DOMAIN groups /\ g \notin Ids
      /\ DOMAIN groups' = DOMAIN groups \cup {g}
      /\ \A h \in DOMAIN groups : groups'[h] = groups[h]
      /\ groups'[g].rep = rep
  <2>1. files \in Seq(Files) /\ rep \in processed
    BY <1>1, NewGroupTables
  <2>2. \E i \in 1 .. Len(files) : rep = files[i]
    <3>1. \E i \in DOMAIN files : selectRepresentative(files) = files[i]
      BY <2>1, RepresentativeIsListed
    <3>2. QED
      BY <1>1, <2>1, <3>1
  <2>3. g \notin DOMAIN groups /\ g \notin Ids /\ DOMAIN groups' = DOMAIN groups \cup {g}
    BY <1>1, NewGroupTables
  <2>4. \A h \in DOMAIN groups : groups'[h] = groups[h]
    BY <1>1, NewGroupTables
  <2>5. groups'[g].rep = rep
    BY <1>1, NewGroupTables
  <2>6. QED
    BY <1>1, <2>1, <2>2, <2>3, <2>4, <2>5
<1>3. /\ n \in Nat
      /\ DOMAIN s = 1 .. n + 2
      /\ \A i \in 1 .. n : s[i] = Insert(g, files[i], Sim(files[i], rep), files[i] = rep)
      /\ s[n + 1] = Update(g, rep, n)
      /\ s[n + 2] = Reload(g)
  <2>1. AddsMembersTo(s, g, files, rep, n)
    BY <1>1, <1>2, NewGroupScript
  <2>2. QED
    BY <2>1 DEF AddsMembersTo
<1>4. \A i \in DOMAIN s : i \in 1 .. n \/ i = n + 1 \/ i = n + 2
  BY <1>3
<1>5. n + 1 \in DOMAIN s /\ n + 2 \in DOMAIN s /\ \A i \in 1 .. n : i \in DOMAIN s
  BY <1>3
<1>6. ASSUME NEW i \in 1 .. n
      PROVE  /\ s[i].op = "insert" /\ s[i].g = g /\ s[i].f = files[i]
             /\ s[i].flag <=> files[i] = rep
  <2>1. PICK f, score, flag : f = files[i] /\ score = Sim(f, rep) /\ flag = (f = rep)
    OBVIOUS
  <2>2. s[i] = Insert(g, f, score, flag)
    BY <1>3, <2>1
  <2>3. s[i].op = "insert" /\ s[i].g = g /\ s[i].f = f /\ s[i].flag = flag
    BY <2>2 DEF Insert
  <2>4. QED
    BY <2>1, <2>3
<1>7. /\ s[n + 1].op = "update" /\ s[n + 1].g = g /\ s[n + 1].rep = rep
      /\ s[n + 2].op = "reload" /\ s[n + 2].g = g
  BY <1>3 DEF Update, Reload
<1>8. ASSUME NEW i \in DOMAIN s
      PROVE  /\ s[i].op = "insert" => i \in 1 .. n
             /\ s[i].op = "update" => i = n + 1
             /\ s[i].op \notin {"unflag", "delete"}
  BY <1>4, <1>6, <1>7
<1>9. Statements' = DOMAIN s
  BY DEF Statements
<1>10. ASSUME NEW h, NEW x
       PROVE  /\ WillInsert(h, x)' => h = g /\ \E i \in 1 .. n : x = files[i]
              /\ WillFlag(h, x)' <=> h = g /\ x = rep
              /\ WillUnflag(h, x)' <=> FALSE
  <2>1. WillInsert(h, x)' => h = g /\ \E i \in 1 .. n : x = files[i]
    BY <1>6, <1>8, <1>9 DEF WillInsert
  <2>2. WillFlag(h, x)' => h = g /\ x = rep
    BY <1>6, <1>8, <1>9 DEF WillFlag
  <2>3. ASSUME h = g, x = rep
        PROVE  WillFlag(h, x)'
    <3>1. PICK i \in 1 .. n : rep = files[i]
      BY <1>2
    <3>2. i \in DOMAIN s /\ s[i].op = "insert" /\ s[i].g = g /\ s[i].f = rep /\ s[i].flag
      BY <1>5, <1>6, <3>1
    <3>3. QED
      BY <1>9, <2>3, <3>2 DEF WillFlag
  <2>4. WillUnflag(h, x)' <=> FALSE
    BY <1>8, <1>9 DEF WillUnflag
  <2>5. QED
    BY <2>1, <2>2, <2>3, <2>4
<1>11. ASSUME NEW h \in DOMAIN groups', NEW x
       PROVE  RepLater(h, x)' <=> IF h = g THEN x = rep ELSE groups[h].rep = x
  <2>1. WillUpdate(h)' <=> h = g
    BY <1>5, <1>7, <1>8, <1>9 DEF WillUpdate
  <2>2. RepLater(h, x)' <=> \/ \E i \in DOMAIN s : s[i].op = "update" /\ s[i].g = h /\ s[i].rep = x
                            \/ ~ WillUpdate(h)' /\ groups'[h].rep = x
    BY <1>9 DEF RepLater, WillUpdateTo
  <2>3. (\E i \in DOMAIN s : s[i].op = "update" /\ s[i].g = h /\ s[i].rep = x) <=> h = g /\ x = rep
    BY <1>5, <1>7, <1>8
  <2>4. h # g => groups'[h] = groups[h]
    BY <1>2
  <2>5. QED
    BY <2>1, <2>2, <2>3, <2>4
<1>12. ASSUME NEW h \in DOMAIN groups', NEW x
       PROVE  /\ FlaggedLater(h, x)' <=> (Flagged(h, x) \/ (h = g /\ x = rep))
              /\ ~ Flagged(g, x)
  <2>1. Flagged(h, x)' <=> Flagged(h, x)
    BY DEF Flagged
  <2>2. FlaggedLater(h, x)' <=> (Flagged(h, x) \/ (h = g /\ x = rep))
    BY <1>10, <2>1 DEF FlaggedLater
  <2>3. ~ Flagged(g, x)
    BY <1>2 DEF Flagged, Shapes, TypeOK, Ids
  <2>4. QED
    BY <2>2, <2>3
<1>13. FlagsLater'
  <2>1. \A h \in DOMAIN groups : \A x \in Files :
          /\ Flagged(h, x) => groups[h].rep = x
          /\ h \notin unmarked /\ groups[h].rep = x => Flagged(h, x)
    BY NothingLeft DEF Content, FlagsLater
  <2>2. ASSUME NEW h \in DOMAIN groups', NEW x \in Files
        PROVE  /\ FlaggedLater(h, x)' => RepLater(h, x)'
               /\ h \notin unmarked /\ RepLater(h, x)' => FlaggedLater(h, x)'
    <3>1. CASE h = g
      <4>1. (FlaggedLater(h, x)' <=> x = rep) /\ (RepLater(h, x)' <=> x = rep)
        BY <1>11, <1>12, <3>1
      <4>2. QED
        BY <4>1
    <3>2. CASE h # g
      <4>1. FlaggedLater(h, x)' <=> Flagged(h, x)
        BY <1>12, <3>2, Zenon
      <4>2. RepLater(h, x)' <=> groups[h].rep = x
        BY <1>11, <3>2, Zenon
      <4>3. h \in DOMAIN groups
        BY <1>2, <3>2
      <4>4. QED
        BY <2>1, <4>1, <4>2, <4>3, Zenon
    <3>3. QED
      BY <3>1, <3>2
  <2>3. QED
    BY <2>2 DEF FlagsLater
<1>14. CacheAgrees'
  <2>1. \A h \in DOMAIN groups : h \in DOMAIN finder.reps /\ finder.reps[h] = groups[h].rep
    BY CacheNow
  <2>2. WillReload(g)'
    BY <1>5, <1>7, <1>9 DEF WillReload
  <2>3. QED
    BY <1>2, <2>1, <2>2 DEF CacheAgrees
<1>15. LowIsUnflagged'
  BY <1>8, <1>9 DEF LowIsUnflagged
<1>16. SimilarLater'
  <2>1. \A h \in DOMAIN groups : \A x, y \in Files \ moved :
          <<h, x>> \in DOMAIN members /\ <<h, y>> \in DOMAIN members => Similar(x, y)
    BY NothingLeft DEF Content, SimilarLater
  <2>2. ASSUME NEW h \in DOMAIN groups', NEW x, MemberLater(h, x)'
        PROVE  IF h = g THEN \E i \in 1 .. n : x = files[i]
                        ELSE h \in DOMAIN groups /\ <<h, x>> \in DOMAIN members
    <3>1. <<g, x>> \notin DOMAIN members
      BY <1>2 DEF Shapes, TypeOK, Ids
    <3>2. <<h, x>> \in DOMAIN members \/ (h = g /\ \E i \in 1 .. n : x = files[i])
      BY <1>10, <2>2 DEF MemberLater
    <3>3. QED
      BY <1>2, <3>1, <3>2
  <2>3. \A x, y : Similar(x, y)' <=> Similar(x, y)
    BY SameSimilar
  <2>4. \A i, j \in 1 .. n : Similar(files[i], files[j])
    BY <1>1
  <2>5. ASSUME NEW h \in DOMAIN groups', NEW x \in Files \ moved, NEW y \in Files \ moved,
               MemberLater(h, x)', MemberLater(h, y)'
        PROVE  Similar(x, y)
    <3>1. CASE h = g
      <4>1. PICK i \in 1 .. n : x = files[i]
        BY <2>2, <2>5, <3>1
      <4>2. PICK j \in 1 .. n : y = files[j]
        BY <2>2, <2>5, <3>1
      <4>3. QED
        BY <2>4, <4>1, <4>2
    <3>2. CASE h # g
      BY <2>1, <2>2, <2>5, <3>2
    <3>3. QED
      BY <3>1, <3>2
  <2>6. QED
    BY <2>3, <2>5 DEF SimilarLater
<1>17. QED
  BY <1>13, <1>14, <1>15, <1>16 DEF Content

LEMMA ExamineContent ==
  ASSUME Shapes, Content, NEW f \in finder.batch, Examine(f)
  PROVE  Content'
<1>1. /\ At("files") /\ f \in processed /\ finder.leftover \in SUBSET processed
      /\ UNCHANGED <<threshold, similarity, processed, members, checkpoint, reset, late, moved, unmarked>>
  BY ExamineCases DEF Shapes, FinderTypes
<1>2. ASSUME NEW leftover \in SUBSET processed, NextFile(f, leftover, <<>>), UNCHANGED <<groups, lastGroup>>
      PROVE  Content'
  <2>1. PICK script : script = <<>>
    OBVIOUS
  <2>2. NextFile(f, leftover, script) /\ UNCHANGED processed /\ lastGroup' \in {lastGroup, lastGroup + 1}
    BY <1>1, <1>2, <2>1
  <2>3. /\ Script' = script /\ finder'.pc = "files" /\ finder.pc = "files" /\ Script = <<>>
        /\ finder'.reps = finder.reps
    BY <1>1, <2>2, NextFileRecord
  <2>4. \A g \in DOMAIN groups : g \in DOMAIN finder'.reps /\ finder'.reps[g] = groups[g].rep
    BY <2>3, CacheNow
  <2>5. QED
    BY <1>1, <1>2, <2>1, <2>3, <2>4, QuietContent DEF SameTables
<1>3. ASSUME NEW g \in DOMAIN groups, g \in Fitting(f), Sim(f, finder.reps[g]) \in Levels,
             NextFile(f, finder.leftover, addToGroup(g, f, Sim(f, finder.reps[g])) \o <<Reload(g)>>),
             UNCHANGED <<groups, lastGroup>>
      PROVE  Content'
  <2>1. PICK script, leftover, score :
          /\ script = addToGroup(g, f, Sim(f, finder.reps[g])) \o <<Reload(g)>>
          /\ leftover = finder.leftover /\ score = Sim(f, finder.reps[g])
    OBVIOUS
  <2>2. NextFile(f, leftover, script) /\ leftover \in SUBSET processed
        /\ UNCHANGED processed /\ lastGroup' \in {lastGroup, lastGroup + 1}
    BY <1>1, <1>3, <2>1
  <2>3. /\ Script' = script /\ finder'.pc = "files" /\ finder.pc = "files" /\ Script = <<>>
        /\ finder'.reps = finder.reps
    BY <1>1, <2>2, NextFileRecord
  <2>4. score \in Levels /\ Joined(script, addToGroup(g, f, score), <<Reload(g)>>)
    BY <1>3, <2>1 DEF Joined
  <2>5. SameTables /\ UNCHANGED moved
    BY <1>1, <1>3 DEF SameTables
  <2>6. QED
    BY <1>1, <1>3, <2>3, <2>4, <2>5, JoinContent
<1>4. ASSUME NEW files \in Seq(processed), Len(files) # 0, CreateGroup(files),
             \A i, j \in 1 .. Len(files) : Similar(files[i], files[j]),
             NextFile(f, finder.leftover, addMembers(lastGroup + 1, files))
      PROVE  Content'
  <2>1. PICK script, leftover, P :
          script = addMembers(lastGroup + 1, files) /\ leftover = finder.leftover /\ P = processed
    OBVIOUS
  <2>2. NextFile(f, leftover, script) /\ leftover \in SUBSET processed
        /\ UNCHANGED processed /\ lastGroup' \in {lastGroup, lastGroup + 1}
    BY <1>1, <1>4, <2>1 DEF CreateGroup
  <2>3. /\ Script' = script /\ finder'.pc = "files" /\ finder.pc = "files" /\ Script = <<>>
        /\ finder'.reps = finder.reps
    BY <1>1, <2>2, NextFileRecord
  <2>4. AddsMembers(script, files) /\ P \in SUBSET processed /\ files \in Seq(P)
    BY <1>4, <2>1 DEF AddsMembers
  <2>5. QED
    BY <1>1, <1>4, <2>3, <2>4, NewGroupContent
<1>5. QED
  BY <1>2, <1>3, <1>4, ExamineCases

LEMMA GroupLeftoverContent ==
  ASSUME Shapes, Content, NEW f \in finder.leftover, GroupLeftover(f)
  PROVE  Content'
<1>1. /\ At("files")
      /\ UNCHANGED <<threshold, similarity, processed, members, checkpoint, reset, late, moved, unmarked>>
  BY GroupLeftoverCases
<1>2. PICK leftover \in SUBSET processed :
        \/ /\ finder' = [finder EXCEPT !.leftover = leftover, !.script = <<>>]
           /\ UNCHANGED <<groups, lastGroup>>
        \/ \E files \in Seq(processed) :
             /\ Len(files) \in Nat \ {0}
             /\ \A i, j \in 1 .. Len(files) : Similar(files[i], files[j])
             /\ CreateGroup(files)
             /\ finder' = [finder EXCEPT !.leftover = leftover, !.script = addMembers(lastGroup + 1, files)]
  BY GroupLeftoverCases
<1>3. PICK batch : batch = finder.batch
  OBVIOUS
<1>4. CASE /\ finder' = [finder EXCEPT !.leftover = leftover, !.script = <<>>]
           /\ UNCHANGED <<groups, lastGroup>>
  <2>1. PICK script : script = <<>>
    OBVIOUS
  <2>2. finder' = [finder EXCEPT !.leftover = leftover, !.script = script]
        /\ UNCHANGED processed /\ lastGroup' \in {lastGroup, lastGroup + 1}
    BY <1>1, <1>4, <2>1
  <2>3. /\ Script' = script /\ finder'.pc = "files" /\ finder.pc = "files" /\ Script = <<>>
        /\ finder'.reps = finder.reps
    BY <1>1, <1>3, <2>2, FilesRecord
  <2>4. \A g \in DOMAIN groups : g \in DOMAIN finder'.reps /\ finder'.reps[g] = groups[g].rep
    BY <2>3, CacheNow
  <2>5. QED
    BY <1>1, <1>4, <2>1, <2>3, <2>4, QuietContent DEF SameTables
<1>5. ASSUME NEW files \in Seq(processed), Len(files) # 0, CreateGroup(files),
             \A i, j \in 1 .. Len(files) : Similar(files[i], files[j]),
             finder' = [finder EXCEPT !.leftover = leftover, !.script = addMembers(lastGroup + 1, files)]
      PROVE  Content'
  <2>1. PICK script, P : script = addMembers(lastGroup + 1, files) /\ P = processed
    OBVIOUS
  <2>2. finder' = [finder EXCEPT !.leftover = leftover, !.script = script]
        /\ UNCHANGED processed /\ lastGroup' \in {lastGroup, lastGroup + 1}
    BY <1>1, <1>5, <2>1 DEF CreateGroup
  <2>3. /\ Script' = script /\ finder'.pc = "files" /\ finder.pc = "files" /\ Script = <<>>
        /\ finder'.reps = finder.reps
    BY <1>1, <1>3, <2>2, FilesRecord
  <2>4. AddsMembers(script, files) /\ P \in SUBSET processed /\ files \in Seq(P)
    BY <1>5, <2>1 DEF AddsMembers
  <2>5. QED
    BY <1>1, <1>5, <2>3, <2>4, NewGroupContent
<1>6. QED
  BY <1>2, <1>4, <1>5

-----------------------------------------------------------------------------
(* Groups, flags and the cache: statements are executed.                    *)

\* The first statement is executed.
StepsOn(s) == Script # <<>> /\ s = Script[1] /\ Script' = Tail(Script)

\* What was to be done was the first statement, or is still to be done.
LEMMA FirstOrLater ==
  ASSUME ScriptSeq, NEW s, StepsOn(s), NEW g, NEW f
  PROVE  /\ WillInsert(g, f) <=> (s.op = "insert" /\ s.g = g /\ s.f = f) \/ WillInsert(g, f)'
         /\ WillFlag(g, f) <=> (s.op = "insert" /\ s.g = g /\ s.f = f /\ s.flag) \/ WillFlag(g, f)'
         /\ WillUnflag(g, f) <=> (s.op = "unflag" /\ s.g = g /\ s.f = f) \/ WillUnflag(g, f)'
         /\ WillUpdate(g) <=> (s.op = "update" /\ s.g = g) \/ WillUpdate(g)'
         /\ WillUpdateTo(g, f) <=> (s.op = "update" /\ s.g = g /\ s.rep = f) \/ WillUpdateTo(g, f)'
         /\ WillReload(g) <=> (s.op = "reload" /\ s.g = g) \/ WillReload(g)'
<1>1. PICK rest : rest = Tail(Script)
  OBVIOUS
<1>2. /\ Statements' = DOMAIN rest /\ Script' = rest /\ s = Script[1] /\ 1 \in Statements
      /\ \A i \in DOMAIN rest : i + 1 \in Statements /\ rest[i] = Script[i + 1]
      /\ \A i \in Statements : i # 1 => i - 1 \in DOMAIN rest /\ rest[i - 1] = Script[i]
  BY <1>1, TailOfScript DEF StepsOn, Statements
<1>3. WillInsert(g, f) <=> (s.op = "insert" /\ s.g = g /\ s.f = f) \/ WillInsert(g, f)'
  BY <1>2 DEF WillInsert
<1>4. WillFlag(g, f) <=> (s.op = "insert" /\ s.g = g /\ s.f = f /\ s.flag) \/ WillFlag(g, f)'
  BY <1>2 DEF WillFlag
<1>5. WillUnflag(g, f) <=> (s.op = "unflag" /\ s.g = g /\ s.f = f) \/ WillUnflag(g, f)'
  BY <1>2 DEF WillUnflag
<1>6. WillUpdate(g) <=> (s.op = "update" /\ s.g = g) \/ WillUpdate(g)'
  BY <1>2 DEF WillUpdate
<1>7. WillUpdateTo(g, f) <=> (s.op = "update" /\ s.g = g /\ s.rep = f) \/ WillUpdateTo(g, f)'
  BY <1>2 DEF WillUpdateTo
<1>8. WillReload(g) <=> (s.op = "reload" /\ s.g = g) \/ WillReload(g)'
  BY <1>2 DEF WillReload
<1>9. QED
  BY <1>3, <1>4, <1>5, <1>6, <1>7, <1>8

\* What a statement may do to the flags, the members and the representative.
KeepsLater(g, f) ==
  /\ RepLater(g, f)' <=> RepLater(g, f)
  /\ FlaggedLater(g, f)' => FlaggedLater(g, f)
  /\ g \notin unmarked' /\ FlaggedLater(g, f) => FlaggedLater(g, f)'
  /\ MemberLater(g, f)' => MemberLater(g, f)

LEMMA LaterIsKept ==
  ASSUME FlagsLater, SimilarLater, DOMAIN groups' = DOMAIN groups, unmarked \subseteq unmarked',
         UNCHANGED <<threshold, similarity, moved>>,
         \A g \in DOMAIN groups : \A f \in Files : KeepsLater(g, f)
  PROVE  FlagsLater' /\ SimilarLater'
<1>1. FlagsLater'
  <2>1. ASSUME NEW g \in DOMAIN groups', NEW f \in Files
        PROVE  /\ FlaggedLater(g, f)' => RepLater(g, f)'
               /\ g \notin unmarked' /\ RepLater(g, f)' => FlaggedLater(g, f)'
    <3>1. KeepsLater(g, f)
      OBVIOUS
    <3>2. /\ FlaggedLater(g, f) => RepLater(g, f)
          /\ g \notin unmarked /\ RepLater(g, f) => FlaggedLater(g, f)
      BY DEF FlagsLater
    <3>3. g \notin unmarked' => g \notin unmarked
      OBVIOUS
    <3>4. QED
      BY <3>1, <3>2, <3>3, Zenon DEF KeepsLater
  <2>2. QED
    BY <2>1 DEF FlagsLater
<1>2. SimilarLater'
  <2>1. ASSUME NEW g \in DOMAIN groups', NEW f \in Files
        PROVE  MemberLater(g, f)' => MemberLater(g, f)
    BY DEF KeepsLater
  <2>2. \A f, h : Similar(f, h)' <=> Similar(f, h)
    BY SameSimilar
  <2>3. QED
    BY <2>1, <2>2 DEF SimilarLater
<1>3. QED
  BY <1>1, <1>2

SameFinder == finder'.pc = finder.pc /\ finder'.group = finder.group /\ finder'.low = finder.low

\* A run that looks at members sees no flags come.
LEMMA LowIsKept ==
  ASSUME Shapes, LowIsUnflagged, NEW s, StepsOn(s), SameFinder,
         \A g, f : finder.pc = "members" /\ g = finder.group /\ Flagged(g, f)' => Flagged(g, f)
  PROVE  LowIsUnflagged'
<1>1. PICK rest, g : rest = Tail(Script) /\ g = finder.group
  OBVIOUS
<1>2. /\ Statements' = DOMAIN rest /\ Script' = rest
      /\ \A i \in DOMAIN rest : i + 1 \in Statements /\ rest[i] = Script[i + 1]
  BY <1>1, TailOfScript DEF StepsOn, Statements, Shapes
<1>3. ASSUME NEW i \in DOMAIN rest, rest[i].op = "delete"
      PROVE  ~ Flagged(rest[i].g, rest[i].f)'
  <2>1. PICK h, f : h = rest[i].g /\ f = rest[i].f
    OBVIOUS
  <2>2. i + 1 \in Statements /\ Script[i + 1].op = "delete" /\ Script[i + 1].g = h /\ Script[i + 1].f = f
    BY <1>2, <1>3, <2>1
  <2>3. finder.pc = "members" /\ h = finder.group
    BY <2>2 DEF Shapes, ScriptOrder
  <2>4. ~ Flagged(h, f)
    BY <2>2 DEF LowIsUnflagged
  <2>5. ~ Flagged(h, f)'
    BY <2>3, <2>4
  <2>6. QED
    BY <2>1, <2>5 DEF Flagged
<1>4. ASSUME finder'.pc = "members", NEW f \in DOMAIN finder'.low
      PROVE  ~ Flagged(finder.group, f)'
  <2>1. finder.pc = "members" /\ f \in DOMAIN finder.low /\ finder'.group = g
    BY <1>1, <1>4 DEF SameFinder
  <2>2. ~ Flagged(g, f)
    BY <1>1, <2>1 DEF LowIsUnflagged
  <2>3. ~ Flagged(g, f)'
    BY <1>1, <2>1, <2>2
  <2>4. QED
    BY <2>1, <2>3 DEF Flagged
<1>5. \A i \in Statements' : (Script[i].op = "delete" => ~ Flagged(Script[i].g, Script[i].f))'
  BY <1>2, <1>3 DEF Flagged
<1>6. QED
  BY <1>4, <1>5 DEF LowIsUnflagged

LEMMA CacheIsKept ==
  ASSUME CacheAgrees, SameFinder, finder'.reps = finder.reps, DOMAIN groups' = DOMAIN groups,
         \A g \in DOMAIN groups : \/ finder.pc = "files" /\ WillReload(g)'
                                  \/ /\ groups'[g].rep = groups[g].rep
                                     /\ WillReload(g) => WillReload(g)',
         finder.pc # "ungrouped" 
  PROVE  CacheAgrees'
BY DEF CacheAgrees, SameFinder

\* A member is inserted; one that was there keeps its row.
LEMMA InsertContent ==
  ASSUME Shapes, Content, NEW s, StepsOn(s), s.op = "insert", SameFinder, finder'.reps = finder.reps,
         s.flag \in BOOLEAN,
         members' = [row \in DOMAIN members \cup {<<s.g, s.f>>} |->
                       IF row \in DOMAIN members THEN members[row]
                                                 ELSE [score |-> s.score, flag |-> s.flag]],
         unmarked' = IF Conflict(s) THEN unmarked \cup {s.g} ELSE unmarked,
         UNCHANGED <<threshold, similarity, groups, moved>>
  PROVE  Content'
<1>1. ASSUME NEW g, NEW f
      PROVE  /\ Flagged(g, f)' <=> \/ Flagged(g, f)
                                   \/ g = s.g /\ f = s.f /\ s.flag /\ <<s.g, s.f>> \notin DOMAIN members
             /\ <<g, f>> \in DOMAIN members' <=> <<g, f>> \in DOMAIN members \/ (g = s.g /\ f = s.f)
  <2>1. PICK h, x, score, flag : h = s.g /\ x = s.f /\ score = s.score /\ flag = s.flag
    OBVIOUS
  <2>2. members' = [row \in DOMAIN members \cup {<<h, x>>} |->
                      IF row \in DOMAIN members THEN members[row] ELSE [score |-> score, flag |-> flag]]
    BY <2>1
  <2>3. <<g, f>> \in DOMAIN members' <=> <<g, f>> \in DOMAIN members \/ (g = h /\ f = x)
    BY <2>2
  <2>4. CASE <<g, f>> \in DOMAIN members
    <3>1. members'[<<g, f>>] = members[<<g, f>>]
      BY <2>2, <2>4
    <3>2. g = h /\ f = x => <<h, x>> \in DOMAIN members
      BY <2>4
    <3>3. QED
      BY <2>1, <2>3, <2>4, <3>1, <3>2 DEF Flagged
  <2>5. CASE <<g, f>> \notin DOMAIN members
    <3>1. g = h /\ f = x => members'[<<g, f>>].flag = flag
      BY <2>2, <2>5
    <3>2. QED
      BY <2>1, <2>3, <2>5, <3>1 DEF Flagged
  <2>6. QED
    BY <2>4, <2>5
<1>2. \A g, f : KeepsLater(g, f)
  <2> SUFFICES ASSUME NEW g, NEW f
               PROVE  KeepsLater(g, f)
    OBVIOUS
  <2>1. /\ WillInsert(g, f) <=> (g = s.g /\ f = s.f) \/ WillInsert(g, f)'
        /\ WillFlag(g, f) <=> (g = s.g /\ f = s.f /\ s.flag) \/ WillFlag(g, f)'
        /\ WillUnflag(g, f) <=> WillUnflag(g, f)'
        /\ WillUpdate(g) <=> WillUpdate(g)'
        /\ WillUpdateTo(g, f) <=> WillUpdateTo(g, f)'
    BY FirstOrLater DEF Shapes
  <2>2. RepLater(g, f)' <=> RepLater(g, f)
    BY <2>1 DEF RepLater
  <2>3. FlaggedLater(g, f)' => FlaggedLater(g, f)
    BY <1>1, <2>1, Zenon DEF FlaggedLater
  <2>4. ASSUME g \notin unmarked', FlaggedLater(g, f)
        PROVE  FlaggedLater(g, f)'
    <3>1. ~ (g = s.g /\ f = s.f /\ s.flag /\ <<s.g, s.f>> \in DOMAIN members)
      BY <2>4 DEF Conflict
    <3>2. QED
      BY <1>1, <2>1, <2>4, <3>1, Zenon DEF FlaggedLater
  <2>5. MemberLater(g, f)' => MemberLater(g, f)
    BY <1>1, <2>1, Zenon DEF MemberLater
  <2>6. QED
    BY <2>2, <2>3, <2>4, <2>5 DEF KeepsLater
<1>3. FlagsLater' /\ SimilarLater'
  <2>1. unmarked \subseteq unmarked'
    OBVIOUS
  <2>2. QED
    BY <1>2, <2>1, LaterIsKept DEF Content
<1>4. LowIsUnflagged'
  <2>1. finder.pc = "members" /\ s.flag => s.g # finder.group
    <3>1. 1 \in Statements /\ s = Script[1]
      BY TailOfScript DEF StepsOn, Shapes
    <3>2. QED
      BY <3>1 DEF Shapes, ScriptOrder
  <2>2. \A g, f : finder.pc = "members" /\ g = finder.group /\ Flagged(g, f)' => Flagged(g, f)
    BY <1>1, <2>1
  <2>3. QED
    BY <2>2, LowIsKept DEF Content
<1>5. CacheAgrees'
  <2>1. \A g : WillReload(g) => WillReload(g)'
    BY FirstOrLater DEF Shapes
  <2>2. finder.pc # "ungrouped"
    BY DEF Shapes, ScriptOrder, StepsOn
  <2>3. QED
    BY <2>1, <2>2, CacheIsKept DEF Content
<1>6. QED
  BY <1>3, <1>4, <1>5 DEF Content

\* After the inserts there is nothing to insert.
LEMMA NoInsertsLeft ==
  ASSUME Shapes, NEW s, StepsOn(s), s.op # "insert", NEW g, NEW f
  PROVE  ~ WillInsert(g, f) /\ ~ WillFlag(g, f) /\ ~ WillInsert(g, f)' /\ ~ WillFlag(g, f)'
<1>1. 1 \in Statements /\ s = Script[1] /\ Statements = 1 .. Len(Script) /\ Len(Script) \in Nat
  BY TailOfScript DEF StepsOn, Shapes
<1>2. \A i \in Statements : Script[i].op # "insert"
  BY <1>1 DEF Shapes, ScriptOrder
<1>3. ~ WillInsert(g, f) /\ ~ WillFlag(g, f)
  BY <1>2 DEF WillInsert, WillFlag
<1>4. QED
  BY <1>3, FirstOrLater DEF Shapes

\* Steps that leave rows, representatives and flags as they are.
LEMMA SameFlagsContent ==
  ASSUME Shapes, Content, NEW s, StepsOn(s), s.op \notin {"insert", "unflag", "update"}, SameFinder,
         UNCHANGED <<threshold, similarity, moved, unmarked>>, DOMAIN groups' = DOMAIN groups,
         \A g \in DOMAIN groups : groups'[g].rep = groups[g].rep,
         \A g, f : Flagged(g, f)' <=> Flagged(g, f),
         \A g, f : <<g, f>> \in DOMAIN members' => <<g, f>> \in DOMAIN members,
         \A g \in DOMAIN groups : WillReload(g) =>
           \/ WillReload(g)'
           \/ g \in DOMAIN finder'.reps /\ finder'.reps[g] = groups[g].rep,
         \A g \in DOMAIN finder.reps : finder'.reps[g] = finder.reps[g] \/ finder'.reps[g] = groups[g].rep,
         \A g \in DOMAIN groups : g \in DOMAIN finder.reps => g \in DOMAIN finder'.reps
  PROVE  Content'
<1>1. ASSUME NEW g \in DOMAIN groups, NEW f \in Files
      PROVE  KeepsLater(g, f)
  <2>1. /\ WillInsert(g, f) <=> WillInsert(g, f)'
        /\ WillFlag(g, f) <=> WillFlag(g, f)'
        /\ WillUnflag(g, f) <=> WillUnflag(g, f)'
        /\ WillUpdate(g) <=> WillUpdate(g)'
        /\ WillUpdateTo(g, f) <=> WillUpdateTo(g, f)'
    BY FirstOrLater DEF Shapes
  <2>2. RepLater(g, f)' <=> RepLater(g, f)
    BY <2>1 DEF RepLater
  <2>3. FlaggedLater(g, f)' <=> FlaggedLater(g, f)
    BY <2>1, Zenon DEF FlaggedLater
  <2>4. MemberLater(g, f)' => MemberLater(g, f)
    BY <2>1, Zenon DEF MemberLater
  <2>5. QED
    BY <2>2, <2>3, <2>4 DEF KeepsLater
<1>2. FlagsLater' /\ SimilarLater'
  <2>1. unmarked \subseteq unmarked'
    OBVIOUS
  <2>2. QED
    BY <1>1, <2>1, LaterIsKept DEF Content
<1>3. LowIsUnflagged'
  BY LowIsKept DEF Content
<1>4. CacheAgrees'
  BY DEF Content, CacheAgrees, SameFinder
<1>5. QED
  BY <1>2, <1>3, <1>4 DEF Content

\* The representative that was replaced loses its flag.
LEMMA UnflagContent ==
  ASSUME Shapes, Content, NEW s, StepsOn(s), s.op = "unflag", SameFinder, finder'.reps = finder.reps,
         members' = IF <<s.g, s.f>> \in DOMAIN members
                      THEN [members EXCEPT ![<<s.g, s.f>>].flag = FALSE] ELSE members,
         UNCHANGED <<threshold, similarity, groups, moved, unmarked>>
  PROVE  Content'
<1>1. ASSUME NEW g, NEW f
      PROVE  /\ Flagged(g, f)' <=> Flagged(g, f) /\ ~ (g = s.g /\ f = s.f)
             /\ <<g, f>> \in DOMAIN members' <=> <<g, f>> \in DOMAIN members
  <2>1. PICK h, x : h = s.g /\ x = s.f
    OBVIOUS
  <2>2. members' = IF <<h, x>> \in DOMAIN members
                     THEN [members EXCEPT ![<<h, x>>].flag = FALSE] ELSE members
    BY <2>1
  <2>3. <<g, f>> \in DOMAIN members' <=> <<g, f>> \in DOMAIN members
    BY <2>2
  <2>4. CASE g = h /\ f = x
    <3>1. <<h, x>> \in DOMAIN members => members[<<h, x>>] \in [score : Levels, flag : BOOLEAN]
      BY DEF Shapes, TypeOK
    <3>2. <<h, x>> \in DOMAIN members => members'[<<h, x>>].flag = FALSE
      BY <2>2, <3>1
    <3>3. QED
      BY <2>1, <2>3, <2>4, <3>2 DEF Flagged
  <2>5. CASE ~ (g = h /\ f = x)
    <3>1. <<g, f>> \in DOMAIN members => members'[<<g, f>>] = members[<<g, f>>]
      BY <2>2, <2>5
    <3>2. QED
      BY <2>1, <2>3, <2>5, <3>1 DEF Flagged
  <2>6. QED
    BY <2>4, <2>5
<1>2. ASSUME NEW g \in DOMAIN groups, NEW f \in Files
      PROVE  KeepsLater(g, f)
  <2>1. /\ WillInsert(g, f) <=> WillInsert(g, f)'
        /\ WillUnflag(g, f) <=> (g = s.g /\ f = s.f) \/ WillUnflag(g, f)'
        /\ WillUpdate(g) <=> WillUpdate(g)'
        /\ WillUpdateTo(g, f) <=> WillUpdateTo(g, f)'
        /\ ~ WillFlag(g, f) /\ ~ WillFlag(g, f)'
    BY FirstOrLater, NoInsertsLeft DEF Shapes
  <2>2. RepLater(g, f)' <=> RepLater(g, f)
    BY <2>1 DEF RepLater
  <2>3. FlaggedLater(g, f)' <=> FlaggedLater(g, f)
    BY <1>1, <2>1, Zenon DEF FlaggedLater
  <2>4. MemberLater(g, f)' => MemberLater(g, f)
    BY <1>1, <2>1, Zenon DEF MemberLater
  <2>5. QED
    BY <2>2, <2>3, <2>4 DEF KeepsLater
<1>3. FlagsLater' /\ SimilarLater'
  <2>1. unmarked \subseteq unmarked'
    OBVIOUS
  <2>2. QED
    BY <1>2, <2>1, LaterIsKept DEF Content
<1>4. LowIsUnflagged'
  BY <1>1, LowIsKept DEF Content
<1>5. CacheAgrees'
  <2>1. \A g : WillReload(g) => WillReload(g)'
    BY FirstOrLater DEF Shapes
  <2>2. finder.pc # "ungrouped"
    BY DEF Shapes, ScriptOrder, StepsOn
  <2>3. QED
    BY <2>1, <2>2, CacheIsKept DEF Content
<1>6. QED
  BY <1>3, <1>4, <1>5 DEF Content

\* The row of the group gets its representative: no other update comes.
LEMMA UpdateContent ==
  ASSUME Shapes, Content, NEW s, StepsOn(s), s.op = "update", SameFinder, finder'.reps = finder.reps,
         GroupRow(s.g, [rep |-> s.rep, count |-> s.count]),
         UNCHANGED <<threshold, similarity, members, moved, unmarked>>
  PROVE  Content'
<1>1. /\ DOMAIN groups' = DOMAIN groups
      /\ \A g \in DOMAIN groups : groups'[g].rep = IF g = s.g THEN s.rep ELSE groups[g].rep
  <2>1. PICK h, x, count : h = s.g /\ x = s.rep /\ count = s.count
    OBVIOUS
  <2>2. GroupRow(h, [rep |-> x, count |-> count])
    BY <2>1
  <2>3. DOMAIN groups' = DOMAIN groups /\ \A g \in DOMAIN groups : groups'[g].rep = IF g = h THEN x ELSE groups[g].rep
    BY <2>2 DEF GroupRow
  <2>4. QED
    BY <2>1, <2>3
<1>2. 1 \in Statements /\ s = Script[1] /\ finder.pc # "ungrouped"
  BY TailOfScript DEF StepsOn, Shapes, ScriptOrder
<1>3. ASSUME NEW g, NEW f
      PROVE  ~ WillUpdate(g)' /\ ~ WillUpdateTo(g, f)'
  <2>1. PICK rest : rest = Tail(Script)
    OBVIOUS
  <2>2. /\ Statements' = DOMAIN rest /\ Script' = rest /\ DOMAIN rest = 1 .. Len(Script) - 1
        /\ Len(Script) \in Nat
        /\ \A i \in DOMAIN rest : i + 1 \in Statements /\ rest[i] = Script[i + 1]
    BY <2>1, TailOfScript DEF StepsOn, Statements, Shapes
  <2>3. \A i \in DOMAIN rest : i + 1 # 1 /\ rest[i].op # "update"
    BY <1>2, <2>2 DEF Shapes, ScriptOrder
  <2>4. QED
    BY <2>2, <2>3 DEF WillUpdate, WillUpdateTo
<1>4. ASSUME NEW g \in DOMAIN groups, NEW f \in Files
      PROVE  KeepsLater(g, f)
  <2>1. /\ WillInsert(g, f) <=> WillInsert(g, f)'
        /\ WillFlag(g, f) <=> WillFlag(g, f)'
        /\ WillUnflag(g, f) <=> WillUnflag(g, f)'
        /\ WillUpdate(g) <=> g = s.g
        /\ WillUpdateTo(g, f) <=> g = s.g /\ f = s.rep
    BY <1>3, FirstOrLater DEF Shapes
  <2>2. RepLater(g, f)' <=> groups'[g].rep = f
    BY <1>3 DEF RepLater
  <2>3. RepLater(g, f)' <=> RepLater(g, f)
    BY <1>1, <2>1, <2>2 DEF RepLater
  <2>4. FlaggedLater(g, f)' <=> FlaggedLater(g, f)
    BY <2>1 DEF FlaggedLater, Flagged
  <2>5. MemberLater(g, f)' => MemberLater(g, f)
    BY <2>1 DEF MemberLater
  <2>6. QED
    BY <2>3, <2>4, <2>5 DEF KeepsLater
<1>5. FlagsLater' /\ SimilarLater'
  <2>1. unmarked \subseteq unmarked'
    OBVIOUS
  <2>2. QED
    BY <1>1, <1>4, <2>1, LaterIsKept DEF Content
<1>6. LowIsUnflagged'
  <2>1. \A g, f : finder.pc = "members" /\ g = finder.group /\ Flagged(g, f)' => Flagged(g, f)
    BY DEF Flagged
  <2>2. QED
    BY <2>1, LowIsKept DEF Content
<1>7. CacheAgrees'
  <2>1. \A g : WillReload(g) => WillReload(g)'
    BY FirstOrLater DEF Shapes
  <2>2. finder.pc = "files" => WillReload(s.g)'
    <3>1. finder.pc = "files" => WillReload(s.g)
      BY <1>2 DEF Shapes, ScriptOrder, WillReload
    <3>2. QED
      BY <2>1, <3>1
  <2>3. \A g \in DOMAIN groups : g # s.g => groups'[g].rep = groups[g].rep
    BY <1>1
  <2>4. finder.pc \in {"files", "members"}
    BY DEF Shapes, ScriptOrder, StepsOn
  <2>5. QED
    BY <1>1, <2>1, <2>2, <2>3, <2>4 DEF Content, CacheAgrees, SameFinder
<1>8. QED
  BY <1>5, <1>6, <1>7 DEF Content

LEMMA DeleteContent ==
  ASSUME Shapes, Content, NEW s, StepsOn(s), s.op = "delete", SameFinder, finder'.reps = finder.reps,
         members' = [row \in DOMAIN members \ {<<s.g, s.f>>} |-> members[row]],
         UNCHANGED <<threshold, similarity, groups, moved, unmarked>>
  PROVE  Content'
<1>1. ~ Flagged(s.g, s.f)
  BY TailOfScript DEF StepsOn, Shapes, Content, LowIsUnflagged
<1>2. ASSUME NEW g, NEW f
      PROVE  /\ Flagged(g, f)' <=> Flagged(g, f)
             /\ <<g, f>> \in DOMAIN members' => <<g, f>> \in DOMAIN members
  <2>1. PICK h, x : h = s.g /\ x = s.f
    OBVIOUS
  <2>2. members' = [row \in DOMAIN members \ {<<h, x>>} |-> members[row]] /\ ~ Flagged(h, x)
    BY <1>1, <2>1
  <2>3. <<g, f>> \in DOMAIN members' <=> <<g, f>> \in DOMAIN members /\ ~ (g = h /\ f = x)
    BY <2>2
  <2>4. <<g, f>> \in DOMAIN members' => members'[<<g, f>>] = members[<<g, f>>]
    BY <2>2
  <2>5. QED
    BY <2>2, <2>3, <2>4 DEF Flagged
<1>3. \A g : WillReload(g) => WillReload(g)'
  BY FirstOrLater DEF Shapes
<1>4. QED
  BY <1>2, <1>3, SameFlagsContent

LEMMA CountContent ==
  ASSUME Shapes, Content, NEW s, StepsOn(s), s.op \in {"count", "countone"},
         SameFinder, finder'.reps = finder.reps,
         \/ GroupRow(s.g, [groups[s.g] EXCEPT !.count = s.count])
         \/ GroupRow(s.g, [groups[s.g] EXCEPT !.count = @ + 1]),
         UNCHANGED <<threshold, similarity, members, moved, unmarked>>
  PROVE  Content'
<1>1. /\ DOMAIN groups' = DOMAIN groups
      /\ \A g \in DOMAIN groups : groups'[g].rep = groups[g].rep
  <2>1. PICK h, count : /\ h = s.g
                        /\ GroupRow(h, [groups[h] EXCEPT !.count = count])
    OBVIOUS
  <2>2. \A g \in DOMAIN groups : groups[g] \in [rep : Files, count : Int]
    BY DEF Shapes, TypeOK
  <2>3. QED
    BY <2>1, <2>2 DEF GroupRow
<1>2. \A g, f : /\ Flagged(g, f)' <=> Flagged(g, f)
                /\ <<g, f>> \in DOMAIN members' => <<g, f>> \in DOMAIN members
  BY DEF Flagged
<1>3. \A g : WillReload(g) => WillReload(g)'
  BY FirstOrLater DEF Shapes
<1>4. QED
  BY <1>1, <1>2, <1>3, SameFlagsContent

LEMMA ReloadContent ==
  ASSUME Shapes, Content, NEW s, StepsOn(s), s.op = "reload", SameFinder, NEW g, s.g = g,
         \A h \in DOMAIN finder.reps : h # g => h \in DOMAIN finder'.reps /\ finder'.reps[h] = finder.reps[h],
         g \in DOMAIN groups => g \in DOMAIN finder'.reps /\ finder'.reps[g] = groups[g].rep,
         UNCHANGED <<threshold, similarity, groups, members, moved, unmarked>>
  PROVE  Content'
<1>1. ASSUME NEW h \in DOMAIN groups, NEW f \in Files
      PROVE  KeepsLater(h, f)
  <2>1. /\ WillInsert(h, f) <=> WillInsert(h, f)'
        /\ WillFlag(h, f) <=> WillFlag(h, f)'
        /\ WillUnflag(h, f) <=> WillUnflag(h, f)'
        /\ WillUpdate(h) <=> WillUpdate(h)'
        /\ WillUpdateTo(h, f) <=> WillUpdateTo(h, f)'
    BY FirstOrLater DEF Shapes
  <2>2. RepLater(h, f)' <=> RepLater(h, f)
    BY <2>1 DEF RepLater
  <2>3. FlaggedLater(h, f)' <=> FlaggedLater(h, f)
    BY <2>1 DEF FlaggedLater, Flagged
  <2>4. MemberLater(h, f)' => MemberLater(h, f)
    BY <2>1 DEF MemberLater
  <2>5. QED
    BY <2>2, <2>3, <2>4 DEF KeepsLater
<1>2. FlagsLater' /\ SimilarLater'
  <2>1. unmarked \subseteq unmarked'
    OBVIOUS
  <2>2. QED
    BY <1>1, <2>1, LaterIsKept DEF Content
<1>3. LowIsUnflagged'
  <2>1. \A h, f : finder.pc = "members" /\ h = finder.group /\ Flagged(h, f)' => Flagged(h, f)
    BY DEF Flagged
  <2>2. QED
    BY <2>1, LowIsKept DEF Content
<1>4. CacheAgrees'
  <2>1. \A h : WillReload(h) => h = g \/ WillReload(h)'
    BY FirstOrLater DEF Shapes
  <2>2. QED
    BY <2>1 DEF Content, CacheAgrees, SameFinder
<1>5. QED
  BY <1>2, <1>3, <1>4 DEF Content

\* The second half of a move: the file, that is known to have moved, is added to
\* another group, or put back.
LEMMA AddContent ==
  ASSUME Shapes, Content, Script # <<>>, NEW s, s = Script[1], s.op = "add", 1 \in Statements,
         finder' = [finder EXCEPT !.script = NewScript(s)],
         UNCHANGED <<threshold, similarity, processed, groups, members, lastGroup, checkpoint,
                     reset, late, moved, unmarked>>
  PROVE  Content'
<1>1. PICK new, g, f, score, from, less, old, rep, count :
        /\ new = NewScript(s) /\ g = s.g /\ f = s.f /\ score = s.score /\ from = s.from /\ old = s.old
        /\ less = finder.counts[s.from] - 1 /\ groups[g].rep = rep /\ groups[g].count + 1 = count
  OBVIOUS
<1>2. /\ Script' = new /\ finder'.pc = "members" /\ finder'.group = finder.group
      /\ finder'.low = finder.low /\ f \in moved
  <2>1. finder' = [finder EXCEPT !.script = new]
    BY <1>1
  <2>2. QED
    BY <1>1, <2>1, MoveShapes
<1>3. NothingWritten /\ finder.pc = "members" /\ f \in Files
  <2>1. Statements = 1 .. Len(Script) /\ Len(Script) \in Nat
    BY TailOfScript DEF Shapes
  <2>2. \A j \in Statements : j <= 1
    BY DEF Shapes, ScriptOrder
  <2>3. \A j \in Statements : j = 1
    BY <2>1, <2>2
  <2>4. finder.pc = "members" /\ StatementType(s)
    BY DEF Shapes, ScriptOrder, ScriptTypes
  <2>5. f \in Files
    BY <1>1, <2>4 DEF StatementType, Shapes, TypeOK
  <2>6. QED
    BY <2>3, <2>4, <2>5 DEF NothingWritten, Writes
<1>4. IsSecondHalf(new, g, f, score, from, less, old)
  BY <1>1 DEF NewScript, IsSecondHalf
<1>5. \/ /\ g \in DOMAIN groups /\ isBetterRepresentative(f, rep)
         /\ SwapMove(new, g, f, score, rep, count, from, less)
      \/ g \in DOMAIN groups /\ PlainMove(new, g, f, score, rep, count, from, less)
      \/ g \notin DOMAIN groups /\ PutBack(new, from, f, old)
  <2>1. groups[g].rep = rep /\ groups[g].count + 1 = count
    BY <1>1
  <2>2. QED
    BY <1>4, <2>1, MoveScript
<1>6. FlagsLater' /\ (\A h, x : WillInsert(h, x)' => x = f) /\ \A i \in DOMAIN new : new[i].op # "delete"
  <2>1. CASE g \in DOMAIN groups /\ \/ isBetterRepresentative(f, rep)
                                       /\ SwapMove(new, g, f, score, rep, count, from, less)
                                    \/ PlainMove(new, g, f, score, rep, count, from, less)
    <3>1. AddsFirst(new, g, f, score, rep, count) /\ \A i \in DOMAIN new : new[i].op # "delete"
      <4>1. CASE isBetterRepresentative(f, rep) /\ SwapMove(new, g, f, score, rep, count, from, less)
        BY <4>1 DEF AddsFirst, SwapMove, SetCount, CountOne, Writes, Swap, Insert, Unflag, Update
      <4>2. CASE PlainMove(new, g, f, score, rep, count, from, less)
        BY <4>2 DEF AddsFirst, PlainMove, SetCount, CountOne, Writes, NoSwap, Insert, Update
      <4>3. QED
        BY <2>1, <4>1, <4>2
    <3>2. FlagsLater /\ rep \in Files /\ groups[g].rep = rep /\ g \in DOMAIN groups
      BY <1>1, <2>1 DEF Content, Shapes, TypeOK
    <3>3. FlagsLater' /\ InsertsOnly(g, f)'
      BY <1>2, <1>3, <3>1, <3>2, AddFlags
    <3>4. QED
      BY <3>1, <3>3 DEF InsertsOnly
  <2>2. CASE PutBack(new, from, f, old)
    <3>1. /\ DOMAIN new = {1} /\ new[1].op = "insert" /\ new[1].f = f /\ new[1].flag = FALSE
      BY <2>2 DEF PutBack, Insert
    <3>2. /\ \A i \in DOMAIN new : new[i].op = "insert" => new[i].flag = FALSE
          /\ \A i \in DOMAIN new : new[i].op \notin {"unflag", "update"}
      BY <3>1
    <3>3. FlagsLater'
      BY <1>2, <1>3, <3>2, PlainFlags DEF Content
    <3>4. \A h, x : WillInsert(h, x)' => x = f
      BY <1>2, <3>1 DEF WillInsert, Statements
    <3>5. QED
      BY <3>1, <3>3, <3>4
  <2>3. QED
    BY <1>5, <2>1, <2>2
<1>7. LowIsUnflagged'
  <2>1. \A x \in DOMAIN finder.low : ~ Flagged(finder.group, x)
    BY <1>3 DEF Content, LowIsUnflagged
  <2>2. \A x \in DOMAIN finder'.low : ~ Flagged(finder.group, x)'
    BY <1>2, <2>1 DEF Flagged
  <2>3. \A i \in Statements' : (Script[i].op # "delete")'
    BY <1>2, <1>6 DEF Statements
  <2>4. QED
    BY <2>2, <2>3 DEF LowIsUnflagged
<1>8. CacheAgrees'
  BY <1>2 DEF CacheAgrees
<1>9. SimilarLater'
  <2>1. ASSUME NEW h, NEW x \in Files \ moved, MemberLater(h, x)'
        PROVE  MemberLater(h, x)
    BY <1>2, <1>6, <2>1 DEF MemberLater
  <2>2. \A x, y : Similar(x, y)' <=> Similar(x, y)
    BY SameSimilar
  <2>3. QED
    BY <2>1, <2>2 DEF SimilarLater, Content
<1>10. QED
  BY <1>6, <1>7, <1>8, <1>9 DEF Content

LEMMA ExecuteContent ==
  ASSUME Shapes, Content, Execute
  PROVE  Content'
<1>1. PICK s, rest : s = Script[1] /\ rest = Tail(Script)
  OBVIOUS
<1>2. /\ Script # <<>> /\ 1 \in Statements /\ StatementType(s)
      /\ UNCHANGED <<threshold, similarity, processed, lastGroup, checkpoint, reset, disturbances,
                     raced, late, moved>>
  BY <1>1, ExecuteCases
<1>3. \/ /\ WritesTables(s) /\ finder' = [finder EXCEPT !.script = rest]
         /\ s.op \notin {"reload", "add"}
      \/ /\ s.op = "reload" /\ UNCHANGED <<groups, members>>
         /\ finder' = [finder EXCEPT !.script = rest, !.reps = Cached(s.g)]
      \/ /\ s.op = "add" /\ UNCHANGED <<groups, members>>
         /\ finder' = [finder EXCEPT !.script = NewScript(s)]
  BY <1>1, ExecuteCases
<1>4. unmarked' = IF Conflict(s) THEN unmarked \cup {s.g} ELSE unmarked
  BY <1>1, ExecuteCases
<1>5. s.op # "insert" => UNCHANGED unmarked
  BY <1>4 DEF Conflict
<1>6. CASE WritesTables(s) /\ finder' = [finder EXCEPT !.script = rest]
  <2>1. Script' = rest /\ SameFinder /\ finder'.reps = finder.reps
    BY <1>1, <1>2, <1>6, DoneRecord DEF SameFinder
  <2>2. StepsOn(s)
    BY <1>1, <1>2, <2>1 DEF StepsOn
  <2>3. CASE /\ s.op = "insert"
             /\ members' = [row \in DOMAIN members \cup {<<s.g, s.f>>} |->
                              IF row \in DOMAIN members THEN members[row]
                                                        ELSE [score |-> s.score, flag |-> s.flag]]
             /\ UNCHANGED groups
    <3>1. s.flag \in BOOLEAN
      BY <1>2, <2>3 DEF StatementType
    <3>2. QED
      BY <1>2, <1>4, <2>1, <2>2, <2>3, <3>1, InsertContent
  <2>4. CASE /\ s.op = "unflag"
             /\ members' = IF <<s.g, s.f>> \in DOMAIN members
                             THEN [members EXCEPT ![<<s.g, s.f>>].flag = FALSE] ELSE members
             /\ UNCHANGED groups
    <3>1. UNCHANGED unmarked
      BY <1>5, <2>4
    <3>2. QED
      BY <1>2, <2>1, <2>2, <2>4, <3>1, UnflagContent
  <2>5. CASE /\ s.op = "update"
             /\ GroupRow(s.g, [rep |-> s.rep, count |-> s.count])
             /\ UNCHANGED members
    <3>1. UNCHANGED unmarked
      BY <1>5, <2>5
    <3>2. QED
      BY <1>2, <2>1, <2>2, <2>5, <3>1, UpdateContent
  <2>6. CASE /\ s.op = "delete"
             /\ members' = [row \in DOMAIN members \ {<<s.g, s.f>>} |-> members[row]]
             /\ UNCHANGED groups
    <3>1. UNCHANGED unmarked
      BY <1>5, <2>6
    <3>2. QED
      BY <1>2, <2>1, <2>2, <2>6, <3>1, DeleteContent
  <2>7. CASE /\ s.op \in {"count", "countone"}
             /\ \/ GroupRow(s.g, [groups[s.g] EXCEPT !.count = s.count])
                \/ GroupRow(s.g, [groups[s.g] EXCEPT !.count = @ + 1])
             /\ UNCHANGED members
    <3>1. UNCHANGED unmarked
      BY <1>5, <2>7
    <3>2. QED
      BY <1>2, <2>1, <2>2, <2>7, <3>1, CountContent
  <2>8. QED
    BY <1>6, <2>3, <2>4, <2>5, <2>6, <2>7 DEF WritesTables
<1>7. CASE /\ s.op = "reload" /\ UNCHANGED <<groups, members>>
           /\ finder' = [finder EXCEPT !.script = rest, !.reps = Cached(s.g)]
  <2>1. PICK g \in Ids : s.g = g
    BY <1>2 DEF StatementType
  <2>2. finder' = [finder EXCEPT !.script = rest, !.reps = Cached(g)]
    BY <1>7, <2>1
  <2>3. /\ Script' = rest /\ SameFinder
        /\ \A h \in DOMAIN finder.reps : h # g => h \in DOMAIN finder'.reps /\ finder'.reps[h] = finder.reps[h]
        /\ g \in DOMAIN groups => g \in DOMAIN finder'.reps /\ finder'.reps[g] = groups[g].rep
    <3>1. rest = Tail(Script) /\ Script # <<>> /\ UNCHANGED <<processed, groups, lastGroup, moved>>
      BY <1>1, <1>2, <1>7
    <3>2. /\ Script' = rest /\ finder'.pc = finder.pc /\ finder'.group = finder.group /\ finder'.low = finder.low
          /\ \A h \in DOMAIN finder.reps : h # g => h \in DOMAIN finder'.reps /\ finder'.reps[h] = finder.reps[h]
          /\ g \in DOMAIN groups => g \in DOMAIN finder'.reps /\ finder'.reps[g] = groups[g].rep
      BY <2>2, <3>1, ReloadRecord
    <3>3. QED
      BY <3>2 DEF SameFinder
  <2>4. StepsOn(s) /\ UNCHANGED unmarked
    BY <1>1, <1>2, <1>5, <1>7, <2>3 DEF StepsOn
  <2>5. QED
    BY <1>2, <1>7, <2>1, <2>3, <2>4, ReloadContent
<1>8. CASE /\ s.op = "add" /\ UNCHANGED <<groups, members>>
           /\ finder' = [finder EXCEPT !.script = NewScript(s)]
  <2>1. UNCHANGED <<reset, late, unmarked, checkpoint>>
    BY <1>2, <1>5, <1>8
  <2>2. QED
    BY <1>1, <1>2, <1>8, <2>1, AddContent
<1>9. QED
  BY <1>3, <1>6, <1>7, <1>8

-----------------------------------------------------------------------------
(* Groups, flags and the cache: the rest of the server.                     *)

\* Without groups there is nothing to agree.
LEMMA NoGroupsContent ==
  ASSUME groups = <<>>, Script = <<>>, finder.pc = "idle"
  PROVE  Content
<1>1. DOMAIN groups = {} /\ Statements = {}
  BY DEF Statements
<1>2. QED
  BY <1>1 DEF Content, FlagsLater, LowIsUnflagged, CacheAgrees, SimilarLater

\* A step that leaves the run, the tables and the lower threshold alone.
LEMMA SameRunContent ==
  ASSUME Content, UNCHANGED <<finder, similarity, groups, members, moved, unmarked>>,
         ThresholdMin' = ThresholdMin
  PROVE  Content'
<1>1. Script' = Script /\ Statements' = Statements
  BY DEF Script, Statements
<1>2. ASSUME NEW g, NEW f
      PROVE  /\ FlaggedLater(g, f)' <=> FlaggedLater(g, f)
             /\ RepLater(g, f)' <=> RepLater(g, f)
             /\ MemberLater(g, f)' <=> MemberLater(g, f)
             /\ WillReload(g)' <=> WillReload(g)
             /\ Flagged(g, f)' <=> Flagged(g, f)
  BY <1>1 DEF FlaggedLater, RepLater, WillUpdateTo, Flagged, WillFlag, WillUnflag, WillUpdate,
              MemberLater, WillInsert, WillReload
<1>3. FlagsLater'
  BY <1>2 DEF Content, FlagsLater
<1>4. LowIsUnflagged'
  BY <1>1 DEF Content, LowIsUnflagged, Flagged
<1>5. CacheAgrees'
  BY <1>2 DEF Content, CacheAgrees
<1>6. \A f, h : Similar(f, h)' <=> Similar(f, h)
  BY DEF Similar, Sim
<1>7. SimilarLater'
  BY <1>2, <1>6 DEF Content, SimilarLater
<1>8. QED
  BY <1>3, <1>4, <1>5, <1>7 DEF Content

LEMMA RunContent ==
  ASSUME Shapes, Content, Run
  PROVE  Content'
<1>1. CASE \/ Start \/ Query \/ LoadRepresentatives \/ LoadUngrouped \/ upsertCheckpoint \/ LoadGroups
           \/ MembersDone \/ BatchDone \/ \E g \in finder.todo : LoadMembers(g)
  BY <1>1, ReadingContent
<1>2. CASE \E f \in finder.batch : Examine(f)
  BY <1>2, ExamineContent
<1>3. CASE \E f \in finder.leftover : GroupLeftover(f)
  BY <1>3, GroupLeftoverContent
<1>4. CASE Execute
  BY <1>4, ExecuteContent
<1>5. CASE \E f \in Files : CheckMember(f)
  BY <1>5, CheckMemberContent
<1>6. QED
  BY <1>1, <1>2, <1>3, <1>4, <1>5 DEF Run

LEMMA ContentIsKept ==
  ASSUME Shapes, QuietReset, ContentInv, [Next]_vars
  PROVE  ContentInv'
<1>1. CASE UNCHANGED vars
  <2>1. UNCHANGED <<finder, similarity, groups, members, moved, unmarked, raced, reset>> /\ ThresholdMin' = ThresholdMin
    BY <1>1 DEF vars, tables, history, ThresholdMin
  <2>2. QED
    BY <2>1, SameRunContent DEF ContentInv
<1>2. CASE Run
  <2>1. ~ raced' => ~ raced /\ reset = "none"
    BY <1>2, RunFacts
  <2>2. QED
    BY <1>2, <2>1, RunContent DEF ContentInv
<1>3. CASE \E f \in Files : FileProcessed(f)
  <2>1. UNCHANGED <<finder, similarity, groups, members, moved, unmarked, raced, reset>> /\ ThresholdMin' = ThresholdMin
    BY <1>3 DEF FileProcessed, tables, ThresholdMin
  <2>2. QED
    BY <2>1, SameRunContent DEF ContentInv
<1>4. CASE ResetMembers
  BY <1>4 DEF ResetMembers, ContentInv
<1>5. CASE ResetGroups
  BY <1>5 DEF ResetGroups, ContentInv
<1>6. CASE ResetCheckpoint
  <2>1. UNCHANGED <<finder, groups, raced>> /\ reset = "checkpoint"
    BY <1>6 DEF ResetCheckpoint, history
  <2>2. ASSUME ~ raced'
        PROVE  Content'
    <3>1. finder.pc = "idle" /\ groups = <<>>
      BY <2>1, <2>2 DEF QuietReset
    <3>2. Script = <<>>
      BY <3>1 DEF Shapes, ScriptOrder
    <3>3. groups' = <<>> /\ Script' = <<>> /\ finder'.pc = "idle"
      BY <2>1, <3>1, <3>2 DEF Script
    <3>4. DOMAIN groups' = {} /\ Statements' = {}
      BY <3>3 DEF Statements
    <3>5. QED
      BY <3>3, <3>4 DEF Content, FlagsLater, LowIsUnflagged, CacheAgrees, SimilarLater
  <2>3. QED
    BY <2>2 DEF ContentInv
<1>7. CASE \E range \in Thresholds : onConfigChange(Effective(range))
  <2>1. PICK range \in Thresholds : onConfigChange(Effective(range))
    BY <1>7
  <2>2. PICK new : new = Effective(range)
    OBVIOUS
  <2>3. /\ UNCHANGED <<finder, similarity, groups, members, moved, unmarked>>
        /\ threshold' = new /\ reset = "none" /\ raced' = (raced \/ finder.pc # "idle")
        /\ reset' = "none" => new[1] = ThresholdMin
    BY <2>1, <2>2 DEF onConfigChange, tables, Resets
  <2>4. ASSUME ~ raced', reset' = "none"
        PROVE  Content'
    <3>1. Content
      BY <2>3, <2>4 DEF ContentInv
    <3>2. ThresholdMin' = ThresholdMin
      BY <2>3, <2>4 DEF ThresholdMin
    <3>3. QED
      BY <2>3, <3>1, <3>2, SameRunContent
  <2>5. QED
    BY <2>4 DEF ContentInv
<1>8. CASE Crash
  BY <1>8 DEF Crash, ContentInv
<1>9. QED
  BY <1>1, <1>2, <1>3, <1>4, <1>5, <1>6, <1>7, <1>8 DEF Next, ResetStep

LEMMA InvAtTheStart ==
  ASSUME Init
  PROVE  Inv
<1>1. Shapes
  BY ShapesAtTheStart
<1>2. groups = <<>> /\ Script = <<>> /\ finder.pc = "idle" /\ reset = "none"
  BY DEF Init, Script, IdleFinder
<1>3. Content
  BY <1>2, NoGroupsContent
<1>4. QED
  BY <1>1, <1>2, <1>3 DEF Inv, QuietReset, ContentInv

LEMMA InvIsKept ==
  ASSUME Inv, [Next]_vars
  PROVE  Inv'
BY ShapesAreKept, QuietResetIsKept, ContentIsKept DEF Inv

\* Between two decisions of a run that nothing cuts short, the row of a group and the
\* flags of its members name the same representative, however files joined and moved.
THEOREM RepresentativesStayMarked == Spec => []RepresentativesAgree
<1>1. Init => Inv
  BY InvAtTheStart
<1>2. Inv /\ [Next]_vars => Inv'
  BY InvIsKept
<1>3. Inv => RepresentativesAgree
  <2> SUFFICES ASSUME Inv, ~ raced, reset = "none", finder.script = <<>>,
                      NEW g \in DOMAIN groups \ unmarked
               PROVE  { f \in Members(g) : members[<<g, f>>].flag } = {groups[g].rep}
    BY DEF RepresentativesAgree
  <2>1. Script = <<>> /\ FlagsLater
    BY DEF Inv, ContentInv, Content, Script
  <2>2. \A f \in Files : Flagged(g, f) <=> groups[g].rep = f
    BY <2>1, NothingLeft DEF FlagsLater
  <2>3. groups[g].rep \in Files
    BY DEF Inv, Shapes, TypeOK
  <2>4. QED
    BY <2>2, <2>3 DEF Flagged, Members
<1>4. QED
  BY <1>1, <1>2, <1>3, PTL DEF Spec

\* Whatever the order of files, batches and groups, and after any change of the
\* thresholds or reset that does not race with a run, files that grouping put
\* together resemble each other by the threshold that holds now.
THEOREM GroupsStaySimilar == Spec => []GroupsArePairwiseSimilar
<1>1. Init => Inv
  BY InvAtTheStart
<1>2. Inv /\ [Next]_vars => Inv'
  BY InvIsKept
<1>3. Inv => GroupsArePairwiseSimilar
  <2> SUFFICES ASSUME Inv, ~ raced, reset = "none", NEW g \in DOMAIN groups,
                      NEW f \in Members(g) \ moved, NEW h \in Members(g) \ moved
               PROVE  Similar(f, h)
    BY DEF GroupsArePairwiseSimilar, PairwiseSimilar
  <2>1. SimilarLater
    BY DEF Inv, ContentInv, Content
  <2>2. QED
    BY <2>1 DEF SimilarLater, MemberLater, Members
<1>4. QED
  BY <1>1, <1>2, <1>3, PTL DEF Spec

-----------------------------------------------------------------------------
(* Which pairs of files were compared: a second inductive invariant.         *)

\* Files that were processed before a batch passed them, and those of this batch.
InTime == processed \ late
Between(f) == finder.last < f /\ f <= finder.top

\* f is in a group, or will be when the script has been executed.
WillAdd(f) == \E i \in Statements : Script[i].op = "add" /\ Script[i].f = f
InGroup(f) == \E g \in DOMAIN groups : MemberLater(g, f)
Grouped(f) == WillAdd(f) \/ InGroup(f)
Unlike(f, h) == ~ areMetadataCompatible(f, h) \/ ~ Similar(f, h)
Apart(f, h) == Grouped(f) \/ Grouped(h) \/ Unlike(f, h)

\* The files that the checkpoint has passed were compared with each other.
PairsBefore ==
  \A f, h \in InTime : f # h /\ f <= checkpoint /\ h <= checkpoint => Apart(f, h)

\* The files of a batch are compared with the older files that have no group,
BatchKnown ==
  finder.pc \in {"reps", "ungrouped", "files"} => \A f \in InTime : Between(f) =>
    \/ f \in finder.batch
    \/ finder.pc = "files" /\ (Grouped(f) \/ \A u \in finder.ungrouped : Unlike(f, u))
OlderKnown ==
  finder.pc = "files" => \A f \in InTime : f <= finder.last => f \in finder.ungrouped \/ Grouped(f)
\* and those that get no group by that with each other.
LeftoverCompared ==
  finder.pc = "files" => \A f, h \in InTime :
    f # h /\ Between(f) /\ Between(h) => f \in finder.batch \cup finder.leftover \/ Apart(f, h)

\* The place of a run and the checkpoint.
PlaceKnown ==
  /\ finder.pc # "idle" => finder.last <= checkpoint
  /\ finder.pc \in {"cross", "group", "members"} => checkpoint = finder.top

\* What a run knows are groups that there are.
GroupsKnown ==
  /\ finder.pc \in {"ungrouped", "files", "group", "members"} => DOMAIN finder.reps \subseteq DOMAIN groups
  /\ \A i \in Statements : Script[i].op \in {"insert", "add"} => Script[i].g \in DOMAIN groups
  /\ \A row \in DOMAIN members : row[1] \in DOMAIN groups

\* A file that is taken out of a group is about to be added to one.
MovesAreWhole ==
  \A i \in Statements : Script[i].op = "delete" => WillAdd(Script[i].f)

Knowledge == BatchKnown /\ OlderKnown /\ LeftoverCompared
Compared == PairsBefore /\ Knowledge /\ PlaceKnown /\ GroupsKnown /\ MovesAreWhole

ComparedInv == ~ raced /\ reset = "none" => Compared

\* What the checkpoint and a run have passed are processed files, or none.
TopKnown ==
  /\ checkpoint = 0 \/ checkpoint \in processed
  /\ finder.top = 0 \/ finder.top \in processed
  /\ finder.pc \notin {"idle", "query"} => finder.last + finder.size <= finder.top

\* A reset that does not race with a run ends without members.
ResetRows ==
  ~ raced => /\ reset \in {"groups", "checkpoint"} => DOMAIN members = {}
             /\ reset = "members" => \A row \in DOMAIN members : row[1] \in DOMAIN groups

PairsInv == TopKnown /\ ResetRows /\ ComparedInv

\* Being compared goes both ways.
LEMMA ApartFacts ==
  ASSUME TypeOK, NEW f \in Files, NEW h \in Files
  PROVE  (Unlike(f, h) <=> Unlike(h, f)) /\ (Apart(f, h) <=> Apart(h, f))
<1>1. Similar(f, h) <=> Similar(h, f)
  BY SimilarFacts
<1>2. areMetadataCompatible(f, h) <=> areMetadataCompatible(h, f)
  <2>1. {f, h} = {h, f}
    OBVIOUS
  <2>2. QED
    BY <2>1 DEF areMetadataCompatible
<1>3. QED
  BY <1>1, <1>2 DEF Unlike, Apart

\* A step takes no file out of its group for good.
GroupedStays == \A f : Grouped(f) => Grouped(f)'
SameSim == UNCHANGED <<threshold, similarity>>

LEMMA UnlikeStays ==
  ASSUME SameSim, NEW f, NEW h
  PROVE  Unlike(f, h)' <=> Unlike(f, h)
<1>1. Similar(f, h)' <=> Similar(f, h)
  BY SameSimilar DEF SameSim
<1>2. QED
  BY <1>1 DEF Unlike, areMetadataCompatible

LEMMA ApartStays ==
  ASSUME SameSim, GroupedStays, NEW f, NEW h, Apart(f, h)
  PROVE  Apart(f, h)'
<1>1. Unlike(f, h)' <=> Unlike(f, h)
  BY UnlikeStays
<1>2. (Grouped(f) => Grouped(f)') /\ (Grouped(h) => Grouped(h)')
  BY DEF GroupedStays
<1>3. Grouped(f) \/ Grouped(h) \/ Unlike(f, h)
  BY DEF Apart
<1>4. Grouped(f)' \/ Grouped(h)' \/ Unlike(f, h)'
  BY <1>1, <1>2, <1>3
<1>5. QED
  BY <1>4 DEF Apart

\* A step that makes groups, but writes no members, when all is written.
LEMMA DecisionGroups ==
  ASSUME Script = <<>>, UNCHANGED members, DOMAIN groups \subseteq DOMAIN groups'
  PROVE  GroupedStays
<1>1. Statements = {}
  BY NothingLeft
<1>2. ASSUME NEW f, Grouped(f)
      PROVE  Grouped(f)'
  <2>1. ~ WillAdd(f)
    BY <1>1 DEF WillAdd
  <2>2. PICK g \in DOMAIN groups : MemberLater(g, f)
    BY <1>2, <2>1 DEF Grouped, InGroup
  <2>3. <<g, f>> \in DOMAIN members
    BY <2>2, NothingLeft
  <2>4. MemberLater(g, f)' /\ g \in DOMAIN groups'
    BY <2>2, <2>3 DEF MemberLater
  <2>5. InGroup(f)'
    BY <2>4 DEF InGroup
  <2>6. QED
    BY <2>5 DEF Grouped
<1>3. QED
  BY <1>2 DEF GroupedStays

\* With all written, a file that has a group has one for good.
LEMMA GroupedNow ==
  ASSUME Script = <<>>, NEW f \in Files
  PROVE  Grouped(f) <=> GroupsOf(f) # {}
<1>1. Statements = {} /\ ~ WillAdd(f)
  BY NothingLeft DEF WillAdd
<1>2. \A g : MemberLater(g, f) <=> <<g, f>> \in DOMAIN members
  BY NothingLeft
<1>3. InGroup(f) <=> \E g \in DOMAIN groups : f \in Members(g)
  BY <1>2 DEF InGroup, Members
<1>4. QED
  BY <1>1, <1>3 DEF Grouped, GroupsOf

\* The pairs before the checkpoint, when the checkpoint stays where it is.
LEMMA PairsStay ==
  ASSUME PairsBefore, SameSim, GroupedStays, UNCHANGED <<processed, late, checkpoint>>
  PROVE  PairsBefore'
<1>1. InTime' = InTime
  BY DEF InTime
<1>2. ASSUME NEW f \in InTime, NEW h \in InTime, f # h, f <= checkpoint, h <= checkpoint
      PROVE  Apart(f, h)'
  <2>1. Apart(f, h)
    BY <1>2 DEF PairsBefore
  <2>2. QED
    BY <2>1, ApartStays
<1>3. QED
  BY <1>1, <1>2 DEF PairsBefore

\* What a run knows, when its lists stay as they are.
SameLooks == /\ finder'.pc = finder.pc /\ finder'.last = finder.last /\ finder'.top = finder.top
             /\ finder'.batch = finder.batch /\ finder'.ungrouped = finder.ungrouped
             /\ finder'.leftover = finder.leftover

LEMMA KnowledgeStays ==
  ASSUME Knowledge, SameSim, GroupedStays, UNCHANGED <<processed, late>>, SameLooks
  PROVE  Knowledge'
<1>1. InTime' = InTime /\ \A f : Between(f)' <=> Between(f)
  BY DEF InTime, Between, SameLooks
<1>2. \A f : Grouped(f) => Grouped(f)'
  BY DEF GroupedStays
<1>3. \A f, h : Unlike(f, h)' <=> Unlike(f, h)
  BY UnlikeStays
<1>4. \A f, h : Apart(f, h) => Apart(f, h)'
  BY ApartStays
<1>5. BatchKnown'
  BY <1>1, <1>2, <1>3 DEF Knowledge, BatchKnown, SameLooks
<1>6. OlderKnown'
  BY <1>1, <1>2 DEF Knowledge, OlderKnown, SameLooks
<1>7. LeftoverCompared'
  BY <1>1, <1>4 DEF Knowledge, LeftoverCompared, SameLooks
<1>8. QED
  BY <1>5, <1>6, <1>7 DEF Knowledge

\* Without statements, and with the groups that there were.
LEMMA QuietKnown ==
  ASSUME GroupsKnown, Script' = <<>>, UNCHANGED members, DOMAIN groups \subseteq DOMAIN groups',
         finder'.pc \in {"ungrouped", "files", "group", "members"} => DOMAIN finder'.reps \subseteq DOMAIN groups'
  PROVE  GroupsKnown' /\ MovesAreWhole'
<1>1. Statements' = {}
  BY DEF Statements
<1>2. \A row \in DOMAIN members' : row[1] \in DOMAIN groups'
  BY DEF GroupsKnown
<1>3. GroupsKnown'
  BY <1>1, <1>2 DEF GroupsKnown
<1>4. QED
  BY <1>1, <1>3 DEF MovesAreWhole

-----------------------------------------------------------------------------
(* The place of a run.                                                      *)

Passes == \/ finder'.pc = finder.pc
          \/ finder'.pc \in {"idle", "query"}
          \/ finder.pc \notin {"idle", "query"}

LEMMA TopStays ==
  ASSUME TopKnown, SameBatch, Passes, processed \subseteq processed', checkpoint' \in {checkpoint, 0, finder.top}
  PROVE  TopKnown'
BY DEF TopKnown, SameBatch, Passes

\* The statements leave the lists and the place of the run alone.
LEMMA ExecuteLooks ==
  ASSUME Shapes, Execute
  PROVE  SameLooks /\ SameBatch
<1>1. PICK script, reps :
        \/ finder' = [finder EXCEPT !.script = script]
        \/ finder' = [finder EXCEPT !.script = script, !.reps = reps]
  BY ExecuteCases
<1>2. finder = [x \in DOMAIN IdleFinder |-> finder[x]]
  BY DEF Shapes, FinderRecord
<1>3. QED
  BY <1>1, <1>2 DEF SameLooks, SameBatch, IdleFinder

\* So do the decisions, but for the file that is examined, and what is left over.
LEMMA DecisionLooks ==
  ASSUME Shapes, NEW leftover, NEW batch, NEW script,
         \/ finder' = [finder EXCEPT !.batch = batch, !.leftover = leftover, !.script = script]
         \/ finder' = [finder EXCEPT !.leftover = leftover, !.script = script] /\ batch = finder.batch
  PROVE  /\ SameBatch /\ finder'.pc = finder.pc /\ finder'.ungrouped = finder.ungrouped
         /\ finder'.batch = batch /\ finder'.leftover = leftover /\ finder'.reps = finder.reps
         /\ Script' = script
<1>1. finder = [x \in DOMAIN IdleFinder |-> finder[x]]
  BY DEF Shapes, FinderRecord
<1>2. QED
  BY <1>1 DEF SameBatch, IdleFinder, Script

LEMMA CheckMemberLooks ==
  ASSUME Shapes, NEW f, CheckMember(f)
  PROVE  /\ SameLooks /\ SameBatch /\ finder'.reps = finder.reps /\ finder.pc = "members" /\ Script = <<>>
<1>1. PICK low, script :
        \/ finder' = [finder EXCEPT !.low = low]
        \/ finder' = [finder EXCEPT !.low = low, !.script = script]
  BY Zenon DEF CheckMember
<1>2. finder = [x \in DOMAIN IdleFinder |-> finder[x]]
  BY DEF Shapes, FinderRecord
<1>3. At("members")
  BY DEF CheckMember
<1>4. QED
  BY <1>1, <1>2, <1>3 DEF SameLooks, SameBatch, IdleFinder, At, Script

\* The batch is the first files after the last one, up to its top.
LEMMA QueryBatch ==
  ASSUME Shapes, Query, finder' # IdleFinder
  PROVE  /\ finder'.pc = "reps" /\ finder'.last = finder.last /\ finder'.reps = finder.reps
         /\ finder.pc = "query" /\ Script = <<>> /\ Script' = <<>>
         /\ finder'.top \in processed /\ finder'.last + finder'.size <= finder'.top
         /\ \A f \in processed : finder'.last < f /\ f <= finder'.top => f \in finder'.batch
<1> DEFINE new == { f \in processed : f > finder.last }
           batch == { f \in new : Cardinality(Earlier(f, new)) < BatchSize }
<1>1. PICK top \in batch :
        /\ \A f \in batch : f <= top
        /\ finder' = [finder EXCEPT !.pc = "reps", !.batch = batch, !.top = top,
                                    !.size = Cardinality(batch)]
  BY DEF Query
<1>2. /\ finder'.pc = "reps" /\ finder'.last = finder.last /\ finder'.reps = finder.reps
      /\ finder.pc = "query" /\ Script = <<>> /\ Script' = <<>>
      /\ finder'.batch = batch /\ finder'.top = top /\ finder'.size = Cardinality(batch)
  BY <1>1 DEF Shapes, FinderRecord, Query, At, IdleFinder, Script
<1>3. PICK last, files, later : last = finder.last /\ files = batch /\ later = new
  OBVIOUS
<1>4. /\ last \in Nat /\ BatchSize \in Nat
      /\ processed \subseteq Files /\ \A f \in processed : f \in Nat
  <2>1. processed \subseteq Files /\ finder.last \in 0 .. N
    BY DEF Shapes, TypeOK
  <2>2. QED
    BY <2>1, <1>3, ConstantFacts, FinderAssumption
<1>5. /\ later = { f \in processed : f > last }
      /\ files = { f \in later : Cardinality(Earlier(f, later)) < BatchSize }
      /\ top \in files /\ \A f \in files : f <= top
  BY <1>1, <1>3
<1> HIDE DEF new, batch
<1>6. /\ top \in Nat /\ last < top /\ top \in processed
      /\ later \subseteq processed /\ later \subseteq Files
  <2>1. later \subseteq processed /\ \A f \in later : f > last
    BY <1>5
  <2>2. top \in later
    BY <1>5
  <2>3. QED
    BY <2>1, <2>2, <1>4
<1>7. ASSUME NEW f \in processed, last < f, f <= top
      PROVE  f \in files
  <2>1. f \in later /\ f \in Nat
    BY <1>4, <1>5, <1>7
  <2>2. Earlier(f, later) \subseteq Earlier(top, later)
    <3>1. ASSUME NEW h \in later, h < f
          PROVE  h < top
      BY <1>4, <1>6, <1>7, <2>1, <3>1
    <3>2. QED
      BY <3>1 DEF Earlier
  <2>3. IsFiniteSet(Earlier(top, later))
    <3>1. Earlier(top, later) \subseteq Files
      BY <1>6 DEF Earlier
    <3>2. QED
      BY <3>1, ConstantFacts, FS_Subset
  <2>4. /\ IsFiniteSet(Earlier(f, later))
        /\ Cardinality(Earlier(f, later)) <= Cardinality(Earlier(top, later))
    BY <2>2, <2>3, FS_Subset
  <2>5. Cardinality(Earlier(f, later)) \in Nat /\ Cardinality(Earlier(top, later)) \in Nat
    BY <2>3, <2>4, FS_CardinalityType
  <2>6. Cardinality(Earlier(top, later)) < BatchSize
    BY <1>5
  <2>7. Cardinality(Earlier(f, later)) < BatchSize
    BY <1>4, <2>4, <2>5, <2>6
  <2>8. QED
    BY <1>5, <2>1, <2>7
<1>8. last + Cardinality(files) <= top
  <2>1. files \subseteq last + 1 .. top
    BY <1>4, <1>5, <1>6
  <2>2. IsFiniteSet(last + 1 .. top) /\ Cardinality(last + 1 .. top) = top - last
    <3>1. /\ IsFiniteSet(last + 1 .. top)
          /\ Cardinality(last + 1 .. top) = IF last + 1 > top THEN 0 ELSE top - (last + 1) + 1
      BY <1>4, <1>6, FS_Interval
    <3>2. QED
      BY <3>1, <1>4, <1>6
  <2>3. IsFiniteSet(files) /\ Cardinality(files) <= top - last
    BY <2>1, <2>2, FS_Subset
  <2>4. Cardinality(files) \in Nat
    BY <2>3, FS_CardinalityType
  <2>5. QED
    BY <1>4, <1>6, <2>3, <2>4
<1>9. QED
  BY <1>2, <1>3, <1>6, <1>7, <1>8

LEMMA RunTop ==
  ASSUME Shapes, TopKnown, Run
  PROVE  TopKnown'
<1>1. finder = [x \in DOMAIN IdleFinder |-> finder[x]]
  BY DEF Shapes, FinderRecord
<1>2. CASE Start
  <2>1. finder'.pc = "query" /\ finder'.top = finder.top /\ UNCHANGED <<processed, checkpoint>>
    BY <1>1, <1>2 DEF Start, tables, IdleFinder
  <2>2. QED
    BY <2>1 DEF TopKnown
<1>3. CASE Query
  <2>1. UNCHANGED <<processed, checkpoint>>
    BY <1>3 DEF Query, tables
  <2>2. CASE finder' = IdleFinder
    <3>1. finder'.pc = "idle" /\ finder'.top = 0
      BY <2>2 DEF IdleFinder
    <3>2. QED
      BY <2>1, <3>1 DEF TopKnown
  <2>3. CASE finder' # IdleFinder
    BY <1>3, <2>1, <2>3, QueryBatch DEF TopKnown
  <2>4. QED
    BY <2>2, <2>3
<1>4. CASE LoadRepresentatives
  <2>1. SameBatch /\ Passes /\ UNCHANGED <<processed, checkpoint>>
    BY <1>1, <1>4 DEF LoadRepresentatives, At, tables, IdleFinder, SameBatch, Passes
  <2>2. QED
    BY <2>1, TopStays
<1>5. CASE LoadUngrouped
  <2>1. SameBatch /\ Passes /\ UNCHANGED <<processed, checkpoint>>
    BY <1>1, <1>5 DEF LoadUngrouped, At, tables, IdleFinder, SameBatch, Passes
  <2>2. QED
    BY <2>1, TopStays
<1>6. CASE \E f \in finder.batch : Examine(f)
  <2>1. PICK f, leftover, script : /\ NextFile(f, leftover, script)
                                   /\ UNCHANGED <<processed, checkpoint>>
    BY <1>6, Zenon DEF Examine
  <2>2. PICK batch : batch = finder.batch \ {f}
    OBVIOUS
  <2>3. finder' = [finder EXCEPT !.batch = batch, !.leftover = leftover, !.script = script]
    BY <2>1, <2>2 DEF NextFile
  <2>4. SameBatch /\ Passes
    BY <2>3, DecisionLooks DEF Passes
  <2>5. QED
    BY <2>1, <2>4, TopStays
<1>7. CASE \E f \in finder.leftover : GroupLeftover(f)
  <2>1. PICK f \in finder.leftover : GroupLeftover(f)
    BY <1>7
  <2>2. UNCHANGED <<processed, checkpoint>>
        /\ \E leftover, script : finder' = [finder EXCEPT !.leftover = leftover, !.script = script]
    BY <2>1, Zenon DEF GroupLeftover
  <2>3. SameBatch /\ Passes
    BY <2>2, DecisionLooks DEF Passes
  <2>4. QED
    BY <2>2, <2>3, TopStays
<1>8. CASE upsertCheckpoint
  <2>1. SameBatch /\ Passes /\ checkpoint' = finder.top /\ UNCHANGED processed
    BY <1>1, <1>8 DEF upsertCheckpoint, At, IdleFinder, SameBatch, Passes
  <2>2. QED
    BY <2>1, TopStays
<1>9. CASE LoadGroups
  <2>1. SameBatch /\ Passes /\ UNCHANGED <<processed, checkpoint>>
    BY <1>1, <1>9 DEF LoadGroups, At, tables, IdleFinder, SameBatch, Passes
  <2>2. QED
    BY <2>1, TopStays
<1>10. ASSUME NEW g, LoadMembers(g)
       PROVE  TopKnown'
  <2>1. SameBatch /\ Passes /\ UNCHANGED <<processed, checkpoint>>
    BY <1>1, <1>10 DEF LoadMembers, At, tables, IdleFinder, SameBatch, Passes
  <2>2. QED
    BY <2>1, TopStays
<1>11. ASSUME NEW f, CheckMember(f)
       PROVE  TopKnown'
  <2>1. UNCHANGED <<processed, checkpoint>>
    BY <1>11, Zenon DEF CheckMember, tables
  <2>2. SameBatch /\ Passes
    BY <1>11, CheckMemberLooks DEF SameLooks, Passes
  <2>3. QED
    BY <2>1, <2>2, TopStays
<1>12. CASE MembersDone
  <2>1. SameBatch /\ Passes /\ UNCHANGED <<processed, checkpoint>>
    BY <1>1, <1>12 DEF MembersDone, At, tables, IdleFinder, SameBatch, Passes
  <2>2. QED
    BY <2>1, TopStays
<1>13. CASE BatchDone
  <2>1. finder'.pc = "query" /\ finder'.top = finder.top /\ UNCHANGED <<processed, checkpoint>>
    BY <1>13 DEF BatchDone, tables, IdleFinder
  <2>2. QED
    BY <2>1 DEF TopKnown
<1>14. CASE Execute
  <2>1. UNCHANGED <<processed, checkpoint>>
    BY <1>14, ExecuteCases
  <2>2. SameBatch /\ Passes
    BY <1>14, ExecuteLooks DEF SameLooks, Passes
  <2>3. QED
    BY <2>1, <2>2, TopStays
<1>15. QED
  BY <1>2, <1>3, <1>4, <1>5, <1>6, <1>7, <1>8, <1>9, <1>10, <1>11, <1>12, <1>13, <1>14 DEF Run

LEMMA TopIsKept ==
  ASSUME Shapes, TopKnown, [Next]_vars
  PROVE  TopKnown'
<1>1. CASE UNCHANGED <<finder, checkpoint>> /\ processed \subseteq processed'
  BY <1>1 DEF TopKnown
<1>2. CASE UNCHANGED vars
  BY <1>1, <1>2 DEF vars, tables
<1>3. CASE Run
  BY <1>3, RunTop
<1>4. CASE \E f \in Files : FileProcessed(f)
  BY <1>1, <1>4 DEF FileProcessed, tables
<1>5. CASE ResetMembers \/ ResetGroups
  BY <1>1, <1>5 DEF ResetMembers, ResetGroups, history
<1>6. CASE ResetCheckpoint
  BY <1>6 DEF ResetCheckpoint, TopKnown
<1>7. CASE \E range \in Thresholds : onConfigChange(Effective(range))
  BY <1>1, <1>7 DEF onConfigChange, tables
<1>8. CASE Crash
  <2>1. finder'.pc = "idle" /\ finder'.top = 0 /\ UNCHANGED <<processed, checkpoint>>
    BY <1>8 DEF Crash, IdleFinder, tables
  <2>2. QED
    BY <2>1 DEF TopKnown
<1>9. QED
  BY <1>2, <1>3, <1>4, <1>5, <1>6, <1>7, <1>8 DEF Next, ResetStep

-----------------------------------------------------------------------------
(* Pairs that were compared: the steps that read.                           *)

Looking == {"reps", "ungrouped", "files"}

LEMMA NotLooking ==
  ASSUME finder'.pc \notin Looking
  PROVE  Knowledge'
BY DEF Looking, Knowledge, BatchKnown, OlderKnown, LeftoverCompared

Reads == /\ Script = <<>> /\ Script' = <<>>
         /\ UNCHANGED <<threshold, similarity, processed, groups, members, late>>
CachesGroups ==
  finder'.pc \in {"ungrouped", "files", "group", "members"} =>
    DOMAIN finder'.reps \subseteq DOMAIN groups

LEMMA ReadingPairs ==
  ASSUME Compared, Reads, CachesGroups, UNCHANGED checkpoint
  PROVE  /\ PairsBefore' /\ GroupsKnown' /\ MovesAreWhole' /\ InTime' = InTime
         /\ \A f : Grouped(f) => Grouped(f)'
<1>1. SameSim /\ GroupedStays
  BY DecisionGroups DEF Reads, SameSim
<1>2. PairsBefore'
  BY <1>1, PairsStay DEF Compared, Reads
<1>3. GroupsKnown' /\ MovesAreWhole'
  BY QuietKnown DEF Compared, Reads, CachesGroups
<1>4. QED
  BY <1>1, <1>2, <1>3 DEF InTime, Reads, GroupedStays

\* With the last file, the checkpoint passes the files that this batch compared.
LEMMA CheckpointPairs ==
  ASSUME Shapes, TopKnown, Compared, upsertCheckpoint
  PROVE  Compared'
<1>1. /\ finder.pc = "files" /\ finder.batch = {} /\ finder.leftover = {}
      /\ finder'.pc = "cross" /\ finder'.last = finder.last /\ finder'.top = finder.top
      /\ checkpoint' = finder.top /\ Reads
  BY DEF upsertCheckpoint, At, Shapes, FinderRecord, IdleFinder, Reads, history, Script
<1>2. GroupsKnown' /\ MovesAreWhole'
  BY <1>1, QuietKnown DEF Compared, Reads
<1>3. Knowledge'
  BY <1>1, NotLooking DEF Looking
<1>4. PlaceKnown'
  <2>1. finder.last + finder.size <= finder.top
        /\ finder.last \in Nat /\ finder.size \in Nat /\ finder.top \in Nat
    BY <1>1 DEF TopKnown, Shapes, FinderTypes
  <2>2. finder.last <= finder.top
    BY <2>1
  <2>3. QED
    BY <1>1, <2>2 DEF PlaceKnown
<1>5. SameSim /\ GroupedStays /\ InTime' = InTime
  BY <1>1, DecisionGroups DEF Reads, SameSim, InTime
<1>6. InTime \subseteq Files /\ TypeOK /\ finder.last \in Nat /\ finder.last <= checkpoint
      /\ checkpoint \in Nat /\ \A f \in InTime : f \in Nat
  <2>1. processed \subseteq Files /\ TypeOK /\ finder.last \in 0 .. N /\ checkpoint \in 0 .. N
    BY DEF Shapes, TypeOK
  <2>2. InTime \subseteq Files /\ \A f \in Files : f \in Nat
    <3>1. \A f \in Files : f \in Nat
      BY ConstantFacts
    <3>2. QED
      BY <2>1, <3>1 DEF InTime
  <2>3. finder.last <= checkpoint
    BY <1>1 DEF Compared, PlaceKnown
  <2>4. finder.last \in Nat /\ checkpoint \in Nat
    BY <2>1
  <2>5. QED
    BY <2>1, <2>2, <2>3, <2>4
<1>7. ASSUME NEW f \in InTime, NEW h \in InTime, Between(f), h <= finder.last
      PROVE  Apart(f, h)
  <2>1. Grouped(f) \/ \A u \in finder.ungrouped : Unlike(f, u)
    BY <1>1, <1>7 DEF Compared, Knowledge, BatchKnown
  <2>2. h \in finder.ungrouped \/ Grouped(h)
    BY <1>1, <1>7 DEF Compared, Knowledge, OlderKnown
  <2>3. QED
    BY <2>1, <2>2 DEF Apart
<1>8. ASSUME NEW f \in InTime, NEW h \in InTime, f # h, f <= finder.top, h <= finder.top
      PROVE  Apart(f, h)
  <2>1. (f <= finder.last \/ Between(f)) /\ (h <= finder.last \/ Between(h))
    BY <1>6, <1>8 DEF Between
  <2>2. CASE f <= finder.last /\ h <= finder.last
    <3>1. f <= checkpoint /\ h <= checkpoint
      BY <1>6, <2>2
    <3>2. QED
      BY <1>8, <3>1 DEF Compared, PairsBefore
  <2>3. CASE Between(f) /\ Between(h)
    BY <1>1, <1>8, <2>3 DEF Compared, Knowledge, LeftoverCompared
  <2>4. CASE Between(f) /\ h <= finder.last
    BY <1>7, <2>4
  <2>5. CASE f <= finder.last /\ Between(h)
    <3>1. Apart(h, f)
      BY <1>7, <2>5
    <3>2. QED
      BY <1>6, <3>1, ApartFacts
  <2>6. QED
    BY <2>1, <2>2, <2>3, <2>4, <2>5
<1>9. PairsBefore'
  <2>1. \A f, h \in InTime : f # h /\ f <= finder.top /\ h <= finder.top => Apart(f, h)'
    BY <1>5, <1>8, ApartStays
  <2>2. QED
    BY <1>1, <1>5, <2>1 DEF PairsBefore
<1>10. QED
  BY <1>2, <1>3, <1>4, <1>9 DEF Compared

\* Files that are not yet in a group are looked for before the batch is examined.
LEMMA UngroupedPairs ==
  ASSUME Shapes, Compared, LoadUngrouped
  PROVE  Compared'
<1>1. /\ finder.pc = "ungrouped" /\ finder'.pc = "files"
      /\ finder'.last = finder.last /\ finder'.top = finder.top /\ finder'.batch = finder.batch
      /\ finder'.reps = finder.reps /\ Reads /\ UNCHANGED checkpoint
      /\ finder'.ungrouped = { f \in processed : f <= finder.last /\ ~ HasMember(f) }
  BY DEF LoadUngrouped, At, Shapes, FinderRecord, IdleFinder, Reads, history, tables, Script
<1>2. CachesGroups
  BY <1>1 DEF Compared, GroupsKnown, CachesGroups
<1>3. /\ PairsBefore' /\ GroupsKnown' /\ MovesAreWhole' /\ InTime' = InTime
      /\ \A f : Grouped(f) => Grouped(f)'
  BY <1>1, <1>2, ReadingPairs
<1>4. PlaceKnown'
  BY <1>1 DEF Compared, PlaceKnown
<1>5. \A f \in InTime : Between(f)' => f \in finder'.batch
  BY <1>1 DEF Between, Compared, Knowledge, BatchKnown
<1>6. BatchKnown' /\ LeftoverCompared'
  BY <1>3, <1>5 DEF BatchKnown, LeftoverCompared
<1>7. OlderKnown'
  <2>1. ASSUME NEW f \in InTime, f <= finder.last, HasMember(f)
        PROVE  Grouped(f)'
    <3>1. PICK row \in DOMAIN members : row[2] = f
      BY <2>1 DEF HasMember
    <3>2. row[1] \in DOMAIN groups /\ row \in (1 .. lastGroup) \X Files
      BY DEF Compared, GroupsKnown, Shapes, TypeOK
    <3>3. <<row[1], f>> \in DOMAIN members
      BY <3>1, <3>2
    <3>4. MemberLater(row[1], f)
      BY <3>3 DEF MemberLater
    <3>5. Grouped(f)
      BY <3>2, <3>4 DEF Grouped, InGroup
    <3>6. QED
      BY <1>3, <3>5
  <2>2. \A f \in InTime : f <= finder.last => f \in finder'.ungrouped \/ Grouped(f)'
    BY <1>1, <2>1 DEF InTime
  <2>3. QED
    BY <1>1, <1>3, <2>2 DEF OlderKnown
<1>8. QED
  BY <1>3, <1>4, <1>6, <1>7 DEF Compared, Knowledge

LEMMA QueryPairs ==
  ASSUME Shapes, Compared, Query
  PROVE  Compared'
<1>1. /\ finder.pc = "query" /\ Script = <<>> /\ UNCHANGED checkpoint
      /\ UNCHANGED <<threshold, similarity, processed, groups, members, late>>
  BY DEF Query, At, history, tables, Script
<1>2. CASE finder' = IdleFinder
  <2>1. finder'.pc = "idle" /\ Script' = <<>>
    BY <1>2 DEF IdleFinder, Script
  <2>2. Reads /\ CachesGroups
    BY <1>1, <2>1 DEF Reads, CachesGroups
  <2>3. PairsBefore' /\ GroupsKnown' /\ MovesAreWhole'
    BY <1>1, <2>2, ReadingPairs
  <2>4. Knowledge' /\ PlaceKnown'
    BY <2>1, NotLooking DEF Looking, PlaceKnown
  <2>5. QED
    BY <2>3, <2>4 DEF Compared
<1>3. CASE finder' # IdleFinder
  <2>1. /\ finder'.pc = "reps" /\ finder'.last = finder.last /\ Script' = <<>>
        /\ \A f \in processed : finder'.last < f /\ f <= finder'.top => f \in finder'.batch
    BY <1>3, QueryBatch
  <2>2. Reads /\ CachesGroups
    BY <1>1, <2>1 DEF Reads, CachesGroups
  <2>3. PairsBefore' /\ GroupsKnown' /\ MovesAreWhole' /\ InTime' = InTime
    BY <1>1, <2>2, ReadingPairs
  <2>4. BatchKnown'
    BY <2>1, <2>3 DEF BatchKnown, Between, InTime
  <2>5. Knowledge' /\ PlaceKnown'
    BY <1>1, <2>1, <2>4 DEF Knowledge, OlderKnown, LeftoverCompared, PlaceKnown, Compared
  <2>6. QED
    BY <2>3, <2>5 DEF Compared
<1>4. QED
  BY <1>2, <1>3

LEMMA BatchDonePairs ==
  ASSUME Shapes, TopKnown, Compared, BatchDone
  PROVE  Compared'
<1>1. /\ finder.pc = "group" /\ finder'.pc = "query" /\ finder'.last = finder.last + finder.size
      /\ Reads /\ UNCHANGED checkpoint
  BY DEF BatchDone, At, AfterBatch, IdleFinder, Reads, history, tables, Script
<1>2. PairsBefore' /\ GroupsKnown' /\ MovesAreWhole'
  BY <1>1, ReadingPairs DEF CachesGroups
<1>3. finder'.last <= checkpoint
  <2>1. finder.last + finder.size <= finder.top /\ checkpoint = finder.top
    BY <1>1 DEF TopKnown, Compared, PlaceKnown
  <2>2. QED
    BY <1>1, <2>1
<1>4. Knowledge' /\ PlaceKnown'
  BY <1>1, <1>3, NotLooking DEF Looking, PlaceKnown
<1>5. QED
  BY <1>2, <1>4 DEF Compared

LEMMA ReadingCompared ==
  ASSUME Shapes, TopKnown, Compared,
         \/ Start \/ LoadRepresentatives \/ LoadGroups \/ MembersDone
         \/ \E g \in finder.todo : LoadMembers(g)
  PROVE  Compared'
<1>1. finder = [x \in DOMAIN IdleFinder |-> finder[x]]
  BY DEF Shapes, FinderRecord
<1>2. CASE Start
  <2>1. Reads /\ UNCHANGED checkpoint /\ finder'.pc = "query" /\ finder'.last = checkpoint
    BY <1>1, <1>2 DEF Start, At, Reads, tables, Script, IdleFinder
  <2>2. PairsBefore' /\ GroupsKnown' /\ MovesAreWhole'
    BY <2>1, ReadingPairs DEF CachesGroups
  <2>3. checkpoint <= checkpoint
    BY ConstantFacts DEF Shapes, TypeOK
  <2>4. Knowledge' /\ PlaceKnown'
    BY <2>1, <2>3, NotLooking DEF Looking, PlaceKnown
  <2>5. QED
    BY <2>2, <2>4 DEF Compared
<1>3. CASE LoadRepresentatives
  <2>1. /\ Reads /\ UNCHANGED checkpoint /\ finder.pc = "reps" /\ finder'.pc = "ungrouped"
        /\ finder'.last = finder.last /\ finder'.top = finder.top /\ finder'.batch = finder.batch
        /\ finder'.reps = [g \in DOMAIN groups |-> groups[g].rep]
    BY <1>1, <1>3 DEF LoadRepresentatives, At, Reads, tables, history, Script, IdleFinder
  <2>2. CachesGroups
    BY <2>1 DEF CachesGroups
  <2>3. PairsBefore' /\ GroupsKnown' /\ MovesAreWhole' /\ InTime' = InTime
    BY <2>1, <2>2, ReadingPairs
  <2>4. BatchKnown'
    BY <2>1, <2>3 DEF BatchKnown, Between, Compared, Knowledge
  <2>5. Knowledge' /\ PlaceKnown'
    BY <2>1, <2>4 DEF Knowledge, OlderKnown, LeftoverCompared, PlaceKnown, Compared
  <2>6. QED
    BY <2>3, <2>5 DEF Compared
<1>4. CASE LoadGroups
  <2>1. /\ Reads /\ UNCHANGED checkpoint /\ finder.pc = "cross" /\ finder'.pc = "group"
        /\ finder'.last = finder.last /\ finder'.top = finder.top
        /\ finder'.reps = [g \in DOMAIN groups |-> groups[g].rep]
    BY <1>1, <1>4 DEF LoadGroups, At, Reads, tables, history, Script, IdleFinder
  <2>2. CachesGroups
    BY <2>1 DEF CachesGroups
  <2>3. PairsBefore' /\ GroupsKnown' /\ MovesAreWhole'
    BY <2>1, <2>2, ReadingPairs
  <2>4. Knowledge' /\ PlaceKnown'
    BY <2>1, NotLooking DEF Looking, PlaceKnown, Compared
  <2>5. QED
    BY <2>3, <2>4 DEF Compared
<1>5. CASE MembersDone \/ \E g \in finder.todo : LoadMembers(g)
  <2>1. /\ Reads /\ UNCHANGED checkpoint /\ finder.pc \in {"group", "members"}
        /\ finder'.pc \in {"group", "members"}
        /\ finder'.last = finder.last /\ finder'.top = finder.top /\ finder'.reps = finder.reps
    <3>1. CASE MembersDone
      BY <1>1, <3>1 DEF MembersDone, At, Reads, tables, history, Script, IdleFinder
    <3>2. ASSUME NEW g, LoadMembers(g)
          PROVE  /\ Reads /\ UNCHANGED checkpoint /\ finder.pc \in {"group", "members"}
                 /\ finder'.pc \in {"group", "members"}
                 /\ finder'.last = finder.last /\ finder'.top = finder.top /\ finder'.reps = finder.reps
      BY <1>1, <3>2 DEF LoadMembers, At, Reads, tables, history, Script, IdleFinder
    <3>3. QED
      BY <1>5, <3>1, <3>2
  <2>2. CachesGroups
    BY <2>1 DEF CachesGroups, Compared, GroupsKnown
  <2>3. PairsBefore' /\ GroupsKnown' /\ MovesAreWhole'
    BY <2>1, <2>2, ReadingPairs
  <2>4. Knowledge' /\ PlaceKnown'
    BY <2>1, NotLooking DEF Looking, PlaceKnown, Compared
  <2>5. QED
    BY <2>3, <2>4 DEF Compared
<1>6. QED
  BY <1>2, <1>3, <1>4, <1>5

-----------------------------------------------------------------------------
(* Pairs that were compared: the decisions about the files of a batch.      *)

\* A file of the batch has got a group, or is left over and resembles no older file.
Examined(f) ==
  \/ Grouped(f)'
  \/ f \in finder'.leftover /\ \A u \in finder.ungrouped : Unlike(f, u)

LEMMA ExaminedPairs ==
  ASSUME Knowledge, finder.pc = "files", NEW f, Examined(f), SameSim, GroupedStays,
         UNCHANGED <<processed, late>>, SameBatch, finder'.pc = finder.pc, finder'.ungrouped = finder.ungrouped,
         finder'.batch = finder.batch \ {f}, finder.leftover \subseteq finder'.leftover
  PROVE  Knowledge'
<1>1. InTime' = InTime /\ \A h : Between(h)' <=> Between(h)
  BY DEF InTime, Between, SameBatch
<1>2. \A h : Grouped(h) => Grouped(h)'
  BY DEF GroupedStays
<1>3. \A h, u : Unlike(h, u)' <=> Unlike(h, u)
  BY UnlikeStays
<1>4. \A h, u : Apart(h, u) => Apart(h, u)'
  BY ApartStays
<1>5. Grouped(f)' \/ \A u \in finder.ungrouped : Unlike(f, u)'
  BY <1>3 DEF Examined
<1>6. BatchKnown'
  <2>1. ASSUME NEW h \in InTime, Between(h), h \notin finder'.batch
        PROVE  Grouped(h)' \/ \A u \in finder.ungrouped : Unlike(h, u)'
    <3>1. CASE h = f
      BY <1>5, <3>1
    <3>2. CASE h # f
      <4>1. h \notin finder.batch
        BY <2>1, <3>2
      <4>2. Grouped(h) \/ \A u \in finder.ungrouped : Unlike(h, u)
        BY <2>1, <4>1 DEF Knowledge, BatchKnown
      <4>3. QED
        BY <1>2, <1>3, <4>2
    <3>3. QED
      BY <3>1, <3>2
  <2>2. QED
    BY <1>1, <2>1 DEF BatchKnown
<1>7. OlderKnown'
  BY <1>1, <1>2 DEF Knowledge, OlderKnown, SameBatch
<1>8. LeftoverCompared'
  <2>1. ASSUME NEW h \in InTime, NEW x \in InTime, h # x, Between(h), Between(x),
               h \notin finder'.batch \cup finder'.leftover
        PROVE  Apart(h, x)'
    <3>1. CASE h = f
      <4>1. Grouped(f)'
        BY <2>1, <3>1 DEF Examined
      <4>2. QED
        BY <3>1, <4>1 DEF Apart
    <3>2. CASE h # f
      <4>1. h \notin finder.batch \cup finder.leftover
        BY <2>1, <3>2
      <4>2. Apart(h, x)
        BY <2>1, <4>1 DEF Knowledge, LeftoverCompared
      <4>3. QED
        BY <1>4, <4>2
    <3>3. QED
      BY <3>1, <3>2
  <2>2. QED
    BY <1>1, <2>1 DEF LeftoverCompared
<1>9. QED
  BY <1>6, <1>7, <1>8 DEF Knowledge

\* Statements that insert into groups that there are, and delete nothing.
InsertsIntoGroups(s) ==
  /\ \A i \in DOMAIN s : s[i].op \in {"insert", "add"} => s[i].g \in DOMAIN groups
  /\ \A i \in DOMAIN s : s[i].op # "delete"

LEMMA DecisionKnown ==
  ASSUME GroupsKnown, NEW s, Script' = s, InsertsIntoGroups(s)', UNCHANGED members,
         DOMAIN groups \subseteq DOMAIN groups',
         finder.pc \in {"files", "members"}, finder'.reps = finder.reps
  PROVE  GroupsKnown' /\ MovesAreWhole'
<1>1. Statements' = DOMAIN s
  BY DEF Statements
<1>2. \A row \in DOMAIN members' : row[1] \in DOMAIN groups'
  BY DEF GroupsKnown
<1>3. DOMAIN finder'.reps \subseteq DOMAIN groups'
  BY DEF GroupsKnown
<1>4. \A i \in Statements' : Script'[i].op \in {"insert", "add"} => Script'[i].g \in DOMAIN groups'
  BY <1>1 DEF InsertsIntoGroups
<1>5. GroupsKnown'
  BY <1>2, <1>3, <1>4 DEF GroupsKnown
<1>6. \A i \in Statements' : Script'[i].op # "delete"
  BY <1>1 DEF InsertsIntoGroups
<1>7. MovesAreWhole'
  BY <1>6 DEF MovesAreWhole
<1>8. QED
  BY <1>5, <1>7

\* A file that joins a group gets one.
LEMMA JoinKnown ==
  ASSUME NEW g \in DOMAIN groups, NEW f, NEW score, NEW s, Script' = s,
         Joined(s, addToGroup(g, f, score), <<Reload(g)>>), UNCHANGED groups
  PROVE  InsertsIntoGroups(s)' /\ Grouped(f)'
<1>1. PICK rep, count : groups[g].rep = rep /\ groups[g].count + 1 = count
  OBVIOUS
<1>2. groups[g].rep = rep /\ groups[g].count + 1 = count
  BY <1>1
<1>3. SwapJoin(s, g, f, score, rep, count) \/ PlainJoin(s, g, f, score, rep, count)
  BY <1>2, JoinScript
<1>4. /\ \A i \in DOMAIN s : s[i].g = g /\ s[i].op # "delete"
      /\ 1 \in DOMAIN s /\ s[1].op = "insert" /\ s[1].g = g /\ s[1].f = f
  <2>1. CASE SwapJoin(s, g, f, score, rep, count)
    BY <2>1 DEF SwapJoin, Swap, Insert, Unflag, Update, Reload
  <2>2. CASE PlainJoin(s, g, f, score, rep, count)
    BY <2>2 DEF PlainJoin, NoSwap, Insert, Update, Reload
  <2>3. QED
    BY <1>3, <2>1, <2>2
<1>5. InsertsIntoGroups(s)'
  BY <1>4 DEF InsertsIntoGroups
<1>6. WillInsert(g, f)'
  BY <1>4 DEF WillInsert, Statements
<1>7. QED
  BY <1>5, <1>6 DEF Grouped, InGroup, MemberLater

\* So do all files of a new group.
LEMMA NewGroupKnown ==
  ASSUME Shapes, NEW P \in SUBSET processed, NEW files \in Seq(P), Len(files) # 0, CreateGroup(files),
         NEW s, Script' = s, AddsMembers(s, files),
         UNCHANGED <<threshold, similarity, processed, members, checkpoint, reset, late, moved, unmarked>>
  PROVE  /\ InsertsIntoGroups(s)' /\ DOMAIN groups \subseteq DOMAIN groups'
         /\ \A i \in 1 .. Len(files) : Grouped(files[i])'
<1>1. PICK g, rep, n : g = lastGroup + 1 /\ rep = selectRepresentative(files) /\ n = Len(files)
  OBVIOUS
<1>2. files \in Seq(Files) /\ DOMAIN groups' = DOMAIN groups \cup {g}
  BY <1>1, NewGroupTables
<1>3. AddsMembersTo(s, g, files, rep, n)
  BY <1>1, <1>2, NewGroupScript
<1>4. /\ n \in Nat /\ DOMAIN s = 1 .. n + 2
      /\ \A i \in 1 .. n : s[i].op = "insert" /\ s[i].g = g /\ s[i].f = files[i]
      /\ s[n + 1].op = "update" /\ s[n + 2].op = "reload"
  <2>1. /\ n \in Nat /\ DOMAIN s = 1 .. n + 2
        /\ s[n + 1].op = "update" /\ s[n + 2].op = "reload"
    BY <1>3 DEF AddsMembersTo, Update, Reload
  <2>2. ASSUME NEW i \in 1 .. n
        PROVE  s[i].op = "insert" /\ s[i].g = g /\ s[i].f = files[i]
    <3>1. s[i] = Insert(g, files[i], Sim(files[i], rep), files[i] = rep)
      BY <1>3 DEF AddsMembersTo
    <3>2. PICK score, flag : s[i] = Insert(g, files[i], score, flag)
      BY <3>1
    <3>3. QED
      BY <3>2 DEF Insert
  <2>3. QED
    BY <2>1, <2>2
<1>5. \A i \in DOMAIN s : i \in 1 .. n \/ i = n + 1 \/ i = n + 2
  BY <1>4
<1>6. InsertsIntoGroups(s)'
  BY <1>2, <1>4, <1>5 DEF InsertsIntoGroups
<1>7. ASSUME NEW i \in 1 .. n
      PROVE  Grouped(files[i])'
  <2>1. PICK x : x = files[i]
    OBVIOUS
  <2>2. i \in DOMAIN s /\ s[i].op = "insert" /\ s[i].g = g /\ s[i].f = x
    BY <1>4, <2>1
  <2>3. WillInsert(g, x)'
    BY <2>2 DEF WillInsert, Statements
  <2>4. Grouped(x)'
    BY <1>2, <2>3 DEF Grouped, InGroup, MemberLater
  <2>5. QED
    BY <2>1, <2>4
<1>8. QED
  BY <1>1, <1>2, <1>6, <1>7

\* The list of a set of files holds all of them.
LEMMA AscendingHasAll ==
  ASSUME NEW S \in SUBSET Files, NEW x \in S
  PROVE  \E i \in 1 .. Cardinality(S) : Ascending(S)[i] = x
<1>1. IsFiniteSet(S) /\ \A y \in S : y \in Nat
  <2>1. IsFiniteSet(Files) /\ \A y \in Files : y \in Nat
    BY ConstantFacts
  <2>2. QED
    BY <2>1, FS_Subset
<1>2. \A y \in S : Cardinality(Earlier(y, S)) \in Nat /\ Cardinality(Earlier(y, S)) < Cardinality(S)
  <2>1. ASSUME NEW y \in S
        PROVE  Earlier(y, S) \in SUBSET S /\ Earlier(y, S) # S
    BY <1>1 DEF Earlier
  <2>2. QED
    BY <1>1, <2>1, SmallerSet
<1>3. ASSUME NEW y \in S, NEW z \in S, y < z
      PROVE  Cardinality(Earlier(y, S)) < Cardinality(Earlier(z, S))
  <2>1. Earlier(y, S) \subseteq Earlier(z, S)
    BY <1>1, <1>3 DEF Earlier
  <2>2. y \in Earlier(z, S) /\ y \notin Earlier(y, S)
    BY <1>1, <1>3 DEF Earlier
  <2>3. IsFiniteSet(Earlier(z, S))
    BY <1>1, FS_Subset DEF Earlier
  <2>4. Earlier(y, S) \in SUBSET Earlier(z, S) /\ Earlier(y, S) # Earlier(z, S)
    BY <2>1, <2>2
  <2>5. QED
    BY <2>3, <2>4, SmallerSet
<1>4. PICK c, n : c = Cardinality(Earlier(x, S)) /\ n = Cardinality(S)
  OBVIOUS
<1>5. c \in Nat /\ n \in Nat /\ c < n
  <2>1. n \in Nat
    BY <1>1, <1>4, FS_CardinalityType
  <2>2. QED
    BY <1>2, <1>4, <2>1
<1>6. \A y \in S : Cardinality(Earlier(y, S)) = c => y = x
  BY <1>1, <1>2, <1>3, <1>4
<1>7. c + 1 \in 1 .. n /\ (c + 1) - 1 = c
  BY <1>5
<1>8. Ascending(S)[c + 1] = CHOOSE y \in S : Cardinality(Earlier(y, S)) = c
  BY <1>4, <1>7 DEF Ascending
<1>9. (CHOOSE y \in S : Cardinality(Earlier(y, S)) = c) = x
  BY <1>4, <1>6
<1>10. QED
  BY <1>4, <1>7, <1>8, <1>9

\* The files of a new group: those it starts from, and those that join them.
LEMMA AllAreListed ==
  ASSUME NEW start \in Seq(Files), NEW joined \in SUBSET Files,
         NEW files, Joined(files, start, Ascending(joined))
  PROVE  /\ \A i \in 1 .. Len(start) : i \in 1 .. Len(files) /\ files[i] = start[i]
         /\ \A x \in joined : \E i \in 1 .. Len(files) : files[i] = x
<1>1. Ascending(joined) \in Seq(Files) /\ Len(Ascending(joined)) = Cardinality(joined)
  BY AscendingIsAList, SeqMonotonic
<1>2. PICK m, n, rest : m = Len(start) /\ n = Cardinality(joined) /\ rest = Ascending(joined)
  OBVIOUS
<1>3. /\ m \in Nat /\ n \in Nat /\ DOMAIN files = 1 .. m + n
      /\ \A i \in 1 .. m : files[i] = start[i]
      /\ \A i \in 1 .. n : files[m + i] = rest[i]
  <2>1. rest \in Seq(Files) /\ Len(start) = m /\ Len(rest) = n /\ Joined(files, start, rest)
    BY <1>1, <1>2
  <2>2. QED
    BY <2>1, OneAfterTheOther
<1>4. Len(files) = m + n
  <2>1. Len(start \o rest) = Len(start) + Len(rest)
    BY <1>1, <1>2, ConcatProperties
  <2>2. QED
    BY <1>1, <1>2, <2>1 DEF Joined
<1>5. ASSUME NEW x \in joined
      PROVE  \E i \in 1 .. Len(files) : files[i] = x
  <2>1. PICK i \in 1 .. n : rest[i] = x
    BY <1>2, AscendingHasAll
  <2>2. m + i \in 1 .. m + n /\ files[m + i] = x
    BY <1>3, <2>1
  <2>3. QED
    BY <1>4, <2>2
<1>6. QED
  BY <1>2, <1>3, <1>4, <1>5

LEMMA ExamineCompared ==
  ASSUME Shapes, Compared, NEW f \in finder.batch, Examine(f)
  PROVE  Compared'
<1>1. /\ At("files") /\ f \in processed /\ finder.pc = "files" /\ Script = <<>>
      /\ UNCHANGED <<threshold, similarity, processed, members, checkpoint, reset, late, moved, unmarked>>
      /\ processed \subseteq Files
  BY ExamineCases DEF At, Script, Shapes, TypeOK
<1>2. ASSUME NEW leftover, NEW script, NextFile(f, leftover, script), finder.leftover \subseteq leftover,
             InsertsIntoGroups(script)', DOMAIN groups \subseteq DOMAIN groups',
             Grouped(f)' \/ (f \in leftover /\ \A u \in finder.ungrouped : Unlike(f, u))
      PROVE  Compared'
  <2>1. PICK batch : batch = finder.batch \ {f}
    OBVIOUS
  <2>2. finder' = [finder EXCEPT !.batch = batch, !.leftover = leftover, !.script = script]
    BY <1>2, <2>1 DEF NextFile
  <2>3. /\ SameBatch /\ finder'.pc = finder.pc /\ finder'.ungrouped = finder.ungrouped
        /\ finder'.batch = batch /\ finder'.leftover = leftover /\ finder'.reps = finder.reps
        /\ Script' = script
    BY <2>2, DecisionLooks
  <2>4. SameSim /\ GroupedStays
    BY <1>1, <1>2, DecisionGroups DEF SameSim
  <2>5. Examined(f)
    BY <1>2, <2>3 DEF Examined
  <2>6. Knowledge /\ finder'.batch = finder.batch \ {f} /\ finder.leftover \subseteq finder'.leftover
    BY <1>2, <2>1, <2>3 DEF Compared
  <2>7. Knowledge'
    BY <1>1, <2>3, <2>4, <2>5, <2>6, ExaminedPairs
  <2>8. PairsBefore'
    BY <1>1, <2>4, PairsStay DEF Compared
  <2>9. GroupsKnown' /\ MovesAreWhole'
    BY <1>1, <1>2, <2>3, DecisionKnown DEF Compared
  <2>10. PlaceKnown'
    BY <1>1, <2>3 DEF Compared, PlaceKnown, SameBatch
  <2>11. QED
    BY <2>7, <2>8, <2>9, <2>10 DEF Compared
<1>3. ASSUME NEW script, script = <<>>
      PROVE  InsertsIntoGroups(script)'
  BY <1>3 DEF InsertsIntoGroups
<1>4. CASE /\ GroupsOf(f) # {}
           /\ NextFile(f, finder.leftover, <<>>)
           /\ UNCHANGED groups
  <2>1. PICK script, leftover : script = <<>> /\ leftover = finder.leftover
    OBVIOUS
  <2>2. NextFile(f, leftover, script) /\ finder.leftover \subseteq leftover
    BY <1>4, <2>1
  <2>3. Grouped(f)
    BY <1>1, <1>4, GroupedNow
  <2>4. Grouped(f)'
    BY <1>1, <1>4, <2>3, DecisionGroups DEF GroupedStays
  <2>5. InsertsIntoGroups(script)' /\ DOMAIN groups \subseteq DOMAIN groups'
    BY <1>3, <1>4, <2>1
  <2>6. QED
    BY <1>2, <2>2, <2>4, <2>5
<1>5. ASSUME NEW g \in Fitting(f),
             NextFile(f, finder.leftover,
                      IF g \in DOMAIN groups
                        THEN addToGroup(g, f, Sim(f, finder.reps[g])) \o <<Reload(g)>>
                        ELSE <<>>),
             UNCHANGED groups
      PROVE  Compared'
  <2>1. g \in DOMAIN groups
    <3>1. g \in DOMAIN finder.reps
      BY <1>5 DEF Fitting, BestGroups
    <3>2. QED
      BY <1>1, <3>1 DEF Compared, GroupsKnown
  <2>2. PICK script, leftover, score :
          /\ script = addToGroup(g, f, Sim(f, finder.reps[g])) \o <<Reload(g)>>
          /\ leftover = finder.leftover /\ score = Sim(f, finder.reps[g])
    OBVIOUS
  <2>3. NextFile(f, leftover, script) /\ finder.leftover \subseteq leftover
    BY <1>5, <2>1, <2>2
  <2>4. Joined(script, addToGroup(g, f, score), <<Reload(g)>>)
    BY <2>2 DEF Joined
  <2>5. Script' = script
    <3>1. PICK batch : batch = finder.batch \ {f}
      OBVIOUS
    <3>2. finder' = [finder EXCEPT !.batch = batch, !.leftover = leftover, !.script = script]
      BY <2>3, <3>1 DEF NextFile
    <3>3. QED
      BY <3>2, DecisionLooks
  <2>6. InsertsIntoGroups(script)' /\ Grouped(f)' /\ DOMAIN groups \subseteq DOMAIN groups'
    BY <1>5, <2>1, <2>4, <2>5, JoinKnown
  <2>7. QED
    BY <1>2, <2>3, <2>6
<1>6. ASSUME NEW u \in CrossBatchMatches(f), NEW joined \in Gather(<<u, f>>, finder.ungrouped),
             CreateGroup(<<u, f>> \o Ascending(joined)),
             NextFile(f, finder.leftover, addMembers(lastGroup + 1, <<u, f>> \o Ascending(joined)))
      PROVE  Compared'
  <2>1. PICK files, leftover, script, P, start :
          /\ files = <<u, f>> \o Ascending(joined) /\ leftover = finder.leftover
          /\ script = addMembers(lastGroup + 1, files) /\ P = processed /\ start = <<u, f>>
    OBVIOUS
  <2>2. /\ NextFile(f, leftover, script) /\ finder.leftover \subseteq leftover
        /\ CreateGroup(files) /\ AddsMembers(script, files)
    BY <1>6, <2>1 DEF AddsMembers
  <2>3. files \in Seq(P) /\ Len(files) # 0 /\ P \in SUBSET processed
    <3>1. Joined(files, <<u, f>>, Ascending(joined))
      BY <2>1 DEF Joined
    <3>2. QED
      BY <2>1, <3>1, CrossBatchFiles
  <2>4. \E i \in 1 .. Len(files) : files[i] = f
    <3>1. start \in Seq(Files) /\ Len(start) = 2 /\ start[2] = f /\ joined \in SUBSET Files
      BY <1>1, <1>6, <2>1 DEF CrossBatchMatches, Gather, Shapes, FinderTypes
    <3>2. Joined(files, start, Ascending(joined))
      BY <2>1 DEF Joined
    <3>3. 2 \in 1 .. Len(files) /\ files[2] = f
      BY <3>1, <3>2, AllAreListed
    <3>4. QED
      BY <3>3
  <2>5. Script' = script
    <3>1. PICK batch : batch = finder.batch \ {f}
      OBVIOUS
    <3>2. finder' = [finder EXCEPT !.batch = batch, !.leftover = leftover, !.script = script]
      BY <2>2, <3>1 DEF NextFile
    <3>3. QED
      BY <3>2, DecisionLooks
  <2>6. /\ InsertsIntoGroups(script)' /\ DOMAIN groups \subseteq DOMAIN groups'
        /\ \A i \in 1 .. Len(files) : Grouped(files[i])'
    BY <1>1, <2>2, <2>3, <2>5, NewGroupKnown
  <2>7. Grouped(f)'
    BY <2>4, <2>6
  <2>8. QED
    BY <1>2, <2>2, <2>6, <2>7
<1>7. CASE /\ CrossBatchMatches(f) = {}
           /\ NextFile(f, finder.leftover \cup {f}, <<>>)
           /\ UNCHANGED groups
  <2>1. PICK script, leftover : script = <<>> /\ leftover = finder.leftover \cup {f}
    OBVIOUS
  <2>2. NextFile(f, leftover, script) /\ finder.leftover \subseteq leftover /\ f \in leftover
    BY <1>7, <2>1
  <2>3. \A u \in finder.ungrouped : Unlike(f, u)
    BY <1>7 DEF CrossBatchMatches, Unlike
  <2>4. InsertsIntoGroups(script)' /\ DOMAIN groups \subseteq DOMAIN groups'
    BY <1>3, <1>7, <2>1
  <2>5. QED
    BY <1>2, <2>2, <2>3, <2>4
<1>8. \/ GroupsOf(f) # {} /\ NextFile(f, finder.leftover, <<>>) /\ UNCHANGED groups
      \/ \E g \in Fitting(f) :
           /\ NextFile(f, finder.leftover,
                       IF g \in DOMAIN groups
                         THEN addToGroup(g, f, Sim(f, finder.reps[g])) \o <<Reload(g)>>
                         ELSE <<>>)
           /\ UNCHANGED groups
      \/ \E u \in CrossBatchMatches(f) : \E joined \in Gather(<<u, f>>, finder.ungrouped) :
           /\ CreateGroup(<<u, f>> \o Ascending(joined))
           /\ NextFile(f, finder.leftover, addMembers(lastGroup + 1, <<u, f>> \o Ascending(joined)))
      \/ CrossBatchMatches(f) = {} /\ NextFile(f, finder.leftover \cup {f}, <<>>) /\ UNCHANGED groups
  <2>1. UNCHANGED <<groups, lastGroup>> => UNCHANGED groups
    OBVIOUS
  <2>2. QED
    BY <2>1, Zenon DEF Examine
<1>9. QED
  BY <1>4, <1>5, <1>6, <1>7, <1>8

\* Files that are no longer left over have got a group, or resemble no other one.
LEMMA LeftoverPairs ==
  ASSUME Shapes, Knowledge, finder.pc = "files", finder.batch = {}, SameSim, GroupedStays,
         UNCHANGED <<processed, late>>, SameBatch, finder'.pc = finder.pc, finder'.ungrouped = finder.ungrouped,
         finder'.batch = finder.batch, NEW done, finder'.leftover = finder.leftover \ done,
         \A x \in done : Grouped(x)' \/ \A h \in finder.leftover : h # x => Unlike(x, h)
  PROVE  Knowledge'
<1>1. InTime' = InTime /\ \A h : Between(h)' <=> Between(h)
  BY DEF InTime, Between, SameBatch
<1>2. \A h : Grouped(h) => Grouped(h)'
  BY DEF GroupedStays
<1>3. \A h, u : Unlike(h, u)' <=> Unlike(h, u)
  BY UnlikeStays
<1>4. \A h, u : Apart(h, u) => Apart(h, u)'
  BY ApartStays
<1>5. BatchKnown'
  BY <1>1, <1>2, <1>3 DEF Knowledge, BatchKnown
<1>6. OlderKnown'
  BY <1>1, <1>2 DEF Knowledge, OlderKnown, SameBatch
<1>7. LeftoverCompared'
  <2>1. ASSUME NEW x \in InTime, NEW h \in InTime, x # h, Between(x), Between(h),
               x \notin finder'.leftover
        PROVE  Apart(x, h)'
    <3>1. CASE x \notin finder.leftover
      <4>1. Apart(x, h)
        BY <2>1, <3>1 DEF Knowledge, LeftoverCompared
      <4>2. QED
        BY <1>4, <4>1
    <3>2. CASE Grouped(x)'
      BY <3>2 DEF Apart
    <3>3. CASE x \in finder.leftover /\ ~ Grouped(x)'
      <4>1. \A u \in finder.leftover : u # x => Unlike(x, u)
        BY <2>1, <3>3
      <4>2. Apart(x, h)
        <5>1. CASE h \in finder.leftover
          BY <2>1, <4>1, <5>1 DEF Apart
        <5>2. CASE h \notin finder.leftover
          <6>1. Apart(h, x)
            BY <2>1, <5>2 DEF Knowledge, LeftoverCompared
          <6>2. x \in Files /\ h \in Files /\ TypeOK
            BY DEF InTime, Shapes, TypeOK
          <6>3. QED
            BY <6>1, <6>2, ApartFacts
        <5>3. QED
          BY <5>1, <5>2
      <4>3. QED
        BY <1>4, <4>2
    <3>4. QED
      BY <3>1, <3>2, <3>3
  <2>2. QED
    BY <1>1, <2>1 DEF LeftoverCompared
<1>8. QED
  BY <1>5, <1>6, <1>7 DEF Knowledge

LEMMA GroupLeftoverCompared ==
  ASSUME Shapes, Compared, NEW f \in finder.leftover, GroupLeftover(f)
  PROVE  Compared'
<1>1. /\ finder.pc = "files" /\ Script = <<>> /\ finder.batch = {} /\ finder.leftover \subseteq processed
      /\ UNCHANGED <<threshold, similarity, processed, members, checkpoint, reset, late, moved, unmarked>>
      /\ processed \subseteq Files
  BY GroupLeftoverCases DEF GroupLeftover, At, Script, Shapes, TypeOK, FinderTypes
<1>2. ASSUME NEW leftover, NEW script, NEW done, leftover = finder.leftover \ done,
             finder' = [finder EXCEPT !.leftover = leftover, !.script = script],
             InsertsIntoGroups(script)', DOMAIN groups \subseteq DOMAIN groups',
             \A x \in done : Grouped(x)' \/ \A h \in finder.leftover : h # x => Unlike(x, h)
      PROVE  Compared'
  <2>1. PICK batch : batch = finder.batch
    OBVIOUS
  <2>2. /\ SameBatch /\ finder'.pc = finder.pc /\ finder'.ungrouped = finder.ungrouped
        /\ finder'.batch = batch /\ finder'.leftover = leftover /\ finder'.reps = finder.reps
        /\ Script' = script
    BY <1>2, <2>1, DecisionLooks
  <2>3. SameSim /\ GroupedStays
    BY <1>1, <1>2, DecisionGroups DEF SameSim
  <2>4. Knowledge /\ finder'.batch = finder.batch /\ finder'.leftover = finder.leftover \ done
    BY <1>2, <2>1, <2>2 DEF Compared
  <2>5. Knowledge'
    BY <1>1, <1>2, <2>2, <2>3, <2>4, LeftoverPairs
  <2>6. PairsBefore'
    BY <1>1, <2>3, PairsStay DEF Compared
  <2>7. GroupsKnown' /\ MovesAreWhole'
    BY <1>1, <1>2, <2>2, DecisionKnown DEF Compared
  <2>8. PlaceKnown'
    BY <1>1, <2>2 DEF Compared, PlaceKnown, SameBatch
  <2>9. QED
    BY <2>5, <2>6, <2>7, <2>8 DEF Compared
<1>3. ASSUME NEW joined \in Gather(<<f>>, finder.leftover), joined = {},
             finder' = [finder EXCEPT !.leftover = (@ \ {f}) \ joined, !.script = <<>>],
             UNCHANGED groups
      PROVE  Compared'
  <2>1. PICK leftover, script, done : /\ leftover = finder.leftover \ done /\ done = {f} /\ script = <<>>
    OBVIOUS
  <2>2. finder' = [finder EXCEPT !.leftover = leftover, !.script = script]
    BY <1>3, <2>1
  <2>3. InsertsIntoGroups(script)' /\ DOMAIN groups \subseteq DOMAIN groups'
    BY <1>3, <2>1 DEF InsertsIntoGroups
  <2>4. ASSUME NEW h \in finder.leftover, h # f
        PROVE  Unlike(f, h)
    <3>1. PICK start : start = <<f>>
      OBVIOUS
    <3>2. ToSet(start) = {f} /\ start[1] = f
      BY <3>1 DEF ToSet
    <3>3. joined \in Gather(start, finder.leftover)
      BY <1>3, <3>1
    <3>4. h \in joined <=> /\ areMetadataCompatible(h, start[1])
                           /\ \A x \in ToSet(start) \cup Earlier(h, joined) : Similar(h, x)
      BY <2>4, <3>2, <3>3 DEF Gather
    <3>5. Earlier(h, joined) = {}
      BY <1>3 DEF Earlier
    <3>6. Unlike(h, f)
      BY <1>3, <3>2, <3>4, <3>5 DEF Unlike
    <3>7. h \in Files /\ f \in Files /\ TypeOK
      BY <1>1 DEF Shapes
    <3>8. QED
      BY <3>6, <3>7, ApartFacts
  <2>5. \A x \in done : Grouped(x)' \/ \A h \in finder.leftover : h # x => Unlike(x, h)
    BY <2>1, <2>4
  <2>6. QED
    BY <1>2, <2>1, <2>2, <2>3, <2>5
<1>4. ASSUME NEW joined \in Gather(<<f>>, finder.leftover), CreateGroup(<<f>> \o Ascending(joined)),
             finder' = [finder EXCEPT !.leftover = (@ \ {f}) \ joined,
                                      !.script = addMembers(lastGroup + 1, <<f>> \o Ascending(joined))]
      PROVE  Compared'
  <2>1. PICK leftover, script, done, files, start, P :
          /\ leftover = finder.leftover \ done /\ done = {f} \cup joined
          /\ files = <<f>> \o Ascending(joined) /\ script = addMembers(lastGroup + 1, files)
          /\ start = <<f>> /\ P = processed
    OBVIOUS
  <2>2. finder' = [finder EXCEPT !.leftover = leftover, !.script = script]
    BY <1>4, <2>1
  <2>3. files \in Seq(P) /\ Len(files) # 0 /\ P \in SUBSET processed
    <3>1. Joined(files, <<f>>, Ascending(joined))
      BY <2>1 DEF Joined
    <3>2. QED
      BY <2>1, <3>1, LeftoverFiles
  <2>4. \A x \in done : \E i \in 1 .. Len(files) : files[i] = x
    <3>1. start \in Seq(Files) /\ Len(start) = 1 /\ start[1] = f /\ joined \in SUBSET Files
      BY <1>1, <1>4, <2>1 DEF Gather
    <3>2. Joined(files, start, Ascending(joined))
      BY <2>1 DEF Joined
    <3>3. 1 \in 1 .. Len(files) /\ files[1] = f /\ \A x \in joined : \E i \in 1 .. Len(files) : files[i] = x
      BY <3>1, <3>2, AllAreListed
    <3>4. QED
      BY <2>1, <3>3
  <2>5. Script' = script
    <3>1. PICK batch : batch = finder.batch
      OBVIOUS
    <3>2. QED
      BY <2>2, <3>1, DecisionLooks
  <2>6. /\ InsertsIntoGroups(script)' /\ DOMAIN groups \subseteq DOMAIN groups'
        /\ \A i \in 1 .. Len(files) : Grouped(files[i])'
    <3>1. CreateGroup(files) /\ AddsMembers(script, files)
      BY <1>4, <2>1 DEF AddsMembers
    <3>2. QED
      BY <1>1, <2>3, <2>5, <3>1, NewGroupKnown
  <2>7. \A x \in done : Grouped(x)'
    BY <2>4, <2>6
  <2>8. QED
    BY <1>2, <2>1, <2>2, <2>6, <2>7
<1>5. \E joined \in Gather(<<f>>, finder.leftover) :
        \/ /\ CreateGroup(<<f>> \o Ascending(joined))
           /\ finder' = [finder EXCEPT !.leftover = (@ \ {f}) \ joined,
                                       !.script = addMembers(lastGroup + 1, <<f>> \o Ascending(joined))]
        \/ /\ joined = {}
           /\ finder' = [finder EXCEPT !.leftover = (@ \ {f}) \ joined, !.script = <<>>]
           /\ UNCHANGED groups
  <2>1. UNCHANGED <<groups, lastGroup>> => UNCHANGED groups
    OBVIOUS
  <2>2. QED
    BY <2>1, Zenon DEF GroupLeftover
<1>6. QED
  BY <1>3, <1>4, <1>5

\* A member that moves is taken out of its group, and added to another one.
LEMMA CheckMemberCompared ==
  ASSUME Shapes, Compared, NEW f \in Files, CheckMember(f)
  PROVE  Compared'
<1> DEFINE low == [h \in DOMAIN finder.low \ {f} |-> finder.low[h]]
<1>1. /\ SameLooks /\ SameBatch /\ finder'.reps = finder.reps /\ finder.pc = "members" /\ Script = <<>>
  BY CheckMemberLooks
<1>2. UNCHANGED <<threshold, similarity, processed, groups, members, checkpoint, late>>
      /\ f \in DOMAIN finder.low /\ At("members") /\ UNCHANGED lastGroup
  BY Zenon DEF CheckMember, tables
<1>3. SameSim /\ GroupedStays
  BY <1>1, <1>2, DecisionGroups DEF SameSim
<1>4. PairsBefore' /\ Knowledge' /\ PlaceKnown'
  <2>1. PairsBefore'
    BY <1>2, <1>3, PairsStay DEF Compared
  <2>2. Knowledge'
    BY <1>1, <1>2, <1>3, KnowledgeStays DEF Compared
  <2>3. PlaceKnown'
    BY <1>1, <1>2 DEF Compared, PlaceKnown, SameLooks
  <2>4. QED
    BY <2>1, <2>2, <2>3
<1>5. CASE finder' = [finder EXCEPT !.low = low]
  <2>1. Script' = <<>>
    BY <1>2, <1>5, LowShrinks
  <2>2. finder'.pc \in {"ungrouped", "files", "group", "members"} => DOMAIN finder'.reps \subseteq DOMAIN groups'
    BY <1>1, <1>2 DEF Compared, GroupsKnown
  <2>3. GroupsKnown' /\ MovesAreWhole'
    BY <1>2, <2>1, <2>2, QuietKnown DEF Compared
  <2>4. QED
    BY <1>4, <2>3 DEF Compared
<1>6. ASSUME NEW h \in BetterGroups(f), NEW script,
             script = <<Delete(finder.group, f),
                        Add(h, f, Sim(f, finder.reps[h]), finder.group, finder.low[f])>>,
             finder' = [finder EXCEPT !.low = low, !.script = script]
      PROVE  Compared'
  <2>1. Script' = script
    BY <1>2, <1>6, LowShrinks
  <2>2. h \in DOMAIN groups
    <3>1. h \in DOMAIN finder.reps
      BY <1>6 DEF BetterGroups, Others
    <3>2. QED
      BY <1>1, <3>1 DEF Compared, GroupsKnown
  <2>3. /\ DOMAIN script = {1, 2} /\ script[1].op = "delete" /\ script[2].op = "add"
        /\ script[1].f = f /\ script[2].f = f /\ script[2].g = h
    BY <1>6 DEF Delete, Add
  <2>4. Statements' = {1, 2} /\ UNCHANGED <<groups, members>>
    BY <1>2, <2>1, <2>3 DEF Statements
  <2>5. WillAdd(f)'
    BY <2>1, <2>3, <2>4 DEF WillAdd
  <2>6. MovesAreWhole'
    <3>1. ASSUME NEW i \in {1, 2}, script[i].op = "delete"
          PROVE  WillAdd(script[i].f)'
      <4>1. script[i].f = f
        BY <2>3, <3>1
      <4>2. QED
        BY <2>5, <4>1
    <3>2. QED
      BY <2>1, <2>4, <3>1 DEF MovesAreWhole
  <2>7. GroupsKnown'
    <3>1. \A i \in Statements' : Script'[i].op \in {"insert", "add"} => Script'[i].g \in DOMAIN groups'
      BY <2>1, <2>2, <2>3, <2>4
    <3>2. DOMAIN finder'.reps \subseteq DOMAIN groups' /\ \A row \in DOMAIN members' : row[1] \in DOMAIN groups'
      BY <1>1, <2>4 DEF Compared, GroupsKnown
    <3>3. QED
      BY <3>1, <3>2 DEF GroupsKnown
  <2>8. QED
    BY <1>4, <2>6, <2>7 DEF Compared
<1>7. QED
  <2>1. \/ finder' = [finder EXCEPT !.low = low]
        \/ \E h \in BetterGroups(f) :
             finder' = [finder EXCEPT !.low = low,
                          !.script = <<Delete(finder.group, f),
                                       Add(h, f, Sim(f, finder.reps[h]), finder.group, finder.low[f])>>]
    BY Zenon DEF CheckMember
  <2>2. QED
    BY <1>5, <1>6, <2>1

-----------------------------------------------------------------------------
(* Pairs that were compared: statements are executed.                       *)

LEMMA AddFirstOrLater ==
  ASSUME ScriptSeq, NEW s, StepsOn(s), NEW f
  PROVE  /\ WillAdd(f) <=> (s.op = "add" /\ s.f = f) \/ WillAdd(f)'
         /\ \A i \in Statements' : \E j \in Statements : Script'[i] = Script[j]
<1>1. PICK rest : rest = Tail(Script)
  OBVIOUS
<1>2. /\ Statements' = DOMAIN rest /\ Script' = rest /\ s = Script[1] /\ 1 \in Statements
      /\ \A i \in DOMAIN rest : i + 1 \in Statements /\ rest[i] = Script[i + 1]
      /\ \A i \in Statements : i # 1 => i - 1 \in DOMAIN rest /\ rest[i - 1] = Script[i]
  BY <1>1, TailOfScript DEF StepsOn, Statements
<1>3. WillAdd(f) <=> (s.op = "add" /\ s.f = f) \/ WillAdd(f)'
  BY <1>2 DEF WillAdd
<1>4. QED
  BY <1>2, <1>3

\* A statement inserts or deletes its own row.
OwnRow(s) ==
  /\ \A row \in DOMAIN members : row \in DOMAIN members' \/ (s.op = "delete" /\ row = <<s.g, s.f>>)
  /\ \A row \in DOMAIN members' : row \in DOMAIN members \/ (s.op = "insert" /\ row = <<s.g, s.f>>)
  /\ s.op = "insert" => <<s.g, s.f>> \in DOMAIN members'

LEMMA StatementKnown ==
  ASSUME Shapes, GroupsKnown, MovesAreWhole, NEW s, StepsOn(s), s.op # "add", OwnRow(s),
         DOMAIN groups' = DOMAIN groups,
         finder'.pc \in {"ungrouped", "files", "group", "members"} => DOMAIN finder'.reps \subseteq DOMAIN groups
  PROVE  GroupedStays /\ GroupsKnown' /\ MovesAreWhole'
<1>1. /\ s = Script[1] /\ 1 \in Statements
      /\ \A f : WillAdd(f) => WillAdd(f)'
      /\ \A i \in Statements' : \E j \in Statements : Script'[i] = Script[j]
  BY AddFirstOrLater, TailOfScript DEF StepsOn, Shapes
<1>2. \A g, f : WillInsert(g, f) => (s.op = "insert" /\ s.g = g /\ s.f = f) \/ WillInsert(g, f)'
  BY FirstOrLater DEF Shapes
<1>3. ASSUME NEW g \in DOMAIN groups, NEW f, MemberLater(g, f)
      PROVE  Grouped(f)'
  <2>1. CASE s.op = "delete" /\ <<g, f>> = <<s.g, s.f>>
    <3>1. WillAdd(s.f) /\ s.f = f
      BY <1>1, <2>1 DEF MovesAreWhole
    <3>2. WillAdd(f)'
      BY <1>1, <3>1
    <3>3. QED
      BY <3>2 DEF Grouped
  <2>2. CASE <<g, f>> \in DOMAIN members'
    BY <2>2 DEF Grouped, InGroup, MemberLater
  <2>3. CASE WillInsert(g, f)'
    BY <2>3 DEF Grouped, InGroup, MemberLater
  <2>4. CASE <<g, f>> \in DOMAIN members
    BY <2>1, <2>2, <2>4 DEF OwnRow
  <2>5. CASE WillInsert(g, f)
    <3>1. (s.op = "insert" /\ s.g = g /\ s.f = f) \/ WillInsert(g, f)'
      BY <1>2, <2>5
    <3>2. CASE s.op = "insert" /\ s.g = g /\ s.f = f
      BY <2>2, <3>2 DEF OwnRow
    <3>3. QED
      BY <2>3, <3>1, <3>2
  <2>6. QED
    BY <1>3, <2>4, <2>5 DEF MemberLater
<1>4. GroupedStays
  <2>1. ASSUME NEW f, Grouped(f)
        PROVE  Grouped(f)'
    <3>1. CASE WillAdd(f)
      BY <1>1, <3>1 DEF Grouped
    <3>2. CASE InGroup(f)
      BY <1>3, <3>2 DEF InGroup
    <3>3. QED
      BY <2>1, <3>1, <3>2 DEF Grouped
  <2>2. QED
    BY <2>1 DEF GroupedStays
<1>5. GroupsKnown'
  <2>1. ASSUME NEW row \in DOMAIN members'
        PROVE  row[1] \in DOMAIN groups
    <3>1. CASE row \in DOMAIN members
      BY <3>1 DEF GroupsKnown
    <3>2. CASE s.op = "insert" /\ row = <<s.g, s.f>>
      BY <1>1, <3>2 DEF GroupsKnown
    <3>3. QED
      BY <3>1, <3>2 DEF OwnRow
  <2>2. \A i \in Statements' : Script'[i].op \in {"insert", "add"} => Script'[i].g \in DOMAIN groups
    <3>1. ASSUME NEW i \in Statements', Script'[i].op \in {"insert", "add"}
          PROVE  Script'[i].g \in DOMAIN groups
      <4>1. PICK j \in Statements : Script'[i] = Script[j]
        BY <1>1
      <4>2. QED
        BY <3>1, <4>1 DEF GroupsKnown
    <3>2. QED
      BY <3>1
  <2>3. QED
    BY <2>1, <2>2 DEF GroupsKnown
<1>6. MovesAreWhole'
  <2>1. ASSUME NEW i \in Statements', Script'[i].op = "delete", NEW x, x = Script'[i].f
        PROVE  WillAdd(x)'
    <3>1. PICK j \in Statements : Script'[i] = Script[j]
      BY <1>1
    <3>2. WillAdd(Script[j].f) /\ Script[j].f = x
      BY <2>1, <3>1 DEF MovesAreWhole
    <3>3. QED
      BY <1>1, <3>2
  <2>2. QED
    <3> SUFFICES ASSUME NEW i \in Statements', (Script[i].op = "delete")'
                 PROVE  WillAdd(Script[i].f)'
      BY DEF MovesAreWhole
    <3>1. PICK x : x = Script'[i].f
      OBVIOUS
    <3>2. WillAdd(x)'
      BY <2>1, <3>1
    <3>3. QED
      BY <3>1, <3>2
<1>7. QED
  BY <1>4, <1>5, <1>6

\* The rows that a statement writes.
LEMMA WritesOwnRow ==
  ASSUME Shapes, NEW s, WritesTables(s)
  PROVE  OwnRow(s) /\ DOMAIN groups' = DOMAIN groups
<1>1. PICK g, f : g = s.g /\ f = s.f
  OBVIOUS
<1>2. CASE /\ s.op = "insert"
           /\ members' = [row \in DOMAIN members \cup {<<s.g, s.f>>} |->
                            IF row \in DOMAIN members THEN members[row]
                                                      ELSE [score |-> s.score, flag |-> s.flag]]
           /\ UNCHANGED groups
  <2>1. DOMAIN members' = DOMAIN members \cup {<<g, f>>}
    BY <1>1, <1>2
  <2>2. QED
    BY <1>1, <1>2, <2>1 DEF OwnRow
<1>3. CASE /\ s.op = "delete"
           /\ members' = [row \in DOMAIN members \ {<<s.g, s.f>>} |-> members[row]]
           /\ UNCHANGED groups
  <2>1. DOMAIN members' = DOMAIN members \ {<<g, f>>}
    BY <1>1, <1>3
  <2>2. QED
    BY <1>1, <1>3, <2>1 DEF OwnRow
<1>4. CASE /\ s.op = "unflag"
           /\ members' = IF <<s.g, s.f>> \in DOMAIN members
                           THEN [members EXCEPT ![<<s.g, s.f>>].flag = FALSE] ELSE members
           /\ UNCHANGED groups
  <2>1. members' = IF <<g, f>> \in DOMAIN members
                     THEN [members EXCEPT ![<<g, f>>].flag = FALSE] ELSE members
    BY <1>1, <1>4
  <2>2. DOMAIN members' = DOMAIN members
    BY <2>1
  <2>3. QED
    BY <1>4, <2>2 DEF OwnRow
<1>5. ASSUME NEW row, GroupRow(g, row), UNCHANGED members, s.op \in {"update", "count", "countone"}
      PROVE  OwnRow(s) /\ DOMAIN groups' = DOMAIN groups
  BY <1>5 DEF OwnRow, GroupRow
<1>6. CASE /\ s.op \in {"update", "count", "countone"} /\ UNCHANGED members
           /\ \E row : GroupRow(s.g, row)
  BY <1>1, <1>5, <1>6
<1>7. QED
  BY <1>2, <1>3, <1>4, <1>6 DEF WritesTables

\* The second half of a move: the group that the file is to be added to is there.
LEMMA AddKnown ==
  ASSUME Shapes, GroupsKnown, Script # <<>>, NEW s, s = Script[1], s.op = "add", 1 \in Statements,
         finder' = [finder EXCEPT !.script = NewScript(s)], finder'.reps = finder.reps,
         UNCHANGED <<threshold, similarity, processed, groups, members, lastGroup, checkpoint,
                     reset, late, moved, unmarked>>
  PROVE  GroupedStays /\ GroupsKnown' /\ MovesAreWhole'
<1>1. PICK new, g, f, score, from, less, old, rep, count :
        /\ new = NewScript(s) /\ g = s.g /\ f = s.f /\ score = s.score /\ from = s.from /\ old = s.old
        /\ less = finder.counts[s.from] - 1 /\ groups[g].rep = rep /\ groups[g].count + 1 = count
  OBVIOUS
<1>2. Script' = new /\ finder.pc = "members"
  <2>1. finder' = [finder EXCEPT !.script = new]
    BY <1>1
  <2>2. Script' = new
    BY <1>1, <2>1, MoveShapes
  <2>3. finder.pc = "members"
    BY DEF Shapes, ScriptOrder
  <2>4. QED
    BY <2>2, <2>3
<1>3. \A j \in Statements : j = 1
  <2>1. Statements = 1 .. Len(Script) /\ Len(Script) \in Nat
    BY TailOfScript DEF Shapes
  <2>2. \A j \in Statements : j <= 1
    BY DEF Shapes, ScriptOrder
  <2>3. QED
    BY <2>1, <2>2
<1>4. IsSecondHalf(new, g, f, score, from, less, old)
  BY <1>1 DEF NewScript, IsSecondHalf
<1>5. g \in DOMAIN groups
  BY <1>1 DEF GroupsKnown
<1>6. \/ SwapMove(new, g, f, score, rep, count, from, less)
      \/ PlainMove(new, g, f, score, rep, count, from, less)
  <2>1. groups[g].rep = rep /\ groups[g].count + 1 = count
    BY <1>1
  <2>2. QED
    BY <1>4, <1>5, <2>1, MoveScript
<1>7. /\ 1 \in DOMAIN new /\ new[1].op = "insert" /\ new[1].g = g /\ new[1].f = f
      /\ \A i \in DOMAIN new : i = 1 \/ new[i].op \notin {"insert", "add", "delete"}
  <2>1. CASE SwapMove(new, g, f, score, rep, count, from, less)
    BY <2>1 DEF SwapMove, Swap, SetCount, CountOne, Insert, Unflag, Update
  <2>2. CASE PlainMove(new, g, f, score, rep, count, from, less)
    BY <2>2 DEF PlainMove, NoSwap, SetCount, CountOne, Insert, Update
  <2>3. QED
    BY <1>6, <2>1, <2>2
<1>8. Grouped(f)'
  <2>1. WillInsert(g, f)'
    BY <1>2, <1>7 DEF WillInsert, Statements
  <2>2. QED
    BY <1>5, <2>1 DEF Grouped, InGroup, MemberLater
<1>9. GroupedStays
  <2>1. ASSUME NEW x, Grouped(x)
        PROVE  Grouped(x)'
    <3>1. CASE WillAdd(x)
      <4>1. x = f
        BY <1>1, <1>3, <3>1 DEF WillAdd
      <4>2. QED
        BY <1>8, <4>1
    <3>2. CASE InGroup(x)
      <4>1. PICK h \in DOMAIN groups : MemberLater(h, x)
        BY <3>2 DEF InGroup
      <4>2. <<h, x>> \in DOMAIN members
        BY <1>3, <4>1 DEF MemberLater, WillInsert
      <4>3. QED
        BY <4>2 DEF Grouped, InGroup, MemberLater
    <3>3. QED
      BY <2>1, <3>1, <3>2 DEF Grouped
  <2>2. QED
    BY <2>1 DEF GroupedStays
<1>10. InsertsIntoGroups(new)'
  BY <1>5, <1>7 DEF InsertsIntoGroups
<1>11. GroupsKnown' /\ MovesAreWhole'
  BY <1>2, <1>10, DecisionKnown
<1>12. QED
  BY <1>9, <1>11

LEMMA ExecuteCompared ==
  ASSUME Shapes, Compared, Execute
  PROVE  Compared'
<1>1. PICK s, rest : s = Script[1] /\ rest = Tail(Script)
  OBVIOUS
<1>2. /\ Script # <<>> /\ 1 \in Statements /\ StatementType(s)
      /\ UNCHANGED <<threshold, similarity, processed, lastGroup, checkpoint, reset, raced, late, moved>>
  BY <1>1, ExecuteCases
<1>3. \/ /\ WritesTables(s) /\ finder' = [finder EXCEPT !.script = rest]
         /\ s.op \notin {"reload", "add"}
      \/ /\ s.op = "reload" /\ UNCHANGED <<groups, members>>
         /\ finder' = [finder EXCEPT !.script = rest, !.reps = Cached(s.g)]
      \/ /\ s.op = "add" /\ UNCHANGED <<groups, members>>
         /\ finder' = [finder EXCEPT !.script = NewScript(s)]
  BY <1>1, ExecuteCases
<1>4. SameLooks /\ SameBatch /\ SameSim
  BY <1>2, ExecuteLooks DEF SameSim
<1>5. GroupsKnown /\ MovesAreWhole
  BY DEF Compared
<1>6. GroupedStays /\ GroupsKnown' /\ MovesAreWhole'
  <2>1. CASE WritesTables(s) /\ finder' = [finder EXCEPT !.script = rest] /\ s.op # "add"
    <3>1. Script' = rest /\ finder'.reps = finder.reps
      BY <1>1, <1>2, <2>1, DoneRecord
    <3>2. StepsOn(s)
      BY <1>1, <1>2, <3>1 DEF StepsOn
    <3>3. OwnRow(s) /\ DOMAIN groups' = DOMAIN groups
      BY <2>1, WritesOwnRow
    <3>4. finder'.pc \in {"ungrouped", "files", "group", "members"} => DOMAIN finder'.reps \subseteq DOMAIN groups
      BY <1>4, <1>5, <3>1 DEF GroupsKnown, SameLooks
    <3>5. QED
      BY <1>5, <2>1, <3>2, <3>3, <3>4, StatementKnown
  <2>2. CASE /\ s.op = "reload" /\ UNCHANGED <<groups, members>>
             /\ finder' = [finder EXCEPT !.script = rest, !.reps = Cached(s.g)]
    <3>1. PICK reps : reps = Cached(s.g)
      OBVIOUS
    <3>2. finder' = [finder EXCEPT !.script = rest, !.reps = reps]
      BY <2>2, <3>1
    <3>3. Script' = rest /\ finder'.reps = reps
      BY <3>2 DEF Shapes, FinderRecord, IdleFinder, Script
    <3>4. StepsOn(s)
      BY <1>1, <1>2, <3>3 DEF StepsOn
    <3>5. DOMAIN finder.reps \subseteq DOMAIN groups => DOMAIN reps \subseteq DOMAIN groups
      BY <3>1 DEF Cached
    <3>6. finder'.pc \in {"ungrouped", "files", "group", "members"} => DOMAIN finder'.reps \subseteq DOMAIN groups
      BY <1>4, <1>5, <3>3, <3>5 DEF GroupsKnown, SameLooks
    <3>7. OwnRow(s)
      BY <2>2 DEF OwnRow
    <3>8. QED
      BY <1>5, <2>2, <3>4, <3>6, <3>7, StatementKnown
  <2>3. CASE /\ s.op = "add" /\ UNCHANGED <<groups, members>>
             /\ finder' = [finder EXCEPT !.script = NewScript(s)]
    <3>1. PICK new : new = NewScript(s)
      OBVIOUS
    <3>2. finder'.reps = finder.reps
      BY <2>3, <3>1 DEF Shapes, FinderRecord, IdleFinder
    <3>3. UNCHANGED unmarked
      BY <1>1, <2>3, ExecuteCases DEF Conflict
    <3>4. QED
      BY <1>1, <1>2, <1>5, <2>3, <3>2, <3>3, AddKnown
  <2>4. QED
    BY <1>3, <2>1, <2>2, <2>3
<1>7. PairsBefore'
  BY <1>2, <1>4, <1>6, PairsStay DEF Compared
<1>8. Knowledge'
  BY <1>2, <1>4, <1>6, KnowledgeStays DEF Compared
<1>9. PlaceKnown'
  BY <1>2, <1>4 DEF Compared, PlaceKnown, SameLooks
<1>10. QED
  BY <1>6, <1>7, <1>8, <1>9 DEF Compared

-----------------------------------------------------------------------------
(* Pairs that were compared: the rest of the server, and the theorem.       *)

LEMMA RunCompared ==
  ASSUME Shapes, TopKnown, Compared, Run
  PROVE  Compared'
<1>1. CASE \/ Start \/ LoadRepresentatives \/ LoadGroups \/ MembersDone
           \/ \E g \in finder.todo : LoadMembers(g)
  BY <1>1, ReadingCompared
<1>2. CASE Query
  BY <1>2, QueryPairs
<1>3. CASE LoadUngrouped
  BY <1>3, UngroupedPairs
<1>4. CASE \E f \in finder.batch : Examine(f)
  BY <1>4, ExamineCompared
<1>5. CASE \E f \in finder.leftover : GroupLeftover(f)
  BY <1>5, GroupLeftoverCompared
<1>6. CASE upsertCheckpoint
  BY <1>6, CheckpointPairs
<1>7. CASE BatchDone
  BY <1>7, BatchDonePairs
<1>8. CASE Execute
  BY <1>8, ExecuteCompared
<1>9. CASE \E f \in Files : CheckMember(f)
  BY <1>9, CheckMemberCompared
<1>10. QED
  BY <1>1, <1>2, <1>3, <1>4, <1>5, <1>6, <1>7, <1>8, <1>9 DEF Run

\* A step that leaves the run, the tables and the lower threshold alone, and processes
\* no file, or one that neither the checkpoint nor the batch has passed.
LEMMA SameRunCompared ==
  ASSUME Compared, UNCHANGED <<finder, similarity, groups, members, checkpoint>>,
         ThresholdMin' = ThresholdMin,
         \A f \in InTime' : f \in InTime \/ (~ (f <= checkpoint) /\ ~ (f <= finder.top) /\ (finder.pc # "idle" => ~ (f <= finder.last)))
  PROVE  Compared'
<1>1. Script' = Script /\ Statements' = Statements
  BY DEF Script, Statements
<1>2. \A f : Grouped(f)' <=> Grouped(f)
  BY <1>1 DEF Grouped, WillAdd, InGroup, MemberLater, WillInsert
<1>3. \A f, h : Unlike(f, h)' <=> Unlike(f, h)
  <2>1. \A f, h : Similar(f, h)' <=> Similar(f, h)
    BY DEF Similar, Sim
  <2>2. QED
    BY <2>1 DEF Unlike, areMetadataCompatible
<1>4. \A f, h : Apart(f, h)' <=> Apart(f, h)
  BY <1>2, <1>3 DEF Apart
<1>5. \A f : Between(f)' <=> Between(f)
  BY DEF Between
<1>6. PairsBefore'
  BY <1>4 DEF Compared, PairsBefore
<1>7. BatchKnown'
  BY <1>2, <1>3, <1>5 DEF Compared, Knowledge, BatchKnown, Between
<1>8. OlderKnown'
  BY <1>2 DEF Compared, Knowledge, OlderKnown
<1>9. LeftoverCompared'
  BY <1>4, <1>5 DEF Compared, Knowledge, LeftoverCompared, Between
<1>10. PlaceKnown'
  BY DEF Compared, PlaceKnown
<1>11. GroupsKnown'
  BY <1>1 DEF Compared, GroupsKnown
<1>12. MovesAreWhole'
  BY <1>1 DEF Compared, MovesAreWhole, WillAdd
<1>13. QED
  BY <1>6, <1>7, <1>8, <1>9, <1>10, <1>11, <1>12 DEF Compared, Knowledge

\* A file is processed: in time, if its id comes after all that were passed.
LEMMA NewFileCompared ==
  ASSUME Shapes, TopKnown, Compared, NEW f \in Files, FileProcessed(f)
  PROVE  Compared'
<1>1. /\ f \notin processed /\ processed' = processed \cup {f}
      /\ late' = IF f < checkpoint \/ f < finder.top THEN late \cup {f} ELSE late
      /\ UNCHANGED <<finder, similarity, groups, members, checkpoint>> /\ ThresholdMin' = ThresholdMin
  BY DEF FileProcessed, tables, ThresholdMin
<1>2. /\ f \in Nat /\ f >= 1 /\ checkpoint \in Nat /\ finder.top \in Nat /\ finder.last \in Nat
      /\ finder.size \in Nat
  <2>1. \A h \in Files : h \in Nat /\ h >= 1
    BY ConstantFacts
  <2>2. QED
    BY <2>1 DEF Shapes, TypeOK, FinderTypes
<1>3. ASSUME f \notin late'
      PROVE  f > checkpoint /\ f > finder.top
  <2>1. ~ (f < checkpoint) /\ ~ (f < finder.top)
    BY <1>1, <1>3
  <2>2. f # checkpoint /\ f # finder.top
    BY <1>1, <1>2 DEF TopKnown
  <2>3. QED
    BY <1>2, <2>1, <2>2
<1>4. finder.pc # "idle" => finder.last <= checkpoint
  BY DEF Compared, PlaceKnown
<1>5. ASSUME NEW h \in InTime'
      PROVE  h \in InTime \/ (~ (h <= checkpoint) /\ ~ (h <= finder.top) /\ (finder.pc # "idle" => ~ (h <= finder.last)))
  <2>1. CASE h = f
    <3>1. f > checkpoint /\ f > finder.top
      BY <1>3, <1>5, <2>1 DEF InTime
    <3>2. finder.pc # "idle" => f > finder.last
      BY <1>2, <1>4, <3>1
    <3>3. QED
      BY <1>2, <2>1, <3>1, <3>2
  <2>2. CASE h # f
    <3>1. h \in processed /\ h \notin late
      BY <1>1, <1>5, <2>2 DEF InTime
    <3>2. QED
      BY <3>1 DEF InTime
  <2>3. QED
    BY <2>1, <2>2
<1>6. QED
  BY <1>1, <1>5, SameRunCompared

LEMMA ResetRowsIsKept ==
  ASSUME Shapes, QuietReset, ComparedInv, ResetRows, [Next]_vars
  PROVE  ResetRows'
<1>1. CASE UNCHANGED vars
  BY <1>1 DEF ResetRows, vars, tables, history
<1>2. CASE Run
  BY <1>2, RunFacts DEF ResetRows
<1>3. CASE \E f \in Files : FileProcessed(f)
  BY <1>3 DEF ResetRows, FileProcessed, tables
<1>4. CASE ResetMembers
  <2>1. /\ reset \in {"none", "members"} /\ reset' = "groups" /\ (~ raced' => ~ raced)
        /\ DOMAIN members' = { r \in DOMAIN members : r[1] \notin DOMAIN groups }
    BY <1>4 DEF ResetMembers
  <2>2. ~ raced => \A row \in DOMAIN members : row[1] \in DOMAIN groups
    BY <2>1 DEF ResetRows, ComparedInv, Compared, GroupsKnown
  <2>3. ~ raced' => DOMAIN members' = {}
    BY <2>1, <2>2
  <2>4. QED
    BY <2>1, <2>3 DEF ResetRows
<1>5. CASE ResetGroups
  BY <1>5 DEF ResetRows, ResetGroups, history
<1>6. CASE ResetCheckpoint
  BY <1>6 DEF ResetRows, ResetCheckpoint, history
<1>7. CASE \E range \in Thresholds : onConfigChange(Effective(range))
  <2>1. /\ reset = "none" /\ reset' \in {"none", "members"} /\ (~ raced' => ~ raced)
        /\ UNCHANGED <<members, groups>>
    BY <1>7 DEF onConfigChange, tables
  <2>2. ~ raced => \A row \in DOMAIN members : row[1] \in DOMAIN groups
    BY <2>1 DEF ComparedInv, Compared, GroupsKnown
  <2>3. QED
    BY <2>1, <2>2 DEF ResetRows
<1>8. CASE Crash
  BY <1>8 DEF ResetRows, Crash
<1>9. QED
  BY <1>1, <1>2, <1>3, <1>4, <1>5, <1>6, <1>7, <1>8 DEF Next, ResetStep

\* Without members and a checkpoint there is nothing to compare.
LEMMA NothingCompared ==
  ASSUME Shapes, DOMAIN members = {}, checkpoint = 0, Script = <<>>, finder.pc = "idle"
  PROVE  Compared
<1>1. Statements = {}
  BY DEF Statements
<1>2. \A f \in InTime : ~ (f <= checkpoint)
  <2>1. \A f \in Files : f >= 1 /\ f \in Nat
    BY ConstantFacts
  <2>2. InTime \subseteq Files
    BY DEF InTime, Shapes, TypeOK
  <2>3. QED
    BY <2>1, <2>2
<1>3. PairsBefore
  BY <1>2 DEF PairsBefore
<1>4. Knowledge /\ PlaceKnown /\ GroupsKnown /\ MovesAreWhole
  BY <1>1 DEF Knowledge, BatchKnown, OlderKnown, LeftoverCompared, PlaceKnown, GroupsKnown, MovesAreWhole
<1>5. QED
  BY <1>3, <1>4 DEF Compared

LEMMA ComparedIsKept ==
  ASSUME Shapes, Shapes', QuietReset, PairsInv, [Next]_vars
  PROVE  ComparedInv'
<1>1. ComparedInv /\ TopKnown /\ ResetRows
  BY DEF PairsInv
<1>2. CASE UNCHANGED vars
  <2>1. /\ UNCHANGED <<finder, similarity, groups, members, checkpoint, raced, reset, processed, late>>
        /\ ThresholdMin' = ThresholdMin
    BY <1>2 DEF vars, tables, history, ThresholdMin
  <2>2. InTime' = InTime
    BY <2>1 DEF InTime
  <2>3. QED
    BY <1>1, <2>1, <2>2, SameRunCompared DEF ComparedInv
<1>3. CASE Run
  <2>1. ~ raced' => ~ raced /\ reset = "none"
    BY <1>3, RunFacts
  <2>2. QED
    BY <1>1, <1>3, <2>1, RunCompared DEF ComparedInv
<1>4. CASE \E f \in Files : FileProcessed(f)
  <2>1. UNCHANGED <<raced, reset>>
    BY <1>4 DEF FileProcessed
  <2>2. QED
    BY <1>1, <1>4, <2>1, NewFileCompared DEF ComparedInv
<1>5. CASE ResetMembers
  BY <1>5 DEF ResetMembers, ComparedInv
<1>6. CASE ResetGroups
  BY <1>6 DEF ResetGroups, ComparedInv
<1>7. CASE ResetCheckpoint
  <2>1. UNCHANGED <<finder, members, raced>> /\ reset = "checkpoint" /\ checkpoint' = 0
    BY <1>7 DEF ResetCheckpoint, history
  <2>2. ASSUME ~ raced'
        PROVE  Compared'
    <3>1. finder.pc = "idle" /\ DOMAIN members = {}
      BY <1>1, <2>1, <2>2 DEF QuietReset, ResetRows
    <3>2. Script = <<>>
      BY <3>1 DEF Shapes, ScriptOrder
    <3>3. Script' = <<>> /\ finder'.pc = "idle" /\ DOMAIN members' = {}
      BY <2>1, <3>1, <3>2 DEF Script
    <3>4. Statements' = {}
      BY <3>3 DEF Statements
    <3>5. \A f \in InTime' : ~ (f <= checkpoint')
      <4>1. \A f \in Files : f >= 1 /\ f \in Nat
        BY ConstantFacts
      <4>2. InTime' \subseteq Files
        BY DEF InTime, Shapes, TypeOK
      <4>3. QED
        BY <2>1, <4>1, <4>2
    <3>6. PairsBefore'
      BY <3>5 DEF PairsBefore
    <3>7. Knowledge' /\ PlaceKnown' /\ GroupsKnown' /\ MovesAreWhole'
      BY <3>3, <3>4 DEF Knowledge, BatchKnown, OlderKnown, LeftoverCompared, PlaceKnown, GroupsKnown,
                        MovesAreWhole
    <3>8. QED
      BY <3>6, <3>7 DEF Compared
  <2>3. QED
    BY <2>2 DEF ComparedInv
<1>8. CASE \E range \in Thresholds : onConfigChange(Effective(range))
  <2>1. PICK range \in Thresholds : onConfigChange(Effective(range))
    BY <1>8
  <2>2. PICK new : new = Effective(range)
    OBVIOUS
  <2>3. /\ UNCHANGED <<finder, similarity, groups, members, checkpoint, processed, late>>
        /\ threshold' = new /\ reset = "none" /\ raced' = (raced \/ finder.pc # "idle")
        /\ reset' = "none" => new[1] = ThresholdMin
    BY <2>1, <2>2 DEF onConfigChange, tables, Resets
  <2>4. ASSUME ~ raced', reset' = "none"
        PROVE  Compared'
    <3>1. Compared
      BY <1>1, <2>3, <2>4 DEF ComparedInv
    <3>2. ThresholdMin' = ThresholdMin
      BY <2>3, <2>4 DEF ThresholdMin
    <3>3. InTime' = InTime
      BY <2>3 DEF InTime
    <3>4. QED
      BY <2>3, <3>1, <3>2, <3>3, SameRunCompared
  <2>5. QED
    BY <2>4 DEF ComparedInv
<1>9. CASE Crash
  BY <1>9 DEF Crash, ComparedInv
<1>10. QED
  BY <1>2, <1>3, <1>4, <1>5, <1>6, <1>7, <1>8, <1>9 DEF Next, ResetStep

\* Whatever the order in which files are processed, batches come and members move, and
\* after any reset or change of the thresholds that does not race with a run: two files
\* without a group that were passed in time do not resemble each other.
THEOREM NoPairIsEverMissed == Spec => []NoPairIsMissed
<1>1. Init => Inv /\ PairsInv
  <2> SUFFICES ASSUME Init
               PROVE  Inv /\ PairsInv
    OBVIOUS
  <2>1. Inv /\ Shapes
    BY InvAtTheStart, ShapesAtTheStart
  <2>2. /\ DOMAIN members = {} /\ checkpoint = 0 /\ Script = <<>> /\ finder.pc = "idle"
        /\ finder.top = 0 /\ reset = "none"
    BY DEF Init, Script, IdleFinder
  <2>3. Compared
    BY <2>1, <2>2, NothingCompared
  <2>4. QED
    BY <2>1, <2>2, <2>3 DEF PairsInv, ComparedInv, TopKnown, ResetRows
<1>2. Inv /\ PairsInv /\ [Next]_vars => Inv' /\ PairsInv'
  <2> SUFFICES ASSUME Inv, PairsInv, [Next]_vars
               PROVE  Inv' /\ PairsInv'
    OBVIOUS
  <2>1. Inv'
    BY InvIsKept
  <2>2. Shapes /\ Shapes' /\ QuietReset
    BY <2>1 DEF Inv
  <2>3. TopKnown' /\ ResetRows' /\ ComparedInv'
    BY <2>2, TopIsKept, ResetRowsIsKept, ComparedIsKept DEF PairsInv
  <2>4. QED
    BY <2>1, <2>3 DEF PairsInv
<1>3. Inv /\ PairsInv => NoPairIsMissed
  <2> SUFFICES ASSUME Inv, PairsInv, ~ raced, reset = "none", finder.pc = "idle",
                      NEW p \in Pairs \ Incompatible,
                      \A f \in p : f \in processed \ late /\ f <= checkpoint /\ GroupsOf(f) = {}
               PROVE  similarity[p] < ThresholdMin
    BY DEF NoPairIsMissed
  <2>1. Shapes /\ TypeOK /\ PairsBefore
    BY DEF Inv, Shapes, PairsInv, ComparedInv, Compared
  <2>2. Script = <<>>
    BY <2>1 DEF Shapes, ScriptOrder
  <2>3. PICK f \in Files, h \in Files : f # h /\ p = {f, h}
    <3>1. p \subseteq Files /\ Cardinality(p) = 2
      BY DEF Pairs
    <3>2. IsFiniteSet(p)
      BY <3>1, ConstantFacts, FS_Subset
    <3>3. PICK f \in p : TRUE
      BY <3>1, <3>2, FS_EmptySet
    <3>4. IsFiniteSet(p \ {f}) /\ Cardinality(p \ {f}) = 1
      BY <3>1, <3>2, <3>3, FS_RemoveElement
    <3>5. PICK h \in p \ {f} : p \ {f} = {h}
      BY <3>4, FS_Singleton
    <3>6. QED
      BY <3>1, <3>3, <3>5
  <2>4. Apart(f, h)
    BY <2>1, <2>3 DEF PairsBefore, InTime
  <2>5. ~ Grouped(f) /\ ~ Grouped(h)
    BY <2>2, <2>3, GroupedNow
  <2>6. Unlike(f, h)
    BY <2>4, <2>5 DEF Apart
  <2>7. ~ Similar(f, h)
    BY <2>3, <2>6 DEF Unlike, areMetadataCompatible
  <2>8. Sim(f, h) = similarity[p] /\ similarity[p] \in Nat /\ ThresholdMin \in Nat
    BY <2>1, <2>3, ConstantFacts DEF Sim, TypeOK, ThresholdMin
  <2>9. QED
    BY <2>7, <2>8 DEF Similar
<1>4. QED
  BY <1>1, <1>2, <1>3, PTL DEF Spec

=============================================================================
