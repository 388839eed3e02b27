--------------------------- MODULE DuplicateFinder ---------------------------
(***************************************************************************)
(* DuplicateFinder (src/src/orchestration/duplicate_finder.cpp) and the     *)
(* tables it keeps through DuplicateGroupsOps: a run walks the processed    *)
(* files in batches, from its checkpoint on, and puts each one into the     *)
(* best existing group, or into a new group with files that were left       *)
(* over; after each batch, members that fit their group badly move to a     *)
(* group whose representative they resemble more.                           *)
(*                                                                         *)
(* A file is the id of its row.  There is one run at a time (running_), and *)
(* it reads, decides and writes in statements of their own: what a decision *)
(* still has to write is in finder.script, one action per statement, so     *)
(* that the reset of the web handler and a crash can come in between.       *)
(***************************************************************************)
EXTENDS Integers, Sequences, FiniteSetsExt, SequencesExt

CONSTANTS
  N,               \* files are the row ids 1 .. N
  BatchSize,       \* duplicates.finder.batchSize
  Levels,          \* similarities that are told apart; the largest is identity
  Tables,          \* the similarities of all pairs of files that may be given
  Thresholds,      \* pairs of duplicates.threshold.min and .max that may be configured
  DefaultMin, DefaultMax,
  Rank,            \* a larger, or equally large and older, file has a higher rank
  Incompatible,    \* pairs of files that the metadata filter keeps apart
  MaxDisturbances  \* bound: resets, crashes and changes of the thresholds

Files == 1 .. N
Pairs == { p \in SUBSET Files : Cardinality(p) = 2 }

ASSUME FinderAssumption ==
  /\ N \in Nat /\ BatchSize \in Nat \ {0} /\ MaxDisturbances \in Nat
  /\ Levels \subseteq Nat /\ \E top \in Levels : \A level \in Levels : level <= top
  /\ Thresholds \subseteq (Levels \ {0}) \X (Levels \ {0})
  /\ {DefaultMin, DefaultMax} \subseteq Levels \ {0} /\ DefaultMin <= DefaultMax
  /\ Tables \subseteq [Pairs -> Levels]
  /\ Rank \in [Files -> Nat]
  /\ Incompatible \subseteq Pairs

VARIABLES
  threshold,   \* embedding_threshold_min_ and _max_
  similarity,  \* of the embeddings of each pair of files
  processed,   \* files with status 2, an embedding and metadata
  groups,      \* duplicate_groups, by id: representative and member_count
  members,     \* duplicate_members, by group and file: score and flag
  lastGroup,   \* AUTOINCREMENT of duplicate_groups
  checkpoint,  \* last_processed_id; 0: no row
  finder,      \* the run of findDuplicates
  reset,       \* what the reset still has to do
  disturbances,
  raced,       \* history: a run was cut short, or a reset came during a run
  late,        \* history: files that were processed when a batch had passed them
  moved,       \* history: files that ever moved to another group
  unmarked     \* history: groups whose new representative was a member already

tables  == <<groups, members, lastGroup, checkpoint>>
history == <<raced, late, moved, unmarked>>
vars == <<threshold, similarity, processed, tables, finder, reset, disturbances, history>>

IdleFinder ==
  [pc |-> "idle", last |-> 0, size |-> 0, top |-> 0, batch |-> {}, reps |-> <<>>,
   ungrouped |-> {}, leftover |-> {}, script |-> <<>>, counts |-> <<>>, todo |-> {},
   group |-> 0, low |-> <<>>]

-----------------------------------------------------------------------------
(* Similarity, and the tables.                                             *)

ThresholdMin == threshold[1]
ThresholdMax == threshold[2]

Identity == Max(Levels)
Sim(f, g) == IF f = g THEN Identity ELSE similarity[{f, g}]
Similar(f, g) == Sim(f, g) >= ThresholdMin
areMetadataCompatible(f, g) == {f, g} \notin Incompatible
isBetterRepresentative(f, g) == Rank[f] > Rank[g]

Members(g)   == { f \in Files : <<g, f>> \in DOMAIN members }
GroupsOf(f)  == { g \in DOMAIN groups : f \in Members(g) }
HasMember(f) == \E row \in DOMAIN members : row[2] = f

\* The first file of the list that no file of the list is better than.
selectRepresentative(files) ==
  files[Min({ i \in DOMAIN files : \A j \in DOMAIN files :
                                     ~ isBetterRepresentative(files[j], files[i]) })]

\* Lists of files come in the order of their ids, and are kept as sets.
Earlier(f, S) == { h \in S : h < f }
First(f, S) == f \in S /\ Earlier(f, S) = {}
Ascending(S) ==
  [i \in 1 .. Cardinality(S) |-> CHOOSE f \in S : Cardinality(Earlier(f, S)) = i - 1]

\* Those of the list that join the files of start: each one, in its turn, resembles
\* all that were taken before; areMetadataCompatible is asked for the first only.
Gather(start, list) ==
  { joined \in SUBSET (list \ ToSet(start)) :
      \A f \in list \ ToSet(start) :
        f \in joined <=> /\ areMetadataCompatible(f, start[1])
                         /\ \A h \in ToSet(start) \cup Earlier(f, joined) : Similar(f, h) }

-----------------------------------------------------------------------------
(* Statements that a decision leaves to be executed, one by one.            *)

Insert(g, f, score, flag) == [op |-> "insert", g |-> g, f |-> f, score |-> score, flag |-> flag]
Unflag(g, f)              == [op |-> "unflag", g |-> g, f |-> f]
Update(g, rep, count)     == [op |-> "update", g |-> g, rep |-> rep, count |-> count]
Reload(g)                 == [op |-> "reload", g |-> g]
Delete(g, f)              == [op |-> "delete", g |-> g, f |-> f]
Add(g, f, score, from, old) ==
  [op |-> "add", g |-> g, f |-> f, score |-> score, from |-> from, old |-> old]
SetCount(g, count)        == [op |-> "count", g |-> g, count |-> count]
CountOne(g)               == [op |-> "countone", g |-> g]

\* Mutant: the old representative keeps its flag.
AddKeepsFlag(g, f, score) ==
  LET rep  == groups[g].rep
      next == groups[g].count + 1
  IN  IF isBetterRepresentative(f, rep) /\ score >= ThresholdMax
        THEN <<Insert(g, f, score, TRUE), Update(g, f, next)>>
        ELSE <<Insert(g, f, score, FALSE), Update(g, rep, next)>>

\* addToGroup, after it has read the row of the group.
addToGroup(g, f, score) ==
  LET rep  == groups[g].rep
      next == groups[g].count + 1
      swap == isBetterRepresentative(f, rep) /\ score >= ThresholdMax
  IN  IF swap
        THEN <<Insert(g, f, score, TRUE), Unflag(g, rep), Update(g, f, next)>>
        ELSE <<Insert(g, f, score, FALSE), Update(g, rep, next)>>

\* createDuplicateGroup, after it has inserted the row of the group.
addMembers(g, files) ==
  LET rep == selectRepresentative(files)
      One(i) == Insert(g, files[i], Sim(files[i], rep), files[i] = rep)
  IN  [i \in DOMAIN files |-> One(i)] \o <<Update(g, rep, Len(files)), Reload(g)>>

GroupRow(g, row) ==
  IF g \in DOMAIN groups THEN groups' = [groups EXCEPT ![g] = row] ELSE UNCHANGED groups

\* The cached representatives follow the table.
Cached(g) ==
  IF g \in DOMAIN groups
    THEN [h \in DOMAIN finder.reps \cup {g} |->
            IF h = g THEN groups[g].rep ELSE finder.reps[h]]
    ELSE finder.reps

Execute ==
  LET s == Head(finder.script)
      rest == Tail(finder.script)
      Done == finder' = [finder EXCEPT !.script = rest]
      Conflict == s.op = "insert" /\ s.flag /\ <<s.g, s.f>> \in DOMAIN members
  IN  /\ finder.script # <<>>
      /\ \/ /\ s.op = "insert"
            /\ members' = [row \in DOMAIN members \cup {<<s.g, s.f>>} |->
                             IF row \in DOMAIN members THEN members[row]
                                                       ELSE [score |-> s.score, flag |-> s.flag]]
            /\ Done
            /\ UNCHANGED groups
         \/ /\ s.op = "unflag"
            /\ members' = IF <<s.g, s.f>> \in DOMAIN members
                            THEN [members EXCEPT ![<<s.g, s.f>>].flag = FALSE] ELSE members
            /\ Done
            /\ UNCHANGED groups
         \/ /\ s.op = "update"
            /\ GroupRow(s.g, [rep |-> s.rep, count |-> s.count])
            /\ Done
            /\ UNCHANGED members
         \/ /\ s.op = "reload"
            /\ finder' = [finder EXCEPT !.script = rest, !.reps = Cached(s.g)]
            /\ UNCHANGED <<groups, members>>
         \/ /\ s.op = "delete"
            /\ members' = [row \in DOMAIN members \ {<<s.g, s.f>>} |-> members[row]]
            /\ Done
            /\ UNCHANGED groups
         \/ /\ s.op = "add"
            /\ finder' = [finder EXCEPT !.script =
                            IF s.g \in DOMAIN groups
                              THEN addToGroup(s.g, s.f, s.score)
                                     \o <<SetCount(s.from, finder.counts[s.from] - 1),
                                          CountOne(s.g)>>
                              ELSE <<Insert(s.from, s.f, s.old, FALSE)>>]
            /\ UNCHANGED <<groups, members>>
         \/ /\ s.op = "count"
            /\ GroupRow(s.g, [groups[s.g] EXCEPT !.count = s.count])
            /\ Done
            /\ UNCHANGED members
         \/ /\ s.op = "countone"
            /\ GroupRow(s.g, [groups[s.g] EXCEPT !.count = @ + 1])
            /\ Done
            /\ UNCHANGED members
      /\ unmarked' = IF Conflict THEN unmarked \cup {s.g} ELSE unmarked
      /\ UNCHANGED <<threshold, similarity, processed, lastGroup, checkpoint, reset, disturbances,
                     raced, late, moved>>

-----------------------------------------------------------------------------
(* findDuplicates and processBatch.                                        *)

At(pc) == finder.pc = pc /\ finder.script = <<>>

Start ==
  /\ At("idle")
  /\ finder' = [finder EXCEPT !.pc = "query", !.last = checkpoint]
  /\ raced' = (raced \/ reset # "none")
  /\ UNCHANGED <<threshold, similarity, processed, tables, reset, disturbances, late, moved, unmarked>>

\* The processed files after the last id, at most BatchSize of them.
Query ==
  LET new   == { f \in processed : f > finder.last }
      batch == { f \in new : Cardinality(Earlier(f, new)) < BatchSize }
  IN  /\ At("query")
      /\ \/ new = {} /\ finder' = IdleFinder
         \/ \E top \in batch :
              /\ \A f \in batch : f <= top
              /\ finder' = [finder EXCEPT !.pc = "reps", !.batch = batch, !.top = top,
                                          !.size = Cardinality(batch)]
      /\ UNCHANGED <<threshold, similarity, processed, tables, reset, disturbances, history>>

LoadRepresentatives ==
  /\ At("reps")
  /\ finder' = [finder EXCEPT !.pc = "ungrouped",
                              !.reps = [g \in DOMAIN groups |-> groups[g].rep]]
  /\ UNCHANGED <<threshold, similarity, processed, tables, reset, disturbances, history>>

LoadUngrouped ==
  /\ At("ungrouped")
  /\ finder' = [finder EXCEPT !.pc = "files",
                  !.ungrouped = { f \in processed : f <= finder.last /\ ~ HasMember(f) }]
  /\ UNCHANGED <<threshold, similarity, processed, tables, reset, disturbances, history>>

\* The group whose cached representative resembles f most, the first of several.
BestGroups(f) ==
  LET near == { g \in DOMAIN finder.reps : /\ areMetadataCompatible(f, finder.reps[g])
                                            /\ Similar(f, finder.reps[g]) }
  IN  { g \in near : \A h \in near :
          \/ Sim(f, finder.reps[g]) > Sim(f, finder.reps[h])
          \/ Sim(f, finder.reps[g]) = Sim(f, finder.reps[h]) /\ g <= h }

\* Mutant: the best representative decides alone.
SimilarToRepresentative(f, g) == TRUE

\* The representative was compared already; the flag tells which member it is.
SimilarToAllMembers(f, g) ==
  \A h \in Members(g) : members[<<g, h>>].flag \/ Similar(f, h)

Fitting(f) == { g \in BestGroups(f) : SimilarToAllMembers(f, g) }

\* Mutant: files of earlier batches are not looked at.
NoCrossBatchMatches(f) == {}

\* tryCrossBatchGrouping starts from the last file of an earlier batch that f
\* resembles, in the list as it was when the batch began.
CrossBatchMatches(f) ==
  { u \in finder.ungrouped : areMetadataCompatible(f, u) /\ Similar(f, u) }

NextFile(f, leftover, script) ==
  finder' = [finder EXCEPT !.batch = @ \ {f}, !.leftover = leftover, !.script = script]

CreateGroup(files) ==
  LET g == lastGroup + 1
  IN  /\ lastGroup' = g
      /\ groups' = [h \in DOMAIN groups \cup {g} |->
                      IF h = g THEN [rep |-> selectRepresentative(files), count |-> 1]
                               ELSE groups[h]]

\* One new file of the batch; one that is a member of a group already is skipped.
Examine(f) ==
  /\ At("files")
  /\ First(f, finder.batch)
  /\ \/ /\ GroupsOf(f) # {}
        /\ NextFile(f, finder.leftover, <<>>)
        /\ UNCHANGED <<groups, lastGroup>>
     \/ /\ GroupsOf(f) = {}
        /\ \E g \in Fitting(f) :
             NextFile(f, finder.leftover,
                      IF g \in DOMAIN groups
                        THEN addToGroup(g, f, Sim(f, finder.reps[g])) \o <<Reload(g)>>
                        ELSE <<>>)
        /\ UNCHANGED <<groups, lastGroup>>
     \/ /\ GroupsOf(f) = {}
        /\ Fitting(f) = {}
        /\ \E u \in CrossBatchMatches(f) :
             /\ \A v \in CrossBatchMatches(f) : v <= u
             /\ \E joined \in Gather(<<u, f>>, finder.ungrouped) :
                  LET files == <<u, f>> \o Ascending(joined)
                  IN  /\ CreateGroup(files)
                      /\ NextFile(f, finder.leftover, addMembers(lastGroup + 1, files))
     \/ /\ GroupsOf(f) = {}
        /\ Fitting(f) = {}
        /\ CrossBatchMatches(f) = {}
        /\ NextFile(f, finder.leftover \cup {f}, <<>>)
        /\ UNCHANGED <<groups, lastGroup>>
  /\ UNCHANGED <<threshold, similarity, processed, members, checkpoint, reset, disturbances, history>>

\* A file that is left over, with those after it that resemble it and each other.
GroupLeftover(f) ==
  /\ At("files")
  /\ finder.batch = {}
  /\ First(f, finder.leftover)
  /\ \E joined \in Gather(<<f>>, finder.leftover) :
       LET files == <<f>> \o Ascending(joined)
           Rest(script) == finder' = [finder EXCEPT !.leftover = (@ \ {f}) \ joined,
                                                    !.script = script]
       IN  \/ joined # {} /\ CreateGroup(files) /\ Rest(addMembers(lastGroup + 1, files))
           \/ joined = {} /\ Rest(<<>>) /\ UNCHANGED <<groups, lastGroup>>
  /\ UNCHANGED <<threshold, similarity, processed, members, checkpoint, reset, disturbances, history>>

upsertCheckpoint ==
  /\ At("files")
  /\ finder.batch = {}
  /\ finder.leftover = {}
  /\ checkpoint' = finder.top
  /\ finder' = [finder EXCEPT !.pc = "cross"]
  /\ UNCHANGED <<threshold, similarity, processed, groups, members, lastGroup, reset, disturbances, history>>

-----------------------------------------------------------------------------
(* performCrossGroupChecking.                                              *)

LoadGroups ==
  /\ At("cross")
  /\ finder' = [finder EXCEPT !.pc = "group", !.todo = DOMAIN groups,
                  !.reps = [g \in DOMAIN groups |-> groups[g].rep],
                  !.counts = [g \in DOMAIN groups |-> groups[g].count]]
  /\ UNCHANGED <<threshold, similarity, processed, tables, reset, disturbances, history>>

\* Groups come in the order of their last update; within a second, in any.
LoadMembers(g) ==
  LET low == { f \in Members(g) : /\ ~ members[<<g, f>>].flag
                                  /\ members[<<g, f>>].score < ThresholdMax }
  IN  /\ At("group")
      /\ g \in finder.todo
      /\ finder' = [finder EXCEPT !.pc = "members", !.group = g, !.todo = @ \ {g},
                      !.low = [f \in low |-> members[<<g, f>>].score]]
      /\ UNCHANGED <<threshold, similarity, processed, tables, reset, disturbances, history>>

Others(f) ==
  { h \in DOMAIN finder.reps \ {finder.group} : areMetadataCompatible(f, finder.reps[h]) }

\* The other groups that f resembles most, if it resembles them more than its own.
BetterGroups(f) ==
  { h \in Others(f) : /\ Sim(f, finder.reps[h]) > finder.low[f]
                      /\ \A i \in Others(f) : Sim(f, finder.reps[h]) >= Sim(f, finder.reps[i]) }

\* The members with a low score, best score first; each one stays or moves.
CheckMember(f) ==
  /\ At("members")
  /\ f \in DOMAIN finder.low
  /\ \A h \in DOMAIN finder.low : finder.low[f] >= finder.low[h]
  /\ LET rest == [h \in DOMAIN finder.low \ {f} |-> finder.low[h]]
     IN  \/ /\ BetterGroups(f) = {}
            /\ finder' = [finder EXCEPT !.low = rest]
            /\ UNCHANGED moved
         \/ /\ \E h \in BetterGroups(f) :
                 finder' = [finder EXCEPT !.low = rest,
                              !.script = <<Delete(finder.group, f),
                                           Add(h, f, Sim(f, finder.reps[h]),
                                               finder.group, finder.low[f])>>]
            /\ moved' = moved \cup {f}
  /\ UNCHANGED <<threshold, similarity, processed, tables, reset, disturbances, raced, late, unmarked>>

MembersDone ==
  /\ At("members")
  /\ DOMAIN finder.low = {}
  /\ finder' = [finder EXCEPT !.pc = "group"]
  /\ UNCHANGED <<threshold, similarity, processed, tables, reset, disturbances, history>>

\* Mutants: as many ids further on as a full batch has, or none.
AfterFullBatch == finder.last + BatchSize
SameBatchAgain == finder.last

\* As many ids further on as there were files in this batch.
AfterBatch == finder.last + finder.size

BatchDone ==
  /\ At("group")
  /\ finder.todo = {}
  /\ finder' = [IdleFinder EXCEPT !.pc = "query", !.last = AfterBatch, !.top = finder.top]
  /\ UNCHANGED <<threshold, similarity, processed, tables, reset, disturbances, history>>

-----------------------------------------------------------------------------
(* The rest of the server.                                                 *)

Disturb == disturbances < MaxDisturbances /\ disturbances' = disturbances + 1

FileProcessed(f) ==
  /\ f \notin processed
  /\ processed' = processed \cup {f}
  /\ late' = IF f < checkpoint \/ f < finder.top THEN late \cup {f} ELSE late
  /\ UNCHANGED <<threshold, similarity, tables, finder, reset, disturbances, raced, moved, unmarked>>

\* DELETE /api/v1/duplicates/reset, and a change of the lower threshold:
\* deleteGroupsByMode and resetCheckpoint.
ResetMembers ==
  /\ \/ reset = "none" /\ Disturb
     \/ reset = "members" /\ UNCHANGED disturbances
  /\ reset' = "groups"
  /\ members' = [row \in { r \in DOMAIN members : r[1] \notin DOMAIN groups } |-> members[row]]
  /\ raced' = (raced \/ finder.pc # "idle")
  /\ UNCHANGED <<threshold, similarity, processed, groups, lastGroup, checkpoint, finder, late, moved, unmarked>>

ResetGroups ==
  /\ reset = "groups"
  /\ reset' = "checkpoint"
  /\ groups' = <<>>
  /\ UNCHANGED <<threshold, similarity, processed, members, lastGroup, checkpoint, finder, disturbances, history>>

ResetCheckpoint ==
  /\ reset = "checkpoint"
  /\ reset' = "none"
  /\ checkpoint' = 0
  /\ UNCHANGED <<threshold, similarity, processed, groups, members, lastGroup, finder, disturbances, history>>

\* A range that is the wrong way round gives the defaults, but not at the start.
Effective(range) == IF range[1] > range[2] THEN <<DefaultMin, DefaultMax>> ELSE range

\* Mutant: the groups are kept unless the range gets wider at its upper end.
ResetsIfWider(range) == range[2] > ThresholdMax
\* Only another lower threshold makes the groups wrong.
Resets(range) == range[1] # ThresholdMin

\* onConfigChange; a run that is under way goes on with the new values.
onConfigChange(range) ==
  /\ reset = "none" /\ range # threshold
  /\ Disturb
  /\ threshold' = range
  /\ reset' = IF Resets(range) THEN "members" ELSE "none"
  /\ raced' = (raced \/ finder.pc # "idle")
  /\ UNCHANGED <<similarity, processed, tables, finder, late, moved, unmarked>>

\* The thresholds are read again, and not tested; the groups stay as they are.
Crash ==
  /\ Disturb
  /\ finder.pc # "idle" \/ reset # "none"
  /\ threshold' \in Thresholds
  /\ finder' = IdleFinder
  /\ reset' = "none"
  /\ raced' = TRUE
  /\ UNCHANGED <<similarity, processed, tables, late, moved, unmarked>>

-----------------------------------------------------------------------------
Init ==
  /\ threshold \in Thresholds
  /\ similarity \in Tables
  /\ processed = {}
  /\ groups = <<>>
  /\ members = <<>>
  /\ lastGroup = 0
  /\ checkpoint = 0
  /\ finder = IdleFinder
  /\ reset = "none"
  /\ disturbances = 0
  /\ raced = FALSE
  /\ late = {}
  /\ moved = {}
  /\ unmarked = {}

Run ==
  \/ Start \/ Query \/ LoadRepresentatives \/ LoadUngrouped
  \/ \E f \in finder.batch : Examine(f)
  \/ \E f \in finder.leftover : GroupLeftover(f)
  \/ upsertCheckpoint \/ LoadGroups \/ MembersDone \/ BatchDone \/ Execute
  \/ \E g \in finder.todo : LoadMembers(g)
  \/ \E f \in Files : CheckMember(f)

ResetStep == ResetMembers \/ ResetGroups \/ ResetCheckpoint

Next ==
  \/ Run
  \/ \E f \in Files : FileProcessed(f)
  \/ ResetStep
  \/ \E range \in Thresholds : onConfigChange(Effective(range))
  \/ Crash

Spec == Init /\ [][Next]_vars

\* The scheduler starts one run after the other, and a run goes on.
FairSpec == Spec /\ WF_vars(Run)

-----------------------------------------------------------------------------
(* Properties.                                                             *)

\* Every variable keeps its type.
TypeOK ==
  /\ threshold \in Levels \X Levels
  /\ similarity \in [Pairs -> Levels]
  /\ processed \subseteq Files
  /\ DOMAIN groups \subseteq 1 .. lastGroup
  /\ \A g \in DOMAIN groups : groups[g] \in [rep : Files, count : Int]
  /\ \A row \in DOMAIN members : /\ row \in (1 .. lastGroup) \X Files
                                 /\ members[row] \in [score : Levels, flag : BOOLEAN]
  /\ checkpoint \in 0 .. N
  /\ finder.pc \in {"idle", "query", "reps", "ungrouped", "files", "cross", "group", "members"}
  /\ finder.last \in 0 .. N
  /\ reset \in {"none", "members", "groups", "checkpoint"}
  /\ late \subseteq processed /\ moved \subseteq processed
  /\ unmarked \subseteq 1 .. lastGroup

\* Non-transitive: whatever the order of files and batches, files that grouping
\* put together resemble each other, also those that never met a common batch,
\* and by the threshold that holds now, also if it was changed between runs.
\* (A file that moved was only compared with the representative.)
PairwiseSimilar ==
  \A g \in DOMAIN groups : \A f, h \in Members(g) \ moved : Similar(f, h)

GroupsArePairwiseSimilar == ~ raced /\ reset = "none" => PairwiseSimilar

\* Between two decisions of a run that nothing cuts short, the row of a group
\* and the flags of its members name the same representative. (Not if a file of
\* two groups moved from one to the other and became the representative there:
\* the row that it had is not inserted again, and keeps its flag.)
RepresentativesAgree ==
  ~ raced /\ reset = "none" /\ finder.script = <<>> =>
    \A g \in DOMAIN groups \ unmarked :
      { f \in Members(g) : members[<<g, f>>].flag } = {groups[g].rep}

\* Two files without a group that both passed in time were compared, and do not
\* resemble each other, also when they were in different batches.
NoPairIsMissed ==
  ~ raced /\ reset = "none" /\ finder.pc = "idle" =>
    \A p \in Pairs \ Incompatible :
      (\A f \in p : f \in processed \ late /\ f <= checkpoint /\ GroupsOf(f) = {})
        => similarity[p] < ThresholdMin

\* A run gets past every processed file, whatever resets and crashes there were.
EveryFileIsChecked ==
  \A f \in Files : f \in processed ~> checkpoint >= f

=============================================================================
