-------------------------- MODULE MCDuplicateFinder --------------------------
(* DuplicateFinder with few files, for every table of similarities.         *)
EXTENDS DuplicateFinder

\* The better a file is as a representative, the later it comes; only file 4
\* is no better than the first.
MCRank3 == <<1, 2, 3>>
MCRank4 == <<1, 2, 3, 1>>

MCAllTables == [Pairs -> Levels]

\* Whether a run goes on does not depend on much of the table: every pair is
\* similar; two are alike, and the third resembles one of them, or both.
MCFewTables ==
  { [p \in Pairs |-> 1] } \cup
  { [p \in Pairs |-> IF p \in unlike THEN 0 ELSE IF p = {1, 2} THEN 2 ELSE 1] :
      unlike \in {{}, {{1, 3}}} }

MCOneRange == {<<1, 2>>}

\* A wide one, and one the wrong way round, of which a change makes the default.
MCRanges == {<<1, 2>>, <<2, 1>>}

=============================================================================
