--------------------------- MODULE DiskCache_proofs ---------------------------
(***************************************************************************)
(* Theorems about DiskCache, for any sources, sizes, tasks and limits: the  *)
(* types, that the size covers the files, that what no task works on fits   *)
(* the limit, that marked files stay, and that a stream that fits is saved. *)
(***************************************************************************)
EXTENDS DiskCache, FiniteSetTheorems, WellFoundedInduction, TLAPS


-----------------------------------------------------------------------------
(* Sums of sizes.                                                           *)

USE DEF Files

\* The bytes of some files, as a set.
BytesOf(d, names) == UNION {{n} \X (1 .. d.bytes[n]) : n \in names}

\* The bytes of one file: as many as its size says.
LEMMA BytesOfAFile ==
  ASSUME NEW n, NEW k \in Nat
  PROVE  IsFiniteSet({n} \X (1 .. k)) /\ Cardinality({n} \X (1 .. k)) = k
<1>1. IsFiniteSet({n}) /\ Cardinality({n}) = 1
  BY FS_Singleton
<1>2. IsFiniteSet(1 .. k) /\ Cardinality(1 .. k) = k
  <2>1. IsFiniteSet(1 .. k) /\ Cardinality(1 .. k) = IF 1 > k THEN 0 ELSE k - 1 + 1
    BY 1 \in Int, k \in Int, FS_Interval
  <2>2. QED
    BY <2>1
<1> DEFINE S == {n}
           T == 1 .. k
<1>3. IsFiniteSet(S) /\ IsFiniteSet(T)
  BY <1>1, <1>2
<1> HIDE DEF S, T
<1>4. IsFiniteSet(S \X T) /\ Cardinality(S \X T) = Cardinality(S) * Cardinality(T)
  BY <1>3, FS_Product
<1>5. QED
  BY <1>1, <1>2, <1>4 DEF S, T

LEMMA BytesMember ==
  ASSUME NEW d, NEW S, NEW x
  PROVE  x \in BytesOf(d, S) <=> \E n \in S : \E k \in 1 .. d.bytes[n] : x = <<n, k>>
BY DEF BytesOf

\* There are finitely many bytes: their number is a natural number.
LEMMA BytesFinite ==
  ASSUME NEW d, NEW S, IsFiniteSet(S), \A n \in S : d.bytes[n] \in Nat
  PROVE  /\ IsFiniteSet(BytesOf(d, S))
         /\ Bytes(d, S) = Cardinality(BytesOf(d, S)) /\ Bytes(d, S) \in Nat
<1>1. ASSUME NEW n \in S PROVE IsFiniteSet({n} \X (1 .. d.bytes[n]))
  <2>1. PICK k \in Nat : d.bytes[n] = k
    OBVIOUS
  <2>2. QED
    BY <2>1, BytesOfAFile
<1> DEFINE Parts == {{n} \X (1 .. d.bytes[n]) : n \in S}
<1>2. IsFiniteSet(Parts)
  <2> DEFINE f == [n \in S |-> {n} \X (1 .. d.bytes[n])]
  <2>1. f \in Surjection(S, Parts)
    BY DEF Surjection
  <2>2. QED
    BY <2>1, FS_Surjection
<1>3. IsFiniteSet(UNION Parts)
  BY <1>1, <1>2, FS_UNION
<1>4. QED
  BY <1>3, FS_CardinalityType DEF BytesOf, Bytes

\* One file has as many bytes as its size says.
LEMMA BytesOfOne ==
  ASSUME NEW d, NEW n, d.bytes[n] \in Nat
  PROVE  Bytes(d, {n}) = d.bytes[n]
<1>1. PICK k \in Nat : d.bytes[n] = k
  OBVIOUS
<1>2. UNION {{m} \X (1 .. d.bytes[m]) : m \in {n}} = {n} \X (1 .. k)
  BY <1>1
<1>3. QED
  BY <1>1, <1>2, BytesOfAFile DEF Bytes

LEMMA BytesOfNone ==
  ASSUME NEW d
  PROVE  Bytes(d, {}) = 0
<1>1. UNION {{m} \X (1 .. d.bytes[m]) : m \in {}} = {}
  OBVIOUS
<1>2. QED
  BY <1>1, FS_EmptySet DEF Bytes

\* The files of two sets that share none.
LEMMA BytesAdd ==
  ASSUME NEW d, NEW S, NEW T, IsFiniteSet(S), IsFiniteSet(T), S \cap T = {},
         \A n \in S \cup T : d.bytes[n] \in Nat
  PROVE  Bytes(d, S \cup T) = Bytes(d, S) + Bytes(d, T)
<1>1. BytesOf(d, S \cup T) = BytesOf(d, S) \cup BytesOf(d, T)
  BY DEF BytesOf
<1>2. BytesOf(d, S) \cap BytesOf(d, T) = {}
  BY BytesMember
<1>3. IsFiniteSet(S \cup T)
  BY FS_Union
<1>4. Cardinality(BytesOf(d, S) \cap BytesOf(d, T)) = 0
  BY <1>2, FS_EmptySet
<1>5. /\ IsFiniteSet(BytesOf(d, S)) /\ IsFiniteSet(BytesOf(d, T))
      /\ Bytes(d, S) = Cardinality(BytesOf(d, S)) /\ Bytes(d, T) = Cardinality(BytesOf(d, T))
      /\ Bytes(d, S) \in Nat /\ Bytes(d, T) \in Nat
  BY BytesFinite
<1>6. Bytes(d, S \cup T) = Cardinality(BytesOf(d, S) \cup BytesOf(d, T))
  BY <1>1, <1>3, BytesFinite
<1>7. Cardinality(BytesOf(d, S) \cup BytesOf(d, T)) =
        Cardinality(BytesOf(d, S)) + Cardinality(BytesOf(d, T))
          - Cardinality(BytesOf(d, S) \cap BytesOf(d, T))
  BY <1>5, FS_Union
<1>8. QED
  BY <1>4, <1>5, <1>6, <1>7

\* Fewer files have no more bytes.
LEMMA BytesLess ==
  ASSUME NEW d, NEW S, NEW T, IsFiniteSet(S), T \subseteq S, \A n \in S : d.bytes[n] \in Nat
  PROVE  Bytes(d, S) = Bytes(d, T) + Bytes(d, S \ T) /\ Bytes(d, T) <= Bytes(d, S)
<1>1. IsFiniteSet(T) /\ IsFiniteSet(S \ T)
  BY FS_Subset
<1>2. S = T \cup (S \ T)
  OBVIOUS
<1>3. Bytes(d, T \cup (S \ T)) = Bytes(d, T) + Bytes(d, S \ T)
  BY <1>1, <1>2, BytesAdd
<1>4. Bytes(d, T) \in Nat /\ Bytes(d, S \ T) \in Nat
  BY <1>1, BytesFinite
<1>5. Bytes(d, T \cup (S \ T)) = Bytes(d, S)
  BY <1>2, Zenon
<1>6. QED
  BY <1>3, <1>4, <1>5

\* Only the sizes of the files that are counted matter.
LEMMA BytesSame ==
  ASSUME NEW d, NEW e, NEW S, \A n \in S : d.bytes[n] = e.bytes[n]
  PROVE  Bytes(d, S) = Bytes(e, S)
<1>1. {{n} \X (1 .. d.bytes[n]) : n \in S} = {{n} \X (1 .. e.bytes[n]) : n \in S}
  OBVIOUS
<1>2. QED
  BY <1>1 DEF Bytes
-----------------------------------------------------------------------------
(* The inductive invariant.                                                 *)

\* Files have sizes, and of two one is older; there are finitely many.
Directory(d) ==
  /\ d = [bytes |-> d.bytes, older |-> d.older]
  /\ IsFiniteSet(Files(d))
  /\ d.bytes \in [Files(d) -> Nat]
  /\ \A m, n \in Files(d) : <<m, n>> \in d.older <=> m # n /\ <<n, m>> \notin d.older
  /\ \A l, m, n \in Files(d) : <<l, m>> \in d.older /\ <<m, n>> \in d.older => <<l, n>> \in d.older

\* What a task holds suits its place.
TaskFits(t) ==
  /\ task[t] \in [pc : {"idle", "transcode", "drop", "mark", "process", "delete"},
                  copy : Names \cup {None}, name : Names \cup {None}]
  /\ task[t].pc = "idle" => task[t] = Idle
  /\ task[t].pc # "idle" => task[t].name \in Names
  /\ task[t].pc = "transcode" => task[t].copy = task[t].name
  /\ task[t].pc = "drop" => task[t].copy \in Names
  /\ task[t].pc \in {"mark", "process"} => task[t].copy = None
  /\ task[t].pc = "delete" => task[t].copy \in {None, task[t].name}

Types ==
  /\ Directory(dir) /\ Files(dir) \subseteq Names \cup Temps
  /\ size \in [{"media", "web"} -> 0 .. SizeMod - 1]
  /\ in_use \subseteq Names /\ limit \in Limits
  /\ web \in BOOLEAN /\ uncounted \in BOOLEAN /\ blocked \in BOOLEAN /\ events \in Nat
  /\ DOMAIN task = Tasks /\ \A t \in Tasks : TaskFits(t)

\* The two caches share nothing; without the second object its size is 0.
CachesApart ==
  /\ cache = "thumbnails" => in_use = {} /\ task = [t \in Tasks |-> Idle]
  /\ ~ web => size["web"] = 0

\* The size covers the files, and is far from its largest value.
SizeInv ==
  ~ uncounted => /\ Bytes(dir, Files(dir)) <= size["media"]
                 /\ size["media"] < SizeMod - MaxCounted

Hand(t) == {task[t].copy, task[t].name}
Hands == UNION {Hand(t) : t \in Tasks}
Rest == Files(dir) \ (Hands \cup in_use)

RestInv == ~ uncounted /\ ~ blocked => Bytes(dir, Rest) <= limit

\* The file of a task that lost its mark to another task of that name is gone, or
\* another task will mark or delete it, as long as no failure left files behind.
MarkInv ==
  ~ uncounted /\ ~ blocked =>
    \A t \in Tasks :
      task[t].pc = "process" /\ task[t].name \in Files(dir) \ in_use /\ dir.bytes[task[t].name] # 0
        => \E u \in Tasks : /\ task[u].pc \in {"transcode", "drop", "mark", "delete"}
                            /\ task[t].name \in Hand(u)

Inv == Types /\ CachesApart /\ SizeInv /\ RestInv /\ MarkInv

-----------------------------------------------------------------------------
(* Directories.                                                             *)

LEMMA EmptyDirectory == Directory(Empty) /\ Files(Empty) = {}
BY FS_EmptySet DEF Directory, Empty

\* What is left when files are removed.
LEMMA WithoutIsADirectory ==
  ASSUME NEW d, Directory(d), NEW S
  PROVE  /\ Directory(Without(d, S)) /\ Files(Without(d, S)) = Files(d) \ S
         /\ \A n \in Files(d) \ S : Without(d, S).bytes[n] = d.bytes[n]
         /\ \A m, n \in Files(d) \ S : <<m, n>> \in Without(d, S).older <=> <<m, n>> \in d.older
<1> DEFINE left == DOMAIN d.bytes \ S
           e == Without(d, S)
<1>1. /\ e = [bytes |-> e.bytes, older |-> e.older]
      /\ e.bytes = [n \in left |-> d.bytes[n]] /\ e.older = d.older \cap (left \X left)
  BY DEF Without
<1>2. DOMAIN e.bytes = left /\ \A n \in left : e.bytes[n] = d.bytes[n]
  BY <1>1
<1>3. IsFiniteSet(left)
  BY FS_Subset DEF Directory
<1>4. \A m, n \in left : <<m, n>> \in e.older <=> <<m, n>> \in d.older
  BY <1>1
<1>5. e.bytes \in [left -> Nat]
  BY <1>1 DEF Directory
<1> HIDE DEF e
<1>6. Directory(e)
  BY <1>1, <1>2, <1>3, <1>4, <1>5 DEF Directory
<1>7. QED
  BY <1>2, <1>4, <1>6 DEF e

\* A file that is written takes the place of one with its name, and is the newest.
LEMMA WithIsADirectory ==
  ASSUME NEW d, Directory(d), NEW name, NEW b \in Nat
  PROVE  /\ Directory(With(d, name, b)) /\ Files(With(d, name, b)) = Files(d) \cup {name}
         /\ With(d, name, b).bytes[name] = b
         /\ \A n \in Files(d) \ {name} : With(d, name, b).bytes[n] = d.bytes[n]
         /\ \A n \in Files(d) \ {name} : <<n, name>> \in With(d, name, b).older
<1> DEFINE o == Without(d, {name})
           e == With(d, name, b)
<1>1. /\ Directory(o) /\ Files(o) = Files(d) \ {name}
      /\ \A n \in Files(d) \ {name} : o.bytes[n] = d.bytes[n]
  BY WithoutIsADirectory
<1>2. o.older \subseteq Files(o) \X Files(o)
  BY DEF Without
<1>3. /\ e = [bytes |-> e.bytes, older |-> e.older]
      /\ e.bytes = [n \in Files(o) \cup {name} |-> IF n = name THEN b ELSE d.bytes[n]]
      /\ e.older = o.older \cup (Files(o) \X {name})
  BY DEF With
<1> HIDE DEF o, e
<1>4. Files(e) = Files(o) \cup {name} /\ e.bytes \in [Files(e) -> Nat]
  BY <1>1, <1>3 DEF Directory
<1>5. IsFiniteSet(Files(e))
  BY <1>1, <1>4, FS_AddElement DEF Directory
<1>6. /\ \A m, n \in Files(o) : <<m, n>> \in e.older <=> <<m, n>> \in o.older
      /\ \A n \in Files(o) : <<n, name>> \in e.older
      /\ \A n \in Files(e) : <<name, n>> \notin e.older
  BY <1>1, <1>2, <1>3, <1>4
<1>7. \A m, n \in Files(e) : <<m, n>> \in e.older <=> m # n /\ <<n, m>> \notin e.older
  BY <1>1, <1>4, <1>6 DEF Directory
<1>8. \A k, m, n \in Files(e) : <<k, m>> \in e.older /\ <<m, n>> \in e.older => <<k, n>> \in e.older
  BY <1>1, <1>4, <1>6 DEF Directory
<1>9. Directory(e)
  BY <1>3, <1>4, <1>5, <1>7, <1>8 DEF Directory
<1>10. /\ Files(e) = Files(d) \cup {name} /\ e.bytes[name] = b
       /\ \A n \in Files(d) \ {name} : e.bytes[n] = d.bytes[n]
       /\ \A n \in Files(d) \ {name} : <<n, name>> \in e.older
  BY <1>1, <1>3, <1>4, <1>6
<1>11. QED
  BY <1>9, <1>10 DEF e

\* The sizes of the files of a directory are natural numbers.
LEMMA SizesOfFiles ==
  ASSUME NEW d, Directory(d), NEW S, S \subseteq Files(d)
  PROVE  /\ IsFiniteSet(S) /\ \A n \in S : d.bytes[n] \in Nat
         /\ Bytes(d, S) \in Nat /\ Bytes(d, S) <= Bytes(d, Files(d))
         /\ Bytes(d, Files(d)) \in Nat
<1>1. IsFiniteSet(S) /\ IsFiniteSet(Files(d)) /\ \A n \in Files(d) : d.bytes[n] \in Nat
  BY FS_Subset DEF Directory
<1>2. QED
  BY <1>1, BytesFinite, BytesLess

LEMMA BytesOfTwo ==
  ASSUME NEW d, Directory(d), NEW S, S \subseteq Files(d), NEW T, T \subseteq Files(d), S \cap T = {}
  PROVE  Bytes(d, S \cup T) = Bytes(d, S) + Bytes(d, T)
<1>1. /\ IsFiniteSet(S) /\ IsFiniteSet(T)
      /\ \A n \in S : d.bytes[n] \in Nat
      /\ \A n \in T : d.bytes[n] \in Nat
  BY SizesOfFiles
<1>2. \A n \in S \cup T : d.bytes[n] \in Nat
  BY <1>1
<1>3. QED
  BY <1>1, <1>2, BytesAdd

LEMMA FewerBytes ==
  ASSUME NEW d, Directory(d), NEW S, S \subseteq Files(d), NEW T, T \subseteq S
  PROVE  Bytes(d, T) <= Bytes(d, S) /\ Bytes(d, S) = Bytes(d, T) + Bytes(d, S \ T)
BY SizesOfFiles, BytesLess

\* Empty files have no bytes.
LEMMA BytesOfEmptyFiles ==
  ASSUME NEW d, NEW S, \A n \in S : d.bytes[n] = 0
  PROVE  Bytes(d, S) = 0
<1>1. \A n \in S : {n} \X (1 .. d.bytes[n]) = {}
  OBVIOUS
<1>2. UNION {{n} \X (1 .. d.bytes[n]) : n \in S} = {}
  BY <1>1
<1>3. QED
  BY <1>2, FS_EmptySet DEF Bytes

\* Files that have bytes and were there before, with the same sizes, have no more bytes
\* than those from before.
LEMMA BytesWithin ==
  ASSUME NEW d, Directory(d), NEW S, S \subseteq Files(d), NEW e, Directory(e), NEW T, T \subseteq Files(e),
         \A n \in T : e.bytes[n] # 0 => n \in S /\ e.bytes[n] = d.bytes[n]
  PROVE  /\ Bytes(e, T) <= Bytes(d, S)
         /\ Bytes(e, T) \in Nat /\ Bytes(d, S) \in Nat
<1>1. PICK F : F = {n \in T : e.bytes[n] # 0}
  OBVIOUS
<1>2. F \subseteq T /\ F \subseteq S /\ \A n \in F : e.bytes[n] = d.bytes[n]
  BY <1>1
<1>3. Bytes(e, T) = Bytes(e, F) + Bytes(e, T \ F)
  BY <1>2, FewerBytes
<1>4. Bytes(e, T \ F) = 0
  <2>1. \A n \in T \ F : e.bytes[n] = 0
    BY <1>1
  <2>2. QED
    BY <2>1, BytesOfEmptyFiles
<1>5. Bytes(e, F) = Bytes(d, F)
  BY <1>2, BytesSame
<1>6. Bytes(d, F) <= Bytes(d, S)
  BY <1>2, FewerBytes
<1>7. /\ Bytes(e, T) \in Nat /\ Bytes(d, S) \in Nat /\ Bytes(d, F) \in Nat
  <2>1. F \subseteq Files(d)
    BY <1>2
  <2>2. QED
    BY <2>1, SizesOfFiles
<1>8. QED
  BY <1>3, <1>4, <1>5, <1>6, <1>7

\* removeOldestFiles takes every file that is not marked, or it frees enough: the
\* first of those it leaves has enough older ones that it takes.
LEMMA OldestFrees ==
  ASSUME NEW d, Directory(d), NEW marked, NEW needed \in Int
  PROVE  /\ Oldest(d, marked, needed) \subseteq Files(d) \ marked
         /\ \/ Oldest(d, marked, needed) = Files(d) \ marked
            \/ Bytes(d, Oldest(d, marked, needed)) >= needed
<1> DEFINE G == Oldest(d, marked, needed)
           X == (Files(d) \ marked) \ G
           Counts == {Cardinality(Older(d, n)) : n \in X}
<1>1. G \subseteq Files(d) \ marked
  BY DEF Oldest
<1>2. SUFFICES ASSUME G # Files(d) \ marked PROVE Bytes(d, G) >= needed
  BY <1>1
<1>3. ASSUME NEW n
      PROVE  Older(d, n) \subseteq Files(d) /\ IsFiniteSet(Older(d, n)) /\ Cardinality(Older(d, n)) \in Nat
  BY FS_Subset, FS_CardinalityType DEF Directory, Older
<1>4. Counts \subseteq Nat /\ Counts # {}
  BY <1>1, <1>2, <1>3
<1>5. PICK least \in Counts : \A k \in Counts : ~ (<<k, least>> \in OpToRel(<, Nat))
  <2> HIDE DEF Counts
  <2>1. QED
    BY <1>4, WFMin, NatLessThanWellFounded
<1>6. \A k \in Counts : least <= k
  <2> HIDE DEF Counts
  <2>1. least \in Nat /\ \A k \in Counts : k \in Nat
    BY <1>4
  <2>2. \A k \in Counts : ~ (k < least)
    BY <1>5, <2>1 DEF OpToRel
  <2>3. QED
    BY <2>1, <2>2
<1>7. PICK n \in X : least = Cardinality(Older(d, n))
  OBVIOUS
<1>8. ASSUME NEW m \in Older(d, n) \ marked PROVE m \in G
  <2>1. m \in Files(d) /\ <<m, n>> \in d.older /\ n \in Files(d)
    BY <1>7 DEF Older
  <2>2. SUFFICES ASSUME m \in X PROVE FALSE
    BY <2>1
  <2>3. Older(d, m) \subseteq Older(d, n)
    BY <2>1 DEF Older, Directory
  <2>4. m \notin Older(d, m) /\ m \in Older(d, n)
    BY <2>1 DEF Older, Directory
  <2>5. Cardinality(Older(d, m)) < Cardinality(Older(d, n))
    <3>1. /\ Cardinality(Older(d, m)) <= Cardinality(Older(d, n))
          /\ Cardinality(Older(d, n)) = Cardinality(Older(d, m)) => Older(d, n) = Older(d, m)
      BY <1>3, <2>3, FS_Subset
    <3>2. QED
      BY <1>3, <2>4, <3>1
  <2>6. QED
    BY <1>3, <1>6, <1>7, <2>2, <2>5
<1>9. Older(d, n) \ marked \subseteq G
  BY <1>8
<1>10. Bytes(d, Older(d, n) \ marked) >= needed
  <2>1. ~ (Bytes(d, Older(d, n) \ marked) < needed)
    BY <1>7 DEF Oldest
  <2>2. Bytes(d, Older(d, n) \ marked) \in Nat
    BY <1>3, SizesOfFiles
  <2>3. QED
    BY <2>1, <2>2
<1>11. Bytes(d, Older(d, n) \ marked) <= Bytes(d, G)
  BY <1>1, <1>9, FewerBytes
<1>12. Bytes(d, Older(d, n) \ marked) \in Nat /\ Bytes(d, G) \in Nat
  BY <1>1, <1>3, SizesOfFiles
<1>13. QED
  BY <1>10, <1>11, <1>12

-----------------------------------------------------------------------------
(* Sizes modulo SizeMod.                                                    *)

LEMMA Modulus ==
  ASSUME NEW a \in Int
  PROVE  /\ a % SizeMod \in 0 .. SizeMod - 1
         /\ a \in 0 .. SizeMod - 1 => a % SizeMod = a
<1>1. SizeMod \in Nat \ {0}
  BY Sizes
<1>2. a % SizeMod \in 0 .. SizeMod - 1
  BY <1>1
<1>3. ASSUME a \in 0 .. SizeMod - 1 PROVE a % SizeMod = a
  BY <1>1, <1>3
<1>4. QED
  BY <1>2, <1>3

LEMMA Constant ==
  /\ SizeMod \in Nat \ {0} /\ JpegSize \in Nat \ {0} /\ MaxCounted \in Nat /\ 2 * MaxCounted < SizeMod
  /\ \A s \in Sources : /\ SizeOf[s] \in Nat \ {0} /\ SizeOf[s] + 2 * MaxCounted < SizeMod
                        /\ NameOf[s] \in Names
                        /\ TempOf[NameOf[s]] \in Temps
  /\ Limits \subseteq Nat /\ FirstLimit \in Limits
  /\ Temps \cap Names = {} /\ None \notin Names /\ None \notin Temps /\ Jpegs \subseteq Names
<1>1. MaxCounted \in Nat
  BY Sizes
<1>2. \A s \in Sources : NameOf[s] \in Names /\ TempOf[NameOf[s]] \in Temps
  BY Sizes DEF Names, Temps
<1>3. QED
  BY Sizes, <1>1, <1>2 DEF Names

-----------------------------------------------------------------------------
(* What removeOldestFiles and enforceSizeLimit leave.                       *)

LEMMA RemoveOldestLeaves ==
  ASSUME NEW d, Directory(d), NEW counted \in 0 .. SizeMod - 1, NEW marked, NEW needed \in Int,
         NEW after, after = RemoveOldest(d, counted, marked, needed)
  PROVE  /\ Directory(after.dir) /\ Files(after.dir) \subseteq Files(d)
         /\ after.size \in 0 .. SizeMod - 1
         /\ Files(d) \cap marked \subseteq Files(after.dir)
         /\ \A n \in Files(after.dir) : after.dir.bytes[n] = d.bytes[n]
         /\ Bytes(d, Files(d)) <= counted =>
              Bytes(after.dir, Files(after.dir)) <= after.size /\ after.size <= counted
         /\ \/ Files(after.dir) \subseteq marked
            \/ Bytes(after.dir, Files(after.dir)) <= Bytes(d, Files(d)) - needed
<1> DEFINE G == Oldest(d, marked, needed)
<1>1. after.dir = Without(d, G) /\ after.size = Minus(counted, Bytes(d, G))
  BY DEF RemoveOldest
<1>2. /\ G \subseteq Files(d) \ marked
      /\ G = Files(d) \ marked \/ Bytes(d, G) >= needed
  BY OldestFrees
<1> HIDE DEF G
<1>3. /\ Directory(after.dir) /\ Files(after.dir) = Files(d) \ G
      /\ \A n \in Files(after.dir) : after.dir.bytes[n] = d.bytes[n]
  <2>1. QED
    BY <1>1, WithoutIsADirectory
<1>4. Bytes(after.dir, Files(after.dir)) = Bytes(d, Files(d) \ G)
  <2>1. Bytes(after.dir, Files(after.dir)) = Bytes(d, Files(after.dir))
    BY <1>3, BytesSame
  <2>2. QED
    BY <1>3, <2>1
<1>5. /\ Bytes(d, Files(d)) = Bytes(d, G) + Bytes(d, Files(d) \ G)
      /\ Bytes(d, G) \in Nat /\ Bytes(d, Files(d) \ G) \in Nat
  BY <1>2, FewerBytes, SizesOfFiles
<1>6. after.size \in 0 .. SizeMod - 1
  BY <1>1, <1>5, Modulus, Constant DEF Minus
<1>7. ASSUME Bytes(d, Files(d)) <= counted
      PROVE  Bytes(after.dir, Files(after.dir)) <= after.size /\ after.size <= counted
  <2>1. counted - Bytes(d, G) \in 0 .. SizeMod - 1
    BY <1>5, <1>7, Constant
  <2>2. after.size = counted - Bytes(d, G)
    BY <1>1, <2>1, Modulus DEF Minus
  <2>3. QED
    BY <1>4, <1>5, <1>7, <2>2
<1>8. \/ Files(after.dir) \subseteq marked
      \/ Bytes(after.dir, Files(after.dir)) <= Bytes(d, Files(d)) - needed
  BY <1>2, <1>3, <1>4, <1>5
<1>9. QED
  BY <1>1, <1>2, <1>3, <1>6, <1>7, <1>8

\* enforceSizeLimit for a file that fits; the room that is missing is made.
Needed(required) ==
  required - (IF size["media"] < limit THEN limit - size["media"] ELSE 0)

\* What an operation is left with: if the removal of a file larger than the limit
\* throws, marked files may be gone; if it does not, the directory and the marks are
\* cleared; else marked files are left.
Leaves(d, required, stuck, after) ==
  /\ Directory(after.dir) /\ Files(after.dir) \subseteq Files(d)
  /\ after.size \in 0 .. SizeMod - 1
  /\ \A n \in Files(after.dir) : after.dir.bytes[n] = d.bytes[n]
  /\ required <= limit => /\ Files(d) \cap in_use \subseteq Files(after.dir)
                          /\ after.in_use = in_use
  /\ required > limit /\ stuck # {} => /\ after.in_use = in_use /\ after.size = size["media"]
                                       /\ Files(after.dir) = Files(d) \cap stuck
  /\ required > limit /\ stuck = {} => /\ after.in_use = {} /\ Files(after.dir) = {}
                                       /\ after.size = 0
  /\ Bytes(d, Files(d)) <= size["media"] =>
       Bytes(after.dir, Files(after.dir)) <= after.size /\ after.size <= size["media"]

LEMMA EnforceSizeLimitLeaves ==
  ASSUME Types, NEW d, Directory(d), NEW required \in Nat, NEW stuck
  PROVE  Leaves(d, required, stuck, EnforceSizeLimit(d, required, stuck))
<1>01. PICK after : after = EnforceSizeLimit(d, required, stuck)
  OBVIOUS
<1>02. SUFFICES Leaves(d, required, stuck, after)
  BY <1>01
<1>0. /\ size["media"] \in 0 .. SizeMod - 1 /\ limit \in Nat /\ SizeMod \in Nat
  BY Constant DEF Types
<1>1. CASE required > limit
  <2> DEFINE e == Without(d, Files(d) \ stuck)
             left == IF stuck = {} THEN 0 ELSE size["media"]
             marks == IF stuck = {} THEN {} ELSE in_use
  <2>1. after = [dir |-> e, size |-> left, in_use |-> marks]
    BY <1>0, <1>1, <1>01 DEF EnforceSizeLimit
  <2>2. after.dir = e /\ after.size = left /\ after.in_use = marks
    BY <2>1
  <2>3. /\ Directory(e) /\ Files(e) = Files(d) \ (Files(d) \ stuck)
        /\ \A n \in Files(e) : e.bytes[n] = d.bytes[n]
    BY WithoutIsADirectory
  <2> HIDE DEF e
  <2>4. left \in 0 .. SizeMod - 1
    BY <1>0, Constant
  <2>5. ASSUME Bytes(d, Files(d)) <= size["media"]
        PROVE  Bytes(e, Files(e)) <= left /\ left <= size["media"]
    <3>1. CASE stuck = {}
      <4>1. Bytes(e, Files(e)) = 0
        BY <2>3, <3>1, BytesOfNone
      <4>2. QED
        BY <1>0, <3>1, <4>1
    <3>2. CASE stuck # {}
      <4>1. Files(e) \subseteq Files(d)
        BY <2>3
      <4>2. /\ Bytes(e, Files(e)) <= Bytes(d, Files(d))
            /\ Bytes(e, Files(e)) \in Nat /\ Bytes(d, Files(d)) \in Nat
        BY <2>3, <4>1, BytesWithin
      <4>3. QED
        BY <1>0, <2>5, <3>2, <4>2
    <3>3. QED
      BY <3>1, <3>2
  <2>6. QED
    BY <1>0, <1>1, <2>2, <2>3, <2>4, <2>5 DEF Leaves
<1>2. CASE ~ (required > limit)
  <2>0. PICK room : room = RemoveOldest(d, size["media"], in_use \cup stuck, Needed(required))
    OBVIOUS
  <2>1. after = [dir |-> room.dir, size |-> room.size, in_use |-> in_use]
    BY <1>0, <1>2, <1>01, <2>0 DEF EnforceSizeLimit, Needed
  <2>2. Needed(required) \in Int
    BY <1>0 DEF Needed
  <2>3. /\ Directory(room.dir) /\ Files(room.dir) \subseteq Files(d)
        /\ room.size \in 0 .. SizeMod - 1
        /\ Files(d) \cap (in_use \cup stuck) \subseteq Files(room.dir)
        /\ \A n \in Files(room.dir) : room.dir.bytes[n] = d.bytes[n]
        /\ Bytes(d, Files(d)) <= size["media"] =>
             Bytes(room.dir, Files(room.dir)) <= room.size /\ room.size <= size["media"]
    BY <1>0, <2>0, <2>2, RemoveOldestLeaves
  <2>4. after.dir = room.dir /\ after.size = room.size /\ after.in_use = in_use
    BY <2>1
  <2>5. QED
    BY <1>0, <1>2, <2>3, <2>4 DEF Leaves
<1>3. QED
  BY <1>1, <1>2

-----------------------------------------------------------------------------
(* Facts that several actions share.                                        *)

LEMMA InvAtTheStart == Init => Inv
<1> SUFFICES ASSUME Init PROVE Inv
  OBVIOUS
<1>1. /\ Directory(dir) /\ Files(dir) \subseteq Names \cup Temps
      /\ Bytes(dir, Files(dir)) \in Nat /\ Bytes(dir, Files(dir)) < SizeMod - MaxCounted
  <2>1. CASE dir = Empty
    <3>1. Directory(dir) /\ Files(dir) = {}
      BY <2>1, EmptyDirectory
    <3>2. Bytes(dir, Files(dir)) = 0
      BY <3>1, BytesOfNone
    <3>3. QED
      BY <3>1, <3>2, Constant
  <2>2. CASE dir # Empty
    <3>1. PICK s \in Sources : \E n \in {NameOf[s], TempOf[NameOf[s]]} : dir = With(Empty, n, SizeOf[s])
      BY <2>2 DEF Init
    <3>2. PICK n \in {NameOf[s], TempOf[NameOf[s]]} : dir = With(Empty, n, SizeOf[s])
      BY <3>1
    <3>3. Directory(Empty) /\ Files(Empty) = {} /\ SizeOf[s] \in Nat /\ n \in Names \cup Temps
      BY EmptyDirectory, Constant
    <3>4. Directory(dir) /\ Files(dir) = {n} /\ dir.bytes[n] = SizeOf[s]
      BY <3>2, <3>3, WithIsADirectory
    <3>5. Bytes(dir, Files(dir)) = SizeOf[s]
      BY <3>3, <3>4, BytesOfOne
    <3>6. QED
      BY <3>3, <3>4, <3>5, Constant
  <2>3. QED
    BY <2>1, <2>2
<1>2. CacheSize(dir) = Bytes(dir, Files(dir)) /\ CacheSize(dir) \in 0 .. SizeMod - 1
  <2>1. Bytes(dir, Files(dir)) \in 0 .. SizeMod - 1
    BY <1>1, Constant
  <2>2. QED
    BY <2>1, Modulus DEF CacheSize
<1>3. \A t \in Tasks : task[t] = Idle
  BY DEF Init
<1>4. Types
  <2>1. \A t \in Tasks : TaskFits(t)
    BY <1>3 DEF TaskFits, Idle
  <2>2. size \in [{"media", "web"} -> 0 .. SizeMod - 1]
    BY <1>2, Constant DEF Init
  <2>3. (size["media"] > limit) \in BOOLEAN
    OBVIOUS
  <2>4. blocked \in BOOLEAN /\ uncounted \in BOOLEAN /\ web \in BOOLEAN
    BY <2>3 DEF Init
  <2>5. limit \in Limits /\ events \in Nat /\ DOMAIN task = Tasks /\ in_use \subseteq Names
    BY Constant DEF Init
  <2>6. QED
    BY <1>1, <2>1, <2>2, <2>4, <2>5 DEF Types
<1>5. CachesApart /\ SizeInv
  BY <1>1, <1>2 DEF Init, CachesApart, SizeInv
<1>6. RestInv
  <2>1. Rest \subseteq Files(dir)
    BY DEF Rest
  <2>2. Bytes(dir, Rest) <= Bytes(dir, Files(dir)) /\ Bytes(dir, Rest) \in Nat
    BY <1>1, <2>1, SizesOfFiles
  <2>3. size["media"] = Bytes(dir, Files(dir)) /\ limit \in Nat
    BY <1>2, Constant DEF Init
  <2>4. ASSUME ~ blocked PROVE Bytes(dir, Files(dir)) <= limit
    <3>1. ~ (size["media"] > limit)
      BY <2>4, Zenon DEF Init
    <3>2. QED
      BY <1>1, <2>3, <3>1
  <2>5. QED
    BY <1>1, <2>2, <2>3, <2>4 DEF RestInv
<1>7. MarkInv
  BY <1>3 DEF MarkInv, Idle
<1>8. QED
  BY <1>4, <1>5, <1>6, <1>7 DEF Inv

\* No file of a directory has bytes that it did not have before.
NoMore(d, e) ==
  \A n \in Files(e) : e.bytes[n] # 0 => n \in Files(d) /\ e.bytes[n] = d.bytes[n]

NoBytes(e) == \A n \in Files(e) : e.bytes[n] = 0

LEMMA WithoutIsNoMore ==
  ASSUME NEW d, Directory(d), NEW S
  PROVE  NoMore(d, Without(d, S))
BY WithoutIsADirectory DEF NoMore

LEMMA WithNothingIsNoMore ==
  ASSUME NEW d, Directory(d), NEW name
  PROVE  NoMore(d, With(d, name, 0))
<1>1. /\ Files(With(d, name, 0)) = Files(d) \cup {name}
      /\ With(d, name, 0).bytes[name] = 0
      /\ \A n \in Files(d) \ {name} : With(d, name, 0).bytes[n] = d.bytes[n]
  BY 0 \in Nat, WithIsADirectory
<1>2. QED
  BY <1>1 DEF NoMore

LEMMA NoMoreBytes ==
  ASSUME NEW d, Directory(d), NEW e, Directory(e), NoMore(d, e)
  PROVE  /\ Bytes(e, Files(e)) <= Bytes(d, Files(d))
         /\ Bytes(e, Files(e)) \in Nat /\ Bytes(d, Files(d)) \in Nat
BY BytesWithin DEF NoMore

\* If no file with bytes gets into the rest, the rest fits as before.
LEMMA RestShrinks ==
  ASSUME Types, Types', RestInv, limit' = limit,
         ~ uncounted' /\ ~ blocked' =>
           \/ \A n \in Rest' : dir'.bytes[n] = 0
           \/ /\ ~ uncounted /\ ~ blocked
              /\ \A n \in Rest' : dir'.bytes[n] # 0 => n \in Rest /\ dir'.bytes[n] = dir.bytes[n]
  PROVE  RestInv'
<1>1. PICK S : S = Rest'
  OBVIOUS
<1>2. /\ Directory(dir) /\ Directory(dir') /\ Rest \subseteq Files(dir) /\ S \subseteq Files(dir')
      /\ limit \in Nat
  BY <1>1, Constant DEF Types, Rest
<1>3. ASSUME ~ uncounted', ~ blocked' PROVE Bytes(dir', S) <= limit
  <2>1. CASE \A n \in S : dir'.bytes[n] = 0
    BY <1>2, <2>1, BytesOfEmptyFiles
  <2>2. CASE /\ ~ uncounted /\ ~ blocked
             /\ \A n \in S : dir'.bytes[n] # 0 => n \in Rest /\ dir'.bytes[n] = dir.bytes[n]
    <3>1. /\ Bytes(dir', S) <= Bytes(dir, Rest)
          /\ Bytes(dir', S) \in Nat /\ Bytes(dir, Rest) \in Nat
      BY <1>2, <2>2, BytesWithin
    <3>2. Bytes(dir, Rest) <= limit
      BY <2>2 DEF RestInv
    <3>3. QED
      BY <1>2, <3>1, <3>2
  <2>3. QED
    BY <1>1, <1>3, <2>1, <2>2
<1>4. RestInv' <=> (~ uncounted' /\ ~ blocked' => Bytes(dir', S) <= limit')
  BY <1>1 DEF RestInv
<1>5. QED
  BY <1>3, <1>4

\* When no file gets more bytes and tasks stay where they are, the rest fits and lost
\* marks are made up for as before.
Before ==
  ~ uncounted' /\ ~ blocked' =>
    \/ NoBytes(dir')
    \/ ~ uncounted /\ ~ blocked /\ in_use' = in_use /\ NoMore(dir, dir')

LEMMA NothingComes ==
  ASSUME Types, Types', MarkInv, UNCHANGED task, Before
  PROVE  MarkInv' /\ (RestInv /\ limit' = limit => RestInv')
<1>1. \A u \in Tasks : Hand(u)' = Hand(u)
  BY DEF Hand
<1>2. Hands' = Hands
  BY <1>1 DEF Hands
<1>3. ASSUME ~ uncounted', ~ blocked'
      PROVE  \/ \A n \in Files(dir)' : dir'.bytes[n] = 0
             \/ /\ ~ uncounted /\ ~ blocked /\ in_use' = in_use
                /\ \A n \in Files(dir)' : dir'.bytes[n] # 0 => n \in Files(dir) /\ dir'.bytes[n] = dir.bytes[n]
  BY <1>3 DEF Before, NoMore, NoBytes
<1>4. MarkInv'
  <2>1. SUFFICES ASSUME ~ uncounted', ~ blocked', NEW u \in Tasks, task'[u].pc = "process",
                        task'[u].name \in Files(dir)' \ in_use', dir'.bytes[task'[u].name] # 0
                 PROVE  \E w \in Tasks : /\ task'[w].pc \in {"transcode", "drop", "mark", "delete"}
                                         /\ task'[u].name \in Hand(w)'
    BY DEF MarkInv
  <2>2. /\ ~ uncounted /\ ~ blocked /\ task[u].pc = "process"
        /\ task[u].name \in Files(dir) \ in_use /\ dir.bytes[task[u].name] # 0
    BY <1>3, <2>1
  <2>3. PICK w \in Tasks : /\ task[w].pc \in {"transcode", "drop", "mark", "delete"}
                           /\ task[u].name \in Hand(w)
    BY <2>2 DEF MarkInv
  <2>4. QED
    BY <1>1, <2>3
<1>5. ASSUME RestInv, limit' = limit PROVE RestInv'
  <2>1. ASSUME ~ uncounted', ~ blocked'
        PROVE  \/ \A n \in Rest' : dir'.bytes[n] = 0
               \/ /\ ~ uncounted /\ ~ blocked
                  /\ \A n \in Rest' : dir'.bytes[n] # 0 => n \in Rest /\ dir'.bytes[n] = dir.bytes[n]
    <3>1. Rest' = Files(dir)' \ (Hands \cup in_use')
      BY <1>2 DEF Rest
    <3>2. QED
      BY <1>3, <2>1, <3>1 DEF Rest
  <2>2. QED
    BY <1>5, <2>1, RestShrinks
<1>6. QED
  BY <1>4, <1>5

\* If moreover the size is as before, it covers the files as before.
LEMMA SizeStays ==
  ASSUME Types, Types', SizeInv, size'["media"] = size["media"],
         ~ uncounted' => ~ uncounted /\ NoMore(dir, dir')
  PROVE  SizeInv'
<1>1. Directory(dir) /\ Directory(dir') /\ size["media"] \in Nat
  BY Constant DEF Types
<1>2. ASSUME ~ uncounted'
      PROVE  Bytes(dir', DOMAIN dir'.bytes) <= size["media"] /\ size["media"] < SizeMod - MaxCounted
  <2>1. /\ Bytes(dir', DOMAIN dir'.bytes) <= Bytes(dir, DOMAIN dir.bytes)
        /\ Bytes(dir', DOMAIN dir'.bytes) \in Nat /\ Bytes(dir, DOMAIN dir.bytes) \in Nat
    BY <1>1, <1>2, NoMoreBytes
  <2>2. QED
    BY <1>1, <1>2, <2>1 DEF SizeInv
<1>3. QED
  BY <1>2 DEF SizeInv

LEMMA EventCounts ==
  ASSUME NEW happens, Event(happens), events \in Nat
  PROVE  events' \in Nat /\ (events' = events => ~ happens)
<1>1. CASE happens
  BY <1>1 DEF Event
<1>2. CASE ~ happens
  BY <1>2 DEF Event
<1>3. QED
  BY <1>1, <1>2

\* One task goes on, the others stay where they are.
LEMMA OneTask ==
  ASSUME Types, NEW t \in Tasks, NEW r, task' = [task EXCEPT ![t] = r]
  PROVE  task'[t] = r /\ DOMAIN task' = Tasks /\ \A u \in Tasks \ {t} : task'[u] = task[u]
BY DEF Types

LEMMA TasksFit ==
  ASSUME Types, NEW t \in Tasks, TaskFits(t)', DOMAIN task' = Tasks,
         \A u \in Tasks \ {t} : task'[u] = task[u]
  PROVE  \A u \in Tasks : TaskFits(u)'
<1>1. ASSUME NEW u \in Tasks \ {t} PROVE TaskFits(u)'
  <2>1. TaskFits(u) /\ task'[u] = task[u]
    BY DEF Types
  <2>2. QED
    BY <2>1 DEF TaskFits
<1>2. QED
  BY <1>1

\* The bytes of a directory in which one file is written.
LEMMA WithAdds ==
  ASSUME NEW d, Directory(d), NEW name, NEW b \in Nat
  PROVE  /\ Bytes(With(d, name, b), Files(With(d, name, b))) <= Bytes(d, Files(d)) + b
         /\ Bytes(With(d, name, b), Files(With(d, name, b))) \in Nat
<1> DEFINE o == Files(d) \ {name}
<1>1. PICK e : e = With(d, name, b)
  OBVIOUS
<1>2. /\ Directory(e) /\ Files(e) = Files(d) \cup {name} /\ e.bytes[name] = b
      /\ \A n \in o : e.bytes[n] = d.bytes[n]
  BY <1>1, WithIsADirectory
<1>3. Bytes(e, o) = Bytes(d, o)
  BY <1>2, BytesSame
<1>4. Bytes(e, {name}) = b
  BY <1>2, BytesOfOne
<1>5. Bytes(e, o \cup {name}) = Bytes(e, o) + Bytes(e, {name})
  <2>1. o \subseteq Files(e) /\ {name} \subseteq Files(e) /\ o \cap {name} = {}
    BY <1>2
  <2>2. QED
    BY <1>2, <2>1, BytesOfTwo
<1>6. o \cup {name} = Files(e)
  BY <1>2
<1>7. Bytes(d, o) <= Bytes(d, Files(d)) /\ Bytes(d, o) \in Nat /\ Bytes(d, Files(d)) \in Nat
  BY SizesOfFiles
<1>8. Bytes(e, Files(e)) = Bytes(d, o) + b
  BY <1>3, <1>4, <1>5, <1>6
<1>9. QED
  BY <1>1, <1>7, <1>8

-----------------------------------------------------------------------------
(* The actions of a task.                                                   *)

\* The histories say what became of the files.
LEMMA Histories ==
  ASSUME Types, NEW required \in Nat, NEW stuck
  PROVE  /\ Uncounted(required, stuck) \in BOOLEAN /\ Blocked(required, stuck) \in BOOLEAN
         /\ ~ Uncounted(required, stuck) => ~ uncounted \/ (required > limit /\ stuck = {})
         /\ ~ Blocked(required, stuck) => stuck = {} /\ (~ blocked \/ required > limit)
<1>1. limit \in Nat /\ uncounted \in BOOLEAN /\ blocked \in BOOLEAN
  BY Constant DEF Types
<1>2. ~ (required <= limit) <=> required > limit
  BY <1>1
<1>3. QED
  BY <1>1, <1>2, Zenon DEF Uncounted, Blocked

\* What copyToCache leaves, copied or not.
LEMMA CopyLeaves ==
  ASSUME Inv, NEW t \in Tasks, NEW s \in Sources, CopyToCache(t, s)
  PROVE  \E stuck, after :
           /\ after = EnforceSizeLimit(dir, SizeOf[s], stuck)
           /\ cache = "transcoding" /\ task[t] = Idle /\ LittleDrift /\ in_use' = after.in_use
           /\ UNCHANGED <<cache, limit, web>> /\ events' \in Nat
           /\ blocked' \in BOOLEAN /\ uncounted' \in BOOLEAN
           /\ ~ blocked' => stuck = {} /\ (~ blocked \/ SizeOf[s] > limit)
           /\ ~ uncounted' => ~ uncounted \/ (SizeOf[s] > limit /\ stuck = {})
           /\ \/ /\ NameOf[s] \notin after.in_use
                 /\ dir' = With(after.dir, NameOf[s], SizeOf[s])
                 /\ size' = [size EXCEPT !["media"] = Plus(after.size, SizeOf[s])]
                 /\ task' = [task EXCEPT ![t] =
                      IF s \in Raw THEN [pc |-> "transcode", copy |-> NameOf[s], name |-> NameOf[s]]
                                   ELSE [pc |-> "mark", copy |-> None, name |-> NameOf[s]]]
              \/ /\ size' = [size EXCEPT !["media"] = after.size] /\ UNCHANGED task
                 /\ \/ dir' = after.dir
                    \/ NameOf[s] \notin after.in_use /\ dir' = Without(after.dir, {NameOf[s]})
                    \/ /\ NameOf[s] \notin after.in_use
                       /\ \E b \in Nat : dir' = With(after.dir, NameOf[s], b) /\ (~ uncounted' => b = 0)
<1>0. Types /\ SizeOf[s] \in Nat /\ events \in Nat
  BY Constant DEF Inv, Types
<1> DEFINE room(stuck) == EnforceSizeLimit(dir, SizeOf[s], stuck)
           refused(stuck) == Throws(SizeOf[s], stuck) \/ NameOf[s] \in room(stuck).in_use
           Refused(stuck) ==
              /\ refused(stuck)
              /\ dir' = room(stuck).dir /\ size' = [size EXCEPT !["media"] = room(stuck).size]
              /\ uncounted' = Uncounted(SizeOf[s], stuck)
              /\ Event(stuck # {})
              /\ UNCHANGED task
           Copied(stuck) ==
              /\ ~ refused(stuck)
              /\ dir' = With(room(stuck).dir, NameOf[s], SizeOf[s])
              /\ size' = [size EXCEPT !["media"] = Plus(room(stuck).size, SizeOf[s])]
              /\ uncounted' = Uncounted(SizeOf[s], stuck)
              /\ Event(stuck # {})
              /\ task' = [task EXCEPT ![t] =
                   IF s \in Raw THEN [pc |-> "transcode", copy |-> NameOf[s], name |-> NameOf[s]]
                                ELSE [pc |-> "mark", copy |-> None, name |-> NameOf[s]]]
           Broken(stuck) ==
              /\ ~ refused(stuck)
              /\ \/ /\ dir' \in {room(stuck).dir, Without(room(stuck).dir, {NameOf[s]})}
                    /\ uncounted' = Uncounted(SizeOf[s], stuck)
                 \/ \E b \in 0 .. SizeOf[s] :
                      /\ dir' = With(room(stuck).dir, NameOf[s], b)
                      /\ uncounted' = (Uncounted(SizeOf[s], stuck) \/ b > 0)
              /\ size' = [size EXCEPT !["media"] = room(stuck).size]
              /\ Event(TRUE)
              /\ UNCHANGED task
<1>1. PICK stuck \in Stuck(dir) :
        /\ cache = "transcoding" /\ task[t] = Idle /\ LittleDrift
        /\ in_use' = room(stuck).in_use
        /\ blocked' = Blocked(SizeOf[s], stuck)
        /\ Refused(stuck) \/ Copied(stuck) \/ Broken(stuck)
        /\ UNCHANGED <<cache, limit, web>>
  BY Zenon DEF CopyToCache
<1>2. PICK after : after = room(stuck)
  OBVIOUS
<1>3. /\ Uncounted(SizeOf[s], stuck) \in BOOLEAN /\ Blocked(SizeOf[s], stuck) \in BOOLEAN
      /\ ~ Uncounted(SizeOf[s], stuck) => ~ uncounted \/ (SizeOf[s] > limit /\ stuck = {})
      /\ ~ Blocked(SizeOf[s], stuck) => stuck = {} /\ (~ blocked \/ SizeOf[s] > limit)
  BY <1>0, Histories
<1> DEFINE Done ==
             \/ /\ NameOf[s] \notin after.in_use
                /\ dir' = With(after.dir, NameOf[s], SizeOf[s])
                /\ size' = [size EXCEPT !["media"] = Plus(after.size, SizeOf[s])]
                /\ task' = [task EXCEPT ![t] =
                     IF s \in Raw THEN [pc |-> "transcode", copy |-> NameOf[s], name |-> NameOf[s]]
                                  ELSE [pc |-> "mark", copy |-> None, name |-> NameOf[s]]]
             \/ /\ size' = [size EXCEPT !["media"] = after.size] /\ UNCHANGED task
                /\ \/ dir' = after.dir
                   \/ NameOf[s] \notin after.in_use /\ dir' = Without(after.dir, {NameOf[s]})
                   \/ /\ NameOf[s] \notin after.in_use
                      /\ \E b \in Nat : dir' = With(after.dir, NameOf[s], b) /\ (~ uncounted' => b = 0)
<1>4. /\ Done /\ events' \in Nat /\ uncounted' \in BOOLEAN
      /\ ~ uncounted' => ~ Uncounted(SizeOf[s], stuck)
  <2>1. CASE Refused(stuck)
    <3>1. events' \in Nat
      BY <1>0, <2>1, EventCounts
    <3>2. QED
      BY <1>2, <1>3, <2>1, <3>1, Zenon
  <2>2. CASE Copied(stuck)
    <3>1. events' \in Nat
      BY <1>0, <2>2, EventCounts
    <3>2. QED
      BY <1>2, <1>3, <2>2, <3>1, Zenon
  <2>3. CASE Broken(stuck)
    <3>1. events' \in Nat
      BY <1>0, <2>3, EventCounts
    <3>2. NameOf[s] \notin after.in_use
      BY <1>2, <2>3, Zenon
    <3>3. CASE /\ dir' \in {room(stuck).dir, Without(room(stuck).dir, {NameOf[s]})}
               /\ uncounted' = Uncounted(SizeOf[s], stuck)
      BY <1>2, <1>3, <2>3, <3>1, <3>2, <3>3, Zenon
    <3>4. ASSUME NEW b \in 0 .. SizeOf[s], dir' = With(room(stuck).dir, NameOf[s], b),
                 uncounted' = (Uncounted(SizeOf[s], stuck) \/ b > 0)
          PROVE  /\ Done /\ uncounted' \in BOOLEAN
                 /\ ~ uncounted' => ~ Uncounted(SizeOf[s], stuck)
      <4>1. b \in Nat /\ (b > 0) \in BOOLEAN /\ (~ (b > 0) => b = 0)
        BY <1>0
      <4>2. uncounted' \in BOOLEAN /\ (~ uncounted' => ~ Uncounted(SizeOf[s], stuck) /\ b = 0)
        BY <1>3, <3>4, <4>1, Zenon
      <4>3. QED
        BY <1>2, <2>3, <3>2, <3>4, <4>1, <4>2, Zenon
    <3>5. QED
      BY <2>3, <3>1, <3>3, <3>4, Zenon
  <2>4. QED
    BY <1>1, <2>1, <2>2, <2>3
<1> HIDE DEF Done
<1>5. QED
  <2>1. /\ after = EnforceSizeLimit(dir, SizeOf[s], stuck)
        /\ cache = "transcoding" /\ task[t] = Idle /\ LittleDrift /\ in_use' = after.in_use
        /\ UNCHANGED <<cache, limit, web>> /\ events' \in Nat
        /\ blocked' \in BOOLEAN /\ uncounted' \in BOOLEAN
        /\ ~ blocked' => stuck = {} /\ (~ blocked \/ SizeOf[s] > limit)
        /\ ~ uncounted' => ~ uncounted \/ (SizeOf[s] > limit /\ stuck = {})
    BY <1>1, <1>2, <1>3, <1>4, Zenon
  <2>2. QED
    BY <1>4, <2>1, Zenon DEF Done

LEMMA CopyIsKept ==
  ASSUME Inv, NEW t \in Tasks, NEW s \in Sources, CopyToCache(t, s)
  PROVE  Inv'
<1> DEFINE name == NameOf[s]
<1>0. Types /\ CachesApart /\ SizeInv /\ RestInv /\ MarkInv
  BY DEF Inv
<1>1. PICK stuck, after :
           /\ after = EnforceSizeLimit(dir, SizeOf[s], stuck)
           /\ cache = "transcoding" /\ task[t] = Idle /\ LittleDrift /\ in_use' = after.in_use
           /\ UNCHANGED <<cache, limit, web>> /\ events' \in Nat
           /\ blocked' \in BOOLEAN /\ uncounted' \in BOOLEAN
           /\ ~ blocked' => stuck = {} /\ (~ blocked \/ SizeOf[s] > limit)
           /\ ~ uncounted' => ~ uncounted \/ (SizeOf[s] > limit /\ stuck = {})
           /\ \/ /\ name \notin after.in_use
                 /\ dir' = With(after.dir, name, SizeOf[s])
                 /\ size' = [size EXCEPT !["media"] = Plus(after.size, SizeOf[s])]
                 /\ task' = [task EXCEPT ![t] =
                      IF s \in Raw THEN [pc |-> "transcode", copy |-> name, name |-> name]
                                   ELSE [pc |-> "mark", copy |-> None, name |-> name]]
              \/ /\ size' = [size EXCEPT !["media"] = after.size] /\ UNCHANGED task
                 /\ \/ dir' = after.dir
                    \/ name \notin after.in_use /\ dir' = Without(after.dir, {name})
                    \/ /\ name \notin after.in_use
                       /\ \E b \in Nat : dir' = With(after.dir, name, b) /\ (~ uncounted' => b = 0)
  BY CopyLeaves
<1>2. /\ Directory(dir) /\ SizeOf[s] \in Nat \ {0} /\ name \in Names /\ SizeOf[s] + 2 * MaxCounted < SizeMod
      /\ limit \in Nat
  BY <1>0, Constant DEF Types
<1>3. Leaves(dir, SizeOf[s], stuck, after)
  BY <1>0, <1>1, <1>2, EnforceSizeLimitLeaves
<1>4. /\ Directory(after.dir) /\ Files(after.dir) \subseteq Files(dir)
      /\ after.size \in 0 .. SizeMod - 1
      /\ \A n \in Files(after.dir) : after.dir.bytes[n] = dir.bytes[n]
      /\ in_use' \subseteq in_use
      /\ in_use' = in_use \/ (SizeOf[s] > limit /\ stuck = {})
      /\ SizeOf[s] > limit /\ stuck = {} => Files(after.dir) = {} /\ after.size = 0
      /\ Bytes(dir, Files(dir)) <= size["media"] =>
           Bytes(after.dir, Files(after.dir)) <= after.size /\ after.size <= size["media"]
  <2>1. in_use' \subseteq in_use /\ (in_use' = in_use \/ (SizeOf[s] > limit /\ stuck = {}))
    BY <1>1, <1>2, <1>3 DEF Leaves
  <2>2. QED
    BY <1>3, <2>1 DEF Leaves
<1>5. /\ size["media"] \in 0 .. SizeMod - 1 /\ size["web"] \in 0 .. SizeMod - 1
      /\ DOMAIN size = {"media", "web"} /\ size = [x \in {"media", "web"} |-> size[x]]
  BY <1>0 DEF Types
<1>6. ASSUME ~ uncounted'
      PROVE  Bytes(after.dir, Files(after.dir)) <= after.size /\ after.size <= MaxCounted
  <2>1. CASE SizeOf[s] > limit /\ stuck = {}
    <3>1. Bytes(after.dir, Files(after.dir)) = 0
      BY <1>4, <2>1, BytesOfNone
    <3>2. QED
      BY <1>4, <2>1, <3>1, Constant
  <2>2. CASE ~ uncounted
    <3>1. size["media"] <= MaxCounted
      BY <1>0, <1>1, <1>5, <2>2, Constant DEF SizeInv, LittleDrift
    <3>2. QED
      BY <1>0, <1>4, <1>5, <2>2, <3>1, Constant DEF SizeInv
  <2>3. QED
    BY <1>1, <1>6, <2>1, <2>2
<1>7. ASSUME ~ uncounted', ~ blocked'
      PROVE  Files(after.dir) = {} \/ (~ uncounted /\ ~ blocked /\ in_use' = in_use)
  <2>1. CASE SizeOf[s] > limit
    BY <1>1, <1>4, <1>7, <2>1
  <2>2. CASE ~ (SizeOf[s] > limit)
    BY <1>1, <1>4, <1>7, <2>2
  <2>3. QED
    BY <2>1, <2>2
<1>8. CASE /\ size' = [size EXCEPT !["media"] = after.size] /\ UNCHANGED task
           /\ \/ dir' = after.dir
              \/ name \notin after.in_use /\ dir' = Without(after.dir, {name})
              \/ /\ name \notin after.in_use
                 /\ \E b \in Nat : dir' = With(after.dir, name, b) /\ (~ uncounted' => b = 0)
  <2>1. /\ Directory(dir') /\ Files(dir') \subseteq Files(after.dir) \cup {name}
        /\ ~ uncounted' => NoMore(after.dir, dir')
    <3>1. PICK d : d = after.dir
      OBVIOUS
    <3>2. Directory(d)
      BY <1>4, <3>1
    <3>3. CASE dir' = d
      BY <3>1, <3>2, <3>3 DEF NoMore
    <3>4. CASE dir' = Without(d, {name})
      BY <3>1, <3>2, <3>4, WithoutIsADirectory, WithoutIsNoMore
    <3>5. ASSUME NEW b \in Nat, dir' = With(d, name, b), ~ uncounted' => b = 0
          PROVE  /\ Directory(dir') /\ Files(dir') \subseteq Files(d) \cup {name}
                 /\ ~ uncounted' => NoMore(d, dir')
      BY <3>2, <3>5, WithIsADirectory, WithNothingIsNoMore
    <3>6. QED
      BY <1>8, <3>1, <3>3, <3>4, <3>5
  <2>2. size' \in [{"media", "web"} -> 0 .. SizeMod - 1] /\ size'["media"] = after.size /\ size'["web"] = size["web"]
    BY <1>4, <1>5, <1>8
  <2>3. Types'
    <3>1. \A u \in Tasks : TaskFits(u)'
      BY <1>0, <1>8 DEF Types, TaskFits
    <3>2. QED
      BY <1>0, <1>1, <1>2, <1>4, <1>8, <2>1, <2>2, <3>1 DEF Types
  <2>4. CachesApart'
    BY <1>0, <1>1, <2>2 DEF CachesApart
  <2>5. SizeInv'
    <3>1. ASSUME ~ uncounted'
          PROVE  Bytes(dir', DOMAIN dir'.bytes) <= after.size /\ after.size < SizeMod - MaxCounted
      <4>1. /\ Bytes(dir', DOMAIN dir'.bytes) <= Bytes(after.dir, Files(after.dir))
            /\ Bytes(dir', DOMAIN dir'.bytes) \in Nat /\ Bytes(after.dir, Files(after.dir)) \in Nat
        BY <1>4, <2>1, <3>1, NoMoreBytes
      <4>2. QED
        BY <1>4, <1>6, <3>1, <4>1, Constant
    <3>2. QED
      BY <2>2, <3>1 DEF SizeInv
  <2>6. Before
    <3>1. ASSUME ~ uncounted', ~ blocked'
          PROVE  NoBytes(dir') \/ (~ uncounted /\ ~ blocked /\ in_use' = in_use /\ NoMore(dir, dir'))
      <4>1. NoMore(after.dir, dir')
        BY <2>1, <3>1
      <4>2. CASE Files(after.dir) = {}
        BY <2>1, <4>1, <4>2 DEF NoMore, NoBytes
      <4>3. CASE ~ uncounted /\ ~ blocked /\ in_use' = in_use
        <5>1. NoMore(dir, dir')
          BY <1>4, <4>1 DEF NoMore
        <5>2. QED
          BY <4>3, <5>1
      <4>4. QED
        BY <1>7, <3>1, <4>2, <4>3
    <3>2. QED
      BY <3>1 DEF Before
  <2>7. MarkInv' /\ RestInv'
    BY <1>0, <1>1, <1>8, <2>3, <2>6, NothingComes
  <2>8. QED
    BY <2>3, <2>4, <2>5, <2>7 DEF Inv
<1>9. CASE /\ name \notin after.in_use
           /\ dir' = With(after.dir, name, SizeOf[s])
           /\ size' = [size EXCEPT !["media"] = Plus(after.size, SizeOf[s])]
           /\ task' = [task EXCEPT ![t] =
                 IF s \in Raw THEN [pc |-> "transcode", copy |-> name, name |-> name]
                              ELSE [pc |-> "mark", copy |-> None, name |-> name]]
  <2>1. /\ task'[t].name = name /\ task'[t].pc \in {"transcode", "mark"} /\ TaskFits(t)'
        /\ DOMAIN task' = Tasks /\ \A u \in Tasks \ {t} : task'[u] = task[u]
    <3>1. PICK r : r = IF s \in Raw THEN [pc |-> "transcode", copy |-> name, name |-> name]
                                    ELSE [pc |-> "mark", copy |-> None, name |-> name]
      OBVIOUS
    <3>2. task'[t] = r /\ DOMAIN task' = Tasks /\ \A u \in Tasks \ {t} : task'[u] = task[u]
      BY <1>0, <1>9, <3>1, OneTask
    <3>3. CASE s \in Raw
      BY <1>2, <3>1, <3>2, <3>3 DEF TaskFits
    <3>4. CASE s \notin Raw
      BY <1>2, <3>1, <3>2, <3>4 DEF TaskFits
    <3>5. QED
      BY <3>3, <3>4
  <2>2. /\ Directory(dir)' /\ Files(dir)' = Files(after.dir) \cup {name}
        /\ \A n \in Files(after.dir) \ {name} : dir'.bytes[n] = dir.bytes[n]
    <3>1. PICK d : d = after.dir
      OBVIOUS
    <3>2. /\ Directory(dir)' /\ Files(dir)' = Files(d) \cup {name}
          /\ \A n \in Files(d) \ {name} : dir'.bytes[n] = d.bytes[n]
      BY <1>2, <1>4, <1>9, <3>1, WithIsADirectory
    <3>3. QED
      BY <1>4, <3>1, <3>2
  <2>3. /\ size' \in [{"media", "web"} -> 0 .. SizeMod - 1]
        /\ size'["media"] = Plus(after.size, SizeOf[s]) /\ size'["web"] = size["web"]
    <3>1. Plus(after.size, SizeOf[s]) \in 0 .. SizeMod - 1
      BY <1>2, <1>4, Modulus, Constant DEF Plus
    <3>2. QED
      BY <1>5, <1>9, <3>1
  <2>4. Types'
    <3>1. \A u \in Tasks : TaskFits(u)'
      BY <1>0, <2>1, TasksFit
    <3>2. QED
      BY <1>0, <1>1, <1>2, <1>4, <2>1, <2>2, <2>3, <3>1 DEF Types
  <2>5. CachesApart'
    BY <1>0, <1>1, <2>3 DEF CachesApart
  <2>6. SizeInv'
    <3>1. SUFFICES ASSUME ~ uncounted'
                   PROVE  /\ Bytes(dir', DOMAIN dir'.bytes) <= size'["media"]
                          /\ size'["media"] < SizeMod - MaxCounted
      BY DEF SizeInv
    <3>2. Bytes(after.dir, Files(after.dir)) <= after.size /\ after.size <= MaxCounted
      BY <1>6, <3>1
    <3>3. Plus(after.size, SizeOf[s]) = after.size + SizeOf[s]
      <4>1. after.size + SizeOf[s] \in 0 .. SizeMod - 1
        BY <1>2, <1>4, <3>2, Constant
      <4>2. QED
        BY <4>1, Modulus DEF Plus
    <3>4. /\ Bytes(dir', DOMAIN dir'.bytes) <= Bytes(after.dir, Files(after.dir)) + SizeOf[s]
          /\ Bytes(dir', DOMAIN dir'.bytes) \in Nat
      BY <1>2, <1>4, <1>9, WithAdds
    <3>5. Bytes(after.dir, Files(after.dir)) \in Nat
      BY <1>4, SizesOfFiles
    <3>6. QED
      BY <1>2, <1>4, <2>3, <3>2, <3>3, <3>4, <3>5, Constant
  <2>7. RestInv'
    <3>1. name \in Hands'
      BY <2>1 DEF Hands, Hand
    <3>2. Hands \subseteq Hands' \cup {None}
      BY <1>1, <2>1 DEF Hands, Hand, Idle
    <3>3. Rest' \subseteq Files(after.dir) \ {name}
      BY <2>2, <3>1 DEF Rest
    <3>4. \A n \in Rest' : dir'.bytes[n] = dir.bytes[n]
      BY <2>2, <3>3
    <3>5. ASSUME ~ uncounted', ~ blocked'
          PROVE  \/ \A n \in Rest' : dir'.bytes[n] = 0
                 \/ /\ ~ uncounted /\ ~ blocked
                    /\ \A n \in Rest' : dir'.bytes[n] # 0 => n \in Rest /\ dir'.bytes[n] = dir.bytes[n]
      <4>1. CASE Files(after.dir) = {}
        BY <3>3, <4>1
      <4>2. CASE ~ uncounted /\ ~ blocked /\ in_use' = in_use
        <5>1. None \notin Files(dir)
          BY <1>0, Constant DEF Types
        <5>2. Rest' \subseteq Rest
          BY <1>4, <3>2, <3>3, <4>2, <5>1 DEF Rest
        <5>3. QED
          BY <3>4, <4>2, <5>2
      <4>3. QED
        BY <1>7, <3>5, <4>1, <4>2
    <3>6. QED
      BY <1>0, <1>1, <2>4, <3>5, RestShrinks
  <2>8. MarkInv'
    <3>1. SUFFICES ASSUME ~ uncounted', ~ blocked', NEW u \in Tasks, task'[u].pc = "process",
                          task'[u].name \in Files(dir)' \ in_use', dir'.bytes[task'[u].name] # 0
                   PROVE  \E w \in Tasks : /\ task'[w].pc \in {"transcode", "drop", "mark", "delete"}
                                           /\ task'[u].name \in Hand(w)'
      BY DEF MarkInv
    <3>2. u # t /\ task'[u] = task[u]
      BY <2>1, <3>1
    <3>3. CASE task[u].name = name
      BY <2>1, <3>2, <3>3 DEF Hand
    <3>4. CASE task[u].name # name
      <4>0. task[u].name \in Files(after.dir)
        BY <2>2, <3>1, <3>2, <3>4
      <4>1. /\ ~ uncounted /\ ~ blocked /\ task[u].pc = "process"
            /\ task[u].name \in Files(dir) \ in_use /\ dir.bytes[task[u].name] # 0
        BY <1>4, <1>7, <2>2, <3>1, <3>2, <3>4, <4>0
      <4>2. PICK w \in Tasks : /\ task[w].pc \in {"transcode", "drop", "mark", "delete"}
                               /\ task[u].name \in Hand(w)
        BY <1>0, <4>1 DEF MarkInv
      <4>3. w # t
        BY <1>1, <4>2 DEF Idle
      <4>4. QED
        BY <2>1, <3>2, <4>2, <4>3 DEF Hand
    <3>5. QED
      BY <3>3, <3>4
  <2>9. QED
    BY <2>4, <2>5, <2>6, <2>7, <2>8 DEF Inv
<1>10. QED
  BY <1>1, <1>8, <1>9


\* Deletion of a copy: what is marked stays, the rest is no longer there, unless the
\* deletion fails.
LEMMA DeleteLeaves ==
  ASSUME Inv, NEW name, Delete(name), UNCHANGED <<limit, uncounted, cache, web, in_use>>
  PROVE  /\ Directory(dir)' /\ Files(dir)' \subseteq Files(dir)
         /\ \A n \in Files(dir)' : dir'.bytes[n] = dir.bytes[n]
         /\ blocked' \in BOOLEAN /\ events' \in Nat
         /\ ~ blocked' => ~ blocked /\ name \notin Files(dir)' \ in_use
         /\ size' \in [{"media", "web"} -> 0 .. SizeMod - 1] /\ size'["web"] = size["web"]
         /\ SizeInv'
<1>0. Types /\ SizeInv /\ Directory(dir) /\ blocked \in BOOLEAN /\ events \in Nat
  BY DEF Inv, Types
<1>1. CASE name \in in_use /\ UNCHANGED <<dir, size, blocked, events>>
  BY <1>0, <1>1 DEF SizeInv, Types
<1> DEFINE part == Files(dir) \cap {name}
           gone == Bytes(dir, part)
<1>2. CASE /\ name \notin in_use /\ dir' = Without(dir, {name})
           /\ size' = [size EXCEPT !["media"] = IF @ >= gone THEN @ - gone ELSE 0]
           /\ UNCHANGED <<blocked, events>>
  <2>1. /\ size["media"] \in 0 .. SizeMod - 1 /\ size["web"] \in 0 .. SizeMod - 1
        /\ DOMAIN size = {"media", "web"}
    BY <1>0 DEF Types
  <2>2. PICK g \in Nat : g = gone
    <3>1. part \subseteq Files(dir)
      OBVIOUS
    <3>2. QED
      BY <1>0, <3>1, SizesOfFiles
  <2>3. PICK new : new = IF size["media"] >= g THEN size["media"] - g ELSE 0
    OBVIOUS
  <2>4. new \in 0 .. SizeMod - 1 /\ new <= size["media"] /\ (g <= size["media"] => new = size["media"] - g)
    BY <2>1, <2>2, <2>3, Constant
  <2>5. size' = [size EXCEPT !["media"] = new]
    BY <1>2, <2>1, <2>2, <2>3
  <2>6. /\ size' \in [{"media", "web"} -> 0 .. SizeMod - 1]
        /\ size'["media"] = new /\ size'["web"] = size["web"]
    BY <2>1, <2>4, <2>5
  <2>7. /\ Directory(dir)' /\ Files(dir)' = Files(dir) \ {name}
        /\ \A n \in Files(dir)' : dir'.bytes[n] = dir.bytes[n]
    BY <1>0, <1>2, WithoutIsADirectory
  <2>8. ASSUME ~ uncounted
        PROVE  Bytes(dir', DOMAIN dir'.bytes) <= new /\ new < SizeMod - MaxCounted
    <3>1. PICK S : S = Files(dir) \ {name}
      OBVIOUS
    <3>2. Bytes(dir', S) = Bytes(dir, S)
      BY <2>7, <3>1, BytesSame
    <3>3. /\ Bytes(dir, Files(dir)) = Bytes(dir, part) + Bytes(dir, Files(dir) \ part)
          /\ Bytes(dir, S) \in Nat
      BY <1>0, <3>1, FewerBytes, SizesOfFiles
    <3>4. Files(dir) \ part = S
      BY <3>1
    <3>5. Bytes(dir, Files(dir)) = g + Bytes(dir, S)
      BY <2>2, <3>3, <3>4
    <3>6. Bytes(dir, Files(dir)) <= size["media"] /\ size["media"] < SizeMod - MaxCounted
      BY <1>0, <2>8 DEF SizeInv
    <3>7. Bytes(dir', DOMAIN dir'.bytes) = Bytes(dir, S)
      BY <2>7, <3>1, <3>2
    <3>8. QED
      BY <2>1, <2>4, <3>3, <3>5, <3>6, <3>7, Constant
  <2>9. SizeInv'
    BY <2>6, <2>8 DEF SizeInv
  <2>10. QED
    BY <1>0, <1>2, <2>6, <2>7, <2>9
<1>3. CASE name \notin in_use /\ Event(TRUE) /\ blocked' = TRUE /\ UNCHANGED <<dir, size>>
  <2>1. events' \in Nat
    BY <1>0, <1>3, EventCounts
  <2>2. QED
    BY <1>0, <1>3, <2>1 DEF SizeInv, Types
<1>4. QED
  BY <1>1, <1>2, <1>3 DEF Delete

\* A task of the thumbnail cache has nothing to do.
LEMMA TasksTranscode ==
  ASSUME Inv, NEW t \in Tasks, task[t].pc # "idle"
  PROVE  cache # "thumbnails"
BY DEF Inv, CachesApart, Idle

\* After DropRaw and DeleteCopy.
LEMMA DeletionIsKept ==
  ASSUME Inv, NEW t \in Tasks, NEW name, Delete(name),
         UNCHANGED <<cache, in_use, limit, web, uncounted>>,
         task[t].pc # "idle", task[t].pc # "process", TaskFits(t)', task'[t].pc # "process",
         Hand(t) \subseteq {name, None} \cup Hand(t)', DOMAIN task' = Tasks,
         task'[t].pc \in {"idle", "mark"},
         \A u \in Tasks \ {t} : task'[u] = task[u]
  PROVE  Inv'
<1>0. Types /\ CachesApart /\ SizeInv /\ RestInv /\ MarkInv /\ cache # "thumbnails"
  BY TasksTranscode DEF Inv
<1>1. /\ Directory(dir)' /\ Files(dir)' \subseteq Files(dir)
      /\ \A n \in Files(dir)' : dir'.bytes[n] = dir.bytes[n]
      /\ blocked' \in BOOLEAN /\ events' \in Nat
      /\ ~ blocked' => ~ blocked /\ name \notin Files(dir)' \ in_use
      /\ size' \in [{"media", "web"} -> 0 .. SizeMod - 1] /\ size'["web"] = size["web"]
      /\ SizeInv'
  BY DeleteLeaves
<1>2. Types'
  <2>1. \A u \in Tasks : TaskFits(u)'
    BY <1>0, TasksFit
  <2>2. QED
    BY <1>0, <1>1, <2>1 DEF Types
<1>3. CachesApart'
  BY <1>0, <1>1 DEF CachesApart
<1>4. RestInv'
  <2>1. Hands \subseteq Hands' \cup {name, None}
    BY DEF Hands, Hand
  <2>2. ASSUME ~ blocked' PROVE Rest' \subseteq Rest /\ Rest' \subseteq Files(dir)'
    BY <1>0, <1>1, <2>1, <2>2, Constant DEF Rest, Types
  <2>3. ASSUME ~ uncounted', ~ blocked'
        PROVE  /\ ~ uncounted /\ ~ blocked
               /\ \A n \in Rest' : dir'.bytes[n] # 0 => n \in Rest /\ dir'.bytes[n] = dir.bytes[n]
    BY <1>1, <2>2, <2>3
  <2>4. QED
    BY <1>0, <1>2, <2>3, RestShrinks
<1>5. MarkInv'
  <2>1. SUFFICES ASSUME ~ uncounted', ~ blocked', NEW u \in Tasks, task'[u].pc = "process",
                        task'[u].name \in Files(dir)' \ in_use, dir'.bytes[task'[u].name] # 0
                 PROVE  \E w \in Tasks : /\ task'[w].pc \in {"transcode", "drop", "mark", "delete"}
                                         /\ task'[u].name \in Hand(w)'
    BY DEF MarkInv
  <2>2. /\ u # t /\ task'[u] = task[u] /\ task[u].name # name /\ task[u].name \in Files(dir) \ in_use
        /\ dir.bytes[task[u].name] # 0 /\ ~ uncounted /\ ~ blocked
    BY <1>1, <2>1
  <2>3. PICK w \in Tasks : /\ task[w].pc \in {"transcode", "drop", "mark", "delete"}
                           /\ task[u].name \in Hand(w)
    BY <1>0, <2>1, <2>2 DEF MarkInv
  <2>4. CASE w # t
    BY <2>2, <2>3, <2>4 DEF Hand
  <2>5. CASE w = t
    <3>1. task[u].name \in Hand(t)' /\ task[u].name # None
      BY <1>0, <2>2, <2>3, <2>5, Constant DEF Types
    <3>2. task'[t].pc = "mark"
      BY <1>0, <3>1 DEF TaskFits, Hand, Idle
    <3>3. QED
      BY <2>2, <3>1, <3>2
  <2>6. QED
    BY <2>4, <2>5
<1>6. QED
  BY <1>1, <1>2, <1>3, <1>4, <1>5 DEF Inv

LEMMA DropRawIsKept ==
  ASSUME Inv, NEW t \in Tasks, DropRaw(t)
  PROVE  Inv'
<1>1. Types /\ TaskFits(t)
  BY DEF Inv, Types
<1>2. PICK name : name = task[t].copy
  OBVIOUS
<1>3. /\ task[t].pc = "drop" /\ Delete(name)
      /\ task' = [task EXCEPT ![t] = [task[t] EXCEPT !.pc = "mark", !.copy = None]]
      /\ UNCHANGED <<cache, in_use, limit, web, uncounted>>
  BY <1>2 DEF DropRaw
<1>4. /\ task'[t] = [task[t] EXCEPT !.pc = "mark", !.copy = None]
      /\ DOMAIN task' = Tasks /\ \A u \in Tasks \ {t} : task'[u] = task[u]
  BY <1>1, <1>3 DEF Types
<1>5. task'[t].pc = "mark" /\ task'[t].copy = None /\ task'[t].name = task[t].name /\ TaskFits(t)'
  BY <1>1, <1>3, <1>4 DEF TaskFits
<1>6. Hand(t) \subseteq {name, None} \cup Hand(t)'
  BY <1>2, <1>5 DEF Hand
<1>7. QED
  BY <1>3, <1>4, <1>5, <1>6, DeletionIsKept

LEMMA DeleteCopyIsKept ==
  ASSUME Inv, NEW t \in Tasks, DeleteCopy(t)
  PROVE  Inv'
<1>1. Types /\ TaskFits(t)
  BY DEF Inv, Types
<1>2. PICK name : name = task[t].name
  OBVIOUS
<1>3. /\ task[t].pc = "delete" /\ Delete(name)
      /\ task' = [task EXCEPT ![t] = Idle]
      /\ UNCHANGED <<cache, in_use, limit, web, uncounted>>
  BY <1>2 DEF DeleteCopy
<1>4. task'[t] = Idle /\ DOMAIN task' = Tasks /\ \A u \in Tasks \ {t} : task'[u] = task[u]
  BY <1>1, <1>3 DEF Types
<1>5. task'[t].pc = "idle" /\ TaskFits(t)'
  BY <1>4 DEF TaskFits, Idle
<1>6. Hand(t) \subseteq {name, None}
  BY <1>1, <1>2, <1>3 DEF Hand, TaskFits
<1>7. QED
  BY <1>3, <1>4, <1>5, <1>6, DeletionIsKept

LEMMA TranscodeIsKept ==
  ASSUME Inv, NEW t \in Tasks, Transcode(t)
  PROVE  Inv'
<1>0. /\ Types /\ CachesApart /\ SizeInv /\ RestInv /\ MarkInv /\ TaskFits(t) /\ Directory(dir)
      /\ uncounted \in BOOLEAN /\ events \in Nat /\ cache # "thumbnails"
  BY TasksTranscode DEF Inv, Types, Transcode
<1>1. /\ task[t].pc = "transcode" /\ UNCHANGED <<cache, size, in_use, limit, web, blocked>>
      /\ \/ \E jpeg \in UniqueFilename :
              \/ /\ dir' = With(dir, jpeg, JpegSize)
                 /\ uncounted' = TRUE
                 /\ task' = [task EXCEPT ![t].pc = "drop", ![t].name = jpeg]
                 /\ UNCHANGED events
              \/ /\ \E b \in 0 .. JpegSize :
                      dir' = With(dir, jpeg, b) /\ uncounted' = (uncounted \/ b > 0)
                 /\ task' = [task EXCEPT ![t].pc = "delete"]
                 /\ Event(TRUE)
         \/ UNCHANGED <<dir, uncounted, events>> /\ task' = [task EXCEPT ![t].pc = "delete"]
  BY DEF Transcode, Goto
<1>2. ASSUME Directory(dir'), Files(dir)' \subseteq Names \cup Temps, events' \in Nat, uncounted' \in BOOLEAN,
             ~ uncounted' => ~ uncounted /\ NoMore(dir, dir'),
             task' = [task EXCEPT ![t].pc = "delete"]
      PROVE  Inv'
  <2>1. /\ task'[t] = [task[t] EXCEPT !.pc = "delete"] /\ DOMAIN task' = Tasks
        /\ \A u \in Tasks \ {t} : task'[u] = task[u]
    BY <1>0, <1>2 DEF Types
  <2>2. /\ TaskFits(t)' /\ task'[t].pc = "delete"
        /\ task'[t].copy = task[t].copy /\ task'[t].name = task[t].name
    BY <1>0, <1>1, <2>1 DEF TaskFits
  <2>3. \A u \in Tasks : Hand(u)' = Hand(u)
    BY <2>1, <2>2 DEF Hand
  <2>4. Types'
    <3>1. \A u \in Tasks : TaskFits(u)'
      BY <1>0, <2>1, <2>2, TasksFit
    <3>2. QED
      BY <1>0, <1>1, <1>2, <2>1, <3>1 DEF Types
  <2>5. SizeInv' /\ CachesApart'
    <3>1. SizeInv'
      BY <1>0, <1>1, <1>2, <2>4, SizeStays
    <3>2. QED
      BY <1>0, <1>1, <3>1 DEF CachesApart
  <2>6. ASSUME ~ uncounted', ~ blocked'
        PROVE  /\ ~ uncounted /\ ~ blocked
               /\ \A n \in Files(dir)' : dir'.bytes[n] # 0 => n \in Files(dir) /\ dir'.bytes[n] = dir.bytes[n]
    BY <1>1, <1>2, <2>6 DEF NoMore
  <2>7. RestInv'
    <3>1. Hands' = Hands
      BY <2>3 DEF Hands
    <3>2. ASSUME ~ uncounted', ~ blocked'
          PROVE  /\ ~ uncounted /\ ~ blocked
                 /\ \A n \in Rest' : dir'.bytes[n] # 0 => n \in Rest /\ dir'.bytes[n] = dir.bytes[n]
      BY <1>1, <2>6, <3>1, <3>2 DEF Rest
    <3>3. QED
      BY <1>0, <1>1, <2>4, <3>2, RestShrinks
  <2>8. MarkInv'
    <3>1. SUFFICES ASSUME ~ uncounted', ~ blocked', NEW u \in Tasks, task'[u].pc = "process",
                          task'[u].name \in Files(dir)' \ in_use, dir'.bytes[task'[u].name] # 0
                   PROVE  \E w \in Tasks : /\ task'[w].pc \in {"transcode", "drop", "mark", "delete"}
                                           /\ task'[u].name \in Hand(w)'
      BY <1>1 DEF MarkInv
    <3>2. /\ u # t /\ task'[u] = task[u] /\ task[u].name \in Files(dir) \ in_use
          /\ dir.bytes[task[u].name] # 0 /\ ~ uncounted /\ ~ blocked
      BY <2>1, <2>2, <2>6, <3>1
    <3>3. PICK w \in Tasks : /\ task[w].pc \in {"transcode", "drop", "mark", "delete"}
                             /\ task[u].name \in Hand(w)
      BY <1>0, <3>1, <3>2 DEF MarkInv
    <3>4. task'[w].pc \in {"transcode", "drop", "mark", "delete"}
      BY <2>1, <2>2, <3>3
    <3>5. QED
      BY <2>3, <3>2, <3>3, <3>4
  <2>9. QED
    BY <2>4, <2>5, <2>7, <2>8 DEF Inv
<1>3. ASSUME NEW jpeg \in UniqueFilename, uncounted' = TRUE, dir' = With(dir, jpeg, JpegSize),
             task' = [task EXCEPT ![t].pc = "drop", ![t].name = jpeg], UNCHANGED events
      PROVE  Inv'
  <2>1. /\ task'[t] = [task[t] EXCEPT !.pc = "drop", !.name = jpeg] /\ DOMAIN task' = Tasks
        /\ \A u \in Tasks \ {t} : task'[u] = task[u]
    BY <1>0, <1>3 DEF Types
  <2>2. jpeg \in Names
    BY Constant DEF UniqueFilename
  <2>3. TaskFits(t)'
    BY <1>0, <1>1, <2>1, <2>2 DEF TaskFits
  <2>4. Directory(dir)' /\ Files(dir)' = Files(dir) \cup {jpeg}
    BY <1>0, <1>3, WithIsADirectory, Constant
  <2>5. Types'
    <3>1. \A u \in Tasks : TaskFits(u)'
      BY <1>0, <2>1, <2>3, TasksFit
    <3>2. QED
      BY <1>0, <1>1, <1>3, <2>1, <2>2, <2>4, <3>1 DEF Types
  <2>6. SizeInv' /\ CachesApart' /\ RestInv' /\ MarkInv'
    BY <1>0, <1>1, <1>3 DEF SizeInv, CachesApart, RestInv, MarkInv
  <2>7. QED
    BY <2>5, <2>6 DEF Inv
<1>4. ASSUME NEW jpeg \in UniqueFilename, NEW b \in 0 .. JpegSize, dir' = With(dir, jpeg, b),
             uncounted' = (uncounted \/ b > 0), task' = [task EXCEPT ![t].pc = "delete"], Event(TRUE)
      PROVE  Inv'
  <2>1. jpeg \in Names /\ b \in Nat /\ (b > 0) \in BOOLEAN /\ (~ (b > 0) => b = 0)
    BY Constant DEF UniqueFilename
  <2>2. uncounted' \in BOOLEAN /\ (~ uncounted' => ~ uncounted /\ b = 0)
    BY <1>0, <1>4, <2>1, Zenon
  <2>3. Directory(dir') /\ Files(dir)' = Files(dir) \cup {jpeg}
    BY <1>0, <1>4, <2>1, WithIsADirectory
  <2>4. Files(dir)' \subseteq Names \cup Temps /\ events' \in Nat
    BY <1>0, <1>4, <2>1, <2>3, EventCounts DEF Types
  <2>5. ASSUME b = 0 PROVE NoMore(dir, dir')
    BY <1>0, <1>4, <2>5, WithNothingIsNoMore
  <2>6. QED
    BY <1>2, <1>4, <2>2, <2>3, <2>4, <2>5
<1>5. CASE UNCHANGED <<dir, uncounted, events>> /\ task' = [task EXCEPT ![t].pc = "delete"]
  <2>1. Directory(dir') /\ Files(dir)' \subseteq Names \cup Temps /\ NoMore(dir, dir')
    BY <1>0, <1>5 DEF NoMore, Types
  <2>2. QED
    BY <1>0, <1>2, <1>5, <2>1
<1>6. QED
  BY <1>1, <1>3, <1>4, <1>5

LEMMA MarkFileInUseIsKept ==
  ASSUME Inv, NEW t \in Tasks, MarkFileInUse(t)
  PROVE  Inv'
<1>0. /\ Types /\ CachesApart /\ SizeInv /\ RestInv /\ MarkInv /\ TaskFits(t)
      /\ cache # "thumbnails"
  BY TasksTranscode DEF Inv, Types, MarkFileInUse
<1>1. /\ task[t].pc = "mark" /\ in_use' = in_use \cup {task[t].name}
      /\ task' = [task EXCEPT ![t].pc = "process"]
      /\ UNCHANGED <<cache, dir, size, limit, web, events, uncounted, blocked>>
  BY DEF MarkFileInUse, Goto
<1>2. /\ task'[t] = [task[t] EXCEPT !.pc = "process"] /\ DOMAIN task' = Tasks
      /\ \A u \in Tasks \ {t} : task'[u] = task[u]
  BY <1>0, <1>1 DEF Types
<1>3. /\ TaskFits(t)' /\ task'[t].pc = "process" /\ task[t].name \in Names /\ task[t].copy = None
      /\ task'[t].copy = task[t].copy /\ task'[t].name = task[t].name
  BY <1>0, <1>1, <1>2 DEF TaskFits
<1>4. \A u \in Tasks : Hand(u)' = Hand(u)
  BY <1>2, <1>3 DEF Hand
<1>5. Types'
  <2>1. \A u \in Tasks : TaskFits(u)'
    BY <1>0, <1>2, <1>3, TasksFit
  <2>2. QED
    BY <1>0, <1>1, <1>2, <1>3, <2>1 DEF Types
<1>6. SizeInv' /\ CachesApart'
  BY <1>0, <1>1 DEF SizeInv, CachesApart
<1>7. RestInv'
  <2>1. Rest' \subseteq Rest
    BY <1>1, <1>4 DEF Rest, Hands
  <2>2. QED
    BY <1>0, <1>1, <1>5, <2>1, RestShrinks
<1>8. MarkInv'
  <2>1. SUFFICES ASSUME ~ uncounted, ~ blocked, NEW u \in Tasks, task'[u].pc = "process",
                        task'[u].name \in Files(dir) \ in_use', dir.bytes[task'[u].name] # 0
                 PROVE  \E w \in Tasks : /\ task'[w].pc \in {"transcode", "drop", "mark", "delete"}
                                         /\ task'[u].name \in Hand(w)'
    BY <1>1 DEF MarkInv
  <2>2. u # t /\ task'[u] = task[u] /\ task[u].name \in Files(dir) \ in_use /\ task[u].name # task[t].name
    BY <1>1, <1>2, <1>3, <2>1
  <2>3. PICK w \in Tasks : /\ task[w].pc \in {"transcode", "drop", "mark", "delete"}
                           /\ task[u].name \in Hand(w)
    BY <1>0, <2>1, <2>2 DEF MarkInv
  <2>4. w # t
    BY <1>0, <1>3, <2>2, <2>3, Constant DEF Hand, Types
  <2>5. QED
    BY <1>2, <1>4, <2>2, <2>3, <2>4
<1>9. QED
  BY <1>5, <1>6, <1>7, <1>8 DEF Inv

LEMMA MarkFileNotInUseIsKept ==
  ASSUME Inv, NEW t \in Tasks, MarkFileNotInUse(t)
  PROVE  Inv'
<1>0. /\ Types /\ CachesApart /\ SizeInv /\ RestInv /\ MarkInv /\ TaskFits(t)
      /\ cache # "thumbnails"
  BY TasksTranscode DEF Inv, Types, MarkFileNotInUse
<1>1. /\ task[t].pc = "process" /\ in_use' = in_use \ {task[t].name}
      /\ task' = [task EXCEPT ![t].pc = "delete"]
      /\ UNCHANGED <<cache, dir, size, limit, web, events, uncounted, blocked>>
  BY DEF MarkFileNotInUse, Goto
<1>2. /\ task'[t] = [task[t] EXCEPT !.pc = "delete"] /\ DOMAIN task' = Tasks
      /\ \A u \in Tasks \ {t} : task'[u] = task[u]
  BY <1>0, <1>1 DEF Types
<1>3. /\ TaskFits(t)' /\ task'[t].pc = "delete"
      /\ task'[t].copy = task[t].copy /\ task'[t].name = task[t].name
  BY <1>0, <1>1, <1>2 DEF TaskFits
<1>4. \A u \in Tasks : Hand(u)' = Hand(u)
  BY <1>2, <1>3 DEF Hand
<1>5. Types'
  <2>1. \A u \in Tasks : TaskFits(u)'
    BY <1>0, <1>2, <1>3, TasksFit
  <2>2. QED
    BY <1>0, <1>1, <1>2, <1>3, <2>1 DEF Types
<1>6. SizeInv' /\ CachesApart'
  BY <1>0, <1>1 DEF SizeInv, CachesApart
<1>7. RestInv'
  <2>1. task[t].name \in Hands
    BY DEF Hands, Hand
  <2>2. Hands' = Hands
    BY <1>4 DEF Hands
  <2>3. Rest' \subseteq Rest
    BY <1>1, <2>1, <2>2 DEF Rest
  <2>4. QED
    BY <1>0, <1>1, <1>5, <2>3, RestShrinks
<1>8. MarkInv'
  <2>1. SUFFICES ASSUME ~ uncounted, ~ blocked, NEW u \in Tasks, task'[u].pc = "process",
                        task'[u].name \in Files(dir) \ in_use', dir.bytes[task'[u].name] # 0
                 PROVE  \E w \in Tasks : /\ task'[w].pc \in {"transcode", "drop", "mark", "delete"}
                                         /\ task'[u].name \in Hand(w)'
    BY <1>1 DEF MarkInv
  <2>2. u # t /\ task'[u] = task[u]
    BY <1>2, <1>3, <2>1
  <2>3. CASE task[u].name = task[t].name
    BY <1>3, <2>2, <2>3 DEF Hand
  <2>4. CASE task[u].name # task[t].name
    <3>1. PICK w \in Tasks : /\ task[w].pc \in {"transcode", "drop", "mark", "delete"}
                             /\ task[u].name \in Hand(w)
      BY <1>0, <1>1, <2>1, <2>2, <2>4 DEF MarkInv
    <3>2. w # t
      BY <1>1, <3>1
    <3>3. QED
      BY <1>2, <1>4, <2>2, <3>1, <3>2
  <2>5. QED
    BY <2>3, <2>4
<1>9. QED
  BY <1>5, <1>6, <1>7, <1>8 DEF Inv

LEMMA ThrowIsKept ==
  ASSUME Inv, NEW t \in Tasks, Throw(t)
  PROVE  Inv'
<1>0. /\ Types /\ CachesApart /\ SizeInv /\ RestInv /\ MarkInv /\ TaskFits(t)
      /\ blocked \in BOOLEAN /\ events \in Nat /\ cache # "thumbnails"
  BY TasksTranscode DEF Inv, Types, Throw
<1>1. /\ task[t].pc # "idle" /\ Event(TRUE) /\ task' = [task EXCEPT ![t] = Idle]
      /\ blocked' = (blocked \/ task[t].pc # "process")
      /\ UNCHANGED <<cache, dir, size, in_use, limit, web, uncounted>>
  BY DEF Throw
<1>2. task'[t] = Idle /\ DOMAIN task' = Tasks /\ \A u \in Tasks \ {t} : task'[u] = task[u]
  BY <1>0, <1>1 DEF Types
<1>3. task'[t].pc = "idle" /\ TaskFits(t)'
  BY <1>2 DEF TaskFits, Idle
<1>4. blocked' \in BOOLEAN /\ (~ blocked' => ~ blocked /\ task[t].pc = "process")
  BY <1>0, <1>1, Zenon
<1>5. \A u \in Tasks \ {t} : Hand(u)' = Hand(u)
  BY <1>2 DEF Hand
<1>6. Types'
  <2>1. \A u \in Tasks : TaskFits(u)'
    BY <1>0, <1>2, <1>3, TasksFit
  <2>2. events' \in Nat
    BY <1>0, <1>1, EventCounts
  <2>3. QED
    BY <1>0, <1>1, <1>2, <1>4, <2>1, <2>2 DEF Types
<1>7. SizeInv' /\ CachesApart'
  BY <1>0, <1>1 DEF SizeInv, CachesApart
<1>8. RestInv'
  <2>1. ASSUME ~ uncounted', ~ blocked', NEW n \in Rest', dir'.bytes[n] # 0 PROVE n \in Rest
    <3>0. /\ ~ uncounted /\ ~ blocked /\ task[t].pc = "process" /\ dir.bytes[n] # 0
          /\ Hand(t) = {None, task[t].name}
      BY <1>0, <1>1, <1>4, <2>1 DEF Hand, TaskFits
    <3>1. n \in Files(dir) \ in_use /\ n # None /\ n \notin Hands'
      BY <1>0, <1>1, Constant DEF Rest, Types
    <3>2. \A u \in Tasks \ {t} : n \notin Hand(u)
      BY <1>5, <3>1 DEF Hands
    <3>3. n # task[t].name
      <4>1. SUFFICES ASSUME n = task[t].name PROVE FALSE
        OBVIOUS
      <4>2. PICK w \in Tasks : /\ task[w].pc \in {"transcode", "drop", "mark", "delete"}
                               /\ task[t].name \in Hand(w)
        BY <1>0, <3>0, <3>1, <4>1 DEF MarkInv
      <4>3. QED
        BY <3>0, <3>2, <4>1, <4>2
    <3>4. n \notin Hands
      BY <3>0, <3>1, <3>2, <3>3 DEF Hands
    <3>5. QED
      BY <3>1, <3>4 DEF Rest
  <2>2. QED
    BY <1>0, <1>1, <1>4, <1>6, <2>1, RestShrinks
<1>9. MarkInv'
  <2>1. SUFFICES ASSUME ~ uncounted', ~ blocked', NEW u \in Tasks, task'[u].pc = "process",
                        task'[u].name \in Files(dir) \ in_use, dir.bytes[task'[u].name] # 0
                 PROVE  \E w \in Tasks : /\ task'[w].pc \in {"transcode", "drop", "mark", "delete"}
                                         /\ task'[u].name \in Hand(w)'
    BY <1>1 DEF MarkInv
  <2>2. u # t /\ task'[u] = task[u] /\ ~ uncounted /\ ~ blocked /\ task[t].pc = "process"
    BY <1>1, <1>2, <1>3, <1>4, <2>1
  <2>3. PICK w \in Tasks : /\ task[w].pc \in {"transcode", "drop", "mark", "delete"}
                           /\ task[u].name \in Hand(w)
    BY <1>0, <2>1, <2>2 DEF MarkInv
  <2>4. w # t
    BY <2>2, <2>3
  <2>5. QED
    BY <1>2, <1>5, <2>2, <2>3, <2>4
<1>10. QED
  BY <1>6, <1>7, <1>8, <1>9 DEF Inv

-----------------------------------------------------------------------------
(* The actions of the web server, and thumbnails.                           *)

\* A directory that is cleared, or of which some files are left.
LEMMA Cleared ==
  ASSUME Types, NEW left, dir' = Without(dir, Files(dir) \ left)
  PROVE  /\ Directory(dir') /\ Files(dir)' \subseteq Files(dir)
         /\ NoMore(dir, dir')
         /\ left = {} => Files(dir)' = {} /\ NoBytes(dir')
<1>1. Directory(dir)
  BY DEF Types
<1>2. /\ Directory(dir') /\ Files(dir)' = Files(dir) \ (Files(dir) \ left)
      /\ NoMore(dir, dir')
  BY <1>1, WithoutIsADirectory, WithoutIsNoMore
<1>3. QED
  BY <1>2 DEF NoBytes

LEMMA StartWebCacheIsKept ==
  ASSUME Inv, StartWebCache
  PROVE  Inv'
<1>0. Types /\ CachesApart /\ SizeInv /\ RestInv /\ MarkInv /\ blocked \in BOOLEAN /\ events \in Nat
  BY DEF Inv, Types
<1>1. PICK left :
        /\ dir' = Without(dir, Files(dir) \ left)
        /\ blocked' = (blocked /\ left # {})
        /\ Event(left \notin {{}, Files(dir)})
        /\ cache = "transcoding" /\ web' = TRUE
        /\ size' = [size EXCEPT !["web"] = CacheSize(dir')]
        /\ UNCHANGED <<cache, in_use, limit, task, uncounted>>
  BY DEF StartWebCache
<1>2. /\ Directory(dir') /\ Files(dir)' \subseteq Files(dir)
      /\ NoMore(dir, dir')
      /\ left = {} => NoBytes(dir')
  BY <1>0, <1>1, Cleared
<1>3. blocked' \in BOOLEAN /\ (~ blocked' => ~ blocked \/ left = {}) /\ events' \in Nat
  BY <1>0, <1>1, EventCounts, Zenon
<1>4. CacheSize(dir') \in 0 .. SizeMod - 1
  <2>1. Bytes(dir', DOMAIN dir'.bytes) \in Nat
    BY <1>2, SizesOfFiles
  <2>2. QED
    BY <2>1, Modulus DEF CacheSize
<1>5. size' \in [{"media", "web"} -> 0 .. SizeMod - 1] /\ size'["media"] = size["media"]
  BY <1>0, <1>1, <1>4 DEF Types
<1>6. Types'
  <2>1. \A u \in Tasks : TaskFits(u)'
    BY <1>0, <1>1 DEF Types, TaskFits
  <2>2. QED
    BY <1>0, <1>1, <1>2, <1>3, <1>5, <2>1 DEF Types
<1>7. CachesApart'
  BY <1>1 DEF CachesApart
<1>8. SizeInv'
  BY <1>0, <1>1, <1>2, <1>5, <1>6, SizeStays
<1>9. Before
  BY <1>1, <1>2, <1>3 DEF Before
<1>10. MarkInv' /\ RestInv'
  BY <1>0, <1>1, <1>6, <1>9, NothingComes
<1>11. QED
  BY <1>6, <1>7, <1>8, <1>10 DEF Inv

LEMMA ClearCacheIsKept ==
  ASSUME Inv, ClearCache
  PROVE  Inv'
<1>0. /\ Types /\ CachesApart /\ SizeInv /\ RestInv /\ MarkInv /\ events \in Nat
      /\ blocked \in BOOLEAN /\ uncounted \in BOOLEAN
  BY DEF Inv, Types
<1>1. PICK left :
        /\ dir' = Without(dir, Files(dir) \ left)
        /\ blocked' = (blocked /\ left # {})
        /\ Event(cache = "transcoding" \/ left # {})
        /\ \/ /\ cache = "transcoding" /\ web
              /\ size' = [size EXCEPT !["web"] = IF left = {} THEN 0 ELSE @]
              /\ UNCHANGED <<in_use, uncounted>>
           \/ /\ size' = [size EXCEPT !["media"] = IF left = {} THEN 0 ELSE @]
              /\ in_use' = IF left = {} THEN {} ELSE in_use
              /\ uncounted' = (uncounted /\ left # {})
        /\ UNCHANGED <<cache, limit, web, task>>
  BY DEF ClearCache
<1>2. /\ Directory(dir') /\ Files(dir)' \subseteq Files(dir)
      /\ NoMore(dir, dir')
      /\ left = {} => Files(dir)' = {} /\ NoBytes(dir')
  BY <1>0, <1>1, Cleared
<1>3. blocked' \in BOOLEAN /\ (~ blocked' => ~ blocked \/ left = {}) /\ events' \in Nat
  BY <1>0, <1>1, EventCounts, Zenon
<1>4. /\ size["media"] \in 0 .. SizeMod - 1 /\ size["web"] \in 0 .. SizeMod - 1
      /\ DOMAIN size = {"media", "web"}
  BY <1>0 DEF Types
<1>5. /\ size' \in [{"media", "web"} -> 0 .. SizeMod - 1]
      /\ size'["web"] = 0 \/ size'["web"] = size["web"]
      /\ size'["media"] = size["media"] \/ (left = {} /\ size'["media"] = 0)
      /\ in_use' \subseteq in_use /\ (left # {} => in_use' = in_use)
  BY <1>1, <1>4, Constant
<1>6. /\ uncounted' \in BOOLEAN /\ (left # {} => uncounted' = uncounted)
      /\ ~ uncounted' => ~ uncounted \/ size'["media"] = 0
  <2>1. CASE UNCHANGED uncounted
    BY <1>0, <2>1
  <2>2. CASE /\ size' = [size EXCEPT !["media"] = IF left = {} THEN 0 ELSE @]
             /\ uncounted' = (uncounted /\ left # {})
    <3>1. left = {} => size'["media"] = 0
      BY <1>4, <2>2
    <3>2. QED
      BY <1>0, <2>2, <3>1, Zenon
  <2>3. QED
    BY <1>1, <2>1, <2>2
<1>7. Types'
  <2>1. \A u \in Tasks : TaskFits(u)'
    BY <1>0, <1>1 DEF Types, TaskFits
  <2>2. QED
    BY <1>0, <1>1, <1>2, <1>3, <1>5, <1>6, <2>1 DEF Types
<1>8. CachesApart'
  BY <1>0, <1>1, <1>5 DEF CachesApart
<1>9. SizeInv'
  <2>1. CASE left = {}
    <3>1. Bytes(dir', DOMAIN dir'.bytes) = 0
      BY <1>2, <2>1, BytesOfNone
    <3>2. ASSUME ~ uncounted' PROVE size'["media"] \in Nat /\ size'["media"] < SizeMod - MaxCounted
      <4>1. CASE size'["media"] = 0
        BY <4>1, Constant
      <4>2. CASE ~ uncounted /\ size'["media"] = size["media"]
        BY <1>0, <1>4, <4>2, Constant DEF SizeInv
      <4>3. QED
        BY <1>5, <1>6, <3>2, <4>1, <4>2
    <3>3. QED
      BY <3>1, <3>2 DEF SizeInv
  <2>2. CASE left # {}
    BY <1>0, <1>2, <1>5, <1>6, <1>7, <2>2, SizeStays
  <2>3. QED
    BY <2>1, <2>2
<1>10. Before
  BY <1>2, <1>3, <1>5, <1>6 DEF Before
<1>11. MarkInv' /\ RestInv'
  BY <1>0, <1>1, <1>7, <1>10, NothingComes
<1>12. QED
  BY <1>7, <1>8, <1>9, <1>11 DEF Inv

\* Nothing is removed when nothing is needed.
LEMMA NothingNeeded ==
  ASSUME NEW d, Directory(d), NEW marked, NEW needed \in Int, needed <= 0
  PROVE  Oldest(d, marked, needed) = {}
<1>1. ASSUME NEW n \in Files(d) PROVE ~ (Bytes(d, Older(d, n) \ marked) < needed)
  <2>1. Older(d, n) \ marked \subseteq Files(d)
    BY DEF Older
  <2>2. Bytes(d, Older(d, n) \ marked) \in Nat
    BY <2>1, SizesOfFiles
  <2>3. QED
    BY <2>2
<1>2. QED
  BY <1>1 DEF Oldest

\* What a change of the limit leaves: by the object "media", then by the other one.
LEMMA ChangeLimitLeaves ==
  ASSUME Inv, NEW new \in Limits, ChangeLimit(new)
  PROVE  \E stuck, media, both :
           /\ Directory(media.dir) /\ Files(media.dir) \subseteq Files(dir)
           /\ Files(dir) \cap in_use \subseteq Files(media.dir)
           /\ \A n \in Files(media.dir) : media.dir.bytes[n] = dir.bytes[n]
           /\ Bytes(dir, Files(dir)) <= size["media"] =>
                Bytes(media.dir, Files(media.dir)) <= media.size /\ media.size <= size["media"]
           /\ \/ Files(media.dir) \subseteq in_use \cup stuck
              \/ Bytes(media.dir, Files(media.dir)) <= Bytes(dir, Files(dir)) - (size["media"] - new)
           /\ Directory(both.dir) /\ Files(both.dir) \subseteq Files(media.dir)
           /\ \A n \in Files(both.dir) : both.dir.bytes[n] = media.dir.bytes[n]
           /\ ~ web => Files(both.dir) = Files(media.dir) /\ both.size = 0
           /\ media.size \in 0 .. SizeMod - 1 /\ both.size \in 0 .. SizeMod - 1
           /\ limit' = new /\ dir' = both.dir
           /\ size' = [media |-> media.size, web |-> both.size]
           /\ UNCHANGED <<cache, in_use, web, task, uncounted>>
           /\ blocked' \in BOOLEAN /\ (~ blocked' => ~ blocked /\ stuck = {})
           /\ events' \in Nat
<1>0. /\ Types /\ CachesApart /\ Directory(dir) /\ new \in Nat /\ blocked \in BOOLEAN
      /\ size["media"] \in 0 .. SizeMod - 1 /\ size["web"] \in 0 .. SizeMod - 1 /\ events \in Nat
  BY Constant DEF Inv, Types
<1> DEFINE M(stuck) == RemoveOldest(dir, size["media"], in_use \cup stuck, size["media"] - new)
           B(stuck) == RemoveOldest(M(stuck).dir, size["web"], stuck, size["web"] - new)
<1>1. PICK stuck :
        /\ limit' = new /\ dir' = B(stuck).dir
        /\ size' = [media |-> M(stuck).size, web |-> B(stuck).size]
        /\ blocked' = (blocked \/ stuck # {})
        /\ Event(stuck # {} \/ B(stuck).dir # M(stuck).dir)
        /\ UNCHANGED <<cache, in_use, web, task, uncounted>>
  BY Zenon DEF ChangeLimit
<1>2. PICK media : media = RemoveOldest(dir, size["media"], in_use \cup stuck, size["media"] - new)
  OBVIOUS
<1>3. PICK both : both = RemoveOldest(media.dir, size["web"], stuck, size["web"] - new)
  OBVIOUS
<1>4. both = B(stuck)
  BY <1>2, <1>3, Zenon
<1>5. /\ limit' = new /\ dir' = both.dir
      /\ size' = [media |-> media.size, web |-> both.size]
      /\ UNCHANGED <<cache, in_use, web, task, uncounted>>
      /\ blocked' = (blocked \/ stuck # {})
      /\ Event(stuck # {} \/ both.dir # media.dir)
  BY <1>1, <1>2, <1>4, Zenon
<1> HIDE DEF B
<1>6. size["media"] - new \in Int /\ size["web"] - new \in Int
  BY <1>0, Constant
<1>7. /\ Directory(media.dir) /\ Files(media.dir) \subseteq Files(dir)
      /\ Files(dir) \cap (in_use \cup stuck) \subseteq Files(media.dir)
      /\ media.size \in 0 .. SizeMod - 1
      /\ \A n \in Files(media.dir) : media.dir.bytes[n] = dir.bytes[n]
      /\ Bytes(dir, Files(dir)) <= size["media"] =>
           Bytes(media.dir, Files(media.dir)) <= media.size /\ media.size <= size["media"]
      /\ \/ Files(media.dir) \subseteq in_use \cup stuck
         \/ Bytes(media.dir, Files(media.dir)) <= Bytes(dir, Files(dir)) - (size["media"] - new)
  <2>1. PICK spared : spared = in_use \cup stuck
    OBVIOUS
  <2>2. PICK needed \in Int : needed = size["media"] - new
    BY <1>6
  <2>3. media = RemoveOldest(dir, size["media"], spared, needed)
    BY <1>2, <2>1, <2>2
  <2> HIDE DEF M
  <2>4. /\ Directory(media.dir) /\ Files(media.dir) \subseteq Files(dir)
        /\ Files(dir) \cap spared \subseteq Files(media.dir)
        /\ media.size \in 0 .. SizeMod - 1
        /\ \A n \in Files(media.dir) : media.dir.bytes[n] = dir.bytes[n]
        /\ Bytes(dir, Files(dir)) <= size["media"] =>
             Bytes(media.dir, Files(media.dir)) <= media.size /\ media.size <= size["media"]
        /\ \/ Files(media.dir) \subseteq spared
           \/ Bytes(media.dir, Files(media.dir)) <= Bytes(dir, Files(dir)) - needed
    BY <1>0, <2>3, RemoveOldestLeaves
  <2>5. QED
    BY <2>1, <2>2, <2>4
<1> HIDE DEF M
<1>8. /\ Directory(both.dir) /\ Files(both.dir) \subseteq Files(media.dir)
      /\ both.size \in 0 .. SizeMod - 1
      /\ \A n \in Files(both.dir) : both.dir.bytes[n] = media.dir.bytes[n]
  BY <1>0, <1>3, <1>6, <1>7, RemoveOldestLeaves
<1>9. ASSUME ~ web PROVE Files(both.dir) = Files(media.dir) /\ both.size = 0
  <2>1. size["web"] = 0
    BY <1>0, <1>9 DEF CachesApart
  <2>2. Oldest(media.dir, stuck, size["web"] - new) = {}
    BY <1>0, <1>6, <1>7, <2>1, NothingNeeded
  <2>3. both.dir = Without(media.dir, {}) /\ both.size = Minus(size["web"], Bytes(media.dir, {}))
    BY <1>3, <2>2 DEF RemoveOldest
  <2>4. Files(both.dir) = Files(media.dir)
    <3>1. PICK d : d = media.dir
      OBVIOUS
    <3>2. Directory(d)
      BY <1>7, <3>1
    <3>3. Files(Without(d, {})) = Files(d) \ {}
      BY <3>2, WithoutIsADirectory
    <3>4. both.dir = Without(d, {})
      BY <2>3, <3>1
    <3>5. Files(both.dir) = Files(d)
      BY <3>3, <3>4
    <3>6. QED
      BY <3>1, <3>5
  <2>5. 0 - 0 \in 0 .. SizeMod - 1 /\ 0 - 0 \in Int
    BY Constant
  <2>6. both.size = (0 - 0) % SizeMod
    BY <2>1, <2>3, BytesOfNone DEF Minus
  <2>7. QED
    BY <2>4, <2>5, <2>6, Modulus
<1>10. blocked' \in BOOLEAN /\ (~ blocked' => ~ blocked /\ stuck = {}) /\ events' \in Nat
  <2>1. events' \in Nat
    BY <1>0, <1>5, EventCounts
  <2>2. QED
    BY <1>0, <1>5, <2>1, Zenon
<1>11. Files(dir) \cap in_use \subseteq Files(media.dir)
  BY <1>7
<1>12. QED
  BY <1>5, <1>7, <1>8, <1>9, <1>10, <1>11

LEMMA ChangeLimitIsKept ==
  ASSUME Inv, NEW new \in Limits, ChangeLimit(new)
  PROVE  Inv'
<1>0. /\ Types /\ CachesApart /\ SizeInv /\ RestInv /\ MarkInv
      /\ Directory(dir) /\ new \in Nat
      /\ size["media"] \in 0 .. SizeMod - 1 /\ size["web"] \in 0 .. SizeMod - 1
  BY Constant DEF Inv, Types
<1>1. PICK stuck, media, both :
           /\ Directory(media.dir) /\ Files(media.dir) \subseteq Files(dir)
           /\ Files(dir) \cap in_use \subseteq Files(media.dir)
           /\ \A n \in Files(media.dir) : media.dir.bytes[n] = dir.bytes[n]
           /\ Bytes(dir, Files(dir)) <= size["media"] =>
                Bytes(media.dir, Files(media.dir)) <= media.size /\ media.size <= size["media"]
           /\ \/ Files(media.dir) \subseteq in_use \cup stuck
              \/ Bytes(media.dir, Files(media.dir)) <= Bytes(dir, Files(dir)) - (size["media"] - new)
           /\ Directory(both.dir) /\ Files(both.dir) \subseteq Files(media.dir)
           /\ \A n \in Files(both.dir) : both.dir.bytes[n] = media.dir.bytes[n]
           /\ ~ web => Files(both.dir) = Files(media.dir) /\ both.size = 0
           /\ media.size \in 0 .. SizeMod - 1 /\ both.size \in 0 .. SizeMod - 1
           /\ limit' = new /\ dir' = both.dir
           /\ size' = [media |-> media.size, web |-> both.size]
           /\ UNCHANGED <<cache, in_use, web, task, uncounted>>
           /\ blocked' \in BOOLEAN /\ (~ blocked' => ~ blocked /\ stuck = {})
           /\ events' \in Nat
  BY ChangeLimitLeaves
<1>2. /\ Directory(dir)' /\ Files(dir)' = Files(both.dir) /\ Files(dir)' \subseteq Files(dir)
      /\ size' \in [{"media", "web"} -> 0 .. SizeMod - 1]
      /\ size'["media"] = media.size /\ size'["web"] = both.size
      /\ NoMore(dir, dir')
  BY <1>1 DEF NoMore
<1>3. Types'
  <2>1. \A u \in Tasks : TaskFits(u)'
    BY <1>0, <1>1 DEF Types, TaskFits
  <2>2. QED
    BY <1>0, <1>1, <1>2, <2>1 DEF Types
<1>4. CachesApart'
  BY <1>0, <1>1, <1>2 DEF CachesApart
<1>5. /\ Bytes(both.dir, Files(both.dir)) <= Bytes(media.dir, Files(media.dir))
      /\ Bytes(both.dir, Files(both.dir)) \in Nat /\ Bytes(media.dir, Files(media.dir)) \in Nat
  <2>1. PICK m : m = media.dir
    OBVIOUS
  <2>2. PICK b : b = both.dir
    OBVIOUS
  <2>3. Directory(m) /\ Directory(b) /\ NoMore(m, b)
    BY <1>1, <2>1, <2>2 DEF NoMore
  <2>4. QED
    BY <2>1, <2>2, <2>3, NoMoreBytes
<1>6. Bytes(dir, Files(dir)) \in Nat
  BY <1>0, SizesOfFiles
<1>7. SizeInv'
  <2>1. ASSUME ~ uncounted
        PROVE  Bytes(both.dir, Files(both.dir)) <= media.size /\ media.size < SizeMod - MaxCounted
    BY <1>0, <1>1, <1>5, <2>1, Constant DEF SizeInv
  <2>2. QED
    BY <1>1, <1>2, <2>1 DEF SizeInv
<1>8. MarkInv'
  <2>1. Before
    BY <1>1, <1>2 DEF Before
  <2>2. QED
    BY <1>0, <1>1, <1>3, <2>1, NothingComes
<1>9. RestInv'
  <2>1. PICK S : S = Rest'
    OBVIOUS
  <2>2. S \subseteq Files(both.dir) /\ S \cap in_use = {}
    BY <1>1, <1>2, <2>1 DEF Rest
  <2>3. ASSUME ~ uncounted', ~ blocked' PROVE Bytes(both.dir, S) <= new
    <3>1. CASE Files(media.dir) \subseteq in_use \cup stuck
      <4>1. S = {}
        BY <1>1, <2>2, <2>3, <3>1
      <4>2. QED
        BY <1>0, <4>1, BytesOfNone
    <3>2. CASE Bytes(media.dir, Files(media.dir)) <= Bytes(dir, Files(dir)) - (size["media"] - new)
      <4>1. Bytes(dir, Files(dir)) <= size["media"]
        BY <1>0, <1>1, <2>3 DEF SizeInv
      <4>2. Bytes(both.dir, S) <= Bytes(both.dir, Files(both.dir)) /\ Bytes(both.dir, S) \in Nat
        BY <1>1, <2>2, SizesOfFiles
      <4>3. QED
        BY <1>0, <1>5, <1>6, <3>2, <4>1, <4>2, Constant
    <3>3. QED
      BY <1>1, <3>1, <3>2
  <2>4. RestInv' <=> (~ uncounted' /\ ~ blocked' => Bytes(dir', S) <= limit')
    BY <2>1 DEF RestInv
  <2>5. QED
    BY <1>1, <2>3, <2>4
<1>10. QED
  BY <1>3, <1>4, <1>7, <1>8, <1>9 DEF Inv

\* What room is made for a stream, and what is left.
MakesRoom(s, temp, stuck, after) ==
  \E left, freed \in Nat :
    /\ Bytes(after.dir, Files(after.dir) \ {temp}) = left
    /\ left + freed <= Bytes(dir, Files(dir))
    /\ stuck = {} => freed >= Needed(SizeOf[s])
    /\ after.size = size["media"] - freed

\* A stream that fits and of which the temporary file is not removed.
LEMMA StreamFits ==
  ASSUME Inv, NEW s \in Sources, SizeOf[s] <= limit, cache = "thumbnails",
         Bytes(dir, Files(dir)) <= size["media"],
         NEW temp \in Temps, NEW stuck,
         NEW after, after = EnforceSizeLimit(With(dir, temp, SizeOf[s]), SizeOf[s], stuck),
         temp \in Files(after.dir)
  PROVE  MakesRoom(s, temp, stuck, after)
<1> DEFINE d == With(dir, temp, SizeOf[s])
           G == Oldest(d, stuck, Needed(SizeOf[s]))
           old == Files(dir) \ {temp}
<1>0. /\ Directory(dir) /\ size["media"] \in 0 .. SizeMod - 1 /\ limit \in Nat /\ in_use = {}
      /\ SizeOf[s] \in Nat \ {0}
  BY Constant DEF Inv, Types, CachesApart
<1>1. /\ Directory(d) /\ Files(d) = old \cup {temp}
      /\ \A n \in old : d.bytes[n] = dir.bytes[n]
  BY <1>0, WithIsADirectory
<1> HIDE DEF d
<1>2. Needed(SizeOf[s]) \in Int
  BY <1>0, Constant DEF Needed
<1>3. after.dir = Without(d, G) /\ after.size = Minus(size["media"], Bytes(d, G))
  <2>1. in_use \cup stuck = stuck
    BY <1>0
  <2>2. after = [dir |-> RemoveOldest(d, size["media"], stuck, Needed(SizeOf[s])).dir,
                 size |-> RemoveOldest(d, size["media"], stuck, Needed(SizeOf[s])).size,
                 in_use |-> in_use]
    BY <2>1 DEF EnforceSizeLimit, Needed, d
  <2>3. QED
    BY <2>2 DEF RemoveOldest
<1>4. /\ G \subseteq Files(d) \ stuck
      /\ G = Files(d) \ stuck \/ Bytes(d, G) >= Needed(SizeOf[s])
  BY <1>1, <1>2, OldestFrees
<1> HIDE DEF G
<1>5. /\ Files(after.dir) = Files(d) \ G
      /\ \A n \in Files(d) \ G : after.dir.bytes[n] = d.bytes[n]
  <2>1. PICK e : e = after.dir
    OBVIOUS
  <2>2. Files(e) = Files(d) \ G /\ \A n \in Files(d) \ G : e.bytes[n] = d.bytes[n]
    BY <1>1, <1>3, <2>1, WithoutIsADirectory
  <2>3. QED
    BY <2>1, <2>2
<1>6. temp \notin G /\ G \subseteq old /\ (stuck = {} => Bytes(d, G) >= Needed(SizeOf[s]))
  BY <1>1, <1>4, <1>5
<1>7. PICK freed \in Nat : freed = Bytes(dir, G)
  BY <1>0, <1>6, SizesOfFiles
<1>8. PICK left \in Nat : left = Bytes(dir, old \ G)
  BY <1>0, <1>6, SizesOfFiles
<1>9. left + freed <= Bytes(dir, Files(dir)) /\ Bytes(dir, Files(dir)) \in Nat
  <2>1. Bytes(dir, old) = Bytes(dir, G) + Bytes(dir, old \ G) /\ Bytes(dir, old) <= Bytes(dir, Files(dir))
    <3>1. PICK O : O = old
      OBVIOUS
    <3>2. O \subseteq Files(dir) /\ G \subseteq O
      BY <1>6, <3>1
    <3>3. Bytes(dir, O) = Bytes(dir, G) + Bytes(dir, O \ G)
      BY <1>0, <3>2, FewerBytes
    <3>4. Bytes(dir, O) <= Bytes(dir, Files(dir))
      BY <1>0, <3>2, FewerBytes
    <3>5. QED
      BY <3>1, <3>3, <3>4
  <2>2. Bytes(dir, Files(dir)) \in Nat
    BY <1>0, SizesOfFiles
  <2>3. QED
    BY <1>7, <1>8, <2>1, <2>2
<1>10. Bytes(d, G) = freed
  <2>1. \A n \in G : d.bytes[n] = dir.bytes[n]
    BY <1>1, <1>6
  <2>2. QED
    BY <1>7, <2>1, BytesSame
<1>11. Bytes(after.dir, Files(after.dir) \ {temp}) = left
  <2>1. Files(after.dir) \ {temp} = old \ G
    BY <1>0, <1>1, <1>5
  <2>2. \A n \in old \ G : after.dir.bytes[n] = dir.bytes[n]
    BY <1>1, <1>5
  <2>3. Bytes(after.dir, old \ G) = Bytes(dir, old \ G)
    BY <2>2, BytesSame
  <2>4. QED
    BY <1>8, <2>1, <2>3
<1>12. after.size = size["media"] - freed
  <2>1. size["media"] - freed \in 0 .. SizeMod - 1
    BY <1>0, <1>7, <1>8, <1>9, Constant
  <2>2. QED
    BY <1>3, <1>10, <2>1, Modulus DEF Minus
<1>13. stuck = {} => freed >= Needed(SizeOf[s])
  BY <1>6, <1>10
<1>14. QED
  BY <1>9, <1>11, <1>12, <1>13 DEF MakesRoom

\* What saveStreamToCache leaves when it gets as far as making room.
LEMMA WrittenLeaves ==
  ASSUME Inv, NEW s \in Sources, StreamIsWritten(s)
  PROVE  \E stuck, after :
           /\ after = EnforceSizeLimit(With(dir, TempOf[NameOf[s]], SizeOf[s]), SizeOf[s], stuck)
           /\ in_use' = after.in_use /\ events' \in Nat
           /\ blocked' \in BOOLEAN /\ uncounted' \in BOOLEAN
           /\ ~ blocked' => stuck = {} /\ (~ blocked \/ SizeOf[s] > limit)
           /\ \/ /\ TempOf[NameOf[s]] \in Files(after.dir) /\ ~ Throws(SizeOf[s], stuck)
                 /\ dir' = With(Without(after.dir, {TempOf[NameOf[s]]}), NameOf[s], SizeOf[s])
                 /\ size' = [size EXCEPT !["media"] = Plus(after.size, SizeOf[s])]
                 /\ ~ uncounted' => ~ uncounted \/ (SizeOf[s] > limit /\ stuck = {})
              \/ /\ dir' = after.dir /\ size' = [size EXCEPT !["media"] = after.size]
                 /\ ~ uncounted' => /\ ~ uncounted \/ stuck = {}
                                    /\ TempOf[NameOf[s]] \notin Files(after.dir) /\ SizeOf[s] > limit
<1>0. Types /\ SizeOf[s] \in Nat /\ events \in Nat /\ limit \in Nat
  BY Constant DEF Inv, Types
<1> DEFINE temp == TempOf[NameOf[s]]
           room(stuck) == EnforceSizeLimit(With(dir, temp, SizeOf[s]), SizeOf[s], stuck)
           stays(stuck) == temp \in Files(room(stuck).dir)
<1>1. PICK stuck :
        /\ in_use' = room(stuck).in_use
        /\ blocked' = Blocked(SizeOf[s], stuck)
        /\ \/ /\ stays(stuck) /\ ~ Throws(SizeOf[s], stuck)
              /\ dir' = With(Without(room(stuck).dir, {temp}), NameOf[s], SizeOf[s])
              /\ size' = [size EXCEPT !["media"] = Plus(room(stuck).size, SizeOf[s])]
              /\ uncounted' = Uncounted(SizeOf[s], stuck)
              /\ Event(stuck # {})
           \/ /\ dir' = room(stuck).dir /\ size' = [size EXCEPT !["media"] = room(stuck).size]
              /\ uncounted' = (Uncounted(SizeOf[s], stuck) \/ stays(stuck) \/ SizeOf[s] <= limit)
              /\ Event(stuck # {} \/ stays(stuck))
  BY Zenon DEF StreamIsWritten
<1>2. PICK after : after = room(stuck)
  OBVIOUS
<1>3. /\ Uncounted(SizeOf[s], stuck) \in BOOLEAN /\ Blocked(SizeOf[s], stuck) \in BOOLEAN
      /\ ~ Uncounted(SizeOf[s], stuck) => ~ uncounted \/ (SizeOf[s] > limit /\ stuck = {})
      /\ ~ Blocked(SizeOf[s], stuck) => stuck = {} /\ (~ blocked \/ SizeOf[s] > limit)
  BY <1>0, Histories
<1> HIDE DEF room
<1>4. CASE /\ stays(stuck) /\ ~ Throws(SizeOf[s], stuck)
           /\ dir' = With(Without(room(stuck).dir, {temp}), NameOf[s], SizeOf[s])
           /\ size' = [size EXCEPT !["media"] = Plus(room(stuck).size, SizeOf[s])]
           /\ uncounted' = Uncounted(SizeOf[s], stuck)
           /\ Event(stuck # {})
  <2>1. events' \in Nat
    BY <1>0, <1>4, EventCounts
  <2>2. after = EnforceSizeLimit(With(dir, temp, SizeOf[s]), SizeOf[s], stuck)
    BY <1>2 DEF room
  <2>3. QED
    BY <1>1, <1>2, <1>3, <1>4, <2>1, <2>2
<1>5. CASE /\ dir' = room(stuck).dir /\ size' = [size EXCEPT !["media"] = room(stuck).size]
           /\ uncounted' = (Uncounted(SizeOf[s], stuck) \/ stays(stuck) \/ SizeOf[s] <= limit)
           /\ Event(stuck # {} \/ stays(stuck))
  <2>1. events' \in Nat
    BY <1>0, <1>5, EventCounts
  <2>2. after = EnforceSizeLimit(With(dir, temp, SizeOf[s]), SizeOf[s], stuck)
    BY <1>2 DEF room
  <2>3. (SizeOf[s] <= limit) \in BOOLEAN /\ (~ (SizeOf[s] <= limit) => SizeOf[s] > limit)
    BY <1>0
  <2>4. /\ uncounted' \in BOOLEAN
        /\ ~ uncounted' => ~ Uncounted(SizeOf[s], stuck) /\ ~ stays(stuck) /\ SizeOf[s] > limit
    BY <1>3, <1>5, <2>3, Zenon
  <2>5. QED
    BY <1>1, <1>2, <1>3, <1>5, <2>1, <2>2, <2>4
<1>6. QED
  BY <1>1, <1>4, <1>5

\* What saveStreamToCache leaves when it does not get that far.
LEMMA BrokenStreamIsKept ==
  ASSUME Inv, NEW s \in Sources, SaveStreamToCache(s), StreamBreaks(s)
  PROVE  Inv'
<1> DEFINE temp == TempOf[NameOf[s]]
<1>0. /\ Types /\ CachesApart /\ SizeInv /\ RestInv /\ MarkInv
      /\ Directory(dir) /\ temp \in Temps /\ events \in Nat /\ uncounted \in BOOLEAN
      /\ SizeOf[s] \in Nat /\ Files(dir) \subseteq Names \cup Temps
  BY Constant DEF Inv, Types
<1>1. /\ \/ dir' \in {dir, Without(dir, {temp})} /\ UNCHANGED uncounted
         \/ \E b \in 0 .. SizeOf[s] :
              dir' = With(dir, temp, b) /\ uncounted' = (uncounted \/ b > 0)
      /\ Event(TRUE)
      /\ UNCHANGED <<size, in_use, blocked, cache, limit, web, task>>
  BY DEF StreamBreaks, SaveStreamToCache
<1>2. /\ Directory(dir') /\ Files(dir)' \subseteq Files(dir) \cup {temp}
      /\ uncounted' \in BOOLEAN /\ (~ uncounted' => ~ uncounted /\ NoMore(dir, dir'))
  <2>1. CASE dir' = dir /\ UNCHANGED uncounted
    BY <1>0, <2>1 DEF NoMore
  <2>2. CASE dir' = Without(dir, {temp}) /\ UNCHANGED uncounted
    BY <1>0, <2>2, WithoutIsADirectory, WithoutIsNoMore
  <2>3. ASSUME NEW b \in 0 .. SizeOf[s], dir' = With(dir, temp, b),
               uncounted' = (uncounted \/ b > 0)
        PROVE  /\ Directory(dir') /\ Files(dir)' \subseteq Files(dir) \cup {temp}
               /\ uncounted' \in BOOLEAN /\ (~ uncounted' => ~ uncounted /\ NoMore(dir, dir'))
    <3>1. b \in Nat /\ (b > 0) \in BOOLEAN /\ (~ (b > 0) => b = 0)
      BY <1>0
    <3>2. uncounted' \in BOOLEAN /\ (~ uncounted' => ~ uncounted /\ b = 0)
      BY <1>0, <2>3, <3>1, Zenon
    <3>3. Directory(dir') /\ Files(dir)' = Files(dir) \cup {temp}
      BY <1>0, <2>3, <3>1, WithIsADirectory
    <3>4. b = 0 => NoMore(dir, dir')
      BY <1>0, <2>3, WithNothingIsNoMore
    <3>5. QED
      BY <3>2, <3>3, <3>4
  <2>4. QED
    BY <1>1, <2>1, <2>2, <2>3
<1>3. events' \in Nat
  BY <1>0, <1>1, EventCounts
<1>4. Types'
  <2>1. \A u \in Tasks : TaskFits(u)'
    BY <1>0, <1>1 DEF Types, TaskFits
  <2>2. QED
    BY <1>0, <1>1, <1>2, <1>3, <2>1 DEF Types
<1>5. CachesApart' /\ Before
  BY <1>0, <1>1, <1>2 DEF CachesApart, Before
<1>6. SizeInv'
  BY <1>0, <1>1, <1>2, <1>4, SizeStays
<1>7. MarkInv' /\ RestInv'
  BY <1>0, <1>1, <1>4, <1>5, NothingComes
<1>8. QED
  BY <1>4, <1>5, <1>6, <1>7 DEF Inv

LEMMA SaveStreamIsKept ==
  ASSUME Inv, NEW s \in Sources, SaveStreamToCache(s), StreamIsWritten(s)
  PROVE  Inv'
<1> DEFINE name == NameOf[s]
           temp == TempOf[name]
           d == With(dir, temp, SizeOf[s])
<1>0. /\ Types /\ CachesApart /\ SizeInv /\ RestInv /\ MarkInv
      /\ Directory(dir) /\ Files(dir) \subseteq Names \cup Temps /\ name \in Names /\ temp \in Temps
      /\ SizeOf[s] \in Nat \ {0} /\ SizeOf[s] + 2 * MaxCounted < SizeMod
      /\ limit \in Nat /\ size["media"] \in 0 .. SizeMod - 1 /\ size["web"] \in 0 .. SizeMod - 1
      /\ DOMAIN size = {"media", "web"} /\ uncounted \in BOOLEAN /\ blocked \in BOOLEAN
  BY Constant DEF Inv, Types
<1>1. PICK stuck, after :
           /\ after = EnforceSizeLimit(d, SizeOf[s], stuck)
           /\ in_use' = after.in_use /\ events' \in Nat
           /\ blocked' \in BOOLEAN /\ uncounted' \in BOOLEAN
           /\ ~ blocked' => stuck = {} /\ (~ blocked \/ SizeOf[s] > limit)
           /\ \/ /\ temp \in Files(after.dir) /\ ~ Throws(SizeOf[s], stuck)
                 /\ dir' = With(Without(after.dir, {temp}), name, SizeOf[s])
                 /\ size' = [size EXCEPT !["media"] = Plus(after.size, SizeOf[s])]
                 /\ ~ uncounted' => ~ uncounted \/ (SizeOf[s] > limit /\ stuck = {})
              \/ /\ dir' = after.dir /\ size' = [size EXCEPT !["media"] = after.size]
                 /\ ~ uncounted' => /\ ~ uncounted \/ stuck = {}
                                    /\ temp \notin Files(after.dir) /\ SizeOf[s] > limit
  BY WrittenLeaves
<1>2. cache = "thumbnails" /\ LittleDrift /\ UNCHANGED <<cache, limit, web, task>>
  BY DEF SaveStreamToCache
<1>3. in_use = {} /\ (\A t \in Tasks : task[t] = Idle)
  BY <1>0, <1>2 DEF CachesApart
<1>4. /\ Directory(d) /\ Files(d) = Files(dir) \cup {temp}
      /\ \A n \in Files(dir) \ {temp} : d.bytes[n] = dir.bytes[n]
  BY <1>0, WithIsADirectory
<1>5. Leaves(d, SizeOf[s], stuck, after)
  <2> HIDE DEF d
  <2>1. QED
    BY <1>0, <1>1, <1>4, EnforceSizeLimitLeaves
<1>6. /\ Directory(after.dir) /\ Files(after.dir) \subseteq Files(d)
      /\ after.size \in 0 .. SizeMod - 1
      /\ \A n \in Files(after.dir) : after.dir.bytes[n] = d.bytes[n]
      /\ SizeOf[s] > limit /\ stuck # {} => after.size = size["media"]
      /\ SizeOf[s] > limit /\ stuck = {} => Files(after.dir) = {} /\ after.size = 0
  BY <1>5 DEF Leaves
<1>7. in_use' = {}
  <2>1. CASE SizeOf[s] <= limit
    BY <1>1, <1>3, <1>5, <2>1 DEF Leaves
  <2>2. CASE SizeOf[s] > limit /\ stuck = {}
    BY <1>1, <1>3, <1>5, <2>2 DEF Leaves
  <2>3. CASE SizeOf[s] > limit /\ stuck # {}
    BY <1>1, <1>3, <1>5, <2>3 DEF Leaves
  <2>4. QED
    BY <1>0, <2>1, <2>2, <2>3
<1> HIDE DEF d
<1>8. \A t \in Tasks : TaskFits(t)'
  BY <1>0, <1>2 DEF Types, TaskFits
<1>9. MarkInv'
  BY <1>2, <1>3 DEF MarkInv, Idle
<1>10. CASE /\ temp \in Files(after.dir) /\ ~ Throws(SizeOf[s], stuck)
            /\ dir' = With(Without(after.dir, {temp}), name, SizeOf[s])
            /\ size' = [size EXCEPT !["media"] = Plus(after.size, SizeOf[s])]
            /\ ~ uncounted' => ~ uncounted \/ (SizeOf[s] > limit /\ stuck = {})
  <2>1. PICK e : e = Without(after.dir, {temp})
    OBVIOUS
  <2>2. /\ Directory(e) /\ Files(e) = Files(after.dir) \ {temp}
        /\ \A n \in Files(e) : e.bytes[n] = after.dir.bytes[n]
    <3>1. PICK a : a = after.dir
      OBVIOUS
    <3>2. Directory(a) /\ e = Without(a, {temp})
      BY <1>6, <2>1, <3>1
    <3>3. /\ Directory(e) /\ Files(e) = Files(a) \ {temp}
          /\ \A n \in Files(a) \ {temp} : e.bytes[n] = a.bytes[n]
      BY <3>2, WithoutIsADirectory
    <3>4. QED
      BY <3>1, <3>3
  <2>3. Directory(dir)' /\ Files(dir)' = Files(e) \cup {name} /\ Files(dir)' \subseteq Names \cup Temps
    <3>1. Directory(dir)' /\ Files(dir)' = Files(e) \cup {name}
      <4>1. PICK f : f = With(e, name, SizeOf[s])
        OBVIOUS
      <4>2. Directory(f) /\ Files(f) = Files(e) \cup {name}
        BY <1>0, <2>2, <4>1, WithIsADirectory
      <4>3. dir' = f
        BY <1>10, <2>1, <4>1
      <4>4. QED
        BY <4>2, <4>3
    <3>2. QED
      BY <1>0, <1>4, <1>6, <2>2, <3>1
  <2>4. Plus(after.size, SizeOf[s]) \in 0 .. SizeMod - 1
    BY <1>0, <1>6, Modulus, Constant DEF Plus
  <2>5. /\ size' \in [{"media", "web"} -> 0 .. SizeMod - 1]
        /\ size'["media"] = Plus(after.size, SizeOf[s]) /\ size'["web"] = size["web"]
    BY <1>0, <1>10, <2>4 DEF Types
  <2>6. Types'
    BY <1>0, <1>1, <1>2, <1>7, <1>8, <2>3, <2>5 DEF Types
  <2>7. CachesApart'
    BY <1>0, <1>2, <1>7, <2>5 DEF CachesApart
  <2>8. SizeOf[s] <= limit
    BY <1>0, <1>6, <1>10 DEF Throws
  <2>9. ASSUME ~ uncounted'
        PROVE  /\ Bytes(dir', DOMAIN dir'.bytes) <= size'["media"] /\ size'["media"] < SizeMod - MaxCounted
               /\ Bytes(dir', DOMAIN dir'.bytes) \in Nat
               /\ ~ blocked' => Bytes(dir', DOMAIN dir'.bytes) <= limit
    <3>0. ~ uncounted
      BY <1>0, <1>10, <2>8, <2>9
    <3>1. /\ Bytes(dir, Files(dir)) <= size["media"] /\ size["media"] <= MaxCounted
          /\ Bytes(dir, Files(dir)) \in Nat
      BY <1>0, <1>2, <3>0, SizesOfFiles, Constant DEF SizeInv, LittleDrift
    <3>2. ASSUME ~ blocked' PROVE Bytes(dir, Files(dir)) <= limit /\ stuck = {}
      <4>1. Rest = Files(dir)
        BY <1>0, <1>3, Constant DEF Rest, Hands, Hand, Idle
      <4>2. Bytes(dir, Rest) <= limit /\ stuck = {}
        BY <1>0, <1>1, <2>8, <3>0, <3>2 DEF RestInv
      <4>3. QED
        BY <4>1, <4>2
    <3>3. PICK left, freed \in Nat :
             /\ Bytes(after.dir, Files(after.dir) \ {temp}) = left
             /\ left + freed <= Bytes(dir, Files(dir))
             /\ stuck = {} => freed >= Needed(SizeOf[s])
             /\ after.size = size["media"] - freed
      <4>1. after = EnforceSizeLimit(With(dir, temp, SizeOf[s]), SizeOf[s], stuck)
        BY <1>1 DEF d
      <4>2. /\ temp \in Temps /\ temp \in Files(after.dir) /\ cache = "thumbnails"
            /\ Bytes(dir, Files(dir)) <= size["media"]
        BY <1>0, <1>2, <1>10, <3>1
      <4> HIDE DEF temp
      <4>3. MakesRoom(s, temp, stuck, after)
        BY <2>8, <4>1, <4>2, StreamFits
      <4>4. QED
        BY <4>3 DEF MakesRoom
    <3>4. Bytes(e, Files(e)) = left
      BY <2>2, <3>3, BytesSame
    <3>5. Bytes(dir', DOMAIN dir'.bytes) <= left + SizeOf[s] /\ Bytes(dir', DOMAIN dir'.bytes) \in Nat
      BY <1>0, <1>10, <2>1, <2>2, <3>4, WithAdds
    <3>6. size'["media"] = size["media"] - freed + SizeOf[s]
      <4>1. after.size + SizeOf[s] \in 0 .. SizeMod - 1
        BY <1>0, <1>6, <3>1, <3>3, Constant
      <4>2. QED
        BY <2>5, <3>3, <4>1, Modulus DEF Plus
    <3>7. ASSUME ~ blocked' PROVE Bytes(dir', DOMAIN dir'.bytes) <= limit
      <4>1. CASE size["media"] < limit
        BY <1>0, <3>1, <3>2, <3>3, <3>5, <3>7, <4>1, Constant DEF Needed
      <4>2. CASE ~ (size["media"] < limit)
        BY <1>0, <3>1, <3>2, <3>3, <3>5, <3>7, <4>2, Constant DEF Needed
      <4>3. QED
        BY <4>1, <4>2
    <3>8. QED
      BY <1>0, <3>1, <3>3, <3>5, <3>6, <3>7, Constant
  <2>10. SizeInv'
    BY <2>9 DEF SizeInv
  <2>11. RestInv'
    <3>1. PICK S : S = Rest'
      OBVIOUS
    <3>2. S \subseteq Files(dir)'
      BY <3>1 DEF Rest
    <3>3. /\ Bytes(dir', S) <= Bytes(dir', DOMAIN dir'.bytes)
          /\ Bytes(dir', S) \in Nat /\ Bytes(dir', DOMAIN dir'.bytes) \in Nat
      BY <2>3, <3>2, SizesOfFiles
    <3>4. RestInv' <=> (~ uncounted' /\ ~ blocked' => Bytes(dir', S) <= limit')
      BY <3>1 DEF RestInv
    <3>5. QED
      BY <1>0, <1>2, <2>9, <3>3, <3>4
  <2>12. QED
    BY <1>9, <2>6, <2>7, <2>10, <2>11 DEF Inv
<1>11. CASE /\ dir' = after.dir /\ size' = [size EXCEPT !["media"] = after.size]
            /\ ~ uncounted' => /\ ~ uncounted \/ stuck = {}
                               /\ temp \notin Files(after.dir) /\ SizeOf[s] > limit
  <2>1. /\ size' \in [{"media", "web"} -> 0 .. SizeMod - 1]
        /\ size'["media"] = after.size /\ size'["web"] = size["web"]
    BY <1>0, <1>6, <1>11 DEF Types
  <2>2. Directory(dir') /\ Files(dir)' \subseteq Names \cup Temps
    BY <1>0, <1>4, <1>6, <1>11
  <2>3. Types'
    BY <1>0, <1>1, <1>2, <1>7, <1>8, <2>1, <2>2 DEF Types
  <2>4. CachesApart'
    BY <1>0, <1>2, <1>7, <2>1 DEF CachesApart
  <2>5. ASSUME ~ uncounted', stuck = {}
        PROVE  Files(dir)' = {} /\ NoBytes(dir') /\ size'["media"] = 0
    <3>1. Files(dir)' = {} /\ size'["media"] = 0
      BY <1>6, <1>11, <2>1, <2>5
    <3>2. QED
      BY <3>1 DEF NoBytes
  <2>6. SizeInv'
    <3>1. CASE uncounted'
      BY <3>1 DEF SizeInv
    <3>2. CASE ~ uncounted' /\ stuck = {}
      <4>1. Bytes(dir', DOMAIN dir'.bytes) = 0
        BY <2>5, <3>2, BytesOfNone
      <4>2. QED
        BY <2>5, <3>2, <4>1, Constant DEF SizeInv
    <3>3. CASE ~ uncounted' /\ stuck # {}
      <4>1. ~ uncounted /\ NoMore(dir, dir') /\ size'["media"] = size["media"]
        BY <1>4, <1>6, <1>11, <2>1, <3>3 DEF NoMore
      <4>2. QED
        BY <1>0, <2>3, <4>1, SizeStays
    <3>4. QED
      BY <3>1, <3>2, <3>3
  <2>7. Before
    BY <1>1, <2>5 DEF Before
  <2>8. RestInv'
    BY <1>0, <1>2, <2>3, <2>7, NothingComes
  <2>9. QED
    BY <1>9, <2>3, <2>4, <2>6, <2>8 DEF Inv
<1>12. QED
  BY <1>1, <1>10, <1>11

-----------------------------------------------------------------------------
(* The theorems.                                                            *)

LEMMA InvIsKept ==
  ASSUME Inv, [Next]_vars
  PROVE  Inv'
<1>1. CASE UNCHANGED vars
  BY <1>1 DEF vars, Inv, Types, TaskFits, CachesApart, SizeInv, RestInv, Rest, Hands, Hand, MarkInv
<1>2. ASSUME NEW t \in Tasks, NEW s \in Sources, CopyToCache(t, s) PROVE Inv'
  BY <1>2, CopyIsKept
<1>3. ASSUME NEW t \in Tasks, Transcode(t) PROVE Inv'
  BY <1>3, TranscodeIsKept
<1>4. ASSUME NEW t \in Tasks, DropRaw(t) PROVE Inv'
  BY <1>4, DropRawIsKept
<1>5. ASSUME NEW t \in Tasks, MarkFileInUse(t) PROVE Inv'
  BY <1>5, MarkFileInUseIsKept
<1>6. ASSUME NEW t \in Tasks, MarkFileNotInUse(t) PROVE Inv'
  BY <1>6, MarkFileNotInUseIsKept
<1>7. ASSUME NEW t \in Tasks, Throw(t) PROVE Inv'
  BY <1>7, ThrowIsKept
<1>8. ASSUME NEW t \in Tasks, DeleteCopy(t) PROVE Inv'
  BY <1>8, DeleteCopyIsKept
<1>9. ASSUME NEW s \in Sources, SaveStreamToCache(s) PROVE Inv'
  BY <1>9, SaveStreamIsKept, BrokenStreamIsKept DEF SaveStreamToCache
<1>10. ASSUME NEW new \in Limits, ChangeLimit(new) PROVE Inv'
  BY <1>10, ChangeLimitIsKept
<1>11. QED
  BY <1>1, <1>2, <1>3, <1>4, <1>5, <1>6, <1>7, <1>8, <1>9, <1>10,
     StartWebCacheIsKept, ClearCacheIsKept DEF Next

LEMMA InvHolds == Spec => []Inv
<1>1. Init => Inv
  BY InvAtTheStart
<1>2. Inv /\ [Next]_vars => Inv'
  BY InvIsKept
<1>3. QED
  BY <1>1, <1>2, PTL DEF Spec

\* The directory holds files with names of their own, the size stays an unsigned number,
\* and tasks are at one of their steps, for any sequence of copies, evictions, deletions,
\* clearings and limits, complete or broken off.
THEOREM TypesAreKept == Spec => []TypeOK
<1>1. Inv => TypeOK
  <2>1. ASSUME Inv
        PROVE  \A t \in Tasks : /\ task[t].pc \in {"idle", "transcode", "drop", "mark", "process", "delete"}
                                /\ {task[t].copy, task[t].name} \subseteq Names \cup {None}
    BY <2>1 DEF Inv, Types, TaskFits
  <2>2. QED
    BY <2>1 DEF Inv, Types, Directory, TypeOK
<1>2. QED
  BY <1>1, InvHolds, PTL

\* The size that the limit is compared with never understates the directory, as long as
\* no transcoded file and no part of a file or stream came uncounted: what an eviction,
\* a deletion or a clearing takes off is no more than what it removed, also when some
\* removals fail, and what is added is counted, overwritten files twice.
THEOREM SizeAlwaysCovers == Spec => []SizeCoversTheFiles
<1>1. Inv => SizeCoversTheFiles
  BY DEF Inv, SizeInv, SizeCoversTheFiles
<1>2. QED
  BY <1>1, InvHolds, PTL

\* What no task works on and no mark protects fits the limit, though evictions pass
\* over marked files and a file that loses its mark is not looked at again; unless the
\* count is broken, or a file stayed that should be gone.
THEOREM RestAlwaysFits == Spec => []RestFitsTheLimit
<1>1. Inv => RestFitsTheLimit
  BY DEF Inv, RestInv, Rest, Hands, Hand, RestFitsTheLimit
<1>2. QED
  BY <1>1, InvHolds, PTL

\* A step other than those excepted leaves a marked file alone.
LEMMA MarkedStay ==
  ASSUME Inv, [Next]_vars, NEW name \in in_use \cap in_use',
         ~ (\E t \in Tasks, s \in Sources : SizeOf[s] > limit /\ CopyToCache(t, s)),
         ~ StartWebCache, ~ ClearCache, ~ (web /\ limit' # limit)
  PROVE  Named(dir, name) = Named(dir, name)'
<1>0. Types /\ CachesApart /\ Directory(dir) /\ name \in Names /\ limit \in Nat
  BY Constant DEF Inv, Types
<1>1. CASE UNCHANGED vars
  BY <1>1 DEF vars, Named
<1>2. ASSUME NEW other, other # name, NEW b \in Nat, dir' = With(dir, other, b)
      PROVE  Named(dir, name) = Named(dir, name)'
  <2>1. /\ Files(dir)' = Files(dir) \cup {other}
        /\ \A n \in Files(dir) \ {other} : dir'.bytes[n] = dir.bytes[n]
    BY <1>0, <1>2, WithIsADirectory
  <2>2. QED
    BY <1>2, <2>1 DEF Named
<1>3. ASSUME NEW t \in Tasks, NEW s \in Sources, CopyToCache(t, s)
      PROVE  Named(dir, name) = Named(dir, name)'
  <2>1. SizeOf[s] \in Nat /\ SizeOf[s] <= limit
    BY <1>0, <1>3, Constant
  <2>2. PICK stuck, after :
           /\ after = EnforceSizeLimit(dir, SizeOf[s], stuck)
           /\ in_use' = after.in_use
           /\ \/ dir' = after.dir
              \/ NameOf[s] \notin after.in_use /\ dir' = Without(after.dir, {NameOf[s]})
              \/ NameOf[s] \notin after.in_use /\ \E b \in Nat : dir' = With(after.dir, NameOf[s], b)
    BY <1>3, <2>1, CopyLeaves
  <2>3. Leaves(dir, SizeOf[s], stuck, after)
    BY <1>0, <2>1, <2>2, EnforceSizeLimitLeaves
  <2>4. /\ name \in Files(after.dir) <=> name \in Files(dir)
        /\ name \in Files(after.dir) => after.dir.bytes[name] = dir.bytes[name]
        /\ Directory(after.dir)
    BY <2>1, <2>3 DEF Leaves
  <2>5. PICK d : d = after.dir
    OBVIOUS
  <2>6. /\ Directory(d) /\ (name \in Files(d) <=> name \in Files(dir))
        /\ name \in Files(d) => d.bytes[name] = dir.bytes[name]
    BY <2>4, <2>5
  <2>7. CASE dir' = d
    BY <2>6, <2>7 DEF Named
  <2>8. ASSUME NameOf[s] # name, dir' = Without(d, {NameOf[s]})
        PROVE  Named(dir, name) = Named(dir, name)'
    <3>1. /\ Files(dir)' = Files(d) \ {NameOf[s]}
          /\ \A n \in Files(d) \ {NameOf[s]} : dir'.bytes[n] = d.bytes[n]
      BY <2>6, <2>8, WithoutIsADirectory
    <3>2. QED
      BY <2>6, <2>8, <3>1 DEF Named
  <2>9. ASSUME NameOf[s] # name, NEW b \in Nat, dir' = With(d, NameOf[s], b)
        PROVE  Named(dir, name) = Named(dir, name)'
    <3>1. /\ Files(dir)' = Files(d) \cup {NameOf[s]}
          /\ \A n \in Files(d) \ {NameOf[s]} : dir'.bytes[n] = d.bytes[n]
      BY <2>6, <2>9, WithIsADirectory
    <3>2. QED
      BY <2>6, <2>9, <3>1 DEF Named
  <2>10. NameOf[s] \notin after.in_use => NameOf[s] # name
    BY <2>2
  <2>11. QED
    BY <2>2, <2>5, <2>7, <2>8, <2>9, <2>10
<1>4. ASSUME NEW t \in Tasks, Transcode(t)
      PROVE  Named(dir, name) = Named(dir, name)'
  <2>1. \/ dir' = dir
        \/ \E jpeg \in UniqueFilename, b \in Nat : dir' = With(dir, jpeg, b)
    <3>1. JpegSize \in Nat /\ 0 .. JpegSize \subseteq Nat
      BY Constant
    <3>2. QED
      BY <1>4, <3>1 DEF Transcode
  <2>2. name \notin UniqueFilename
    BY DEF UniqueFilename
  <2>3. CASE dir' = dir
    BY <2>3 DEF Named
  <2>4. QED
    BY <1>2, <2>1, <2>2, <2>3
<1>5. ASSUME NEW other, Delete(other)
      PROVE  Named(dir, name) = Named(dir, name)'
  <2>1. CASE dir' = dir
    BY <2>1 DEF Named
  <2>2. CASE other \notin in_use /\ dir' = Without(dir, {other})
    <3>1. /\ Files(dir)' = Files(dir) \ {other}
          /\ \A n \in Files(dir) \ {other} : dir'.bytes[n] = dir.bytes[n]
      BY <1>0, <2>2, WithoutIsADirectory
    <3>2. name # other
      BY <2>2
    <3>3. QED
      BY <3>1, <3>2 DEF Named
  <2>3. QED
    BY <1>5, <2>1, <2>2 DEF Delete
<1>6. ASSUME NEW t \in Tasks, DropRaw(t) \/ DeleteCopy(t)
      PROVE  Named(dir, name) = Named(dir, name)'
  BY <1>5, <1>6 DEF DropRaw, DeleteCopy
<1>7. ASSUME NEW t \in Tasks, MarkFileInUse(t) \/ MarkFileNotInUse(t) \/ Throw(t)
      PROVE  Named(dir, name) = Named(dir, name)'
  BY <1>7 DEF MarkFileInUse, MarkFileNotInUse, Throw, Named
<1>8. ASSUME NEW s \in Sources, SaveStreamToCache(s)
      PROVE  Named(dir, name) = Named(dir, name)'
  BY <1>0, <1>8 DEF SaveStreamToCache, CachesApart
<1>9. ASSUME NEW new \in Limits, ChangeLimit(new)
      PROVE  Named(dir, name) = Named(dir, name)'
  <2>1. ~ web
    BY <1>9 DEF ChangeLimit
  <2>2. PICK media, both :
          /\ Files(media.dir) \subseteq Files(dir) /\ Files(dir) \cap in_use \subseteq Files(media.dir)
          /\ \A n \in Files(media.dir) : media.dir.bytes[n] = dir.bytes[n]
          /\ Files(both.dir) = Files(media.dir)
          /\ \A n \in Files(both.dir) : both.dir.bytes[n] = media.dir.bytes[n]
          /\ dir' = both.dir
    BY <1>9, <2>1, ChangeLimitLeaves
  <2>3. QED
    BY <2>2 DEF Named
<1>10. QED
  BY <1>1, <1>3, <1>4, <1>6, <1>7, <1>8, <1>9 DEF Next

\* While a file is marked as in use, copies that fit and evictions of its own object
\* leave it alone, also when they fail; a directory that is cleared and the second
\* object do not.
THEOREM MarkedFilesAlwaysStay == Spec => MarkedFilesStay
<1>1. Inv /\ [Next]_vars
        => [ \/ \A name \in in_use \cap in_use' : Named(dir, name) = Named(dir, name)'
             \/ \E t \in Tasks, s \in Sources : SizeOf[s] > limit /\ CopyToCache(t, s)
             \/ StartWebCache \/ ClearCache \/ (web /\ limit' # limit) ]_vars
  BY MarkedStay
<1>2. QED
  BY <1>1, InvHolds, PTL DEF Spec, MarkedFilesStay

\* With an exact size, the eviction that makes room for a stream stops before the
\* file of the stream itself, which is the newest.
LEMMA StreamStays ==
  ASSUME Inv, NEW s \in Sources, SaveStreamToCache(s), events' = events, SizeOf[s] <= limit,
         TempOf[NameOf[s]] \notin Files(dir), size["media"] = Bytes(dir, Files(dir))
  PROVE  NameOf[s] \in Files(dir)'
<1> DEFINE temp == TempOf[NameOf[s]]
           d == With(dir, temp, SizeOf[s])
           old == Files(dir)
<1>0. /\ Directory(dir) /\ temp \notin old /\ events \in Nat
      /\ limit \in Nat /\ size["media"] \in Nat /\ in_use = {}
      /\ SizeOf[s] \in Nat \ {0}
  BY Constant DEF Inv, Types, CachesApart, SaveStreamToCache
<1>1. /\ Directory(d) /\ Files(d) = old \cup {temp}
      /\ \A n \in old : d.bytes[n] = dir.bytes[n]
      /\ \A n \in old : <<n, temp>> \in d.older
  BY <1>0, WithIsADirectory
<1>2. StreamIsWritten(s)
  BY <1>0, EventCounts DEF SaveStreamToCache, StreamBreaks
<1>3. PICK stuck :
        \/ /\ dir' = With(Without(EnforceSizeLimit(d, SizeOf[s], stuck).dir, {temp}), NameOf[s], SizeOf[s])
           /\ Event(stuck # {})
        \/ Event(stuck # {} \/ temp \in Files(EnforceSizeLimit(d, SizeOf[s], stuck).dir))
  BY <1>2, Zenon DEF StreamIsWritten
<1>4. /\ stuck = {}
      /\ \/ dir' = With(Without(EnforceSizeLimit(d, SizeOf[s], stuck).dir, {temp}), NameOf[s], SizeOf[s])
         \/ temp \notin Files(EnforceSizeLimit(d, SizeOf[s], stuck).dir)
  <2>1. CASE /\ dir' = With(Without(EnforceSizeLimit(d, SizeOf[s], stuck).dir, {temp}), NameOf[s], SizeOf[s])
             /\ Event(stuck # {})
    BY <1>0, <2>1, EventCounts
  <2>2. CASE Event(stuck # {} \/ temp \in Files(EnforceSizeLimit(d, SizeOf[s], stuck).dir))
    BY <1>0, <2>2, EventCounts
  <2>3. QED
    BY <1>3, <2>1, <2>2
<1>5. PICK after : after = EnforceSizeLimit(d, SizeOf[s], {})
  OBVIOUS
<1>6. \/ dir' = With(Without(after.dir, {temp}), NameOf[s], SizeOf[s])
      \/ temp \notin Files(after.dir)
  BY <1>4, <1>5
<1> HIDE DEF d
<1> DEFINE G == Oldest(d, {}, Needed(SizeOf[s]))
<1>7. after.dir = Without(d, G)
  <2>1. in_use \cup {} = {}
    BY <1>0
  <2>2. QED
    BY <1>0, <1>5, <2>1 DEF EnforceSizeLimit, Needed, RemoveOldest
<1>8. Bytes(d, Older(d, temp) \ {}) = size["media"]
  <2>1. <<temp, temp>> \notin d.older
    BY <1>1 DEF Directory
  <2>2. Older(d, temp) \ {} = old
    BY <1>0, <1>1, <2>1 DEF Older
  <2>3. Bytes(d, old) = Bytes(dir, old)
    BY <1>1, BytesSame
  <2>4. QED
    BY <2>2, <2>3
<1>9. temp \notin G
  <2>1. Needed(SizeOf[s]) <= size["media"]
    BY <1>0 DEF Needed
  <2>2. Needed(SizeOf[s]) \in Int
    BY <1>0 DEF Needed
  <2>3. ~ (Bytes(d, Older(d, temp) \ {}) < Needed(SizeOf[s]))
    BY <1>0, <1>8, <2>1, <2>2
  <2>4. QED
    BY <2>3 DEF Oldest
<1> HIDE DEF G
<1>10. temp \in Files(after.dir)
  <2>1. PICK e : e = Without(d, G)
    OBVIOUS
  <2>2. Directory(e) /\ Files(e) = Files(d) \ G
    BY <1>1, <2>1, WithoutIsADirectory
  <2>3. QED
    BY <1>1, <1>7, <1>9, <2>1, <2>2
<1>11. PICK e : e = Without(after.dir, {temp})
  OBVIOUS
<1>12. DOMAIN With(e, NameOf[s], SizeOf[s]).bytes = Files(Without(e, {NameOf[s]})) \cup {NameOf[s]}
  BY DEF With
<1>13. QED
  BY <1>6, <1>10, <1>11, <1>12

\* saveStreamToCache never fails for a stream that fits because of its own eviction, up
\* to the last byte, if the size is that of the directory and the file system does not
\* fail.
THEOREM FittingStreamIsAlwaysSaved == Spec => FittingStreamIsSaved
<1>1. Inv /\ [Next]_vars
        => [ \A s \in Sources :
               (/\ SaveStreamToCache(s) /\ events' = events
                /\ SizeOf[s] <= limit /\ TempOf[NameOf[s]] \notin Files(dir)
                /\ size["media"] = Bytes(dir, Files(dir)))
                 => NameOf[s] \in Files(dir)' ]_vars
  BY StreamStays
<1>2. QED
  BY <1>1, InvHolds, PTL DEF Spec, FittingStreamIsSaved
=============================================================================
