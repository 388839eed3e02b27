------------------------------ MODULE DiskCache ------------------------------
(***************************************************************************)
(* DiskCache (disk_cache.cpp), a directory with a limit on its size, and    *)
(* those who use it.  There are two such caches, which share nothing:       *)
(*                                                                         *)
(* "transcoding": tasks of MediaProcessor copy a file into the directory,   *)
(* transcode raw files inside it, mark the result as in use, process it,    *)
(* unmark and delete it (media_processor.cpp).  The web server has a        *)
(* DiskCache object of its own on the same directory, with its own size and *)
(* its own, always empty, set of files in use.                              *)
(*                                                                         *)
(* "thumbnails": thumbnails are saved from streams and stay until evicted;  *)
(* the web server and the tasks share one object.                           *)
(*                                                                         *)
(* Every operation holds the mutex of its object and is one step; tasks     *)
(* interleave between operations.  A file has the base name of its source.  *)
(*                                                                         *)
(* The file system fails: files cannot be removed, a copy, a stream or a    *)
(* transcoded file breaks off after some bytes, a name cannot be given.     *)
(* The operation then ends half-way and what it wrote stays, uncounted.     *)
(***************************************************************************)
EXTENDS Integers, FiniteSets

CONSTANTS
  Sources, NameOf, SizeOf,  \* what is cached, with base names and sizes
  Raw,                      \* the sources that are transcoded first
  JpegSize,                 \* size of a transcoded file
  Tasks,
  Jpegs,                    \* names for transcoded files, each used once at a time
  TempOf,                   \* the name of a stream while it is saved
  None,                     \* no name
  Limits, FirstLimit,       \* values of size_limit_mb, and the one at the start
  SizeMod,                  \* size_t is unsigned; 2^64 in the code
  MaxCounted,               \* bound on how far the size drifts from the directory
  MaxEvents                 \* bound on the steps in which something fails, and on those
                            \* in which files of tasks are removed by the web server's
                            \* object or at the shutdown

Temps == {TempOf[n] : n \in DOMAIN TempOf}
Names == {NameOf[s] : s \in Sources} \cup Jpegs

\* A size that has not drifted stays below 2^64 when a file is added.
ASSUME Sizes ==
  /\ SizeMod \in Nat \ {0} /\ JpegSize \in Nat \ {0} /\ {MaxEvents, MaxCounted} \subseteq Nat
  /\ SizeOf \in [Sources -> Nat \ {0}]
  /\ 2 * MaxCounted < SizeMod /\ \A s \in Sources : SizeOf[s] + 2 * MaxCounted < SizeMod
  /\ Limits \subseteq Nat /\ FirstLimit \in Limits
  /\ DOMAIN TempOf = {NameOf[s] : s \in Sources} /\ Temps \cap Names = {}
  /\ None \notin Names \cup Temps

VARIABLES
  cache,     \* which of the two caches is looked at
  dir,       \* the files of the directory: their sizes, and which is older than which
  size,      \* current_size_bytes_ of the object "media" and the object "web"
  in_use,    \* files_in_use_ of the object "media"
  limit,     \* size_limit_bytes_, of both
  web,       \* the object of the web server exists
  task,
  events,    \* how many steps failed, or removed files of tasks behind their back
  uncounted, \* history: files came or went that the size did not follow
  blocked    \* history: since the directory was last cleared a file stayed that
             \* should be gone, or was too large at the start

vars == <<cache, dir, size, in_use, limit, web, task, events, uncounted, blocked>>

Idle == [pc |-> "idle", copy |-> None, name |-> None]
Goto(t, pc) == task' = [task EXCEPT ![t].pc = pc]

\* Counts a step as an event if it is one.
Event(happens) ==
  IF happens THEN events < MaxEvents /\ events' = events + 1 ELSE UNCHANGED events

-----------------------------------------------------------------------------
(* The directory and its size.                                              *)

Files(d) == DOMAIN d.bytes

\* The sum of the sizes of files, as the number of their bytes.
Bytes(d, names) == Cardinality(UNION {{n} \X (1 .. d.bytes[n]) : n \in names})

Without(d, names) ==
  LET left == Files(d) \ names
  IN  [bytes |-> [n \in left |-> d.bytes[n]], older |-> d.older \cap (left \X left)]

\* A file that is written is the newest one.
With(d, name, bytes) ==
  LET others == Without(d, {name})
  IN  [bytes |-> [n \in Files(others) \cup {name} |-> IF n = name THEN bytes ELSE d.bytes[n]],
       older |-> others.older \cup (Files(others) \X {name})]

Empty == [bytes |-> <<>>, older |-> {}]
Named(d, name) == { d.bytes[n] : n \in Files(d) \cap {name} }
Older(d, n) == { m \in Files(d) : <<m, n>> \in d.older }

\* calculateCacheSize, in size_t.
CacheSize(d) == Bytes(d, Files(d)) % SizeMod

\* Mutant: the size is signed.
MinusSigned(a, b) == a - b
Minus(a, b) == (a - b) % SizeMod

\* Mutant: a file that is added is not counted.
PlusNothing(a, b) == a
Plus(a, b) == (a + b) % SizeMod

\* Mutants of removeOldestFiles: it takes files in use, stops one file too
\* early, goes on until more than enough is free.
OldestInUse(d, spared, needed) ==
  { n \in Files(d) : Bytes(d, Older(d, n)) < needed }
OldestTooFew(d, spared, needed) ==
  { n \in Files(d) \ spared : Bytes(d, (Older(d, n) \cup {n}) \ spared) < needed }
OldestTooMany(d, spared, needed) ==
  { n \in Files(d) \ spared : Bytes(d, Older(d, n) \ spared) <= needed }

\* The files that removeOldestFiles removes: the oldest, until enough is free;
\* it goes past those that are in use, and those whose removal throws.
Oldest(d, spared, needed) ==
  { n \in Files(d) \ spared : Bytes(d, Older(d, n) \ spared) < needed }

RemoveOldest(d, counted, spared, needed) ==
  LET gone == Oldest(d, spared, needed)
  IN  [dir |-> Without(d, gone), size |-> Minus(counted, Bytes(d, gone))]

\* The files that cannot be removed in a step: any, if it may still fail.
Stuck(d) == IF events < MaxEvents THEN SUBSET Files(d) ELSE {{}}

\* What enforceSizeLimit leaves, when the files "stuck" stay although they should
\* go.  A file larger than the limit clears the directory, files in use included;
\* the first one that cannot be removed ends that, and the operation, half-way.
EnforceSizeLimit(d, required, stuck) ==
  LET free == IF size["media"] < limit THEN limit - size["media"] ELSE 0
      room == RemoveOldest(d, size["media"], in_use \cup stuck, required - free)
  IN  IF required <= limit
        THEN [dir |-> room.dir, size |-> room.size, in_use |-> in_use]
        ELSE [dir |-> Without(d, Files(d) \ stuck),
              size |-> IF stuck = {} THEN 0 ELSE size["media"],
              in_use |-> IF stuck = {} THEN {} ELSE in_use]

Throws(required, stuck) == required > limit /\ stuck # {}

\* The histories after it: a directory that is cleared starts anew.
Uncounted(required, stuck) == uncounted /\ (required <= limit \/ stuck # {})
Blocked(required, stuck) == stuck # {} \/ (blocked /\ required <= limit)

-----------------------------------------------------------------------------
(* A task of MediaProcessor.                                                *)

\* Bound: files are added unless the size has drifted further than this.
LittleDrift ==
  size["media"] \in (0 .. MaxCounted) \cup (SizeMod - MaxCounted .. SizeMod)

\* copyToCache: makes room, fails if the name is in use, overwrites what has the
\* name.  If the copy breaks off the old file is there, gone, or replaced by a part.
CopyToCache(t, s) ==
  \E stuck \in Stuck(dir) :
    LET after == EnforceSizeLimit(dir, SizeOf[s], stuck)
        name == NameOf[s]
        refused == Throws(SizeOf[s], stuck) \/ name \in after.in_use
    IN  /\ cache = "transcoding" /\ task[t] = Idle /\ LittleDrift
        /\ in_use' = after.in_use
        /\ blocked' = Blocked(SizeOf[s], stuck)
        /\ \/ /\ refused
              /\ dir' = after.dir /\ size' = [size EXCEPT !["media"] = after.size]
              /\ uncounted' = Uncounted(SizeOf[s], stuck)
              /\ Event(stuck # {})
              /\ UNCHANGED task
           \/ /\ ~ refused
              /\ dir' = With(after.dir, name, SizeOf[s])
              /\ size' = [size EXCEPT !["media"] = Plus(after.size, SizeOf[s])]
              /\ uncounted' = Uncounted(SizeOf[s], stuck)
              /\ Event(stuck # {})
              /\ task' = [task EXCEPT ![t] =
                   IF s \in Raw THEN [pc |-> "transcode", copy |-> name, name |-> name]
                                ELSE [pc |-> "mark", copy |-> None, name |-> name]]
           \/ /\ ~ refused
              /\ \/ /\ dir' \in {after.dir, Without(after.dir, {name})}
                    /\ uncounted' = Uncounted(SizeOf[s], stuck)
                 \/ \E b \in 0 .. SizeOf[s] :
                      /\ dir' = With(after.dir, name, b)
                      /\ uncounted' = (Uncounted(SizeOf[s], stuck) \/ b > 0)
              /\ size' = [size EXCEPT !["media"] = after.size]
              /\ Event(TRUE)
              /\ UNCHANGED task
        /\ UNCHANGED <<cache, limit, web>>

\* A name that no file, mark or task has: the code's are unique.
UniqueFilename ==
  Jpegs \ (in_use \cup Files(dir) \cup {task[u].name : u \in Tasks})

\* TranscodeToFile writes a file with a unique name past the cache; it fails
\* if the copy is gone or cannot be read, or if it breaks off after some bytes.
Transcode(t) ==
  /\ task[t].pc = "transcode"
  /\ \/ /\ task[t].copy \in Files(dir)
        /\ \E jpeg \in UniqueFilename :
             \/ /\ dir' = With(dir, jpeg, JpegSize)
                /\ uncounted' = TRUE
                /\ task' = [task EXCEPT ![t].pc = "drop", ![t].name = jpeg]
                /\ UNCHANGED events
             \/ /\ \E b \in 0 .. JpegSize :
                     dir' = With(dir, jpeg, b) /\ uncounted' = (uncounted \/ b > 0)
                /\ Goto(t, "delete")
                /\ Event(TRUE)
     \/ Goto(t, "delete") /\ UNCHANGED <<dir, uncounted, events>>
  /\ UNCHANGED <<cache, size, in_use, limit, web, blocked>>

\* deleteFromCacheImmediately; a file that cannot be removed stays, and counts.
Delete(name) ==
  LET gone == Bytes(dir, Files(dir) \cap {name})
  IN  IF name \in in_use
        THEN UNCHANGED <<dir, size, blocked, events>>
        ELSE \/ /\ dir' = Without(dir, {name})
                /\ size' = [size EXCEPT !["media"] = IF @ >= gone THEN @ - gone ELSE 0]
                /\ UNCHANGED <<blocked, events>>
             \/ /\ name \in Files(dir)
                /\ Event(TRUE) /\ blocked' = TRUE
                /\ UNCHANGED <<dir, size>>

\* The copy is deleted, the task goes on with the transcoded file.
DropRaw(t) ==
  /\ task[t].pc = "drop"
  /\ Delete(task[t].copy)
  /\ task' = [task EXCEPT ![t].pc = "mark", ![t].copy = None]
  /\ UNCHANGED <<cache, in_use, limit, web, uncounted>>

MarkFileInUse(t) ==
  /\ task[t].pc = "mark"
  /\ in_use' = in_use \cup {task[t].name}
  /\ Goto(t, "process")
  /\ UNCHANGED <<cache, dir, size, limit, web, events, uncounted, blocked>>

\* The image has been processed; markFileNotInUse.
MarkFileNotInUse(t) ==
  /\ task[t].pc = "process"
  /\ in_use' = in_use \ {task[t].name}
  /\ Goto(t, "delete")
  /\ UNCHANGED <<cache, dir, size, limit, web, events, uncounted, blocked>>

\* An exception while the image is processed: mark and file stay.  One around the
\* transcoding leaves files that nobody will delete.
Throw(t) ==
  /\ task[t].pc \in {"transcode", "drop", "process"}
  /\ Event(TRUE)
  /\ task' = [task EXCEPT ![t] = Idle]
  /\ blocked' = (blocked \/ task[t].pc # "process")
  /\ UNCHANGED <<cache, dir, size, in_use, limit, web, uncounted>>

DeleteCopy(t) ==
  /\ task[t].pc = "delete"
  /\ Delete(task[t].name)
  /\ task' = [task EXCEPT ![t] = Idle]
  /\ UNCHANGED <<cache, in_use, limit, web, uncounted>>

-----------------------------------------------------------------------------
(* Thumbnails.                                                              *)

\* The temporary file cannot be created or, empty, is removed; or some bytes of
\* the stream stay in it.
StreamBreaks(s) ==
  LET temp == TempOf[NameOf[s]]
  IN  /\ \/ dir' \in {dir, Without(dir, {temp})} /\ UNCHANGED uncounted
         \/ \E b \in 0 .. SizeOf[s] :
              dir' = With(dir, temp, b) /\ uncounted' = (uncounted \/ b > 0)
      /\ Event(TRUE)
      /\ UNCHANGED <<size, in_use, blocked>>

\* The stream is written, room is made, the file gets its name.  The temporary file
\* takes part in the eviction, although it was not counted; the call fails if it is
\* gone, if the eviction throws, or if it cannot be renamed.
StreamIsWritten(s) ==
  LET name == NameOf[s]
      temp == TempOf[name]
      written == With(dir, temp, SizeOf[s])
  IN  \E stuck \in Stuck(written) :
        LET after == EnforceSizeLimit(written, SizeOf[s], stuck)
            stays == temp \in Files(after.dir)
        IN  /\ in_use' = after.in_use
            /\ blocked' = Blocked(SizeOf[s], stuck)
            /\ \/ /\ stays /\ ~ Throws(SizeOf[s], stuck)
                  /\ dir' = With(Without(after.dir, {temp}), name, SizeOf[s])
                  /\ size' = [size EXCEPT !["media"] = Plus(after.size, SizeOf[s])]
                  /\ uncounted' = Uncounted(SizeOf[s], stuck)
                  /\ Event(stuck # {})
               \/ /\ dir' = after.dir /\ size' = [size EXCEPT !["media"] = after.size]
                  /\ uncounted' = (Uncounted(SizeOf[s], stuck) \/ stays \/ SizeOf[s] <= limit)
                  /\ Event(stuck # {} \/ stays)

SaveStreamToCache(s) ==
  /\ cache = "thumbnails" /\ LittleDrift /\ NameOf[s] \notin in_use
  /\ StreamBreaks(s) \/ StreamIsWritten(s)
  /\ UNCHANGED <<cache, limit, web, task>>

-----------------------------------------------------------------------------
(* The web server and the configuration.                                    *)

\* The web server creates its own object for the directory, which is cleared,
\* also half-way, or kept as configured.  Tasks may be at work by then.
StartWebCache ==
  /\ cache = "transcoding" /\ ~ web
  /\ web' = TRUE
  /\ \E left \in Stuck(dir) \cup {Files(dir)} :
       /\ dir' = Without(dir, Files(dir) \ left)
       /\ blocked' = (blocked /\ left # {})
       /\ Event(left \notin {{}, Files(dir)})
  /\ size' = [size EXCEPT !["web"] = CacheSize(dir')]
  /\ UNCHANGED <<cache, in_use, limit, task, uncounted>>

\* clearCache by CacheInvalidationHandler, of the objects that the web server has, and
\* by MediaProcessor::shutdown, of the object "media" while tasks may be at work.  If a
\* file cannot be removed the call ends; the files it has not come to are left.
ClearCache ==
  \E left \in Stuck(dir) :
    LET SizeOfCleared(object) == [size EXCEPT ![object] = IF left = {} THEN 0 ELSE @]
    IN  /\ dir' = Without(dir, Files(dir) \ left)
        /\ blocked' = (blocked /\ left # {})
        /\ Event(cache = "transcoding" \/ left # {})
        /\ \/ /\ cache = "transcoding" /\ web
              /\ size' = SizeOfCleared("web")
              /\ UNCHANGED <<in_use, uncounted>>
           \/ /\ size' = SizeOfCleared("media")
              /\ in_use' = IF left = {} THEN {} ELSE in_use
              /\ uncounted' = (uncounted /\ left # {})
        /\ UNCHANGED <<cache, limit, web, task>>

\* onSizeLimitChanged of the object "media", then of the object "web".
ChangeLimit(new) ==
  \E stuck \in Stuck(dir) :
    LET media == RemoveOldest(dir, size["media"], in_use \cup stuck, size["media"] - new)
        both == RemoveOldest(media.dir, size["web"], stuck, size["web"] - new)
    IN  /\ new # limit
        /\ limit' = new
        /\ dir' = both.dir
        /\ size' = [media |-> media.size, web |-> both.size]
        /\ blocked' = (blocked \/ stuck # {})
        /\ Event(stuck # {} \/ both.dir # media.dir)
        /\ UNCHANGED <<cache, in_use, web, task, uncounted>>

\* initialize() finds an empty directory, or what the last run left: a file, perhaps
\* larger than today's limit, or a stream that was not saved.
Init ==
  /\ cache \in {"transcoding", "thumbnails"}
  /\ \/ dir = Empty
     \/ \E s \in Sources : \E n \in {NameOf[s], TempOf[NameOf[s]]} :
          dir = With(Empty, n, SizeOf[s])
  /\ size = [media |-> CacheSize(dir), web |-> 0]
  /\ in_use = {} /\ limit = FirstLimit /\ web = FALSE
  /\ task = [t \in Tasks |-> Idle]
  /\ events = 0 /\ uncounted = FALSE /\ blocked = (size["media"] > limit)

Next ==
  \/ \E t \in Tasks : \/ \E s \in Sources : CopyToCache(t, s)
                      \/ Transcode(t) \/ DropRaw(t) \/ MarkFileInUse(t)
                      \/ MarkFileNotInUse(t) \/ Throw(t) \/ DeleteCopy(t)
  \/ \E s \in Sources : SaveStreamToCache(s)
  \/ StartWebCache \/ ClearCache
  \/ \E new \in Limits : ChangeLimit(new)

Spec == Init /\ [][Next]_vars

-----------------------------------------------------------------------------
\* The types; no two files have one name.
TypeOK ==
  /\ Files(dir) \subseteq Names \cup Temps
  /\ dir = [bytes |-> dir.bytes, older |-> dir.older]
  /\ dir.bytes \in [Files(dir) -> Nat]
  /\ \A m, n \in Files(dir) : <<m, n>> \in dir.older <=> m # n /\ <<n, m>> \notin dir.older
  /\ size \in [{"media", "web"} -> 0 .. SizeMod - 1]
  /\ in_use \subseteq Names /\ limit \in Limits
  /\ {web, uncounted, blocked} \subseteq BOOLEAN
  /\ \A t \in Tasks : /\ task[t].pc \in {"idle", "transcode", "drop", "mark",
                                        "process", "delete"}
                      /\ {task[t].copy, task[t].name} \subseteq Names \cup {None}

\* The size that the limit is compared with never understates the directory,
\* whatever is copied, overwritten, evicted, deleted, cleared by either object,
\* wholly or half-way: what the code counts twice it counts on the safe side, and
\* so does what cannot be removed.  These break it, until the object "media" clears
\* the directory: a transcoded file, or a part of one; a part of a copy; a stream
\* of which the temporary file stays, or is evicted before it was counted.
SizeCoversTheFiles ==
  ~ uncounted => Bytes(dir, Files(dir)) <= size["media"]

\* The limit is kept: files that no task is working on or has left marked fit
\* into it, across evictions that skip files in use and limits that change.  What
\* breaks it is what breaks the count, a file that cannot be removed or that a task
\* leaves by an exception, and one that is too large when the server starts.
RestFitsTheLimit ==
  LET hands == UNION {{task[t].copy, task[t].name} : t \in Tasks}
  IN  ~ uncounted /\ ~ blocked => Bytes(dir, Files(dir) \ (hands \cup in_use)) <= limit

\* A file that is marked stays as it is while it is marked: evictions and copies
\* leave it alone, also when they fail.  What takes it: a directory that is cleared,
\* for a larger file or by a call, and half-way with the marks left; and
\* the web server's object, which does not know the marks.
MarkedFilesStay ==
  [][ \/ \A name \in in_use \cap in_use' : Named(dir, name) = Named(dir, name)'
      \/ \E t \in Tasks, s \in Sources : SizeOf[s] > limit /\ CopyToCache(t, s)
      \/ StartWebCache \/ ClearCache \/ (web /\ limit' # limit) ]_vars

\* Room is made for a stream that fits: with an exact count and no temporary file
\* left by an earlier call, saving it never evicts the stream itself, up to the very
\* last byte, unless the file system fails.
FittingStreamIsSaved ==
  [][ \A s \in Sources :
        (/\ SaveStreamToCache(s) /\ events' = events
         /\ SizeOf[s] <= limit /\ TempOf[NameOf[s]] \notin Files(dir)
         /\ size["media"] = Bytes(dir, Files(dir)))
          => NameOf[s] \in Files(dir)' ]_vars

=============================================================================
