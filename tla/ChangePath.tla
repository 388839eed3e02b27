------------------------------ MODULE ChangePath ------------------------------
(***************************************************************************)
(* FilesService::changeMediaLocationPath (files_service.cpp): the user asks *)
(* the server to move the files of one media location to another root.      *)
(* The call counts the files, verifies a sample of them on disk, moves the  *)
(* rows page by page, each row followed by the rows of the other tables     *)
(* that name the file, and then moves the registration.  Every statement is *)
(* a transaction of its own, so anything may happen between two of them:    *)
(* another call of the same kind (the web server has several threads), a    *)
(* scan (FilesManager::runOnce), a change of the registrations, a statement *)
(* that fails, the end of the process.                                      *)
(*                                                                         *)
(* A path is a pair of a root and a relative path; a row's location_key is  *)
(* the key of the root of its path (both are written by one statement), so  *)
(* it is not kept apart.  Spellings of a root that share a key (slashes,    *)
(* case) are one root.                                                      *)
(***************************************************************************)
EXTENDS Integers, FiniteSets, Sequences, FiniteSetsExt, SequencesExt

CONSTANTS
  Roots,
  Files,         \* relative paths
  OnDisk,        \* the paths that exist
  Home,          \* the root whose files were scanned
  Requests,      \* pairs of an old and a new root that users ask for
  Calls,         \* threads of the web server
  Tables,        \* sequence: the other tables, in the order they are updated
  UniqueTables,  \* those with a key on the path
  BatchSize,     \* 1000 in the code
  SampleSize,
  MaxEvents      \* bound on what happens around the calls: statements that
                 \* fail, ends of the process, registrations that change

ASSUME Bounds == /\ BatchSize \in Nat \ {0} /\ SampleSize \in Nat \ {0}
                 /\ MaxEvents \in Nat

Paths == Roots \X Files
TableNames == {Tables[i] : i \in DOMAIN Tables}

ASSUME Shape == /\ Home \in Roots /\ IsFiniteSet(Files)
                /\ Requests \subseteq Roots \X Roots /\ OnDisk \subseteq Paths
                /\ Tables \in Seq(TableNames) /\ Tables # <<>>
                /\ UniqueTables \subseteq TableNames

VARIABLES
  scanned_files,   \* sequence of paths; the index is the row's id
  data,            \* for each other table the paths it names
  user_settings,   \* the registered roots
  scanRoots,       \* the roots the current scan was given
  call,            \* the calls under way
  events,          \* how much of that there was
  harm             \* history: "data", "place": what happened may have cost
                   \* a file its data in other tables, its registered place

vars == <<scanned_files, data, user_settings, scanRoots, call, events, harm>>

Ids == DOMAIN scanned_files
Root(path) == path[1]
PathsInUse == {scanned_files[id] : id \in Ids}
IdsUnder(root) == {id \in Ids : Root(scanned_files[id]) = root}

Idle == [pc |-> "idle", old |-> Home, new |-> Home, total |-> 0, offset |-> 0,
         page |-> {}, from |-> <<>>, to |-> <<>>, table |-> 1,
         updated |-> 0, failed |-> 0]

Active(c) == call[c].pc # "idle"

-----------------------------------------------------------------------------
(* Helpers for the steps of a call.                                         *)

Goto(c, pc) == call' = [call EXCEPT ![c].pc = pc]
Answer(c) == call' = [call EXCEPT ![c] = Idle]

\* A statement that fails is caught and reported to the caller.
Event == events < MaxEvents /\ events' = events + 1
Fault == Event
NoFault == UNCHANGED events

DB == <<scanned_files, data, user_settings>>

-----------------------------------------------------------------------------
(* The handler.                                                             *)

Ask(c, r) ==
  /\ ~ Active(c)
  /\ call' = [call EXCEPT ![c] = [Idle EXCEPT !.pc = "lookup", !.old = r[1], !.new = r[2]]]
  /\ harm' = IF \E d \in Calls \ {c} : Active(d) /\ call[d].new # r[2] THEN {"data", "place"}
             ELSE IF r[1] = r[2] THEN harm \cup {"place"} ELSE harm
  /\ UNCHANGED <<DB, scanRoots, events>>

\* Is the old root registered?
Lookup(c) ==
  /\ call[c].pc = "lookup"
  /\ \/ /\ call[c].old \in user_settings
        /\ NoFault /\ Goto(c, "count")
     \/ /\ call[c].old \notin user_settings
        /\ NoFault /\ Goto(c, "files")
     \/ Fault /\ Goto(c, "files")
  /\ UNCHANGED <<DB, scanRoots, harm>>

\* Mutant: a root that is not registered is refused, as the document says.
NoFallback(c) ==
  /\ call[c].pc = "files"
  /\ NoFault /\ Answer(c)
  /\ UNCHANGED <<DB, scanRoots, harm>>

\* If not, do rows still name it?
Fallback(c) ==
  /\ call[c].pc = "files"
  /\ \/ IdsUnder(call[c].old) # {} /\ NoFault /\ Goto(c, "adopt")
     \/ IdsUnder(call[c].old) = {} /\ NoFault /\ Answer(c)
     \/ Fault /\ Answer(c)
  /\ UNCHANGED <<DB, scanRoots, harm>>

\* Then it is registered again.
Adopt(c) ==
  /\ call[c].pc = "adopt"
  /\ \/ NoFault /\ user_settings' = user_settings \cup {call[c].old} /\ Goto(c, "count")
     \/ Fault /\ UNCHANGED user_settings /\ Answer(c)
  /\ UNCHANGED <<scanned_files, data, scanRoots, harm>>

IsDirectory(root) == \E path \in OnDisk : Root(path) = root

Count(c) ==
  LET ids == IdsUnder(call[c].old)
  IN  /\ call[c].pc = "count"
      /\ \/ /\ ~ IsDirectory(call[c].new)
            /\ NoFault /\ Answer(c)
         \/ /\ IsDirectory(call[c].new)
            /\ \/ ids = {} /\ NoFault /\ Answer(c)
               \/ ids # {} /\ NoFault
                  /\ call' = [call EXCEPT ![c].pc = "verify", ![c].total = Cardinality(ids)]
               \/ Fault /\ Answer(c)
      /\ UNCHANGED <<DB, scanRoots, harm>>

\* Four in five of a random sample must be found under the new root.
Verified(sample, new) ==
  LET found == {id \in sample : <<new, scanned_files[id][2]>> \in OnDisk}
  IN  sample # {} /\ 5 * Cardinality(found) >= 4 * Cardinality(sample)

Verify(c) ==
  LET ids == IdsUnder(call[c].old)
      size == Min({SampleSize, Cardinality(ids)})
  IN  /\ call[c].pc = "verify"
      /\ \/ /\ \E sample \in kSubset(size, ids) :
                 IF Verified(sample, call[c].new) THEN Goto(c, "page") ELSE Answer(c)
            /\ NoFault
         \/ Fault /\ Answer(c)
      /\ UNCHANGED <<DB, scanRoots, harm>>

\* LIMIT and OFFSET over the rows that have the key now.  The index orders
\* them by the state of the file and then by id; here all have one state.
Rank(ids, id) == Cardinality({before \in ids : before < id})
PageOf(ids, offset) ==
  {<<id, scanned_files[id]>> :
     id \in {i \in ids : Rank(ids, i) \in offset .. offset + BatchSize - 1}}

FetchPage(c) ==
  LET offset == call[c].offset
      page == PageOf(IdsUnder(call[c].old), offset)
  IN  /\ call[c].pc = "page" /\ call[c].page = {}
      /\ \/ /\ offset >= call[c].total \/ page = {}
            /\ NoFault /\ Goto(c, "finish")
         \/ /\ offset < call[c].total /\ page # {}
            /\ NoFault
            /\ call' = [call EXCEPT ![c].page = page, ![c].offset = offset + BatchSize]
         \/ offset < call[c].total /\ Fault /\ Goto(c, "finish")
      /\ harm' = IF offset > 0 /\ offset < call[c].total /\ call[c].updated > 0 THEN harm \cup {"place"} ELSE harm
      /\ UNCHANGED <<DB, scanRoots>>

\* Mutant: the path is not looked up, and has no key of its own.
NeverTaken(id, path) == FALSE

Taken(id, path) == \E other \in Ids \ {id} : scanned_files[other] = path

\* One row: the statement changes path, relative path and key together and
\* fails when another row has the path (which is also tested before).
MoveRow(c) ==
  /\ call[c].pc = "page"
  /\ \E row \in call[c].page :
       LET id == row[1]
           to == <<call[c].new, row[2][2]>>
           page == call[c].page \ {row}
           taken == Taken(id, to)
       IN  \/ /\ ~ taken
              /\ NoFault
              /\ scanned_files' = [scanned_files EXCEPT ![id] = to]
              /\ call' = [call EXCEPT ![c].pc = "data", ![c].page = page,
                             ![c].from = row[2], ![c].to = to, ![c].table = 1,
                             ![c].updated = @ + 1]
           \/ /\ \/ taken /\ NoFault
                 \/ Fault
              /\ call' = [call EXCEPT ![c].page = page, ![c].failed = @ + 1]
              /\ UNCHANGED scanned_files
  /\ UNCHANGED <<data, user_settings, scanRoots, harm>>

\* Mutant: the two paths of the statement are swapped.
RenamedBackwards(table, from, to) ==
  IF to \in data[table] THEN (data[table] \ {to}) \cup {from} ELSE data[table]

\* The other tables follow, one statement each; a failure is only counted.
Renamed(table, from, to) ==
  IF from \in data[table] /\ ~ (table \in UniqueTables /\ to \in data[table])
    THEN (data[table] \ {from}) \cup {to}
    ELSE data[table]

MoveData(c) ==
  LET table == Tables[call[c].table]
      last == call[c].table = Len(Tables)
  IN  /\ call[c].pc = "data"
      /\ \/ /\ NoFault
            /\ data' = [data EXCEPT ![table] = Renamed(table, call[c].from, call[c].to)]
            /\ UNCHANGED harm
         \/ Fault /\ UNCHANGED data /\ harm' = harm \cup {"data"}
      /\ \/ /\ last
            /\ call' = [call EXCEPT ![c].pc = "page", ![c].from = <<>>, ![c].to = <<>>,
                                   ![c].table = 1]
         \/ ~ last /\ call' = [call EXCEPT ![c].table = @ + 1]
      /\ UNCHANGED <<scanned_files, user_settings, scanRoots>>

\* Mutant: a call that moved something has succeeded.
SomeMoved(c) == call[c].updated > 0

Success(c) == call[c].failed = 0

\* The new root is registered if a row was moved; if that fails the call
\* goes on.
Finish(c) ==
  /\ call[c].pc = "finish"
  /\ \/ /\ call[c].updated = 0
        /\ NoFault /\ UNCHANGED <<user_settings, harm>>
        /\ Answer(c)
     \/ /\ call[c].updated > 0
        /\ \/ NoFault /\ UNCHANGED harm /\ user_settings' = user_settings \cup {call[c].new}
           \/ Fault /\ UNCHANGED user_settings /\ harm' = harm \cup {"place"}
        /\ IF Success(c) THEN Goto(c, "remove") ELSE Answer(c)
  /\ UNCHANGED <<scanned_files, data, scanRoots>>

RemoveOld(c) ==
  /\ call[c].pc = "remove"
  /\ \/ NoFault /\ user_settings' = user_settings \ {call[c].old}
     \/ Fault /\ UNCHANGED user_settings
  /\ Answer(c)
  /\ UNCHANGED <<scanned_files, data, scanRoots, harm>>

ServerStep(c) ==
  \/ Lookup(c) \/ Fallback(c) \/ Adopt(c) \/ Count(c) \/ Verify(c)
  \/ FetchPage(c) \/ MoveRow(c) \/ MoveData(c) \/ Finish(c) \/ RemoveOld(c)

-----------------------------------------------------------------------------
(* What goes on beside the calls.                                           *)

\* The registrations change.
Register(root) ==
  /\ Event
  /\ root \notin user_settings
  /\ user_settings' = user_settings \cup {root}
  /\ UNCHANGED <<scanned_files, data, scanRoots, call, harm>>

Deregister(root) ==
  /\ Event
  /\ root \in user_settings
  /\ user_settings' = user_settings \ {root}
  /\ harm' = harm \cup {"place"}
  /\ UNCHANGED <<scanned_files, data, scanRoots, call>>

\* A scan visits the roots that were registered when it began, and adds the
\* files that have no row.
StartScan ==
  /\ scanRoots = {}
  /\ scanRoots' = user_settings
  /\ UNCHANGED <<DB, call, events, harm>>

ScanFile(path) ==
  /\ Root(path) \in scanRoots /\ path \in OnDisk
  /\ path \notin PathsInUse
  /\ scanned_files' = Append(scanned_files, path)
  /\ harm' = IF \/ Root(path) \notin user_settings
                \/ \E c \in Calls : Active(c) /\ call[c].old = Root(path)
               THEN harm \cup {"place"} ELSE harm
  /\ UNCHANGED <<data, user_settings, scanRoots, call, events>>

EndScan ==
  /\ scanRoots # {}
  /\ scanRoots' = {}
  /\ UNCHANGED <<DB, call, events, harm>>

\* The process ends and is started again: the rows stay as they are.
Crash ==
  /\ Event
  /\ call' = [c \in Calls |-> Idle]
  /\ scanRoots' = {}
  /\ harm' = harm \cup (IF \E c \in Calls : Active(c) THEN {"place"} ELSE {})
                  \cup (IF \E c \in Calls : call[c].pc = "data" THEN {"data"} ELSE {})
  /\ UNCHANGED DB

\* Some of the files of the home root were scanned and processed; it is
\* registered.
Init ==
  /\ \E found \in (SUBSET Files) \ {{}} :
       /\ scanned_files = SetToSeq({<<Home, f>> : f \in found})
       /\ data = [t \in TableNames |-> {<<Home, f>> : f \in found}]
  /\ user_settings = {Home}
  /\ scanRoots = {}
  /\ call = [c \in Calls |-> Idle]
  /\ events = 0
  /\ harm = {}

Next ==
  \/ \E c \in Calls, r \in Requests : Ask(c, r)
  \/ \E c \in Calls : ServerStep(c)
  \/ \E root \in Roots : Register(root) \/ Deregister(root)
  \/ StartScan \/ EndScan \/ (\E path \in Paths : ScanFile(path))
  \/ Crash

\* The threads of the server run; a user goes on asking.
Fairness ==
  /\ \A c \in Calls : WF_vars(ServerStep(c))
  /\ \A c \in Calls, r \in Requests : SF_vars(Ask(c, r))

Spec == Init /\ [][Next]_vars /\ Fairness

-----------------------------------------------------------------------------
CallStates ==
  [pc : {"idle", "lookup", "files", "adopt", "count", "verify", "page", "data",
         "finish", "remove"},
   old : Roots, new : Roots, total : Nat, offset : Nat, page : SUBSET (Nat \X Paths),
   from : Paths \cup {<<>>}, to : Paths \cup {<<>>}, table : DOMAIN Tables,
   updated : Nat, failed : Nat]

\* The types; paths are unique, and no call handles more rows than there are.
TypeOK ==
  /\ scanned_files \in Seq(Paths) /\ IsInjective(scanned_files)
  /\ data \in [TableNames -> SUBSET Paths]
  /\ user_settings \subseteq Roots /\ scanRoots \subseteq Roots
  /\ call \in [Calls -> CallStates]
  /\ \A c \in Calls :
       /\ <<call[c].old, call[c].new>> \in Requests \/ call[c] = Idle
       /\ call[c].page \subseteq Ids \X Paths
       /\ call[c].pc = "data" => call[c].from \in Paths /\ call[c].to \in Paths
       /\ call[c].updated + call[c].failed + Cardinality(call[c].page)
            <= Len(scanned_files)
  /\ events \in 0 .. MaxEvents
  /\ harm \subseteq {"data", "place"}

\* The other tables find the file: whatever calls, scans and registrations
\* do, each row that had data at the start (the first rows) is named by the
\* other tables under its present path, except while a call that moved it is
\* moving the data, if no statement on the data failed, no crash came in
\* between, and no two calls moved the files to different roots at one time.
DataFollowsTheFile ==
  "data" \notin harm =>
    \A table \in TableNames : \A id \in 1 .. Cardinality(data[table]) :
      \/ scanned_files[id] \in data[table]
      \/ \E c \in Calls : call[c].pc = "data" /\ call[c].to = scanned_files[id]

\* No file is left in a place that is not scanned any more: each row is under
\* a registered root or one that a call is about to register, unless the call
\* needed a second page, a registration was withdrawn or failed, a scan came
\* in between, or the process ended in the middle of a call.
EveryFileHasALocation ==
  "place" \notin harm =>
    \A path \in PathsInUse :
      \/ Root(path) \in user_settings
      \/ \E c \in Calls : Active(c) /\ call[c].new = Root(path)

\* A user who goes on asking gets all files moved, though a call may skip
\* pages, be refused, fail or be cut off: in the end the rows that are still
\* under the old root are those whose path under the new one is taken.
AskingMovesEverything ==
  <>[](\A r \in Requests : \A id \in IdsUnder(r[1]) :
         \E s \in Requests : s[1] = r[1] /\ <<s[2], scanned_files[id][2]>> \in PathsInUse)

\* docs/SCAN_PATH_CHANGE_API.md:160 says that the key of all rows is changed: a
\* call that removes the old registration, and answers "ok", has left no row
\* under it (no scan ran in between).
OkMeansAllMoved ==
  \A c \in Calls : call[c].pc = "remove" => IdsUnder(call[c].old) = {}

=============================================================================
