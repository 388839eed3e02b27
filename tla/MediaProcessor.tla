--------------------------- MODULE MediaProcessor ---------------------------
(***************************************************************************)
(* MediaProcessor (src/src/media_processors/media_processor.cpp) and the    *)
(* column scanned_files.processed it drives: the scan inserts a file or     *)
(* resets it when its content changed, ProcessMedia lists what is not yet   *)
(* processed and submits it to the thread pool, a worker processes it and   *)
(* records the outcome, an error of a file that is already in error is      *)
(* escalated by -100 and final, and the flags of an interrupted session     *)
(* are cleared when the server starts and when it stops.                   *)
(*                                                                         *)
(* Every call of ScannedFilesOps is a statement of its own, so each one is  *)
(* an action of its own; a statement never fails.  The thread pool is the   *)
(* queue of the type "media_processor" and a set of threads that take from  *)
(* it (see ThreadPoolManager).                                             *)
(***************************************************************************)
EXTENDS Integers, Sequences, FiniteSets

CONSTANTS
  Images,        \* files that are images
  Others,        \* video and audio files
  Row,           \* Row[f]: the id the row of file f has or will get
  Refusable,     \* files whose type the configuration may have disabled
  Workers,       \* threads of the pool
  Jobs,          \* threads that may run ProcessMedia
  Codes,         \* error codes of a failed attempt: -1, -3, -4, -5, -6
  QueueSizes,    \* values of media.processor.maxQueueSize
  MaxDisturbances \* bound: content changes, stops, crashes, error resets and
                  \* configuration changes

Files == Images \cup Others

ASSUME FilesAssumption ==
  /\ Images \cap Others = {}
  /\ Files # {}
  /\ Row \in [Files -> Nat]
  /\ \A f, g \in Files : Row[f] = Row[g] => f = g
  /\ Codes \subseteq {-1, -3, -4, -5, -6}
  /\ QueueSizes \subseteq Nat \ {0}
  /\ MaxDisturbances \in Nat

VARIABLES
  content,     \* version of the file on disk
  meta,        \* version in the row's file_metadata; 0: no row
  processed,   \* the row's status
  artifact,    \* version from which the stored embedding was computed; 0: none
  max_processing_queue_size_,
  queue,       \* submitted tasks that wait for a thread, by file
  worker,      \* what each thread of the pool does
  job,         \* what each run of ProcessMedia does
  scan,        \* the file the scan is at, and the version it saw
  phase,       \* life of the process
  disturbances

rows == <<meta, processed>>
vars == <<content, rows, artifact, max_processing_queue_size_, queue, worker, job, scan,
          phase, disturbances>>

Unprocessed == 0
InProgress  == 1
Complete    == 2
Skipped     == -2
QueuedUp    == -99

AnyFile == CHOOSE f \in Files : TRUE

NoWork == [pc |-> "idle", file |-> AnyFile, arg |-> 0]
NoJob  == [pc |-> "none", todo |-> {}, arg |-> 0]
NoScan == [file |-> AnyFile, version |-> 0]

\* The pool dispatches until it drains; it accepts until then.
accepting == phase \in {"up", "stopping"}
alive     == phase # "down"

Disturb == disturbances < MaxDisturbances /\ disturbances' = disturbances + 1

-----------------------------------------------------------------------------
(* ScannedFilesOps.                                                        *)

Mark(f, status) == processed' = [processed EXCEPT ![f] = status]

\* Mutant: adds to the code that is there.
EscalatedFurther(current, code) == IF current < 0 THEN current + code - 100 ELSE code

\* markProcessedWithEscalation reads the row, then writes this.
Escalated(current, code) == IF current < 0 THEN code - 100 ELSE code

\* Mutant: what was queued is not listed again.
ListedUnlessQueued(f) ==
  meta[f] # 0 /\ (processed[f] = Unprocessed \/ (processed[f] >= -100 /\ processed[f] < 0
                                                  /\ processed[f] # QueuedUp))

Listed(f) ==
  /\ meta[f] # 0
  /\ \/ processed[f] = Unprocessed
     \/ processed[f] = QueuedUp
     \/ processed[f] >= -100 /\ processed[f] < 0

\* The first rows of the list, at most limit of them.
listUnprocessed(limit) ==
  { f \in Files : /\ Listed(f)
                  /\ Cardinality({ g \in Files : Listed(g) /\ Row[g] < Row[f] }) < limit }

\* Mutant: the flag of files that are queued is cleared instead.
ClearedQueued == [f \in Files |-> IF processed[f] = QueuedUp THEN Unprocessed ELSE processed[f]]

Cleared == [f \in Files |-> IF processed[f] = InProgress THEN Unprocessed ELSE processed[f]]

-----------------------------------------------------------------------------
(* The file system, and FilesManager::onFileEmitted for one file.          *)

FileChanges(f) ==
  /\ Disturb
  /\ content' = [content EXCEPT ![f] = @ + 1]
  /\ UNCHANGED <<rows, artifact, max_processing_queue_size_, queue, worker, job, scan, phase>>

ScanStat(f) ==
  /\ alive
  /\ scan = NoScan
  /\ scan' = [file |-> f, version |-> content[f]]
  /\ UNCHANGED <<content, rows, artifact, max_processing_queue_size_, queue, worker, job, phase,
                 disturbances>>

\* A new or changed file starts again at 0; an unchanged one is left alone.
ScanUpsert ==
  /\ scan # NoScan
  /\ scan' = NoScan
  /\ IF meta[scan.file] # scan.version
       THEN /\ meta' = [meta EXCEPT ![scan.file] = scan.version]
            /\ Mark(scan.file, Unprocessed)
       ELSE UNCHANGED rows
  /\ UNCHANGED <<content, artifact, max_processing_queue_size_, queue, worker, job, phase,
                 disturbances>>

-----------------------------------------------------------------------------
(* ProcessMedia and RouteToProcessorInternal, under route_mutex_.           *)

\* Mutant: the mutex is not taken.
NoRouteMutex == TRUE

RouteMutexFree == \A j \in Jobs : job[j].pc = "none"

CanSubmit == accepting /\ Len(queue) < max_processing_queue_size_

Submit(f) == queue' = IF accepting THEN Append(queue, f) ELSE queue

\* The first file, by row, of those that the run has still to route.
File(j) == CHOOSE f \in job[j].todo : \A g \in job[j].todo : Row[f] <= Row[g]

RunGoes(j, pc, arg) ==
  job' = [job EXCEPT ![j] = [pc |-> pc, todo |-> job[j].todo, arg |-> arg]]

Goto(j, pc) == RunGoes(j, pc, job[j].arg)

\* On to the next file of the list; the mutex is released after the last.
NextFile(j) ==
  LET rest == job[j].todo \ {File(j)}
  IN  job' = [job EXCEPT ![j] = IF rest = {} THEN NoJob
                                ELSE [pc |-> "route", todo |-> rest, arg |-> 0]]

ProcessMedia(j) ==
  LET space == max_processing_queue_size_ - Len(queue)
      todo  == listUnprocessed(space)
  IN  /\ accepting
      /\ RouteMutexFree
      /\ space > 0
      /\ todo # {}
      /\ job' = [job EXCEPT ![j] = [pc |-> "route", todo |-> todo, arg |-> 0]]
      /\ UNCHANGED <<content, rows, artifact, max_processing_queue_size_, queue, worker, scan,
                     phase, disturbances>>

\* The type is unsupported or disabled: nothing is submitted.
RouteRefused(j) ==
  /\ job[j].pc = "route"
  /\ File(j) \in Refusable
  /\ Goto(j, "check")
  /\ UNCHANGED <<content, rows, artifact, max_processing_queue_size_, queue, worker, scan, phase,
                 disturbances>>

RouteFull(j) ==
  /\ job[j].pc = "route"
  /\ ~ CanSubmit
  /\ Mark(File(j), Skipped)
  /\ Goto(j, "check")
  /\ UNCHANGED <<content, meta, artifact, max_processing_queue_size_, queue, worker, scan, phase,
                 disturbances>>

RouteImage(j) ==
  /\ job[j].pc = "route"
  /\ File(j) \in Images
  /\ CanSubmit
  /\ Mark(File(j), QueuedUp)
  /\ Goto(j, "submit")
  /\ UNCHANGED <<content, meta, artifact, max_processing_queue_size_, queue, worker, scan, phase,
                 disturbances>>

SubmitImage(j) ==
  /\ job[j].pc = "submit"
  /\ Submit(File(j))
  /\ NextFile(j)
  /\ UNCHANGED <<content, rows, artifact, max_processing_queue_size_, worker, scan, phase,
                 disturbances>>

\* Video and audio files are submitted without being marked.
RouteOther(j) ==
  /\ job[j].pc = "route"
  /\ File(j) \in Others
  /\ CanSubmit
  /\ Submit(File(j))
  /\ NextFile(j)
  /\ UNCHANGED <<content, rows, artifact, max_processing_queue_size_, worker, scan, phase,
                 disturbances>>

\* What was not submitted becomes an error, unless it was skipped.
CheckSkipped(j) ==
  /\ job[j].pc = "check"
  /\ IF processed[File(j)] = Skipped THEN NextFile(j) ELSE Goto(j, "escalate")
  /\ UNCHANGED <<content, rows, artifact, max_processing_queue_size_, queue, worker, scan, phase,
                 disturbances>>

JobFailRead(j) ==
  /\ job[j].pc = "escalate"
  /\ RunGoes(j, "write", Escalated(processed[File(j)], -1))
  /\ UNCHANGED <<content, rows, artifact, max_processing_queue_size_, queue, worker, scan, phase,
                 disturbances>>

JobFailWrite(j) ==
  /\ job[j].pc = "write"
  /\ Mark(File(j), job[j].arg)
  /\ NextFile(j)
  /\ UNCHANGED <<content, meta, artifact, max_processing_queue_size_, queue, worker, scan, phase,
                 disturbances>>

-----------------------------------------------------------------------------
(* The task a thread of the pool runs for one file.                        *)

WorkStep(w, pc, arg) ==
  worker' = [worker EXCEPT ![w] = [pc |-> pc, file |-> worker[w].file, arg |-> arg]]

Take(w) ==
  /\ accepting
  /\ worker[w].pc = "idle"
  /\ queue # <<>>
  /\ worker' = [worker EXCEPT ![w] = [pc |-> "read", file |-> Head(queue), arg |-> 0]]
  /\ queue' = Tail(queue)
  /\ UNCHANGED <<content, rows, artifact, max_processing_queue_size_, job, scan, phase, disturbances>>

\* A file that is complete or in progress is left alone; one that is queued or
\* in error keeps its status while it is processed.
ReadStatus(w) ==
  LET status == processed[worker[w].file]
  IN  /\ worker[w].pc = "read"
      /\ \/ status >= InProgress /\ worker' = [worker EXCEPT ![w] = NoWork]
         \/ status = Unprocessed /\ WorkStep(w, "mark", 0)
         \/ status < 0 /\ WorkStep(w, "work", 0)
      /\ UNCHANGED <<content, rows, artifact, max_processing_queue_size_, queue, job, scan, phase,
                     disturbances>>

MarkInProgress(w) ==
  /\ worker[w].pc = "mark"
  /\ Mark(worker[w].file, InProgress)
  /\ WorkStep(w, "work", 0)
  /\ UNCHANGED <<content, meta, artifact, max_processing_queue_size_, queue, job, scan, phase,
                 disturbances>>

\* An image is copied to the cache and embedded; a video or audio file is only
\* looked at.
Work(w) ==
  /\ worker[w].pc = "work"
  /\ IF worker[w].file \in Images
       THEN WorkStep(w, "embed", content[worker[w].file])
       ELSE WorkStep(w, "done", 0)
  /\ UNCHANGED <<content, rows, artifact, max_processing_queue_size_, queue, job, scan, phase,
                 disturbances>>

Embed(w) ==
  /\ worker[w].pc = "embed"
  /\ artifact' = [artifact EXCEPT ![worker[w].file] = worker[w].arg]
  /\ WorkStep(w, "done", 0)
  /\ UNCHANGED <<content, rows, max_processing_queue_size_, queue, job, scan, phase, disturbances>>

Succeed(w) ==
  /\ worker[w].pc = "done"
  /\ Mark(worker[w].file, Complete)
  /\ worker' = [worker EXCEPT ![w] = NoWork]
  /\ UNCHANGED <<content, meta, artifact, max_processing_queue_size_, queue, job, scan, phase,
                 disturbances>>

WorkFails(w, code) ==
  /\ worker[w].pc \in {"work", "embed"}
  /\ WorkStep(w, "fail", code)
  /\ UNCHANGED <<content, rows, artifact, max_processing_queue_size_, queue, job, scan, phase,
                 disturbances>>

FailRead(w) ==
  /\ worker[w].pc = "fail"
  /\ WorkStep(w, "write", Escalated(processed[worker[w].file], worker[w].arg))
  /\ UNCHANGED <<content, rows, artifact, max_processing_queue_size_, queue, job, scan, phase,
                 disturbances>>

FailWrite(w) ==
  /\ worker[w].pc = "write"
  /\ Mark(worker[w].file, worker[w].arg)
  /\ worker' = [worker EXCEPT ![w] = NoWork]
  /\ UNCHANGED <<content, meta, artifact, max_processing_queue_size_, queue, job, scan, phase,
                 disturbances>>

-----------------------------------------------------------------------------
(* The administrator, the configuration, and the life of the process.      *)

\* resetAllErrors: every error, but not what is skipped or queued.
IsError(f) == processed[f] < 0 /\ processed[f] \notin {Skipped, QueuedUp}

ResetErrors ==
  /\ alive
  /\ Disturb
  /\ \E f \in Files : IsError(f)
  /\ processed' = [f \in Files |-> IF IsError(f) THEN Unprocessed ELSE processed[f]]
  /\ UNCHANGED <<content, meta, artifact, max_processing_queue_size_, queue, worker, job, scan, phase>>

ConfigMaxQueueSize(n) ==
  /\ alive
  /\ Disturb
  /\ max_processing_queue_size_' = n
  /\ UNCHANGED <<content, rows, artifact, queue, worker, job, scan, phase>>

\* MediaProcessor::shutdown() clears the flags while the pool still works.
MediaShutdown ==
  /\ phase = "up"
  /\ RouteMutexFree
  /\ Disturb
  /\ phase' = "stopping"
  /\ processed' = Cleared
  /\ UNCHANGED <<content, meta, artifact, max_processing_queue_size_, queue, worker, job, scan>>

DrainBegin ==
  /\ phase = "stopping"
  /\ phase' = "draining"
  /\ UNCHANGED <<content, rows, artifact, max_processing_queue_size_, queue, worker, job, scan,
                 disturbances>>

\* The process ends: what was queued or at work is gone, the rows stay.
Die ==
  /\ phase' = "down"
  /\ queue' = <<>>
  /\ worker' = [w \in Workers |-> NoWork]
  /\ job' = [j \in Jobs |-> NoJob]
  /\ scan' = NoScan
  /\ UNCHANGED <<content, rows, artifact, max_processing_queue_size_>>

\* The drain ended, or its timeout did: work may still be under way.
DrainEnd == phase = "draining" /\ Die /\ UNCHANGED disturbances

Crash == alive /\ Disturb /\ Die

\* The flags of the last session are cleared before the first ProcessMedia.
Startup ==
  /\ phase = "down"
  /\ phase' = "up"
  /\ processed' = Cleared
  /\ UNCHANGED <<content, meta, artifact, max_processing_queue_size_, queue, worker, job, scan,
                 disturbances>>

-----------------------------------------------------------------------------
Init ==
  /\ content = [f \in Files |-> 1]
  /\ meta = [f \in Files |-> 0]
  /\ processed = [f \in Files |-> Unprocessed]
  /\ artifact = [f \in Files |-> 0]
  /\ max_processing_queue_size_ \in QueueSizes
  /\ queue = <<>>
  /\ worker = [w \in Workers |-> NoWork]
  /\ job = [j \in Jobs |-> NoJob]
  /\ scan = NoScan
  /\ phase = "up"
  /\ disturbances = 0

JobStep(j) ==
  \/ RouteRefused(j) \/ RouteFull(j) \/ RouteImage(j) \/ SubmitImage(j) \/ RouteOther(j)
  \/ CheckSkipped(j) \/ JobFailRead(j) \/ JobFailWrite(j)

WorkerStep(w) ==
  \/ ReadStatus(w) \/ MarkInProgress(w) \/ Work(w) \/ Embed(w) \/ Succeed(w)
  \/ \E code \in Codes : WorkFails(w, code)
  \/ FailRead(w) \/ FailWrite(w)

LifeStep == MediaShutdown \/ DrainBegin \/ DrainEnd \/ Crash \/ Startup

Next ==
  \/ \E f \in Files : FileChanges(f) \/ ScanStat(f)
  \/ ScanUpsert
  \/ \E j \in Jobs : ProcessMedia(j) \/ JobStep(j)
  \/ \E w \in Workers : Take(w) \/ WorkerStep(w)
  \/ ResetErrors
  \/ \E n \in QueueSizes : ConfigMaxQueueSize(n)
  \/ LifeStep

Spec == Init /\ [][Next]_vars

\* The scheduler runs ProcessMedia and the scan again and again, the pool
\* dispatches, threads and runs go on, a stop that began ends, and the
\* administrator starts the server again.
Fairness ==
  /\ \A f \in Files : SF_vars(ScanStat(f))
  /\ WF_vars(ScanUpsert)
  /\ \A j \in Jobs : WF_vars(ProcessMedia(j)) /\ WF_vars(JobStep(j))
  /\ \A w \in Workers : WF_vars(Take(w)) /\ WF_vars(WorkerStep(w))
  /\ WF_vars(DrainBegin) /\ WF_vars(DrainEnd) /\ WF_vars(Startup)

FairSpec == Spec /\ Fairness

-----------------------------------------------------------------------------
(* Properties.                                                             *)

Statuses ==
  {Unprocessed, InProgress, Complete, Skipped, QueuedUp, -1, -101} \cup Codes
    \cup { code - 100 : code \in Codes }

WorkerStates ==
  [pc : {"idle", "read", "mark", "work", "embed", "done", "fail", "write"},
   file : Files, arg : Int]

JobStates ==
  [pc : {"none", "route", "submit", "check", "escalate", "write"},
   todo : SUBSET Files, arg : Int]

\* Every variable keeps its type; the column holds documented codes only.
TypeOK ==
  /\ content \in [Files -> 1 .. MaxDisturbances + 1]
  /\ meta \in [Files -> 0 .. MaxDisturbances + 1]
  /\ processed \in [Files -> Statuses]
  /\ artifact \in [Files -> 0 .. MaxDisturbances + 1]
  /\ max_processing_queue_size_ \in QueueSizes
  /\ queue \in Seq(Files)
  /\ worker \in [Workers -> WorkerStates]
  /\ job \in [Jobs -> JobStates]
  /\ scan \in [file : Files, version : 0 .. MaxDisturbances + 1]
  /\ phase \in {"up", "stopping", "draining", "down"}
  /\ disturbances \in 0 .. MaxDisturbances

\* A file is settled when it is complete or its error is final.
Settled(f) == processed[f] >= Complete \/ processed[f] < -100

WorkedOn(f) ==
  \E w \in Workers : worker[w].file = f /\ worker[w].pc \in {"work", "embed", "done", "fail", "write"}

\* While the server runs no row is forgotten: it is settled, or the next
\* ProcessMedia lists it, or a live thread has it in hand.
NoRowIsForgotten ==
  alive => \A f \in Files : meta[f] # 0 => Settled(f) \/ Listed(f) \/ WorkedOn(f)

\* route_mutex_ makes canSubmit and submit one step as far as other runs of
\* ProcessMedia go: the queue never outgrows the largest configured limit.
QueueStaysBounded == \E n \in QueueSizes : Len(queue) <= n

\* Whatever is stopped, dropped, reset or queued twice, every file comes to an
\* end again and again; it can only wait for ever while files that had come to
\* an end are for ever taken up again.
EveryFileSettles ==
  \A f \in Files :
    []<>(Settled(f)) \/ []<><<\E g \in Files : Settled(g) /\ ~ Settled(g)'>>_vars

\* A complete image that nobody works on any more was embedded from the content
\* its row describes, or from newer content.
ChangedContentIsProcessed ==
  \A f \in Images :
    /\ processed[f] = Complete
    /\ ~ WorkedOn(f)
    => artifact[f] >= meta[f]

=============================================================================
