------------------------ MODULE MediaProcessor_proofs ------------------------
(* What ThreadPoolManager and the database leave MediaProcessor to get      *)
(* right, for any files, threads, codes and queue limits: the types, that   *)
(* no row is forgotten while the server runs, and that the queue stays      *)
(* within the largest limit ever configured.                               *)
EXTENDS MediaProcessor, SequenceTheorems, WellFoundedInduction, TLAPS

\* The codes a failed attempt records, escalated or not.
Recorded == Codes \cup { code - 100 : code \in Codes } \cup {-1, -101}

\* What a thread or a run carries to its next statement is of the kind that
\* statement writes, and a run that holds the mutex has a file to route.
WorkerArg(w) ==
  /\ worker[w].pc = "embed" => worker[w].arg \in 1 .. MaxDisturbances + 1
  /\ worker[w].pc = "fail"  => worker[w].arg \in Codes
  /\ worker[w].pc = "write" => worker[w].arg \in Recorded

JobArg(j) ==
  /\ job[j].pc # "none"  => job[j].todo # {}
  /\ job[j].pc = "write" => job[j].arg \in Recorded

ArgsInv ==
  /\ \A f \in Files : content[f] <= disturbances + 1
  /\ \A w \in Workers : WorkerArg(w)
  /\ \A j \in Jobs : JobArg(j)

\* The flag of a file in progress is backed by a thread that works on it, from
\* the start of the server, which clears the flags of the last session, to its end.
InProgressIsInHand ==
  alive => \A f \in Files : processed[f] = InProgress => WorkedOn(f)

\* One run of ProcessMedia at a time is past route_mutex_, and while it is
\* between canSubmit and submit there is room for what it submits.
RoomForTheSubmitter ==
  /\ \A j, k \in Jobs : job[j].pc # "none" /\ job[k].pc # "none" => j = k
  /\ (\E j \in Jobs : job[j].pc = "submit") => \E n \in QueueSizes : Len(queue) < n

Inv == TypeOK /\ ArgsInv /\ InProgressIsInHand /\ RoomForTheSubmitter /\ QueueStaysBounded

-----------------------------------------------------------------------------
(* Facts about the operators of the model.                                 *)

\* Every nonempty set of naturals has a least element.
LEMMA LeastNatural ==
  ASSUME NEW ids \in SUBSET Nat, ids # {}
  PROVE  \E least \in ids : \A id \in ids : least <= id
<1> DEFINE below == { ss \in Nat \X Nat : ss[1] < ss[2] }
<1>1. IsWellFoundedOn(below, Nat)
  BY NatLessThanWellFounded DEF OpToRel
<1> HIDE DEF below
<1>2. PICK least \in ids : \A id \in ids : ~ (<<id, least>> \in below)
  BY <1>1, WFMin
<1>3. ASSUME NEW id \in ids PROVE least <= id
  <2>1. <<id, least>> \in Nat \X Nat /\ ~ (<<id, least>> \in below)
    BY <1>2
  <2>2. ~ (id < least)
    BY <2>1 DEF below
  <2>3. QED
    BY <2>2
<1>4. QED
  BY <1>3

\* File(j) is the first file, by row, of a run that has files left.
LEMMA FileIsOfTheList ==
  ASSUME TypeOK, NEW j \in Jobs, job[j].todo # {}
  PROVE  File(j) \in job[j].todo /\ File(j) \in Files
<1> DEFINE todo == job[j].todo
           ids == { Row[f] : f \in todo }
<1>1. todo \subseteq Files
  BY DEF TypeOK, JobStates
<1>2. ids \in SUBSET Nat /\ ids # {}
  BY <1>1, FilesAssumption
<1>3. PICK least \in ids : \A id \in ids : least <= id
  BY <1>2, LeastNatural
<1>4. PICK f \in todo : \A g \in todo : Row[f] <= Row[g]
  BY <1>3
<1>5. File(j) \in todo
  BY <1>4 DEF File
<1>6. QED
  BY <1>1, <1>5

\* Error codes are never taken for the flag of a file in progress.
LEMMA RecordedCodes ==
  /\ Recorded \subseteq Statuses
  /\ \A code \in Recorded : code \in Int /\ code < 0
  /\ \A current, code : code \in Codes \cup {-1} => Escalated(current, code) \in Recorded
<1>1. \A code \in Codes : code \in {-1, -3, -4, -5, -6}
  BY FilesAssumption
<1>2. QED
  BY <1>1 DEF Recorded, Statuses, Escalated

LEMMA StatusesAreIntegers == Statuses \subseteq Int /\ AnyFile \in Files
<1>1. \A code \in Codes : code \in {-1, -3, -4, -5, -6}
  BY FilesAssumption
<1>2. AnyFile \in Files
  BY FilesAssumption DEF AnyFile
<1>3. QED
  BY <1>1, <1>2 DEF Statuses, Unprocessed, InProgress, Complete, Skipped, QueuedUp

NoStates == NoWork \in WorkerStates /\ NoJob \in JobStates

LEMMA NoStatesAreStates == NoStates /\ NoScan \in [file : Files, version : 0 .. MaxDisturbances + 1]
BY StatusesAreIntegers, FilesAssumption
   DEF NoStates, NoWork, NoJob, NoScan, WorkerStates, JobStates

\* A thread, a run or a row that is given a new state, and the others.
LEMMA WorkerBecomes ==
  ASSUME TypeOK, NEW w \in Workers, NEW new \in WorkerStates, worker' = [worker EXCEPT ![w] = new]
  PROVE  /\ worker' \in [Workers -> WorkerStates] /\ worker'[w] = new
         /\ \A v \in Workers : v # w => worker'[v] = worker[v]
BY DEF TypeOK

LEMMA JobBecomes ==
  ASSUME TypeOK, NEW j \in Jobs, NEW new \in JobStates, job' = [job EXCEPT ![j] = new]
  PROVE  /\ job' \in [Jobs -> JobStates] /\ job'[j] = new
         /\ \A k \in Jobs : k # j => job'[k] = job[k]
BY DEF TypeOK

LEMMA RowBecomes ==
  ASSUME TypeOK, NEW f \in Files, NEW status \in Statuses, Mark(f, status)
  PROVE  /\ processed' \in [Files -> Statuses] /\ processed'[f] = status
         /\ \A g \in Files : g # f => processed'[g] = processed[g]
BY DEF TypeOK, Mark

\* What a step of a thread leaves of it.
LEMMA WorkStepLeaves ==
  ASSUME TypeOK, NEW w \in Workers, NEW arg, arg \in Int,
         NEW pc \in {"idle", "read", "mark", "work", "embed", "done", "fail", "write"},
         WorkStep(w, pc, arg)
  PROVE  /\ worker' \in [Workers -> WorkerStates]
         /\ worker'[w] = [pc |-> pc, file |-> worker[w].file, arg |-> arg]
         /\ \A v \in Workers : v # w => worker'[v] = worker[v]
<1> DEFINE new == [pc |-> pc, file |-> worker[w].file, arg |-> arg]
<1>1. worker[w].file \in Files
  BY DEF TypeOK, WorkerStates
<1>2. new \in WorkerStates
  BY <1>1 DEF WorkerStates
<1>3. worker' = [worker EXCEPT ![w] = new]
  BY DEF WorkStep
<1> HIDE DEF new
<1>4. QED
  BY <1>2, <1>3, WorkerBecomes DEF new

\* What a step of a run leaves of it.
LEMMA RunGoesTo ==
  ASSUME TypeOK, NEW j \in Jobs, NEW arg \in Int,
         NEW pc \in {"none", "route", "submit", "check", "escalate", "write"},
         RunGoes(j, pc, arg)
  PROVE  /\ job' \in [Jobs -> JobStates]
         /\ job'[j] = [pc |-> pc, todo |-> job[j].todo, arg |-> arg]
         /\ \A k \in Jobs : k # j => job'[k] = job[k]
<1> DEFINE new == [pc |-> pc, todo |-> job[j].todo, arg |-> arg]
<1>1. job[j].todo \in SUBSET Files
  BY DEF TypeOK, JobStates
<1>2. new \in JobStates
  BY <1>1 DEF JobStates
<1>3. job' = [job EXCEPT ![j] = new]
  BY DEF RunGoes
<1> HIDE DEF new
<1>4. QED
  BY <1>2, <1>3, JobBecomes DEF new

\* What NextFile leaves of a run: it releases the mutex or has a file to route.
LEMMA NextFileLeaves ==
  ASSUME TypeOK, NEW j \in Jobs, NextFile(j)
  PROVE  /\ job' \in [Jobs -> JobStates]
         /\ \A k \in Jobs : k # j => job'[k] = job[k]
         /\ job'[j] = NoJob \/ (job'[j].pc = "route" /\ job'[j].todo # {})
<1> DEFINE rest == job[j].todo \ {File(j)}
           new == IF rest = {} THEN NoJob ELSE [pc |-> "route", todo |-> rest, arg |-> 0]
<1>1. rest \in SUBSET Files
  BY DEF TypeOK, JobStates
<1>2. new \in JobStates
  BY <1>1, NoStatesAreStates DEF NoStates, JobStates
<1>3. new = NoJob \/ (new.pc = "route" /\ new.todo # {})
  OBVIOUS
<1>4. job' = [job EXCEPT ![j] = new]
  BY DEF NextFile
<1> HIDE DEF new
<1>5. QED
  BY <1>2, <1>3, <1>4, JobBecomes

-----------------------------------------------------------------------------
(* TypeOK and ArgsInv.                                                     *)

LEMMA InitInv == Init => Inv
<1> SUFFICES ASSUME Init PROVE Inv
  OBVIOUS
<1> USE StatusesAreIntegers, FilesAssumption
<1>1. TypeOK
  <2>1. /\ worker \in [Workers -> WorkerStates] /\ job \in [Jobs -> JobStates]
        /\ scan \in [file : Files, version : 0 .. MaxDisturbances + 1]
    BY NoStatesAreStates DEF Init, NoStates
  <2>2. queue \in Seq(Files)
    BY EmptySeq DEF Init
  <2>3. QED
    BY <2>1, <2>2 DEF Init, TypeOK, Statuses
<1>2. ArgsInv /\ InProgressIsInHand
  BY DEF Init, ArgsInv, WorkerArg, JobArg, InProgressIsInHand, NoWork, NoJob, Unprocessed, InProgress
<1>3. RoomForTheSubmitter /\ QueueStaysBounded
  BY DEF Init, RoomForTheSubmitter, QueueStaysBounded, NoJob
<1>4. QED
  BY <1>1, <1>2, <1>3 DEF Inv

\* Every step keeps the types.
LEMMA TypeStep ==
  ASSUME TypeOK, ArgsInv, [Next]_vars
  PROVE  TypeOK'
<1> USE StatusesAreIntegers, FilesAssumption
<1>1. ASSUME NEW f \in Files, FileChanges(f) PROVE TypeOK'
  <2>1. content[f] \in Int /\ content[f] >= 1 /\ disturbances \in Nat /\ disturbances < MaxDisturbances
    BY <1>1 DEF TypeOK, FileChanges, Disturb
  <2>2. content[f] <= disturbances + 1
    BY <1>1 DEF ArgsInv
  <2>3. content[f] + 1 \in 1 .. MaxDisturbances + 1
    BY <1>1, <2>1, <2>2
  <2>4. content' \in [Files -> 1 .. MaxDisturbances + 1]
    BY <1>1, <2>3 DEF TypeOK, FileChanges
  <2>5. disturbances' \in 0 .. MaxDisturbances
    BY <1>1 DEF TypeOK, FileChanges, Disturb
  <2>6. QED
    BY <1>1, <2>1, <2>2, <2>3, <2>4, <2>5 DEF TypeOK, FileChanges, rows
<1>2. ASSUME NEW f \in Files, ScanStat(f) PROVE TypeOK'
  <2>1. scan' \in [file : Files, version : 0 .. MaxDisturbances + 1]
    BY <1>2 DEF TypeOK, ScanStat
  <2>2. QED
    BY <1>2, <2>1 DEF TypeOK, ScanStat, rows
<1>3. CASE ScanUpsert
  <2>1. scan' \in [file : Files, version : 0 .. MaxDisturbances + 1]
    BY <1>3, NoStatesAreStates DEF ScanUpsert
  <2>2. scan.file \in Files /\ scan.version \in 0 .. MaxDisturbances + 1
    BY <1>3 DEF TypeOK
  <2>3. meta' \in [Files -> 0 .. MaxDisturbances + 1]
    BY <1>3, <2>2 DEF TypeOK, ScanUpsert, rows
  <2>4. processed' \in [Files -> Statuses]
    BY <1>3, <2>2, RowBecomes DEF TypeOK, ScanUpsert, rows, Statuses
  <2>5. QED
    BY <1>3, <2>1, <2>2, <2>3, <2>4 DEF TypeOK, ScanUpsert, rows
<1>4. ASSUME NEW j \in Jobs, ProcessMedia(j) PROVE TypeOK'
  <2>1. [pc |-> "route", todo |-> listUnprocessed(max_processing_queue_size_ - Len(queue)), arg |-> 0]
           \in JobStates
    BY <1>4 DEF listUnprocessed, JobStates
  <2>2. job' \in [Jobs -> JobStates]
    BY <1>4, <2>1, JobBecomes DEF ProcessMedia
  <2>3. QED
    BY <1>4, <2>1, <2>2 DEF TypeOK, ProcessMedia, rows
<1>5. ASSUME NEW j \in Jobs, RouteRefused(j) PROVE TypeOK'
  <2>1. job' \in [Jobs -> JobStates]
    BY <1>5, RunGoesTo DEF RouteRefused, Goto, TypeOK, JobStates
  <2>2. QED
    BY <1>5, <2>1 DEF TypeOK, RouteRefused, rows
<1>6. ASSUME NEW j \in Jobs, RouteFull(j) PROVE TypeOK'
  <2>1. job' \in [Jobs -> JobStates]
    BY <1>6, RunGoesTo DEF RouteFull, Goto, TypeOK, JobStates
  <2>2. File(j) \in Files
    BY <1>6, FileIsOfTheList DEF ArgsInv, JobArg, RouteFull
  <2>3. processed' \in [Files -> Statuses]
    BY <1>6, <2>2, RowBecomes DEF RouteFull, Statuses, Skipped
  <2>4. QED
    BY <1>6, <2>1, <2>2, <2>3 DEF TypeOK, RouteFull, rows
<1>7. ASSUME NEW j \in Jobs, RouteImage(j) PROVE TypeOK'
  <2>1. job' \in [Jobs -> JobStates]
    BY <1>7, RunGoesTo DEF RouteImage, Goto, TypeOK, JobStates
  <2>2. File(j) \in Files
    BY <1>7, FileIsOfTheList DEF ArgsInv, JobArg, RouteImage
  <2>3. processed' \in [Files -> Statuses]
    BY <1>7, <2>2, RowBecomes DEF RouteImage, Statuses, QueuedUp
  <2>4. QED
    BY <1>7, <2>1, <2>2, <2>3 DEF TypeOK, RouteImage, rows
<1>8. ASSUME NEW j \in Jobs, SubmitImage(j) PROVE TypeOK'
  <2>1. job' \in [Jobs -> JobStates]
    BY <1>8, NextFileLeaves DEF SubmitImage
  <2>2. File(j) \in Files
    BY <1>8, FileIsOfTheList DEF ArgsInv, JobArg, SubmitImage
  <2>3. queue' \in Seq(Files)
    BY <1>8, <2>2, AppendProperties DEF TypeOK, SubmitImage, Submit
  <2>4. QED
    BY <1>8, <2>1, <2>2, <2>3 DEF TypeOK, SubmitImage, rows
<1>9. ASSUME NEW j \in Jobs, RouteOther(j) PROVE TypeOK'
  <2>1. job' \in [Jobs -> JobStates]
    BY <1>9, NextFileLeaves DEF RouteOther
  <2>2. File(j) \in Files
    BY <1>9, FileIsOfTheList DEF ArgsInv, JobArg, RouteOther
  <2>3. queue' \in Seq(Files)
    BY <1>9, <2>2, AppendProperties DEF TypeOK, RouteOther, Submit
  <2>4. QED
    BY <1>9, <2>1, <2>2, <2>3 DEF TypeOK, RouteOther, rows
<1>10. ASSUME NEW j \in Jobs, CheckSkipped(j) PROVE TypeOK'
  <2>1. job' \in [Jobs -> JobStates]
    BY <1>10, RunGoesTo, NextFileLeaves DEF CheckSkipped, Goto, TypeOK, JobStates
  <2>2. QED
    BY <1>10, <2>1 DEF TypeOK, CheckSkipped, rows
<1>11. ASSUME NEW j \in Jobs, JobFailRead(j) PROVE TypeOK'
  <2>1. Escalated(processed[File(j)], -1) \in Int
    BY <1>11, RecordedCodes
  <2>2. job' \in [Jobs -> JobStates]
    BY <1>11, <2>1, RunGoesTo DEF JobFailRead
  <2>3. QED
    BY <1>11, <2>1, <2>2 DEF TypeOK, JobFailRead, rows
<1>12. ASSUME NEW j \in Jobs, JobFailWrite(j) PROVE TypeOK'
  <2>1. job' \in [Jobs -> JobStates]
    BY <1>12, NextFileLeaves DEF JobFailWrite
  <2>2. File(j) \in Files /\ job[j].arg \in Statuses
    BY <1>12, FileIsOfTheList, RecordedCodes DEF ArgsInv, JobArg, JobFailWrite
  <2>3. processed' \in [Files -> Statuses]
    BY <1>12, <2>2, RowBecomes DEF JobFailWrite
  <2>4. QED
    BY <1>12, <2>1, <2>2, <2>3 DEF TypeOK, JobFailWrite, rows
<1>13. ASSUME NEW w \in Workers, Take(w) PROVE TypeOK'
  <2>1. Head(queue) \in Files /\ Tail(queue) \in Seq(Files)
    BY <1>13, HeadTailProperties DEF TypeOK, Take
  <2>2. [pc |-> "read", file |-> Head(queue), arg |-> 0] \in WorkerStates
    BY <1>13, <2>1 DEF WorkerStates
  <2>3. worker' \in [Workers -> WorkerStates] /\ queue' \in Seq(Files)
    BY <1>13, <2>1, <2>2, WorkerBecomes DEF Take
  <2>4. QED
    BY <1>13, <2>1, <2>2, <2>3 DEF TypeOK, Take, rows
<1>14. ASSUME NEW w \in Workers, ReadStatus(w) PROVE TypeOK'
  <2>1. 0 \in Int
    BY <1>14
  <2>2. worker' \in [Workers -> WorkerStates]
    BY <1>14, <2>1, WorkStepLeaves, WorkerBecomes, NoStatesAreStates DEF ReadStatus, NoStates
  <2>3. QED
    BY <1>14, <2>1, <2>2 DEF TypeOK, ReadStatus, rows
<1>15. ASSUME NEW w \in Workers, MarkInProgress(w) PROVE TypeOK'
  <2>1. 0 \in Int /\ worker[w].file \in Files
    BY <1>15 DEF TypeOK, WorkerStates
  <2>2. worker' \in [Workers -> WorkerStates]
    BY <1>15, <2>1, WorkStepLeaves DEF MarkInProgress
  <2>3. processed' \in [Files -> Statuses]
    BY <1>15, <2>1, RowBecomes DEF MarkInProgress, Statuses
  <2>4. QED
    BY <1>15, <2>1, <2>2, <2>3 DEF TypeOK, MarkInProgress, rows
<1>16. ASSUME NEW w \in Workers, Work(w) PROVE TypeOK'
  <2>1. content[worker[w].file] \in Int /\ 0 \in Int
    BY <1>16 DEF TypeOK, WorkerStates
  <2>2. worker' \in [Workers -> WorkerStates]
    BY <1>16, <2>1, WorkStepLeaves DEF Work
  <2>3. QED
    BY <1>16, <2>1, <2>2 DEF TypeOK, Work, rows
<1>17. ASSUME NEW w \in Workers, Embed(w) PROVE TypeOK'
  <2>1. 0 \in Int /\ worker[w].file \in Files
    BY <1>17 DEF TypeOK, WorkerStates
  <2>2. worker' \in [Workers -> WorkerStates]
    BY <1>17, <2>1, WorkStepLeaves DEF Embed
  <2>3. worker[w].arg \in 0 .. MaxDisturbances + 1
    BY <1>17 DEF ArgsInv, WorkerArg, Embed
  <2>4. artifact' \in [Files -> 0 .. MaxDisturbances + 1]
    BY <1>17, <2>1, <2>3 DEF TypeOK, Embed
  <2>5. QED
    BY <1>17, <2>1, <2>2, <2>3, <2>4 DEF TypeOK, Embed, rows
<1>18. ASSUME NEW w \in Workers, Succeed(w) PROVE TypeOK'
  <2>1. worker' \in [Workers -> WorkerStates]
    BY <1>18, WorkerBecomes, NoStatesAreStates DEF Succeed, NoStates
  <2>2. worker[w].file \in Files
    BY <1>18 DEF TypeOK, WorkerStates
  <2>3. processed' \in [Files -> Statuses]
    BY <1>18, <2>2, RowBecomes DEF Succeed, Statuses
  <2>4. QED
    BY <1>18, <2>1, <2>2, <2>3 DEF TypeOK, Succeed, rows
<1>19. ASSUME NEW w \in Workers, NEW code \in Codes, WorkFails(w, code) PROVE TypeOK'
  <2>1. code \in Int
    BY <1>19
  <2>2. worker' \in [Workers -> WorkerStates]
    BY <1>19, <2>1, WorkStepLeaves DEF WorkFails
  <2>3. QED
    BY <1>19, <2>1, <2>2 DEF TypeOK, WorkFails, rows
<1>20. ASSUME NEW w \in Workers, FailRead(w) PROVE TypeOK'
  <2>1. Escalated(processed[worker[w].file], worker[w].arg) \in Int
    BY <1>20, RecordedCodes DEF ArgsInv, WorkerArg, FailRead
  <2>2. worker' \in [Workers -> WorkerStates]
    BY <1>20, <2>1, WorkStepLeaves DEF FailRead
  <2>3. QED
    BY <1>20, <2>1, <2>2 DEF TypeOK, FailRead, rows
<1>21. ASSUME NEW w \in Workers, FailWrite(w) PROVE TypeOK'
  <2>1. worker' \in [Workers -> WorkerStates]
    BY <1>21, WorkerBecomes, NoStatesAreStates DEF FailWrite, NoStates
  <2>2. worker[w].file \in Files /\ worker[w].arg \in Statuses
    BY <1>21, RecordedCodes DEF TypeOK, WorkerStates, ArgsInv, WorkerArg, FailWrite
  <2>3. processed' \in [Files -> Statuses]
    BY <1>21, <2>2, RowBecomes DEF FailWrite
  <2>4. QED
    BY <1>21, <2>1, <2>2, <2>3 DEF TypeOK, FailWrite, rows
<1>22. CASE ResetErrors
  <2>1. processed' \in [Files -> Statuses]
    BY <1>22 DEF TypeOK, ResetErrors, Statuses, Unprocessed
  <2>2. disturbances' \in 0 .. MaxDisturbances
    BY <1>22 DEF TypeOK, ResetErrors, Disturb
  <2>3. QED
    BY <1>22, <2>1, <2>2 DEF TypeOK, ResetErrors, rows
<1>23. ASSUME NEW n \in QueueSizes, ConfigMaxQueueSize(n) PROVE TypeOK'
  <2>1. disturbances' \in 0 .. MaxDisturbances
    BY <1>23 DEF TypeOK, ConfigMaxQueueSize, Disturb
  <2>2. QED
    BY <1>23, <2>1 DEF TypeOK, ConfigMaxQueueSize, rows
<1>24. CASE MediaShutdown
  <2>1. processed' \in [Files -> Statuses]
    BY <1>24 DEF TypeOK, MediaShutdown, Cleared, Statuses, Unprocessed
  <2>2. disturbances' \in 0 .. MaxDisturbances
    BY <1>24 DEF TypeOK, MediaShutdown, Disturb
  <2>3. QED
    BY <1>24, <2>1, <2>2 DEF TypeOK, MediaShutdown, rows
<1>25. CASE DrainBegin
  BY <1>25 DEF TypeOK, DrainBegin, rows
<1>26. CASE DrainEnd
  <2>1. Die /\ disturbances' \in 0 .. MaxDisturbances
    BY <1>26 DEF TypeOK, DrainEnd
  <2>2. worker' \in [Workers -> WorkerStates] /\ job' \in [Jobs -> JobStates]
        /\ scan' \in [file : Files, version : 0 .. MaxDisturbances + 1]
    BY <1>26, <2>1, NoStatesAreStates DEF NoStates, Die
  <2>3. queue' \in Seq(Files)
    BY <1>26, <2>1, EmptySeq DEF Die
  <2>4. QED
    BY <1>26, <2>1, <2>2, <2>3 DEF TypeOK, DrainEnd, Die, rows
<1>27. CASE Crash
  <2>1. Die /\ disturbances' \in 0 .. MaxDisturbances
    BY <1>27 DEF TypeOK, Crash, Disturb
  <2>2. worker' \in [Workers -> WorkerStates] /\ job' \in [Jobs -> JobStates]
        /\ scan' \in [file : Files, version : 0 .. MaxDisturbances + 1]
    BY <1>27, <2>1, NoStatesAreStates DEF NoStates, Die
  <2>3. queue' \in Seq(Files)
    BY <1>27, <2>1, EmptySeq DEF Die
  <2>4. QED
    BY <1>27, <2>1, <2>2, <2>3 DEF TypeOK, Crash, Die, rows
<1>28. CASE Startup
  <2>1. processed' \in [Files -> Statuses]
    BY <1>28 DEF TypeOK, Startup, Cleared, Statuses, Unprocessed
  <2>2. QED
    BY <1>28, <2>1 DEF TypeOK, Startup, rows
<1>29. CASE UNCHANGED vars
  BY <1>29 DEF TypeOK, vars, rows
<1>30. QED
  BY <1>1, <1>2, <1>3, <1>4, <1>5, <1>6, <1>7, <1>8, <1>9, <1>10, <1>11, <1>12, <1>13,
     <1>14, <1>15, <1>16, <1>17, <1>18, <1>19, <1>20, <1>21, <1>22, <1>23, <1>24, <1>25,
     <1>26, <1>27, <1>28, <1>29 DEF Next, JobStep, WorkerStep, LifeStep

\* Who moves the threads, the runs, and the bound on content.
LEMMA OnlyThreadsMoveThreads ==
  ASSUME [Next]_vars
  PROVE  UNCHANGED worker \/ Die \/ \E w \in Workers : Take(w) \/ WorkerStep(w)
BY DEF Next, JobStep, LifeStep, vars, FileChanges, ScanStat, ScanUpsert, ProcessMedia, RouteRefused,
       RouteFull, RouteImage, SubmitImage, RouteOther, CheckSkipped, JobFailRead, JobFailWrite,
       ResetErrors, ConfigMaxQueueSize, MediaShutdown, DrainBegin, DrainEnd, Crash, Startup

LEMMA OnlyRunsMoveRuns ==
  ASSUME [Next]_vars
  PROVE  UNCHANGED job \/ Die \/ \E j \in Jobs : ProcessMedia(j) \/ JobStep(j)
BY DEF Next, WorkerStep, LifeStep, vars, FileChanges, ScanStat, ScanUpsert, Take, ReadStatus,
       MarkInProgress, Work, Embed, Succeed, WorkFails, FailRead, FailWrite, ResetErrors,
       ConfigMaxQueueSize, MediaShutdown, DrainBegin, DrainEnd, Crash, Startup

LEMMA ContentIsBounded ==
  ASSUME TypeOK, ArgsInv, [Next]_vars
  PROVE  \A f \in Files : content'[f] <= disturbances' + 1
<1>1. \A f \in Files : content[f] \in Int /\ content[f] <= disturbances + 1
  BY DEF TypeOK, ArgsInv
<1>2. disturbances \in Int
  BY DEF TypeOK
<1>3. CASE content' = content /\ (disturbances' = disturbances \/ disturbances' = disturbances + 1)
  BY <1>1, <1>2, <1>3
<1>4. ASSUME NEW f \in Files, FileChanges(f) PROVE \A g \in Files : content'[g] <= disturbances' + 1
  <2>1. \A g \in Files : content'[g] = IF g = f THEN content[g] + 1 ELSE content[g]
    BY <1>4 DEF FileChanges, TypeOK
  <2>2. disturbances' = disturbances + 1
    BY <1>4 DEF FileChanges, Disturb
  <2>3. QED
    BY <1>1, <1>2, <2>1, <2>2
<1>5. QED
  BY <1>3, <1>4
  DEF Next, JobStep, LifeStep, WorkerStep, vars, ScanStat, ScanUpsert, ProcessMedia, RouteRefused,
      RouteFull, RouteImage, SubmitImage, RouteOther, CheckSkipped, JobFailRead, JobFailWrite, Take,
      ReadStatus, MarkInProgress, Work, Embed, Succeed, WorkFails, FailRead, FailWrite, ResetErrors,
      ConfigMaxQueueSize, MediaShutdown, DrainBegin, DrainEnd, Crash, Startup, Die, Disturb

\* The args of the threads.
LEMMA ThreadArgs ==
  ASSUME TypeOK, ArgsInv, [Next]_vars
  PROVE  \A w \in Workers : WorkerArg(w)'
<1> SUFFICES ASSUME NEW v \in Workers PROVE WorkerArg(v)'
  OBVIOUS
<1> USE DEF ArgsInv, WorkerArg
<1>1. CASE worker'[v] = worker[v]
  BY <1>1
<1>2. CASE worker'[v].pc \notin {"embed", "fail", "write"}
  BY <1>2
<1>3. ASSUME NEW w \in Workers, Take(w) \/ WorkerStep(w) PROVE WorkerArg(v)'
  <2>1. worker[w].file \in Files /\ 0 \in Int
    BY DEF TypeOK, WorkerStates
  <2>2. ASSUME NEW new \in WorkerStates, worker' = [worker EXCEPT ![w] = new],
               new.pc \notin {"embed", "fail", "write"}
        PROVE  WorkerArg(v)'
    BY <2>2, <1>1, <1>2, WorkerBecomes
  <2>3. ASSUME NEW pc \in {"idle", "read", "mark", "work", "embed", "done", "fail", "write"},
               NEW arg \in Int, WorkStep(w, pc, arg),
               pc = "embed" => arg \in 1 .. MaxDisturbances + 1,
               pc = "fail" => arg \in Codes, pc = "write" => arg \in Recorded
        PROVE  WorkerArg(v)'
    <3>1. /\ worker'[w] = [pc |-> pc, file |-> worker[w].file, arg |-> arg]
          /\ v # w => worker'[v] = worker[v]
      BY <2>3, WorkStepLeaves
    <3>2. CASE v = w
      BY <2>3, <3>1, <3>2
    <3>3. QED
      BY <1>1, <3>1, <3>2
  <2>4. NoWork \in WorkerStates /\ NoWork.pc \notin {"embed", "fail", "write"}
    BY NoStatesAreStates DEF NoStates, NoWork
  <2>5. CASE Take(w)
    <3>1. Head(queue) \in Files
      BY <2>5, HeadTailProperties DEF TypeOK, Take
    <3>2. [pc |-> "read", file |-> Head(queue), arg |-> 0] \in WorkerStates
      BY <3>1 DEF WorkerStates
    <3>3. QED
      BY <2>2, <2>5, <3>2 DEF Take
  <2>6. CASE ReadStatus(w) \/ MarkInProgress(w) \/ Embed(w) \/ Succeed(w) \/ FailWrite(w)
    BY <2>1, <2>2, <2>3, <2>4, <2>6 DEF ReadStatus, MarkInProgress, Embed, Succeed, FailWrite
  <2>7. CASE Work(w)
    <3>1. content[worker[w].file] \in 1 .. MaxDisturbances + 1 /\ content[worker[w].file] \in Int
      BY <2>1 DEF TypeOK
    <3>2. CASE WorkStep(w, "embed", content[worker[w].file])
      BY <2>3, <3>1, <3>2
    <3>3. QED
      BY <2>1, <2>3, <2>7, <3>2 DEF Work
  <2>8. ASSUME NEW code \in Codes, WorkFails(w, code) PROVE WorkerArg(v)'
    <3>1. code \in Int
      BY FilesAssumption
    <3>2. QED
      BY <2>3, <2>8, <3>1 DEF WorkFails
  <2>9. CASE FailRead(w)
    <3>1. Escalated(processed[worker[w].file], worker[w].arg) \in Recorded
      BY <2>9, RecordedCodes DEF FailRead
    <3>2. QED
      BY <2>3, <2>9, <3>1, RecordedCodes DEF FailRead
  <2>10. QED
    BY <1>3, <2>5, <2>6, <2>7, <2>8, <2>9 DEF WorkerStep
<1>4. CASE Die
  BY <1>2, <1>4 DEF Die, NoWork
<1>5. QED
  BY <1>1, <1>3, <1>4, OnlyThreadsMoveThreads

\* The args of the runs of ProcessMedia.
LEMMA RunArgs ==
  ASSUME TypeOK, ArgsInv, [Next]_vars
  PROVE  \A j \in Jobs : JobArg(j)'
<1> SUFFICES ASSUME NEW k \in Jobs PROVE JobArg(k)'
  OBVIOUS
<1> USE DEF ArgsInv, JobArg
<1>1. CASE job'[k] = job[k]
  BY <1>1
<1>2. CASE job'[k] = NoJob \/ (job'[k].pc = "route" /\ job'[k].todo # {})
  BY <1>2 DEF NoJob
<1>3. ASSUME NEW j \in Jobs, ProcessMedia(j) \/ JobStep(j) PROVE JobArg(k)'
  <2>1. job[j].arg \in Int
    BY DEF TypeOK, JobStates
  <2>2. ASSUME NEW pc \in {"none", "route", "submit", "check", "escalate", "write"}, NEW arg \in Int,
               RunGoes(j, pc, arg), job[j].pc # "none", pc = "write" => arg \in Recorded
        PROVE  JobArg(k)'
    <3>1. /\ job'[j] = [pc |-> pc, todo |-> job[j].todo, arg |-> arg]
          /\ k # j => job'[k] = job[k]
      BY <2>2, RunGoesTo
    <3>2. CASE k = j
      BY <2>2, <3>1, <3>2
    <3>3. QED
      BY <1>1, <3>1, <3>2
  <2>3. CASE ProcessMedia(j)
    <3>1. [pc |-> "route", todo |-> listUnprocessed(max_processing_queue_size_ - Len(queue)), arg |-> 0]
            \in JobStates
      BY DEF listUnprocessed, JobStates
    <3>2. QED
      BY <2>3, <3>1, <1>1, <1>2, JobBecomes DEF ProcessMedia
  <2>4. CASE RouteRefused(j) \/ RouteFull(j) \/ RouteImage(j)
    BY <2>1, <2>2, <2>4 DEF Goto, RouteRefused, RouteFull, RouteImage
  <2>5. CASE NextFile(j)
    BY <2>5, <1>1, <1>2, NextFileLeaves
  <2>6. CASE CheckSkipped(j)
    BY <2>1, <2>2, <2>5, <2>6 DEF CheckSkipped, Goto
  <2>7. CASE JobFailRead(j)
    <3>1. Escalated(processed[File(j)], -1) \in Recorded
      BY RecordedCodes
    <3>2. QED
      BY <2>2, <2>7, <3>1, RecordedCodes DEF JobFailRead
  <2>8. QED
    BY <1>3, <2>3, <2>4, <2>5, <2>6, <2>7 DEF JobStep, SubmitImage, RouteOther, JobFailWrite
<1>4. CASE Die
  BY <1>2, <1>4 DEF Die
<1>5. QED
  BY <1>1, <1>3, <1>4, OnlyRunsMoveRuns

-----------------------------------------------------------------------------
(* The rows.                                                               *)

InHand == {"work", "embed", "done", "fail", "write"}

\* The files that the threads have in hand stay in hand while no thread lets go.
LEMMA StaysInHand ==
  ASSUME NEW f \in Files, WorkedOn(f),
         \A w \in Workers :
           \/ worker'[w] = worker[w]
           \/ worker[w].pc \notin InHand
           \/ worker[w].file # f
           \/ worker'[w].file = f /\ worker'[w].pc \in InHand
  PROVE  WorkedOn(f)'
BY DEF WorkedOn, InHand

\* A step that marks nothing in progress and lets go of nothing.
LEMMA NothingLetGo ==
  ASSUME InProgressIsInHand, alive' => alive,
         \A f \in Files : processed'[f] = InProgress => processed[f] = InProgress,
         \A f \in Files : processed[f] = InProgress /\ WorkedOn(f) => WorkedOn(f)'
  PROVE  InProgressIsInHand'
BY DEF InProgressIsInHand

\* The flag of a file in progress is backed by a thread.
LEMMA InProgressStep ==
  ASSUME Inv, [Next]_vars
  PROVE  InProgressIsInHand'
<1> USE DEF Inv
<1>1. ASSUME UNCHANGED <<worker, phase>>, NEW f \in Files, NEW status \in Statuses, Mark(f, status),
             status # InProgress
      PROVE  InProgressIsInHand'
  BY <1>1, RowBecomes, NothingLetGo DEF alive, WorkedOn
<1>2. CASE UNCHANGED <<processed, worker, phase>>
  BY <1>2, NothingLetGo DEF alive, WorkedOn
<1>3. ASSUME NEW w \in Workers, NEW new \in WorkerStates, worker' = [worker EXCEPT ![w] = new],
             UNCHANGED <<processed, phase>>,
             worker[w].pc \notin InHand \/ (new.pc \in InHand /\ new.file = worker[w].file)
      PROVE  InProgressIsInHand'
  <2>1. /\ worker'[w] = new /\ \A v \in Workers : v # w => worker'[v] = worker[v]
    BY <1>3, WorkerBecomes
  <2>2. \A f \in Files : WorkedOn(f) => WorkedOn(f)'
    BY <1>3, <2>1, StaysInHand
  <2>3. QED
    BY <1>3, <2>2, NothingLetGo DEF alive
<1>4. ASSUME NEW w \in Workers, NEW status \in Statuses, Mark(worker[w].file, status),
             status # InProgress, worker' = [worker EXCEPT ![w] = NoWork], UNCHANGED phase
      PROVE  InProgressIsInHand'
  <2>1. worker[w].file \in Files
    BY DEF TypeOK, WorkerStates
  <2>2. /\ processed'[worker[w].file] = status
        /\ \A g \in Files : g # worker[w].file => processed'[g] = processed[g]
    BY <1>4, <2>1, RowBecomes
  <2>3. \A v \in Workers : v # w => worker'[v] = worker[v]
    BY <1>4 DEF TypeOK
  <2>4. ASSUME NEW f \in Files, alive', processed'[f] = InProgress PROVE WorkedOn(f)'
    <3>1. f # worker[w].file /\ processed[f] = InProgress
      BY <1>4, <2>2, <2>4
    <3>2. WorkedOn(f)
      BY <1>4, <2>4, <3>1 DEF InProgressIsInHand, alive
    <3>3. QED
      BY <2>3, <3>1, <3>2, StaysInHand
  <2>5. QED
    BY <2>4 DEF InProgressIsInHand
<1>5. ASSUME NEW j \in Jobs, JobStep(j) PROVE InProgressIsInHand'
  <2>1. job[j].pc # "none" => File(j) \in Files
    BY FileIsOfTheList DEF ArgsInv, JobArg
  <2>2. CASE RouteFull(j)
    BY <1>1, <2>1, <2>2 DEF RouteFull, Statuses, Skipped, InProgress
  <2>3. CASE RouteImage(j)
    BY <1>1, <2>1, <2>3 DEF RouteImage, Statuses, QueuedUp, InProgress
  <2>4. CASE JobFailWrite(j)
    <3>1. job[j].arg \in Statuses /\ job[j].arg # InProgress
      BY <2>4, RecordedCodes DEF ArgsInv, JobArg, JobFailWrite, InProgress
    <3>2. QED
      BY <1>1, <2>1, <2>4, <3>1 DEF JobFailWrite
  <2>5. CASE RouteRefused(j) \/ SubmitImage(j) \/ RouteOther(j) \/ CheckSkipped(j) \/ JobFailRead(j)
    BY <1>2, <2>5 DEF RouteRefused, SubmitImage, RouteOther, CheckSkipped, JobFailRead, rows
  <2>6. QED
    BY <1>5, <2>2, <2>3, <2>4, <2>5 DEF JobStep
<1>6. ASSUME NEW w \in Workers, Take(w) \/ WorkerStep(w) PROVE InProgressIsInHand'
  <2>1. worker[w].file \in Files /\ worker[w] \in WorkerStates
    BY DEF TypeOK, WorkerStates
  <2>2. ASSUME NEW pc \in {"mark", "work", "embed", "done", "fail", "write"}, NEW arg \in Int,
               WorkStep(w, pc, arg), UNCHANGED <<processed, phase>>,
               worker[w].pc \notin InHand \/ pc \in InHand
        PROVE  InProgressIsInHand'
    <3> DEFINE new == [pc |-> pc, file |-> worker[w].file, arg |-> arg]
    <3>1. new \in WorkerStates /\ new.pc = pc /\ new.file = worker[w].file
      BY <2>1 DEF WorkerStates
    <3>2. worker' = [worker EXCEPT ![w] = new]
      BY <2>2 DEF WorkStep
    <3> HIDE DEF new
    <3>3. QED
      BY <1>3, <2>2, <3>1, <3>2
  <2>3. 0 \in Int /\ NoWork \in WorkerStates
    BY NoStatesAreStates DEF NoStates
  <2>4. CASE Take(w)
    <3> DEFINE new == [pc |-> "read", file |-> Head(queue), arg |-> 0]
    <3>1. Head(queue) \in Files
      BY <2>4, HeadTailProperties DEF TypeOK, Take
    <3>2. new \in WorkerStates
      BY <3>1 DEF WorkerStates
    <3>3. QED
      BY <1>3, <2>4, <3>2 DEF Take, rows, InHand
  <2>5. CASE ReadStatus(w)
    BY <1>3, <2>2, <2>3, <2>5 DEF ReadStatus, rows, InHand
  <2>6. CASE MarkInProgress(w)
    <3>1. processed' \in [Files -> Statuses]
          /\ \A g \in Files : g # worker[w].file => processed'[g] = processed[g]
      BY <2>1, <2>6, RowBecomes DEF MarkInProgress, Statuses
    <3>2. /\ worker'[w] = [pc |-> "work", file |-> worker[w].file, arg |-> 0]
          /\ \A v \in Workers : v # w => worker'[v] = worker[v]
      BY <2>3, <2>6, WorkStepLeaves DEF MarkInProgress
    <3>3. \A f \in Files : WorkedOn(f) => WorkedOn(f)'
      BY <2>6, <3>2, StaysInHand DEF MarkInProgress, InHand
    <3>4. QED
      <4>1. ASSUME NEW f \in Files, alive', processed'[f] = InProgress PROVE WorkedOn(f)'
        <5>1. CASE f = worker[w].file
          BY <3>2, <5>1 DEF WorkedOn
        <5>2. CASE f # worker[w].file
          BY <2>6, <3>1, <3>3, <4>1, <5>2 DEF MarkInProgress, InProgressIsInHand, alive
        <5>3. QED
          BY <5>1, <5>2
      <4>2. QED
        BY <4>1 DEF InProgressIsInHand
  <2>7. CASE Work(w)
    <3>1. content[worker[w].file] \in Int
      BY <2>1 DEF TypeOK
    <3>2. QED
      BY <2>2, <2>3, <2>7, <3>1 DEF Work, rows, InHand
  <2>8. CASE Embed(w)
    BY <2>2, <2>3, <2>8 DEF Embed, rows, InHand
  <2>9. CASE Succeed(w)
    <3>1. Complete \in Statuses /\ Complete # InProgress
      BY DEF Statuses, Complete, InProgress
    <3>2. QED
      BY <1>4, <2>9, <3>1 DEF Succeed
  <2>10. ASSUME NEW code \in Codes, WorkFails(w, code) PROVE InProgressIsInHand'
    <3>1. code \in Int
      BY FilesAssumption
    <3>2. QED
      BY <2>2, <2>10, <3>1 DEF WorkFails, rows, InHand
  <2>11. CASE FailRead(w)
    <3>1. Escalated(processed[worker[w].file], worker[w].arg) \in Int
      BY <2>11, RecordedCodes DEF ArgsInv, WorkerArg, FailRead
    <3>2. QED
      BY <2>2, <2>11, <3>1 DEF FailRead, rows, InHand
  <2>12. CASE FailWrite(w)
    <3>1. worker[w].arg \in Statuses /\ worker[w].arg # InProgress
      BY <2>12, RecordedCodes DEF ArgsInv, WorkerArg, FailWrite, InProgress
    <3>2. QED
      BY <1>4, <2>12, <3>1 DEF FailWrite
  <2>13. QED
    BY <1>6, <2>4, <2>5, <2>6, <2>7, <2>8, <2>9, <2>10, <2>11, <2>12 DEF WorkerStep
<1>7. CASE ScanUpsert
  <2>1. scan.file \in Files
    BY DEF TypeOK
  <2>2. CASE Mark(scan.file, Unprocessed)
    BY <1>1, <1>7, <2>1, <2>2 DEF ScanUpsert, Statuses, Unprocessed, InProgress
  <2>3. QED
    BY <1>2, <1>7, <2>2 DEF ScanUpsert, rows
<1>8. CASE ResetErrors
  <2>1. \A f \in Files : processed'[f] = InProgress => processed[f] = InProgress
    BY <1>8 DEF ResetErrors, Unprocessed, InProgress
  <2>2. QED
    BY <1>8, <2>1, NothingLetGo DEF ResetErrors, alive, WorkedOn
<1>9. CASE MediaShutdown \/ Startup
  <2>1. \A f \in Files : processed'[f] # InProgress
    BY <1>9 DEF MediaShutdown, Startup, Cleared, Unprocessed, InProgress
  <2>2. QED
    BY <2>1 DEF InProgressIsInHand
<1>10. CASE DrainBegin
  BY <1>10, NothingLetGo DEF DrainBegin, alive, rows, WorkedOn
<1>11. CASE Die
  BY <1>11 DEF Die, InProgressIsInHand, alive
<1>12. QED
  BY <1>2, <1>5, <1>6, <1>7, <1>8, <1>9, <1>10, <1>11
  DEF Next, LifeStep, DrainEnd, Crash, vars, rows, FileChanges, ScanStat, ProcessMedia,
      ConfigMaxQueueSize

-----------------------------------------------------------------------------
(* The queue.                                                              *)

\* A shorter queue, or the same one with no run newly at submit.
LEMMA QueueShrinks ==
  ASSUME Inv, Len(queue') \in Nat, Len(queue') <= Len(queue),
         \A j \in Jobs : job'[j].pc = "submit" => job[j].pc = "submit"
  PROVE  /\ QueueStaysBounded'
         /\ (\E j \in Jobs : job'[j].pc = "submit") => \E n \in QueueSizes : Len(queue') < n
<1> USE DEF Inv
<1>1. Len(queue) \in Nat /\ QueueSizes \subseteq Nat
  BY FilesAssumption, LenProperties DEF TypeOK
<1>2. QueueStaysBounded'
  BY <1>1 DEF QueueStaysBounded
<1>3. ASSUME \E j \in Jobs : job'[j].pc = "submit" PROVE \E n \in QueueSizes : Len(queue') < n
  BY <1>1, <1>3 DEF RoomForTheSubmitter
<1>4. QED
  BY <1>2, <1>3

\* A run that holds the mutex stays the only one.
LEMMA OneRunAtATime ==
  ASSUME Inv, NEW j \in Jobs, job[j].pc # "none" \/ RouteMutexFree,
         \A k \in Jobs : k # j => job'[k] = job[k]
  PROVE  \A k, l \in Jobs : job'[k].pc # "none" /\ job'[l].pc # "none" => k = l
BY DEF Inv, RoomForTheSubmitter, RouteMutexFree

LEMMA QueueStep ==
  ASSUME Inv, [Next]_vars
  PROVE  RoomForTheSubmitter' /\ QueueStaysBounded'
<1> USE DEF Inv
<1>1. Len(queue) \in Nat /\ QueueSizes \subseteq Nat /\ max_processing_queue_size_ \in QueueSizes
  BY FilesAssumption, LenProperties DEF TypeOK
<1>2. CASE UNCHANGED <<queue, job>>
  BY <1>2 DEF RoomForTheSubmitter, QueueStaysBounded
<1>3. ASSUME UNCHANGED job, Len(queue') \in Nat, Len(queue') <= Len(queue)
      PROVE  RoomForTheSubmitter' /\ QueueStaysBounded'
  BY <1>3, QueueShrinks DEF RoomForTheSubmitter
<1>4. ASSUME NEW w \in Workers, Take(w) \/ WorkerStep(w) PROVE RoomForTheSubmitter' /\ QueueStaysBounded'
  <2>1. CASE Take(w)
    <3>1. queue' = Tail(queue) /\ Len(Tail(queue)) = Len(queue) - 1 /\ Len(Tail(queue)) \in Nat
      BY <2>1, HeadTailProperties, LenProperties DEF Take, TypeOK
    <3>2. QED
      BY <1>1, <1>3, <2>1, <3>1 DEF Take
  <2>2. QED
    BY <1>2, <1>4, <2>1 DEF WorkerStep, ReadStatus, MarkInProgress, Work, Embed, Succeed, WorkFails,
                            FailRead, FailWrite
<1>5. ASSUME NEW j \in Jobs, ProcessMedia(j) \/ JobStep(j)
      PROVE  RoomForTheSubmitter' /\ QueueStaysBounded'
  <2>1. \/ ProcessMedia(j) /\ RouteMutexFree
        \/ JobStep(j) /\ job[j].pc # "none"
    BY <1>5 DEF ProcessMedia, JobStep, RouteRefused, RouteFull, RouteImage, SubmitImage, RouteOther,
                CheckSkipped, JobFailRead, JobFailWrite
  <2>2. job[j].arg \in Int
    BY DEF TypeOK, JobStates
  <2>3. \A k \in Jobs : k # j => job'[k] = job[k]
    BY <1>5 DEF ProcessMedia, JobStep, RouteRefused, RouteFull, RouteImage, SubmitImage, RouteOther,
                CheckSkipped, JobFailRead, JobFailWrite, NextFile, Goto, RunGoes, TypeOK
  <2>4. \A k, l \in Jobs : job'[k].pc # "none" /\ job'[l].pc # "none" => k = l
    BY <2>1, <2>3, OneRunAtATime
  <2>5. ASSUME UNCHANGED queue, job'[j].pc # "submit"
        PROVE  RoomForTheSubmitter' /\ QueueStaysBounded'
    <3>1. Len(queue') \in Nat /\ Len(queue') <= Len(queue)
      BY <1>1, <2>5
    <3>2. \A k \in Jobs : job'[k].pc = "submit" => job[k].pc = "submit"
      BY <2>3, <2>5
    <3>3. QED
      BY <2>4, <3>1, <3>2, QueueShrinks DEF RoomForTheSubmitter
  <2>6. ASSUME NextFile(j), NEW f \in Files, Submit(f), \E n \in QueueSizes : Len(queue) < n
        PROVE  RoomForTheSubmitter' /\ QueueStaysBounded'
    <3>1. Len(queue') \in Nat /\ Len(queue') <= Len(queue) + 1
      BY <1>1, <2>6, AppendProperties DEF Submit, TypeOK
    <3>2. QueueStaysBounded'
      <4>1. PICK n \in QueueSizes : Len(queue) < n
        BY <2>6
      <4>2. Len(queue') <= n
        BY <1>1, <3>1, <4>1
      <4>3. QED
        BY <4>2 DEF QueueStaysBounded
    <3>3. job'[j].pc # "submit"
      BY <2>6, NextFileLeaves DEF NoJob
    <3>4. \A k \in Jobs : job'[k].pc # "submit"
      BY <2>1, <2>3, <3>3
      DEF ProcessMedia, RoomForTheSubmitter, RouteMutexFree
    <3>5. QED
      BY <2>4, <3>2, <3>4 DEF RoomForTheSubmitter
  <2>7. CASE ProcessMedia(j)
    <3> DEFINE todo == listUnprocessed(max_processing_queue_size_ - Len(queue))
    <3>1. [pc |-> "route", todo |-> todo, arg |-> 0] \in JobStates
      BY DEF listUnprocessed, JobStates
    <3>2. job'[j] = [pc |-> "route", todo |-> todo, arg |-> 0]
      BY <2>7, <3>1, JobBecomes DEF ProcessMedia
    <3>3. QED
      BY <2>5, <2>7, <3>2 DEF ProcessMedia
  <2>8. ASSUME UNCHANGED queue, NEW pc \in {"none", "route", "submit", "check", "escalate", "write"},
               pc # "submit", NEW arg \in Int, RunGoes(j, pc, arg)
        PROVE  RoomForTheSubmitter' /\ QueueStaysBounded'
    <3>1. job'[j] = [pc |-> pc, todo |-> job[j].todo, arg |-> arg]
      BY <2>8, RunGoesTo
    <3>2. QED
      BY <2>5, <2>8, <3>1
  <2>9. CASE RouteRefused(j) \/ RouteFull(j) \/ JobFailRead(j)
    <3>1. Escalated(processed[File(j)], -1) \in Int
      BY RecordedCodes
    <3>2. QED
      BY <2>2, <2>8, <2>9, <3>1 DEF RouteRefused, RouteFull, JobFailRead, Goto
  <2>10. CASE RouteImage(j)
    <3>1. Len(queue) < max_processing_queue_size_ /\ UNCHANGED queue
      BY <2>10 DEF RouteImage, CanSubmit
    <3>2. QueueStaysBounded'
      BY <3>1 DEF QueueStaysBounded
    <3>3. QED
      BY <1>1, <2>4, <3>1, <3>2 DEF RoomForTheSubmitter
  <2>11. CASE UNCHANGED queue /\ NextFile(j)
    <3>1. job'[j].pc # "submit"
      BY <2>11, NextFileLeaves DEF NoJob
    <3>2. QED
      BY <2>5, <2>11, <3>1
  <2>12. CASE CheckSkipped(j)
    BY <2>2, <2>8, <2>11, <2>12 DEF CheckSkipped, Goto
  <2>13. CASE JobFailWrite(j)
    BY <2>11, <2>13 DEF JobFailWrite
  <2>14. CASE SubmitImage(j) \/ RouteOther(j)
    <3>1. File(j) \in Files
      BY <2>14, FileIsOfTheList DEF ArgsInv, JobArg, SubmitImage, RouteOther
    <3>2. \E n \in QueueSizes : Len(queue) < n
      BY <1>1, <2>14 DEF SubmitImage, RouteOther, CanSubmit, RoomForTheSubmitter
    <3>3. QED
      BY <2>6, <2>14, <3>1, <3>2 DEF SubmitImage, RouteOther
  <2>15. QED
    BY <1>5, <2>7, <2>9, <2>10, <2>12, <2>13, <2>14 DEF JobStep
<1>6. CASE Die
  <2>1. queue' = <<>> /\ Len(<<>>) = 0 /\ \A j \in Jobs : job'[j].pc = "none"
    BY <1>6, EmptySeq DEF Die, NoJob
  <2>2. \E n \in QueueSizes : 0 <= n
    BY <1>1
  <2>3. QED
    BY <2>1, <2>2 DEF RoomForTheSubmitter, QueueStaysBounded
<1>7. QED
  BY <1>2, <1>4, <1>5, <1>6
  DEF Next, LifeStep, DrainEnd, Crash, vars, FileChanges, ScanStat, ScanUpsert, ResetErrors,
      ConfigMaxQueueSize, MediaShutdown, DrainBegin, Startup

-----------------------------------------------------------------------------
(* The theorems.                                                           *)

LEMMA InvHolds == Spec => []Inv
<1>1. Inv /\ [Next]_vars => Inv'
  <2> SUFFICES ASSUME Inv, [Next]_vars PROVE Inv'
    OBVIOUS
  <2>1. TypeOK'
    BY TypeStep DEF Inv
  <2>2. ArgsInv'
    BY ThreadArgs, RunArgs, ContentIsBounded DEF Inv, ArgsInv
  <2>3. QED
    BY <2>1, <2>2, InProgressStep, QueueStep DEF Inv
<1>2. QED
  BY <1>1, InitInv, PTL DEF Spec

\* Every variable keeps its type, and the column "processed" holds documented
\* codes only, for any number of files, threads and runs.
THEOREM TypesAreKept == Spec => []TypeOK
<1>1. Inv => TypeOK
  BY DEF Inv
<1>2. QED
  BY <1>1, InvHolds, PTL

\* No row is forgotten while the server runs: from the flags that threads back
\* (InProgressIsInHand) and the codes that the column may hold.
THEOREM NoRowIsEverForgotten == Spec => []NoRowIsForgotten
<1>1. Inv => NoRowIsForgotten
  <2> SUFFICES ASSUME Inv, alive, NEW f \in Files, meta[f] # 0, processed[f] # InProgress
               PROVE  Settled(f) \/ Listed(f)
    BY DEF NoRowIsForgotten, Inv, InProgressIsInHand
  <2>1. \A code \in Codes : code \in {-1, -3, -4, -5, -6}
    BY FilesAssumption
  <2>2. processed[f] \in Statuses
    BY DEF Inv, TypeOK
  <2>3. QED
    BY <2>1, <2>2 DEF Statuses, Settled, Listed, Unprocessed, InProgress, Complete, Skipped, QueuedUp
<1>2. QED
  BY <1>1, InvHolds, PTL

\* The queue of the type "media_processor" never outgrows the largest limit that
\* was configured: route_mutex_ keeps the room that canSubmit saw (RoomForTheSubmitter).
THEOREM QueueIsBounded == Spec => []QueueStaysBounded
<1>1. Inv => QueueStaysBounded
  BY DEF Inv
<1>2. QED
  BY <1>1, InvHolds, PTL

=============================================================================
