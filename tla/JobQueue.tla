------------------------------ MODULE JobQueue ------------------------------
(***************************************************************************)
(* What ThreadPoolManager promises to those who submit tasks: each type has *)
(* a queue that is served first in, first out; a number of tasks within the *)
(* cap runs, at most one more of each type being started at one time; a     *)
(* task that was accepted waits, runs and ends, once for each submission;   *)
(* tasks that wait may be dropped, all of them together; nothing new is     *)
(* accepted once the queue is closed.  Threads, allowances, the order of    *)
(* the types and the size of the pool are not visible.                      *)
(***************************************************************************)
EXTENDS Integers, FiniteSets, Sequences

CONSTANTS Types, Tasks, TypeOf

VARIABLES
  accepted,   \* accepted, but not yet in its queue
  waiting,    \* the queue of each type
  running,
  outcome,    \* what became of each task
  cap,
  open        \* tasks are still accepted

jobs == <<accepted, waiting, running, outcome, cap, open>>

Init ==
  /\ accepted = {}
  /\ waiting = [ty \in Types |-> <<>>]
  /\ running = {}
  /\ outcome = [t \in Tasks |-> "new"]
  /\ cap \in Nat \ {0}
  /\ open = TRUE

Accept(t) ==
  /\ open
  /\ outcome[t] # "pending"
  /\ accepted' = accepted \cup {t}
  /\ outcome' = [outcome EXCEPT ![t] = "pending"]
  /\ UNCHANGED <<waiting, running, cap, open>>

Refuse(t) ==
  /\ ~ open
  /\ outcome[t] # "pending"
  /\ outcome' = [outcome EXCEPT ![t] = "rejected"]
  /\ UNCHANGED <<accepted, waiting, running, cap, open>>

Enqueue(t) ==
  /\ t \in accepted
  /\ accepted' = accepted \ {t}
  /\ waiting' = [waiting EXCEPT ![TypeOf[t]] = Append(@, t)]
  /\ UNCHANGED <<running, outcome, cap, open>>

\* The heads of the queues of some types start together.
Start(chosen) ==
  LET heads == { Head(waiting[ty]) : ty \in chosen }
  IN  /\ \A ty \in chosen : waiting[ty] # <<>>
      /\ heads \cap running = {}
      /\ Cardinality(running \cup heads) <= cap
      /\ waiting' = [ty \in Types |-> IF ty \in chosen THEN Tail(waiting[ty]) ELSE waiting[ty]]
      /\ running' = running \cup heads
      /\ UNCHANGED <<accepted, outcome, cap, open>>

Finish(t) ==
  /\ t \in running
  /\ running' = running \ {t}
  /\ outcome' = [outcome EXCEPT ![t] = "done"]
  /\ UNCHANGED <<accepted, waiting, cap, open>>

SetCap ==
  /\ cap' \in Nat
  /\ UNCHANGED <<accepted, waiting, running, outcome, open>>

Drop ==
  /\ waiting' = [ty \in Types |-> <<>>]
  /\ outcome' = [t \in Tasks |->
                   IF \E ty \in Types : \E i \in 1 .. Len(waiting[ty]) : waiting[ty][i] = t
                     THEN "dropped"
                     ELSE outcome[t]]
  /\ UNCHANGED <<accepted, running, cap, open>>

Close ==
  /\ open' = FALSE
  /\ UNCHANGED <<accepted, waiting, running, outcome, cap>>

Next ==
  \/ \E t \in Tasks : Accept(t) \/ Refuse(t) \/ Enqueue(t) \/ Finish(t)
  \/ \E chosen \in SUBSET Types : Start(chosen)
  \/ SetCap \/ Drop \/ Close

Spec == Init /\ [][Next]_jobs

=============================================================================
