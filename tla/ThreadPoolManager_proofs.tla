---------------------- MODULE ThreadPoolManager_proofs ----------------------
(***************************************************************************)
(* Proofs about ThreadPoolManager, for any set of types, tasks, pool sizes  *)
(* and shares: type correctness, the agreement of the three records of what *)
(* runs, the place of every pending task, and the bound on the pool.        *)
(***************************************************************************)
EXTENDS ThreadPoolManager, FiniteSetTheorems, WellFoundedInduction, TLAPS

-----------------------------------------------------------------------------
(* Lemmas about the operators schedule() is built from.                    *)

\* Of a finite set ordered by an injective f, at most k elements have fewer
\* than k predecessors: why the loop of schedule() stays within its limits.
LEMMA FewAreFirst ==
  ASSUME NEW E, IsFiniteSet(E), NEW f \in [E -> Int], IsInjective(f), NEW k \in Nat,
         NEW S, S = { e \in E : Cardinality({ u \in E : f[u] < f[e] }) < k }
  PROVE  IsFiniteSet(S) /\ Cardinality(S) <= k
<1> DEFINE P(e) == { u \in E : f[u] < f[e] }
           g == [e \in S |-> Cardinality(P(e))]
<1>1. ASSUME NEW e \in E
      PROVE  IsFiniteSet(P(e)) /\ Cardinality(P(e)) \in Nat
  BY FS_Subset, FS_CardinalityType
<1>2. g \in [S -> 0 .. k - 1]
  <2>1. ASSUME NEW e \in S
        PROVE  Cardinality(P(e)) \in 0 .. k - 1
    <3>1. e \in E /\ Cardinality(P(e)) < k
      OBVIOUS
    <3>2. Cardinality(P(e)) \in Nat
      BY <1>1, <3>1
    <3>3. QED
      BY <3>1, <3>2
  <2>2. QED
    BY <2>1
<1>3. ASSUME NEW u \in E, NEW v \in E, f[u] < f[v]
      PROVE  Cardinality(P(u)) < Cardinality(P(v))
  <2>1. P(u) \cup {u} \subseteq P(v)
    BY <1>3
  <2>2. u \notin P(u)
    OBVIOUS
  <2>3. Cardinality(P(u) \cup {u}) = Cardinality(P(u)) + 1
    BY <1>1, <2>2, FS_AddElement
  <2>4. Cardinality(P(u) \cup {u}) <= Cardinality(P(v))
    BY <1>1, <2>1, FS_Subset
  <2>5. QED
    BY <1>1, <2>3, <2>4
<1>4. IsInjective(g)
  <2> SUFFICES ASSUME NEW u \in S, NEW v \in S, g[u] = g[v]
               PROVE  u = v
    BY DEF IsInjective
  <2>1. ~ (f[u] < f[v]) /\ ~ (f[v] < f[u])
    BY <1>1, <1>3
  <2>2. f[u] = f[v]
    BY <2>1
  <2>3. QED
    BY <2>2 DEF IsInjective
<1>5. IsFiniteSet(0 .. k - 1) /\ Cardinality(0 .. k - 1) = k
  BY FS_Interval
<1>6. g \in Injection(S, 0 .. k - 1)
  BY <1>2, <1>4 DEF Injection
<1> HIDE DEF g
<1>7. QED
  BY <1>5, <1>6, FS_Injection

\* The loop visits every registered type at a turn of its own.
LEMMA TurnIsInjective ==
  ASSUME TypeOK, NEW u \in Registered, NEW v \in Registered
  PROVE  /\ Turn(u) \in 0 .. Len(round_robin_types_) - 1
         /\ Turn(u) = Turn(v) => u = v
<1> DEFINE n == Len(round_robin_types_)
           start == rr_index_ % n
           pos(ty) == CHOOSE p \in 0 .. n - 1 : round_robin_types_[p + 1] = ty
<1>1. n \in Nat \ {0}
  BY DEF TypeOK, Registered
<1>2. start \in 0 .. n - 1
  BY <1>1 DEF TypeOK
<1>3. ASSUME NEW ty \in Registered
      PROVE  pos(ty) \in 0 .. n - 1 /\ round_robin_types_[pos(ty) + 1] = ty
  <2>1. PICK i \in 1 .. n : round_robin_types_[i] = ty
    BY DEF Registered
  <2>2. i - 1 \in 0 .. n - 1 /\ round_robin_types_[(i - 1) + 1] = ty
    BY <2>1, <1>1
  <2>3. QED
    BY <2>2
<1>4. /\ Turn(u) = IF pos(u) >= start THEN pos(u) - start ELSE pos(u) - start + n
      /\ Turn(v) = IF pos(v) >= start THEN pos(v) - start ELSE pos(v) - start + n
  BY DEF Turn
<1> HIDE DEF n, start, pos
<1>5. Turn(u) = Turn(v) => pos(u) = pos(v)
  BY <1>1, <1>2, <1>3, <1>4
<1>6. Turn(u) \in 0 .. n - 1
  BY <1>1, <1>2, <1>3, <1>4
<1>7. QED
  BY <1>3, <1>5, <1>6 DEF n

\* schedule() starts at most as many tasks as the cap and the pool leave room
\* for, each the head of the queue of its type.
LEMMA StartingIsBounded ==
  ASSUME TypeOK
  PROVE  /\ Starting \subseteq Eligible
         /\ Eligible \subseteq Types
         /\ IsFiniteSet(Starting)
         /\ Cardinality(Starting) \in Nat
         /\ \A k \in Nat : Available <= k => Cardinality(Starting) <= k
         /\ \A k \in Nat : effective_max_ - running_total_ <= k => Cardinality(Starting) <= k
<1> DEFINE f == [ty \in Eligible |-> Turn(ty)]
<1>1. Starting \subseteq Eligible /\ Eligible \subseteq Registered /\ Registered \subseteq Types
  BY DEF Starting, Eligible, Registered, TypeOK
<1>2. IsFiniteSet(Eligible) /\ IsFiniteSet(Starting) /\ Cardinality(Starting) \in Nat
  BY <1>1, FS_Subset, FS_CardinalityType, TasksAssumption
<1>3. f \in [Eligible -> Int] /\ IsInjective(f)
  <2>1. ASSUME NEW u \in Eligible, NEW v \in Eligible
        PROVE  f[u] \in Int /\ (f[u] = f[v] => u = v)
    BY <1>1, TurnIsInjective
  <2>2. QED
    BY <2>1 DEF IsInjective
<1>4. ASSUME NEW ty \in Eligible
      PROVE  /\ Before(ty) = { u \in Eligible : f[u] < f[ty] }
             /\ Cardinality(Before(ty)) \in Nat
  <2>1. Before(ty) = { u \in Eligible : f[u] < f[ty] }
    BY DEF Before
  <2>2. Cardinality(Before(ty)) \in Nat
    BY <1>2, FS_Subset, FS_CardinalityType DEF Before
  <2>3. QED
    BY <2>1, <2>2
<1>5. ASSUME NEW k \in Nat, NEW m \in Int, m <= k,
             \A ty \in Starting : Cardinality(Before(ty)) < m
      PROVE  Cardinality(Starting) <= k
  <2> DEFINE S == { e \in Eligible : Cardinality({ u \in Eligible : f[u] < f[e] }) < k }
  <2> HIDE DEF f
  <2>1. IsFiniteSet(S) /\ Cardinality(S) <= k
    BY <1>2, <1>3, FewAreFirst
  <2>2. ASSUME NEW ty \in Starting
        PROVE  ty \in S
    <3>1. ty \in Eligible
      BY <1>1
    <3>2. Cardinality(Before(ty)) \in Nat /\ Cardinality(Before(ty)) < m
      BY <1>4, <1>5, <3>1
    <3>3. Cardinality(Before(ty)) < k
      BY <1>5, <3>2
    <3>4. Cardinality({ u \in Eligible : f[u] < f[ty] }) < k
      BY <1>4, <3>1, <3>3
    <3>5. QED
      BY <3>1, <3>4
  <2>3. Cardinality(Starting) <= Cardinality(S) /\ Cardinality(S) \in Nat
    BY <2>1, <2>2, FS_Subset, FS_CardinalityType
  <2>4. QED
    BY <1>2, <2>1, <2>3
<1>6. Available \in Int /\ effective_max_ - running_total_ \in Int
  <2>1. busy \subseteq Tasks /\ capacity \in Nat /\ effective_max_ \in Nat /\ running_total_ \in Nat
    BY DEF TypeOK
  <2>2. Cardinality(busy) \in Nat
    BY <2>1, FS_Subset, FS_CardinalityType, TasksAssumption
  <2>3. QED
    BY <2>1, <2>2 DEF Available
<1>7. \A ty \in Starting : /\ Cardinality(Before(ty)) < effective_max_ - running_total_
                           /\ Cardinality(Before(ty)) < Available
  BY DEF Starting
<1>8. QED
  BY <1>1, <1>2, <1>5, <1>6, <1>7

-----------------------------------------------------------------------------
(* Queues without repetition: what Append and Tail do to their elements.    *)

LEMMA TailElements ==
  ASSUME NEW T, NEW s \in Seq(T), s # <<>>, IsInjective(s)
  PROVE  /\ Tail(s) \in Seq(T) /\ Head(s) \in T
         /\ Head(s) \in { s[i] : i \in 1 .. Len(s) }
         /\ { Tail(s)[i] : i \in 1 .. Len(Tail(s)) } = { s[i] : i \in 1 .. Len(s) } \ {Head(s)}
         /\ IsInjective(Tail(s))
<1>1. /\ Tail(s) \in Seq(T) /\ Head(s) = s[1] /\ Len(s) \in Nat \ {0}
      /\ Len(Tail(s)) = Len(s) - 1
      /\ \A i \in 1 .. Len(s) - 1 : Tail(s)[i] = s[i + 1]
  OBVIOUS
<1>2. DOMAIN s = 1 .. Len(s) /\ DOMAIN Tail(s) = 1 .. Len(s) - 1
  BY <1>1
<1>3. ASSUME NEW x
      PROVE  x \in { Tail(s)[i] : i \in 1 .. Len(Tail(s)) }
               <=> x \in { s[i] : i \in 1 .. Len(s) } \ {Head(s)}
  <2>1. ASSUME NEW i \in 1 .. Len(Tail(s)), x = Tail(s)[i]
        PROVE  x \in { s[j] : j \in 1 .. Len(s) } \ {Head(s)}
    <3>1. i + 1 \in 1 .. Len(s) /\ x = s[i + 1] /\ i + 1 # 1 /\ 1 \in 1 .. Len(s)
      BY <1>1, <2>1
    <3>2. s[i + 1] # s[1]
      BY <1>2, <3>1 DEF IsInjective
    <3>3. QED
      BY <1>1, <3>1, <3>2
  <2>2. ASSUME NEW i \in 1 .. Len(s), x = s[i], x # Head(s)
        PROVE  x \in { Tail(s)[j] : j \in 1 .. Len(Tail(s)) }
    <3>1. i # 1
      BY <1>1, <2>2
    <3>2. i - 1 \in 1 .. Len(Tail(s)) /\ Tail(s)[i - 1] = s[i]
      BY <1>1, <3>1
    <3>3. QED
      BY <2>2, <3>2
  <2>3. QED
    BY <2>1, <2>2
<1>4. IsInjective(Tail(s))
  <2> SUFFICES ASSUME NEW i \in 1 .. Len(s) - 1, NEW j \in 1 .. Len(s) - 1,
                      Tail(s)[i] = Tail(s)[j]
               PROVE  i = j
    BY <1>2 DEF IsInjective
  <2>1. i + 1 \in 1 .. Len(s) /\ j + 1 \in 1 .. Len(s) /\ s[i + 1] = s[j + 1]
    BY <1>1
  <2>2. i + 1 = j + 1
    BY <1>2, <2>1 DEF IsInjective
  <2>3. QED
    BY <2>2
<1>5. Head(s) \in T /\ Head(s) \in { s[i] : i \in 1 .. Len(s) }
  <2>1. 1 \in 1 .. Len(s)
    BY <1>1
  <2>2. QED
    BY <1>1, <2>1
<1>6. QED
  BY <1>1, <1>3, <1>4, <1>5

LEMMA AppendElements ==
  ASSUME NEW T, NEW s \in Seq(T), NEW x \in T, IsInjective(s),
         x \notin { s[i] : i \in 1 .. Len(s) }
  PROVE  /\ Append(s, x) \in Seq(T)
         /\ Append(s, x) # <<>>
         /\ { Append(s, x)[i] : i \in 1 .. Len(Append(s, x)) }
              = { s[i] : i \in 1 .. Len(s) } \cup {x}
         /\ IsInjective(Append(s, x))
<1> DEFINE q == Append(s, x)
<1>1. /\ q \in Seq(T) /\ Len(s) \in Nat /\ Len(q) = Len(s) + 1 /\ DOMAIN q = 1 .. Len(s) + 1
      /\ q[Len(s) + 1] = x
      /\ \A i \in 1 .. Len(s) : q[i] = s[i]
  OBVIOUS
<1> HIDE DEF q
<1>2. ASSUME NEW y
      PROVE  y \in { q[i] : i \in 1 .. Len(q) } <=> y \in { s[i] : i \in 1 .. Len(s) } \cup {x}
  <2>1. ASSUME NEW i \in 1 .. Len(q), y = q[i]
        PROVE  y \in { s[j] : j \in 1 .. Len(s) } \cup {x}
    <3>1. i \in 1 .. Len(s) \/ i = Len(s) + 1
      BY <1>1
    <3>2. QED
      BY <1>1, <2>1, <3>1
  <2>2. ASSUME NEW i \in 1 .. Len(s), y = s[i]
        PROVE  y \in { q[j] : j \in 1 .. Len(q) }
    <3>1. i \in 1 .. Len(q) /\ y = q[i]
      BY <1>1, <2>2
    <3>2. QED
      BY <3>1
  <2>3. x \in { q[j] : j \in 1 .. Len(q) }
    <3>1. Len(s) + 1 \in 1 .. Len(q)
      BY <1>1
    <3>2. QED
      BY <1>1, <3>1
  <2>4. QED
    BY <2>1, <2>2, <2>3
<1>3. IsInjective(q)
  <2> SUFFICES ASSUME NEW i \in 1 .. Len(s) + 1, NEW j \in 1 .. Len(s) + 1, q[i] = q[j]
               PROVE  i = j
    BY <1>1 DEF IsInjective
  <2>1. CASE i \in 1 .. Len(s) /\ j \in 1 .. Len(s)
    <3>1. s[i] = s[j] /\ DOMAIN s = 1 .. Len(s)
      BY <1>1, <2>1
    <3>2. QED
      BY <2>1, <3>1 DEF IsInjective
  <2>2. CASE i \in 1 .. Len(s) /\ j = Len(s) + 1
    <3>1. x = s[i]
      BY <1>1, <2>2
    <3>2. QED
      BY <2>2, <3>1
  <2>3. CASE i = Len(s) + 1 /\ j \in 1 .. Len(s)
    <3>1. x = s[j]
      BY <1>1, <2>3
    <3>2. QED
      BY <2>3, <3>1
  <2>4. QED
    BY <1>1, <2>1, <2>2, <2>3
<1>4. q # <<>>
  BY <1>1
<1>5. QED
  BY <1>1, <1>2, <1>3, <1>4 DEF q

-----------------------------------------------------------------------------
(* Type correctness.                                                       *)

LEMMA ScheduleKeepsTypes ==
  ASSUME TypeOK,
         NEW w \in [Tasks -> {"none", "running", "call", "winding"}],
         ScheduleLocked(w)
  PROVE  /\ busy' \subseteq Tasks
         /\ type_to_running_' \in [Types -> Nat]
         /\ type_to_queue_' \in [Types -> Seq(Tasks)]
         /\ rr_index_' \in Nat
         /\ running_total_' \in Nat
         /\ active_runnables_' \subseteq Tasks
         /\ worker' \in [Tasks -> {"none", "running", "call", "winding"}]
<1>1. /\ Starting \subseteq Types /\ Cardinality(Starting) \in Nat
      /\ \A ty \in Starting : ty \in Registered /\ type_to_queue_[ty] # <<>>
  BY StartingIsBounded DEF Eligible
<1>2. \A ty \in Starting : /\ Head(type_to_queue_[ty]) \in Tasks
                           /\ Tail(type_to_queue_[ty]) \in Seq(Tasks)
  <2>1. ASSUME NEW s \in Seq(Tasks), s # <<>>
        PROVE  Head(s) \in Tasks /\ Tail(s) \in Seq(Tasks)
    <3>1. 1 \in 1 .. Len(s) /\ Head(s) = s[1]
      BY <2>1
    <3>2. QED
      BY <2>1, <3>1
  <2>2. QED
    BY <1>1, <2>1 DEF TypeOK
<1>3. Started \subseteq Tasks
  BY <1>2 DEF Started
<1>4. rr_index_' \in Nat
  <2>1. CASE rr_index_' = rr_index_
    BY <2>1 DEF TypeOK
  <2>2. ASSUME NEW last \in Starting,
               rr_index_' = (rr_index_ + Turn(last) + 1) % Len(round_robin_types_)
        PROVE  rr_index_' \in Nat
    <3>1. Turn(last) \in 0 .. Len(round_robin_types_) - 1
      BY <1>1, TurnIsInjective
    <3>2. Len(round_robin_types_) \in Nat \ {0} /\ rr_index_ \in Nat
      BY <3>1 DEF TypeOK
    <3>3. QED
      BY <2>2, <3>1, <3>2
  <2>3. QED
    BY <2>1, <2>2 DEF ScheduleLocked, NextIndex
<1>5. busy' \subseteq Tasks /\ active_runnables_' \subseteq Tasks
  BY <1>3 DEF ScheduleLocked, TypeOK
<1>6. type_to_queue_' \in [Types -> Seq(Tasks)]
  BY <1>2 DEF ScheduleLocked, TypeOK
<1>7. type_to_running_' \in [Types -> Nat] /\ running_total_' \in Nat
  BY <1>1 DEF ScheduleLocked, TypeOK
<1>8. worker' \in [Tasks -> {"none", "running", "call", "winding"}]
  BY DEF ScheduleLocked
<1>9. QED
  BY <1>4, <1>5, <1>6, <1>7, <1>8

LEMMA InitIsTyped == Init => TypeOK
BY SizesAssumption DEF Init, TypeOK

LEMMA StepsKeepTypes == TypeOK /\ [Next]_vars => TypeOK'
<1> SUFFICES ASSUME TypeOK, [Next]_vars
             PROVE  TypeOK'
  OBVIOUS
<1> USE TasksAssumption, SizesAssumption
<1>1. ASSUME NEW t \in Tasks, SubmitAccepted(t)
      PROVE  TypeOK'
  BY <1>1 DEF TypeOK, SubmitAccepted, counters, queues, limits
<1>2. ASSUME NEW t \in Tasks, SubmitRejected(t)
      PROVE  TypeOK'
  BY <1>2 DEF TypeOK, SubmitRejected, counters, queues, limits
<1>3. ASSUME NEW t \in Tasks, SubmitEnqueue(t)
      PROVE  TypeOK'
  <2>1. TypeOf[t] \in Types
    OBVIOUS
  <2>2. /\ type_to_queue_' \in [Types -> Seq(Tasks)]
        /\ round_robin_types_' \in Seq(Types)
    BY <1>3, <2>1 DEF TypeOK, SubmitEnqueue
  <2>3. submit' \in [Tasks -> {"none", "accepted", "call"}]
    BY <1>3 DEF TypeOK, SubmitEnqueue, Calling
  <2>4. QED
    BY <1>3, <2>2, <2>3 DEF TypeOK, SubmitEnqueue, counters, limits
<1>4. ASSUME NEW t \in Tasks, SubmitSkips(t)
      PROVE  TypeOK'
  BY <1>4 DEF TypeOK, SubmitSkips, counters, queues, limits
<1>5. ASSUME NEW t \in Tasks, SubmitSchedule(t)
      PROVE  TypeOK'
  <2>1. ScheduleLocked(worker) /\ worker \in [Tasks -> {"none", "running", "call", "winding"}]
    BY <1>5 DEF SubmitSchedule, TypeOK
  <2>2. submit' \in [Tasks -> {"none", "accepted", "call"}]
    BY <1>5 DEF TypeOK, SubmitSchedule
  <2>3. QED
    BY <1>5, <2>1, <2>2, ScheduleKeepsTypes DEF TypeOK, SubmitSchedule, limits
<1>6. ASSUME NEW t \in Tasks, TaskFinish(t)
      PROVE  TypeOK'
  <2>1. TypeOf[t] \in Types /\ type_to_running_[TypeOf[t]] \in Nat
    BY DEF TypeOK
  <2>2. type_to_running_' \in [Types -> Nat] /\ running_total_' \in Nat
    BY <1>6, <2>1 DEF TypeOK, TaskFinish, GiveBack
  <2>3. worker' \in [Tasks -> {"none", "running", "call", "winding"}]
    BY <1>6 DEF TypeOK, TaskFinish, GiveBack, Calling
  <2>4. QED
    BY <1>6, <2>2, <2>3 DEF TypeOK, TaskFinish, GiveBack, queues, limits
<1>7. ASSUME NEW t \in Tasks, FinishSkips(t)
      PROVE  TypeOK'
  BY <1>7 DEF TypeOK, FinishSkips, counters, queues, limits
<1>8. ASSUME NEW t \in Tasks, FinishSchedule(t)
      PROVE  TypeOK'
  <2> DEFINE w == [worker EXCEPT ![t] = "winding"]
  <2>1. ScheduleLocked(w) /\ w \in [Tasks -> {"none", "running", "call", "winding"}]
    BY <1>8 DEF FinishSchedule, TypeOK
  <2> HIDE DEF w
  <2>2. QED
    BY <1>8, <2>1, ScheduleKeepsTypes DEF TypeOK, FinishSchedule, limits
<1>9. ASSUME NEW t \in Tasks, ThreadIdle(t)
      PROVE  TypeOK'
  BY <1>9 DEF TypeOK, ThreadIdle, counters, queues, limits
<1>10. ASSUME NEW c \in ConfigThreads, NEW n \in PoolSizes, ConfigMax(c, n)
       PROVE  TypeOK'
  BY <1>10 DEF TypeOK, ConfigMax, Calling, counters, queues
<1>11. ASSUME NEW c \in ConfigThreads, NEW ty \in Types, NEW s \in Shares, ConfigShare(c, ty, s)
       PROVE  TypeOK'
  <2>1. type_to_share_' \in [Types -> Nat]
    BY <1>11 DEF TypeOK, ConfigShare, SetShare
  <2>2. config' \in [ConfigThreads -> {"none", "call", "recreate"}]
    BY <1>11 DEF TypeOK, ConfigShare, SetShare, Calling
  <2>3. QED
    BY <1>11, <2>1, <2>2 DEF TypeOK, ConfigShare, SetShare, counters, queues
<1>12. ASSUME NEW c \in ConfigThreads, ConfigSkips(c)
       PROVE  TypeOK'
  BY <1>12 DEF TypeOK, ConfigSkips, counters, queues, limits
<1>13. ASSUME NEW c \in ConfigThreads, ConfigSchedule(c)
       PROVE  TypeOK'
  <2>1. ScheduleLocked(worker) /\ worker \in [Tasks -> {"none", "running", "call", "winding"}]
    BY <1>13 DEF ConfigSchedule, TypeOK
  <2>2. config' \in [ConfigThreads -> {"none", "call", "recreate"}]
    BY <1>13 DEF TypeOK, ConfigSchedule
  <2>3. QED
    BY <1>13, <2>1, <2>2, ScheduleKeepsTypes DEF TypeOK, ConfigSchedule, limits
<1>14. ASSUME NEW c \in ConfigThreads, ConfigRecreate(c)
       PROVE  TypeOK'
  BY <1>14 DEF TypeOK, ConfigRecreate, counters, queues, limits
<1>15. ASSUME NEW c \in ConfigThreads, RecreateThreadPool(c)
       PROVE  TypeOK'
  <2>1. capacity' \in Nat /\ busy' \subseteq Tasks
    BY <1>15 DEF TypeOK, RecreateThreadPool
  <2>2. config' \in [ConfigThreads -> {"none", "call", "recreate"}]
    BY <1>15 DEF TypeOK, RecreateThreadPool
  <2>3. QED
    BY <1>15, <2>1, <2>2 DEF TypeOK, RecreateThreadPool, ClearQueues, counters
<1>16. CASE ShutdownBegin
  BY <1>16 DEF TypeOK, ShutdownBegin, counters, queues, limits
<1>17. CASE ShutdownEnd
  BY <1>17 DEF TypeOK, ShutdownEnd, ClearQueues, counters, limits
<1>18. CASE UNCHANGED vars
  BY <1>18 DEF TypeOK, vars, counters, queues, limits
<1>19. QED
  BY <1>1, <1>2, <1>3, <1>4, <1>5, <1>6, <1>7, <1>8, <1>9, <1>10, <1>11, <1>12, <1>13, <1>14,
     <1>15, <1>16, <1>17, <1>18 DEF Next, TaskStep, ConfigStep, ShutdownStep

\* The maps, the queues and the counters of the manager keep their types: no
\* counter goes below zero, whatever the interleaving.
THEOREM TypeCorrectness == Spec => []TypeOK
<1>1. Init => TypeOK
  BY InitIsTyped
<1>2. TypeOK /\ [Next]_vars => TypeOK'
  BY StepsKeepTypes
<1>3. QED
  BY <1>1, <1>2, PTL DEF Spec

-----------------------------------------------------------------------------
(* The inductive invariant.  Its parts lean on one another: schedule() keeps *)
(* the counts because a queued task is not among the running ones, and it   *)
(* starts as many tasks as it counts because a queue holds tasks of its own *)
(* type, each once.                                                        *)

Inv ==
  /\ TypeOK
  /\ RunningCountsAgree
  /\ PendingTasksAreSomewhere
  /\ QueuedTypesAreRegistered
  /\ PoolNeverOverflows

\* The tasks schedule() starts are queued and not running, one for each type
\* in Starting.
LEMMA StartedTasks ==
  ASSUME TypeOK, PendingTasksAreSomewhere
  PROVE  /\ Started \subseteq AllQueued /\ Started \subseteq Tasks
         /\ Started \cap active_runnables_ = {}
         /\ IsFiniteSet(Started) /\ Cardinality(Started) = Cardinality(Starting)
         /\ \A ty \in Types : { t \in Started : TypeOf[t] = ty }
                                = IF ty \in Starting THEN {Head(type_to_queue_[ty])} ELSE {}
         /\ \A ty \in Starting :
              /\ IsInjective(Tail(type_to_queue_[ty]))
              /\ { Tail(type_to_queue_[ty])[i] : i \in 1 .. Len(Tail(type_to_queue_[ty])) }
                   = Queued(ty) \ {Head(type_to_queue_[ty])}
<1> DEFINE h == [ty \in Starting |-> Head(type_to_queue_[ty])]
<1>1. /\ Starting \subseteq Types /\ IsFiniteSet(Starting)
      /\ \A ty \in Starting : type_to_queue_[ty] # <<>>
  BY StartingIsBounded DEF Eligible
<1>2. ASSUME NEW ty \in Starting
      PROVE  /\ h[ty] \in Tasks /\ h[ty] \in Queued(ty) /\ TypeOf[h[ty]] = ty
             /\ IsInjective(Tail(type_to_queue_[ty]))
             /\ { Tail(type_to_queue_[ty])[i] : i \in 1 .. Len(Tail(type_to_queue_[ty])) }
                  = Queued(ty) \ {Head(type_to_queue_[ty])}
  <2>1. /\ ty \in Types /\ type_to_queue_[ty] \in Seq(Tasks) /\ type_to_queue_[ty] # <<>>
        /\ IsInjective(type_to_queue_[ty])
    BY <1>1 DEF TypeOK, PendingTasksAreSomewhere
  <2>2. /\ h[ty] \in Tasks /\ h[ty] \in Queued(ty)
        /\ IsInjective(Tail(type_to_queue_[ty]))
        /\ { Tail(type_to_queue_[ty])[i] : i \in 1 .. Len(Tail(type_to_queue_[ty])) }
             = Queued(ty) \ {Head(type_to_queue_[ty])}
    BY <2>1, TailElements DEF Queued
  <2>3. QED
    BY <2>1, <2>2 DEF PendingTasksAreSomewhere
<1>3. Started = { h[ty] : ty \in Starting }
  BY DEF Started
<1>4. IsFiniteSet(Started) /\ Cardinality(Started) = Cardinality(Starting)
  <2>1. h \in [Starting -> Started]
    BY <1>3
  <2>2. IsInjective(h)
    BY <1>2 DEF IsInjective
  <2>3. h \in Bijection(Starting, Started)
    BY <1>3, <2>1, <2>2 DEF Bijection, Injection, Surjection
  <2> HIDE DEF h
  <2>4. ExistsBijection(Starting, Started)
    BY <2>3 DEF ExistsBijection
  <2>5. QED
    BY <1>1, <2>4, FS_Bijection
<1>5. Started \subseteq AllQueued /\ Started \subseteq Tasks
  BY <1>1, <1>2, <1>3 DEF AllQueued
<1>6. Started \cap active_runnables_ = {}
  BY <1>5 DEF PendingTasksAreSomewhere
<1>7. ASSUME NEW ty \in Types
      PROVE  { t \in Started : TypeOf[t] = ty }
               = IF ty \in Starting THEN {Head(type_to_queue_[ty])} ELSE {}
  <2>1. \A t \in Started : \E u \in Starting : t = h[u] /\ TypeOf[t] = u
    BY <1>2, <1>3
  <2>2. CASE ty \in Starting
    <3>1. h[ty] \in Started /\ TypeOf[h[ty]] = ty /\ h[ty] = Head(type_to_queue_[ty])
      BY <1>2, <1>3, <2>2
    <3> HIDE DEF h
    <3>2. QED
      BY <2>1, <2>2, <3>1
  <2>3. CASE ty \notin Starting
    BY <2>1, <2>3
  <2>4. QED
    BY <2>2, <2>3
<1>8. QED
  BY <1>2, <1>4, <1>5, <1>6, <1>7

LEMMA ScheduleKeepsCounts ==
  ASSUME Inv, NEW w \in [Tasks -> {"none", "running", "call", "winding"}],
         active_runnables_ = { t \in Tasks : w[t] = "running" },
         ScheduleLocked(w)
  PROVE  RunningCountsAgree'
<1> USE DEF Inv
<1>1. /\ Started \subseteq Tasks /\ Started \cap active_runnables_ = {}
      /\ IsFiniteSet(Started) /\ Cardinality(Started) = Cardinality(Starting)
  BY StartedTasks
<1>2. active_runnables_ \subseteq Tasks /\ IsFiniteSet(active_runnables_)
  BY FS_Subset, TasksAssumption DEF TypeOK
<1>3. active_runnables_' = active_runnables_ \cup Started
  BY DEF ScheduleLocked
<1>4. active_runnables_' = { t \in Tasks : worker'[t] = "running" }
  <2>1. worker' = [t \in Tasks |-> IF t \in Started THEN "running" ELSE w[t]]
    BY DEF ScheduleLocked
  <2>2. QED
    BY <1>1, <1>3, <2>1
<1>5. running_total_' = Cardinality(active_runnables_')
  <2>1. Cardinality(active_runnables_ \cup Started)
          = Cardinality(active_runnables_) + Cardinality(Started) - Cardinality({})
    BY <1>1, <1>2, FS_Union
  <2>2. running_total_' = running_total_ + Cardinality(Starting)
    BY DEF ScheduleLocked
  <2>3. running_total_ = Cardinality(active_runnables_)
    BY DEF RunningCountsAgree
  <2>4. Cardinality({}) = 0 /\ Cardinality(active_runnables_) \in Nat /\ Cardinality(Started) \in Nat
    BY <1>1, <1>2, FS_EmptySet, FS_CardinalityType
  <2>5. QED
    BY <1>1, <1>3, <2>1, <2>2, <2>3, <2>4
<1>6. ASSUME NEW ty \in Types
      PROVE  type_to_running_'[ty] = Cardinality({ t \in active_runnables_' : TypeOf[t] = ty })
  <2> DEFINE A == { t \in active_runnables_ : TypeOf[t] = ty }
             S == { t \in Started : TypeOf[t] = ty }
  <2>1. { t \in active_runnables_' : TypeOf[t] = ty } = A \cup S
    BY <1>3
  <2>2. IsFiniteSet(A) /\ A \cap S = {}
    BY <1>1, <1>2, FS_Subset
  <2>3. type_to_running_[ty] = Cardinality(A)
    BY DEF RunningCountsAgree
  <2>4. S = IF ty \in Starting THEN {Head(type_to_queue_[ty])} ELSE {}
    BY StartedTasks
  <2>5. type_to_running_'[ty] = IF ty \in Starting THEN type_to_running_[ty] + 1
                                                   ELSE type_to_running_[ty]
    BY DEF ScheduleLocked
  <2> HIDE DEF A, S
  <2>6. CASE ty \in Starting
    <3> DEFINE x == Head(type_to_queue_[ty])
    <3>1. S = {x} /\ x \notin A
      BY <2>2, <2>4, <2>6
    <3> HIDE DEF x
    <3>2. Cardinality(A \cup {x}) = Cardinality(A) + 1
      BY <2>2, <3>1, FS_AddElement
    <3>3. QED
      BY <2>1, <2>3, <2>5, <2>6, <3>1, <3>2
  <2>7. CASE ty \notin Starting
    <3>1. A \cup S = A
      BY <2>4, <2>7
    <3>2. QED
      BY <2>1, <2>3, <2>5, <2>7, <3>1
  <2>8. QED
    BY <2>6, <2>7
<1>7. QED
  BY <1>4, <1>5, <1>6 DEF RunningCountsAgree

\* What schedule() does to the queues.
LEMMA ScheduleKeepsPlaces ==
  ASSUME Inv, NEW w, ScheduleLocked(w), fate' = fate,
         { t \in Tasks : submit'[t] = "accepted" } = { t \in Tasks : submit[t] = "accepted" }
  PROVE  PendingTasksAreSomewhere'
<1> USE DEF Inv
<1> DEFINE accepted == { t \in Tasks : submit[t] = "accepted" }
<1>1. /\ Started \subseteq AllQueued
      /\ \A ty \in Types : { t \in Started : TypeOf[t] = ty }
                             = IF ty \in Starting THEN {Head(type_to_queue_[ty])} ELSE {}
      /\ \A ty \in Starting :
           /\ IsInjective(Tail(type_to_queue_[ty]))
           /\ { Tail(type_to_queue_[ty])[i] : i \in 1 .. Len(Tail(type_to_queue_[ty])) }
                = Queued(ty) \ {Head(type_to_queue_[ty])}
  BY StartedTasks
<1>2. ASSUME NEW ty \in Types
      PROVE  /\ Queued(ty)' = Queued(ty) \ Started
             /\ IsInjective(type_to_queue_[ty])'
             /\ \A t \in Queued(ty)' : TypeOf[t] = ty
  <2>1. \A t \in Queued(ty) : TypeOf[t] = ty
    BY DEF PendingTasksAreSomewhere
  <2>2. type_to_queue_'[ty] = IF ty \in Starting THEN Tail(type_to_queue_[ty]) ELSE type_to_queue_[ty]
    BY DEF ScheduleLocked
  <2>3. CASE ty \in Starting
    <3>1. type_to_queue_'[ty] = Tail(type_to_queue_[ty])
      BY <2>2, <2>3
    <3>2. Queued(ty)' = Queued(ty) \ {Head(type_to_queue_[ty])} /\ IsInjective(type_to_queue_'[ty])
      BY <1>1, <2>3, <3>1 DEF Queued
    <3>3. \A t \in Queued(ty) : t \in Started <=> t = Head(type_to_queue_[ty])
      BY <1>1, <2>1, <2>3
    <3>4. QED
      BY <2>1, <3>2, <3>3
  <2>4. CASE ty \notin Starting
    <3>1. type_to_queue_'[ty] = type_to_queue_[ty]
      BY <2>2, <2>4
    <3>2. Queued(ty)' = Queued(ty) /\ IsInjective(type_to_queue_'[ty])
      BY <3>1 DEF Queued, PendingTasksAreSomewhere
    <3>3. \A t \in Queued(ty) : t \notin Started
      BY <1>1, <2>1, <2>4
    <3>4. QED
      BY <2>1, <3>2, <3>3
  <2>5. QED
    BY <2>3, <2>4
<1>3. AllQueued' = AllQueued \ Started
  BY <1>2 DEF AllQueued
<1>4. active_runnables_' = active_runnables_ \cup Started
  BY DEF ScheduleLocked
<1>5. /\ { t \in Tasks : fate[t] = "pending" } = accepted \cup AllQueued \cup active_runnables_
      /\ accepted \cap AllQueued = {} /\ accepted \cap active_runnables_ = {}
      /\ AllQueued \cap active_runnables_ = {}
  BY DEF PendingTasksAreSomewhere
<1>6. /\ { t \in Tasks : fate[t] = "pending" } = accepted \cup AllQueued' \cup active_runnables_'
      /\ accepted \cap AllQueued' = {} /\ accepted \cap active_runnables_' = {}
      /\ AllQueued' \cap active_runnables_' = {}
  BY <1>1, <1>3, <1>4, <1>5
<1>7. QED
  BY <1>2, <1>6 DEF PendingTasksAreSomewhere

LEMMA ScheduleKeepsRegistered ==
  ASSUME Inv, NEW w, ScheduleLocked(w), round_robin_types_' = round_robin_types_
  PROVE  QueuedTypesAreRegistered'
<1>1. ASSUME NEW ty \in Types, type_to_queue_'[ty] # <<>>
      PROVE  ty \in Registered
  <2>1. CASE ty \in Starting
    BY <2>1 DEF Starting, Eligible
  <2>2. CASE ty \notin Starting
    BY <1>1, <2>2 DEF ScheduleLocked, Inv, QueuedTypesAreRegistered
  <2>3. QED
    BY <2>1, <2>2
<1>2. Registered' = Registered /\ IsInjective(round_robin_types_')
  BY DEF Registered, Inv, QueuedTypesAreRegistered
<1>3. QED
  BY <1>1, <1>2 DEF QueuedTypesAreRegistered

LEMMA ScheduleKeepsPool ==
  ASSUME Inv, NEW w, ScheduleLocked(w), capacity' = capacity
  PROVE  PoolNeverOverflows'
<1> USE DEF Inv
<1>1. /\ busy \subseteq Tasks /\ IsFiniteSet(busy) /\ Cardinality(busy) \in Nat
      /\ capacity \in Nat /\ Cardinality(busy) <= capacity
  BY FS_Subset, FS_CardinalityType, TasksAssumption DEF TypeOK, PoolNeverOverflows
<1>2. Available \in Nat
  BY <1>1 DEF Available
<1>3. IsFiniteSet(Started) /\ Cardinality(Started) \in Nat /\ Cardinality(Started) <= Available
  <2>1. Cardinality(Starting) \in Nat /\ Cardinality(Starting) <= Available
    BY <1>2, StartingIsBounded
  <2>2. QED
    BY <2>1, StartedTasks
<1>4. Cardinality(busy \cup Started) <= Cardinality(busy) + Cardinality(Started)
  <2>1. IsFiniteSet(busy \cap Started)
    BY <1>1, FS_Subset
  <2>2. Cardinality(busy \cap Started) \in Nat
    BY <2>1, FS_CardinalityType
  <2>3. QED
    BY <1>1, <1>3, <2>2, FS_Union
<1>5. Cardinality(busy \cup Started) \in Nat
  <2>1. IsFiniteSet(busy \cup Started)
    BY <1>1, <1>3, FS_Union
  <2>2. QED
    BY <2>1, FS_CardinalityType
<1>6. Cardinality(busy \cup Started) <= capacity
  BY <1>1, <1>3, <1>4, <1>5 DEF Available
<1>7. busy' = busy \cup Started /\ active_runnables_' = active_runnables_ \cup Started
  BY DEF ScheduleLocked
<1>8. QED
  BY <1>6, <1>7 DEF PoolNeverOverflows

-----------------------------------------------------------------------------
(* Every step keeps the invariant.                                         *)

LEMMA InitIsConsistent == Init => Inv
<1> SUFFICES ASSUME Init
             PROVE  Inv
  OBVIOUS
<1> USE FS_EmptySet
<1>1. TypeOK
  BY InitIsTyped
<1>2. RunningCountsAgree
  <2>1. { t \in Tasks : worker[t] = "running" } = {}
    BY DEF Init
  <2>2. \A ty \in Types : { t \in active_runnables_ : TypeOf[t] = ty } = {}
    BY DEF Init
  <2>3. QED
    BY <2>1, <2>2 DEF Init, RunningCountsAgree
<1>3. AllQueued = {} /\ \A ty \in Types : Queued(ty) = {} /\ IsInjective(type_to_queue_[ty])
  BY DEF Init, AllQueued, Queued, IsInjective
<1>4. PendingTasksAreSomewhere
  BY <1>3 DEF Init, PendingTasksAreSomewhere
<1>5. QueuedTypesAreRegistered
  BY DEF Init, QueuedTypesAreRegistered, IsInjective
<1>6. PoolNeverOverflows
  BY SizesAssumption DEF Init, PoolNeverOverflows
<1>7. QED
  BY <1>1, <1>2, <1>4, <1>5, <1>6 DEF Inv

\* What a step leaves alone, it leaves consistent.
LEMMA CountsKept ==
  ASSUME RunningCountsAgree, UNCHANGED counters,
         { t \in Tasks : worker'[t] = "running" } = { t \in Tasks : worker[t] = "running" }
  PROVE  RunningCountsAgree'
<1>1. /\ active_runnables_' = active_runnables_ /\ running_total_' = running_total_
      /\ type_to_running_' = type_to_running_
  BY DEF counters
<1>2. QED
  BY <1>1 DEF RunningCountsAgree

LEMMA QueuesKept ==
  ASSUME UNCHANGED queues
  PROVE  /\ \A ty \in Types : Queued(ty)' = Queued(ty)
         /\ AllQueued' = AllQueued
         /\ Registered' = Registered
         /\ QueuedTypesAreRegistered => QueuedTypesAreRegistered'
<1>1. type_to_queue_' = type_to_queue_ /\ round_robin_types_' = round_robin_types_
  BY DEF queues
<1>2. QED
  BY <1>1 DEF Queued, AllQueued, Registered, QueuedTypesAreRegistered

LEMMA PlacesKept ==
  ASSUME PendingTasksAreSomewhere, UNCHANGED <<queues, active_runnables_, fate>>,
         { t \in Tasks : submit'[t] = "accepted" } = { t \in Tasks : submit[t] = "accepted" }
  PROVE  PendingTasksAreSomewhere'
<1>1. /\ \A ty \in Types : Queued(ty)' = Queued(ty)
      /\ AllQueued' = AllQueued
  BY QueuesKept
<1>2. type_to_queue_' = type_to_queue_
  BY DEF queues
<1>3. QED
  BY <1>1, <1>2 DEF PendingTasksAreSomewhere

LEMMA PoolKept ==
  ASSUME PoolNeverOverflows, UNCHANGED <<busy, capacity, active_runnables_>>
  PROVE  PoolNeverOverflows'
BY DEF PoolNeverOverflows

\* Forgetting every queued task keeps the places, the counts and the types.
LEMMA ClearingKeepsPlaces ==
  ASSUME TypeOK, PendingTasksAreSomewhere, ClearQueues, UNCHANGED <<submit, active_runnables_>>
  PROVE  PendingTasksAreSomewhere' /\ QueuedTypesAreRegistered'
<1>1. /\ \A ty \in Types : type_to_queue_'[ty] = <<>>
      /\ round_robin_types_' = <<>>
      /\ fate' = [t \in Tasks |-> IF t \in AllQueued THEN "dropped" ELSE fate[t]]
  BY DEF ClearQueues
<1>2. \A ty \in Types : Queued(ty)' = {} /\ IsInjective(type_to_queue_'[ty])
  BY <1>1 DEF Queued, IsInjective
<1>3. AllQueued' = {}
  BY <1>2 DEF AllQueued
<1>4. { t \in Tasks : fate'[t] = "pending" } = { t \in Tasks : fate[t] = "pending" } \ AllQueued
  BY <1>1 DEF TypeOK
<1>5. PendingTasksAreSomewhere'
  BY <1>2, <1>3, <1>4 DEF PendingTasksAreSomewhere
<1>6. QueuedTypesAreRegistered'
  BY <1>1 DEF QueuedTypesAreRegistered, IsInjective
<1>7. QED
  BY <1>5, <1>6

LEMMA TaskStepKeepsInv ==
  ASSUME Inv, NEW t \in Tasks, TaskStep(t), TypeOK'
  PROVE  Inv'
<1> USE DEF Inv
<1> DEFINE accepted == { u \in Tasks : submit[u] = "accepted" }
<1>1. CASE SubmitAccepted(t)
  <2>1. /\ UNCHANGED counters /\ UNCHANGED queues /\ UNCHANGED limits
        /\ UNCHANGED <<busy, worker, active_runnables_, capacity, type_to_queue_>>
    BY <1>1 DEF SubmitAccepted, counters, limits, queues
  <2>2. { u \in Tasks : submit'[u] = "accepted" } = accepted \cup {t}
    BY <1>1 DEF SubmitAccepted, TypeOK
  <2>3. { u \in Tasks : fate'[u] = "pending" } = { u \in Tasks : fate[u] = "pending" } \cup {t}
    BY <1>1 DEF SubmitAccepted, TypeOK
  <2>4. fate[t] # "pending"
    BY <1>1 DEF SubmitAccepted, MaySubmit
  <2>5. t \notin AllQueued /\ t \notin active_runnables_
    BY <2>4 DEF PendingTasksAreSomewhere
  <2>6. PendingTasksAreSomewhere'
    <3>1. AllQueued' = AllQueued /\ \A ty \in Types : Queued(ty)' = Queued(ty)
      BY <2>1, QueuesKept
    <3>2. QED
      BY <2>1, <2>2, <2>3, <2>5, <3>1 DEF PendingTasksAreSomewhere
  <2>7. QED
    BY <2>1, <2>6, CountsKept, QueuesKept, PoolKept
<1>2. CASE SubmitRejected(t)
  <2>1. /\ UNCHANGED counters /\ UNCHANGED queues /\ UNCHANGED limits
        /\ UNCHANGED <<busy, worker, submit, active_runnables_, capacity, type_to_queue_>>
    BY <1>2 DEF SubmitRejected, counters, limits, queues
  <2>2. { u \in Tasks : fate'[u] = "pending" } = { u \in Tasks : fate[u] = "pending" }
    BY <1>2 DEF SubmitRejected, MaySubmit, TypeOK
  <2>3. PendingTasksAreSomewhere'
    <3>1. AllQueued' = AllQueued /\ \A ty \in Types : Queued(ty)' = Queued(ty)
      BY <2>1, QueuesKept
    <3>2. QED
      BY <2>1, <2>2, <3>1 DEF PendingTasksAreSomewhere
  <2>4. QED
    BY <2>1, <2>3, CountsKept, QueuesKept, PoolKept
<1>3. CASE SubmitEnqueue(t)
  <2> DEFINE mine == TypeOf[t]
  <2>1. /\ UNCHANGED counters /\ UNCHANGED <<busy, worker, active_runnables_, capacity, fate>>
        /\ type_to_queue_' = [type_to_queue_ EXCEPT ![mine] = Append(@, t)]
        /\ round_robin_types_' = IF mine \in Registered THEN round_robin_types_
                                                        ELSE Append(round_robin_types_, mine)
    BY <1>3 DEF SubmitEnqueue, counters, limits
  <2>2. mine \in Types /\ t \in accepted
    BY <1>3, TasksAssumption DEF SubmitEnqueue
  <2>3. { u \in Tasks : submit'[u] = "accepted" } = accepted \ {t}
    BY <1>3 DEF SubmitEnqueue, Calling, TypeOK
  <2>4. t \notin AllQueued /\ t \notin active_runnables_
    BY <2>2 DEF PendingTasksAreSomewhere
  <2>5. /\ Queued(mine)' = Queued(mine) \cup {t} /\ IsInjective(type_to_queue_'[mine])
        /\ type_to_queue_'[mine] = Append(type_to_queue_[mine], t)
    <3>1. type_to_queue_[mine] \in Seq(Tasks) /\ IsInjective(type_to_queue_[mine])
      BY <2>2 DEF TypeOK, PendingTasksAreSomewhere
    <3>2. t \notin { type_to_queue_[mine][i] : i \in 1 .. Len(type_to_queue_[mine]) }
      BY <2>2, <2>4 DEF AllQueued, Queued
    <3>3. type_to_queue_'[mine] = Append(type_to_queue_[mine], t)
      BY <2>1, <2>2 DEF TypeOK
    <3>4. QED
      BY <3>1, <3>2, <3>3, AppendElements DEF Queued
  <2>6. ASSUME NEW ty \in Types, ty # mine
        PROVE  /\ type_to_queue_'[ty] = type_to_queue_[ty]
               /\ Queued(ty)' = Queued(ty)
    <3>1. type_to_queue_'[ty] = type_to_queue_[ty]
      BY <2>1, <2>6 DEF TypeOK
    <3>2. QED
      BY <3>1 DEF Queued
  <2>7. AllQueued' = AllQueued \cup {t}
    BY <2>2, <2>5, <2>6 DEF AllQueued
  <2>8. PendingTasksAreSomewhere'
    <3>1. ASSUME NEW ty \in Types
          PROVE  /\ \A u \in Queued(ty)' : TypeOf[u] = ty
                 /\ IsInjective(type_to_queue_'[ty])
      <4>1. /\ \A u \in Queued(ty) : TypeOf[u] = ty
            /\ IsInjective(type_to_queue_[ty])
        BY DEF PendingTasksAreSomewhere
      <4>2. CASE ty = mine
        <5>1. Queued(ty)' = Queued(ty) \cup {t}
          BY <2>5, <4>2 DEF Queued
        <5>2. QED
          BY <2>5, <4>1, <4>2, <5>1
      <4>3. CASE ty # mine
        <5>1. Queued(ty)' = Queued(ty) /\ type_to_queue_'[ty] = type_to_queue_[ty]
          BY <2>6, <4>3
        <5>2. QED
          BY <4>1, <5>1
      <4>4. QED
        BY <4>2, <4>3
    <3>2. /\ { u \in Tasks : fate[u] = "pending" } = accepted \cup AllQueued \cup active_runnables_
          /\ accepted \cap AllQueued = {} /\ accepted \cap active_runnables_ = {}
          /\ AllQueued \cap active_runnables_ = {}
      BY DEF PendingTasksAreSomewhere
    <3>3. /\ { u \in Tasks : fate[u] = "pending" }
               = (accepted \ {t}) \cup AllQueued' \cup active_runnables_
          /\ (accepted \ {t}) \cap AllQueued' = {} /\ (accepted \ {t}) \cap active_runnables_ = {}
          /\ AllQueued' \cap active_runnables_ = {}
      BY <2>2, <2>4, <2>7, <3>2
    <3>4. QED
      BY <2>1, <2>3, <3>1, <3>3 DEF PendingTasksAreSomewhere
  <2>9. QueuedTypesAreRegistered'
    <3>1. Registered' = Registered \cup {mine} /\ IsInjective(round_robin_types_')
      <4>1. CASE mine \in Registered
        BY <2>1, <4>1 DEF Registered, QueuedTypesAreRegistered
      <4>2. CASE mine \notin Registered
        <5>1. round_robin_types_ \in Seq(Types) /\ IsInjective(round_robin_types_)
          BY DEF TypeOK, QueuedTypesAreRegistered
        <5>2. QED
          BY <2>1, <2>2, <4>2, <5>1, AppendElements DEF Registered
      <4>3. QED
        BY <4>1, <4>2
    <3>2. \A ty \in Types : type_to_queue_'[ty] # <<>> => ty \in Registered \cup {mine}
      BY <2>6 DEF QueuedTypesAreRegistered
    <3>3. QED
      BY <3>1, <3>2 DEF QueuedTypesAreRegistered
  <2>10. QED
    BY <2>1, <2>8, <2>9, CountsKept, PoolKept
<1>4. CASE SubmitSkips(t)
  <2>1. /\ UNCHANGED counters /\ UNCHANGED queues
        /\ UNCHANGED <<busy, worker, active_runnables_, capacity, fate>>
    BY <1>4 DEF SubmitSkips, counters, limits
  <2>2. { u \in Tasks : submit'[u] = "accepted" } = accepted
    BY <1>4 DEF SubmitSkips, TypeOK
  <2>3. QED
    BY <2>1, <2>2, CountsKept, PlacesKept, QueuesKept, PoolKept
<1>5. CASE SubmitSchedule(t)
  <2>1. /\ ScheduleLocked(worker) /\ worker \in [Tasks -> {"none", "running", "call", "winding"}]
        /\ UNCHANGED <<round_robin_types_, capacity, fate>>
        /\ active_runnables_ = { u \in Tasks : worker[u] = "running" }
    BY <1>5 DEF SubmitSchedule, limits, TypeOK, RunningCountsAgree
  <2>2. { u \in Tasks : submit'[u] = "accepted" } = accepted
    BY <1>5 DEF SubmitSchedule, TypeOK
  <2>3. QED
    BY <2>1, <2>2, ScheduleKeepsCounts, ScheduleKeepsPlaces, ScheduleKeepsRegistered, ScheduleKeepsPool
<1>6. CASE TaskFinish(t)
  <2>1. /\ UNCHANGED queues /\ UNCHANGED <<busy, capacity, submit>>
        /\ active_runnables_' = active_runnables_ \ {t} /\ t \in active_runnables_
        /\ fate' = [fate EXCEPT ![t] = "done"]
    BY <1>6 DEF TaskFinish, GiveBack, limits, RunningCountsAgree
  <2>2. IsFiniteSet(active_runnables_) /\ active_runnables_ \subseteq Tasks
    BY FS_Subset, TasksAssumption DEF TypeOK
  <2>3. running_total_' = Cardinality(active_runnables_')
    <3>1. Cardinality(active_runnables_') = Cardinality(active_runnables_) - 1
      BY <2>1, <2>2, FS_RemoveElement
    <3>2. running_total_ = Cardinality(active_runnables_) /\ running_total_ # 0 /\ running_total_ \in Nat
      BY <2>1, <2>2, FS_EmptySet DEF RunningCountsAgree, TypeOK
    <3>3. running_total_' = running_total_ - 1
      BY <1>6, <3>2 DEF TaskFinish, GiveBack
    <3>4. QED
      BY <3>1, <3>2, <3>3
  <2>4. ASSUME NEW ty \in Types
        PROVE  type_to_running_'[ty] = Cardinality({ u \in active_runnables_' : TypeOf[u] = ty })
    <3> DEFINE A == { u \in active_runnables_ : TypeOf[u] = ty }
    <3>1. type_to_running_[ty] = Cardinality(A) /\ IsFiniteSet(A) /\ type_to_running_[ty] \in Nat
      BY <2>2, FS_Subset DEF RunningCountsAgree, TypeOK
    <3>2. CASE ty = TypeOf[t]
      <4>1. { u \in active_runnables_' : TypeOf[u] = ty } = A \ {t} /\ t \in A
        BY <2>1, <3>2
      <4> HIDE DEF A
      <4>2. Cardinality(A \ {t}) = Cardinality(A) - 1 /\ Cardinality(A) # 0
        BY <3>1, <4>1, FS_RemoveElement, FS_EmptySet
      <4>3. type_to_running_'[ty] = type_to_running_[ty] - 1
        BY <1>6, <3>1, <3>2, <4>2 DEF TaskFinish, GiveBack, TypeOK
      <4>4. QED
        BY <3>1, <4>1, <4>2, <4>3
    <3>3. CASE ty # TypeOf[t]
      <4>1. { u \in active_runnables_' : TypeOf[u] = ty } = A
        BY <2>1, <3>3
      <4>2. type_to_running_'[ty] = type_to_running_[ty]
        BY <1>6, <3>3 DEF TaskFinish, GiveBack, TypeOK
      <4>3. QED
        BY <3>1, <4>1, <4>2
    <3>4. QED
      BY <3>2, <3>3
  <2>5. active_runnables_' = { u \in Tasks : worker'[u] = "running" }
    <3>1. \A u \in Tasks : worker'[u] = "running" <=> (worker[u] = "running" /\ u # t)
      BY <1>6 DEF TaskFinish, GiveBack, Calling, TypeOK
    <3>2. QED
      BY <2>1, <3>1 DEF RunningCountsAgree
  <2>6. PendingTasksAreSomewhere'
    <3>1. { u \in Tasks : fate'[u] = "pending" } = { u \in Tasks : fate[u] = "pending" } \ {t}
      BY <2>1 DEF TypeOK
    <3>2. t \notin accepted /\ t \notin AllQueued
      BY <2>1 DEF PendingTasksAreSomewhere
    <3>3. AllQueued' = AllQueued /\ (\A ty \in Types : Queued(ty)' = Queued(ty))
          /\ type_to_queue_' = type_to_queue_
      BY <2>1, QueuesKept DEF queues
    <3>4. QED
      BY <2>1, <3>1, <3>2, <3>3 DEF PendingTasksAreSomewhere
  <2>7. PoolNeverOverflows'
    BY <2>1 DEF PoolNeverOverflows
  <2>8. QED
    BY <2>1, <2>3, <2>4, <2>5, <2>6, <2>7, QueuesKept DEF RunningCountsAgree
<1>7. CASE FinishSkips(t)
  <2>1. /\ UNCHANGED counters /\ UNCHANGED queues
        /\ UNCHANGED <<busy, submit, active_runnables_, capacity, fate>>
    BY <1>7 DEF FinishSkips, counters, limits
  <2>2. { u \in Tasks : worker'[u] = "running" } = { u \in Tasks : worker[u] = "running" }
    BY <1>7 DEF FinishSkips, TypeOK
  <2>3. QED
    BY <2>1, <2>2, CountsKept, PlacesKept, QueuesKept, PoolKept
<1>8. CASE FinishSchedule(t)
  <2> DEFINE w == [worker EXCEPT ![t] = "winding"]
  <2>1. /\ ScheduleLocked(w) /\ w \in [Tasks -> {"none", "running", "call", "winding"}]
        /\ UNCHANGED <<round_robin_types_, capacity, fate, submit>>
    BY <1>8 DEF FinishSchedule, limits, TypeOK
  <2>2. active_runnables_ = { u \in Tasks : w[u] = "running" }
    BY <1>8 DEF FinishSchedule, TypeOK, RunningCountsAgree
  <2> HIDE DEF w
  <2>3. QED
    BY <2>1, <2>2, ScheduleKeepsCounts, ScheduleKeepsPlaces, ScheduleKeepsRegistered, ScheduleKeepsPool
<1>9. CASE ThreadIdle(t)
  <2>1. /\ UNCHANGED counters /\ UNCHANGED queues /\ busy' = busy \ {t}
        /\ UNCHANGED <<submit, active_runnables_, capacity, fate>>
    BY <1>9 DEF ThreadIdle, counters, limits
  <2>2. { u \in Tasks : worker'[u] = "running" } = { u \in Tasks : worker[u] = "running" }
    BY <1>9 DEF ThreadIdle, TypeOK
  <2>3. PoolNeverOverflows'
    <3>1. t \notin active_runnables_
      BY <1>9 DEF ThreadIdle, RunningCountsAgree
    <3>2. IsFiniteSet(busy) /\ Cardinality(busy) \in Nat /\ Cardinality(busy \ {t}) \in Nat
          /\ Cardinality(busy \ {t}) <= Cardinality(busy)
      BY FS_Subset, FS_CardinalityType, TasksAssumption DEF TypeOK
    <3>3. capacity \in Nat
      BY DEF TypeOK
    <3>4. QED
      BY <2>1, <3>1, <3>2, <3>3 DEF PoolNeverOverflows
  <2>4. QED
    BY <2>1, <2>2, <2>3, CountsKept, PlacesKept, QueuesKept
<1>10. QED
  BY <1>1, <1>2, <1>3, <1>4, <1>5, <1>6, <1>7, <1>8, <1>9 DEF TaskStep

LEMMA ConfigStepKeepsInv ==
  ASSUME Inv, NEW c \in ConfigThreads, ConfigStep(c), TypeOK'
  PROVE  Inv'
<1> USE DEF Inv
<1>1. ASSUME NEW n \in PoolSizes, ConfigMax(c, n)
      PROVE  Inv'
  <2>1. /\ UNCHANGED counters /\ UNCHANGED queues
        /\ UNCHANGED <<busy, worker, submit, active_runnables_, fate>>
    BY <1>1 DEF ConfigMax, counters
  <2>2. PoolNeverOverflows'
    <3>1. capacity \in Nat /\ n \in Nat /\ capacity <= capacity'
      BY <1>1, SizesAssumption DEF ConfigMax, TypeOK
    <3>2. Cardinality(busy) \in Nat /\ capacity' \in Nat
      BY <3>1, FS_Subset, FS_CardinalityType, TasksAssumption DEF TypeOK
    <3>3. QED
      BY <2>1, <3>1, <3>2 DEF PoolNeverOverflows
  <2>3. QED
    BY <2>1, <2>2, CountsKept, PlacesKept, QueuesKept
<1>2. ASSUME NEW ty \in Types, NEW s \in Shares, ConfigShare(c, ty, s)
      PROVE  Inv'
  <2>1. /\ UNCHANGED counters /\ UNCHANGED queues
        /\ UNCHANGED <<busy, worker, submit, active_runnables_, capacity, fate>>
    BY <1>2 DEF ConfigShare, counters
  <2>2. QED
    BY <2>1, CountsKept, PlacesKept, QueuesKept, PoolKept
<1>3. CASE ConfigSkips(c) \/ ConfigRecreate(c)
  <2>1. /\ UNCHANGED counters /\ UNCHANGED queues
        /\ UNCHANGED <<busy, worker, submit, active_runnables_, capacity, fate>>
    BY <1>3 DEF ConfigSkips, ConfigRecreate, counters, limits
  <2>2. QED
    BY <2>1, CountsKept, PlacesKept, QueuesKept, PoolKept
<1>4. CASE ConfigSchedule(c)
  <2>1. /\ ScheduleLocked(worker) /\ worker \in [Tasks -> {"none", "running", "call", "winding"}]
        /\ UNCHANGED <<round_robin_types_, capacity, fate, submit>>
        /\ active_runnables_ = { u \in Tasks : worker[u] = "running" }
    BY <1>4 DEF ConfigSchedule, limits, TypeOK, RunningCountsAgree
  <2>2. QED
    BY <2>1, ScheduleKeepsCounts, ScheduleKeepsPlaces, ScheduleKeepsRegistered, ScheduleKeepsPool
<1>5. CASE RecreateThreadPool(c)
  <2>1. /\ UNCHANGED counters /\ UNCHANGED <<submit, worker, active_runnables_>>
        /\ ClearQueues /\ active_runnables_ = {}
        /\ \/ busy' = {}
           \/ UNCHANGED <<busy, capacity>>
    BY <1>5 DEF RecreateThreadPool, Idle, counters
  <2>2. PoolNeverOverflows'
    <3>1. CASE busy' = {}
      BY <2>1, <3>1, FS_EmptySet DEF PoolNeverOverflows, TypeOK
    <3>2. CASE UNCHANGED <<busy, capacity>>
      BY <2>1, <3>2, PoolKept
    <3>3. QED
      BY <2>1, <3>1, <3>2
  <2>3. QED
    BY <2>1, <2>2, CountsKept, ClearingKeepsPlaces
<1>6. QED
  BY <1>1, <1>2, <1>3, <1>4, <1>5 DEF ConfigStep

LEMMA StepsKeepInv == Inv /\ [Next]_vars => Inv'
<1> SUFFICES ASSUME Inv, [Next]_vars
             PROVE  Inv'
  OBVIOUS
<1>1. TypeOK'
  BY StepsKeepTypes DEF Inv
<1>2. ASSUME NEW t \in Tasks, TaskStep(t)
      PROVE  Inv'
  BY <1>1, <1>2, TaskStepKeepsInv
<1>3. ASSUME NEW c \in ConfigThreads, ConfigStep(c)
      PROVE  Inv'
  BY <1>1, <1>3, ConfigStepKeepsInv
<1>4. CASE ShutdownBegin \/ UNCHANGED vars
  <2>1. /\ UNCHANGED counters /\ UNCHANGED queues
        /\ UNCHANGED <<busy, worker, submit, active_runnables_, capacity, fate>>
    BY <1>4 DEF ShutdownBegin, vars, counters, limits
  <2>2. QED
    BY <1>1, <2>1, CountsKept, PlacesKept, QueuesKept, PoolKept DEF Inv
<1>5. CASE ShutdownEnd
  <2>1. /\ UNCHANGED counters /\ UNCHANGED <<busy, worker, submit, active_runnables_, capacity>>
        /\ ClearQueues
    BY <1>5 DEF ShutdownEnd, counters, limits
  <2>2. QED
    BY <1>1, <2>1, CountsKept, ClearingKeepsPlaces, PoolKept DEF Inv
<1>6. QED
  BY <1>2, <1>3, <1>4, <1>5 DEF Next, ShutdownStep

LEMMA Invariance == Spec => []Inv
<1>1. Init => Inv
  BY InitIsConsistent
<1>2. Inv /\ [Next]_vars => Inv'
  BY StepsKeepInv
<1>3. QED
  BY <1>1, <1>2, PTL DEF Spec

-----------------------------------------------------------------------------
(* The theorems.                                                           *)

\* running_total_, the counts per type and active_runnables_ agree in every
\* state, however submit, onTaskFinished, configuration and shutdown interleave.
THEOREM CountsTheorem == Spec => []RunningCountsAgree
<1>1. Inv => RunningCountsAgree
  BY DEF Inv
<1>2. QED
  BY <1>1, Invariance, PTL

\* No accepted task is lost or doubled: until it ends or is cleared it is in
\* exactly one place.
THEOREM PlacesTheorem == Spec => []PendingTasksAreSomewhere
<1>1. Inv => PendingTasksAreSomewhere
  BY DEF Inv
<1>2. QED
  BY <1>1, Invariance, PTL

\* schedule() never overlooks a type that has queued tasks.
THEOREM RegisteredTheorem == Spec => []QueuedTypesAreRegistered
<1>1. Inv => QueuedTypesAreRegistered
  BY DEF Inv
<1>2. QED
  BY <1>1, Invariance, PTL

\* pool_->start() finds an idle thread whenever schedule() calls it, whatever
\* the configured sizes were before.
THEOREM PoolTheorem == Spec => []PoolNeverOverflows
<1>1. Inv => PoolNeverOverflows
  BY DEF Inv
<1>2. QED
  BY <1>1, Invariance, PTL

\* The number of running tasks only ever grows up to the present cap.
THEOREM CapTheorem == Spec => NoStartAboveTheCap
<1>1. ASSUME TypeOK, NEW w, ScheduleLocked(w), UNCHANGED limits, running_total_' > running_total_
      PROVE  running_total_' <= effective_max_'
  <2>1. /\ running_total_' = running_total_ + Cardinality(Starting)
        /\ effective_max_' = effective_max_
        /\ running_total_ \in Nat /\ effective_max_ \in Nat /\ Cardinality(Starting) \in Nat
    BY <1>1, StartingIsBounded DEF ScheduleLocked, limits, TypeOK
  <2>2. CASE effective_max_ - running_total_ \in Nat
    <3>1. Cardinality(Starting) <= effective_max_ - running_total_
      BY <1>1, <2>1, <2>2, StartingIsBounded
    <3>2. QED
      BY <2>1, <3>1
  <2>3. CASE effective_max_ - running_total_ \notin Nat
    <3>1. effective_max_ - running_total_ <= 0
      BY <2>1, <2>3
    <3>2. Cardinality(Starting) <= 0
      BY <1>1, <3>1, StartingIsBounded
    <3>3. QED
      BY <1>1, <2>1, <3>2
  <2>4. QED
    BY <2>2, <2>3
<1>2. ASSUME TypeOK, Next
      PROVE  \/ ~ (running_total_' > running_total_)
             \/ \E w : ScheduleLocked(w) /\ UNCHANGED limits
  <2>1. running_total_' = running_total_ => ~ (running_total_' > running_total_)
    BY <1>2 DEF TypeOK
  <2>2. ASSUME NEW t \in Tasks, TaskStep(t)
        PROVE  \/ ~ (running_total_' > running_total_)
               \/ \E w : ScheduleLocked(w) /\ UNCHANGED limits
    <3>1. CASE SubmitSchedule(t)
      BY <3>1 DEF SubmitSchedule
    <3>2. CASE FinishSchedule(t)
      BY <3>2 DEF FinishSchedule
    <3>3. CASE TaskFinish(t)
      BY <1>2, <3>3 DEF TaskFinish, GiveBack, TypeOK
    <3>4. CASE SubmitAccepted(t) \/ SubmitRejected(t) \/ SubmitEnqueue(t) \/ SubmitSkips(t)
               \/ FinishSkips(t) \/ ThreadIdle(t)
      <4>1. running_total_' = running_total_
        BY <3>4 DEF SubmitAccepted, SubmitRejected, SubmitEnqueue, SubmitSkips, FinishSkips,
                    ThreadIdle, counters
      <4>2. QED
        BY <2>1, <4>1
    <3>5. QED
      BY <2>2, <3>1, <3>2, <3>3, <3>4 DEF TaskStep
  <2>3. ASSUME NEW c \in ConfigThreads, ConfigStep(c)
        PROVE  \/ ~ (running_total_' > running_total_)
               \/ \E w : ScheduleLocked(w) /\ UNCHANGED limits
    <3>1. CASE ConfigSchedule(c)
      BY <3>1 DEF ConfigSchedule
    <3>2. CASE ~ ConfigSchedule(c)
      <4>1. running_total_' = running_total_
        BY <2>3, <3>2 DEF ConfigStep, ConfigMax, ConfigShare, ConfigSkips, ConfigRecreate,
                          RecreateThreadPool, counters
      <4>2. QED
        BY <2>1, <4>1
    <3>3. QED
      BY <3>1, <3>2
  <2>4. CASE ShutdownStep
    BY <2>1, <2>4 DEF ShutdownStep, ShutdownBegin, ShutdownEnd, counters
  <2>5. QED
    BY <1>2, <2>2, <2>3, <2>4 DEF Next
<1>3. TypeOK /\ [Next]_vars
        => [running_total_' > running_total_ => running_total_' <= effective_max_']_vars
  BY <1>1, <1>2
<1>4. QED
  BY <1>3, TypeCorrectness, PTL DEF Spec, NoStartAboveTheCap

-----------------------------------------------------------------------------
(* The loop of schedule() starts the types of Starting, one by one.         *)

LEMMA ModOfMultiple ==
  ASSUME NEW k \in Nat \ {0}, NEW a \in Int, NEW q \in Int, NEW r \in 0 .. k - 1, a = k * q + r
  PROVE  a % k = r
OBVIOUS

LEMMA DivisionWithRest ==
  ASSUME NEW a \in Nat, NEW k \in Nat \ {0}
  PROVE  /\ a \div k \in Int /\ (a % k) \in 0 .. k - 1
         /\ a = k * (a \div k) + (a % k)
OBVIOUS

LEMMA ModOfSum ==
  ASSUME NEW a \in Nat, NEW k \in Nat \ {0}, NEW i \in 0 .. k - 1
  PROVE  (a + i) % k = IF (a % k) + i < k THEN (a % k) + i ELSE (a % k) + i - k
<1>1. PICK q \in Int, r \in 0 .. k - 1 : a = k * q + r /\ r = a % k
  BY DivisionWithRest
<1>2. CASE r + i < k
  <2>1. a + i = k * q + (r + i) /\ r + i \in 0 .. k - 1 /\ a + i \in Int
    BY <1>1, <1>2
  <2>2. (a + i) % k = r + i
    BY <2>1, ModOfMultiple
  <2>3. QED
    BY <1>1, <1>2, <2>2
<1>3. CASE ~ (r + i < k)
  <2>1. /\ a + i = k * (q + 1) + (r + i - k) /\ r + i - k \in 0 .. k - 1
        /\ a + i \in Int /\ q + 1 \in Int
    BY <1>1, <1>3
  <2>2. (a + i) % k = r + i - k
    BY <2>1, ModOfMultiple
  <2>3. QED
    BY <1>1, <1>3, <2>2
<1>4. QED
  BY <1>2, <1>3

\* The turn of a type is when the loop comes to it.
LEMMA TurnOfType ==
  ASSUME TypeOK, IsInjective(round_robin_types_), NEW i \in 0 .. Len(round_robin_types_) - 1
  PROVE  TypeAt(i) \in Registered /\ Turn(TypeAt(i)) = i
<1> DEFINE n == Len(round_robin_types_)
           start == rr_index_ % n
           p == IF start + i < n THEN start + i ELSE start + i - n
           pos == CHOOSE q \in 0 .. n - 1 : round_robin_types_[q + 1] = TypeAt(i)
<1>1. n \in Nat \ {0} /\ rr_index_ \in Nat /\ DOMAIN round_robin_types_ = 1 .. n
  BY DEF TypeOK
<1>2. start \in 0 .. n - 1 /\ i \in 0 .. n - 1
  BY <1>1
<1>3. TypeAt(i) = round_robin_types_[p + 1]
  <2>1. (rr_index_ + i) % n = p
    BY <1>1, <1>2, ModOfSum
  <2>2. QED
    BY <2>1 DEF TypeAt
<1>4. Turn(TypeAt(i)) = IF pos >= start THEN pos - start ELSE pos - start + n
  BY DEF Turn
<1> HIDE DEF n, start
<1>5. p \in 0 .. n - 1 /\ p + 1 \in 1 .. n
  BY <1>1, <1>2
<1>6. (IF p >= start THEN p - start ELSE p - start + n) = i
  BY <1>1, <1>2
<1> HIDE DEF p
<1>7. pos = p
  <2>1. pos \in 0 .. n - 1 /\ round_robin_types_[pos + 1] = TypeAt(i)
    BY <1>3, <1>5
  <2> HIDE DEF pos
  <2>2. pos + 1 \in 1 .. n /\ round_robin_types_[pos + 1] = round_robin_types_[p + 1]
    BY <1>1, <1>3, <2>1
  <2>3. pos + 1 = p + 1
    BY <1>1, <1>5, <2>2 DEF IsInjective
  <2>4. QED
    BY <1>1, <1>5, <2>1, <2>3
<1>8. TypeAt(i) \in Registered
  BY <1>3, <1>5 DEF Registered, n
<1> HIDE DEF pos
<1>9. QED
  BY <1>4, <1>6, <1>7, <1>8

\* If tasks are started, one of them is the last.
LEMMA LastStarted ==
  ASSUME TypeOK, Starting # {}
  PROVE  \E last \in Starting : \A u \in Starting : Turn(u) <= Turn(last)
<1> DEFINE n == Len(round_robin_types_)
           Turns == { n - Turn(ty) : ty \in Starting }
<1>1. ASSUME NEW ty \in Starting
      PROVE  Turn(ty) \in 0 .. n - 1
  <2>1. ty \in Registered
    BY DEF Starting, Eligible
  <2>2. QED
    BY <2>1, TurnIsInjective
<1>2. n \in Nat
  BY DEF TypeOK
<1>3. Turns \subseteq Nat /\ Turns # {}
  BY <1>1, <1>2
<1>4. PICK least \in Turns : \A k \in Turns : ~ (<<k, least>> \in OpToRel(<, Nat))
  BY <1>3, WFMin, NatLessThanWellFounded
<1>5. PICK last \in Starting : least = n - Turn(last)
  BY <1>4
<1>6. ASSUME NEW u \in Starting
      PROVE  Turn(u) <= Turn(last)
  <2>1. n - Turn(u) \in Turns
    OBVIOUS
  <2>2. ~ (n - Turn(u) < least)
    BY <1>3, <1>4, <2>1 DEF OpToRel
  <2>3. QED
    BY <1>1, <1>2, <1>5, <2>2
<1>7. QED
  BY <1>6

\* What the loop has when it comes to its i-th turn.
StartedBefore(i) == { ty \in Starting : Turn(ty) < i }
EndsAt(i) ==
  \/ running_total_ + Cardinality(StartedBefore(i)) >= effective_max_
  \/ TypeAt(i) \in Eligible /\ Available - Cardinality(StartedBefore(i)) <= 0
LoopAt(i) ==
  [pc        |-> IF \E j \in 0 .. Len(round_robin_types_) : j < i /\ EndsAt(j)
                   THEN "end" ELSE "next",
   total     |-> running_total_ + Cardinality(StartedBefore(i)),
   available |-> Available - Cardinality(StartedBefore(i)),
   started   |-> StartedBefore(i),
   index     |-> CHOOSE x : x \in NextIndex(StartedBefore(i))]

LEMMA SchedulingNumbers ==
  ASSUME TypeOK
  PROVE  /\ {Available, running_total_, effective_max_} \subseteq Int
         /\ \A S \in SUBSET Eligible : IsFiniteSet(S) /\ Cardinality(S) \in Nat
<1>1. busy \subseteq Tasks /\ capacity \in Nat /\ effective_max_ \in Nat /\ running_total_ \in Nat
  BY DEF TypeOK
<1>2. Cardinality(busy) \in Nat
  BY <1>1, FS_Subset, FS_CardinalityType, TasksAssumption
<1>3. Eligible \subseteq Types
  BY StartingIsBounded
<1>4. ASSUME NEW S \in SUBSET Eligible
      PROVE  IsFiniteSet(S) /\ Cardinality(S) \in Nat
  BY <1>3, FS_Subset, FS_CardinalityType, TasksAssumption
<1>5. QED
  BY <1>1, <1>2, <1>4 DEF Available

\* What one turn adds.
LEMMA StartedByTurn ==
  ASSUME TypeOK, IsInjective(round_robin_types_), NEW i \in 0 .. Len(round_robin_types_) - 1
  PROVE  StartedBefore(i + 1) = StartedBefore(i) \cup ({TypeAt(i)} \cap Starting)
<1>1. Starting \subseteq Registered
  BY DEF Starting, Eligible
<1>2. ASSUME NEW ty \in Starting
      PROVE  Turn(ty) < i + 1 <=> (Turn(ty) < i \/ ty = TypeAt(i))
  <2>1. Turn(ty) \in 0 .. Len(round_robin_types_) - 1 /\ TypeAt(i) \in Registered
        /\ Turn(TypeAt(i)) = i /\ (Turn(ty) = Turn(TypeAt(i)) => ty = TypeAt(i))
    BY <1>1, TurnOfType, TurnIsInjective
  <2>2. Len(round_robin_types_) \in Nat
    BY DEF TypeOK
  <2>3. QED
    BY <2>1, <2>2
<1>3. QED
  BY <1>2 DEF StartedBefore

\* After the loop has ended it starts nothing more: a later type has too many
\* before it.
LEMMA NothingAfterTheEnd ==
  ASSUME TypeOK, IsInjective(round_robin_types_),
         NEW i \in 0 .. Len(round_robin_types_) - 1, NEW j \in 0 .. i, EndsAt(j)
  PROVE  TypeAt(i) \notin Starting
<1> SUFFICES ASSUME TypeAt(i) \in Starting
             PROVE  FALSE
  OBVIOUS
<1>1. Turn(TypeAt(i)) = i
  BY TurnOfType
<1>2. StartedBefore(j) \subseteq Before(TypeAt(i)) /\ Before(TypeAt(i)) \subseteq Eligible
  <2>1. ASSUME NEW ty \in StartedBefore(j)
        PROVE  ty \in Before(TypeAt(i))
    <3>1. ty \in Eligible /\ ty \in Registered /\ Turn(ty) < j
      BY DEF StartedBefore, Starting, Eligible
    <3>2. Turn(ty) \in Int
      BY <3>1, TurnIsInjective
    <3>3. QED
      BY <1>1, <3>1, <3>2 DEF Before
  <2>2. QED
    BY <2>1 DEF Before
<1>3. /\ Cardinality(StartedBefore(j)) <= Cardinality(Before(TypeAt(i)))
      /\ Cardinality(StartedBefore(j)) \in Nat /\ Cardinality(Before(TypeAt(i))) \in Nat
  BY <1>2, SchedulingNumbers, FS_Subset
<1>4. /\ Cardinality(Before(TypeAt(i))) < effective_max_ - running_total_
      /\ Cardinality(Before(TypeAt(i))) < Available
  BY DEF Starting
<1>5. QED
  BY <1>3, <1>4, SchedulingNumbers DEF EndsAt

\* Before the loop ends it starts every eligible type; the first that it passed
\* over would have had only started types before it.
LEMMA EverythingBeforeTheEnd ==
  ASSUME TypeOK, IsInjective(round_robin_types_),
         NEW i \in 0 .. Len(round_robin_types_) - 1, \A j \in 0 .. i : ~ EndsAt(j)
  PROVE  TypeAt(i) \in Eligible => TypeAt(i) \in Starting
<1> DEFINE n == Len(round_robin_types_)
           Passed == { j \in 0 .. i : TypeAt(j) \in Eligible \ Starting }
<1> SUFFICES ASSUME Passed # {}
             PROVE  FALSE
  BY DEF Passed
<1>1. n \in Nat /\ i \in 0 .. n - 1
  BY DEF TypeOK
<1>2. PICK j \in Passed : \A k \in Passed : ~ (k < j)
  <2>1. Passed \subseteq Nat /\ Passed # {}
    BY <1>1
  <2> HIDE DEF Passed
  <2>2. PICK j \in Passed : \A k \in Passed : ~ (<<k, j>> \in OpToRel(<, Nat))
    BY <2>1, WFMin, NatLessThanWellFounded
  <2>3. QED
    BY <2>1, <2>2 DEF OpToRel
<1>3. j \in 0 .. i /\ j \in 0 .. n - 1 /\ TypeAt(j) \in Eligible /\ TypeAt(j) \notin Starting
  BY <1>1, <1>2
<1>4. Before(TypeAt(j)) = StartedBefore(j)
  <2>1. ASSUME NEW ty \in Eligible
        PROVE  Turn(ty) < Turn(TypeAt(j)) <=> (ty \in Starting /\ Turn(ty) < j)
    <3>1. Turn(TypeAt(j)) = j /\ ty \in Registered /\ Turn(ty) \in 0 .. n - 1
      BY <1>3, TurnOfType, TurnIsInjective DEF Eligible
    <3>2. ASSUME Turn(ty) < j
          PROVE  ty \in Starting
      <4>1. TypeAt(Turn(ty)) = ty
        <5>1. TypeAt(Turn(ty)) \in Registered /\ Turn(TypeAt(Turn(ty))) = Turn(ty)
          BY <3>1, TurnOfType
        <5>2. QED
          BY <3>1, <5>1, TurnIsInjective
      <4>2. Turn(ty) \in 0 .. i /\ Turn(ty) \notin Passed
        BY <1>1, <1>2, <1>3, <3>1, <3>2
      <4>3. QED
        BY <4>1, <4>2
    <3>3. QED
      BY <3>1, <3>2
  <2>2. Starting \subseteq Eligible
    BY DEF Starting
  <2>3. QED
    BY <2>1, <2>2 DEF Before, StartedBefore
<1>5. ~ EndsAt(j)
  BY <1>3
<1>6. Cardinality(StartedBefore(j)) \in Nat
  BY SchedulingNumbers DEF StartedBefore, Starting
<1>7. /\ Cardinality(Before(TypeAt(j))) < effective_max_ - running_total_
      /\ Cardinality(Before(TypeAt(j))) < Available
  BY <1>3, <1>4, <1>5, <1>6, SchedulingNumbers DEF EndsAt
<1>8. QED
  BY <1>3, <1>7 DEF Starting

\* The index after the i-th turn has started a task.
LEMMA IndexAfterTurn ==
  ASSUME TypeOK, IsInjective(round_robin_types_), NEW i \in 0 .. Len(round_robin_types_) - 1,
         TypeAt(i) \in Starting
  PROVE  NextIndex(StartedBefore(i + 1)) = {(rr_index_ + i + 1) % Len(round_robin_types_)}
<1> DEFINE S == StartedBefore(i + 1)
<1>1. TypeAt(i) \in S /\ Turn(TypeAt(i)) = i
  BY StartedByTurn, TurnOfType
<1>2. ASSUME NEW ty \in S
      PROVE  Turn(ty) \in Int /\ Turn(ty) <= i /\ (Turn(ty) >= i => ty = TypeAt(i))
  <2>1. ty \in Registered /\ TypeAt(i) \in Registered /\ Turn(ty) < i + 1
    BY TurnOfType DEF StartedBefore, Starting, Eligible
  <2>2. Turn(ty) \in Int /\ (Turn(ty) = Turn(TypeAt(i)) => ty = TypeAt(i))
    BY <2>1, TurnIsInjective
  <2>3. QED
    BY <1>1, <2>1, <2>2
<1> HIDE DEF S
<1>3. { ty \in S : \A u \in S : Turn(u) <= Turn(ty) } = {TypeAt(i)}
  BY <1>1, <1>2
<1>4. QED
  BY <1>1, <1>3 DEF NextIndex, S

LEMMA LoopStarts ==
  ASSUME TypeOK
  PROVE  LoopAt(0) = [pc |-> "next", total |-> running_total_, available |-> Available,
                      started |-> {}, index |-> rr_index_]
<1>1. StartedBefore(0) = {}
  <2>1. ASSUME NEW ty \in Starting
        PROVE  ~ (Turn(ty) < 0)
    <3>1. ty \in Registered
      BY DEF Starting, Eligible
    <3>2. Turn(ty) \in 0 .. Len(round_robin_types_) - 1
      BY <3>1, TurnIsInjective
    <3>3. QED
      BY <3>2
  <2>2. QED
    BY <2>1 DEF StartedBefore
<1>2. NextIndex({}) = {rr_index_}
  BY DEF NextIndex
<1>3. Cardinality({}) = 0
  BY FS_EmptySet
<1>4. running_total_ + 0 = running_total_ /\ Available - 0 = Available
  BY SchedulingNumbers
<1>5. ~ \E j \in 0 .. Len(round_robin_types_) : j < 0 /\ EndsAt(j)
  OBVIOUS
<1>6. (CHOOSE x : x \in NextIndex({})) = rr_index_
  BY <1>2
<1>7. QED
  BY <1>1, <1>3, <1>4, <1>5, <1>6 DEF LoopAt

LEMMA LoopGoesOn ==
  ASSUME TypeOK, IsInjective(round_robin_types_), NEW i \in 0 .. Len(round_robin_types_) - 1
  PROVE  LoopAt(i + 1) = LoopTurn(i, LoopAt(i))
<1> DEFINE n == Len(round_robin_types_)
<1>1. n \in Nat /\ i \in 0 .. n - 1
  BY DEF TypeOK
<1>2. /\ LoopAt(i).total = running_total_ + Cardinality(StartedBefore(i))
      /\ LoopAt(i).available = Available - Cardinality(StartedBefore(i))
      /\ LoopAt(i).started = StartedBefore(i)
      /\ LoopAt(i).pc \in {"next", "end"}
      /\ LoopAt(i).pc = "end" <=> \E j \in 0 .. n : j < i /\ EndsAt(j)
  BY DEF LoopAt
<1>3. CASE \E j \in 0 .. i : EndsAt(j)
  <2>1. StartedBefore(i + 1) = StartedBefore(i)
    BY <1>3, StartedByTurn, NothingAfterTheEnd
  <2>2. LoopAt(i).pc = "end" \/ EndsAt(i)
    <3>1. PICK j \in 0 .. i : EndsAt(j)
      BY <1>3
    <3>2. j = i \/ (j < i /\ j \in 0 .. n)
      BY <1>1
    <3>3. QED
      BY <1>2, <3>1, <3>2
  <2>3. LoopTurn(i, LoopAt(i)) = [LoopAt(i) EXCEPT !.pc = "end"]
    BY <1>2, <2>2 DEF LoopTurn, EndsAt
  <2>4. \E j \in 0 .. n : j < i + 1 /\ EndsAt(j)
    <3>1. PICK j \in 0 .. i : EndsAt(j)
      BY <1>3
    <3>2. j \in 0 .. n /\ j < i + 1
      BY <1>1
    <3>3. QED
      BY <3>1, <3>2
  <2>5. QED
    BY <2>1, <2>3, <2>4 DEF LoopAt
<1>4. CASE \A j \in 0 .. i : ~ EndsAt(j)
  <2>1. ~ EndsAt(i) /\ LoopAt(i).pc # "end"
    BY <1>1, <1>2, <1>4
  <2>2. ~ \E j \in 0 .. n : j < i + 1 /\ EndsAt(j)
    <3>1. ASSUME NEW j \in 0 .. n, j < i + 1
          PROVE  ~ EndsAt(j)
      <4>1. j \in 0 .. i
        BY <1>1, <3>1
      <4>2. QED
        BY <1>4, <4>1
    <3>2. QED
      BY <3>1
  <2>3. ~ (/\ \/ LoopAt(i).pc = "end"
              \/ LoopAt(i).total >= effective_max_
              \/ (TypeAt(i) \in Eligible /\ LoopAt(i).available <= 0))
    BY <1>2, <2>1 DEF EndsAt
  <2>4. CASE TypeAt(i) \notin Eligible
    <3>1. LoopTurn(i, LoopAt(i)) = LoopAt(i)
      BY <2>3, <2>4 DEF LoopTurn
    <3>2. StartedBefore(i + 1) = StartedBefore(i)
      <4>1. TypeAt(i) \notin Starting
        BY <2>4 DEF Starting
      <4>2. QED
        BY <4>1, StartedByTurn
    <3>3. ~ \E j \in 0 .. n : j < i /\ EndsAt(j)
      BY <1>2, <2>1
    <3>4. QED
      BY <2>2, <3>1, <3>2, <3>3 DEF LoopAt
  <2>5. CASE TypeAt(i) \in Eligible
    <3>1. TypeAt(i) \in Starting
      BY <1>4, <2>5, EverythingBeforeTheEnd
    <3>2. StartedBefore(i + 1) = StartedBefore(i) \cup {TypeAt(i)}
      BY <3>1, StartedByTurn
    <3>3. Cardinality(StartedBefore(i + 1)) = Cardinality(StartedBefore(i)) + 1
          /\ Cardinality(StartedBefore(i)) \in Nat
      <4>1. TypeAt(i) \notin StartedBefore(i)
        BY <1>1, TurnOfType DEF StartedBefore
      <4>2. IsFiniteSet(StartedBefore(i)) /\ Cardinality(StartedBefore(i)) \in Nat
        BY SchedulingNumbers DEF StartedBefore, Starting
      <4>3. QED
        BY <3>2, <4>1, <4>2, FS_AddElement
    <3>4. (CHOOSE x : x \in NextIndex(StartedBefore(i + 1))) = (rr_index_ + i + 1) % n
      BY <3>1, IndexAfterTurn
    <3>5. LoopTurn(i, LoopAt(i)) = [pc |-> "next",
                                    total |-> LoopAt(i).total + 1,
                                    available |-> LoopAt(i).available - 1,
                                    started |-> LoopAt(i).started \cup {TypeAt(i)},
                                    index |-> (rr_index_ + i + 1) % n]
      BY <2>3, <2>5 DEF LoopTurn
    <3>6. /\ LoopAt(i).total + 1 = running_total_ + Cardinality(StartedBefore(i + 1))
          /\ LoopAt(i).available - 1 = Available - Cardinality(StartedBefore(i + 1))
      BY <1>2, <3>3, SchedulingNumbers
    <3>7. QED
      BY <1>2, <2>2, <3>2, <3>4, <3>5, <3>6 DEF LoopAt
  <2>6. QED
    BY <2>4, <2>5
<1>5. QED
  BY <1>3, <1>4

\* The loop is the function that goes from turn to turn; there is one only.
LEMMA LoopTurnByTurn ==
  ASSUME TypeOK, IsInjective(round_robin_types_)
  PROVE  \A i \in 0 .. Len(round_robin_types_) : Loop[i] = LoopAt(i)
<1> DEFINE n == Len(round_robin_types_)
           start == [pc |-> "next", total |-> running_total_, available |-> Available,
                     started |-> {}, index |-> rr_index_]
           h == [i \in 0 .. n |-> LoopAt(i)]
<1>1. n \in Nat
  BY DEF TypeOK
<1>2. h = [i \in 0 .. n |-> IF i = 0 THEN start ELSE LoopTurn(i - 1, h[i - 1])]
  <2>1. ASSUME NEW i \in 0 .. n
        PROVE  LoopAt(i) = IF i = 0 THEN start ELSE LoopTurn(i - 1, h[i - 1])
    <3>1. CASE i = 0
      BY <3>1, LoopStarts
    <3>2. CASE i # 0
      <4>1. i - 1 \in 0 .. n - 1 /\ i - 1 \in 0 .. n /\ (i - 1) + 1 = i
        BY <1>1, <3>2
      <4>2. LoopAt((i - 1) + 1) = LoopTurn(i - 1, LoopAt(i - 1))
        BY <4>1, LoopGoesOn
      <4>3. h[i - 1] = LoopAt(i - 1)
        BY <4>1
      <4>4. QED
        BY <3>2, <4>1, <4>2, <4>3
    <3>3. QED
      BY <3>1, <3>2
  <2>2. QED
    BY <2>1, Zenon
<1> HIDE DEF h, start
<1>3. Loop = [i \in 0 .. n |-> IF i = 0 THEN start ELSE LoopTurn(i - 1, Loop[i - 1])]
  BY <1>2, Zenon DEF Loop, n, start
<1> DEFINE Differs == { i \in 0 .. n : Loop[i] # LoopAt(i) }
<1> SUFFICES ASSUME Differs # {}
             PROVE  FALSE
  OBVIOUS
<1>4. PICK i \in Differs : \A k \in Differs : ~ (k < i)
  <2>1. Differs \subseteq Nat /\ Differs # {}
    BY <1>1
  <2> HIDE DEF Differs
  <2>2. PICK i \in Differs : \A k \in Differs : ~ (<<k, i>> \in OpToRel(<, Nat))
    BY <2>1, WFMin, NatLessThanWellFounded
  <2>3. QED
    BY <2>1, <2>2 DEF OpToRel
<1>5. i \in 0 .. n /\ Loop[i] # LoopAt(i)
  BY <1>4
<1>6. Loop[i] = IF i = 0 THEN start ELSE LoopTurn(i - 1, Loop[i - 1])
  BY <1>3, <1>5
<1>7. CASE i = 0
  BY <1>5, <1>6, <1>7, LoopStarts DEF start
<1>8. CASE i # 0
  <2>1. i - 1 \in 0 .. n - 1 /\ i - 1 \in 0 .. n /\ (i - 1) + 1 = i /\ i - 1 < i
    BY <1>1, <1>5, <1>8
  <2>2. Loop[i - 1] = LoopAt(i - 1)
    BY <1>4, <2>1
  <2>3. LoopAt((i - 1) + 1) = LoopTurn(i - 1, LoopAt(i - 1))
    BY <2>1, LoopGoesOn
  <2>4. QED
    BY <1>5, <1>6, <1>8, <2>1, <2>2, <2>3
<1>9. QED
  BY <1>7, <1>8

\* The specification starts the tasks of one pass at once; in every state these are
\* the tasks that the loop of the code starts, and rr_index_ is left where it is.
THEOREM LoopTheorem == Spec => []ScheduleIsTheLoop
<1>1. ASSUME TypeOK, IsInjective(round_robin_types_)
      PROVE  ScheduleIsTheLoop
  <2> DEFINE n == Len(round_robin_types_)
  <2>1. n \in Nat /\ n \in 0 .. n
    BY <1>1 DEF TypeOK
  <2>2. Loop[n] = LoopAt(n)
    BY <1>1, <2>1, LoopTurnByTurn
  <2>3. StartedBefore(n) = Starting
    <3>1. ASSUME NEW ty \in Starting
          PROVE  Turn(ty) < n
      <4>1. ty \in Registered
        BY DEF Starting, Eligible
      <4>2. Turn(ty) \in 0 .. n - 1
        BY <1>1, <4>1, TurnIsInjective
      <4>3. QED
        BY <2>1, <4>2
    <3>2. QED
      BY <3>1 DEF StartedBefore
  <2>4. LoopAt(n).started = Starting /\ LoopAt(n).index = CHOOSE x : x \in NextIndex(Starting)
    BY <2>3 DEF LoopAt
  <2>5. NextIndex(Starting) # {}
    <3>1. CASE Starting = {}
      BY <3>1 DEF NextIndex
    <3>2. CASE Starting # {}
      <4>1. PICK last \in Starting : \A u \in Starting : Turn(u) <= Turn(last)
        BY <1>1, <3>2, LastStarted
      <4>2. QED
        BY <3>2, <4>1 DEF NextIndex
    <3>3. QED
      BY <3>1, <3>2
  <2>6. QED
    BY <2>2, <2>4, <2>5 DEF ScheduleIsTheLoop
<1>2. Inv => TypeOK /\ IsInjective(round_robin_types_)
  BY DEF Inv, QueuedTypesAreRegistered
<1>3. Inv => ScheduleIsTheLoop
  BY <1>1, <1>2
<1>4. QED
  BY <1>3, Invariance, PTL

=============================================================================
