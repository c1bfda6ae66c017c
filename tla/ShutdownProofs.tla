-------------------------- MODULE ShutdownProofs ---------------------------
(***************************************************************************)
(* What holds of HandlerPool for any number of threads, any set of jobs    *)
(* and any timeout, and then of Shutdown on top of it for any number of    *)
(* requests to end, any patience and a cache that may hang.  ShutdownInv   *)
(* is inductive; nothing in it depends on the pool beyond where the        *)
(* backend thread is.                                                      *)
(***************************************************************************)
EXTENDS Shutdown, FiniteSetTheorems, SequenceTheorems, TLAPS

-----------------------------------------------------------------------------
(* The handler threads *)

USE NumThreadsAssumption, StopTimeoutAssumption, PoisonAssumption

\* The three sets that Accounting counts are finite.
LEMMA CountedSetsFinite ==
  ASSUME TypeOK
  PROVE  IsFiniteSet(Alive) /\ IsFiniteSet(Stopping) /\ IsFiniteSet(Pending)
<1>1. IsFiniteSet(Threads)
  BY FS_Interval DEF Threads
<1>2. Len(queued) \in Nat
  BY LenProperties DEF TypeOK
<1>3. IsFiniteSet(Written)
  BY <1>2, FS_Interval DEF Written
<1>4. Alive \in SUBSET Threads /\ Stopping \in SUBSET Threads
      /\ Pending \in SUBSET Written
  BY DEF Alive, Stopping, Pending
<1> QED
  BY <1>1, <1>3, <1>4, FS_Subset

\* Writing an item to the queue keeps the old positions and adds one.
LEMMA EnqueueKeeps ==
  ASSUME TypeOK, NEW item \in Jobs \cup {Poison}, Enqueue(item)
  PROVE  /\ queued' \in Seq(Jobs \cup {Poison})
         /\ outcome' \in Seq({"waiting", "running", "done", "failed"})
         /\ Len(queued) \in Nat
         /\ Len(queued') = Len(queued) + 1
         /\ Len(outcome') = Len(queued')
         /\ Written' = Written \cup {Len(queued) + 1}
         /\ queued'[Len(queued) + 1] = item
         /\ \A i \in Written : queued'[i] = queued[i] /\ outcome'[i] = outcome[i]
<1> DEFINE Items == Jobs \cup {Poison}
           Results == {"waiting", "running", "done", "failed"}
<1>1. queued \in Seq(Items) /\ outcome \in Seq(Results) /\ Len(outcome) = Len(queued)
  BY DEF TypeOK
<1>2. queued' = Append(queued, item) /\ outcome' = Append(outcome, "waiting")
  BY DEF Enqueue
<1>3. Len(queued) \in Nat
  BY <1>1, LenProperties
<1>4. /\ queued' \in Seq(Items) /\ Len(queued') = Len(queued) + 1
      /\ \A i \in 1 .. Len(queued) : queued'[i] = queued[i]
      /\ queued'[Len(queued) + 1] = item
  BY <1>1, <1>2, AppendProperties
<1>5. /\ outcome' \in Seq(Results) /\ Len(outcome') = Len(outcome) + 1
      /\ \A i \in 1 .. Len(outcome) : outcome'[i] = outcome[i]
  BY <1>1, <1>2, AppendProperties
<1> QED
  BY <1>1, <1>3, <1>4, <1>5 DEF Written

\* The initial state satisfies the inductive invariant.
LEMMA PoolInit == Init => PoolInv
<1> SUFFICES ASSUME Init PROVE PoolInv
  OBVIOUS
<1> USE DEF Init, Threads
<1>1. TypeOK
  BY EmptySeq DEF TypeOK
<1>2. Held /\ Stages /\ EachReadOnce
  BY DEF Held, Stages, EachReadOnce
<1>3. Alive = {} /\ Stopping = {} /\ Pending = {}
  BY DEF Alive, Stopping, Pending, Written
<1>4. Accounting
  BY <1>3, FS_EmptySet DEF Accounting
<1> QED
  BY <1>1, <1>2, <1>4 DEF PoolInv

\* Handing over a job leaves the threads and the zeroes as they are.
LEMMA HandleStep ==
  ASSUME PoolInv, NEW job \in Jobs, Enqueue(job),
         UNCHANGED <<r_ptr, countVars, tpc, cur, backendVars>>
  PROVE  PoolInv'
<1> USE DEF PoolInv, countVars, backendVars
<1>1. /\ queued' \in Seq(Jobs \cup {Poison})
      /\ outcome' \in Seq({"waiting", "running", "done", "failed"})
      /\ Len(queued) \in Nat /\ Len(queued') = Len(queued) + 1
      /\ Len(outcome') = Len(queued')
      /\ Written' = Written \cup {Len(queued) + 1}
      /\ queued'[Len(queued) + 1] = job
      /\ \A i \in Written : queued'[i] = queued[i] /\ outcome'[i] = outcome[i]
  BY EnqueueKeeps
<1>2. \A i \in Written : PoisonAt(i)' <=> PoisonAt(i)
  BY <1>1 DEF PoisonAt
<1>3. queued'[Len(queued) + 1] # Poison
  BY <1>1
<1>4. r_ptr' = r_ptr /\ \A i \in 1 .. r_ptr : i \in Written
  BY DEF TypeOK, Written
<1>5. TypeOK'
  BY <1>1 DEF TypeOK
<1>6. Held'
  BY <1>1, <1>2, <1>4 DEF Held
<1>7. Stages'
  BY <1>1, <1>2 DEF Stages
<1>8. EachReadOnce'
  BY <1>1, <1>2, <1>4 DEF EachReadOnce
<1>9. Alive' = Alive /\ Stopping' = Stopping /\ Pending' = Pending
  BY <1>1, <1>2, <1>3 DEF Alive, Stopping, Pending, Written, PoisonAt
<1> QED
  BY <1>5, <1>6, <1>7, <1>8, <1>9 DEF Accounting

\* Starting a thread adds it to the ones in their loop.
LEMMA StartStep == PoolInv /\ StartThread => PoolInv'
<1> SUFFICES ASSUME PoolInv, StartThread PROVE PoolInv'
  OBVIOUS
<1> USE DEF PoolInv, StartThread, queueVars, backendVars
<1>1. number_of_threads \in Threads /\ number_of_threads \notin Alive
      /\ tpc[number_of_threads] = "none"
  BY DEF TypeOK, Stages, Threads, Alive
<1>2. TypeOK'
  BY <1>1 DEF TypeOK, Threads
<1>3. Held'
  BY <1>1 DEF Held, TypeOK, PoisonAt
<1>4. Stages'
  BY <1>1 DEF Stages, TypeOK, Threads, Written, PoisonAt
<1>5. EachReadOnce'
  BY <1>1 DEF EachReadOnce, TypeOK, PoisonAt
<1>6. Alive' = Alive \cup {number_of_threads} /\ Stopping' = Stopping
      /\ Pending' = Pending
  BY <1>1 DEF Alive, Stopping, Pending, TypeOK, Written, PoisonAt
<1>7. Cardinality(Alive') = Cardinality(Alive) + 1
  BY <1>1, <1>6, CountedSetsFinite, FS_AddElement
<1>8. Accounting'
  <2>1. Cardinality(Alive) = number_of_threads + Cardinality(Pending)
    BY DEF Accounting
  <2>2. Cardinality(Pending) \in Nat
    BY CountedSetsFinite, FS_CardinalityType
  <2> QED
    BY <1>6, <1>7, <2>1, <2>2 DEF Accounting, TypeOK
<1> QED
  BY <1>2, <1>3, <1>4, <1>5, <1>8

\* Reading a job: the position moves from the queue to the thread.
LEMMA ReadJobStep ==
  ASSUME PoolInv, NEW t \in Threads, ReadJob(t)
  PROVE  PoolInv'
<1> USE DEF PoolInv, ReadJob, countVars, backendVars
<1> DEFINE new == r_ptr + 1
<1>1. /\ new \in Written /\ new \in 1 .. Len(outcome) /\ r_ptr \in Nat
      /\ Len(queued) \in Nat /\ ~ PoisonAt(new)
      /\ r_ptr' = new /\ Written' = Written
  BY LenProperties DEF TypeOK, Written
<1>2. \A i : PoisonAt(i)' <=> PoisonAt(i)
  BY DEF PoisonAt
<1>3. \A u \in Threads : cur[u] # new
  BY <1>1 DEF Held, TypeOK
<1>4. /\ outcome' \in Seq({"waiting", "running", "done", "failed"})
      /\ Len(outcome') = Len(outcome)
      /\ \A i \in Written : outcome'[i] = IF i = new THEN "running" ELSE outcome[i]
  BY <1>1, ExceptSeq DEF TypeOK, Written
<1>5. \A u \in Threads : /\ tpc'[u] = IF u = t THEN "running" ELSE tpc[u]
                         /\ cur'[u] = IF u = t THEN new ELSE cur[u]
  BY DEF TypeOK
<1>6. TypeOK'
  BY <1>1, <1>4 DEF TypeOK
<1>7. Held'
  BY <1>1, <1>2, <1>3, <1>4, <1>5 DEF Held, Written, TypeOK
<1>8. Stages'
  BY <1>1, <1>2, <1>5 DEF Stages
<1>9. EachReadOnce'
  <2> SUFFICES ASSUME NEW i \in 1 .. new, ~ PoisonAt(i)
               PROVE  \/ /\ outcome'[i] \in {"done", "failed"}
                         /\ \A u \in Threads : cur'[u] # i
                      \/ /\ outcome'[i] = "running"
                         /\ \E u \in Threads :
                              /\ tpc'[u] = "running" /\ cur'[u] = i
                              /\ \A v \in Threads \ {u} : cur'[v] # i
    BY <1>1, <1>2 DEF EachReadOnce
  <2>1. CASE i = new
    BY <1>1, <1>3, <1>4, <1>5, <2>1
  <2>2. CASE i # new
    <3>1. i \in 1 .. r_ptr /\ i \in Written /\ outcome'[i] = outcome[i]
      BY <1>1, <1>4, <2>2 DEF Written, TypeOK
    <3>2. cur[t] = 0 /\ i # 0 /\ tpc[t] # "running"
      BY <3>1 DEF Held
    <3> QED
      BY <1>5, <3>1, <3>2, <2>2 DEF EachReadOnce
  <2> QED
    BY <2>1, <2>2
<1>10. Alive' = Alive /\ Stopping' = Stopping
  BY <1>5 DEF Alive, Stopping
<1>11. Pending' = Pending
  BY <1>1, <1>2 DEF Pending, Written
<1> QED
  BY <1>6, <1>7, <1>8, <1>9, <1>10, <1>11 DEF Accounting

\* Reading a zero: it leaves the queue as its reader leaves its loop.
LEMMA ReadPoisonStep ==
  ASSUME PoolInv, NEW t \in Threads, ReadPoison(t)
  PROVE  PoolInv'
<1> USE DEF PoolInv, ReadPoison, countVars, backendVars
<1> DEFINE new == r_ptr + 1
<1>1. /\ new \in Pending /\ r_ptr \in Nat /\ Len(queued) \in Nat
      /\ r_ptr' = new /\ Written' = Written /\ t \in Alive /\ t \notin Stopping
  BY LenProperties DEF TypeOK, Written, Pending, Alive, Stopping
<1>2. \A i : PoisonAt(i)' <=> PoisonAt(i)
  BY DEF PoisonAt
<1>3. \A u \in Threads : tpc'[u] = IF u = t THEN "stopping" ELSE tpc[u]
  BY DEF TypeOK
<1>4. TypeOK'
  BY <1>1 DEF TypeOK, Written, Pending
<1>5. Held'
  BY <1>1, <1>2, <1>3 DEF Held
<1>6. Stages'
  BY <1>1, <1>2, <1>3 DEF Stages
<1>7. EachReadOnce'
  BY <1>1, <1>2, <1>3 DEF EachReadOnce, Pending
<1>8. /\ Alive' = Alive \ {t} /\ Stopping' = Stopping \cup {t}
      /\ Pending' = Pending \ {new}
  BY <1>1, <1>2, <1>3 DEF Alive, Stopping, Pending, Written
<1>9. /\ Cardinality(Alive') = Cardinality(Alive) - 1
      /\ Cardinality(Stopping') = Cardinality(Stopping) + 1
      /\ Cardinality(Pending') = Cardinality(Pending) - 1
  BY <1>1, <1>8, CountedSetsFinite, FS_AddElement, FS_RemoveElement
<1>10. Cardinality(Alive) \in Nat /\ Cardinality(Stopping) \in Nat
       /\ Cardinality(Pending) \in Nat
  BY CountedSetsFinite, FS_CardinalityType
<1>11. Accounting'
  <2> DEFINE lag == IF backend = "counting" THEN 1 ELSE 0
             a == Cardinality(Alive)
             s == Cardinality(Stopping)
             p == Cardinality(Pending)
  <2>1. a = number_of_threads + p /\ thread_reap_cnt = p + s - lag
    BY DEF Accounting
  <2>2. a' = a - 1 /\ s' = s + 1 /\ p' = p - 1 /\ lag' = lag
    BY <1>9
  <2>3. a \in Nat /\ s \in Nat /\ p \in Nat /\ lag \in Nat
        /\ number_of_threads \in Int
    BY <1>10 DEF TypeOK
  <2>4. number_of_threads' = number_of_threads /\ thread_reap_cnt' = thread_reap_cnt
    OBVIOUS
  <2> HIDE DEF lag, a, s, p
  <2>5. a' = number_of_threads' + p' /\ thread_reap_cnt' = p' + s' - lag'
    BY <2>1, <2>2, <2>3, <2>4
  <2> QED
    BY <2>5 DEF Accounting, lag, a, s, p
<1> QED
  BY <1>4, <1>5, <1>6, <1>7, <1>11

\* A handler that returns and one that throws both finish their position.
LEMMA FinishStep ==
  ASSUME PoolInv, NEW t \in Threads, NEW result \in {"done", "failed"},
         FinishWith(t, result)
  PROVE  PoolInv'
<1> USE DEF PoolInv, FinishWith, queueVars, countVars, backendVars
<1> DEFINE mine == cur[t]
<1>1. /\ mine \in 1 .. r_ptr /\ mine \in Written /\ mine \in 1 .. Len(outcome)
      /\ ~ PoisonAt(mine) /\ r_ptr \in Nat /\ Len(queued) \in Nat
      /\ r_ptr' = r_ptr /\ Written' = Written
  BY LenProperties DEF TypeOK, Written, Held
<1>2. \A i : PoisonAt(i)' <=> PoisonAt(i)
  BY DEF PoisonAt
<1>3. \A u \in Threads \ {t} : cur[u] # mine
  <2>1. outcome[mine] = "running"
    BY DEF Held
  <2> QED
    BY <1>1, <2>1 DEF EachReadOnce
<1>4. /\ outcome' \in Seq({"waiting", "running", "done", "failed"})
      /\ Len(outcome') = Len(outcome)
      /\ \A i \in Written : outcome'[i] = IF i = mine THEN result ELSE outcome[i]
  BY <1>1, ExceptSeq DEF TypeOK, Written
<1>5. \A u \in Threads : /\ tpc'[u] = IF u = t THEN "reading" ELSE tpc[u]
                         /\ cur'[u] = IF u = t THEN 0 ELSE cur[u]
  BY DEF TypeOK
<1>6. TypeOK'
  BY <1>1, <1>4 DEF TypeOK
<1>7. Held'
  BY <1>1, <1>2, <1>3, <1>4, <1>5 DEF Held, Written, TypeOK
<1>8. Stages'
  BY <1>1, <1>2, <1>5 DEF Stages
<1>9. EachReadOnce'
  <2> SUFFICES ASSUME NEW i \in 1 .. r_ptr, ~ PoisonAt(i)
               PROVE  \/ /\ outcome'[i] \in {"done", "failed"}
                         /\ \A u \in Threads : cur'[u] # i
                      \/ /\ outcome'[i] = "running"
                         /\ \E u \in Threads :
                              /\ tpc'[u] = "running" /\ cur'[u] = i
                              /\ \A v \in Threads \ {u} : cur'[v] # i
    BY <1>1, <1>2 DEF EachReadOnce
  <2>1. CASE i = mine
    BY <1>1, <1>3, <1>4, <1>5, <2>1
  <2>2. CASE i # mine
    <3>1. i \in Written /\ outcome'[i] = outcome[i] /\ cur[t] # i /\ i # 0
      BY <1>1, <1>4, <2>2 DEF Written, TypeOK
    <3> QED
      BY <1>5, <3>1 DEF EachReadOnce
  <2> QED
    BY <2>1, <2>2
<1>10. Alive' = Alive /\ Stopping' = Stopping /\ Pending' = Pending
  BY <1>1, <1>2, <1>5 DEF Alive, Stopping, Pending
<1> QED
  BY <1>6, <1>7, <1>8, <1>9, <1>10 DEF Accounting

\* A thread that counts itself out leaves the set that is waited for.
LEMMA ReapStep ==
  ASSUME PoolInv, NEW t \in Threads, Reap(t)
  PROVE  PoolInv'
<1> USE DEF PoolInv, Reap, queueVars, backendVars
<1>1. t \in Stopping /\ Written' = Written
  BY DEF Stopping, Written
<1>2. \A i : PoisonAt(i)' <=> PoisonAt(i)
  BY DEF PoisonAt
<1>3. \A u \in Threads : tpc'[u] = IF u = t THEN "gone" ELSE tpc[u]
  BY DEF TypeOK
<1>4. TypeOK'
  BY DEF TypeOK
<1>5. Held' /\ EachReadOnce'
  BY <1>2, <1>3 DEF Held, EachReadOnce
<1>6. Alive' = Alive /\ Stopping' = Stopping \ {t} /\ Pending' = Pending
  BY <1>1, <1>2, <1>3 DEF Alive, Stopping, Pending
<1>7. Cardinality(Stopping') = Cardinality(Stopping) - 1
  BY <1>1, <1>6, CountedSetsFinite, FS_RemoveElement
<1>8. Cardinality(Stopping) \in Nat /\ Cardinality(Pending) \in Nat
  BY CountedSetsFinite, FS_CardinalityType
<1>9. backend # "stopped"
  <2> SUFFICES ASSUME backend = "stopped" PROVE FALSE
    OBVIOUS
  <2>1. Cardinality(Pending) + Cardinality(Stopping) = 0
    BY <1>8 DEF Accounting, Stages
  <2>2. Cardinality(Stopping) = 0
    BY <1>8, <2>1
  <2> QED
    BY <1>1, <2>2, CountedSetsFinite, FS_EmptySet
<1>10. Stages'
  BY <1>1, <1>2, <1>3, <1>9 DEF Stages
<1>11. Accounting'
  <2>1. thread_reap_cnt = Cardinality(Pending) + Cardinality(Stopping)
                            - (IF backend = "counting" THEN 1 ELSE 0)
    BY DEF Accounting
  <2>2. thread_reap_cnt' = thread_reap_cnt - 1 /\ UNCHANGED <<backend, number_of_threads>>
    OBVIOUS
  <2>3. thread_reap_cnt' = Cardinality(Pending') + Cardinality(Stopping')
                             - (IF backend' = "counting" THEN 1 ELSE 0)
    <3> HIDE DEF PoolInv, Reap
    <3> QED BY <1>6, <1>7, <1>8, <2>1, <2>2
  <2>4. Cardinality(Alive') = number_of_threads' + Cardinality(Pending')
    BY <1>6, <2>2 DEF Accounting
  <2> QED BY <2>3, <2>4 DEF Accounting
<1> QED
  BY <1>4, <1>5, <1>10, <1>11

\* The backend writes a zero and owes one count.
LEMMA StopWriteStep == PoolInv /\ StopWrite => PoolInv'
<1> SUFFICES ASSUME PoolInv, StopWrite PROVE PoolInv'
  OBVIOUS
<1> USE DEF PoolInv, StopWrite
<1> DEFINE new == Len(queued) + 1
<1>1. /\ queued' \in Seq(Jobs \cup {Poison})
      /\ outcome' \in Seq({"waiting", "running", "done", "failed"})
      /\ Len(queued) \in Nat /\ Len(queued') = Len(queued) + 1
      /\ Len(outcome') = Len(queued')
      /\ Written' = Written \cup {new}
      /\ queued'[new] = Poison
      /\ \A i \in Written : queued'[i] = queued[i] /\ outcome'[i] = outcome[i]
  BY EnqueueKeeps
<1>2. \A i \in Written : PoisonAt(i)' <=> PoisonAt(i)
  BY <1>1 DEF PoisonAt
<1>3. r_ptr' = r_ptr /\ r_ptr < new /\ \A i \in 1 .. r_ptr : i \in Written
  BY <1>1 DEF TypeOK, Written
<1>4. TypeOK'
  BY <1>1 DEF TypeOK
<1>5. Held'
  BY <1>1, <1>2, <1>3 DEF Held
<1>6. Stages'
  BY <1>1, <1>2 DEF Stages, PoisonAt, TypeOK
<1>7. EachReadOnce'
  BY <1>1, <1>2, <1>3 DEF EachReadOnce
<1>8. Alive' = Alive /\ Stopping' = Stopping /\ Pending' = Pending \cup {new}
      /\ new \notin Pending
  BY <1>1, <1>2, <1>3 DEF Alive, Stopping, Pending, Written, PoisonAt
<1>9. Cardinality(Pending') = Cardinality(Pending) + 1
  BY <1>8, CountedSetsFinite, FS_AddElement
<1>10. Cardinality(Stopping) \in Nat /\ Cardinality(Pending) \in Nat
  BY CountedSetsFinite, FS_CardinalityType
<1>11. Accounting'
  <2> DEFINE a == Cardinality(Alive)
             s == Cardinality(Stopping)
             p == Cardinality(Pending)
  <2>1. a = number_of_threads + p /\ thread_reap_cnt = p + s
    BY <1>10 DEF Accounting
  <2>2. a' = a /\ s' = s /\ p' = p + 1
    BY <1>8, <1>9
  <2>3. s \in Nat /\ p \in Nat /\ number_of_threads \in Int
    BY <1>10 DEF TypeOK
  <2>4. /\ number_of_threads' = number_of_threads - 1
        /\ thread_reap_cnt' = thread_reap_cnt /\ backend' = "counting"
    OBVIOUS
  <2> HIDE DEF a, s, p
  <2>5. a' = number_of_threads' + p' /\ thread_reap_cnt' = p' + s' - 1
    BY <2>1, <2>2, <2>3, <2>4
  <2> QED
    BY <2>4, <2>5 DEF Accounting, a, s, p
<1> QED
  BY <1>4, <1>5, <1>6, <1>7, <1>11

\* The steps of the backend that touch neither the queue nor the threads.
LEMMA BackendOnlyStep ==
  ASSUME PoolInv, UNCHANGED <<queueVars, threadVars>>,
         \/ Started \/ StopBegin \/ StopCount \/ StopWait \/ StopClean \/ StopTick
  PROVE  PoolInv'
<1> USE DEF PoolInv, queueVars, threadVars
<1>1. /\ Alive' = Alive /\ Stopping' = Stopping /\ Pending' = Pending
      /\ Written' = Written
  BY DEF Alive, Stopping, Pending, Written, PoisonAt
<1>2. Held' /\ EachReadOnce'
  BY DEF Held, EachReadOnce, PoisonAt
<1>3. Cardinality(Stopping) \in Nat /\ Cardinality(Pending) \in Nat
  BY CountedSetsFinite, FS_CardinalityType
<1> USE DEF countVars
<1>4. TypeOK' /\ Stages' /\ Accounting'
  <2>1. CASE Started
    BY <1>1, <2>1 DEF Started, TypeOK, Stages, Accounting, PoisonAt
  <2>2. CASE StopBegin
    BY <1>1, <2>2 DEF StopBegin, TypeOK, Stages, Accounting, PoisonAt
  <2>3. CASE StopCount
    BY <1>1, <1>3, <2>3 DEF StopCount, TypeOK, Stages, Accounting, PoisonAt
  <2>4. CASE StopWait
    BY <1>1, <2>4 DEF StopWait, TypeOK, Stages, Accounting, PoisonAt
  <2>5. CASE StopClean
    BY <1>1, <2>5 DEF StopClean, TypeOK, Stages, Accounting, PoisonAt
  <2>6. CASE StopTick
    BY <1>1, <2>6 DEF StopTick, TypeOK, Stages, Accounting, PoisonAt
  <2> QED
    BY <2>1, <2>2, <2>3, <2>4, <2>5, <2>6
<1> QED
  BY <1>2, <1>4

\* PoolInv is inductive: every step of the backend, of a thread and of a
\* producer keeps it.
THEOREM PoolStep == PoolInv /\ [Next]_vars => PoolInv'
<1> SUFFICES ASSUME PoolInv, [Next]_vars PROVE PoolInv'
  OBVIOUS
<1>1. CASE StartThread
  BY <1>1, StartStep
<1>2. CASE Started \/ StopBegin \/ StopCount \/ StopWait \/ StopClean \/ StopTick
  <2>1. UNCHANGED <<queueVars, threadVars>>
    BY <1>2 DEF Started, StopBegin, StopCount, StopWait, StopClean, StopTick
  <2> QED
    BY <1>2, <2>1, BackendOnlyStep
<1>3. CASE StopWrite
  BY <1>3, StopWriteStep
<1>4. ASSUME NEW job \in Jobs, BackendHandle(job) PROVE PoolInv'
  BY <1>4, HandleStep DEF BackendHandle
<1>5. ASSUME NEW t \in Threads, NEW job \in Jobs, HandlerHandle(t, job)
      PROVE  PoolInv'
  BY <1>5, HandleStep DEF HandlerHandle
<1>6. ASSUME NEW t \in Threads, ReadJob(t) PROVE PoolInv'
  BY <1>6, ReadJobStep
<1>7. ASSUME NEW t \in Threads, ReadPoison(t) PROVE PoolInv'
  BY <1>7, ReadPoisonStep
<1>8. ASSUME NEW t \in Threads, JobDone(t) \/ JobFails(t) PROVE PoolInv'
  BY <1>8, FinishStep DEF JobDone, JobFails
<1>9. ASSUME NEW t \in Threads, Reap(t) PROVE PoolInv'
  BY <1>9, ReapStep
<1>10. CASE UNCHANGED vars
  BY <1>10 DEF vars, PoolInv, TypeOK, Held, Stages, EachReadOnce, Accounting,
               Alive, Stopping, Pending, Written, PoisonAt
<1> QED
  BY <1>1, <1>2, <1>3, <1>4, <1>5, <1>6, <1>7, <1>8, <1>9, <1>10
     DEF Next, Backend, Terminated

\* What PoolInv says at the point where stop_handler_threads() returns
\* because thread_reap_cnt is zero.
LEMMA CleanStopFollows == PoolInv => CleanStop
<1> SUFFICES ASSUME PoolInv, backend = "stopped"
             PROVE  /\ \A i \in Written : BeforeStop(i) => outcome[i] \in {"done", "failed"}
                    /\ Alive = {}
  BY DEF CleanStop
<1> USE DEF PoolInv
<1>1. /\ Cardinality(Alive) \in Nat /\ Cardinality(Stopping) \in Nat
      /\ Cardinality(Pending) \in Nat
  BY CountedSetsFinite, FS_CardinalityType
<1>2. number_of_threads = 0 /\ thread_reap_cnt = 0
  BY DEF Stages
<1>3. Cardinality(Pending) = 0 /\ Cardinality(Alive) = 0
  BY <1>1, <1>2 DEF Accounting
<1>4. Alive = {} /\ Pending = {}
  BY <1>3, CountedSetsFinite, FS_EmptySet
<1>5. PICK k \in Written : PoisonAt(k)
  BY <1>2 DEF Stages
<1>6. Len(queued) \in Nat /\ r_ptr \in Nat
  BY LenProperties DEF TypeOK
<1>7. k <= r_ptr
  BY <1>4, <1>5, <1>6 DEF Pending, Written
<1>8. ASSUME NEW i \in Written, BeforeStop(i)
      PROVE  outcome[i] \in {"done", "failed"}
  <2>1. i < k
    BY <1>5, <1>6, <1>8 DEF BeforeStop, Written
  <2>2. i \in 1 .. r_ptr /\ ~ PoisonAt(i)
    BY <1>6, <1>7, <1>8, <2>1 DEF BeforeStop, Written
  <2>3. \A t \in Threads : tpc[t] # "running"
    BY <1>4 DEF Alive
  <2> QED
    BY <2>2, <2>3 DEF EachReadOnce
<1> QED
  BY <1>4, <1>8

\* Type correctness of every reachable state.
THEOREM TypeCorrect == Spec => []TypeOK
<1>1. PoolInv => TypeOK
  BY DEF PoolInv
<1> QED
  BY <1>1, PoolInit, PoolStep, PTL DEF Spec

\* The stop protocol's counters always agree with the queue and the threads.
THEOREM AccountingHolds == Spec => []Accounting
<1>1. PoolInv => Accounting
  BY DEF PoolInv
<1> QED
  BY <1>1, PoolInit, PoolStep, PTL DEF Spec

\* No position of the queue is lost or handled by two threads.
THEOREM ReadOnce == Spec => []EachReadOnce
<1>1. PoolInv => EachReadOnce
  BY DEF PoolInv
<1> QED
  BY <1>1, PoolInit, PoolStep, PTL DEF Spec

\* When stop_handler_threads() returns without giving up, everything that
\* was queued before the stop has been handled and no handler is running.
THEOREM StopIsClean == Spec => []CleanStop
  BY PoolInit, PoolStep, CleanStopFollows, PTL DEF Spec

\* Only a zero read from the queue takes a thread out of its loop.
THEOREM ThreadsSurvive == Spec => NoThreadLost
<1> DEFINE Kept == \A t \in Alive :
                     t \in Alive' \/ (t \in Stopping' /\ PoisonAt(r_ptr'))
<1>1. PoolInv /\ [Next]_vars => [Kept]_vars
  <2> SUFFICES ASSUME PoolInv, [Next]_vars, NEW t \in Alive
               PROVE  t \in Alive' \/ (t \in Stopping' /\ PoisonAt(r_ptr'))
    OBVIOUS
  <2> USE DEF Alive, Stopping, TypeOK, PoolInv
  <2>1. CASE tpc' = tpc
    BY <2>1
  <2>2. CASE StartThread
    BY <2>2 DEF StartThread
  <2>3. ASSUME NEW u \in Threads, ReadJob(u) \/ FinishWith(u, "done")
                                    \/ FinishWith(u, "failed") \/ Reap(u)
        PROVE  t \in Alive'
    BY <2>3 DEF ReadJob, FinishWith, Reap
  <2>4. ASSUME NEW u \in Threads, ReadPoison(u)
        PROVE  t \in Alive' \/ (t \in Stopping' /\ PoisonAt(r_ptr'))
    BY <2>4 DEF ReadPoison
  <2> QED
    BY <2>1, <2>2, <2>3, <2>4
       DEF Next, Backend, Started, StopBegin, StopWrite, StopCount, StopWait,
           StopClean, StopTick, BackendHandle, HandlerHandle, JobDone, JobFails,
           Terminated, vars, threadVars
<1> QED
  BY <1>1, PoolInit, PoolStep, PTL DEF Spec, NoThreadLost

-----------------------------------------------------------------------------
(* Shutdown and restart *)

USE DEF Quit, Restart, Unclean

\* A request to end is put behind those made before, and changes who asked
\* only by its own name.
LEMMA AskAppends ==
  ASSUME asked \in Seq(Requests), NEW r \in Requests, Ask(r.who, r.code)
  PROVE  /\ asked' \in Seq(Requests)
         /\ Len(asked) \in Nat /\ Len(asked') = Len(asked) + 1 /\ asked' # <<>>
         /\ asked'[Len(asked) + 1].code = r.code
         /\ \A i \in 1 .. Len(asked) : asked'[i] = asked[i]
         /\ \A w : Who(w)' = Who(w) \cup (IF w = r.who THEN {Len(asked) + 1} ELSE {})
<1>1. /\ asked' = Append(asked, [who |-> r.who, code |-> r.code])
      /\ [who |-> r.who, code |-> r.code] \in Requests
  BY DEF Ask, Requests
<1>2. /\ asked' \in Seq(Requests)
      /\ Len(asked') = Len(asked) + 1 /\ asked' # <<>>
      /\ asked'[Len(asked) + 1] = [who |-> r.who, code |-> r.code]
      /\ \A i \in 1 .. Len(asked) : asked'[i] = asked[i]
      /\ DOMAIN asked' = 1 .. Len(asked) + 1 /\ DOMAIN asked = 1 .. Len(asked)
      /\ Len(asked) \in Nat
  BY <1>1
<1>3. ASSUME NEW w
      PROVE  Who(w)' = Who(w) \cup (IF w = r.who THEN {Len(asked) + 1} ELSE {})
  <2>1. /\ Who(w)' = {i \in 1 .. Len(asked) + 1 : asked'[i].who = w}
        /\ Who(w) = {i \in 1 .. Len(asked) : asked[i].who = w}
    BY <1>2 DEF Who
  <2>2. asked'[Len(asked) + 1].who = r.who
    BY <1>2
  <2>3. ASSUME NEW i
        PROVE  i \in Who(w)' <=> i \in Who(w) \cup (IF w = r.who THEN {Len(asked) + 1} ELSE {})
    <3>1. i \in 1 .. Len(asked) + 1 <=> (i \in 1 .. Len(asked) \/ i = Len(asked) + 1)
      BY <1>2
    <3>2. Len(asked) + 1 \notin 1 .. Len(asked)
      BY <1>2
    <3> QED BY <1>2, <2>1, <2>2, <3>1, <3>2
  <2> QED BY <2>3
<1> QED BY <1>2, <1>3

\* Requests that go through low_shutdown(): a call_out goes behind the others
\* as the request does, and EMFILE makes its one with the flag down.
LEMMA LowAskStep ==
  ASSUME ShutdownInv, NEW r \in Requests, r.who # "SIGINT",
         Ask(r.who, r.code), LowShutdown(r.code),
         UNCHANGED <<backend, ports, closing, _recurse, exitVars>>,
         \/ r.who # "EMFILE" /\ UNCHANGED shutting_down
         \/ ~ shutting_down /\ shutting_down' = TRUE
  PROVE  ShutdownInv'
<1> USE DEF ShutdownInv, exitVars, LowShutdown, CacheFailed
<1>1. /\ asked' \in Seq(Requests)
      /\ Len(asked) \in Nat /\ Len(asked') = Len(asked) + 1 /\ asked' # <<>>
      /\ asked'[Len(asked) + 1].code = r.code
      /\ \A i \in 1 .. Len(asked) : asked'[i] = asked[i]
      /\ \A w : Who(w)' = Who(w) \cup (IF w = r.who THEN {Len(asked) + 1} ELSE {})
  BY AskAppends DEF ShutdownTypeOK
<1>2. /\ call_outs' \in Seq({Quit, Restart}) /\ r.code \in {Quit, Restart}
      /\ Len(call_outs) \in Nat
      /\ Len(call_outs') = Len(call_outs) + 1
      /\ call_outs'[Len(call_outs) + 1] = r.code
      /\ \A i \in 1 .. Len(call_outs) : call_outs'[i] = call_outs[i]
  <2>1. r.code \in {Quit, Restart}
    BY DEF Requests
  <2>2. call_outs \in Seq({Quit, Restart}) /\ call_outs' = Append(call_outs, r.code)
    BY DEF ShutdownTypeOK
  <2> HIDE DEF ShutdownInv, exitVars, LowShutdown, CacheFailed
  <2> QED BY <2>1, <2>2
<1>3. ShutdownTypeOK'
  BY <1>1, <1>2 DEF ShutdownTypeOK
<1>4. Ways'
  <2>1. Who("SIGINT")' = Who("SIGINT")
    BY <1>1
  <2> QED BY <2>1 DEF Ways
<1>5. Sockets'
  <2>1. Who("EMFILE")' = Who("EMFILE") \cup (IF "EMFILE" = r.who THEN {Len(asked) + 1} ELSE {})
    BY <1>1
  <2> QED BY <2>1 DEF Sockets
<1>6. Promise'
  <2>1. Who("SIGINT")' = Who("SIGINT")
    BY <1>1
  <2>2. ASSUME leaving = "no", Len(call_outs) = Len(asked),
               \A i \in 1 .. Len(asked) : call_outs[i] = asked[i].code
        PROVE  /\ Len(call_outs') = Len(asked')
               /\ \A i \in 1 .. Len(asked') : call_outs'[i] = asked'[i].code
    BY <1>1, <1>2, <2>2
  <2>3. asked # <<>> => asked'[1] = asked[1]
    <3>1. asked # <<>> => 1 \in 1 .. Len(asked)
      <4>1. asked \in Seq(Requests)
        BY DEF ShutdownTypeOK
      <4> HIDE DEF ShutdownInv
      <4> QED BY <4>1
    <3> QED BY <3>1, <1>1
  <2> QED BY <1>1, <2>1, <2>2, <2>3 DEF Promise
<1> QED BY <1>3, <1>4, <1>5, <1>6

\* The initial state satisfies the inductive invariant.
LEMMA ShutdownInitInv == ShutdownInit => ShutdownInv
<1> SUFFICES ASSUME ShutdownInit PROVE ShutdownInv
  OBVIOUS
<1> USE DEF ShutdownInit
<1>1. asked = <<>> /\ call_outs = <<>> /\ Len(asked) = 0 /\ Len(call_outs) = 0
  OBVIOUS
<1>2. \A w : Who(w) = {}
  BY <1>1 DEF Who
<1>3. ShutdownTypeOK
  <2>1. _recurse \in Nat
    OBVIOUS
  <2>2. call_outs \in Seq({Quit, Restart}) /\ asked \in Seq(Requests)
    BY <1>1
  <2>3. exit_code \in {Quit, Restart, Unclean}
    OBVIOUS
  <2> QED BY <2>1, <2>2, <2>3 DEF ShutdownTypeOK
<1>4. Ways
  BY <1>1 DEF Ways, Init
<1>5. Sockets
  BY <1>2 DEF Sockets
<1>6. Promise
  BY <1>1 DEF Promise
<1> QED BY <1>3, <1>4, <1>5, <1>6 DEF ShutdownInv

\* SIGINT: nothing is promised of the exit code any more.
LEMMA InterruptStep == ShutdownInv /\ Interrupt => ShutdownInv'
<1> SUFFICES ASSUME ShutdownInv, Interrupt PROVE ShutdownInv'
  OBVIOUS
<1> USE DEF ShutdownInv, Interrupt, CacheFailed
<1> DEFINE r == [who |-> "SIGINT", code |-> Restart]
<1>1. /\ asked' \in Seq(Requests)
      /\ \A w : Who(w)' = Who(w) \cup (IF w = "SIGINT" THEN {Len(asked) + 1} ELSE {})
  <2>1. r \in Requests /\ r.who = "SIGINT" /\ r.code = Restart
    BY DEF Requests
  <2>2. asked \in Seq(Requests) /\ Ask(r.who, r.code)
    BY <2>1 DEF ShutdownTypeOK
  <2> HIDE DEF ShutdownInv, Interrupt, CacheFailed, r
  <2> QED BY <2>1, <2>2, AskAppends
<1>2. Len(asked) + 1 \in Who("SIGINT")'
  BY <1>1
<1>3. /\ UNCHANGED <<call_outs, shutting_down, cache, cache_guard, status>>
      /\ status = "alive" /\ backend # "starting"
      /\ _recurse' = _recurse + 1
      /\ \/ /\ backend' = "telling" /\ leaving' = "directly"
            /\ modules' = "stopped" /\ exit_code' = Restart
            /\ UNCHANGED <<ports, closing>>
         \/ /\ UNCHANGED <<backend, modules, leaving, exit_code>>
            /\ ports' = "closed" /\ closing' = TRUE
  BY DEF TakesSignals, Live, StopThreads, vars
<1> HIDE DEF Interrupt
<1>4. ShutdownTypeOK'
  <2>1. _recurse' \in Nat
    <3>1. _recurse \in Nat
      BY DEF ShutdownTypeOK
    <3> HIDE DEF ShutdownInv
    <3> QED BY <1>3, <3>1
  <2>2. exit_code' \in {Quit, Restart, Unclean}
    BY <1>3 DEF ShutdownTypeOK
  <2>3. /\ ports' \in {"open", "closed"} /\ modules' \in {"running", "stopped"}
        /\ leaving' \in {"no", "through cache", "directly"} /\ closing' \in BOOLEAN
    BY <1>3 DEF ShutdownTypeOK
  <2> QED BY <1>1, <1>3, <2>1, <2>2, <2>3 DEF ShutdownTypeOK
<1>7. Ways'
  <2>1. leaving' = "no" <=> backend' \in {"starting", "up"}
    BY <1>3 DEF Ways
  <2>2. call_outs' # <<>> \/ leaving' # "no" => modules' = "stopped"
    BY <1>3 DEF Ways
  <2>3. cache_guard' => CacheFailed' \/ leaving' # "no"
    BY <1>3 DEF Ways
  <2> QED BY <1>2, <1>3, <2>1, <2>2, <2>3 DEF Ways
<1>5. Sockets'
  <2>1. Who("EMFILE")' = Who("EMFILE")
    BY <1>1
  <2> QED BY <1>3, <2>1 DEF Sockets
<1>6. Promise'
  BY <1>2 DEF Promise
<1> QED BY <1>4, <1>5, <1>6, <1>7

\* Who asked depends on nothing but asked.
LEMMA WhoUnchanged == ASSUME UNCHANGED asked PROVE \A w : Who(w)' = Who(w)
BY DEF Who

\* The first call_out to fire carries the code of the first request.
LEMMA ReallyLowShutdownStep == ShutdownInv /\ ReallyLowShutdown => ShutdownInv'
<1> SUFFICES ASSUME ShutdownInv, ReallyLowShutdown PROVE ShutdownInv'
  OBVIOUS
<1> USE DEF ShutdownInv, ReallyLowShutdown, InEventLoop, StopThreads, CacheFailed
<1>1. /\ Head(call_outs) = call_outs[1] /\ call_outs[1] \in {Quit, Restart}
      /\ Tail(call_outs) \in Seq({Quit, Restart})
      /\ Len(call_outs) \in Nat \ {0}
  <2>1. call_outs \in Seq({Quit, Restart}) /\ call_outs # <<>>
    BY DEF ShutdownTypeOK
  <2> HIDE DEF ShutdownInv, ReallyLowShutdown, InEventLoop, StopThreads, CacheFailed
  <2> QED BY <2>1
<1>2. \A w : Who(w)' = Who(w)
  BY WhoUnchanged
<1>3. ShutdownTypeOK'
  BY <1>1 DEF ShutdownTypeOK
<1>4. Ways'
  BY <1>1, <1>2 DEF Ways, Live
<1>5. Sockets'
  BY <1>2 DEF Sockets
<1>6. Promise'
  <2>1. leaving = "no" /\ leaving' # "no"
    BY DEF Ways
  <2>2. ASSUME Len(call_outs) = Len(asked),
               \A i \in 1 .. Len(asked) : call_outs[i] = asked[i].code
        PROVE  asked # <<>> /\ call_outs[1] = asked[1].code
    <3> HIDE DEF ShutdownInv, ReallyLowShutdown
    <3>1. 1 \in 1 .. Len(asked) /\ Len(asked) # 0
      BY <1>1, <2>2
    <3>2. Len(<<>>) = 0
      OBVIOUS
    <3> QED BY <2>2, <3>1, <3>2
  <2> QED BY <1>1, <1>2, <2>1, <2>2 DEF Promise
<1> QED BY <1>3, <1>4, <1>5, <1>6

\* __close_connections: SIGINT has been there, so nothing is promised.
LEMMA CloseConnectionsStep == ShutdownInv /\ CloseConnections => ShutdownInv'
<1> SUFFICES ASSUME ShutdownInv, CloseConnections PROVE ShutdownInv'
  OBVIOUS
<1> USE DEF ShutdownInv, CloseConnections, InEventLoop, StopThreads, CacheFailed
<1>1. \A w : Who(w)' = Who(w)
  BY WhoUnchanged
<1>2. ShutdownTypeOK'
  BY DEF ShutdownTypeOK
<1>3. Ways'
  BY <1>1 DEF Ways, Live
<1>4. Sockets'
  BY <1>1 DEF Sockets
<1>5. Promise'
  BY <1>1 DEF Promise, Ways
<1> QED BY <1>2, <1>3, <1>4, <1>5

\* Stopping the cache: the exit code stays settled until the cache fails.
LEMMA CacheStep ==
  ASSUME ShutdownInv,
         ShutDownCache \/ CacheStopFails \/ CacheShutdownFailed \/ Exit
  PROVE  ShutdownInv'
<1> USE DEF ShutdownInv, CacheFailed, CacheStops, ThreadsGone
<1>1. CASE ShutDownCache
  <2> USE <1>1 DEF ShutDownCache, vars
  <2>1. \A w : Who(w)' = Who(w)
    BY WhoUnchanged
  <2>2. ShutdownTypeOK'
    BY DEF ShutdownTypeOK
  <2>3. Ways'
    BY <2>1 DEF Ways, Live
  <2>4. Sockets'
    BY <2>1 DEF Sockets
  <2>5. Promise'
    BY <2>1 DEF Promise, Ways
  <2> QED BY <2>2, <2>3, <2>4, <2>5
<1>2. CASE CacheStopFails
  <2> USE <1>2 DEF CacheStopFails
  <2>1. \A w : Who(w)' = Who(w)
    BY WhoUnchanged
  <2>2. ShutdownTypeOK'
    BY DEF ShutdownTypeOK
  <2>3. Ways'
    BY <2>1 DEF Ways, Live
  <2>4. Sockets'
    BY <2>1 DEF Sockets
  <2>5. Promise'
    BY <2>1 DEF Promise, Ways
  <2> QED BY <2>2, <2>3, <2>4, <2>5
<1>3. CASE CacheShutdownFailed
  <2> USE <1>3 DEF CacheShutdownFailed, vars, InEventLoop
  <2>1. \A w : Who(w)' = Who(w)
    BY WhoUnchanged
  <2>2. ShutdownTypeOK'
    BY DEF ShutdownTypeOK
  <2>3. Ways'
    BY <2>1 DEF Ways, Live
  <2>4. Sockets'
    BY <2>1 DEF Sockets
  <2>5. Promise'
    BY <2>1 DEF Promise, Ways
  <2> QED BY <2>2, <2>3, <2>4, <2>5
<1>4. CASE Exit
  <2> USE <1>4 DEF Exit, vars
  <2>1. \A w : Who(w)' = Who(w)
    BY WhoUnchanged
  <2>2. ShutdownTypeOK'
    BY DEF ShutdownTypeOK
  <2>3. Ways'
    BY <2>1 DEF Ways, Live
  <2>4. Sockets'
    BY <2>1 DEF Sockets
  <2>5. Promise'
    BY <2>1 DEF Promise, Ways
  <2> QED BY <2>2, <2>3, <2>4, <2>5
<1> QED BY <1>1, <1>2, <1>3, <1>4

\* What the pool does moves the backend thread only within stop_handler_threads()
\* or from its start to its event loop.
LEMMA PoolStepKeeps ==
  ASSUME ShutdownInv, UNCHANGED endVars,
         backend \in {"starting", "up"} <=> backend' \in {"starting", "up"}
  PROVE  ShutdownInv'
<1> USE DEF ShutdownInv, endVars, CacheFailed
<1>1. \A w : Who(w)' = Who(w)
  BY WhoUnchanged
<1>2. ShutdownTypeOK'
  BY ZenonT(40) DEF ShutdownTypeOK
<1>3. Ways'
  BY <1>1 DEF Ways
<1>4. Sockets' /\ Promise'
  BY <1>1 DEF Sockets, Promise
<1> QED BY <1>2, <1>3, <1>4

\* ShutdownInv is inductive: each way of being asked, each step on the way out
\* and each step of the pool keeps it.
THEOREM ShutdownStep == ShutdownInv /\ [ShutdownNext]_allVars => ShutdownInv'
<1> SUFFICES ASSUME ShutdownInv, [ShutdownNext]_allVars PROVE ShutdownInv'
  OBVIOUS
<1>1. ASSUME NEW code \in {Quit, Restart}, AdminAsks(code) PROVE ShutdownInv'
  <2>1. [who |-> "admin", code |-> code] \in Requests
    BY DEF Requests
  <2> QED BY <1>1, <2>1, LowAskStep DEF AdminAsks, vars
<1>2. CASE Terminate
  <2>1. [who |-> "SIGTERM", code |-> Quit] \in Requests
    BY DEF Requests
  <2> QED BY <1>2, <2>1, LowAskStep DEF Terminate, vars
<1>3. CASE OutOfSockets
  <2>1. CASE ~ shutting_down
    <3>1. [who |-> "EMFILE", code |-> Restart] \in Requests
      BY DEF Requests
    <3> QED BY <1>3, <2>1, <3>1, LowAskStep DEF OutOfSockets, vars
  <2>2. CASE shutting_down
    <3>1. UNCHANGED endVars
      BY <1>3, <2>2 DEF OutOfSockets, endVars, exitVars, ShutdownInv, ShutdownTypeOK
    <3> QED BY <1>3, <3>1, PoolStepKeeps DEF OutOfSockets, vars
  <2> QED BY <2>1, <2>2
<1>4. CASE Interrupt
  BY <1>4, InterruptStep
<1>5. CASE ReallyLowShutdown
  BY <1>5, ReallyLowShutdownStep
<1>6. CASE CloseConnections
  BY <1>6, CloseConnectionsStep
<1>7. CASE ShutDownCache \/ CacheStopFails \/ CacheShutdownFailed \/ Exit
  BY <1>7, CacheStep
<1>8. CASE PoolStarts
  BY <1>8, PoolStepKeeps DEF PoolStarts, Backs, StartThread, Started, backendVars
<1>9. CASE PoolStops
  BY <1>9, PoolStepKeeps DEF PoolStops, Backs, PoolStop, StopWrite, StopCount,
     StopWait, StopClean, StopTick
<1>10. CASE PoolTakes \/ PoolHands
  BY <1>10, PoolStepKeeps DEF PoolTakes, PoolHands, Backs, BackendHandle,
     HandlerHandle, backendVars
<1>11. ASSUME NEW t \in Threads, PoolRuns(t) \/ PoolHandles(t) PROVE ShutdownInv'
  BY <1>11, PoolStepKeeps DEF PoolRuns, PoolHandles, Backs, Loop, Handler, ReadJob,
     ReadPoison, Reap, JobDone, JobFails, FinishWith, backendVars
<1>12. CASE Exited \/ UNCHANGED allVars
  BY <1>12, PoolStepKeeps DEF Exited, allVars, vars
<1> QED BY <1>1, <1>2, <1>3, <1>4, <1>5, <1>6, <1>7, <1>8, <1>9, <1>10, <1>11, <1>12
     DEF ShutdownNext

\* ShutdownInv holds in every state on the way to exit().
THEOREM ShutdownInvariant == ShutdownSpec => []ShutdownInv
BY ShutdownInitInv, ShutdownStep, PTL DEF ShutdownSpec

\* Type correctness of every reachable state.
THEOREM ShutdownTypes == ShutdownSpec => []ShutdownTypeOK
<1>1. ShutdownInv => ShutdownTypeOK
  BY DEF ShutdownInv
<1> QED BY <1>1, ShutdownInvariant, PTL

\* Whichever request to end comes first decides the exit code that the start
\* script sees, in whatever order the others come, short of SIGINT and a cache
\* that fails.
THEOREM FirstDecides == ShutdownSpec => []FirstAskedDecides
<1>1. ShutdownInv => FirstAskedDecides
  BY DEF ShutdownInv, FirstAskedDecides, Ways, Promise
<1> QED BY <1>1, ShutdownInvariant, PTL

\* EMFILE asks for at most one restart, however often accept() fails.
THEOREM SocketsAskOnce == ShutdownSpec => []OneSocketRestart
<1>1. ShutdownInv => OneSocketRestart
  <2> SUFFICES ASSUME \A i, j \in Who("EMFILE") : i = j PROVE OneSocketRestart
    BY DEF ShutdownInv, Sockets
  <2>1. CASE Who("EMFILE") = {}
    BY <2>1, FS_EmptySet DEF OneSocketRestart
  <2>2. CASE Who("EMFILE") # {}
    <3>1. PICK i \in Who("EMFILE") : Who("EMFILE") = {i}
      BY <2>2
    <3>2. Cardinality({i}) = 1
      BY FS_Singleton
    <3>3. Cardinality(Who("EMFILE")) <= 1
      BY <3>1, <3>2
    <3> QED BY <3>3 DEF OneSocketRestart
  <2> QED BY <2>1, <2>2
<1> QED BY <1>1, ShutdownInvariant, PTL

\* No route to exit() tells the handler threads to stop before the modules
\* have been stopped.
THEOREM ModulesFirst == ShutdownSpec => []ModulesStopFirst
<1>1. ShutdownInv => ModulesStopFirst
  BY DEF ShutdownInv, ModulesStopFirst, Ways
<1> QED BY <1>1, ShutdownInvariant, PTL

-----------------------------------------------------------------------------
(* What the process leaves behind                                          *)

\* stop_handler_threads() may begin wherever the backend has started: from the
\* event loop it keeps what holds of the pool.
LEMMA StopAgain ==
  ASSUME PoolInv, backend = "up", StopThreads PROVE PoolInv'
<1>1. UNCHANGED <<queueVars, threadVars>> /\ StopBegin
  BY DEF StopThreads, StopBegin
<1> QED BY <1>1, BackendOnlyStep

\* The call_out is over after an error of the cache: the pool stays stopped.
LEMMA BackUp ==
  ASSUME PoolInv, backend \in {"stopped", "gaveup"}, backend' = "up",
         UNCHANGED <<queueVars, countVars, threadVars, timeout>>
  PROVE  PoolInv'
<1> USE DEF PoolInv, queueVars, countVars, threadVars
<1>1. /\ Alive' = Alive /\ Stopping' = Stopping /\ Pending' = Pending
      /\ Written' = Written
  BY DEF Alive, Stopping, Pending, Written, PoisonAt
<1>2. Held' /\ EachReadOnce'
  BY DEF Held, EachReadOnce, PoisonAt
<1>3. TypeOK' /\ Stages'
  BY <1>1 DEF TypeOK, Stages, PoisonAt
<1>4. Accounting'
  BY <1>1 DEF Accounting
<1> QED BY <1>2, <1>3, <1>4

\* The pool at rest.
LEMMA PoolRests == ASSUME PoolInv, UNCHANGED vars PROVE PoolInv'
BY PoolStep

\* What the pool does meanwhile is what it does alone.
LEMMA PoolMeanwhile ==
  ASSUME \/ PoolStarts \/ PoolStops \/ PoolTakes \/ PoolHands
         \/ \E t \in Threads : PoolRuns(t) \/ PoolHandles(t)
  PROVE  Next
BY DEF PoolStarts, PoolStops, PoolTakes, PoolHands, PoolRuns, PoolHandles, Backs,
       PoolStop, Loop, Handler, Next, Backend

\* Every step keeps the pool orderly while SIGINT is patient.
LEMMA OrderlyStep ==
  ASSUME ShutdownInv, Orderly, [ShutdownNext]_allVars PROVE Orderly'
<1> SUFFICES ASSUME _recurse' <= Patience PROVE PoolInv'
  BY DEF Orderly
<1>1. _recurse \in Nat /\ Patience \in Nat
  BY PatienceAssumption DEF ShutdownInv, ShutdownTypeOK
<1>2. _recurse' = _recurse \/ (_recurse' = _recurse + 1 /\ Interrupt)
  BY DEF ShutdownNext, AdminAsks, Terminate, OutOfSockets, Interrupt, ReallyLowShutdown,
     CloseConnections, ShutDownCache, CacheStopFails, Exit, CacheShutdownFailed,
     PoolStarts, PoolStops, PoolTakes, PoolHands, PoolRuns, PoolHandles, Backs, Exited,
     endVars, allVars
<1>3. PoolInv
  <2>1. _recurse <= Patience
    BY <1>1, <1>2
  <2> QED BY <2>1 DEF Orderly
<1>4. CASE \/ \E code \in {Quit, Restart} : AdminAsks(code)
           \/ Terminate \/ OutOfSockets \/ Exited \/ UNCHANGED allVars
           \/ ShutDownCache \/ Exit \/ CacheShutdownFailed
  BY <1>3, <1>4, PoolRests DEF AdminAsks, Terminate, OutOfSockets, Exited, allVars,
     ShutDownCache, Exit, CacheShutdownFailed
<1>5. CASE Interrupt
  <2>1. UNCHANGED vars
    BY <1>1, <1>5 DEF Interrupt
  <2> QED BY <1>3, <2>1, PoolRests
<1>6. CASE ReallyLowShutdown \/ CloseConnections
  BY <1>3, <1>6, StopAgain DEF ReallyLowShutdown, CloseConnections, InEventLoop
<1>7. CASE CacheStopFails
  BY <1>3, <1>7, BackUp DEF CacheStopFails, ThreadsGone
<1>8. CASE \/ PoolStarts \/ PoolStops \/ PoolTakes \/ PoolHands
           \/ \E t \in Threads : PoolRuns(t) \/ PoolHandles(t)
  <2>1. Next
    BY <1>8, PoolMeanwhile
  <2> QED BY <1>3, <2>1, PoolStep
<1> QED BY <1>4, <1>5, <1>6, <1>7, <1>8 DEF ShutdownNext

\* Every way to exit() waits for the threads, but for cache_shutdown_failed().
LEMMA WaitedStep ==
  ASSUME Waited, [ShutdownNext]_allVars PROVE Waited'
<1>1. CASE status = "exited"
  <2>1. UNCHANGED <<status, exit_code, backend>>
    BY <1>1 DEF ShutdownNext, AdminAsks, Terminate, OutOfSockets, Interrupt,
     ReallyLowShutdown,
     CloseConnections, ShutDownCache, CacheStopFails, Exit, CacheShutdownFailed,
     PoolStarts, PoolStops, PoolTakes, PoolHands, PoolRuns, PoolHandles, Backs, Exited,
     endVars, allVars, vars, Live, InEventLoop, TakesSignals, ThreadsGone
  <2> QED BY <2>1 DEF Waited
<1>2. CASE Exit
  BY <1>2 DEF Exit, ThreadsGone, Waited, vars
<1>3. CASE CacheShutdownFailed
  BY <1>3 DEF CacheShutdownFailed, Waited
<1>4. CASE status # "exited" /\ ~ Exit /\ ~ CacheShutdownFailed
  <2>1. status' = status
    BY <1>4 DEF ShutdownNext, AdminAsks, Terminate, OutOfSockets, Interrupt,
     ReallyLowShutdown, CloseConnections, ShutDownCache, CacheStopFails, exitVars,
     PoolStarts, PoolStops, PoolTakes, PoolHands, PoolRuns, PoolHandles, Backs, Exited,
     endVars, allVars
  <2> QED BY <1>4, <2>1 DEF Waited
<1> QED BY <1>1, <1>2, <1>3, <1>4

\* The pool is orderly and waited for on every way out.
THEOREM GracefulAlways == ShutdownSpec => []GracefulInv
<1>1. ShutdownInit => GracefulInv
  <2> SUFFICES ASSUME ShutdownInit PROVE GracefulInv
    OBVIOUS
  <2>1. ShutdownInv
    BY ShutdownInitInv
  <2>2. PoolInv
    BY PoolInit DEF ShutdownInit
  <2>3. Waited
    BY DEF ShutdownInit, Waited
  <2> QED BY <2>1, <2>2, <2>3 DEF GracefulInv, Orderly
<1>2. GracefulInv /\ [ShutdownNext]_allVars => GracefulInv'
  BY ShutdownStep, OrderlyStep, WaitedStep DEF GracefulInv
<1> QED BY <1>1, <1>2, PTL DEF ShutdownSpec

\* A process that exits without having given up on the threads or the cache has
\* handled all that was queued before the stop, and leaves no thread in a handler,
\* whichever requests to end met and however often the stop began anew.
THEOREM GracefulExitTheorem == ShutdownSpec => []GracefulExit
<1>1. GracefulInv => GracefulExit
  <2> SUFFICES ASSUME GracefulInv, status = "exited", exit_code # Unclean,
                      backend # "gaveup", _recurse <= Patience
               PROVE  /\ \A i \in Written : BeforeStop(i) => outcome[i] \in {"done", "failed"}
                      /\ Alive = {}
    BY DEF GracefulExit
  <2>1. PoolInv /\ backend = "stopped"
    BY DEF GracefulInv, Orderly, Waited
  <2>2. CleanStop
    BY <2>1, CleanStopFollows
  <2> QED BY <2>1, <2>2 DEF CleanStop
<1> QED BY <1>1, GracefulAlways, PTL
=============================================================================
