---------------------------- MODULE HandlerPool ----------------------------
(***************************************************************************)
(* The request-handler threads of base_server/caudium.pike: the queue that *)
(* caudium->handle() fills, the threads that drain it, and the protocol    *)
(* that stops them (one zero in the queue per thread, thread_reap_cnt to   *)
(* wait for them, thirty one-second ticks before giving up).               *)
(*                                                                         *)
(* Pike runs one thread at a time under the interpreter lock and switches  *)
(* at function calls and backward jumps, so number_of_threads-- and        *)
(* thread_reap_cnt++ are single steps, while queue->write() between them   *)
(* is a point where another thread may run.                                *)
(*                                                                         *)
(* Thread.Queue (part of Pike) is an array with a read index: `queued'     *)
(* holds every item ever written, the first r_ptr of which have been read. *)
(***************************************************************************)
EXTENDS Integers, Sequences, FiniteSets

CONSTANTS
  NumThreads,   \* QUERY(numthreads): handler threads to start
  StopTimeout,  \* the 30 of stop_handler_threads()
  Jobs,         \* what may be handed to handle(): one function and its arguments
  Poison        \* the zero that stop_handler_threads() writes

ASSUME NumThreadsAssumption == NumThreads \in Nat \ {0}
ASSUME StopTimeoutAssumption == StopTimeout \in Nat \ {0}
ASSUME PoisonAssumption == Poison \notin Jobs

Threads == 0 .. NumThreads - 1   \* the ids given to handler_thread()

VARIABLES
  queued, r_ptr,      \* handle_queue
  number_of_threads,  \* threads started and not yet told to stop
  thread_reap_cnt,    \* threads told to stop and not yet gone
  tpc,                \* where each handler thread is
  cur,                \* the position in `queued' of what each thread holds
  outcome,            \* what became of each position (history)
  backend,            \* where the backend thread is
  timeout             \* local of stop_handler_threads()

queueVars == <<queued, r_ptr>>
countVars == <<number_of_threads, thread_reap_cnt>>
threadVars == <<tpc, cur, outcome>>
backendVars == <<backend, timeout>>
vars == <<queued, r_ptr, number_of_threads, thread_reap_cnt,
          tpc, cur, outcome, backend, timeout>>

Written == 1 .. Len(queued)
PoisonAt(i) == queued[i] = Poison

\* Zeroes still in the queue.
Pending == {i \in Written : i > r_ptr /\ PoisonAt(i)}
\* Threads that have read a zero and have not yet counted themselves out.
Stopping == {t \in Threads : tpc[t] = "stopping"}
\* Threads in their loop, in handle_queue->read() or in a handler.
Alive == {t \in Threads : tpc[t] \in {"reading", "running"}}

Init ==
  /\ queued = <<>> /\ r_ptr = 0
  /\ number_of_threads = 0
  /\ thread_reap_cnt = 0
  /\ tpc = [t \in Threads |-> "none"]
  /\ cur = [t \in Threads |-> 0]
  /\ outcome = <<>>
  /\ backend = "starting"
  /\ timeout = StopTimeout

-----------------------------------------------------------------------------
(* start_handler_threads(), from main() before the backend takes events    *)

StartThread ==
  /\ backend = "starting"
  /\ number_of_threads < NumThreads
  /\ tpc' = [tpc EXCEPT ![number_of_threads] = "reading"]
  /\ number_of_threads' = number_of_threads + 1
  /\ UNCHANGED <<queueVars, thread_reap_cnt, cur, outcome, backendVars>>

\* handle = threaded_handle, and main() returns to the backend.
Started ==
  /\ backend = "starting"
  /\ number_of_threads = NumThreads
  /\ backend' = "up"
  /\ UNCHANGED <<queueVars, countVars, threadVars, timeout>>

-----------------------------------------------------------------------------
(* threaded_handle(): any thread that owns a request                       *)

Enqueue(item) ==
  /\ queued' = Append(queued, item)
  /\ outcome' = Append(outcome, "waiting")

\* Bound of the model: a job is handed over at most once.
Fresh(job) == \A i \in Written : queued[i] # job

\* From the backend: a connection has a complete request.
BackendHandle(job) ==
  /\ backend = "up" /\ Fresh(job)
  /\ Enqueue(job)
  /\ UNCHANGED <<r_ptr, countVars, tpc, cur, backendVars>>

\* From a handler: a pipelined request left over by the one being answered.
HandlerHandle(t, job) ==
  /\ tpc[t] = "running" /\ Fresh(job)
  /\ Enqueue(job)
  /\ UNCHANGED <<r_ptr, countVars, tpc, cur, backendVars>>

-----------------------------------------------------------------------------
(* handler_thread()                                                        *)

\* handle_queue->read() returns a function and its arguments.
ReadJob(t) ==
  /\ tpc[t] = "reading"
  /\ r_ptr < Len(queued) /\ ~ PoisonAt(r_ptr + 1)
  /\ r_ptr' = r_ptr + 1
  /\ tpc' = [tpc EXCEPT ![t] = "running"]
  /\ cur' = [cur EXCEPT ![t] = r_ptr + 1]
  /\ outcome' = [outcome EXCEPT ![r_ptr + 1] = "running"]
  /\ UNCHANGED <<queued, countVars, backendVars>>

\* It returns zero.
ReadPoison(t) ==
  /\ tpc[t] = "reading"
  /\ r_ptr < Len(queued) /\ PoisonAt(r_ptr + 1)
  /\ r_ptr' = r_ptr + 1
  /\ tpc' = [tpc EXCEPT ![t] = "stopping"]
  /\ UNCHANGED <<queued, countVars, cur, outcome, backendVars>>

\* Mutant of FinishWith: h is not reset.
FinishWithHeld(t, result) ==
  /\ tpc[t] = "running"
  /\ tpc' = [tpc EXCEPT ![t] = "reading"]
  /\ outcome' = [outcome EXCEPT ![cur[t]] = result]
  /\ UNCHANGED <<queueVars, countVars, cur, backendVars>>

FinishWith(t, result) ==
  /\ tpc[t] = "running"
  /\ tpc' = [tpc EXCEPT ![t] = "reading"]
  /\ cur' = [cur EXCEPT ![t] = 0]
  /\ outcome' = [outcome EXCEPT ![cur[t]] = result]
  /\ UNCHANGED <<queueVars, countVars, backendVars>>

\* Mutant of JobFails: the catch is outside the loop, the thread is lost.
JobFailsFatally(t) ==
  /\ tpc[t] = "running"
  /\ tpc' = [tpc EXCEPT ![t] = "gone"]
  /\ cur' = [cur EXCEPT ![t] = 0]
  /\ outcome' = [outcome EXCEPT ![cur[t]] = "failed"]
  /\ UNCHANGED <<queueVars, countVars, backendVars>>

\* h[0](@h[1]) returns, or throws and the loop around catch goes on.
JobDone(t) == FinishWith(t, "done")
JobFails(t) == FinishWith(t, "failed")

\* Mutant of Reap: the thread goes without counting itself out.
ReapUncounted(t) ==
  /\ tpc[t] = "stopping"
  /\ tpc' = [tpc EXCEPT ![t] = "gone"]
  /\ UNCHANGED <<queueVars, countVars, cur, outcome, backendVars>>

\* thread_reap_cnt--; return
Reap(t) ==
  /\ tpc[t] = "stopping"
  /\ thread_reap_cnt' = thread_reap_cnt - 1
  /\ tpc' = [tpc EXCEPT ![t] = "gone"]
  /\ UNCHANGED <<queueVars, number_of_threads, cur, outcome, backendVars>>

-----------------------------------------------------------------------------
(* stop_handler_threads(), which only the backend thread calls             *)

StopBegin ==
  /\ backend = "up"
  /\ backend' = "telling"
  /\ timeout' = StopTimeout
  /\ UNCHANGED <<queueVars, countVars, threadVars>>

\* number_of_threads--; handle_queue->write(0)
StopWrite ==
  /\ backend = "telling" /\ number_of_threads > 0
  /\ number_of_threads' = number_of_threads - 1
  /\ Enqueue(Poison)
  /\ backend' = "counting"
  /\ UNCHANGED <<r_ptr, thread_reap_cnt, tpc, cur, timeout>>

StopCount ==
  /\ backend = "counting"
  /\ thread_reap_cnt' = thread_reap_cnt + 1
  /\ backend' = "telling"
  /\ UNCHANGED <<queueVars, number_of_threads, threadVars, timeout>>

StopWait ==
  /\ backend = "telling" /\ number_of_threads <= 0
  /\ backend' = "waiting"
  /\ UNCHANGED <<queueVars, countVars, threadVars, timeout>>

\* Mutant of StopClean: waiting on number_of_threads instead.
StopCleanEarly ==
  /\ backend = "waiting" /\ number_of_threads = 0
  /\ backend' = "stopped"
  /\ UNCHANGED <<queueVars, countVars, threadVars, timeout>>

\* while (thread_reap_cnt) ...; the test fails.
StopClean ==
  /\ backend = "waiting" /\ thread_reap_cnt = 0
  /\ backend' = "stopped"
  /\ UNCHANGED <<queueVars, countVars, threadVars, timeout>>

\* Mutant of StopTick: the timeout is not counted down.
StopTickForever ==
  /\ backend = "waiting" /\ thread_reap_cnt # 0
  /\ UNCHANGED <<queueVars, countVars, threadVars, backendVars>>

\* if (--timeout<=0) give up; sleep(1)
StopTick ==
  /\ backend = "waiting" /\ thread_reap_cnt # 0
  /\ timeout' = timeout - 1
  /\ backend' = IF timeout - 1 <= 0 THEN "gaveup" ELSE "waiting"
  /\ UNCHANGED <<queueVars, countVars, threadVars>>

\* stop_handler_threads() has returned; its callers go on to exit().
Terminated ==
  /\ backend \in {"stopped", "gaveup"}
  /\ UNCHANGED vars

-----------------------------------------------------------------------------
Backend == StartThread \/ Started \/ StopBegin \/ StopWrite \/ StopCount
             \/ StopWait \/ StopClean \/ StopTick

\* What a handler thread does without being asked twice; a handler that
\* never returns is allowed.
Loop(t) == ReadJob(t) \/ ReadPoison(t) \/ Reap(t)
Handler(t) == JobDone(t) \/ JobFails(t)

Next ==
  \/ Backend
  \/ \E job \in Jobs : BackendHandle(job)
  \/ \E t \in Threads, job \in Jobs : HandlerHandle(t, job)
  \/ \E t \in Threads : ReadJob(t)
  \/ \E t \in Threads : ReadPoison(t)
  \/ \E t \in Threads : JobDone(t)
  \/ \E t \in Threads : JobFails(t)
  \/ \E t \in Threads : Reap(t)
  \/ Terminated

Spec == Init /\ [][Next]_vars

\* The backend runs, and so does every thread that is not inside a handler.
Fairness ==
  /\ WF_vars(StartThread \/ Started)
  /\ WF_vars(StopWrite \/ StopCount \/ StopWait \/ StopClean \/ StopTick)
  /\ \A t \in Threads : WF_vars(Loop(t))

FairSpec == Spec /\ Fairness

\* Every handler also returns or throws.
HandlersReturn == \A t \in Threads : WF_vars(Handler(t))

-----------------------------------------------------------------------------
(* Properties                                                              *)

\* Every variable has the type the code gives it; an item has one outcome
\* slot and the read index never passes the write index of handle_queue.
TypeOK ==
  /\ queued \in Seq(Jobs \cup {Poison})
  /\ r_ptr \in 0 .. Len(queued)
  /\ number_of_threads \in 0 .. NumThreads
  /\ thread_reap_cnt \in Int
  /\ tpc \in [Threads -> {"none", "reading", "running", "stopping", "gone"}]
  /\ cur \in [Threads -> Nat]
  /\ outcome \in Seq({"waiting", "running", "done", "failed"})
  /\ Len(outcome) = Len(queued)
  /\ backend \in {"starting", "up", "telling", "counting", "waiting",
                  "stopped", "gaveup"}
  /\ timeout \in 0 .. StopTimeout

\* What a clean return of stop_handler_threads() means to its callers, which
\* exit() next: every job that was in the queue before the first zero has
\* been handled, and no handler thread is left in its loop or in a handler.
BeforeStop(i) == i \in Written /\ \A k \in 1 .. i : ~ PoisonAt(k)
CleanStop ==
  backend = "stopped" =>
    /\ \A i \in Written : BeforeStop(i) => outcome[i] \in {"done", "failed"}
    /\ Alive = {}

\* No item is lost between the queue and a thread or held by two threads: a
\* position that has been read and is not a zero is finished, or held by
\* exactly one thread that is running it.
EachReadOnce ==
  \A i \in 1 .. r_ptr :
    ~ PoisonAt(i) =>
      \/ /\ outcome[i] \in {"done", "failed"}
         /\ \A t \in Threads : cur[t] # i
      \/ /\ outcome[i] = "running"
         /\ \E t \in Threads :
              /\ tpc[t] = "running" /\ cur[t] = i
              /\ \A u \in Threads \ {t} : cur[u] # i

\* The counters of the stop protocol agree with the queue and the threads:
\* a thread in its loop is one not yet told to stop or one whose zero is
\* still queued, and thread_reap_cnt is what is left to wait for (it lags
\* by one while the backend is between write(0) and ++).
Accounting ==
  /\ Cardinality(Alive) = number_of_threads + Cardinality(Pending)
  /\ thread_reap_cnt = Cardinality(Pending) + Cardinality(Stopping)
                         - (IF backend = "counting" THEN 1 ELSE 0)

\* A thread holds a position of the queue exactly while it runs its handler.
Held ==
  \A t \in Threads :
    /\ tpc[t] = "running" =>
         /\ cur[t] \in 1 .. r_ptr
         /\ ~ PoisonAt(cur[t])
         /\ outcome[cur[t]] = "running"
    /\ tpc[t] # "running" => cur[t] = 0

\* Which threads exist, and whether a zero does, at each stage of the backend.
Stages ==
  /\ backend = "starting" =>
       \A t \in Threads : t >= number_of_threads => tpc[t] = "none"
  /\ backend # "starting" =>
       number_of_threads = NumThreads \/ \E i \in Written : PoisonAt(i)
  /\ backend \in {"waiting", "stopped", "gaveup"} => number_of_threads = 0
  /\ backend = "stopped" => thread_reap_cnt = 0
  /\ backend \in {"telling", "counting", "waiting"} => timeout > 0

\* The inductive invariant: CleanStop follows from it.
PoolInv == TypeOK /\ Held /\ Stages /\ EachReadOnce /\ Accounting

\* If every handler returns or throws, a job that the queue accepted before
\* the stop began is handled, unless the thirty ticks run out first.
AcceptedIsHandled ==
  HandlersReturn =>
    \A job \in Jobs :
      (\E i \in Written : BeforeStop(i) /\ queued[i] = job)
        ~> \/ backend = "gaveup"
           \/ \E i \in Written :
                queued[i] = job /\ outcome[i] \in {"done", "failed"}

\* Stopping ends whatever the handlers do.
StopReturns == backend = "telling" ~> backend \in {"stopped", "gaveup"}

\* Nothing a handler does costs the pool a thread: only a zero takes a thread
\* out of its loop, so an error thrown by a handler leaves as many as before.
NoThreadLost ==
  [][\A t \in Alive : t \in Alive' \/ (t \in Stopping' /\ PoisonAt(r_ptr'))]_vars
=============================================================================
