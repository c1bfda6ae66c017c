------------------------------ MODULE Shutdown ------------------------------
(***************************************************************************)
(* How a Caudium process ends (base_server/caudium.pike): the ways it is   *)
(* asked to (the configuration interface, SIGTERM, SIGINT, running out of  *)
(* sockets), the call_outs these leave behind, and the exit that the       *)
(* backend thread runs once one of them fires, through the handler pool    *)
(* and the cache.                                                          *)
(*                                                                         *)
(* The threaded build is modelled: no fork(), and no _pipe_debug(), so     *)
(* __close_connections ends the process the first time it runs.  Signal    *)
(* handlers run in the backend thread between any two steps of it, also    *)
(* inside stop_handler_threads() and cache_manager->stop().                *)
(***************************************************************************)
EXTENDS HandlerPool

CONSTANTS
  MaxRequests,    \* bound: requests to end that are made
  Patience,       \* the 4 of exit_when_done()
  CacheMayHang    \* whether cache_manager->stop() may never return

ASSUME MaxRequestsAssumption == MaxRequests \in Nat
ASSUME PatienceAssumption == Patience \in Nat
ASSUME CacheAssumption == CacheMayHang \in BOOLEAN

VARIABLES
  ports,          \* the listening ports: "open" or "closed"
  modules,        \* "running", or "stopped" by stop_all_modules()
  call_outs,      \* really_low_shutdown call_outs: their exit codes, in order
  closing,        \* a __close_connections call_out is pending
  shutting_down,  \* the flag of accept_callback()
  _recurse,       \* the counter of exit_when_done()
  leaving,        \* what runs after stop_handler_threads() in the backend
  cache,          \* "running", in cache_manager->stop(), or out of it by an error
  cache_guard,    \* a cache_shutdown_failed call_out is pending
  status,         \* "alive" or "exited"
  exit_code,      \* what the start script sees
  asked           \* who asked for which exit code, in order (history)

\* Where the call_outs and the exit they lead to stand.
exitVars == <<leaving, cache, cache_guard, status, exit_code>>
endVars == <<ports, modules, call_outs, closing, shutting_down, _recurse,
             leaving, cache, cache_guard, status, exit_code, asked>>
allVars == <<vars, endVars>>

Quit == 0        \* start-caudium ends when it sees this exit code
Restart == -1    \* and starts the server again on any other,
Unclean == 1     \* such as that of cache_shutdown_failed()

ShutdownInit ==
  /\ Init
  /\ ports = "open" /\ modules = "running"
  /\ call_outs = <<>> /\ closing = FALSE
  /\ shutting_down = FALSE /\ _recurse = 0
  /\ leaving = "no" /\ cache = "running" /\ cache_guard = FALSE
  /\ status = "alive" /\ exit_code = Quit
  /\ asked = <<>>

Live == status = "alive"
InEventLoop == Live /\ backend = "up"
TakesSignals == Live /\ backend # "starting"

-----------------------------------------------------------------------------
(* Being asked                                                             *)

Ask(who, code) ==
  /\ Len(asked) < MaxRequests
  /\ asked' = Append(asked, [who |-> who, code |-> code])

\* Mutant of LowShutdown: the last request overtakes those pending.
LowShutdownFirst(code) ==
  /\ modules' = "stopped"
  /\ call_outs' = <<code>> \o call_outs

\* low_shutdown(): the modules are stopped now, the process in five seconds.
LowShutdown(code) ==
  /\ modules' = "stopped"
  /\ call_outs' = Append(call_outs, code)

\* restart() and shutdown() of the configuration interface, in a handler.
AdminAsks(code) ==
  /\ Live /\ \E t \in Threads : tpc[t] = "running"
  /\ Ask("admin", code) /\ LowShutdown(code)
  /\ UNCHANGED <<vars, ports, closing, shutting_down, _recurse, exitVars>>

\* SIGTERM runs shutdown().
Terminate ==
  /\ TakesSignals
  /\ Ask("SIGTERM", Quit) /\ LowShutdown(Quit)
  /\ UNCHANGED <<vars, ports, closing, shutting_down, _recurse, exitVars>>

\* Mutant of OutOfSockets: the flag is not raised.
OutOfSocketsAgain ==
  /\ InEventLoop /\ ports = "open"
  /\ shutting_down' = shutting_down
  /\ IF shutting_down
     THEN UNCHANGED <<asked, modules, call_outs>>
     ELSE Ask("EMFILE", Restart) /\ LowShutdown(Restart)
  /\ UNCHANGED <<vars, ports, closing, _recurse, exitVars>>

\* accept() fails with EMFILE: one restart, however often it fails.
OutOfSockets ==
  /\ InEventLoop /\ ports = "open"
  /\ shutting_down' = TRUE
  /\ IF shutting_down
     THEN UNCHANGED <<asked, modules, call_outs>>
     ELSE Ask("EMFILE", Restart) /\ LowShutdown(Restart)
  /\ UNCHANGED <<vars, ports, closing, _recurse, exitVars>>

\* stop_handler_threads() from the top, in whatever the backend was doing:
\* a signal handler that calls it never goes back to the call it interrupts.
StopThreads ==
  /\ backend' = "telling" /\ timeout' = StopTimeout
  /\ UNCHANGED <<queueVars, countVars, threadVars>>

\* SIGINT runs exit_when_done(): once out of patience it stops the threads on
\* the spot, until then it closes the ports and calls __close_connections out.
Interrupt ==
  /\ TakesSignals
  /\ Ask("SIGINT", Restart)
  /\ _recurse' = _recurse + 1
  /\ \/ /\ _recurse' > Patience
        /\ StopThreads
        /\ modules' = "stopped" /\ leaving' = "directly"
        /\ exit_code' = Restart
        /\ UNCHANGED <<ports, closing>>
     \/ /\ _recurse' <= Patience
        /\ ports' = "closed" /\ closing' = TRUE
        /\ UNCHANGED <<vars, modules, leaving, exit_code>>
  /\ UNCHANGED <<call_outs, shutting_down, cache, cache_guard, status>>

-----------------------------------------------------------------------------
(* Ending: call_outs, which the backend thread runs in its event loop      *)

\* really_low_shutdown(code) begins with stop_handler_threads().
ReallyLowShutdown ==
  /\ InEventLoop /\ call_outs # <<>>
  /\ StopThreads
  /\ leaving' = "through cache" /\ exit_code' = Head(call_outs)
  /\ call_outs' = Tail(call_outs)
  /\ UNCHANGED <<ports, modules, closing, shutting_down, _recurse, cache,
                 cache_guard, status, asked>>

\* Mutant of CloseConnections: the modules are left running.
CloseConnectionsOnly ==
  /\ InEventLoop /\ closing
  /\ StopThreads
  /\ leaving' = "directly" /\ exit_code' = Restart
  /\ UNCHANGED <<ports, modules, call_outs, closing, shutting_down, _recurse,
                 cache, cache_guard, status, asked>>

\* __close_connections calls itself out again, stops the modules and the
\* threads, and restarts.
CloseConnections ==
  /\ InEventLoop /\ closing
  /\ StopThreads
  /\ modules' = "stopped"
  /\ leaving' = "directly" /\ exit_code' = Restart
  /\ UNCHANGED <<ports, call_outs, closing, shutting_down, _recurse, cache,
                 cache_guard, status, asked>>

ThreadsGone == Live /\ backend \in {"stopped", "gaveup"}
CacheStops == cache \in {"stopping", "stopping again"}
CacheFailed == cache \in {"failed", "stopping again"}

\* shut_down_cache(): a guard is called out for thirty seconds from now, and
\* cache_manager->stop() runs in this same thread.
ShutDownCache ==
  /\ ThreadsGone /\ leaving = "through cache" /\ ~ CacheStops
  /\ cache' = IF CacheFailed THEN "stopping again" ELSE "stopping"
  /\ cache_guard' = TRUE
  /\ UNCHANGED <<vars, ports, modules, call_outs, closing, shutting_down,
                 _recurse, leaving, status, exit_code, asked>>

\* Mutant of CacheStopFails: the error is caught and forgotten, guard included.
CacheStopFailsQuietly ==
  /\ ThreadsGone /\ leaving = "through cache" /\ CacheStops
  /\ cache' = "failed" /\ leaving' = "no" /\ cache_guard' = FALSE
  /\ backend' = "up"
  /\ UNCHANGED <<queueVars, countVars, threadVars, timeout, ports, modules,
                 call_outs, closing, shutting_down, _recurse, status,
                 exit_code, asked>>

\* It throws (writing the RAM cache to disk or SQL): the call_out is over, and
\* the backend is back in its event loop, without threads.
CacheStopFails ==
  /\ ThreadsGone /\ leaving = "through cache" /\ CacheStops
  /\ cache' = "failed" /\ leaving' = "no"
  /\ backend' = "up"
  /\ UNCHANGED <<queueVars, countVars, threadVars, timeout, ports, modules,
                 call_outs, closing, shutting_down, _recurse, cache_guard,
                 status, exit_code, asked>>

\* Mutant of Exit: the threads are not waited for.
ExitHasty ==
  /\ Live
  /\ \/ leaving = "directly" /\ backend \in {"waiting", "stopped", "gaveup"}
     \/ ThreadsGone /\ leaving = "through cache" /\ CacheStops
  /\ status' = "exited"
  /\ UNCHANGED <<vars, ports, modules, call_outs, closing, shutting_down,
                 _recurse, leaving, cache, cache_guard, exit_code, asked>>

\* exit(): at once after __close_connections or the last SIGINT, else when
\* cache_manager->stop() has returned.
Exit ==
  /\ ThreadsGone
  /\ leaving = "through cache" => CacheStops
  /\ status' = "exited"
  /\ UNCHANGED <<vars, ports, modules, call_outs, closing, shutting_down,
                 _recurse, leaving, cache, cache_guard, exit_code, asked>>

\* cache_shutdown_failed(): exit(1), if the event loop gets to run it.
CacheShutdownFailed ==
  /\ InEventLoop /\ cache_guard
  /\ status' = "exited" /\ exit_code' = Unclean
  /\ UNCHANGED <<vars, ports, modules, call_outs, closing, shutting_down,
                 _recurse, leaving, cache, cache_guard, asked>>

-----------------------------------------------------------------------------
(* The handler pool goes on meanwhile                                      *)

Backs(A) == Live /\ A /\ UNCHANGED endVars

PoolStop == StopWrite \/ StopCount \/ StopWait \/ StopClean \/ StopTick

PoolStarts == Backs(StartThread \/ Started)
PoolStops == Backs(PoolStop)
PoolTakes == \E job \in Jobs : Backs(BackendHandle(job))
PoolHands == \E t \in Threads, job \in Jobs : Backs(HandlerHandle(t, job))
PoolRuns(t) == Backs(Loop(t))
PoolHandles(t) == Backs(Handler(t))

Exited == status = "exited" /\ UNCHANGED allVars

ShutdownNext ==
  \/ \E code \in {Quit, Restart} : AdminAsks(code)
  \/ Terminate \/ OutOfSockets \/ Interrupt
  \/ ReallyLowShutdown \/ CloseConnections
  \/ ShutDownCache \/ CacheStopFails \/ Exit \/ CacheShutdownFailed
  \/ PoolStarts \/ PoolStops \/ PoolTakes \/ PoolHands
  \/ \E t \in Threads : PoolRuns(t)
  \/ \E t \in Threads : PoolHandles(t)
  \/ Exited

ShutdownSpec == ShutdownInit /\ [][ShutdownNext]_allVars

\* The backend runs its call_outs, and the code it is in; handlers may hang,
\* and so may cache_manager->stop() if CacheMayHang.
ShutdownFairSpec ==
  /\ ShutdownSpec
  /\ WF_allVars(PoolStarts)
  /\ WF_allVars(PoolStops)
  /\ WF_allVars(ReallyLowShutdown)
  /\ WF_allVars(CloseConnections)
  /\ WF_allVars(CacheShutdownFailed)
  /\ WF_allVars(ShutDownCache)
  /\ WF_allVars((~ CacheMayHang \/ leaving = "directly")
                  /\ (Exit \/ CacheStopFails))
  /\ \A t \in Threads : WF_allVars(PoolRuns(t))

-----------------------------------------------------------------------------
(* Properties                                                              *)

Requests == [who : {"admin", "SIGTERM", "EMFILE", "SIGINT"}, code : {Quit, Restart}]

\* Every variable has the type the code gives it.
ShutdownTypeOK ==
  /\ ports \in {"open", "closed"} /\ modules \in {"running", "stopped"}
  /\ call_outs \in Seq({Quit, Restart})
  /\ closing \in BOOLEAN /\ shutting_down \in BOOLEAN
  /\ _recurse \in Nat
  /\ leaving \in {"no", "through cache", "directly"}
  /\ cache \in {"running", "stopping", "failed", "stopping again"}
  /\ cache_guard \in BOOLEAN
  /\ status \in {"alive", "exited"}
  /\ exit_code \in {Quit, Restart, Unclean}
  /\ asked \in Seq(Requests)

Who(who) == {i \in DOMAIN asked : asked[i].who = who}

\* Whatever restart or shutdown was asked first decides what the start script
\* sees, however many are pending, unless SIGINT came or the cache failed.
FirstAskedDecides ==
  (status = "exited" /\ Who("SIGINT") = {} /\ ~ CacheFailed)
    => exit_code = asked[1].code

\* Running out of sockets restarts the server once: each further EMFILE,
\* while the first restart is under way, asks for nothing.
OneSocketRestart == Cardinality(Who("EMFILE")) <= 1

\* No way out skips the modules' stop(): threads are told to stop only when
\* the modules have been, whichever call_out or signal leads there.
ModulesStopFirst == backend \notin {"starting", "up"} => modules = "stopped"

\* What the process leaves behind when it exits without having given up on
\* the threads or on the cache: everything queued before the stop has been
\* handled, and no thread is in a handler.  A stop that SIGINT interrupted
\* loses the ++ of a zero it had just written, and promises nothing.
GracefulExit ==
  (/\ status = "exited" /\ exit_code # Unclean
   /\ backend # "gaveup" /\ _recurse <= Patience) =>
    /\ \A i \in Written : BeforeStop(i) => outcome[i] \in {"done", "failed"}
    /\ Alive = {}

\* Once asked, the process ends: no combination of call_outs, signals, hung
\* handlers and a cache that fails to stop leaves it running for ever.
AskedEnds == asked # <<>> ~> status = "exited"

\* The comment where SIGTERM is set up: a shutdown, exit code 0 (even if it
\* is said only of a process that gets no SIGINT and whose cache stops).
TerminateQuits ==
  (/\ status = "exited" /\ Who("SIGTERM") # {}
   /\ Who("SIGINT") = {} /\ ~ CacheFailed) => exit_code = Quit

\* What shut_down_cache() sets a guard for: a cache that does not stop.
CacheGuardEnds == CacheStops ~> status = "exited"

\* Where the process is on its way out, and what must have happened before.
Ways ==
  /\ leaving = "no" <=> backend \in {"starting", "up"}
  /\ call_outs # <<>> \/ leaving # "no" => modules = "stopped"
  /\ closing \/ leaving = "directly" => Who("SIGINT") # {}
  /\ cache_guard => CacheFailed \/ leaving # "no"
  /\ status = "exited" => CacheFailed \/ leaving # "no"

\* EMFILE has asked once, or not at all and the flag is down.
Sockets ==
  /\ ~ shutting_down => Who("EMFILE") = {}
  /\ \A i, j \in Who("EMFILE") : i = j

\* Until one fires, the call_outs are those asked for, in order; from then on
\* the exit code is settled.
Promise ==
  Who("SIGINT") = {} /\ ~ CacheFailed =>
    \/ /\ leaving = "no" /\ Len(call_outs) = Len(asked)
       /\ \A i \in 1 .. Len(asked) : call_outs[i] = asked[i].code
    \/ /\ leaving # "no" /\ asked # <<>>
       /\ exit_code = asked[1].code

\* The inductive invariant of the proofs.
ShutdownInv == ShutdownTypeOK /\ Ways /\ Sockets /\ Promise

\* The pool keeps its own invariant, whichever call_out stops it and however
\* often, until the SIGINT that runs out of patience interrupts the stop.
Orderly == _recurse <= Patience => PoolInv

\* An exit is that of cache_shutdown_failed(), or the threads have been
\* waited for.
Waited == status = "exited" => exit_code = Unclean \/ backend \in {"stopped", "gaveup"}
GracefulInv == ShutdownInv /\ Orderly /\ Waited
=============================================================================
