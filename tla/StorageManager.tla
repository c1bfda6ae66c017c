--------------------------- MODULE StorageManager ---------------------------
(***************************************************************************)
(* Storage.Manager (etc/modules/Storage.pmod/Manager.pike) over the Disk   *)
(* method: a write-behind store.  store() puts a value in memory and calls *)
(* sync() out for five seconds later; memory is never emptied otherwise.   *)
(* Its clients are the caches, in handler threads and call_outs, while     *)
(* sync() runs in the backend thread: a write of sync() is three steps of  *)
(* Disk's store(), and clients go on between them.  One sync() or          *)
(* sync_all() is under way at a time.                                      *)
(***************************************************************************)
EXTENDS Disk

VARIABLES
  storage,     \* the values in memory, by entry
  call_outs,   \* how many sync() call_outs of each entry are pending
  job,         \* what sync() or sync_all() is doing
  up,          \* whether the process is
  crashes,     \* how often it died
  stored,      \* how many values have been stored
  latest,      \* the value last stored, Absent when unlinked (history); after
               \*   a crash, what the files hold
  gone,        \* entries unlinked by key when no write of them was under way,
               \*   and not stored since (history)
  flushed      \* entries that an unlink_regexp() matched, and not stored since
               \*   it began (history)

history == <<stored, latest, gone, flushed>>
memory == <<storage, call_outs>>
process == <<up, crashes>>
vars == <<diskVars, memory, job, process, history>>

\* A job: the entries left to sync, the one being written with its value, and
\* how far; what comes after, for which entries; `stored' when it began.
NoEntry == <<>>
NoJob == [step |-> "none", todo |-> {}, entry |-> NoEntry, value |-> Absent,
          then |-> "nothing", es |-> {}, since |-> 0]
Job(todo, then, es) ==
  [step |-> "next", todo |-> todo, entry |-> NoEntry, value |-> Absent,
   then |-> then, es |-> es, since |-> stored]
Captured(e) == job.entry = e

Held(es) == {e \in es : storage[e] # Absent}

Init ==
  /\ DiskInit
  /\ storage = [e \in Entries |-> Absent]
  /\ call_outs = [e \in Entries |-> 0]
  /\ job = NoJob
  /\ up = TRUE /\ crashes = 0
  /\ stored = 0
  /\ latest = [e \in Entries |-> Absent]
  /\ gone = {} /\ flushed = {}

-----------------------------------------------------------------------------
(* The clients: store, retrieve, list, unlink                              *)

\* Mutants of Store: only the first value of an entry calls sync() out; the
\* value in memory is kept.
StoreOnce(e) ==
  /\ up /\ stored < MaxStores
  /\ stored' = stored + 1
  /\ storage' = [storage EXCEPT ![e] = stored']
  /\ call_outs' = [call_outs EXCEPT ![e] = IF storage[e] = Absent THEN @ + 1 ELSE @]
  /\ latest' = [latest EXCEPT ![e] = stored']
  /\ gone' = gone \ {e} /\ flushed' = flushed \ {e}
  /\ UNCHANGED <<diskVars, job, process>>

StoreFirst(e) ==
  /\ up /\ stored < MaxStores
  /\ stored' = stored + 1
  /\ storage' = [storage EXCEPT ![e] = IF @ = Absent THEN stored' ELSE @]
  /\ call_outs' = [call_outs EXCEPT ![e] = @ + 1]
  /\ latest' = [latest EXCEPT ![e] = stored']
  /\ gone' = gone \ {e} /\ flushed' = flushed \ {e}
  /\ UNCHANGED <<diskVars, job, process>>

Store(e) ==
  /\ up /\ stored < MaxStores
  /\ stored' = stored + 1
  /\ storage' = [storage EXCEPT ![e] = stored']
  /\ call_outs' = [call_outs EXCEPT ![e] = @ + 1]
  /\ latest' = [latest EXCEPT ![e] = stored']
  /\ gone' = gone \ {e} /\ flushed' = flushed \ {e}
  /\ UNCHANGED <<diskVars, job, process>>

\* From memory without a trace, else from Disk.
Retrieve(e) ==
  /\ up /\ storage[e] = Absent
  /\ DiskRetrieve(e)
  /\ UNCHANGED <<memory, job, process, history>>

\* list(), and size(): the sync_all() before it is given no namespace, and
\* passes that on to sync(), which finds nothing in namespace 0.
List(ns) ==
  /\ up
  /\ DiskList(ns)
  /\ UNCHANGED <<memory, job, process, history>>

Forget(es) == storage' = [e \in Entries |-> IF e \in es THEN Absent ELSE storage[e]]

\* Mutant of Unlink: the value stays in memory.
UnlinkFile(e) ==
  /\ up
  /\ DiskUnlink(e)
  /\ latest' = [latest EXCEPT ![e] = Absent]
  /\ gone' = IF Captured(e) THEN gone ELSE gone \cup {e}
  /\ UNCHANGED <<memory, job, process, stored, flushed>>

Unlink(e) ==
  /\ up
  /\ Forget({e})
  /\ DiskUnlink(e)
  /\ latest' = [latest EXCEPT ![e] = Absent]
  /\ gone' = IF Captured(e) THEN gone ELSE gone \cup {e}
  /\ UNCHANGED <<call_outs, job, process, stored, flushed>>

UnlinkAll(ns) ==
  /\ up
  /\ Forget(In(ns))
  /\ DiskUnlinkAll(ns)
  /\ latest' = [e \in Entries |-> IF e \in In(ns) THEN Absent ELSE latest[e]]
  /\ UNCHANGED <<call_outs, job, process, stored, gone, flushed>>

-----------------------------------------------------------------------------
(* sync() and what begins with sync_all()                                  *)

Free == up /\ job = NoJob

SyncCallOut(e) ==
  /\ Free /\ call_outs[e] > 0
  /\ call_outs' = [call_outs EXCEPT ![e] = @ - 1]
  /\ job' = Job({e}, "nothing", {})
  /\ UNCHANGED <<diskVars, storage, process, history>>

UnlinkRegexp(ns, matching) ==
  /\ Free
  /\ job' = Job(Held(In(ns)), "unlink", matching)
  /\ UNCHANGED <<diskVars, memory, process, history>>

\* Mutant of Stop: sync_all() without the namespace.
StopUnsynced(ns) ==
  /\ Free
  /\ job' = Job({}, "stop", In(ns))
  /\ UNCHANGED <<diskVars, memory, process, history>>

Stop(ns) ==
  /\ Free
  /\ job' = Job(Held(In(ns)), "stop", In(ns))
  /\ UNCHANGED <<diskVars, memory, process, history>>

\* sync(e): nothing if the value is no longer there, else Disk's store().
SyncSkips(e) ==
  /\ job.step = "next" /\ e \in job.todo /\ storage[e] = Absent
  /\ job' = [job EXCEPT !.todo = @ \ {e}]
  /\ UNCHANGED <<diskVars, memory, process, history>>

SyncLooks(e) ==
  /\ job.step = "next" /\ e \in job.todo /\ storage[e] # Absent
  /\ DiskStoreIndexes(e)
  /\ job' = [job EXCEPT !.step = "open", !.todo = @ \ {e}, !.entry = e,
                        !.value = storage[e]]
  /\ UNCHANGED <<memory, process, history>>

SyncOpens ==
  /\ job.step = "open"
  /\ DiskStoreOpens(job.entry)
  /\ job' = [job EXCEPT !.step = "write"]
  /\ UNCHANGED <<memory, process, history>>

SyncWrites ==
  /\ job.step = "write"
  /\ DiskStoreWrites(job.entry, job.value)
  /\ job' = [job EXCEPT !.step = "next", !.entry = NoEntry, !.value = Absent]
  /\ UNCHANGED <<memory, process, history>>

Synced(then) == job.step = "next" /\ job.todo = {} /\ job.then = then

JobEnds ==
  /\ Synced("nothing")
  /\ job' = NoJob
  /\ UNCHANGED <<diskVars, memory, process, history>>

\* Then unlink_regexp() removes what matches; the values in memory stay.
JobUnlinks ==
  /\ Synced("unlink")
  /\ \E ns \in Namespaces :
       /\ job.es \subseteq In(ns)
       /\ DiskUnlinkMatching(ns, job.es)
  /\ job' = NoJob
  /\ latest' = [e \in Entries |-> IF e \in job.es THEN Absent ELSE latest[e]]
  /\ flushed' = flushed \cup {e \in job.es : latest[e] <= job.since}
  /\ UNCHANGED <<memory, process, stored, gone>>

\* Then stop() writes the index, for the last time.
JobStops ==
  /\ Synced("stop")
  /\ DiskStop
  /\ job' = NoJob
  /\ UNCHANGED <<memory, process, history>>

-----------------------------------------------------------------------------
(* The index on disk, and the process                                      *)

IdxSyncCallOut == up /\ IdxSync /\ UNCHANGED <<memory, job, process, history>>
IdxSyncFinish == up /\ IdxSyncWrites /\ UNCHANGED <<memory, job, process, history>>

\* The process exits or is killed, between any two steps.
Crash ==
  /\ up /\ crashes < MaxCrashes
  /\ up' = FALSE /\ crashes' = crashes + 1
  /\ DiskCrash
  /\ Forget(Entries)
  /\ call_outs' = [e \in Entries |-> 0]
  /\ job' = NoJob
  /\ latest' = [e \in Entries |-> IF Readable(e) THEN files[e] ELSE Absent]
  /\ flushed' = {}
  /\ UNCHANGED <<stored, gone>>

Restart ==
  /\ ~ up
  /\ up' = TRUE
  /\ DiskCreate
  /\ UNCHANGED <<memory, job, crashes, history>>

-----------------------------------------------------------------------------
JobStep ==
  \/ \E e \in Entries : SyncSkips(e)
  \/ \E e \in Entries : SyncLooks(e)
  \/ SyncOpens \/ SyncWrites
  \/ JobEnds \/ JobUnlinks \/ JobStops

Next ==
  \/ \E e \in Entries : Store(e)
  \/ \E e \in Entries : Retrieve(e)
  \/ \E e \in Entries : Unlink(e)
  \/ \E e \in Entries : SyncCallOut(e)
  \/ \E ns \in Namespaces : List(ns)
  \/ \E ns \in Namespaces : UnlinkAll(ns)
  \/ \E ns \in Namespaces, m \in SUBSET Entries :
       m # {} /\ m \subseteq In(ns) /\ UnlinkRegexp(ns, m)
  \/ \E ns \in Namespaces : Stop(ns)
  \/ JobStep
  \/ IdxSyncCallOut \/ IdxSyncFinish
  \/ Crash \/ Restart

Spec == Init /\ [][Next]_vars

-----------------------------------------------------------------------------
(* Properties                                                              *)

Jobs ==
  [step : {"none", "next", "open", "write"},
   todo : SUBSET Entries, entry : Entries \cup {NoEntry},
   value : Values \cup {Absent},
   then : {"nothing", "unlink", "stop"}, es : SUBSET Entries,
   since : 0 .. stored]

\* Every variable has its type, and an index never names an object of a
\* namespace that it has no mapping for.
TypeOK ==
  /\ DiskTypeOK
  /\ storage \in [Entries -> Values \cup {Absent}]
  /\ call_outs \in [Entries -> 0 .. stored]
  /\ job \in Jobs
  /\ job.step \in {"open", "write"} <=> job.entry \in Entries
  /\ up \in BOOLEAN /\ crashes \in 0 .. MaxCrashes
  /\ stored \in 0 .. MaxStores
  /\ latest \in [Entries -> Values \cup {Absent}]
  /\ gone \subseteq Entries /\ flushed \subseteq Entries

\* What retrieve() would return.
Retrieved(e) ==
  IF storage[e] # Absent THEN storage[e]
  ELSE IF Readable(e) THEN files[e] ELSE Absent

\* A client reads what was stored last, in whatever state the write-behind
\* is; after a crash, what had reached the files.
FreshRead == up => \A e \in Entries : latest[e] # Absent => Retrieved(e) = latest[e]

\* No stored value is forgotten between memory and disk: it is in its file,
\* or a sync() of it is under way or still to come.
NothingForgotten ==
  up => \A e \in Entries : latest[e] # Absent =>
          \/ files[e] = latest[e]
          \/ call_outs[e] > 0
          \/ e \in job.todo
          \/ Captured(e) /\ job.value = latest[e]

\* What was unlinked by key stays away: neither the sync() call_outs still
\* pending, nor an index of before, nor a crash brings it back.
UnlinkedIsGone == up => \A e \in gone : Retrieved(e) = Absent

\* stop() returns when every value of the namespace that was stored before it
\* began is in its file.
StopSaves ==
  [][JobStops => \A e \in job.es :
       latest[e] \in 1 .. job.since => files'[e] = latest[e]]_vars

\* A value in memory is the last one stored; without one, the file holds
\* that, and nobody is writing to it.  A dead process has no memory.
MemoryIsLatest ==
  /\ \A e \in Entries : latest[e] # Absent =>
       \/ storage[e] = latest[e]
       \/ storage[e] = Absent /\ files[e] = latest[e] /\ ~ Captured(e)
  /\ ~ up => job = NoJob /\ \A e \in Entries : storage[e] = Absent

\* A write under way writes the last value, or its file will be synced again;
\* until it is done the file is torn, or unlinked.
WriteUnderWay ==
  \A e \in Entries : Captured(e) =>
    /\ latest[e] # Absent /\ job.value # latest[e] => call_outs[e] > 0
    /\ job.step = "write" =>
         \/ files[e] = Torn
         \/ files[e] = Absent /\ (latest[e] # Absent => call_outs[e] > 0)

\* An entry that was unlinked by key is nowhere.
GoneIsNowhere ==
  \A e \in gone : /\ storage[e] = Absent /\ files[e] = Absent
                  /\ latest[e] = Absent /\ ~ Captured(e)

\* The inductive invariant: FreshRead, NothingForgotten and UnlinkedIsGone
\* follow from it.
StorageInv ==
  /\ TypeOK /\ MemoryIsLatest /\ WriteUnderWay /\ GoneIsNowhere
  /\ NothingForgotten

\* A sync_all() has still to look at what was stored before it began, or is
\* writing it, or its file holds it.
SyncAllUnderWay ==
  \A e \in job.es : latest[e] \in 1 .. job.since =>
    \/ e \in job.todo
    \/ /\ Captured(e) /\ job.value = latest[e]
       /\ job.step = "write" => files[e] = Torn
    \/ files[e] = latest[e] /\ ~ Captured(e)

\* SlowStorage, flush(): "A regular expression used to selectively remove
\* matching objects."
FlushedIsGone == up => \A e \in flushed : Retrieved(e) = Absent
=============================================================================
