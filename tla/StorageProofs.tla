--------------------------- MODULE StorageProofs ---------------------------
(***************************************************************************)
(* What holds of StorageManager for any objects, any number of stores and  *)
(* any number of crashes.  StorageInv is inductive: each lemma takes it    *)
(* through one group of actions, part by part.                             *)
(***************************************************************************)
EXTENDS StorageManager, TLAPS

USE DEF Absent, Torn, Values, Captured

\* The empty tuple is no entry.
LEMMA NoEntryIsNone == NoEntry \notin Entries
BY EntriesAssumption DEF NoEntry

\* A job that begins writes nothing yet.
LEMMA JobBegins ==
  ASSUME TypeOK, NEW todo \in SUBSET Entries, NEW es \in SUBSET Entries,
         NEW then \in {"nothing", "unlink", "stop"}
  PROVE  LET j == Job(todo, then, es) IN
         j \in Jobs /\ j.step = "next" /\ j.entry = NoEntry /\ j.todo = todo
BY BoundsAssumption DEF TypeOK, Job, Jobs

\* store(): the value in memory is new, and a sync() of it is called out.
LEMMA StoreStep ==
  ASSUME StorageInv, NEW e0 \in Entries, Store(e0)
  PROVE  StorageInv'
<1> USE DEF StorageInv, Store, diskVars, process
<1>1. TypeOK'
  BY BoundsAssumption DEF TypeOK, DiskTypeOK, IndexOK, Jobs
<1>2. MemoryIsLatest'
  BY DEF MemoryIsLatest, TypeOK
<1>3. WriteUnderWay'
  BY DEF WriteUnderWay, TypeOK, DiskTypeOK
<1>4. GoneIsNowhere'
  BY DEF GoneIsNowhere, TypeOK
<1>5. NothingForgotten'
  BY DEF NothingForgotten, TypeOK
<1> QED BY <1>1, <1>2, <1>3, <1>4, <1>5

\* retrieve() from Disk: a file that cannot be read holds no latest value.
LEMMA RetrieveStep ==
  ASSUME StorageInv, NEW e0 \in Entries, Retrieve(e0)
  PROVE  StorageInv'
<1> USE DEF StorageInv, Retrieve, DiskRetrieve, Readable, memory, process, history
<1>1. TypeOK'
  BY DEF TypeOK, DiskTypeOK, IndexOK, Jobs, Namespaces
<1>2. MemoryIsLatest'
  BY DEF MemoryIsLatest, TypeOK, DiskTypeOK
<1>3. WriteUnderWay'
  BY DEF WriteUnderWay, MemoryIsLatest, TypeOK, DiskTypeOK
<1>4. GoneIsNowhere'
  BY DEF GoneIsNowhere, TypeOK, DiskTypeOK
<1>5. NothingForgotten'
  BY DEF NothingForgotten, MemoryIsLatest, TypeOK, DiskTypeOK
<1> QED BY <1>1, <1>2, <1>3, <1>4, <1>5

\* list(): only the index changes.
LEMMA ListStep ==
  ASSUME StorageInv, NEW ns \in Namespaces, List(ns)
  PROVE  StorageInv'
<1> USE DEF StorageInv, List, DiskList, memory, process, history
<1>1. TypeOK'
  BY DEF TypeOK, DiskTypeOK, IndexOK, Jobs, Namespaces, IdxAfterList, NssAfterList, Readable
<1>2. MemoryIsLatest'
  BY DEF MemoryIsLatest, TypeOK, DiskTypeOK
<1>3. WriteUnderWay'
  BY DEF WriteUnderWay, MemoryIsLatest, TypeOK, DiskTypeOK
<1>4. GoneIsNowhere'
  BY DEF GoneIsNowhere, TypeOK, DiskTypeOK
<1>5. NothingForgotten'
  BY DEF NothingForgotten, MemoryIsLatest, TypeOK, DiskTypeOK
<1> QED BY <1>1, <1>2, <1>3, <1>4, <1>5

\* unlink() by key: memory, file and index forget the entry together.
LEMMA UnlinkStep ==
  ASSUME StorageInv, NEW e0 \in Entries, Unlink(e0)
  PROVE  StorageInv'
<1> USE DEF StorageInv, Unlink, DiskUnlink, Removed, Forget, process
<1>1. TypeOK'
  BY DEF TypeOK, DiskTypeOK, IndexOK, Jobs, Namespaces
<1>2. MemoryIsLatest'
  BY DEF MemoryIsLatest, TypeOK, DiskTypeOK
<1>3. WriteUnderWay'
  BY DEF WriteUnderWay, MemoryIsLatest, TypeOK, DiskTypeOK
<1>4. GoneIsNowhere'
  BY DEF GoneIsNowhere, TypeOK, DiskTypeOK
<1>5. NothingForgotten'
  BY DEF NothingForgotten, MemoryIsLatest, TypeOK, DiskTypeOK
<1> QED BY <1>1, <1>2, <1>3, <1>4, <1>5

\* unlink() of a namespace: as many entries as the index names.
LEMMA UnlinkAllStep ==
  ASSUME StorageInv, NEW ns \in Namespaces, UnlinkAll(ns)
  PROVE  StorageInv'
<1> USE DEF StorageInv, UnlinkAll, DiskUnlinkAll, Removed, Forget, In, process
<1>1. TypeOK'
  BY DEF TypeOK, DiskTypeOK, IndexOK, Jobs, Namespaces, IdxAfterList, NssAfterList, Readable
<1>2. MemoryIsLatest'
  BY DEF MemoryIsLatest, TypeOK, DiskTypeOK, ListOf
<1>3. WriteUnderWay'
  BY DEF WriteUnderWay, MemoryIsLatest, TypeOK, DiskTypeOK, ListOf
<1>4. GoneIsNowhere'
  BY DEF GoneIsNowhere, TypeOK, DiskTypeOK, ListOf
<1>5. NothingForgotten'
  BY DEF NothingForgotten, MemoryIsLatest, TypeOK, DiskTypeOK, ListOf
<1> QED BY <1>1, <1>2, <1>3, <1>4, <1>5

\* A job that begins touches neither memory nor files; of the sync()s called
\* out, the one that it takes is in its hands.
LEMMA BeginStep ==
  ASSUME StorageInv, up, job.entry = NoEntry, job.todo = {},
         job' \in Jobs', job'.step = "next", job'.entry = NoEntry,
         UNCHANGED <<files, idx, idx_ns, idx_file, idx_writing, idx_sync_stop,
                     storage, up, crashes, stored, latest, gone, flushed>>,
         call_outs' \in [Entries -> 0 .. stored],
         \A e \in Entries : call_outs[e] > 0 => call_outs'[e] > 0 \/ e \in job'.todo
  PROVE  StorageInv'
<1> USE NoEntryIsNone DEF StorageInv
<1>1. TypeOK'
  BY DEF TypeOK, DiskTypeOK, IndexOK
<1>2. MemoryIsLatest'
  BY DEF MemoryIsLatest
<1>3. WriteUnderWay'
  BY DEF WriteUnderWay
<1>4. GoneIsNowhere'
  <2>1. gone \subseteq Entries
    BY DEF TypeOK
  <2> QED BY <2>1 DEF GoneIsNowhere
<1>5. NothingForgotten'
  BY DEF NothingForgotten
<1> QED BY <1>1, <1>2, <1>3, <1>4, <1>5

\* A sync() that was called out becomes the job.
LEMMA SyncCallOutStep ==
  ASSUME StorageInv, NEW e0 \in Entries, SyncCallOut(e0)
  PROVE  StorageInv'
<1>1. LET j == Job({e0}, "nothing", {}) IN
      j \in Jobs /\ j.step = "next" /\ j.entry = NoEntry /\ j.todo = {e0}
  <2>1. {e0} \in SUBSET Entries /\ {} \in SUBSET Entries /\ TypeOK
    BY DEF StorageInv
  <2> QED BY <2>1, JobBegins
<1>2. Jobs' = Jobs
  BY DEF SyncCallOut, Jobs, history
<1>3. call_outs' \in [Entries -> 0 .. stored]
  <2>1. call_outs \in [Entries -> 0 .. stored] /\ stored \in Nat
    BY BoundsAssumption DEF StorageInv, TypeOK
  <2> QED BY <2>1 DEF SyncCallOut
<1>4. \A e \in Entries : call_outs[e] > 0 => call_outs'[e] > 0 \/ e = e0
  BY DEF SyncCallOut, StorageInv, TypeOK
<1> QED BY <1>1, <1>2, <1>3, <1>4, BeginStep
    DEF SyncCallOut, Free, NoJob, diskVars, process, history

\* unlink_regexp() begins with a sync_all() of its namespace.
LEMMA UnlinkRegexpStep ==
  ASSUME StorageInv, NEW ns \in Namespaces, NEW m \in SUBSET Entries, UnlinkRegexp(ns, m)
  PROVE  StorageInv'
<1>1. LET j == Job(Held(In(ns)), "unlink", m) IN
      j \in Jobs /\ j.step = "next" /\ j.entry = NoEntry
  <2>1. Held(In(ns)) \in SUBSET Entries /\ TypeOK
    BY DEF StorageInv, Held, In
  <2> QED BY <2>1, JobBegins
<1>2. Jobs' = Jobs
  BY DEF UnlinkRegexp, Jobs, history
<1>3. call_outs' \in [Entries -> 0 .. stored] /\ call_outs' = call_outs
  BY DEF UnlinkRegexp, StorageInv, TypeOK, memory
<1> QED BY <1>1, <1>2, <1>3, BeginStep
    DEF UnlinkRegexp, Free, NoJob, diskVars, memory, process, history

\* stop() begins with a sync_all() of its namespace.
LEMMA StopStep ==
  ASSUME StorageInv, NEW ns \in Namespaces, Stop(ns)
  PROVE  StorageInv'
<1>1. LET j == Job(Held(In(ns)), "stop", In(ns)) IN
      j \in Jobs /\ j.step = "next" /\ j.entry = NoEntry
  <2>1. /\ Held(In(ns)) \in SUBSET Entries /\ In(ns) \in SUBSET Entries
        /\ TypeOK
    BY DEF StorageInv, Held, In
  <2> QED BY <2>1, JobBegins
<1>2. Jobs' = Jobs
  BY DEF Stop, Jobs, history
<1>3. call_outs' \in [Entries -> 0 .. stored] /\ call_outs' = call_outs
  BY DEF Stop, StorageInv, TypeOK, memory
<1> QED BY <1>1, <1>2, <1>3, BeginStep
    DEF Stop, Free, NoJob, diskVars, memory, process, history

\* Nothing in memory: there is nothing to write.
LEMMA SyncSkipsStep ==
  ASSUME StorageInv, NEW e0 \in Entries, SyncSkips(e0)
  PROVE  StorageInv'
<1> USE DEF StorageInv, SyncSkips, diskVars, memory, process, history
<1>0. /\ job' \in Jobs' /\ job'.step = job.step /\ job'.todo = job.todo \ {e0}
      /\ job'.entry = job.entry /\ job'.value = job.value /\ up
  <2>1. up
    BY DEF MemoryIsLatest, NoJob
  <2> QED BY <2>1 DEF TypeOK, DiskTypeOK, Jobs
<1>1. TypeOK'
  BY <1>0, NoEntryIsNone DEF TypeOK, DiskTypeOK, IndexOK
<1>2. MemoryIsLatest'
  BY <1>0, NoEntryIsNone DEF MemoryIsLatest, TypeOK, DiskTypeOK
<1>3. WriteUnderWay'
  BY <1>0, NoEntryIsNone DEF WriteUnderWay, MemoryIsLatest, TypeOK, DiskTypeOK
<1>4. GoneIsNowhere'
  BY <1>0, NoEntryIsNone DEF GoneIsNowhere, TypeOK, DiskTypeOK
<1>5. NothingForgotten'
  BY <1>0, NoEntryIsNone DEF NothingForgotten, WriteUnderWay, MemoryIsLatest, TypeOK, DiskTypeOK
<1> QED BY <1>1, <1>2, <1>3, <1>4, <1>5

\* The value to write is the one in memory, and so the latest.
LEMMA SyncLooksStep ==
  ASSUME StorageInv, NEW e0 \in Entries, SyncLooks(e0)
  PROVE  StorageInv'
<1> USE DEF StorageInv, SyncLooks, DiskStoreIndexes, IdxPath, memory, process, history
<1>0. /\ job' \in Jobs' /\ job'.step = "open" /\ job'.todo = job.todo \ {e0}
      /\ job'.entry = e0 /\ job'.value = storage[e0] /\ up
  <2>1. up
    BY DEF MemoryIsLatest, NoJob
  <2> QED BY <2>1 DEF TypeOK, DiskTypeOK, Jobs
<1>1. TypeOK'
  BY <1>0, NoEntryIsNone DEF TypeOK, DiskTypeOK, IndexOK, Namespaces
<1>2. MemoryIsLatest'
  BY <1>0, NoEntryIsNone DEF MemoryIsLatest, TypeOK, DiskTypeOK
<1>3. WriteUnderWay'
  BY <1>0, NoEntryIsNone DEF WriteUnderWay, MemoryIsLatest, TypeOK, DiskTypeOK
<1>4. GoneIsNowhere'
  BY <1>0, NoEntryIsNone DEF GoneIsNowhere, TypeOK, DiskTypeOK
<1>5. NothingForgotten'
  BY <1>0, NoEntryIsNone DEF NothingForgotten, WriteUnderWay, MemoryIsLatest, TypeOK, DiskTypeOK
<1> QED BY <1>1, <1>2, <1>3, <1>4, <1>5

\* The file is torn from here on, and a value is on its way to it.
LEMMA SyncOpensStep ==
  ASSUME StorageInv, SyncOpens
  PROVE  StorageInv'
<1> USE DEF StorageInv, SyncOpens, DiskStoreOpens, memory, process, history
<1>0. /\ job' \in Jobs' /\ job'.step = "write" /\ job'.todo = job.todo
      /\ job'.entry = job.entry /\ job'.value = job.value /\ up
  <2>1. up
    BY DEF MemoryIsLatest, NoJob
  <2> QED BY <2>1 DEF TypeOK, DiskTypeOK, Jobs
<1>1. TypeOK'
  BY <1>0, NoEntryIsNone DEF TypeOK, DiskTypeOK, IndexOK
<1>2. MemoryIsLatest'
  BY <1>0, NoEntryIsNone DEF MemoryIsLatest, TypeOK, DiskTypeOK
<1>3. WriteUnderWay'
  BY <1>0, NoEntryIsNone DEF WriteUnderWay, MemoryIsLatest, TypeOK, DiskTypeOK
<1>4. GoneIsNowhere'
  BY <1>0, NoEntryIsNone DEF GoneIsNowhere, TypeOK, DiskTypeOK
<1>5. NothingForgotten'
  BY <1>0, NoEntryIsNone DEF NothingForgotten, WriteUnderWay, MemoryIsLatest, TypeOK, DiskTypeOK
<1> QED BY <1>1, <1>2, <1>3, <1>4, <1>5

\* The value arrives, unless the entry was unlinked meanwhile.
LEMMA SyncWritesStep ==
  ASSUME StorageInv, SyncWrites
  PROVE  StorageInv'
<1> USE DEF StorageInv, SyncWrites, DiskStoreWrites, memory, process, history
<1>0. /\ job' \in Jobs' /\ job'.step = "next" /\ job'.todo = job.todo
      /\ job'.entry = NoEntry /\ job'.value = Absent /\ up
  <2>1. up
    BY DEF MemoryIsLatest, NoJob
  <2> QED BY <2>1 DEF TypeOK, DiskTypeOK, Jobs
<1>a. /\ job.entry \in Entries /\ job.value \in Values \cup {Absent}
      /\ files \in [Entries -> Values \cup {Absent, Torn}]
  BY DEF TypeOK, DiskTypeOK, Jobs
<1>b. files' \in [Entries -> Values \cup {Absent, Torn}]
  BY <1>a
<1>1. TypeOK'
  BY <1>0, <1>a, <1>b, NoEntryIsNone DEF TypeOK, DiskTypeOK, IndexOK
<1>2. MemoryIsLatest'
  BY <1>0, NoEntryIsNone DEF MemoryIsLatest, TypeOK, DiskTypeOK
<1>3. WriteUnderWay'
  BY <1>0, NoEntryIsNone DEF WriteUnderWay, MemoryIsLatest, TypeOK, DiskTypeOK
<1>4. GoneIsNowhere'
  BY <1>0, NoEntryIsNone DEF GoneIsNowhere, TypeOK, DiskTypeOK
<1>5. NothingForgotten'
  BY <1>0, NoEntryIsNone DEF NothingForgotten, WriteUnderWay, MemoryIsLatest, TypeOK, DiskTypeOK
<1> QED BY <1>1, <1>2, <1>3, <1>4, <1>5

\* A sync() that is over leaves nothing behind.
LEMMA JobEndsStep ==
  ASSUME StorageInv, JobEnds
  PROVE  StorageInv'
<1> USE DEF StorageInv, JobEnds, Synced, diskVars, memory, process, history
<1>0. /\ job' \in Jobs' /\ job'.step = "none" /\ job'.todo = {}
      /\ job'.entry = NoEntry /\ job.todo = {} /\ job.entry = NoEntry /\ up
  <2>1. job' \in Jobs' /\ job'.step = "none" /\ job'.todo = {} /\ job'.entry = NoEntry
    BY BoundsAssumption DEF NoJob, Jobs, TypeOK
  <2>2. up
    BY DEF MemoryIsLatest, NoJob
  <2> QED BY <2>1, <2>2 DEF TypeOK, Jobs
<1>1. TypeOK'
  BY <1>0, NoEntryIsNone DEF TypeOK, DiskTypeOK, IndexOK
<1>2. MemoryIsLatest'
  BY <1>0, NoEntryIsNone DEF MemoryIsLatest, TypeOK, DiskTypeOK
<1>3. WriteUnderWay'
  BY <1>0, NoEntryIsNone DEF WriteUnderWay, MemoryIsLatest, TypeOK, DiskTypeOK
<1>4. GoneIsNowhere'
  BY <1>0, NoEntryIsNone DEF GoneIsNowhere, TypeOK, DiskTypeOK
<1>5. NothingForgotten'
  BY <1>0, NoEntryIsNone DEF NothingForgotten, WriteUnderWay, MemoryIsLatest, TypeOK, DiskTypeOK
<1> QED BY <1>1, <1>2, <1>3, <1>4, <1>5

\* After the sync_all(), unlink_regexp() removes files and leaves memory.
LEMMA JobUnlinksStep ==
  ASSUME StorageInv, JobUnlinks
  PROVE  StorageInv'
<1> USE DEF StorageInv, JobUnlinks, Synced, memory, process
<1>p. PICK ns \in Namespaces : job.es \subseteq In(ns) /\ DiskUnlinkMatching(ns, job.es)
  OBVIOUS
<1> USE <1>p DEF DiskUnlinkMatching, Removed
<1>0. /\ job' \in Jobs' /\ job'.step = "none" /\ job'.todo = {}
      /\ job'.entry = NoEntry /\ job.todo = {} /\ job.entry = NoEntry /\ up
  <2>1. job' \in Jobs' /\ job'.step = "none" /\ job'.todo = {} /\ job'.entry = NoEntry
    BY BoundsAssumption DEF NoJob, Jobs, TypeOK
  <2>2. up
    BY DEF MemoryIsLatest, NoJob
  <2> QED BY <2>1, <2>2 DEF TypeOK, Jobs
<1>1. TypeOK'
  BY <1>0, NoEntryIsNone DEF TypeOK, DiskTypeOK, IndexOK, IdxAfterList, NssAfterList, ListOf, Readable, In, Namespaces, Jobs
<1>2. MemoryIsLatest'
  BY <1>0, NoEntryIsNone DEF MemoryIsLatest, TypeOK, DiskTypeOK, ListOf, Readable, In, IndexOK
<1>3. WriteUnderWay'
  BY <1>0, NoEntryIsNone DEF WriteUnderWay, MemoryIsLatest, TypeOK, DiskTypeOK
<1>4. GoneIsNowhere'
  BY <1>0, NoEntryIsNone DEF GoneIsNowhere, TypeOK, DiskTypeOK, ListOf
<1>5. NothingForgotten'
  BY <1>0, NoEntryIsNone DEF NothingForgotten, WriteUnderWay, MemoryIsLatest, TypeOK, DiskTypeOK, ListOf, Readable, In
<1> QED BY <1>1, <1>2, <1>3, <1>4, <1>5

\* After the sync_all(), stop() writes the index.
LEMMA JobStopsStep ==
  ASSUME StorageInv, JobStops
  PROVE  StorageInv'
<1> USE DEF StorageInv, JobStops, Synced, DiskStop, IdxSyncOpens, memory, process, history
<1>0. /\ job' \in Jobs' /\ job'.step = "none" /\ job'.todo = {}
      /\ job'.entry = NoEntry /\ job.todo = {} /\ job.entry = NoEntry /\ up
  <2>1. job' \in Jobs' /\ job'.step = "none" /\ job'.todo = {} /\ job'.entry = NoEntry
    BY BoundsAssumption DEF NoJob, Jobs, TypeOK
  <2>2. up
    BY DEF MemoryIsLatest, NoJob
  <2> QED BY <2>1, <2>2 DEF TypeOK, Jobs
<1>1. TypeOK'
  BY <1>0, NoEntryIsNone DEF TypeOK, DiskTypeOK, IndexOK, Index, NoIndex
<1>2. MemoryIsLatest'
  BY <1>0, NoEntryIsNone DEF MemoryIsLatest, TypeOK, DiskTypeOK
<1>3. WriteUnderWay'
  BY <1>0, NoEntryIsNone DEF WriteUnderWay, MemoryIsLatest, TypeOK, DiskTypeOK
<1>4. GoneIsNowhere'
  BY <1>0, NoEntryIsNone DEF GoneIsNowhere, TypeOK, DiskTypeOK
<1>5. NothingForgotten'
  BY <1>0, NoEntryIsNone DEF NothingForgotten, WriteUnderWay, MemoryIsLatest, TypeOK, DiskTypeOK
<1> QED BY <1>1, <1>2, <1>3, <1>4, <1>5

\* The index file is opened; files and memory stay.
LEMMA IdxSyncCallOutStep ==
  ASSUME StorageInv, IdxSyncCallOut
  PROVE  StorageInv'
<1> USE DEF StorageInv, IdxSyncCallOut, IdxSync, IdxSyncOpens, memory, process, history
<1>1. TypeOK'
  BY NoEntryIsNone DEF TypeOK, DiskTypeOK, IndexOK, Index, NoIndex, Jobs
<1>2. MemoryIsLatest'
  BY NoEntryIsNone DEF MemoryIsLatest, TypeOK, DiskTypeOK
<1>3. WriteUnderWay'
  BY NoEntryIsNone DEF WriteUnderWay, MemoryIsLatest, TypeOK, DiskTypeOK
<1>4. GoneIsNowhere'
  BY NoEntryIsNone DEF GoneIsNowhere, TypeOK, DiskTypeOK
<1>5. NothingForgotten'
  BY NoEntryIsNone DEF NothingForgotten, WriteUnderWay, MemoryIsLatest, TypeOK, DiskTypeOK
<1> QED BY <1>1, <1>2, <1>3, <1>4, <1>5

\* The index file is written; files and memory stay.
LEMMA IdxSyncFinishStep ==
  ASSUME StorageInv, IdxSyncFinish
  PROVE  StorageInv'
<1> USE DEF StorageInv, IdxSyncFinish, IdxSyncWrites, memory, process, history
<1>1. TypeOK'
  BY NoEntryIsNone DEF TypeOK, DiskTypeOK, IndexOK, Index, NoIndex, Jobs
<1>2. MemoryIsLatest'
  BY NoEntryIsNone DEF MemoryIsLatest, TypeOK, DiskTypeOK
<1>3. WriteUnderWay'
  BY NoEntryIsNone DEF WriteUnderWay, MemoryIsLatest, TypeOK, DiskTypeOK
<1>4. GoneIsNowhere'
  BY NoEntryIsNone DEF GoneIsNowhere, TypeOK, DiskTypeOK
<1>5. NothingForgotten'
  BY NoEntryIsNone DEF NothingForgotten, WriteUnderWay, MemoryIsLatest, TypeOK, DiskTypeOK
<1> QED BY <1>1, <1>2, <1>3, <1>4, <1>5

\* An empty index agrees with any files.
LEMMA IndexIsEmpty == IndexOK({}, {})
BY DEF IndexOK

\* So does a missing index file.
LEMMA NoIndexIsOK == NoIndex.state = "none" /\ IndexOK(NoIndex.entries, NoIndex.nss)
BY IndexIsEmpty DEF NoIndex

\* A crash leaves the files, and what is then the latest is what they hold.
LEMMA CrashStep ==
  ASSUME StorageInv, Crash
  PROVE  StorageInv'
<1> USE DEF StorageInv, Crash, DiskCrash, Forget, Readable
<1>0. job' \in Jobs' /\ job'.step = "none" /\ job'.todo = {} /\ job'.entry = NoEntry
  BY BoundsAssumption DEF NoJob, Jobs, TypeOK
<1>1. TypeOK'
  <2>1. DiskTypeOK'
    BY NoIndexIsOK, IndexIsEmpty DEF TypeOK, DiskTypeOK
  <2>2. /\ storage' \in [Entries -> Values \cup {Absent}]
        /\ latest' \in [Entries -> Values \cup {Absent}]
    OBVIOUS
  <2>3. stored' \in 0 .. MaxStores /\ call_outs' \in [Entries -> 0 .. stored']
    BY BoundsAssumption DEF TypeOK
  <2>4. crashes' \in 0 .. MaxCrashes
    BY BoundsAssumption DEF TypeOK
  <2> QED BY <1>0, <2>1, <2>2, <2>3, <2>4, NoEntryIsNone DEF TypeOK
<1>2. MemoryIsLatest'
  BY <1>0, NoEntryIsNone DEF MemoryIsLatest, TypeOK, DiskTypeOK
<1>3. WriteUnderWay'
  BY <1>0, NoEntryIsNone DEF WriteUnderWay, MemoryIsLatest, TypeOK, DiskTypeOK
<1>4. GoneIsNowhere'
  BY <1>0, NoEntryIsNone DEF GoneIsNowhere, TypeOK, DiskTypeOK
<1>5. NothingForgotten'
  BY <1>0, NoEntryIsNone DEF NothingForgotten, WriteUnderWay, MemoryIsLatest, TypeOK, DiskTypeOK
<1> QED BY <1>1, <1>2, <1>3, <1>4, <1>5

\* create() reads the index back, and no value with it.
LEMMA RestartStep ==
  ASSUME StorageInv, Restart
  PROVE  StorageInv'
<1> USE DEF StorageInv, Restart, DiskCreate, memory, history
<1>0. job = NoJob /\ job.entry = NoEntry /\ job.todo = {}
  BY DEF MemoryIsLatest, NoJob
<1>1. TypeOK'
  BY NoEntryIsNone DEF TypeOK, DiskTypeOK, IndexOK, Jobs
<1>2. MemoryIsLatest'
  BY <1>0, NoEntryIsNone DEF MemoryIsLatest, TypeOK, DiskTypeOK
<1>3. WriteUnderWay'
  BY <1>0, NoEntryIsNone DEF WriteUnderWay, MemoryIsLatest, TypeOK, DiskTypeOK
<1>4. GoneIsNowhere'
  BY <1>0, NoEntryIsNone DEF GoneIsNowhere, TypeOK, DiskTypeOK
<1>5. NothingForgotten'
  BY <1>0, NoEntryIsNone DEF NothingForgotten, WriteUnderWay, MemoryIsLatest, TypeOK, DiskTypeOK
<1> QED BY <1>1, <1>2, <1>3, <1>4, <1>5

\* Steps that change nothing.
LEMMA Stutter ==
  ASSUME StorageInv, UNCHANGED vars
  PROVE  StorageInv'
BY DEF StorageInv, TypeOK, DiskTypeOK, IndexOK, Jobs, MemoryIsLatest, NoJob,
       WriteUnderWay, GoneIsNowhere, NothingForgotten,
       vars, diskVars, memory, process, history

-----------------------------------------------------------------------------
\* StorageInv, the conjunction of the types and of what the write-behind
\* keeps true between memory, the pending sync()s and the files, holds in
\* every state of Storage.Manager over Disk.
THEOREM StorageInvariant == Spec => []StorageInv
<1>1. Init => StorageInv
  <2> SUFFICES ASSUME Init PROVE StorageInv
    OBVIOUS
  <2>1. job \in Jobs /\ job.step = "none" /\ job.entry = NoEntry /\ job.todo = {}
    BY DEF Init, Jobs, NoJob
  <2>2. TypeOK
    <3>1. DiskTypeOK
      BY NoIndexIsOK, IndexIsEmpty DEF Init, DiskInit, DiskTypeOK
    <3>2. 0 \in 0 .. MaxStores /\ 0 \in 0 .. MaxCrashes /\ 0 \in 0 .. 0
      BY BoundsAssumption
    <3> QED BY <2>1, <3>1, <3>2, NoEntryIsNone DEF Init, TypeOK
  <2>3. MemoryIsLatest /\ WriteUnderWay /\ GoneIsNowhere /\ NothingForgotten
    BY <2>1, NoEntryIsNone
    DEF Init, DiskInit, MemoryIsLatest, WriteUnderWay, GoneIsNowhere, NothingForgotten
  <2> QED BY <2>2, <2>3 DEF StorageInv
<1>2. StorageInv /\ [Next]_vars => StorageInv'
  <2> SUFFICES ASSUME StorageInv, [Next]_vars PROVE StorageInv'
    OBVIOUS
  <2>1. CASE \E e \in Entries : Store(e) \/ Retrieve(e) \/ Unlink(e) \/ SyncCallOut(e)
    BY <2>1, StoreStep, RetrieveStep, UnlinkStep, SyncCallOutStep
  <2>2. CASE \E ns \in Namespaces : List(ns) \/ UnlinkAll(ns) \/ Stop(ns)
    BY <2>2, ListStep, UnlinkAllStep, StopStep
  <2>3. CASE \E ns \in Namespaces, m \in SUBSET Entries : UnlinkRegexp(ns, m)
    BY <2>3, UnlinkRegexpStep
  <2>4. CASE JobStep
    BY <2>4, SyncSkipsStep, SyncLooksStep, SyncOpensStep, SyncWritesStep,
       JobEndsStep, JobUnlinksStep, JobStopsStep
    DEF JobStep
  <2>5. CASE IdxSyncCallOut \/ IdxSyncFinish \/ Crash \/ Restart
    BY <2>5, IdxSyncCallOutStep, IdxSyncFinishStep, CrashStep, RestartStep
  <2>6. CASE UNCHANGED vars
    BY <2>6, Stutter
  <2> QED BY <2>1, <2>2, <2>3, <2>4, <2>5, <2>6 DEF Next
<1> QED BY <1>1, <1>2, PTL DEF Spec

\* Every variable of the store has its type, whatever was stored.
THEOREM StorageTypes == Spec => []TypeOK
BY StorageInvariant, PTL DEF StorageInv

\* retrieve() returns the value stored last, in every state of the
\* write-behind; after a crash, what had reached the files.
THEOREM ReadsAreFresh == Spec => []FreshRead
<1>1. StorageInv => FreshRead
  BY DEF StorageInv, MemoryIsLatest, FreshRead, Retrieved, Readable, TypeOK
<1> QED BY <1>1, StorageInvariant, PTL

\* No value is lost between store() and its file while the process lives.
THEOREM NothingIsForgotten == Spec => []NothingForgotten
BY StorageInvariant, PTL DEF StorageInv

\* What unlink() removed by key, with no write of it under way, is not read
\* again: not from memory, not from a file written late, not after a crash.
THEOREM UnlinkedStaysGone == Spec => []UnlinkedIsGone
<1>1. StorageInv => UnlinkedIsGone
  BY DEF StorageInv, GoneIsNowhere, UnlinkedIsGone, Retrieved, Readable
<1> QED BY <1>1, StorageInvariant, PTL

-----------------------------------------------------------------------------
(* stop(): what sync_all() does for the values stored before it began.     *)

\* Clients that go on during a sync_all() neither stop it nor undo it.
LEMMA SyncAllClients ==
  ASSUME StorageInv, SyncAllUnderWay, NEW e0 \in Entries,
         Store(e0) \/ Retrieve(e0) \/ Unlink(e0)
  PROVE  SyncAllUnderWay'
<1> USE DEF StorageInv, TypeOK, DiskTypeOK, SyncAllUnderWay
<1>1. CASE Store(e0)
  <2>1. job.since \in 0 .. stored /\ job' = job /\ files' = files
    BY <1>1 DEF Store, diskVars, Jobs
  <2> QED BY <1>1, <2>1 DEF Store
<1>2. CASE Retrieve(e0)
  BY <1>2 DEF Retrieve, DiskRetrieve, Readable, memory, history, MemoryIsLatest
<1>3. CASE Unlink(e0)
  <2>1. /\ job' = job /\ job.es \subseteq Entries
        /\ \A e \in Entries : latest'[e] \in 1 .. job.since =>
             e # e0 /\ latest'[e] = latest[e]
    BY <1>3 DEF Unlink, Jobs
  <2>2. \A e \in Entries \ {e0} : files'[e] = files[e]
    BY <1>3 DEF Unlink, DiskUnlink, Removed
  <2> QED BY <2>1, <2>2
<1> QED BY <1>1, <1>2, <1>3

\* The same of clients that act on a whole namespace.
LEMMA SyncAllNamespaces ==
  ASSUME StorageInv, SyncAllUnderWay, NEW ns \in Namespaces,
         List(ns) \/ UnlinkAll(ns)
  PROVE  SyncAllUnderWay'
<1>1. CASE List(ns)
  BY <1>1 DEF List, DiskList, memory, history, SyncAllUnderWay
<1>2. CASE UnlinkAll(ns)
  <2>1. \A e \in Entries : latest'[e] \in 1 .. job.since =>
          latest'[e] = latest[e] /\ e \notin In(ns)
    BY <1>2 DEF UnlinkAll, StorageInv, TypeOK, Jobs
  <2>2. \A e \in Entries \ In(ns) : files'[e] = files[e]
    BY <1>2 DEF UnlinkAll, DiskUnlinkAll, Removed, ListOf, In
  <2> QED BY <1>2, <2>1, <2>2
      DEF UnlinkAll, StorageInv, TypeOK, Jobs, SyncAllUnderWay
<1> QED BY <1>1, <1>2

\* At its begin, every value that sync_all() owes is still to do.
LEMMA SyncAllBegins ==
  ASSUME StorageInv, SyncAllUnderWay, NEW ns \in Namespaces,
         NEW m \in SUBSET In(ns), UnlinkRegexp(ns, m) \/ Stop(ns)
  PROVE  SyncAllUnderWay'
<1>1. /\ job'.todo = Held(In(ns)) /\ job'.es \subseteq In(ns)
      /\ job.entry = NoEntry /\ job'.entry = NoEntry
  BY DEF UnlinkRegexp, Stop, Free, Job, NoJob
<1>2. UNCHANGED <<files, storage, latest>>
  BY DEF UnlinkRegexp, Stop, diskVars, memory, history
<1> QED BY <1>1, <1>2, NoEntryIsNone
    DEF StorageInv, TypeOK, MemoryIsLatest, SyncAllUnderWay, Held, In

\* Each step of the job writes one value, or finds nothing to write.
LEMMA SyncAllGoesOn ==
  ASSUME StorageInv, SyncAllUnderWay, NEW e0 \in Entries,
         SyncSkips(e0) \/ SyncLooks(e0) \/ SyncOpens \/ SyncWrites
  PROVE  SyncAllUnderWay'
<1> USE DEF StorageInv, TypeOK, DiskTypeOK, SyncAllUnderWay, history, memory
<1>1. /\ job'.es = job.es /\ job'.since = job.since
      /\ job.es \subseteq Entries /\ UNCHANGED <<storage, latest>>
  BY DEF Jobs, SyncSkips, SyncLooks, SyncOpens, SyncWrites
<1>2. CASE SyncSkips(e0)
  <2>1. /\ job'.todo = job.todo \ {e0} /\ job'.entry = job.entry
        /\ job'.value = job.value /\ job'.step = job.step /\ files' = files
    BY <1>2 DEF SyncSkips, Jobs, diskVars
  <2> QED BY <1>1, <1>2, <2>1 DEF SyncSkips, MemoryIsLatest
<1>3. CASE SyncLooks(e0)
  <2>1. /\ job'.todo = job.todo \ {e0} /\ job'.entry = e0
        /\ job'.value = storage[e0] /\ job'.step = "open" /\ files' = files
        /\ job.entry = NoEntry
    BY <1>3 DEF SyncLooks, DiskStoreIndexes, Jobs
  <2> QED BY <1>1, <1>3, <2>1, NoEntryIsNone DEF SyncLooks, MemoryIsLatest
<1>4. CASE SyncOpens
  <2>1. /\ job'.todo = job.todo /\ job'.entry = job.entry
        /\ job'.value = job.value /\ job'.step = "write"
        /\ files' = [files EXCEPT ![job.entry] = Torn]
    BY <1>4 DEF SyncOpens, DiskStoreOpens, Jobs
  <2> QED BY <1>1, <2>1
<1>5. CASE SyncWrites
  <2>1. /\ job'.todo = job.todo /\ job'.entry = NoEntry /\ job.step = "write"
        /\ files' = [files EXCEPT ![job.entry] = IF @ = Absent THEN Absent ELSE job.value]
    BY <1>5 DEF SyncWrites, DiskStoreWrites, Jobs
  <2> QED BY <1>1, <2>1, NoEntryIsNone
<1> QED BY <1>2, <1>3, <1>4, <1>5

\* Without a job nothing is owed.
LEMMA SyncAllOver ==
  ASSUME job' = NoJob
  PROVE  SyncAllUnderWay'
BY DEF NoJob, SyncAllUnderWay

\* Steps beside the job owe what was owed before.
LEMMA SyncAllUnchanged ==
  ASSUME SyncAllUnderWay, UNCHANGED <<files, latest, job>>
  PROVE  SyncAllUnderWay'
BY DEF SyncAllUnderWay

\* SyncAllUnderWay is kept by every step.
LEMMA SyncAllStep ==
  ASSUME StorageInv, SyncAllUnderWay, [Next]_vars
  PROVE  SyncAllUnderWay'
<1>1. CASE \E e \in Entries : Store(e) \/ Retrieve(e) \/ Unlink(e)
  BY <1>1, SyncAllClients
<1>2. CASE \E e \in Entries : SyncCallOut(e)
  BY <1>2 DEF SyncCallOut, Job, SyncAllUnderWay
<1>3. CASE \E ns \in Namespaces : List(ns) \/ UnlinkAll(ns)
  BY <1>3, SyncAllNamespaces
<1>4. CASE \E ns \in Namespaces : Stop(ns)
  BY <1>4, SyncAllBegins
<1>5. CASE \E ns \in Namespaces, m \in SUBSET Entries :
             m # {} /\ m \subseteq In(ns) /\ UnlinkRegexp(ns, m)
  BY <1>5, SyncAllBegins
<1>6. CASE JobStep
  <2>1. CASE JobEnds \/ JobUnlinks \/ JobStops
    BY <2>1, SyncAllOver DEF JobEnds, JobUnlinks, JobStops
  <2>2. CASE SyncOpens \/ SyncWrites
    <3>1. PICK e \in Entries : TRUE
      BY <2>2 DEF SyncOpens, SyncWrites, StorageInv, TypeOK
    <3> QED BY <2>2, <3>1, SyncAllGoesOn
  <2> QED BY <1>6, <2>1, <2>2, SyncAllGoesOn DEF JobStep
<1>7. CASE IdxSyncCallOut \/ IdxSyncFinish
  BY <1>7, SyncAllUnchanged
  DEF IdxSyncCallOut, IdxSyncFinish, IdxSync, IdxSyncOpens, IdxSyncWrites, history
<1>8. CASE Crash
  BY <1>8, SyncAllOver DEF Crash
<1>9. CASE Restart
  BY <1>9, SyncAllUnchanged DEF Restart, DiskCreate, history
<1>10. CASE UNCHANGED vars
  BY <1>10, SyncAllUnchanged DEF vars, diskVars, history
<1> QED BY <1>1, <1>2, <1>3, <1>4, <1>5, <1>6, <1>7, <1>8, <1>9, <1>10 DEF Next

\* stop() returns when every value of its namespace that was stored before it
\* began is in its file.
THEOREM StopSavesAll == Spec => StopSaves
<1>1. Init => SyncAllUnderWay
  BY DEF Init, NoJob, SyncAllUnderWay
<1>2. StorageInv /\ SyncAllUnderWay /\ [Next]_vars => SyncAllUnderWay'
  BY SyncAllStep
<1>3. StorageInv /\ SyncAllUnderWay =>
        (JobStops => \A e \in job.es :
           latest[e] \in 1 .. job.since => files'[e] = latest[e])
  BY NoEntryIsNone DEF StorageInv, TypeOK, Jobs, SyncAllUnderWay,
     JobStops, Synced, DiskStop, IdxSyncOpens
<1> QED BY <1>1, <1>2, <1>3, StorageInvariant, PTL DEF Spec, StopSaves
=============================================================================
