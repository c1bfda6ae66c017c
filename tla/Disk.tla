-------------------------------- MODULE Disk --------------------------------
(***************************************************************************)
(* Storage.Methods.Disk (etc/modules/Storage.pmod/Methods.pmod/Disk.pike): *)
(* one file per stored object, and an index of the objects, which is kept  *)
(* in memory and written to a file of its own from time to time.           *)
(*                                                                         *)
(* Stdio.write_file() truncates and then writes: a file that is open for   *)
(* writing is Torn, and stays so if the process dies.  An unlinked file    *)
(* that is still being written is gone.  Sizes are left out (create() says *)
(* of the index what counts; of size(), that it is hard to say whether the *)
(* value is useful).                                                       *)
(***************************************************************************)
EXTENDS Integers, Sequences, FiniteSets

CONSTANTS
  Entries,     \* the <<namespace, key>> pairs that are stored
  MaxStores,   \* bound: values stored; a value is the number of its store()
  MaxCrashes   \* bound: how often the process dies

ASSUME EntriesAssumption == \A e \in Entries : e = <<e[1], e[2]>>
ASSUME BoundsAssumption == MaxStores \in Nat /\ MaxCrashes \in Nat

Namespaces == {e[1] : e \in Entries}
In(ns) == {e \in Entries : e[1] = ns}

Absent == 0       \* no such file, or no value
Torn == -1        \* a file that decode() rejects
Values == 1 .. MaxStores

VARIABLES
  files,          \* what each object's file holds
  idx,            \* the objects in the index
  idx_ns,         \* the namespaces that have a mapping in the index
  idx_file,       \* the file storage_index: "none", "torn" or "good" and
                  \*   the index it holds
  idx_writing,    \* idx_sync() has opened storage_index to write this index
  idx_sync_stop   \* idx_sync() is not called out again

diskVars == <<files, idx, idx_ns, idx_file, idx_writing, idx_sync_stop>>

NoIndex == [state |-> "none", entries |-> {}, nss |-> {}]
Index == [state |-> "good", entries |-> idx, nss |-> idx_ns]

DiskInit ==
  /\ files = [e \in Entries |-> Absent]
  /\ idx = {} /\ idx_ns = {} /\ idx_file = NoIndex
  /\ idx_writing = NoIndex /\ idx_sync_stop = FALSE

-----------------------------------------------------------------------------
(* Lookups                                                                 *)

Readable(e) == files[e] \in Values

\* list(ns): from the index if it knows the namespace, else from the files.
ListOf(ns) ==
  IF ns \in idx_ns THEN idx \cap In(ns) ELSE {e \in In(ns) : Readable(e)}

\* The index after list(ns), which adds every readable file when it scans.
IdxAfterList(ns) ==
  IF ns \in idx_ns THEN idx ELSE idx \cup {e \in Entries : Readable(e)}
NssAfterList(ns) ==
  IF ns \in idx_ns THEN idx_ns
  ELSE idx_ns \cup {ns} \cup {e[1] : e \in {f \in Entries : Readable(f)}}

\* idx_path(): looking for an object's path puts the object in the index.
IdxPath(e) == idx' = idx \cup {e} /\ idx_ns' = idx_ns \cup {e[1]}

DiskList(ns) ==
  /\ idx' = IdxAfterList(ns) /\ idx_ns' = NssAfterList(ns)
  /\ UNCHANGED <<files, idx_file, idx_writing, idx_sync_stop>>

\* retrieve(): what cannot be read is taken out of the index and removed.
DiskRetrieve(e) ==
  /\ idx_ns' = idx_ns \cup {e[1]}
  /\ idx' = IF Readable(e) THEN idx \cup {e} ELSE idx \ {e}
  /\ files' = [files EXCEPT ![e] = IF Readable(e) THEN @ ELSE Absent]
  /\ UNCHANGED <<idx_file, idx_writing, idx_sync_stop>>

-----------------------------------------------------------------------------
(* Changes                                                                 *)

\* store() in three steps: the index, the truncated file, its contents.
DiskStoreIndexes(e) ==
  /\ IdxPath(e)
  /\ UNCHANGED <<files, idx_file, idx_writing, idx_sync_stop>>

DiskStoreOpens(e) ==
  /\ files' = [files EXCEPT ![e] = Torn]
  /\ UNCHANGED <<idx, idx_ns, idx_file, idx_writing, idx_sync_stop>>

DiskStoreWrites(e, v) ==
  /\ files' = [files EXCEPT ![e] = IF @ = Absent THEN Absent ELSE v]
  /\ UNCHANGED <<idx, idx_ns, idx_file, idx_writing, idx_sync_stop>>

Removed(es) == files' = [e \in Entries |-> IF e \in es THEN Absent ELSE files[e]]

\* unlink(ns, key)
DiskUnlink(e) ==
  /\ Removed({e})
  /\ idx' = idx \ {e} /\ idx_ns' = idx_ns \cup {e[1]}
  /\ UNCHANGED <<idx_file, idx_writing, idx_sync_stop>>

\* unlink(ns): what list() returns is removed, and the namespace's index.
DiskUnlinkAll(ns) ==
  /\ Removed(ListOf(ns))
  /\ idx' = IdxAfterList(ns) \ In(ns)
  /\ idx_ns' = NssAfterList(ns) \ {ns}
  /\ UNCHANGED <<idx_file, idx_writing, idx_sync_stop>>

\* unlink_regexp(): of what list() returns, the objects that match.
DiskUnlinkMatching(ns, matching) ==
  /\ Removed(ListOf(ns) \cap matching)
  /\ idx' = IdxAfterList(ns) \ (ListOf(ns) \cap matching)
  /\ idx_ns' = NssAfterList(ns)
  /\ UNCHANGED <<idx_file, idx_writing, idx_sync_stop>>

-----------------------------------------------------------------------------
(* idx_sync(), stop() and create()                                         *)

IdxSyncIdle == idx_writing.state = "none"

IdxSyncOpens ==
  /\ IdxSyncIdle
  /\ idx_writing' = Index
  /\ idx_file' = [NoIndex EXCEPT !.state = "torn"]
  /\ UNCHANGED <<files, idx, idx_ns>>

\* From its call_out, which it sets again unless the storage was stopped.
IdxSync == ~ idx_sync_stop /\ IdxSyncOpens /\ UNCHANGED idx_sync_stop

\* stop(): the same, and no more.
DiskStop == IdxSyncOpens /\ idx_sync_stop' = TRUE

IdxSyncWrites ==
  /\ ~ IdxSyncIdle
  /\ idx_file' = idx_writing
  /\ idx_writing' = NoIndex
  /\ UNCHANGED <<files, idx, idx_ns, idx_sync_stop>>

\* The process dies: what is in the files stays.
DiskCrash ==
  /\ idx' = {} /\ idx_ns' = {}
  /\ idx_writing' = NoIndex /\ idx_sync_stop' = FALSE
  /\ UNCHANGED <<files, idx_file>>

\* create() of the next process: a torn index is no index.  Files that are
\* not in the index are to be removed; but each is named by append_path()
\* once when the directory is read and again when it is removed, and a path
\* below path twice over is no file, so all of them stay.
DiskCreate ==
  /\ idx' = idx_file.entries /\ idx_ns' = idx_file.nss
  /\ UNCHANGED <<files, idx_file, idx_writing, idx_sync_stop>>

-----------------------------------------------------------------------------
IndexOK(entries, nss) ==
  /\ entries \subseteq Entries /\ nss \subseteq Namespaces
  /\ \A e \in entries : e[1] \in nss

DiskTypeOK ==
  /\ files \in [Entries -> Values \cup {Absent, Torn}]
  /\ IndexOK(idx, idx_ns)
  /\ \A i \in {idx_file, idx_writing} :
       i.state \in {"none", "torn", "good"} /\ IndexOK(i.entries, i.nss)
  /\ idx_sync_stop \in BOOLEAN
=============================================================================
