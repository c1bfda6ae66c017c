------------------------------- MODULE SQLFS -------------------------------
(***************************************************************************)
(* The SQL file system: requests in several threads read files through     *)
(* one cache, whose entries are good for ttl seconds (for ever when ttl is *)
(* 0), while somebody changes the database. The database is external; it   *)
(* holds a version of each file, 0 when there is none. And Stdio_helper,   *)
(* the file object that a request is given.                                *)
(***************************************************************************)
EXTENDS Integers, FiniteSets

CONSTANTS Paths, Readers, Ttls,
          MaxVersion, MaxTime,   \* bounds on the changes and on the clock
          FileSize, MaxRead      \* size of the file that is read in pieces
ASSUME SqlfsAssumption ==
    /\ Ttls \subseteq Nat /\ MaxVersion \in Nat /\ MaxTime \in Nat
    /\ FileSize \in Nat /\ MaxRead \in Nat

VARIABLES sq_ttl, sq_db, sq_now,
          sq_seen,    \* history: the versions the database had, by time
          sq_cache,   \* path -> operation -> value and timestamp
          sq_broken,  \* the cache is 0 instead of a mapping
          sq_reader,  \* per thread: where it is, its path, what it got
          sq_delay,   \* history: longest time from a query to the store of its answer
          sh_upto, sh_max,
          sh_covered  \* history: the bytes before this one have been given out
sq_state == <<sq_ttl, sq_db, sq_now, sq_seen, sq_cache, sq_broken, sq_reader, sq_delay>>
sh_vars == <<sh_upto, sh_max, sh_covered>>
sq_vars == <<sq_state, sh_vars>>

NoCache == [p \in {} |-> [o \in {} |-> 0]]
Idle(p) == [pc |-> "idle", op |-> "content_ID", path |-> p, nocache |-> FALSE,
            since |-> 0, asked |-> 0, got |-> 0, missed |-> FALSE]
SqlfsInit ==
    /\ sq_ttl \in Ttls /\ sq_db \in [Paths -> 0 .. MaxVersion] /\ sq_now = sq_ttl + 1
    /\ sq_seen = [p \in Paths |-> [t \in 0 .. sq_now |-> {sq_db[p]}]]
    /\ sq_cache = NoCache /\ sq_broken = FALSE
    /\ \E p \in Paths : sq_reader = [r \in Readers |-> Idle(p)]
    /\ sq_delay = 0
    /\ sh_upto = 0 /\ sh_max = FileSize /\ sh_covered = 0

-----------------------------------------------------------------------------
(* The world: the file changes, and time goes by, whatever the threads do. *)
Change(p, v) ==
    /\ v # sq_db[p] /\ sq_db' = [sq_db EXCEPT ![p] = v]
    /\ sq_seen' = [sq_seen EXCEPT ![p][sq_now] = @ \cup {v}]
    /\ UNCHANGED <<sq_ttl, sq_now, sq_cache, sq_broken, sq_reader, sq_delay, sh_vars>>
Tick ==
    /\ sq_now < sq_ttl + MaxTime /\ sq_now' = sq_now + 1
    /\ sq_seen' = [p \in Paths |->
                      [t \in 0 .. sq_now' |-> IF t = sq_now' THEN {sq_db[p]} ELSE sq_seen[p][t]]]
    /\ UNCHANGED <<sq_ttl, sq_db, sq_cache, sq_broken, sq_reader, sq_delay, sh_vars>>

-----------------------------------------------------------------------------
Cached(p, o) == p \in DOMAIN sq_cache /\ o \in DOMAIN sq_cache[p]
NeverExpired(p, o) == FALSE
Expired(p, o) == sq_ttl # 0 /\ sq_cache[p][o].stamp + sq_ttl < sq_now

(* flush(path, operation) puts what m_delete() returns, the entry, in the  *)
(* place of the path's mapping: all the operations of the path are gone.   *)
FlushOperation(p) == [sq_cache EXCEPT ![p] = [x \in {} |-> 0]]
(* flush(path) does it to the cache: it is then the mapping of one path,   *)
(* which holds no path, or 0 when the path was not in the cache.           *)
FlushPathKeeping(p) == UNCHANGED sq_cache /\ sq_broken' = (p \notin DOMAIN sq_cache)
FlushPath(p) == sq_cache' = NoCache /\ sq_broken' = (p \notin DOMAIN sq_cache)

Store(p, o, v) ==
    [x \in DOMAIN sq_cache \cup {p} |->
        IF x # p THEN sq_cache[x]
        ELSE LET old == IF p \in DOMAIN sq_cache THEN sq_cache[p] ELSE [y \in {} |-> 0]
             IN  [y \in DOMAIN old \cup {o} |->
                     IF y = o THEN [value |-> v, stamp |-> sq_now] ELSE old[y]]]

(* find_file(), with or without Pragma: no-cache, by thread r. *)
FindFile(r, p, nocache) ==
    /\ sq_reader[r].pc = "idle"
    /\ sq_reader' = [sq_reader EXCEPT ![r] =
                        [Idle(p) EXCEPT !.pc = "have", !.since = sq_now,
                                       !.nocache = nocache]]
    /\ IF nocache /\ ~sq_broken THEN FlushPath(p) ELSE UNCHANGED <<sq_cache, sq_broken>>
    /\ UNCHANGED <<sq_ttl, sq_db, sq_now, sq_seen, sq_delay, sh_vars>>

World == UNCHANGED <<sq_ttl, sq_db, sq_now, sq_seen, sq_broken, sh_vars>>
Frame == World /\ UNCHANGED sq_delay
Greater(a, b) == IF a < b THEN b ELSE a
At(r, pc) == sq_reader[r].pc = pc
Goes(r, pc) == sq_reader' = [sq_reader EXCEPT ![r].pc = pc]

(* What a value means for the request: without an ID there is no file,     *)
(* with one the contents are looked up.                                    *)
Answered(r, v) ==
    sq_reader' = [sq_reader EXCEPT
                     ![r] = IF @.op = "content_ID" /\ v # 0
                            THEN [@ EXCEPT !.op = "contents", !.pc = "have", !.got = 0, !.asked = 0]
                            ELSE [@ EXCEPT !.got = v, !.pc = "done", !.asked = 0]]

(* have(): an entry that is too old is flushed. *)
Have(r) ==
    /\ At(r, "have") /\ Frame /\ ~sq_broken
    /\ LET p == sq_reader[r].path
           o == sq_reader[r].op
       IN  IF Cached(p, o) /\ ~Expired(p, o) THEN Goes(r, "retrieve") /\ UNCHANGED sq_cache
           ELSE /\ Goes(r, "query")
                /\ sq_cache' = IF Cached(p, o) THEN FlushOperation(p) ELSE sq_cache

(* retrieve(), behind a have() that said yes: by now the entry may be too  *)
(* old, or flushed by another thread, and the answer is 0.                 *)
Retrieve(r) ==
    /\ At(r, "retrieve") /\ Frame /\ ~sq_broken
    /\ LET p == sq_reader[r].path
           o == sq_reader[r].op
       IN  IF Cached(p, o) /\ ~Expired(p, o)
           THEN Answered(r, sq_cache[p][o].value) /\ UNCHANGED sq_cache
           ELSE /\ sq_reader' = [sq_reader EXCEPT ![r].pc = "done", ![r].missed = TRUE]
                /\ sq_cache' = IF Cached(p, o) THEN FlushOperation(p) ELSE sq_cache

(* The query; its answer is stored once the thread runs again, which may   *)
(* be at any later time, with the time() of then. A file without contents  *)
(* is not stored.                                                          *)
Query(r) ==
    /\ At(r, "query") /\ Frame /\ UNCHANGED sq_cache
    /\ sq_reader' = [sq_reader EXCEPT
                        ![r].pc = "store", ![r].asked = sq_now,
                        ![r].got = sq_db[sq_reader[r].path]]
StoreAnswer(r) ==
    /\ At(r, "store") /\ World /\ ~sq_broken
    /\ LET q == sq_reader[r]
       IN  /\ IF q.op = "contents" /\ q.got = 0
              THEN UNCHANGED <<sq_cache, sq_delay>>
              ELSE /\ sq_cache' = Store(q.path, q.op, q.got)
                   /\ sq_delay' = Greater(sq_delay, sq_now - q.asked)
           /\ Answered(r, q.got)

(* Every method throws on the cache that is 0. *)
CacheThrows(r) ==
    /\ sq_broken /\ sq_reader[r].pc \in {"have", "retrieve", "store"}
    /\ Goes(r, "thrown") /\ Frame /\ UNCHANGED sq_cache
Over(r) ==
    /\ sq_reader[r].pc \in {"done", "thrown"}
    /\ sq_reader' = [sq_reader EXCEPT ![r] = Idle(@.path)] /\ Frame /\ UNCHANGED sq_cache

-----------------------------------------------------------------------------
(* Stdio_helper: bytes lo up to but not including hi are given out. Ranges *)
(* of Pike include their last byte; past the contents there is nothing.    *)
Contents == IF FileSize > sh_max THEN sh_max + 1 ELSE FileSize
PieceBehind(upto, n) == [lo |-> upto + 1, hi |-> IF n > 0 THEN upto + n + 1 ELSE Contents]
PieceOf(upto, n) == [lo |-> upto, hi |-> IF n > 0 THEN upto + n + 1 ELSE Contents]
Lesser(a, b) == IF a < b THEN a ELSE b
ShRead(n) ==
    LET piece == PieceOf(sh_upto, n)
        hi == Lesser(piece.hi, Contents)
    IN  /\ sh_upto <= FileSize     \* bound: no reading on past the end
        /\ sh_upto' = IF n > 0 THEN sh_upto + n ELSE Contents
        /\ sh_covered' = IF sh_upto' < sh_upto THEN sh_upto'
                         ELSE IF piece.lo <= sh_covered /\ hi > sh_covered THEN hi
                         ELSE sh_covered
        /\ UNCHANGED <<sq_state, sh_max>>
(* A negative position is meant to count from the end, and is behind it. *)
ShSeek(n) ==
    /\ sh_upto' = (IF n > -1 THEN n ELSE FileSize - n)
    /\ sh_covered' = sh_upto' /\ UNCHANGED <<sq_state, sh_max>>
(* What a larger limit brings back behind upto counts as passed over. *)
ShTruncate(n) ==
    /\ sh_max' = n
    /\ sh_covered' = IF n > sh_max /\ sh_covered < sh_upto THEN sh_upto ELSE sh_covered
    /\ UNCHANGED <<sq_state, sh_upto>>

CacheNext ==
    \/ \E p \in Paths, v \in 0 .. MaxVersion : Change(p, v)
    \/ Tick
    \/ \E r \in Readers, p \in Paths, nocache \in BOOLEAN : FindFile(r, p, nocache)
    \/ \E r \in Readers : \/ Have(r) \/ Retrieve(r) \/ Query(r) \/ StoreAnswer(r)
                          \/ CacheThrows(r) \/ Over(r)
ShNext ==
    \/ \E n \in 0 .. MaxRead : ShRead(n)
    \/ \E n \in -1 .. FileSize : ShSeek(n)
    \/ \E n \in 0 .. FileSize : ShTruncate(n)
SqlfsNext == CacheNext \/ ShNext
SqlfsSpec == SqlfsInit /\ [][SqlfsNext]_sq_vars

-----------------------------------------------------------------------------
(* The database had what r got at the time t, or later. *)
SeenSince(r, t) ==
    \E u \in 0 .. sq_now : t <= u /\ sq_reader[r].got \in sq_seen[sq_reader[r].path][u]
Answers(r) == sq_reader[r].pc = "done" /\ ~sq_reader[r].missed

(* "if they are too old by the time they are asked for again, I discard    *)
(* what I have": the age of an entry is counted from its store, not from   *)
(* the query, and any time can go by between the two. So what a request is *)
(* given is older than it by at most ttl seconds and the longest time that *)
(* an answer has taken to be stored, although the ID and the contents age  *)
(* on their own and the threads fill and flush the cache behind each       *)
(* other; and "flush() is used ... if id->pragma[no-cache]": the answer to *)
(* such a request is older than it by that time at most. Not so the 0 of   *)
(* an entry that was lost between have() and retrieve().                   *)
AnswerFresh ==
    \A r \in Readers : Answers(r) =>
        /\ sq_ttl # 0 => SeenSince(r, sq_reader[r].since - sq_ttl - sq_delay)
        /\ sq_reader[r].nocache => SeenSince(r, sq_reader[r].since - sq_delay)

(* A file that is read in pieces comes out without a gap; a piece may      *)
(* repeat one byte of the one before.                                      *)
PiecesCover == /\ Lesser(sh_upto, Contents) <= sh_covered
               /\ sh_covered <= sh_upto + 1
=============================================================================
