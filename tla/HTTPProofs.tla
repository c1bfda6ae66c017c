----------------------------- MODULE HTTPProofs -----------------------------
(***************************************************************************)
(* What holds of HTTP for any number of requests and handler threads.      *)
(* WatchInv is inductive whatever the client does, OrderInv with a client  *)
(* that waits for its answers.                                             *)
(***************************************************************************)
EXTENDS HTTP, Lemmas

\* What disconnect() leaves of an object.
LEMMA DisconnectedType ==
  ASSUME NEW i \in IdType
  PROVE  /\ Disconnected(i) \in IdType
         /\ Disconnected(i).pipe = FALSE
         /\ Disconnected(i).state = IF i.hold THEN i.state ELSE "dead"
         /\ Disconnected(i).my_fd = i.my_fd /\ Disconnected(i).raw = i.raw
         /\ Disconnected(i).leftovers = i.leftovers
         /\ Disconnected(i).timeouts = i.timeouts /\ Disconnected(i).hold = i.hold
         /\ Disconnected(i).processed = i.processed
BY DEF Disconnected, IdType

\* What end() leaves of it.
LEMMA EndedType ==
  ASSUME NEW i \in IdType
  PROVE  /\ Ended(i) \in IdType
         /\ Ended(i).pipe = FALSE
         /\ Ended(i).state = IF i.hold THEN i.state ELSE "dead"
         /\ Ended(i).my_fd = FALSE /\ Ended(i).raw = i.raw
         /\ Ended(i).leftovers = i.leftovers
         /\ Ended(i).timeouts = i.timeouts /\ Ended(i).hold = i.hold
         /\ Ended(i).processed = i.processed
BY DEF Ended, Disconnected, IdType

\* What got_data() makes of it before it looks at the bytes.
LEMMA ReceivedType ==
  ASSUME NEW i \in IdType, NEW s \in Seq(Bytes)
  PROVE  /\ Received(i, s) \in IdType
         /\ Received(i, s).raw = i.raw \o s /\ Received(i, s).timeouts > 0
         /\ Received(i, s).state = i.state /\ Received(i, s).my_fd = i.my_fd
         /\ Received(i, s).leftovers = i.leftovers
         /\ Received(i, s).hold = i.hold /\ Received(i, s).pipe = i.pipe
         /\ Received(i, s).processed = i.processed
<1> DEFINE r == i.raw \o s  k == IF i.timeouts = 0 THEN 1 ELSE i.timeouts
<1>1. r \in Seq(Bytes)
  BY DEF IdType
<1>2. k \in Nat /\ k > 0
  BY DEF IdType
<1>3. Received(i, s) = [i EXCEPT !.raw = r, !.late = FALSE, !.timeouts = k]
  BY DEF Received
<1> HIDE DEF r, k
<1>4. /\ Received(i, s) \in IdType
      /\ Received(i, s).raw = r /\ Received(i, s).timeouts = k
      /\ Received(i, s).state = i.state /\ Received(i, s).my_fd = i.my_fd
      /\ Received(i, s).leftovers = i.leftovers
      /\ Received(i, s).hold = i.hold /\ Received(i, s).pipe = i.pipe
      /\ Received(i, s).processed = i.processed
  BY <1>1, <1>2, <1>3 DEF IdType
<1> QED BY <1>2, <1>4 DEF r

\* A request ends at the first byte that completes one.
LEMMA LastOfFirst ==
  ASSUME NEW s \in Seq(Bytes), Complete(s)
  PROVE  /\ LastOf(s) \in 1 .. Len(s) /\ s[LastOf(s)] % 2 = 0
         /\ \A j \in 1 .. LastOf(s) - 1 : s[j] % 2 = 1
         /\ Request(s) \in Seq(Bytes)
         /\ SubSeq(s, LastOf(s) + 1, Len(s)) \in Seq(Bytes)
<1> DEFINE S == {k \in 1 .. Len(s) : s[k] % 2 = 0}
<1>0. DOMAIN s = 1 .. Len(s) /\ Len(s) \in Nat /\ \A j \in 1 .. Len(s) : s[j] \in Int
  <2>1. Bytes \subseteq Int
    BY HTTPAssumption DEF Bytes
  <2>2. DOMAIN s = 1 .. Len(s) /\ Len(s) \in Nat /\ \A j \in 1 .. Len(s) : s[j] \in Bytes
    OBVIOUS
  <2> QED BY <2>1, <2>2
<1>1. S \in SUBSET Nat /\ S # {}
  BY <1>0 DEF Complete
<1>2. PICK k \in S : \A m \in S : k <= m
  <2> HIDE DEF S
  <2> QED BY <1>1, Least
<1>3. \A j \in 1 .. k - 1 : s[j] % 2 = 1
  <2> SUFFICES ASSUME NEW j \in 1 .. k - 1 PROVE s[j] % 2 = 1
    OBVIOUS
  <2>1. j \in 1 .. Len(s) /\ j \notin S
    BY <1>0, <1>2
  <2>2. s[j] % 2 # 0 /\ s[j] \in Int
    BY <1>0, <2>1
  <2> QED BY <2>2
<1>4. \E j \in DOMAIN s : s[j] % 2 = 0 /\ \A l \in 1 .. j - 1 : s[l] % 2 = 1
  BY <1>0, <1>2, <1>3
<1>5. /\ LastOf(s) \in DOMAIN s /\ s[LastOf(s)] % 2 = 0
      /\ \A j \in 1 .. LastOf(s) - 1 : s[j] % 2 = 1
  BY <1>4 DEF LastOf
<1>6. LastOf(s) \in 1 .. Len(s)
  BY <1>0, <1>5
<1> QED BY <1>0, <1>5, <1>6 DEF Request

\* got_data(s) of the object o among ids makes it i: the bytes stay incomplete, or
\* the connection is another's,
GotPart(ids, o, i) ==
  /\ ~ Complete(i.raw) \/ ~ ids[o].my_fd
  /\ i.state = ids[o].state /\ i.my_fd = ids[o].my_fd /\ i.pipe = ids[o].pipe
  /\ i.leftovers = ids[o].leftovers /\ i.processed = ids[o].processed
  /\ UNCHANGED <<open, cb, queue, taken>>
\* or they complete a request, which is taken and queued,
GotRequest(ids, o, i) ==
  /\ Complete(i.raw) /\ WellFormed(Request(i.raw)) /\ ids[o].my_fd
  /\ i.state = ids[o].state /\ i.my_fd = ids[o].my_fd /\ i.pipe = ids[o].pipe
  /\ i.leftovers = SubSeq(i.raw, LastOf(i.raw) + 1, Len(i.raw)) /\ i.processed = TRUE
  /\ cb' = 0 /\ queue' = Append(queue, o) /\ UNCHANGED open
  /\ taken' = Append(taken, Request(i.raw))
\* or a line that is none, and the connection is closed.
GotNone(ids, o, i) ==
  /\ Complete(i.raw) /\ ~ WellFormed(Request(i.raw)) /\ ids[o].my_fd
  /\ i.state = (IF ids[o].hold THEN ids[o].state ELSE "dead")
  /\ i.my_fd = FALSE /\ i.pipe = FALSE
  /\ i.leftovers = ids[o].leftovers /\ i.processed = ids[o].processed
  /\ open' = FALSE /\ cb' = 0 /\ UNCHANGED queue
  /\ taken' = Append(taken, Request(i.raw))
\* What got_data() does with the bytes s.
Got(ids, o, s, i) ==
  /\ id' = [ids EXCEPT ![o] = i]
  /\ i.raw = ids[o].raw \o s /\ i.timeouts > 0 /\ i.hold = ids[o].hold
  /\ GotPart(ids, o, i) \/ GotRequest(ids, o, i) \/ GotNone(ids, o, i)

\* A GotData step is a Got step: the bytes are kept, or complete a request, or are
\* thrown away with the connection.
LEMMA GotDataDoes ==
  ASSUME NEW ids \in [Objects -> IdType], NEW o \in Objects,
         NEW s \in Seq(Bytes), GotData(ids, o, s)
  PROVE  \E i \in IdType : Got(ids, o, s, i)
<1> USE DEF Got, GotPart, GotRequest, GotNone
<1> DEFINE g == Received(ids[o], s)
<1>1. /\ g \in IdType /\ g.raw = ids[o].raw \o s /\ g.timeouts > 0
      /\ g.state = ids[o].state /\ g.my_fd = ids[o].my_fd
      /\ g.leftovers = ids[o].leftovers /\ g.hold = ids[o].hold
      /\ g.pipe = ids[o].pipe /\ g.processed = ids[o].processed
  BY ReceivedType
<1>2. g.raw \in Seq(Bytes)
  BY <1>1 DEF IdType
<1>3. CASE ~ Complete(g.raw)
  <2>1. id' = [ids EXCEPT ![o] = g] /\ UNCHANGED <<open, cb, queue, taken>>
    BY <1>3 DEF GotData
  <2> HIDE DEF g
  <2> QED BY <1>1, <1>3, <2>1
<1>6. CASE Complete(g.raw) /\ ~ g.my_fd
  <2>1. id' = [ids EXCEPT ![o] = g] /\ UNCHANGED <<open, cb, queue, taken>>
    BY <1>6 DEF GotData
  <2> HIDE DEF g
  <2> QED BY <1>1, <1>6, <2>1
<1>4. CASE Complete(g.raw) /\ WellFormed(Request(g.raw)) /\ g.my_fd
  <2> DEFINE i == [g EXCEPT !.processed = TRUE,
                            !.leftovers = SubSeq(g.raw, LastOf(g.raw) + 1, Len(g.raw))]
  <2>1. /\ id' = [ids EXCEPT ![o] = i] /\ cb' = 0 /\ queue' = Append(queue, o)
        /\ UNCHANGED open /\ taken' = Append(taken, Request(g.raw))
    BY <1>4 DEF GotData, Takes
  <2>2. SubSeq(g.raw, LastOf(g.raw) + 1, Len(g.raw)) \in Seq(Bytes)
    BY <1>2, <1>4, LastOfFirst
  <2> HIDE DEF g
  <2>3. /\ i \in IdType /\ i.raw = g.raw /\ i.timeouts = g.timeouts /\ i.hold = g.hold
        /\ i.state = g.state /\ i.my_fd = g.my_fd /\ i.pipe = g.pipe
        /\ i.processed = TRUE
        /\ i.leftovers = SubSeq(g.raw, LastOf(g.raw) + 1, Len(g.raw))
    BY <1>1, <2>2 DEF IdType
  <2> HIDE DEF i
  <2> QED BY <1>1, <1>4, <2>1, <2>3
<1>5. CASE Complete(g.raw) /\ ~ WellFormed(Request(g.raw)) /\ g.my_fd
  <2>1. /\ id' = [ids EXCEPT ![o] = Ended(g)] /\ open' = FALSE /\ cb' = 0
        /\ UNCHANGED queue /\ taken' = Append(taken, Request(g.raw))
    BY <1>5 DEF GotData
  <2> HIDE DEF g
  <2>2. /\ Ended(g) \in IdType /\ Ended(g).pipe = FALSE /\ Ended(g).my_fd = FALSE
        /\ Ended(g).state = (IF g.hold THEN g.state ELSE "dead")
        /\ Ended(g).raw = g.raw /\ Ended(g).leftovers = g.leftovers
        /\ Ended(g).timeouts = g.timeouts /\ Ended(g).hold = g.hold
        /\ Ended(g).processed = g.processed
    BY <1>1, EndedType
  <2> DEFINE i == Ended(g)
  <2> HIDE DEF i
  <2> QED BY <1>1, <1>5, <2>1, <2>2 DEF i
<1> QED BY <1>3, <1>4, <1>5, <1>6

-----------------------------------------------------------------------------
(* WatchInv: one lemma for each action that changes an object or a thread  *)

\* A request stays complete when more bytes come.
LEMMA CompleteMore ==
  ASSUME NEW r \in Seq(Bytes), NEW s \in Seq(Bytes), Complete(r)
  PROVE  Complete(r \o s)
<1>1. PICK k \in 1 .. Len(r) : r[k] % 2 = 0
  BY DEF Complete
<1>2. k \in DOMAIN (r \o s) /\ (r \o s)[k] = r[k]
  OBVIOUS
<1> QED BY <1>1, <1>2 DEF Complete

\* Initially one live object waits with its timeout set.
LEMMA WatchInit == Init => WatchInv
<1> SUFFICES ASSUME Init PROVE WatchInv
  OBVIOUS
<1> USE HTTPAssumption DEF Init
<1>1. 1 \in Objects
  BY DEF Objects
<1>2. Created \in IdType /\ NewId \in IdType /\ <<>> \in Seq(Bytes)
  <2>1. <<>> \in Seq(Bytes)
    OBVIOUS
  <2>2. NewId \in IdType
    BY <2>1 DEF NewId, IdType
  <2>3. Created = [NewId EXCEPT !.state = "live", !.my_fd = TRUE, !.timeouts = 1]
    BY DEF Created
  <2> QED BY <2>1, <2>2, <2>3 DEF IdType
<1>3. TypeOK
  <2>1. id \in [Objects -> IdType]
    BY <1>1, <1>2
  <2>2. threads \in [Threads ->
          [at : {"idle", "handling", "ending", "chaining", "chained", "rearming"},
           obj : Objects \cup {0}, next : Objects \cup {0}]]
    BY DEF Idle
  <2>3. /\ sent \in 0 .. 2 * MaxRequests /\ net \in Seq(Bytes) /\ queue \in Seq(Objects)
        /\ client \in {"reads", "stuck", "gone"} /\ open \in BOOLEAN
        /\ cb \in Objects \cup {0} /\ raced \in BOOLEAN
    <3>1. net \in Seq(Bytes) /\ queue \in Seq(Objects)
      OBVIOUS
    <3>2. sent \in 0 .. 2 * MaxRequests
      OBVIOUS
    <3> QED BY <1>1, <3>1, <3>2
  <2>4. taken \in Seq(Seq(Bytes)) /\ answered \in Seq(Seq(Bytes))
    OBVIOUS
  <2> QED BY <2>1, <2>2, <2>3, <2>4 DEF TypeOK
<1>4. Holding
  BY <1>1 DEF Holding, Idle, At, Chains, Created, NewId
<1>5. Waiting
  <2>1. Created.my_fd /\ Created.state = "live" /\ Created.timeouts = 1 /\ ~ Created.processed
    BY DEF Created, NewId
  <2>2. NewId.state = "none" /\ NewId.my_fd = FALSE
    BY DEF NewId
  <2> HIDE DEF Init
  <2>3. open = TRUE /\ cb = 1 /\ id = [o \in Objects |-> IF o = 1 THEN Created ELSE NewId]
    BY DEF Init
  <2> QED BY <1>1, <2>1, <2>2, <2>3 DEF Waiting, Made, Live
<1> QED BY <1>3, <1>4, <1>5 DEF WatchInv

\* The socket has bytes for the object with the callbacks.
LEMMA WatchRead == WatchInv /\ ReadCallback => WatchInv'
<1> SUFFICES ASSUME WatchInv, ReadCallback PROVE WatchInv'
  OBVIOUS
<1> USE DEF WatchInv
<1>1. cb \in Objects /\ id \in [Objects -> IdType] /\ net \in Seq(Bytes)
  BY DEF ReadCallback, HasCallbacks, TypeOK
<1>2. UNCHANGED <<sent, client, threads, answered, raced>> /\ net' = <<>>
  BY DEF ReadCallback, clientVars
<1>3. PICK i \in IdType : Got(id, cb, net, i)
  <2>1. GotData(id, cb, net)
    BY DEF ReadCallback
  <2> QED BY <1>1, <2>1, GotDataDoes
<1> USE DEF Got, GotPart, GotRequest, GotNone
<1>4. TypeOK'
  <2>1. i.raw \in Seq(Bytes)
    BY DEF IdType
  <2>2. queue \in Seq(Objects) /\ Append(queue, cb) \in Seq(Objects)
    BY <1>1, AppendIs DEF TypeOK
  <2>3. taken \in Seq(Seq(Bytes))
    BY DEF TypeOK
  <2>4. Complete(i.raw) => Append(taken, Request(i.raw)) \in Seq(Seq(Bytes))
    BY <2>1, <2>3, LastOfFirst, AppendIs
  <2>5. taken' \in Seq(Seq(Bytes)) /\ queue' \in Seq(Objects)
    BY <1>3, <2>2, <2>3, <2>4
  <2>6. id' \in [Objects -> IdType] /\ open' \in BOOLEAN /\ cb' \in Objects \cup {0}
    BY <1>1, <1>3 DEF TypeOK
  <2> QED BY <1>2, <2>5, <2>6 DEF TypeOK
<1>5. Holding'
  <2>1. \A k \in DOMAIN queue' : id'[queue'[k]].processed
    <3>1. \A k \in DOMAIN queue : id[queue[k]].processed /\ queue[k] \in Objects
      BY DEF Holding, TypeOK
    <3>2. queue \in Seq(Objects)
      BY DEF TypeOK
    <3>3. /\ DOMAIN Append(queue, cb) = 1 .. Len(queue) + 1
          /\ DOMAIN queue = 1 .. Len(queue) /\ Len(queue) \in Nat
          /\ \A k \in 1 .. Len(queue) : Append(queue, cb)[k] = queue[k]
          /\ Append(queue, cb)[Len(queue) + 1] = cb
      BY <1>1, <3>2, AppendIs
    <3>4. CASE UNCHANGED queue
      BY <1>1, <1>3, <3>1, <3>4
    <3>5. CASE queue' = Append(queue, cb) /\ i.processed
      <4>1. id' = [id EXCEPT ![cb] = i]
        BY <1>3
      <4> QED BY <1>1, <3>1, <3>3, <3>5, <4>1
    <3> QED BY <1>3, <3>4, <3>5
  <2>2. \A o \in Objects : id'[o].pipe => id'[o].processed
    BY <1>1, <1>3 DEF Holding, TypeOK
  <2>3. \A t \in Threads : ~ At(t, "idle")' => id'[threads[t].obj].processed
    BY <1>1, <1>2, <1>3 DEF Holding, TypeOK, At
  <2>4. \A o \in Objects : id'[o].processed => Complete(id'[o].raw)
    <3>1. id[cb].raw \in Seq(Bytes) /\ (id[cb].processed => Complete(id[cb].raw))
      BY <1>1 DEF IdType, Holding
    <3>2. i.processed => Complete(i.raw)
      BY <1>1, <1>3, <3>1, CompleteMore
    <3> QED BY <1>1, <1>3, <3>2 DEF Holding
  <2> QED BY <1>1, <1>2, <1>3, <2>1, <2>2, <2>3, <2>4 DEF Holding, TypeOK, At, Chains, Made
<1>6. Waiting'
  <2>1. open /\ Live(cb) /\ open \in BOOLEAN
    BY DEF ReadCallback, HasCallbacks, TypeOK
  <2>2. ~ id[cb].processed => id[cb].my_fd
    BY <1>1, <2>1 DEF Waiting, Made, Live
  <2> QED BY <1>1, <1>3, <2>1, <2>2 DEF Waiting, TypeOK, Live, Made
<1> QED BY <1>4, <1>5, <1>6

\* A step that changes only the object o, into i, and neither queue nor threads,
\* and that may take the callbacks away.
LEMMA WatchOne ==
  ASSUME WatchInv, NEW o \in Objects, NEW i \in IdType,
         id' = [id EXCEPT ![o] = i],
         UNCHANGED <<sent, net, client, queue, threads, taken, answered, raced>>,
         open' \in BOOLEAN,
         i.processed = id[o].processed, i.raw = id[o].raw, i.hold = id[o].hold,
         i.pipe => id[o].pipe, i.state = "none" <=> id[o].state = "none",
         ~ i.processed /\ i.my_fd => i.state = "live" /\ i.timeouts > 0,
         ~ i.processed /\ i.state = "live" /\ ~ i.hold => i.my_fd,
         ~ i.processed /\ i.state # "none" /\ open' => i.my_fd,
         cb' \in {0, cb}, cb' # 0 => open', open' => open
  PROVE  WatchInv'
<1> USE DEF WatchInv
<1>1. TypeOK'
  BY DEF TypeOK
<1>2. Holding'
  <2>1. \A k \in DOMAIN queue' : id'[queue'[k]].processed
    <3>1. \A k \in DOMAIN queue : id[queue[k]].processed /\ queue[k] \in Objects
      BY DEF Holding, TypeOK
    <3> QED BY <3>1 DEF TypeOK
  <2>2. \A p \in Objects : id'[p].pipe => id'[p].processed
    BY DEF Holding, TypeOK
  <2>3. \A t \in Threads : ~ At(t, "idle")' => id'[threads[t].obj].processed
    BY DEF Holding, TypeOK, At
  <2>4. \A p \in Objects : id'[p].processed => Complete(id'[p].raw)
    BY DEF Holding, TypeOK
  <2> QED BY <2>1, <2>2, <2>3, <2>4 DEF Holding, TypeOK, At, Chains, Made
<1>3. Waiting'
  BY DEF Waiting, TypeOK, Live, Made
<1> QED BY <1>1, <1>2, <1>3

\* close_callback(): the object is gone and the descriptor with it.
LEMMA WatchClose == WatchInv /\ CloseCallback => WatchInv'
<1> SUFFICES ASSUME WatchInv, CloseCallback PROVE WatchInv'
  OBVIOUS
<1>1. /\ cb # 0 /\ cb \in Objects /\ id \in [Objects -> IdType]
      /\ open /\ Live(cb) /\ open \in BOOLEAN
  BY DEF CloseCallback, HasCallbacks, TypeOK, WatchInv
<1>2. PICK o \in Objects : o = cb
  BY <1>1
<1>3. /\ Made(o) /\ id[o] \in IdType /\ id[o].state = "live"
      /\ ~ id[o].processed => id[o].my_fd
  BY <1>1, <1>2 DEF WatchInv, Waiting, Made, Live
<1>4. PICK i \in IdType : i = Ended(id[o])
  BY <1>3, EndedType
<1>5. /\ i.pipe = FALSE /\ i.my_fd = FALSE
      /\ i.state = (IF id[o].hold THEN id[o].state ELSE "dead")
      /\ i.hold = id[o].hold /\ i.processed = id[o].processed /\ i.raw = id[o].raw
  BY <1>3, <1>4, EndedType
<1>6. /\ id' = [id EXCEPT ![o] = i]
      /\ open' = (open /\ ~ id[o].my_fd) /\ cb' = (IF id[o].my_fd THEN 0 ELSE cb)
      /\ UNCHANGED <<sent, net, client, queue, threads, taken, answered, raced>>
  BY <1>2, <1>3, <1>4 DEF CloseCallback, End, Closes, clientVars
<1>7. /\ i.state = "none" <=> id[o].state = "none"
      /\ cb' \in {0, cb} /\ (cb' # 0 => open') /\ open' \in BOOLEAN /\ (open' => open)
      /\ ~ i.processed /\ i.state = "live" /\ ~ i.hold => i.my_fd
      /\ ~ i.processed /\ open' => i.my_fd
  BY <1>1, <1>2, <1>3, <1>5, <1>6 DEF Made
<1> QED BY <1>3, <1>5, <1>6, <1>7, WatchOne

\* A timeout that expires does not take the last one from an object that waits:
\* it is then due.
LEMMA WatchTime ==
  ASSUME WatchInv, NEW o \in Objects, TimePasses(o) PROVE WatchInv'
<1>1. /\ id \in [Objects -> IdType] /\ cb \in Objects \cup {0} /\ open \in BOOLEAN
      /\ id[o] \in IdType
  BY DEF TypeOK, WatchInv
<1>2. [id[o] EXCEPT !.late = TRUE] \in IdType
  BY <1>1 DEF IdType
<1>3. PICK i \in IdType : i = [id[o] EXCEPT !.late = TRUE]
  BY <1>2
<1>4. /\ i.pipe = id[o].pipe /\ i.my_fd = id[o].my_fd
      /\ i.state = id[o].state /\ i.timeouts = id[o].timeouts
      /\ i.hold = id[o].hold /\ i.processed = id[o].processed /\ i.raw = id[o].raw
  BY <1>1, <1>3 DEF IdType
<1>5. /\ id' = [id EXCEPT ![o] = i]
      /\ UNCHANGED <<sent, net, client, open, cb, queue, threads, taken, answered, raced>>
  BY <1>3 DEF TimePasses, clientVars
<1>6. Live(o)
  BY DEF TimePasses
<1>7. /\ ~ i.processed /\ i.my_fd => i.state = "live" /\ i.timeouts > 0
      /\ ~ i.processed /\ i.state = "live" /\ ~ i.hold => i.my_fd
      /\ cb' # 0 => open'
      /\ ~ i.processed /\ i.state # "none" /\ open' => i.my_fd
      /\ open' => open
      /\ open' \in BOOLEAN /\ cb' \in {0, cb}
  BY <1>1, <1>4, <1>5, <1>6 DEF WatchInv, Waiting, Made, Live, Objects
<1> QED BY <1>4, <1>5, <1>7, WatchOne

\* do_timeout() ends the object that waited.
LEMMA WatchTimeout ==
  ASSUME WatchInv, NEW o \in Objects, DoTimeout(o) PROVE WatchInv'
<1>1. /\ id \in [Objects -> IdType] /\ cb \in Objects \cup {0} /\ open \in BOOLEAN
      /\ id[o] \in IdType
  BY DEF TypeOK, WatchInv
<1>2. PICK e \in IdType : e = Ended(id[o])
  BY <1>1, EndedType
<1>3. /\ e.pipe = FALSE /\ e.my_fd = FALSE
      /\ e.state = (IF id[o].hold THEN id[o].state ELSE "dead")
      /\ e.hold = id[o].hold /\ e.processed = id[o].processed /\ e.raw = id[o].raw
      /\ e.timeouts = id[o].timeouts
  BY <1>1, <1>2, EndedType
<1>4. e.timeouts - 1 \in Nat /\ Live(o)
  BY <1>1, <1>3 DEF DoTimeout, IdType
<1>5. [e EXCEPT !.timeouts = @ - 1] \in IdType
  BY <1>4 DEF IdType
<1>6. PICK i \in IdType : i = [e EXCEPT !.timeouts = @ - 1]
  BY <1>5
<1>7. /\ i.pipe = FALSE /\ i.my_fd = FALSE
      /\ i.state = e.state /\ i.hold = e.hold /\ i.processed = e.processed /\ i.raw = e.raw
  BY <1>3, <1>6 DEF IdType
<1>8. /\ id' = [id EXCEPT ![o] = i]
      /\ open' = (open /\ ~ id[o].my_fd) /\ cb' = (IF id[o].my_fd THEN 0 ELSE cb)
      /\ UNCHANGED <<sent, net, client, queue, threads, taken, answered, raced>>
  <2>1. id' = [id EXCEPT ![o] = [Ended(id[o]) EXCEPT !.timeouts = id[o].timeouts - 1]]
    BY DEF DoTimeout
  <2>2. /\ open' = (open /\ ~ id[o].my_fd) /\ cb' = (IF id[o].my_fd THEN 0 ELSE cb)
        /\ UNCHANGED <<sent, net, client, queue, threads, taken, answered, raced>>
    BY DEF DoTimeout, Closes, clientVars
  <2> QED BY <1>2, <1>3, <1>6, <2>1, <2>2
<1>9. /\ ~ i.processed /\ i.state = "live" /\ ~ i.hold => i.my_fd
      /\ i.state = "none" <=> id[o].state = "none"
      /\ cb' # 0 => open'
      /\ ~ i.processed /\ i.state # "none" /\ open' => i.my_fd
      /\ open' => open
      /\ open' \in BOOLEAN /\ cb' \in {0, cb}
  BY <1>1, <1>3, <1>4, <1>7, <1>8 DEF WatchInv, Waiting, Made, Live, Objects
<1> QED BY <1>3, <1>7, <1>8, <1>9, WatchOne

\* The pipe's own timeout is for an object whose request was taken.
LEMMA WatchPipeTimeout ==
  ASSUME WatchInv, NEW o \in Objects, PipeTimeout(o) PROVE WatchInv'
<1>1. /\ id \in [Objects -> IdType] /\ cb \in Objects \cup {0} /\ open \in BOOLEAN
      /\ id[o] \in IdType /\ Live(o) /\ id[o].processed
  BY DEF TypeOK, WatchInv, Holding, PipeTimeout
<1>2. PICK i \in IdType : i = Ended(id[o])
  BY <1>1, EndedType
<1>3. /\ i.pipe = FALSE /\ i.my_fd = FALSE
      /\ i.state = (IF id[o].hold THEN id[o].state ELSE "dead")
      /\ i.hold = id[o].hold /\ i.processed = id[o].processed /\ i.raw = id[o].raw
  BY <1>1, <1>2, EndedType
<1>4. /\ id' = [id EXCEPT ![o] = i]
      /\ open' = (open /\ ~ id[o].my_fd) /\ cb' = (IF id[o].my_fd THEN 0 ELSE cb)
      /\ UNCHANGED <<sent, net, client, queue, threads, taken, answered, raced>>
  BY <1>2 DEF PipeTimeout, End, Closes, clientVars
<1>5. /\ i.state = "none" <=> id[o].state = "none"
      /\ cb' # 0 => open'
      /\ open' => open
      /\ open' \in BOOLEAN /\ cb' \in {0, cb}
  BY <1>1, <1>3, <1>4 DEF WatchInv, Waiting, Live, Objects
<1> QED BY <1>1, <1>3, <1>4, <1>5, WatchOne

\* What a thread is doing, on which object, and which object comes next.
ThreadType ==
  [at : {"idle", "handling", "ending", "chaining", "chained", "rearming"},
   obj : Objects \cup {0}, next : Objects \cup {0}]

\* A step of the thread t that neither begins nor ends to chain, changes only
\* the object o, and may take the callbacks away.
LEMMA WatchTurn ==
  ASSUME WatchInv, NEW t \in Threads, NEW w \in ThreadType,
         threads' = [threads EXCEPT ![t] = w], ~ At(t, "chained"),
         w.at \in {"idle", "handling", "ending"},
         w.at # "idle" => w.obj \in Objects /\ id[w.obj].processed,
         NEW o \in Objects, NEW i \in IdType, id' = [id EXCEPT ![o] = i],
         UNCHANGED <<sent, net, client, taken, raced>>,
         open' \in BOOLEAN, answered' \in Seq(Seq(Bytes)), queue' \in Seq(Objects),
         \A k \in DOMAIN queue' : id[queue'[k]].processed,
         i.processed = id[o].processed, i.raw = id[o].raw, i.hold = id[o].hold,
         i.pipe => i.processed, i.state = "none" <=> id[o].state = "none",
         ~ i.processed /\ i.my_fd => i.state = "live" /\ i.timeouts > 0,
         ~ i.processed /\ i.state = "live" /\ ~ i.hold => i.my_fd,
         ~ i.processed /\ i.state # "none" /\ open' => i.my_fd,
         cb' \in {0, cb}, cb' # 0 => open', open' => open
  PROVE  WatchInv'
<1> USE DEF WatchInv
<1>1. TypeOK'
  BY DEF TypeOK, ThreadType
<1>2. Holding'
  <2>1. \A k \in DOMAIN queue' : id'[queue'[k]].processed
    <3>1. \A k \in DOMAIN queue' : id[queue'[k]].processed /\ queue'[k] \in Objects
      OBVIOUS
    <3> QED BY <3>1 DEF TypeOK
  <2>2. \A p \in Objects : id'[p].pipe => id'[p].processed
    BY DEF Holding, TypeOK
  <2>3. \A u \in Threads : ~ At(u, "idle")' =>
          threads'[u].obj \in Objects /\ id'[threads'[u].obj].processed
    BY DEF Holding, TypeOK, At
  <2>4. \A u \in Threads : Chains(u)' => Chains(u) /\ threads'[u] = threads[u]
    BY DEF TypeOK, Chains
  <2>5. \A u \in Threads : At(u, "chained") => At(u, "chained")' /\ threads'[u] = threads[u]
    BY DEF TypeOK, At
  <2>6. /\ \A u \in Threads : Chains(u)' =>
             /\ threads'[u].next \in Objects /\ Made(threads[u].next)'
             /\ threads'[u].next # threads'[u].obj
        /\ \A u, v \in Threads :
             Chains(u)' /\ Chains(v)' /\ threads'[u].next = threads'[v].next => u = v
    <3>1. \A p \in Objects : id[p].state # "none" => id'[p].state # "none"
      BY DEF TypeOK
    <3> QED BY <2>4, <3>1 DEF Holding, Made
  <2>7. \A p \in Objects : id'[p].hold =>
          \E u \in Threads : At(u, "chained")' /\ threads'[u].next = p
    <3>1. \A p \in Objects : id'[p].hold => id[p].hold
      BY DEF TypeOK
    <3> QED BY <2>5, <3>1 DEF Holding
  <2>8. \A p \in Objects : id'[p].processed => Complete(id'[p].raw)
    BY DEF Holding, TypeOK
  <2> QED BY <2>1, <2>2, <2>3, <2>6, <2>7, <2>8 DEF Holding
<1>3. Waiting'
  BY DEF Waiting, TypeOK, Live, Made
<1> QED BY <1>1, <1>2, <1>3

\* Without a change to an object or to who has the callbacks.
LEMMA WatchTurnOnly ==
  ASSUME WatchInv, NEW t \in Threads, NEW w \in ThreadType,
         threads' = [threads EXCEPT ![t] = w], ~ At(t, "chained"),
         w.at \in {"idle", "handling", "ending"},
         w.at # "idle" => w.obj \in Objects /\ id[w.obj].processed,
         UNCHANGED <<sent, net, client, open, cb, id, queue, taken, raced>>,
         answered' \in Seq(Seq(Bytes))
  PROVE  WatchInv'
<1>1. /\ id \in [Objects -> IdType] /\ cb \in Objects \cup {0} /\ open \in BOOLEAN
      /\ queue \in Seq(Objects) /\ \A k \in DOMAIN queue : id[queue[k]].processed
  BY DEF TypeOK, WatchInv, Holding
<1>2. 1 \in Objects
  BY HTTPAssumption DEF Objects
<1>3. PICK i \in IdType : i = id[1]
  BY <1>1, <1>2
<1>4. id' = [id EXCEPT ![1] = i]
  BY <1>1, <1>2, <1>3
<1>5. /\ i.pipe => i.processed
      /\ ~ i.processed /\ i.my_fd => i.state = "live" /\ i.timeouts > 0
      /\ ~ i.processed /\ i.state = "live" /\ ~ i.hold => i.my_fd
      /\ cb' # 0 => open'
      /\ ~ i.processed /\ i.state # "none" /\ open' => i.my_fd
      /\ open' => open
  BY <1>1, <1>2, <1>3 DEF WatchInv, Holding, Waiting, Made, Live
<1> QED BY <1>1, <1>2, <1>3, <1>4, <1>5, WatchTurn, ZenonT(40)

\* The requests answered are bytes of the client.
LEMMA SentType ==
  ASSUME WatchInv, NEW o \in Objects, Sent(o), id[o].processed
  PROVE  answered' \in Seq(Seq(Bytes))
<1>1. id[o].raw \in Seq(Bytes)
  BY DEF WatchInv, TypeOK, IdType
<1>2. Request(id[o].raw) \in Seq(Bytes)
  BY <1>1, LastOfFirst DEF WatchInv, Holding
<1> QED BY <1>2, AppendIs DEF WatchInv, TypeOK, Sent

\* A pipe that is done frees the backend to end an object already processed.
LEMMA WatchPipeDone ==
  ASSUME WatchInv, NEW o \in Objects, PipeDone(o) PROVE WatchInv'
<1>1. id[o].processed /\ "backend" \in Threads /\ ~ At("backend", "chained")
  BY DEF WatchInv, Holding, PipeDone, Threads, BackendFree, At
<1>2. PICK w \in ThreadType : w = [at |-> "ending", obj |-> o, next |-> 0]
  BY DEF ThreadType
<1>3. /\ threads' = [threads EXCEPT !["backend"] = w]
      /\ UNCHANGED <<sent, net, client, open, cb, id, queue, taken, raced>>
  BY <1>2 DEF PipeDone, Goes, clientVars
<1>4. answered' \in Seq(Seq(Bytes))
  BY <1>1, SentType DEF PipeDone
<1>5. w.at = "ending" /\ w.obj = o
  BY <1>2
<1> QED BY <1>1, <1>3, <1>4, <1>5, WatchTurnOnly

\* The answer is sent by the thread itself; it then ends the object.
LEMMA WatchSendNow ==
  ASSUME WatchInv, NEW t \in Threads, SendNow(t) PROVE WatchInv'
<1>1. /\ ~ At(t, "chained") /\ threads[t].obj \in Objects
      /\ id[threads[t].obj].processed
  BY DEF WatchInv, Holding, SendNow, At
<1>2. PICK o \in Objects : o = threads[t].obj
  BY <1>1
<1>3. PICK w \in ThreadType : w = [at |-> "ending", obj |-> o, next |-> 0]
  BY DEF ThreadType
<1>4. /\ threads' = [threads EXCEPT ![t] = w]
      /\ UNCHANGED <<sent, net, client, open, cb, id, queue, taken, raced>>
  BY <1>2, <1>3 DEF SendNow, Goes, clientVars
<1>5. answered' \in Seq(Seq(Bytes))
  BY <1>1, <1>2, SentType DEF SendNow
<1>6. w.at = "ending" /\ w.obj = o
  BY <1>3
<1> QED BY <1>1, <1>2, <1>4, <1>5, <1>6, WatchTurnOnly

\* An idle thread is typed.
LEMMA IdleType == Idle \in ThreadType /\ Idle.at = "idle"
BY DEF Idle, ThreadType

\* A thread whose handler fails leaves everything else as it is.
LEMMA WatchFails ==
  ASSUME WatchInv, NEW t \in Threads, Fails(t) PROVE WatchInv'
<1>1. /\ threads' = [threads EXCEPT ![t] = Idle] /\ ~ At(t, "chained")
      /\ UNCHANGED <<sent, net, client, open, cb, id, queue, taken, answered, raced>>
  BY DEF Fails, Rests, clientVars, At
<1>2. answered' \in Seq(Seq(Bytes))
  BY <1>1 DEF WatchInv, TypeOK
<1> QED BY <1>1, <1>2, IdleType, WatchTurnOnly

\* The thread gives the answer to a pipe, which the object keeps, and rests.
LEMMA WatchSendAsync ==
  ASSUME WatchInv, NEW t \in Threads, SendAsync(t) PROVE WatchInv'
<1>1. /\ ~ At(t, "chained") /\ threads[t].obj \in Objects
      /\ id[threads[t].obj].processed
  BY DEF WatchInv, Holding, SendAsync, At
<1>2. PICK o \in Objects : o = threads[t].obj
  BY <1>1
<1>3. /\ id \in [Objects -> IdType] /\ id[o] \in IdType /\ id[o].processed
      /\ cb \in Objects \cup {0} /\ open \in BOOLEAN /\ answered \in Seq(Seq(Bytes))
      /\ queue \in Seq(Objects) /\ \A k \in DOMAIN queue : id[queue[k]].processed
  BY <1>1, <1>2 DEF WatchInv, TypeOK, Holding
<1>4. [id[o] EXCEPT !.pipe = TRUE] \in IdType
  BY <1>3 DEF IdType
<1>5. PICK i \in IdType : i = [id[o] EXCEPT !.pipe = TRUE]
  BY <1>4
<1>6. /\ i.processed = id[o].processed /\ i.raw = id[o].raw /\ i.hold = id[o].hold
      /\ i.state = id[o].state /\ i.my_fd = id[o].my_fd
  BY <1>3, <1>5 DEF IdType
<1>7. /\ threads' = [threads EXCEPT ![t] = Idle] /\ id' = [id EXCEPT ![o] = i]
      /\ UNCHANGED <<sent, net, client, open, cb, queue, taken, answered, raced>>
  BY <1>2, <1>5 DEF SendAsync, Rests, clientVars
<1>8. (cb' # 0 => open') /\ (open' => open)
  BY <1>3, <1>7 DEF WatchInv, Waiting
<1>9. /\ UNCHANGED <<sent, net, client, taken, raced>> /\ cb' \in {0, cb}
      /\ open' \in BOOLEAN /\ answered' \in Seq(Seq(Bytes)) /\ queue' \in Seq(Objects)
      /\ \A k \in DOMAIN queue' : id[queue'[k]].processed
  BY <1>3, <1>7, <1>8 DEF Objects
<1> QED BY <1>1, <1>3, <1>6, <1>7, <1>8, <1>9, IdleType, WatchTurn

\* end() without keep-alive closes the descriptor of a processed object.
LEMMA WatchEndClose ==
  ASSUME WatchInv, NEW t \in Threads, EndClose(t) PROVE WatchInv'
<1>1. /\ ~ At(t, "chained") /\ threads[t].obj \in Objects
      /\ id[threads[t].obj].processed
  BY DEF WatchInv, Holding, EndClose, At
<1>2. PICK o \in Objects : o = threads[t].obj
  BY <1>1
<1>3. /\ id \in [Objects -> IdType] /\ id[o] \in IdType /\ id[o].processed /\ Live(o)
      /\ cb \in Objects \cup {0} /\ open \in BOOLEAN /\ answered \in Seq(Seq(Bytes))
      /\ queue \in Seq(Objects) /\ \A k \in DOMAIN queue : id[queue[k]].processed
  BY <1>1, <1>2 DEF WatchInv, TypeOK, Holding, EndClose
<1>4. PICK i \in IdType : i = Ended(id[o])
  BY <1>3, EndedType
<1>5. /\ i.pipe = FALSE /\ i.my_fd = FALSE
      /\ i.state = (IF id[o].hold THEN id[o].state ELSE "dead")
      /\ i.hold = id[o].hold /\ i.processed = id[o].processed /\ i.raw = id[o].raw
  BY <1>3, <1>4, EndedType
<1>6. /\ id' = [id EXCEPT ![o] = i] /\ threads' = [threads EXCEPT ![t] = Idle]
      /\ open' = (open /\ ~ id[o].my_fd) /\ cb' = (IF id[o].my_fd THEN 0 ELSE cb)
      /\ UNCHANGED <<sent, net, client, queue, taken, answered, raced>>
  BY <1>2, <1>4 DEF EndClose, End, Closes, Rests, clientVars
<1>7. /\ i.state = "none" <=> id[o].state = "none"
      /\ cb' # 0 => open'
      /\ (open' => open) /\ open' \in BOOLEAN /\ cb' \in {0, cb}
  BY <1>3, <1>5, <1>6 DEF WatchInv, Waiting, Live, Objects
<1>8. /\ UNCHANGED <<sent, net, client, taken, raced>>
      /\ answered' \in Seq(Seq(Bytes)) /\ queue' \in Seq(Objects)
      /\ \A k \in DOMAIN queue' : id[queue'[k]].processed
  BY <1>3, <1>6
<1> QED BY <1>1, <1>3, <1>5, <1>6, <1>7, <1>8, IdleType, WatchTurn

\* A thread takes the first of the queue.
LEMMA WatchHandle ==
  ASSUME WatchInv, NEW t \in Threads, Handle(t) PROVE WatchInv'
<1>1. /\ id \in [Objects -> IdType] /\ queue \in Seq(Objects) /\ queue # <<>>
      /\ \A k \in DOMAIN queue : id[queue[k]].processed
      /\ cb \in Objects \cup {0} /\ open \in BOOLEAN /\ answered \in Seq(Seq(Bytes))
      /\ threads \in [Threads -> ThreadType]
  BY DEF Handle, WatchInv, TypeOK, Holding, ThreadType
<1>2. /\ queue' = Tail(queue) /\ UNCHANGED <<sent, net, client, open, cb, taken, answered, raced>>
      /\ At(t, "idle")
  BY DEF Handle, clientVars
<1>3. /\ Head(queue) \in Objects /\ id[Head(queue)].processed
      /\ queue' \in Seq(Objects) /\ \A k \in DOMAIN queue' : id[queue'[k]].processed
  <2>1. 1 \in DOMAIN queue
    BY <1>1, TailIs
  <2>2. \A k \in DOMAIN queue' : k + 1 \in DOMAIN queue /\ queue'[k] = queue[k + 1]
    BY <1>1, <1>2, TailIs
  <2> QED BY <1>1, <1>2, <2>1, <2>2, TailIs
<1>4. PICK o \in Objects : o = Head(queue) /\ id[o] \in IdType /\ id[o].processed
  BY <1>1, <1>3
<1>5. \E i \in IdType, w \in ThreadType :
        /\ id' = [id EXCEPT ![o] = i] /\ threads' = [threads EXCEPT ![t] = w]
        /\ i.pipe = id[o].pipe
        /\ i.processed = id[o].processed /\ i.raw = id[o].raw /\ i.hold = id[o].hold
        /\ i.state = id[o].state /\ i.my_fd = id[o].my_fd
        /\ w.at \in {"idle", "handling"} /\ (w.at # "idle" => w.obj = o)
  <2>1. CASE Live(o)
    <3> DEFINE k == IF id[o].timeouts = 0 THEN 0 ELSE id[o].timeouts - 1
               i == [id[o] EXCEPT !.timeouts = k]
               w == [at |-> "handling", obj |-> o, next |-> 0]
    <3>1. k \in Nat
      BY <1>4 DEF IdType
    <3>2. id' = [id EXCEPT ![o] = i] /\ threads' = [threads EXCEPT ![t] = w]
      BY <1>4, <2>1 DEF Handle, Goes
    <3> HIDE DEF k
    <3>3. /\ i \in IdType /\ i.pipe = id[o].pipe
          /\ i.processed = id[o].processed /\ i.raw = id[o].raw /\ i.hold = id[o].hold
          /\ i.state = id[o].state /\ i.my_fd = id[o].my_fd
      BY <1>4, <3>1 DEF IdType
    <3>4. w \in ThreadType
      BY DEF ThreadType
    <3>5. w.at = "handling" /\ w.obj = o
      OBVIOUS
    <3> HIDE DEF i, w
    <3> QED BY <3>2, <3>3, <3>4, <3>5
  <2>2. CASE ~ Live(o)
    <3>1. UNCHANGED <<id, threads>>
      BY <1>4, <2>2 DEF Handle
    <3>2. threads[t] \in ThreadType /\ threads[t].at = "idle"
      BY <1>1, <1>2 DEF At
    <3>3. id' = [id EXCEPT ![o] = id[o]] /\ threads' = [threads EXCEPT ![t] = threads[t]]
      BY <1>1, <3>1
    <3> DEFINE i == id[o]  w == threads[t]
    <3>4. /\ i \in IdType /\ w \in ThreadType /\ w.at = "idle"
          /\ id' = [id EXCEPT ![o] = i] /\ threads' = [threads EXCEPT ![t] = w]
      BY <1>4, <3>2, <3>3
    <3>5. /\ i.pipe = id[o].pipe
          /\ i.processed = id[o].processed /\ i.raw = id[o].raw /\ i.hold = id[o].hold
          /\ i.state = id[o].state /\ i.my_fd = id[o].my_fd
      OBVIOUS
    <3> HIDE DEF i, w
    <3> QED BY <3>4, <3>5
  <2> QED BY <2>1, <2>2
<1>6. PICK i \in IdType, w \in ThreadType :
        /\ id' = [id EXCEPT ![o] = i] /\ threads' = [threads EXCEPT ![t] = w]
        /\ i.pipe = id[o].pipe
        /\ i.processed = id[o].processed /\ i.raw = id[o].raw /\ i.hold = id[o].hold
        /\ i.state = id[o].state /\ i.my_fd = id[o].my_fd
        /\ w.at \in {"idle", "handling"} /\ (w.at # "idle" => w.obj = o)
  BY <1>5
<1>7. /\ ~ At(t, "chained") /\ cb' \in {0, cb} /\ (open' => open)
      /\ cb' # 0 => open'
      /\ i.processed /\ w.at \in {"idle", "handling", "ending"}
      /\ open' \in BOOLEAN /\ answered' \in Seq(Seq(Bytes))
      /\ UNCHANGED <<sent, net, client, taken, raced>>
  BY <1>1, <1>2, <1>4, <1>6 DEF WatchInv, Waiting, At, Objects
<1> QED BY <1>3, <1>4, <1>6, <1>7, WatchTurn

\* A new object waits for its request.
LEMMA CreatedType ==
  /\ Created \in IdType /\ Created.state = "live" /\ Created.my_fd = TRUE
  /\ Created.raw = <<>> /\ Created.leftovers = <<>> /\ Created.timeouts = 1
  /\ Created.hold = FALSE /\ Created.processed = FALSE /\ Created.pipe = FALSE
<1>1. <<>> \in Seq(Bytes)
  OBVIOUS
<1>2. /\ NewId \in IdType /\ NewId.raw = <<>> /\ NewId.leftovers = <<>>
      /\ NewId.hold = FALSE /\ NewId.processed = FALSE /\ NewId.pipe = FALSE
  BY <1>1 DEF NewId, IdType
<1>3. Created = [NewId EXCEPT !.state = "live", !.my_fd = TRUE, !.timeouts = 1]
  BY DEF Created
<1> QED BY <1>2, <1>3 DEF IdType

\* end() of a connection that is kept: the new object n, and the old one o.
Kept(t, o, n) ==
  /\ o \in Objects /\ n \in Objects /\ o # n /\ threads[t].obj = o
  /\ At(t, "ending") /\ Live(o) /\ id[o].my_fd /\ id[n] = NewId
  /\ \A m \in 1 .. n - 1 : id[m] # NewId
  /\ id' = [id EXCEPT ![n] = Created, ![o] = [id[o] EXCEPT !.pipe = FALSE]]
  /\ cb' = (IF open THEN n ELSE 0)
  /\ threads' = [threads EXCEPT ![t] = [at |-> "chaining", obj |-> o, next |-> n]]
  /\ UNCHANGED <<sent, net, client, open, queue, taken, answered, raced>>

\* An EndKeep step is a Kept step.
LEMMA EndKeepDoes ==
  ASSUME WatchInv, NEW t \in Threads, EndKeep(t)
  PROVE  \E o, n \in Objects : Kept(t, o, n)
<1>1. threads[t].obj \in Objects
  BY DEF WatchInv, Holding, EndKeep, At
<1>2. PICK o \in Objects : o = threads[t].obj
  BY <1>1
<1>3. PICK n \in Objects :
        /\ id[n] = NewId /\ \A m \in 1 .. n - 1 : id[m] # NewId
        /\ id' = [id EXCEPT ![n] = Created, ![o].pipe = FALSE]
        /\ cb' = (IF open THEN n ELSE 0)
        /\ threads' = [threads EXCEPT ![t] = [at |-> "chaining", obj |-> o, next |-> n]]
  BY <1>2 DEF EndKeep, Goes
<1>4. o # n
  BY <1>2, <1>3 DEF EndKeep, Live, NewId
<1>5. id' = [id EXCEPT ![n] = Created, ![o] = [id[o] EXCEPT !.pipe = FALSE]]
  BY <1>3, <1>4 DEF WatchInv, TypeOK
<1>6. Kept(t, o, n)
  BY <1>2, <1>3, <1>4, <1>5 DEF Kept, EndKeep, clientVars
<1> QED BY <1>6

\* end() with keep-alive: the new object is watched, for a timeout or by its thread.
LEMMA WatchEndKeep ==
  ASSUME WatchInv, NEW t \in Threads, EndKeep(t) PROVE WatchInv'
<1>1. PICK o \in Objects, n \in Objects : Kept(t, o, n)
  BY EndKeepDoes
<1>2. /\ id[o] \in IdType /\ id[o].processed /\ id[n] = NewId /\ o # n /\ id[o].state = "live"
      /\ id \in [Objects -> IdType] /\ threads \in [Threads -> ThreadType]
  BY <1>1 DEF WatchInv, TypeOK, Holding, Kept, At, Live, ThreadType
<1>3. PICK i \in IdType : i = [id[o] EXCEPT !.pipe = FALSE]
  <2>1. [id[o] EXCEPT !.pipe = FALSE] \in IdType
    BY <1>2 DEF IdType
  <2> QED BY <2>1
<1>4. /\ i.pipe = FALSE /\ i.processed /\ i.raw = id[o].raw
      /\ i.hold = id[o].hold /\ i.state = id[o].state
  BY <1>2, <1>3 DEF IdType
<1>5. PICK w \in ThreadType : w = [at |-> "chaining", obj |-> o, next |-> n]
  BY DEF ThreadType
<1>6. w.at = "chaining" /\ w.obj = o /\ w.next = n
  BY <1>5
<1>7. PICK c \in IdType : c = Created
  BY CreatedType
<1>8. /\ c.state = "live" /\ c.my_fd = TRUE /\ c.timeouts = 1
      /\ c.hold = FALSE /\ c.processed = FALSE /\ c.pipe = FALSE
  BY <1>7, CreatedType
<1>9. /\ id' = [id EXCEPT ![n] = c, ![o] = i] /\ cb' = (IF open THEN n ELSE 0)
      /\ threads' = [threads EXCEPT ![t] = w]
      /\ UNCHANGED <<sent, net, client, open, queue, taken, answered, raced>>
  BY <1>1, <1>3, <1>5, <1>7 DEF Kept
<1>10. /\ \A p \in Objects : p # n /\ p # o => id'[p] = id[p]
       /\ id'[n] = c /\ id'[o] = i
       /\ \A u \in Threads : u # t => threads'[u] = threads[u]
       /\ threads'[t] = w /\ ~ Made(n)
  BY <1>2, <1>9 DEF Made, NewId
<1>11. TypeOK'
  BY <1>2, <1>9 DEF WatchInv, TypeOK, ThreadType
<1>12. Holding'
  <2>1. \A k \in DOMAIN queue' : id'[queue'[k]].processed
    <3>1. \A k \in DOMAIN queue : id[queue[k]].processed /\ queue[k] \in Objects
      BY DEF WatchInv, Holding, TypeOK
    <3>2. id[n].processed = FALSE
      BY <1>2 DEF NewId
    <3>3. queue' = queue /\ \A p \in Objects : id[p].processed => id'[p].processed
      BY <1>4, <1>9, <1>10, <3>2
    <3> QED BY <3>1, <3>3
  <2>2. \A p \in Objects : id'[p].pipe => id'[p].processed
    BY <1>4, <1>8, <1>10 DEF WatchInv, Holding
  <2>3. \A p \in Objects : id'[p].processed => Complete(id'[p].raw)
    BY <1>2, <1>4, <1>8, <1>10 DEF WatchInv, Holding
  <2>4. \A u \in Threads : ~ At(u, "idle")' =>
          threads'[u].obj \in Objects /\ id'[threads'[u].obj].processed
    <3>1. id[n].processed = FALSE
      BY <1>2 DEF NewId
    <3> QED BY <1>4, <1>6, <1>10, <3>1 DEF WatchInv, Holding, At
  <2>5. \A p \in Objects : Made(p) => Made(p)'
    BY <1>2, <1>4, <1>8, <1>10 DEF Made
  <2>6. /\ \A u \in Threads : Chains(u)' =>
             /\ threads'[u].next \in Objects /\ Made(threads[u].next)'
             /\ threads'[u].next # threads'[u].obj
        /\ \A u, v \in Threads :
             Chains(u)' /\ Chains(v)' /\ threads'[u].next = threads'[v].next => u = v
    <3>1. \A u \in Threads : u # t /\ Chains(u)' =>
            /\ Chains(u) /\ threads'[u] = threads[u] /\ threads[u].next \in Objects
            /\ Made(threads[u].next) /\ threads[u].next # n
            /\ threads[u].next # threads[u].obj
      BY <1>10 DEF WatchInv, Holding, Chains
    <3>2. \A p \in Objects : id[p].state # "none" => id'[p].state # "none"
      BY <2>5 DEF Made
    <3>3. id'[n].state # "none"
      BY <1>8, <1>10
    <3> QED BY <1>2, <1>6, <1>10, <3>1, <3>2, <3>3 DEF WatchInv, Holding, Made
  <2>7. \A p \in Objects : id'[p].hold =>
          \E u \in Threads : At(u, "chained")' /\ threads'[u].next = p
    <3>1. \A p \in Objects : id'[p].hold => id[p].hold
      BY <1>4, <1>8, <1>10
    <3>2. ~ At(t, "chained")
      BY <1>1 DEF Kept, At
    <3>3. \A u \in Threads : At(u, "chained") => threads'[u] = threads[u]
      BY <1>10, <3>2
    <3> QED BY <3>1, <3>3 DEF WatchInv, Holding, At
  <2> QED BY <2>1, <2>2, <2>3, <2>4, <2>6, <2>7 DEF Holding
<1>13. Waiting'
  <2>1. \A p \in Objects : ~ id'[p].processed =>
          /\ id'[p].my_fd => Live(p)' /\ id'[p].timeouts > 0
          /\ Made(p)' /\ (open' \/ (Live(p)' /\ ~ id'[p].hold)) => id'[p].my_fd
    <3>1. open' = open
      BY <1>9
    <3>2. ASSUME NEW p \in Objects, p # n, p # o, ~ id'[p].processed
          PROVE  /\ id'[p].my_fd => Live(p)' /\ id'[p].timeouts > 0
                 /\ Made(p)' /\ (open' \/ (Live(p)' /\ ~ id'[p].hold)) => id'[p].my_fd
      <4>1. id'[p] = id[p]
        BY <1>10, <3>2
      <4> QED BY <3>1, <3>2, <4>1 DEF WatchInv, Waiting, Made, Live
    <3>3. id'[n].my_fd /\ id'[n].state = "live" /\ id'[n].timeouts > 0 /\ id'[o].processed
      BY <1>4, <1>8, <1>10
    <3> QED BY <3>2, <3>3 DEF Live
  <2>2. cb' # 0 => open' /\ Made(cb)'
    BY <1>8, <1>9, <1>10 DEF Made
  <2> QED BY <2>1, <2>2 DEF Waiting
<1> QED BY <1>11, <1>12, <1>13 DEF WatchInv

\* chain() gives the connection of o, which becomes j, to n, which becomes i.
Handed(t, o, n, i, j) ==
  /\ threads[t].obj = o /\ threads[t].next = n /\ o # n
  /\ At(t, "chaining") /\ Live(o) /\ Live(n)
  /\ j = [id[o] EXCEPT !.my_fd = FALSE]
  /\ id' = [id EXCEPT ![o] = j, ![n] = i]
  /\ threads' = [threads EXCEPT ![t] = [at |-> "chained", obj |-> o, next |-> n]]
  /\ UNCHANGED <<sent, net, client, answered, raced>>
  /\ i.raw = id[n].raw \o id[o].leftovers /\ i.timeouts > 0 /\ i.hold = TRUE
  /\ i.state = "live"
\* Nothing to read, or not yet a request,
HandedPart(o, n, i) ==
  /\ id[o].leftovers = <<>> \/ ~ Complete(i.raw)
  /\ i.my_fd = TRUE /\ i.pipe = id[n].pipe
  /\ i.leftovers = id[n].leftovers /\ i.processed = id[n].processed
  /\ UNCHANGED <<open, cb, queue, taken>>
\* or a request,
HandedRequest(o, n, i) ==
  /\ id[o].leftovers # <<>> /\ Complete(i.raw) /\ WellFormed(Request(i.raw))
  /\ i.my_fd = TRUE /\ i.pipe = id[n].pipe
  /\ i.leftovers = SubSeq(i.raw, LastOf(i.raw) + 1, Len(i.raw)) /\ i.processed = TRUE
  /\ cb' = 0 /\ queue' = Append(queue, n) /\ UNCHANGED open
  /\ taken' = Append(taken, Request(i.raw))
\* or none.
HandedNone(o, n, i) ==
  /\ id[o].leftovers # <<>> /\ Complete(i.raw) /\ ~ WellFormed(Request(i.raw))
  /\ i.my_fd = FALSE /\ i.pipe = FALSE
  /\ i.leftovers = id[n].leftovers /\ i.processed = id[n].processed
  /\ open' = FALSE /\ cb' = 0 /\ UNCHANGED queue
  /\ taken' = Append(taken, Request(i.raw))

\* A Chain step is a Handed step of one of the three kinds.
LEMMA ChainDoes ==
  ASSUME WatchInv, NEW t \in Threads, Chain(t)
  PROVE  \E o, n \in Objects, i, j \in IdType :
           /\ Handed(t, o, n, i, j)
           /\ HandedPart(o, n, i) \/ HandedRequest(o, n, i) \/ HandedNone(o, n, i)
<1>1. /\ threads[t].obj \in Objects /\ threads[t].next \in Objects
      /\ threads[t].next # threads[t].obj
      /\ id \in [Objects -> IdType]
  BY DEF WatchInv, TypeOK, Holding, Chain, At, Chains
<1>2. PICK o \in Objects, n \in Objects : o = threads[t].obj /\ n = threads[t].next
  BY <1>1
<1>3. o # n /\ id[o] \in IdType /\ id[n] \in IdType
  BY <1>1, <1>2
<1>4. PICK j \in IdType : j = [id[o] EXCEPT !.my_fd = FALSE]
  <2>1. [id[o] EXCEPT !.my_fd = FALSE] \in IdType
    BY <1>3 DEF IdType
  <2> QED BY <2>1
<1>5. PICK h \in IdType : h = [id[n] EXCEPT !.my_fd = TRUE, !.hold = TRUE]
  <2>1. [id[n] EXCEPT !.my_fd = TRUE, !.hold = TRUE] \in IdType
    BY <1>3 DEF IdType
  <2> QED BY <2>1
<1>6. /\ h.my_fd = TRUE /\ h.hold = TRUE /\ h.state = id[n].state /\ h.raw = id[n].raw
      /\ h.leftovers = id[n].leftovers /\ h.processed = id[n].processed
      /\ h.pipe = id[n].pipe /\ h.timeouts = id[n].timeouts
  BY <1>3, <1>5 DEF IdType
<1> DEFINE given == [id EXCEPT ![o].my_fd = FALSE, ![n].my_fd = TRUE, ![n].hold = TRUE]
<1>7. PICK g \in [Objects -> IdType] :
        g = given /\ g[n] = h /\ g[o] = j /\ \A p \in Objects : p # n /\ p # o => g[p] = id[p]
  <2>1. given = [id EXCEPT ![o] = j, ![n] = h]
    BY <1>1, <1>3, <1>4, <1>5
  <2>2. [id EXCEPT ![o] = j, ![n] = h] \in [Objects -> IdType]
    BY <1>1, SMTT(30)
  <2> QED BY <1>1, <1>3, <2>1, <2>2
<1>8. /\ At(t, "chaining") /\ Live(o) /\ Live(n)
      /\ \/ id[o].leftovers # <<>> /\ GotData(g, n, id[o].leftovers)
         \/ /\ id[o].leftovers = <<>>
            /\ id' = [g EXCEPT ![n].timeouts = @ + 1, ![n].late = FALSE]
            /\ UNCHANGED <<open, cb, queue, taken>>
      /\ threads' = [threads EXCEPT ![t] = [at |-> "chained", obj |-> o, next |-> n]]
      /\ UNCHANGED <<sent, net, client, answered, raced>>
  BY <1>2, <1>7 DEF Chain, Goes, clientVars
<1> HIDE DEF given
<1>9. \A i \in IdType : id' = [g EXCEPT ![n] = i] => id' = [id EXCEPT ![o] = j, ![n] = i]
  BY <1>1, <1>3, <1>7
<1>10. CASE id[o].leftovers # <<>>
  <2>1. id[o].leftovers \in Seq(Bytes)
    BY <1>3 DEF IdType
  <2>2. PICK i \in IdType : Got(g, n, id[o].leftovers, i)
    BY <1>8, <1>10, <2>1, GotDataDoes
  <2>3. /\ id' = [g EXCEPT ![n] = i] /\ i.raw = id[n].raw \o id[o].leftovers
        /\ i.timeouts > 0 /\ i.hold = TRUE
    BY <1>6, <1>7, <2>2 DEF Got
  <2>4. i.state = "live"
    BY <1>6, <1>7, <1>8, <2>2 DEF Got, GotPart, GotRequest, GotNone, Live
  <2>5. Handed(t, o, n, i, j)
    BY <1>2, <1>3, <1>4, <1>8, <1>9, <2>3, <2>4 DEF Handed
  <2>6. HandedPart(o, n, i) \/ HandedRequest(o, n, i) \/ HandedNone(o, n, i)
    <3>1. CASE GotPart(g, n, i)
      BY <1>6, <1>7, <3>1 DEF GotPart, HandedPart
    <3>2. CASE GotRequest(g, n, i)
      BY <1>6, <1>7, <1>10, <3>2 DEF GotRequest, HandedRequest
    <3>3. CASE GotNone(g, n, i)
      BY <1>6, <1>7, <1>10, <3>3 DEF GotNone, HandedNone
    <3> QED BY <2>2, <3>1, <3>2, <3>3 DEF Got
  <2> QED BY <2>5, <2>6
<1>11. CASE id[o].leftovers = <<>>
  <2>1. PICK k \in Nat : k = h.timeouts + 1 /\ k > 0
    BY DEF IdType
  <2>2. PICK i \in IdType : i = [h EXCEPT !.timeouts = k, !.late = FALSE]
    <3>1. [h EXCEPT !.timeouts = k, !.late = FALSE] \in IdType
      BY DEF IdType
    <3> QED BY <3>1
  <2>3. /\ i.my_fd = TRUE /\ i.hold = TRUE /\ i.state = h.state /\ i.raw = h.raw
        /\ i.leftovers = h.leftovers /\ i.processed = h.processed
        /\ i.pipe = h.pipe /\ i.timeouts > 0
    BY <1>6, <2>1, <2>2 DEF IdType
  <2>4. id' = [g EXCEPT ![n] = i]
    <3>1. id' = [g EXCEPT ![n].timeouts = k, ![n].late = FALSE]
      BY <1>7, <1>8, <1>11, <2>1
    <3> QED BY <1>7, <2>2, <3>1
  <2>5. id[n].raw \o id[o].leftovers = id[n].raw
    BY <1>3, <1>11, SMTT(30) DEF IdType
  <2>6. Handed(t, o, n, i, j)
    BY <1>2, <1>3, <1>4, <1>6, <1>8, <1>9, <2>3, <2>4, <2>5 DEF Handed, Live
  <2>7. HandedPart(o, n, i)
    BY <1>6, <1>8, <1>11, <2>3 DEF HandedPart
  <2> QED BY <2>6, <2>7
<1> QED BY <1>10, <1>11, SMTT(30)

\* chain() sets the timeout of the object that gets the leftovers.
LEMMA WatchChain ==
  ASSUME WatchInv, NEW t \in Threads, Chain(t) PROVE WatchInv'
<1>1. PICK o \in Objects, n \in Objects, i \in IdType, j \in IdType :
        /\ Handed(t, o, n, i, j)
        /\ HandedPart(o, n, i) \/ HandedRequest(o, n, i) \/ HandedNone(o, n, i)
  BY ChainDoes
<1>2. /\ o # n /\ id \in [Objects -> IdType] /\ threads \in [Threads -> ThreadType]
      /\ id[o] \in IdType /\ id[n] \in IdType /\ id[o].processed
      /\ id[o].state = "live" /\ id[n].state = "live"
      /\ threads[t].at = "chaining" /\ threads[t].obj = o /\ threads[t].next = n
  BY <1>1 DEF WatchInv, TypeOK, Holding, Handed, At, Live, ThreadType
<1>3. /\ j.my_fd = FALSE /\ j.pipe = id[o].pipe /\ j.processed /\ j.raw = id[o].raw
      /\ j.hold = id[o].hold /\ j.state = id[o].state
  BY <1>1, <1>2 DEF Handed, IdType
<1>4. PICK w \in ThreadType : w = [at |-> "chained", obj |-> o, next |-> n]
  BY DEF ThreadType
<1>5. w.at = "chained" /\ w.obj = o /\ w.next = n
  BY <1>4
<1>6. /\ id' = [id EXCEPT ![o] = j, ![n] = i] /\ threads' = [threads EXCEPT ![t] = w]
      /\ UNCHANGED <<sent, net, client, answered, raced>>
      /\ i.raw = id[n].raw \o id[o].leftovers /\ i.timeouts > 0 /\ i.hold = TRUE
      /\ i.state = "live"
  BY <1>1, <1>4 DEF Handed
<1>7. /\ \A p \in Objects : p # n /\ p # o => id'[p] = id[p]
      /\ id'[n] = i /\ id'[o] = j
      /\ \A u \in Threads : u # t => threads'[u] = threads[u]
      /\ threads'[t] = w
  BY <1>2, <1>6
<1>8. i.raw \in Seq(Bytes) /\ id[o].leftovers \in Seq(Bytes) /\ id[n].raw \in Seq(Bytes)
  BY <1>2 DEF IdType
<1>9. TypeOK'
  <2>1. queue' \in Seq(Objects)
    <3>1. queue \in Seq(Objects) /\ Append(queue, n) \in Seq(Objects)
      BY AppendIs DEF WatchInv, TypeOK
    <3>2. queue' = queue \/ queue' = Append(queue, n)
      BY <1>1 DEF HandedPart, HandedRequest, HandedNone
    <3> QED BY <3>1, <3>2
  <2>2. taken' \in Seq(Seq(Bytes))
    <3>1. taken \in Seq(Seq(Bytes))
      BY DEF WatchInv, TypeOK
    <3>2. Complete(i.raw) => Append(taken, Request(i.raw)) \in Seq(Seq(Bytes))
      BY <1>8, <3>1, LastOfFirst, AppendIs
    <3>3. taken' = taken \/ (Complete(i.raw) /\ taken' = Append(taken, Request(i.raw)))
      BY <1>1 DEF HandedPart, HandedRequest, HandedNone
    <3> QED BY <3>1, <3>2, <3>3
  <2>3. open' \in BOOLEAN /\ cb' \in Objects \cup {0}
    BY <1>1 DEF WatchInv, TypeOK, HandedPart, HandedRequest, HandedNone
  <2> QED BY <1>2, <1>6, <2>1, <2>2, <2>3 DEF WatchInv, TypeOK, ThreadType
<1>10. \A p \in Objects : id[p].processed => id'[p].processed
  BY <1>1, <1>3, <1>7 DEF HandedPart, HandedRequest, HandedNone
<1>11. \A p \in Objects : id[p].state # "none" => id'[p].state # "none"
  BY <1>2, <1>3, <1>6, <1>7
<1>12. Holding'
  <2>1. \A k \in DOMAIN queue' : id'[queue'[k]].processed
    <3>1. \A k \in DOMAIN queue : id[queue[k]].processed /\ queue[k] \in Objects
      BY DEF WatchInv, Holding, TypeOK
    <3>2. \A k \in DOMAIN queue : id'[queue[k]].processed
      BY <1>10, <3>1
    <3>3. CASE queue' = queue
      BY <3>2, <3>3
    <3>4. CASE queue' = Append(queue, n) /\ i.processed
      <4>1. queue \in Seq(Objects)
        BY DEF WatchInv, TypeOK
      <4>2. /\ DOMAIN Append(queue, n) = 1 .. Len(queue) + 1
            /\ DOMAIN queue = 1 .. Len(queue) /\ Len(queue) \in Nat
            /\ \A k \in 1 .. Len(queue) : Append(queue, n)[k] = queue[k]
            /\ Append(queue, n)[Len(queue) + 1] = n
        BY <4>1, AppendIs
      <4> QED BY <1>7, <3>2, <3>4, <4>2
    <3> QED BY <1>1, <3>3, <3>4 DEF HandedPart, HandedRequest, HandedNone
  <2>2. \A p \in Objects : id'[p].pipe => id'[p].processed
    <3>1. i.pipe => i.processed
      BY <1>1 DEF HandedPart, HandedRequest, HandedNone, WatchInv, Holding
    <3> QED BY <1>3, <1>7, <3>1 DEF WatchInv, Holding
  <2>3. \A p \in Objects : id'[p].processed => Complete(id'[p].raw)
    <3>1. id[n].processed => Complete(i.raw)
      BY <1>6, <1>8, CompleteMore DEF WatchInv, Holding
    <3>2. i.processed => Complete(i.raw)
      BY <1>1, <3>1 DEF HandedPart, HandedRequest, HandedNone
    <3> QED BY <1>2, <1>3, <1>7, <3>2 DEF WatchInv, Holding
  <2>4. \A u \in Threads : ~ At(u, "idle")' =>
          threads'[u].obj \in Objects /\ id'[threads'[u].obj].processed
    BY <1>3, <1>5, <1>7, <1>10 DEF WatchInv, Holding, At
  <2>5. \A u \in Threads : Chains(u)' =>
          Chains(u) /\ threads'[u].next = threads[u].next /\ threads'[u].obj = threads[u].obj
    BY <1>2, <1>5, <1>7 DEF Chains
  <2>6. /\ \A u \in Threads : Chains(u)' =>
             /\ threads'[u].next \in Objects /\ Made(threads[u].next)'
             /\ threads'[u].next # threads'[u].obj
        /\ \A u, v \in Threads :
             Chains(u)' /\ Chains(v)' /\ threads'[u].next = threads'[v].next => u = v
    BY <1>11, <2>5 DEF WatchInv, Holding, Made
  <2>7. \A p \in Objects : id'[p].hold =>
          \E u \in Threads : At(u, "chained")' /\ threads'[u].next = p
    <3>1. \A p \in Objects : p # n /\ id'[p].hold => id[p].hold
      BY <1>3, <1>7
    <3>2. \A u \in Threads : At(u, "chained") => threads'[u] = threads[u]
      BY <1>2, <1>7 DEF At
    <3>3. threads'[t].at = "chained" /\ threads'[t].next = n
      BY <1>5, <1>7
    <3> QED BY <3>1, <3>2, <3>3 DEF WatchInv, Holding, At
  <2> QED BY <2>1, <2>2, <2>3, <2>4, <2>6, <2>7 DEF Holding
<1>13. Waiting'
  <2>1. open' => open /\ i.my_fd
    BY <1>1 DEF HandedPart, HandedRequest, HandedNone
  <2>2. \A p \in Objects : ~ id'[p].processed =>
          /\ id'[p].my_fd => Live(p)' /\ id'[p].timeouts > 0
          /\ Made(p)' /\ (open' \/ (Live(p)' /\ ~ id'[p].hold)) => id'[p].my_fd
    <3>1. id'[n].state = "live" /\ id'[n].timeouts > 0 /\ id'[n].hold /\ id'[o].processed
      BY <1>3, <1>6, <1>7
    <3>2. open' => id'[n].my_fd
      BY <1>7, <2>1
    <3>3. \A p \in Objects : p # n /\ p # o => id'[p] = id[p]
      BY <1>7
    <3> QED BY <2>1, <3>1, <3>2, <3>3 DEF WatchInv, Waiting, Made, Live
  <2>3. ASSUME cb' # 0 PROVE open' /\ Made(cb)'
    <3>1. cb' = cb /\ open' = open
      BY <1>1, <2>3 DEF HandedPart, HandedRequest, HandedNone
    <3>2. open /\ id[cb].state # "none" /\ cb \in Objects
      BY <2>3, <3>1 DEF WatchInv, Waiting, TypeOK, Made
    <3>3. id'[cb].state # "none"
      BY <1>11, <3>2
    <3> QED BY <3>1, <3>2, <3>3 DEF Made
  <2> QED BY <2>2, <2>3 DEF Waiting
<1> QED BY <1>9, <1>12, <1>13 DEF WatchInv

\* The tests find the object n without a request yet, and make it i.
Tested(t, o, n, i) ==
  /\ threads[t].obj = o /\ threads[t].next = n /\ o # n /\ At(t, "chained")
  /\ id' = [id EXCEPT ![n] = i]
  /\ threads' = [threads EXCEPT ![t] = [at |-> "rearming", obj |-> o, next |-> n]]
  /\ UNCHANGED <<sent, net, client, open, cb, queue, taken, answered, raced>>
  /\ id[n].my_fd /\ ~ id[n].processed
  /\ i.hold = FALSE /\ i.my_fd /\ ~ i.processed
  /\ i.raw = id[n].raw /\ i.leftovers = id[n].leftovers
  /\ i.timeouts = id[n].timeouts /\ i.pipe = id[n].pipe /\ i.state = id[n].state
\* Or chain() ends: the object n becomes i, and the old one j.
Through(t, o, n, i, j) ==
  /\ threads[t].obj = o /\ threads[t].next = n /\ o # n /\ At(t, "chained")
  /\ id' = [id EXCEPT ![n] = i, ![o] = j]
  /\ threads' = [threads EXCEPT ![t] = Idle]
  /\ UNCHANGED <<sent, net, client, open, cb, queue, taken, answered, raced>>
  /\ ~ id[n].my_fd \/ id[n].processed
  /\ i.hold = FALSE /\ i.my_fd = id[n].my_fd /\ i.processed = id[n].processed
  /\ i.raw = id[n].raw /\ i.leftovers = id[n].leftovers
  /\ i.timeouts = id[n].timeouts /\ (i.pipe => id[n].pipe /\ id[n].my_fd)
  /\ i.pipe = (id[n].pipe /\ id[n].my_fd)
  /\ i.state = (IF id[n].my_fd THEN id[n].state ELSE "dead")
  /\ j.hold = id[o].hold /\ j.my_fd = id[o].my_fd /\ j.processed = id[o].processed
  /\ j.raw = id[o].raw /\ j.leftovers = id[o].leftovers
  /\ j.timeouts = id[o].timeouts /\ j.pipe = FALSE
  /\ j.state = (IF id[o].hold THEN id[o].state ELSE "dead")

\* A Chained step is one of the two.
LEMMA ChainedDoes ==
  ASSUME WatchInv, NEW t \in Threads, Chained(t)
  PROVE  \E o, n \in Objects, i, j \in IdType : Tested(t, o, n, i) \/ Through(t, o, n, i, j)
<1>1. /\ threads[t].obj \in Objects /\ threads[t].next \in Objects
      /\ threads[t].next # threads[t].obj
      /\ id \in [Objects -> IdType]
  BY DEF WatchInv, TypeOK, Holding, Chained, At, Chains
<1>2. PICK o \in Objects, n \in Objects : o = threads[t].obj /\ n = threads[t].next
  BY <1>1
<1>3. o # n /\ id[o] \in IdType /\ id[n] \in IdType
  BY <1>1, <1>2
<1>4. PICK f \in IdType : f = [id[n] EXCEPT !.hold = FALSE]
  <2>1. [id[n] EXCEPT !.hold = FALSE] \in IdType
    BY <1>3 DEF IdType
  <2> QED BY <2>1
<1>5. /\ f.hold = FALSE /\ f.my_fd = id[n].my_fd /\ f.processed = id[n].processed
      /\ f.raw = id[n].raw /\ f.leftovers = id[n].leftovers
      /\ f.timeouts = id[n].timeouts /\ f.pipe = id[n].pipe /\ f.state = id[n].state
      /\ f.pipe \in BOOLEAN /\ f.my_fd \in BOOLEAN
  BY <1>3, <1>4 DEF IdType
<1>6. PICK i \in IdType : i = IF f.my_fd THEN f ELSE Disconnected(f)
  BY DisconnectedType
<1>7. PICK j \in IdType : j = Disconnected(id[o])
  BY <1>3, DisconnectedType
<1>8. /\ j.hold = id[o].hold /\ j.my_fd = id[o].my_fd /\ j.processed = id[o].processed
      /\ j.raw = id[o].raw /\ j.leftovers = id[o].leftovers
      /\ j.timeouts = id[o].timeouts /\ j.pipe = FALSE
      /\ j.state = (IF id[o].hold THEN id[o].state ELSE "dead")
  BY <1>3, <1>7, DisconnectedType
<1>9. /\ i.hold = FALSE /\ i.my_fd = id[n].my_fd /\ i.processed = id[n].processed
      /\ i.raw = id[n].raw /\ i.leftovers = id[n].leftovers
      /\ i.timeouts = id[n].timeouts /\ (i.pipe => id[n].pipe /\ id[n].my_fd)
      /\ i.pipe = (id[n].pipe /\ id[n].my_fd)
      /\ i.state = (IF id[n].my_fd THEN id[n].state ELSE "dead")
  BY <1>5, <1>6, DisconnectedType
<1>10. CASE f.my_fd /\ ~ f.processed
  <2>1. /\ id' = [id EXCEPT ![n] = f]
        /\ threads' = [threads EXCEPT ![t] = [at |-> "rearming", obj |-> o, next |-> n]]
        /\ At(t, "chained")
        /\ UNCHANGED <<sent, net, client, open, cb, queue, taken, answered, raced>>
    BY <1>2, <1>4, <1>10 DEF Chained, Goes, clientVars
  <2>2. Tested(t, o, n, f)
    BY <1>2, <1>3, <1>5, <1>10, <2>1 DEF Tested
  <2> QED BY <2>2
<1>11. CASE ~ f.my_fd \/ f.processed
  <2>1. /\ id' = [id EXCEPT ![n] = IF f.my_fd THEN f ELSE Disconnected(f),
                            ![o] = Disconnected(@)]
        /\ threads' = [threads EXCEPT ![t] = Idle] /\ At(t, "chained")
        /\ UNCHANGED <<sent, net, client, open, cb, queue, taken, answered, raced>>
    BY <1>2, <1>4, <1>11 DEF Chained, Rests, clientVars
  <2>2. id' = [id EXCEPT ![n] = i, ![o] = j]
    BY <1>1, <1>3, <1>6, <1>7, <2>1
  <2>3. Through(t, o, n, i, j)
    BY <1>2, <1>3, <1>5, <1>8, <1>9, <1>11, <2>1, <2>2 DEF Through
  <2> QED BY <2>3
<1> QED BY <1>10, <1>11

\* Then the callbacks are set, and the old object o becomes j.
Rearmed(t, o, n, j) ==
  /\ threads[t].obj = o /\ threads[t].next = n /\ o # n /\ At(t, "rearming")
  /\ id' = [id EXCEPT ![o] = j]
  /\ threads' = [threads EXCEPT ![t] = Idle]
  /\ cb' = (IF open THEN n ELSE cb) /\ raced' = (raced \/ id[n].processed)
  /\ UNCHANGED <<sent, net, client, open, queue, taken, answered>>
  /\ j.hold = id[o].hold /\ j.my_fd = id[o].my_fd /\ j.processed = id[o].processed
  /\ j.raw = id[o].raw /\ j.leftovers = id[o].leftovers
  /\ j.timeouts = id[o].timeouts /\ j.pipe = FALSE
  /\ j.state = (IF id[o].hold THEN id[o].state ELSE "dead")

\* A Rearm step is a Rearmed step.
LEMMA RearmDoes ==
  ASSUME WatchInv, NEW t \in Threads, Rearm(t)
  PROVE  \E o, n \in Objects, j \in IdType : Rearmed(t, o, n, j)
<1>1. /\ threads[t].obj \in Objects /\ threads[t].next \in Objects
      /\ threads[t].next # threads[t].obj
      /\ id \in [Objects -> IdType]
  BY DEF WatchInv, TypeOK, Holding, Rearm, At, Chains
<1>2. PICK o \in Objects, n \in Objects : o = threads[t].obj /\ n = threads[t].next
  BY <1>1
<1>3. o # n /\ id[o] \in IdType
  BY <1>1, <1>2
<1>4. PICK j \in IdType : j = Disconnected(id[o])
  BY <1>3, DisconnectedType
<1>5. /\ j.hold = id[o].hold /\ j.my_fd = id[o].my_fd /\ j.processed = id[o].processed
      /\ j.raw = id[o].raw /\ j.leftovers = id[o].leftovers
      /\ j.timeouts = id[o].timeouts /\ j.pipe = FALSE
      /\ j.state = (IF id[o].hold THEN id[o].state ELSE "dead")
  BY <1>3, <1>4, DisconnectedType
<1>6. /\ id' = [id EXCEPT ![o] = j]
      /\ threads' = [threads EXCEPT ![t] = Idle] /\ At(t, "rearming")
      /\ cb' = (IF open THEN n ELSE cb) /\ raced' = (raced \/ id[n].processed)
      /\ UNCHANGED <<sent, net, client, open, queue, taken, answered>>
  BY <1>1, <1>2, <1>4 DEF Rearm, Rests, clientVars
<1>7. Rearmed(t, o, n, j)
  BY <1>2, <1>3, <1>5, <1>6 DEF Rearmed
<1> QED BY <1>7

\* The end of chain() of an object that has its request, or no connection.
LEMMA WatchThrough ==
  ASSUME WatchInv, NEW t \in Threads, NEW o \in Objects, NEW n \in Objects,
         NEW i \in IdType, NEW j \in IdType, Through(t, o, n, i, j)
  PROVE  WatchInv'
<1>1. Through(t, o, n, i, j)
  OBVIOUS
<1>2. /\ o # n /\ id \in [Objects -> IdType] /\ threads \in [Threads -> ThreadType]
      /\ id[o] \in IdType /\ id[n] \in IdType /\ id[o].processed
      /\ id[n].state # "none"
      /\ threads[t].at = "chained" /\ threads[t].obj = o /\ threads[t].next = n
  BY <1>1 DEF WatchInv, TypeOK, Holding, Through, At, Chains, Made, ThreadType
<1>3. /\ id' = [id EXCEPT ![n] = i, ![o] = j]
      /\ threads' = [threads EXCEPT ![t] = Idle]
      /\ UNCHANGED <<sent, net, client, open, cb, queue, taken, answered, raced>>
  BY <1>1 DEF Through
<1>4. /\ i.hold = FALSE /\ i.my_fd = id[n].my_fd /\ i.processed = id[n].processed
      /\ i.raw = id[n].raw /\ i.timeouts = id[n].timeouts /\ (i.pipe => id[n].pipe)
      /\ i.state = (IF id[n].my_fd THEN id[n].state ELSE "dead")
  BY <1>1 DEF Through
<1>5. /\ j.hold = id[o].hold /\ j.processed /\ j.raw = id[o].raw /\ j.pipe = FALSE
      /\ j.state = (IF id[o].hold THEN id[o].state ELSE "dead")
  BY <1>1, <1>2 DEF Through
<1>6. /\ \A p \in Objects : p # n /\ p # o => id'[p] = id[p]
      /\ id'[n] = i /\ id'[o] = j
      /\ \A u \in Threads : u # t => threads'[u] = threads[u]
      /\ threads'[t] = Idle
  BY <1>2, <1>3
<1>7. TypeOK'
  BY <1>2, <1>3, IdleType DEF WatchInv, TypeOK, ThreadType
<1>8. \A p \in Objects : id[p].processed => id'[p].processed
  BY <1>4, <1>5, <1>6
<1>9. \A p \in Objects : id[p].state # "none" => id'[p].state # "none"
  BY <1>4, <1>5, <1>6
<1>10. Holding'
  <2>1. \A k \in DOMAIN queue' : id'[queue'[k]].processed
    <3>1. \A k \in DOMAIN queue : id[queue[k]].processed /\ queue[k] \in Objects
      BY DEF WatchInv, Holding, TypeOK
    <3>2. queue' = queue
      BY <1>3
    <3> QED BY <1>8, <3>1, <3>2
  <2>2. \A p \in Objects : id'[p].pipe => id'[p].processed
    BY <1>4, <1>5, <1>6 DEF WatchInv, Holding
  <2>3. \A p \in Objects : id'[p].processed => Complete(id'[p].raw)
    BY <1>2, <1>4, <1>5, <1>6 DEF WatchInv, Holding
  <2>4. \A u \in Threads : ~ At(u, "idle")' => u # t /\ threads'[u] = threads[u]
    BY <1>6, IdleType DEF At
  <2>5. \A u \in Threads : ~ At(u, "idle")' =>
          threads'[u].obj \in Objects /\ id'[threads'[u].obj].processed
    BY <1>8, <2>4 DEF WatchInv, Holding, At
  <2>6. \A u \in Threads : Chains(u)' => Chains(u) /\ threads'[u] = threads[u]
    BY <2>4 DEF Chains, At
  <2>7. /\ \A u \in Threads : Chains(u)' =>
             /\ threads'[u].next \in Objects /\ Made(threads[u].next)'
             /\ threads'[u].next # threads'[u].obj
        /\ \A u, v \in Threads :
             Chains(u)' /\ Chains(v)' /\ threads'[u].next = threads'[v].next => u = v
    BY <1>9, <2>6 DEF WatchInv, Holding, Made
  <2>8. \A p \in Objects : id'[p].hold =>
          \E u \in Threads : At(u, "chained")' /\ threads'[u].next = p
    <3>1. \A p \in Objects : id'[p].hold => p # n /\ id[p].hold
      BY <1>4, <1>5, <1>6
    <3>2. \A u \in Threads : threads[u].next # n => threads'[u] = threads[u]
      BY <1>2, <1>6
    <3> QED BY <3>1, <3>2 DEF WatchInv, Holding, At
  <2> QED BY <2>1, <2>2, <2>3, <2>5, <2>7, <2>8 DEF Holding
<1>11. Waiting'
  <2>1. \A p \in Objects : ~ id'[p].processed =>
          /\ id'[p].my_fd => Live(p)' /\ id'[p].timeouts > 0
          /\ Made(p)' /\ (open' \/ (Live(p)' /\ ~ id'[p].hold)) => id'[p].my_fd
    <3>1. ~ id[n].processed => ~ id[n].my_fd /\ ~ open
      BY <1>1, <1>2 DEF WatchInv, Waiting, Made, Through
    <3>2. ~ id'[n].processed => id'[n].state = "dead" /\ ~ id'[n].my_fd /\ ~ open'
      BY <1>3, <1>4, <1>6, <3>1
    <3>3. id'[o].processed
      BY <1>5, <1>6
    <3>4. \A p \in Objects : p # n /\ p # o => id'[p] = id[p]
      BY <1>6
    <3> QED BY <1>3, <3>2, <3>3, <3>4 DEF WatchInv, Waiting, Made, Live
  <2>2. ASSUME cb' # 0 PROVE open' /\ Made(cb)'
    <3>1. open /\ id[cb].state # "none" /\ cb \in Objects /\ cb' = cb /\ open' = open
      BY <1>3, <2>2 DEF WatchInv, Waiting, TypeOK, Made
    <3> QED BY <1>9, <3>1 DEF Made
  <2> QED BY <2>1, <2>2 DEF Waiting
<1> QED BY <1>7, <1>10, <1>11 DEF WatchInv

\* The tests at the end of chain(): the new object no longer has its thread, but
\* its timeout.
LEMMA WatchTested ==
  ASSUME WatchInv, NEW t \in Threads, NEW o \in Objects, NEW n \in Objects,
         NEW i \in IdType, Tested(t, o, n, i)
  PROVE  WatchInv'
<1>1. /\ o # n /\ id \in [Objects -> IdType] /\ threads \in [Threads -> ThreadType]
      /\ id[n] \in IdType /\ id[n].state # "none"
      /\ threads[t].at = "chained" /\ threads[t].obj = o /\ threads[t].next = n
      /\ ~ id[n].processed /\ id[n].my_fd
  BY DEF WatchInv, TypeOK, Holding, Tested, At, Chains, Made, ThreadType
<1>2. PICK w \in ThreadType : w = [at |-> "rearming", obj |-> o, next |-> n]
  BY DEF ThreadType
<1>3. w.at = "rearming" /\ w.obj = o /\ w.next = n
  BY <1>2
<1>4. /\ id' = [id EXCEPT ![n] = i] /\ threads' = [threads EXCEPT ![t] = w]
      /\ UNCHANGED <<sent, net, client, open, cb, queue, taken, answered, raced>>
  BY <1>2 DEF Tested
<1>5. /\ i.hold = FALSE /\ i.my_fd /\ ~ i.processed /\ i.raw = id[n].raw
      /\ i.timeouts = id[n].timeouts /\ i.pipe = id[n].pipe /\ i.state = id[n].state
  BY DEF Tested
<1>6. /\ \A p \in Objects : p # n => id'[p] = id[p]
      /\ id'[n] = i
      /\ \A u \in Threads : u # t => threads'[u] = threads[u]
      /\ threads'[t] = w
  BY <1>1, <1>4
<1>7. TypeOK'
  BY <1>1, <1>4 DEF WatchInv, TypeOK, ThreadType
<1>8. \A p \in Objects : /\ id'[p].processed <=> id[p].processed
                        /\ id'[p].state = id[p].state
                        /\ id'[p].raw = id[p].raw /\ id'[p].pipe = id[p].pipe
  BY <1>1, <1>5, <1>6
<1>9. Holding'
  <2>1. \A k \in DOMAIN queue' : id'[queue'[k]].processed
    <3>1. \A k \in DOMAIN queue : id[queue[k]].processed /\ queue[k] \in Objects
      BY DEF WatchInv, Holding, TypeOK
    <3> QED BY <1>4, <1>8, <3>1
  <2>2. \A p \in Objects : id'[p].pipe => id'[p].processed
    BY <1>8 DEF WatchInv, Holding
  <2>3. \A p \in Objects : id'[p].processed => Complete(id'[p].raw)
    BY <1>8 DEF WatchInv, Holding
  <2>4. \A u \in Threads : /\ At(u, "idle")' <=> At(u, "idle")
                           /\ threads'[u].obj = threads[u].obj
                           /\ threads'[u].next = threads[u].next
                           /\ Chains(u)' <=> Chains(u)
    BY <1>1, <1>3, <1>6 DEF At, Chains
  <2>5. \A u \in Threads : ~ At(u, "idle")' =>
          threads'[u].obj \in Objects /\ id'[threads'[u].obj].processed
    BY <1>8, <2>4 DEF WatchInv, Holding
  <2>6. \A u \in Threads : Chains(u)' =>
          /\ threads'[u].next \in Objects /\ Made(threads[u].next)'
          /\ threads'[u].next # threads'[u].obj
    BY <1>8, <2>4 DEF WatchInv, Holding, Made
  <2>7. \A u, v \in Threads :
          Chains(u)' /\ Chains(v)' /\ threads'[u].next = threads'[v].next => u = v
    BY <2>4 DEF WatchInv, Holding
  <2>8. \A p \in Objects : id'[p].hold =>
          \E u \in Threads : At(u, "chained")' /\ threads'[u].next = p
    <3>1. \A p \in Objects : id'[p].hold => p # n /\ id[p].hold
      BY <1>5, <1>6
    <3>2. \A u \in Threads : threads[u].next # n => threads'[u] = threads[u]
      BY <1>1, <1>6
    <3> QED BY <3>1, <3>2 DEF WatchInv, Holding, At
  <2> QED BY <2>1, <2>2, <2>3, <2>5, <2>6, <2>7, <2>8 DEF Holding
<1>10. Waiting'
  <2>1. id[n].state = "live" /\ id[n].timeouts > 0
    BY <1>1 DEF WatchInv, Waiting, Made, Live
  <2>2. cb' # 0 => open' /\ Made(cb)'
    BY <1>4, <1>8 DEF WatchInv, Waiting, TypeOK, Made
  <2> QED BY <1>4, <1>5, <1>6, <2>1, <2>2 DEF WatchInv, Waiting, Made, Live
<1> QED BY <1>7, <1>9, <1>10 DEF WatchInv

\* Both.
LEMMA WatchChained ==
  ASSUME WatchInv, NEW t \in Threads, Chained(t) PROVE WatchInv'
BY ChainedDoes, WatchTested, WatchThrough

\* The end of chain() of an object that has the callbacks again.
LEMMA WatchRearm ==
  ASSUME WatchInv, NEW t \in Threads, Rearm(t) PROVE WatchInv'
<1>1. PICK o \in Objects, n \in Objects, j \in IdType : Rearmed(t, o, n, j)
  BY RearmDoes
<1>2. /\ o # n /\ id \in [Objects -> IdType] /\ threads \in [Threads -> ThreadType]
      /\ id[o] \in IdType /\ id[o].processed /\ id[n].state # "none"
      /\ threads[t].at = "rearming"
  BY <1>1 DEF WatchInv, TypeOK, Holding, Rearmed, At, Chains, Made, ThreadType
<1>3. /\ id' = [id EXCEPT ![o] = j] /\ threads' = [threads EXCEPT ![t] = Idle]
      /\ cb' = (IF open THEN n ELSE cb) /\ raced' = (raced \/ id[n].processed)
      /\ UNCHANGED <<sent, net, client, open, queue, taken, answered>>
      /\ j.hold = id[o].hold /\ j.processed /\ j.raw = id[o].raw /\ j.pipe = FALSE
      /\ j.state = (IF id[o].hold THEN id[o].state ELSE "dead")
  BY <1>1, <1>2 DEF Rearmed
<1>4. /\ \A p \in Objects : p # o => id'[p] = id[p]
      /\ id'[o] = j
      /\ \A u \in Threads : u # t => threads'[u] = threads[u]
      /\ threads'[t] = Idle
  BY <1>2, <1>3
<1>5. raced' \in BOOLEAN /\ cb' \in Objects \cup {0}
  BY <1>3 DEF WatchInv, TypeOK
<1>6. TypeOK'
  BY <1>2, <1>3, <1>5, IdleType DEF WatchInv, TypeOK, ThreadType
<1>7. \A p \in Objects : id[p].processed => id'[p].processed
  BY <1>2, <1>3, <1>4
<1>10. \A p \in Objects : id[p].state # "none" => id'[p].state # "none"
  BY <1>2, <1>3, <1>4
<1>8. Holding'
  <2>1. \A k \in DOMAIN queue' : id'[queue'[k]].processed
    <3>1. \A k \in DOMAIN queue : id[queue[k]].processed /\ queue[k] \in Objects
      BY DEF WatchInv, Holding, TypeOK
    <3> QED BY <1>3, <1>7, <3>1
  <2>2. \A p \in Objects : id'[p].pipe => id'[p].processed
    BY <1>3, <1>4 DEF WatchInv, Holding
  <2>3. \A p \in Objects : id'[p].processed => Complete(id'[p].raw)
    BY <1>2, <1>3, <1>4 DEF WatchInv, Holding
  <2>4. \A u \in Threads : ~ At(u, "idle")' => u # t /\ threads'[u] = threads[u]
    BY <1>4, IdleType DEF At
  <2>5. \A u \in Threads : ~ At(u, "idle")' =>
          threads'[u].obj \in Objects /\ id'[threads'[u].obj].processed
    <3>1. \A u \in Threads : ~ At(u, "idle") =>
            threads[u].obj \in Objects /\ id[threads[u].obj].processed
      BY DEF WatchInv, Holding
    <3> QED BY <1>7, <2>4, <3>1 DEF At
  <2>6. \A u \in Threads : Chains(u)' => Chains(u) /\ threads'[u] = threads[u]
    BY <2>4 DEF Chains, At
  <2>7. /\ \A u \in Threads : Chains(u)' =>
             /\ threads'[u].next \in Objects /\ Made(threads[u].next)'
             /\ threads'[u].next # threads'[u].obj
        /\ \A u, v \in Threads :
             Chains(u)' /\ Chains(v)' /\ threads'[u].next = threads'[v].next => u = v
    BY <1>10, <2>6 DEF WatchInv, Holding, Made
  <2>8. \A p \in Objects : id'[p].hold =>
          \E u \in Threads : At(u, "chained")' /\ threads'[u].next = p
    <3>1. \A p \in Objects : id'[p].hold => id[p].hold
      BY <1>3, <1>4
    <3>2. \A u \in Threads : At(u, "chained") => threads'[u] = threads[u]
      BY <1>2, <1>4 DEF At
    <3> QED BY <3>1, <3>2 DEF WatchInv, Holding, At
  <2> QED BY <2>1, <2>2, <2>3, <2>5, <2>7, <2>8 DEF Holding
<1>9. Waiting'
  <2>1. cb' # 0 => open' /\ Made(cb)'
    <3>1. cb # 0 => open /\ id[cb].state # "none"
      BY DEF WatchInv, Waiting, Made
    <3>2. cb' # 0 => open /\ cb' = n
      BY <1>3, <3>1
    <3> QED BY <1>2, <1>3, <1>10, <3>2 DEF Made
  <2> QED BY <1>3, <1>4, <2>1 DEF WatchInv, Waiting, Made, Live
<1> QED BY <1>6, <1>8, <1>9 DEF WatchInv

\* What only concerns the client.
LEMMA WatchClient ==
  ASSUME WatchInv, ClientSends \/ ClientErrs \/ ClientChanges \/ UNCHANGED vars
  PROVE  WatchInv'
<1> USE HTTPAssumption DEF WatchInv
<1>1. UNCHANGED <<open, cb, id, queue, threads, taken, answered, raced>>
  BY DEF ClientSends, ClientErrs, ClientChanges, vars
<1>2. sent' \in 0 .. 2 * MaxRequests /\ net' \in Seq(Bytes)
  <2>1. sent \in 0 .. 2 * MaxRequests /\ net \in Seq(Bytes) /\ MaxRequests \in Nat
    BY DEF TypeOK
  <2>2. CASE ClientSends
    <3>1. PICK n \in 1 .. 2 * MaxRequests - sent :
            sent' = sent + n /\ net' = net \o [k \in 1 .. n |-> sent + k]
      BY <2>2 DEF ClientSends
    <3>2. n \in Nat /\ \A k \in 1 .. n : sent + k \in Bytes
      BY <2>1 DEF Bytes
    <3>3. [k \in 1 .. n |-> sent + k] \in Seq(Bytes)
      BY <3>2
    <3> QED BY <2>1, <3>1, <3>3
  <2>3. CASE ClientErrs
    <3>1. 0 \in Bytes
      BY DEF Bytes
    <3> QED BY <2>1, <2>3, <3>1, AppendIs DEF ClientErrs
  <2> QED BY <2>1, <2>2, <2>3 DEF ClientChanges, vars
<1>3. client' \in {"reads", "stuck", "gone"}
  BY DEF TypeOK, ClientSends, ClientErrs, ClientChanges, vars
<1>4. TypeOK'
  BY <1>1, <1>2, <1>3 DEF TypeOK
<1>5. Holding'
  BY <1>1 DEF Holding, At, Chains, Made
<1>6. Waiting'
  BY <1>1 DEF Waiting, Made, Live
<1> QED BY <1>4, <1>5, <1>6

\* Every step keeps WatchInv.
LEMMA WatchNext == WatchInv /\ [Next]_vars => WatchInv'
<1> SUFFICES ASSUME WatchInv, [Next]_vars PROVE WatchInv'
  OBVIOUS
<1>1. CASE ClientSends \/ ClientErrs \/ ClientChanges \/ UNCHANGED vars
  BY <1>1, WatchClient
<1>2. CASE Backend
  BY <1>2, WatchRead, WatchClose, WatchTimeout, WatchPipeDone, WatchPipeTimeout DEF Backend
<1>3. CASE \E o \in Objects : TimePasses(o)
  BY <1>3, WatchTime
<1>4. ASSUME NEW t \in Threads, Thread(t) PROVE WatchInv'
  BY <1>4, WatchHandle, WatchSendNow, WatchSendAsync, WatchFails, WatchEndClose,
     WatchEndKeep, WatchChain, WatchChained, WatchRearm DEF Thread
<1> QED BY <1>1, <1>2, <1>3, <1>4 DEF Next

\* WatchInv always holds, whatever the client does.
THEOREM WatchAlways == Spec => []WatchInv
BY WatchInit, WatchNext, PTL DEF Spec

\* Every variable of a connection keeps its type.
THEOREM HTTPTypes == Spec => []TypeOK
<1>1. WatchInv => TypeOK
  BY DEF WatchInv
<1> QED BY <1>1, WatchAlways, PTL

\* An object that waits for its client, on a connection of its own or with the
\* callbacks of one, is live and has a do_timeout() called out, although any
\* thread may end it, give the connection on, or set the callbacks too late: no
\* client holds a connection that nobody will close.
THEOREM WatchedTheorem == Spec => []Watched
<1>1. ASSUME WatchInv, NEW o \in Objects, o = cb \/ id[o].my_fd, ~ id[o].processed
      PROVE  Live(o) /\ id[o].timeouts > 0
  <2>1. o = cb => Made(o) /\ open
    BY <1>1 DEF WatchInv, Waiting, Objects
  <2> QED BY <1>1, <2>1 DEF WatchInv, Waiting
<1>2. WatchInv => Watched
  BY <1>1 DEF Watched
<1> QED BY <1>2, WatchAlways, PTL

-----------------------------------------------------------------------------
(* OrderInv, with a patient client                                         *)

\* There is one newest object.
LEMMA NewestOne ==
  ASSUME NEW o \in Objects, NEW p \in Objects, Newest(o), Newest(p) PROVE o = p
BY DEF Newest, Objects

\* The object with the callbacks waits for its request.
LEMMA CallbackIs ==
  ASSUME OrderInv, cb # 0
  PROVE  /\ cb \in Objects /\ open /\ Made(cb) /\ ~ id[cb].processed
         /\ id[cb].my_fd /\ Live(cb) /\ id[cb].timeouts > 0
<1>1. cb \in Objects /\ open /\ Made(cb) /\ ~ id[cb].processed
  BY DEF OrderInv, WatchInv, TypeOK, Waiting, Line
<1>2. id[cb].my_fd
  BY <1>1 DEF OrderInv, WatchInv, Waiting
<1> QED BY <1>1, <1>2 DEF OrderInv, WatchInv, Waiting

\* What is asked is the newest object.
LEMMA AskedNewest ==
  ASSUME OrderInv, NEW o \in Objects, Asked(o)
  PROVE  Newest(o) /\ id[o].processed
<1> USE DEF OrderInv, WatchInv
<1>1. CASE queue = <<o>>
  <2>1. queue # <<>> /\ queue[1] = o /\ 1 \in DOMAIN queue
    BY <1>1
  <2> QED BY <2>1 DEF Turns, Holding
<1>2. CASE \E t \in Threads : On(t, o) /\ At(t, "handling")
  BY <1>2 DEF Turns, Holding, On, At
<1>3. CASE id[o].pipe
  BY <1>3 DEF Turns, Holding
<1> QED BY <1>1, <1>2, <1>3 DEF Asked

\* While the newest object waits for its request, nothing is asked or answered.
LEMMA NobodyElse ==
  ASSUME OrderInv, NEW o \in Objects, Made(o), ~ id[o].processed
  PROVE  /\ Newest(o) /\ queue = <<>>
         /\ \A p \in Objects : ~ Asked(p) /\ ~ id[p].pipe
         /\ \A t \in Threads : ~ At(t, "handling") /\ ~ At(t, "ending")
         /\ \A t \in Threads : ~ On(t, o)
         /\ \A t \in Threads : At(t, "chaining") /\ id[threads[t].obj].leftovers # <<>> =>
              threads[t].next = o
<1> USE DEF OrderInv
<1>1. Newest(o)
  BY DEF Line
<1>2. \A p \in Objects : Newest(p) => ~ id[p].processed
  BY <1>1, NewestOne
<1>3. \A p \in Objects : ~ Asked(p)
  BY <1>2, AskedNewest
<1>4. \A p \in Objects : ~ id[p].pipe
  BY <1>2 DEF Turns, WatchInv, Holding
<1>5. \A t \in Threads : ~ At(t, "handling") /\ ~ At(t, "ending")
  BY <1>2 DEF Turns, WatchInv, Holding, At
<1>6. queue = <<>>
  <2> SUFFICES ASSUME queue # <<>> PROVE FALSE
    OBVIOUS
  <2>1. queue \in Seq(Objects) /\ 1 \in DOMAIN queue /\ queue[1] \in Objects
    BY TailIs DEF WatchInv, TypeOK
  <2> QED BY <1>2, <2>1 DEF Turns, WatchInv, Holding
<1>7. \A t \in Threads : ~ On(t, o)
  BY DEF WatchInv, Holding, On, At
<1>8. ASSUME NEW t \in Threads, At(t, "chaining"), id[threads[t].obj].leftovers # <<>>
      PROVE  threads[t].next = o
  <2>1. threads[t].next \in Objects /\ Made(threads[t].next) /\ ~ id[threads[t].next].processed
    BY <1>8 DEF WatchInv, Holding, Order, At, Chains
  <2>2. Newest(threads[t].next)
    BY <2>1 DEF Line
  <2> QED BY <1>1, <2>1, <2>2, NewestOne
<1> QED BY <1>1, <1>3, <1>4, <1>5, <1>6, <1>7, <1>8

\* A step in which objects only lose: the connection, a pipe, their life; and
\* threads only come to rest, or have given the connection on with no bytes left,
\* or have come to set the callbacks.
Loses ==
  /\ UNCHANGED <<sent, net, client, queue, taken, answered>>
  /\ open' => open /\ cb' = cb
  /\ cb' \in {0, cb}
  /\ \A p \in Objects :
       /\ id'[p].state = "none" <=> id[p].state = "none"
       /\ id[p].state = "none" => id'[p] = id[p]
       /\ id'[p].processed = id[p].processed /\ id'[p].raw = id[p].raw
       /\ id'[p].leftovers = id[p].leftovers
       /\ id'[p].my_fd => id[p].my_fd \/ id[p].processed
       /\ id'[p].pipe => id[p].pipe /\ id'[p].state = id[p].state
  /\ \A u \in Threads :
       \/ /\ threads'[u] = threads[u]
          /\ threads[u].at = "chaining" /\ open' /\ id[threads[u].obj].my_fd =>
               /\ id'[threads[u].obj].my_fd
               /\ id'[threads[u].obj].state = id[threads[u].obj].state
       \/ /\ threads'[u] = Idle
          /\ threads[u].at # "idle" => ~ id'[threads[u].obj].pipe
          /\ threads[u].at = "chaining" /\ cb' # 0 => threads[u].next # cb'
       \/ /\ threads'[u].obj = threads[u].obj /\ threads'[u].next = threads[u].next
          /\ \/ /\ threads[u].at = "chaining" /\ threads'[u].at = "chained"
                /\ id[threads[u].obj].leftovers = <<>>
             \/ threads[u].at = "chained" /\ threads'[u].at = "rearming"

\* Steps that only lose something keep the order.
LEMMA OrderLoses ==
  ASSUME OrderInv, Loses, WatchInv' PROVE OrderInv'
<1> USE DEF OrderInv
<1>1. Line'
  <2>1. cb' # 0 => ~ id'[cb'].processed
    <3>1. cb' # 0 => cb' = cb /\ cb \in Objects
      BY DEF Loses, WatchInv, TypeOK
    <3> QED BY <3>1 DEF Line, Loses
  <2>2. \A o, p \in Objects : p < o /\ Made(o)' => Made(p)'
    BY DEF Line, Made, Loses
  <2>3. \A o \in Objects : ~ Made(o)' => id'[o] = NewId
    BY DEF Line, Made, Loses
  <2>4. \A o \in Objects : Made(o)' /\ ~ id'[o].processed =>
          Newest(o)' /\ (open' => cb' = o)
    BY DEF Line, Newest, Made, Loses
  <2> QED BY <2>1, <2>2, <2>3, <2>4 DEF Line
<1>2. \A p \in Objects : Newest(p)' <=> Newest(p)
  BY DEF Newest, Made, Loses
<1>3. \A u \in Threads : threads'[u].at # "idle" =>
        /\ threads'[u].obj = threads[u].obj /\ threads'[u].next = threads[u].next
        /\ threads[u].at # "idle" /\ (Chains(u)' => Chains(u))
        /\ threads'[u].at \notin {"chained", "rearming"} => threads'[u] = threads[u]
  BY IdleType DEF Loses, Chains
<1>4. \A u \in Threads, p \in Objects : On(u, p)' => On(u, p)
  BY <1>3 DEF On
<1>5. Turns'
  <2>1. \A t \in Threads :
          /\ ~ At(t, "idle")' => Made(threads[t].obj)'
          /\ At(t, "handling")' => t \in Workers
          /\ At(t, "handling")' \/ At(t, "ending")' => Newest(threads[t].obj)'
          /\ Chains(t)' => threads'[t].next = threads'[t].obj + 1
    <3>1. \A t \in Threads : threads'[t].at # "idle" => threads[t].obj \in Objects
      BY <1>3 DEF WatchInv, Holding, At
    <3> QED BY <1>2, <1>3, <3>1 DEF Turns, At, Chains, Made, Newest, Loses
  <2>2. \A t \in Threads : At(t, "chaining")' /\ open' =>
          Live(threads[t].obj)' /\ id'[threads'[t].obj].my_fd
    <3>1. ASSUME NEW t \in Threads, threads'[t].at = "chaining", open'
          PROVE  id'[threads'[t].obj].state = "live" /\ id'[threads'[t].obj].my_fd
      <4>1. threads'[t] = threads[t] /\ threads[t].at = "chaining" /\ open
        BY <1>3, <3>1 DEF Loses
      <4>2. id[threads[t].obj].state = "live" /\ id[threads[t].obj].my_fd
        BY <4>1 DEF Turns, At, Live
      <4>3. \/ id'[threads[t].obj].my_fd /\ id'[threads[t].obj].state = id[threads[t].obj].state
            \/ threads'[t] = Idle
            \/ threads'[t].at \in {"chained", "rearming"}
        BY <3>1, <4>1, <4>2 DEF Loses
      <4> QED BY <3>1, <4>1, <4>2, <4>3, IdleType
    <3> QED BY <3>1 DEF At, Live
  <2>3. \A t, u \in Threads, o \in Objects : On(t, o)' /\ On(u, o)' => t = u
    BY <1>4 DEF Turns
  <2>4. queue' # <<>> =>
          /\ Len(queue') = 1 /\ Newest(queue[1])' /\ ~ id'[queue'[1]].pipe
          /\ \A t \in Threads : ~ On(t, queue[1])'
    <3>1. queue' = queue
      BY DEF Loses
    <3>2. queue # <<>> => queue[1] \in Objects
      BY TailIs DEF WatchInv, TypeOK
    <3>3. queue # <<>> => Len(queue) = 1 /\ Newest(queue[1]) /\ ~ id[queue[1]].pipe
                          /\ \A t \in Threads : ~ On(t, queue[1])
      BY DEF Turns
    <3>4. ASSUME queue # <<>>
          PROVE  Newest(queue[1])' /\ ~ id'[queue[1]].pipe /\ \A t \in Threads : ~ On(t, queue[1])'
      <4>1. PICK o \in Objects : o = queue[1]
        BY <3>2, <3>4
      <4>2. Newest(o)' /\ ~ id'[o].pipe /\ \A t \in Threads : ~ On(t, o)'
        BY <1>2, <1>4, <3>3, <3>4, <4>1 DEF Loses
      <4>3. o = queue'[1]
        BY <3>1, <4>1
      <4> QED BY <4>1, <4>2, <4>3 DEF Newest, Made, On
    <3> QED BY <3>1, <3>3, <3>4
  <2>5. \A o \in Objects : id'[o].pipe =>
          /\ Newest(o)' /\ Live(o)'
          /\ \A t \in Threads : On(t, o)' => t = "backend" /\ At(t, "ending")'
    BY <1>2, <1>3, <1>4 DEF Turns, Loses, Live, On, At
  <2> QED BY <2>1, <2>2, <2>3, <2>4, <2>5 DEF Turns
<1>6. Whole'
  BY DEF Whole, Loses
<1>7. Order'
  <2>1. UNCHANGED <<sent, net, client, queue, taken, answered>>
    BY DEF Loses
  <2>2. \A s : Unread(s)' <=> Unread(s)
    BY <2>1 DEF Unread, Consecutive
  <2>3. AllAnswered' <=> AllAnswered
    BY <2>1 DEF AllAnswered
  <2>4. \A o \in Objects : Asked(o)' => Asked(o)
    <3> SUFFICES ASSUME NEW o \in Objects, Asked(o)' PROVE Asked(o)
      OBVIOUS
    <3>1. CASE queue' = <<o>>
      BY <2>1, <3>1 DEF Asked
    <3>2. CASE \E t \in Threads : On(t, o)' /\ At(t, "handling")'
      BY <1>3, <1>4, <3>2 DEF Asked, At
    <3>3. CASE id'[o].pipe /\ \A t \in Threads : ~ On(t, o)'
      <4>1. \A t \in Threads : ~ On(t, o)
        BY <3>3 DEF On, Loses
      <4> QED BY <3>3, <4>1 DEF Asked, Loses
    <3> QED BY <3>1, <3>2, <3>3 DEF Asked
  <2>5. \A o \in Objects : Rest(o)' <=> Rest(o)
    <3>1. \A o \in Objects : id'[o].leftovers = id[o].leftovers
      BY DEF Loses
    <3> QED BY <2>1, <3>1 DEF Rest, Unread, Consecutive
  <2>6. \A o \in Objects : id'[o].raw = id[o].raw
    BY DEF Loses
  <2>7. \A o \in Objects : Asked(o)' =>
          /\ Len(taken') > 0 /\ taken'[Len(taken')] = Request(id'[o].raw)
          /\ client' # "gone" => Len(answered') + 1 = Len(taken')
          /\ Rest(o)'
    BY <2>1, <2>4, <2>5, <2>6 DEF Order
  <2>8. \A t \in Threads : At(t, "ending")' => AllAnswered' /\ Rest(threads[t].obj)'
    <3>1. ASSUME NEW t \in Threads, threads'[t].at = "ending" PROVE AllAnswered' /\ Rest(threads[t].obj)'
      <4>1. threads'[t] = threads[t] /\ At(t, "ending") /\ threads[t].obj \in Objects
        BY <1>3, <3>1 DEF At, WatchInv, Holding
      <4>2. AllAnswered /\ Rest(threads[t].obj)
        BY <4>1 DEF Order
      <4>3. id'[threads[t].obj].leftovers = id[threads[t].obj].leftovers
        BY <4>1 DEF Loses
      <4> QED BY <2>1, <2>3, <4>1, <4>2, <4>3 DEF Rest, Unread, Consecutive
    <3> QED BY <3>1 DEF At
  <2>9. \A t \in Threads : At(t, "chaining")' /\ id'[threads'[t].obj].leftovers # <<>> =>
          /\ AllAnswered' /\ Rest(threads[t].obj)'
          /\ ~ id'[threads'[t].next].processed /\ id'[threads'[t].next].raw = <<>>
    <3>1. ASSUME NEW t \in Threads, threads'[t].at = "chaining",
                 id'[threads'[t].obj].leftovers # <<>>
          PROVE  /\ AllAnswered' /\ Rest(threads[t].obj)'
                 /\ ~ id'[threads'[t].next].processed /\ id'[threads'[t].next].raw = <<>>
      <4>1. /\ threads'[t] = threads[t] /\ At(t, "chaining") /\ threads[t].obj \in Objects
            /\ threads[t].next \in Objects
        BY <1>3, <3>1 DEF At, WatchInv, Holding, Chains
      <4>2. id'[threads[t].obj].leftovers = id[threads[t].obj].leftovers
        BY <4>1 DEF Loses
      <4>3. /\ AllAnswered /\ Rest(threads[t].obj)
            /\ ~ id[threads[t].next].processed /\ id[threads[t].next].raw = <<>>
        BY <3>1, <4>1, <4>2 DEF Order
      <4>4. /\ ~ id'[threads[t].next].processed /\ id'[threads[t].next].raw = <<>>
        BY <4>1, <4>3 DEF Loses
      <4> QED BY <2>1, <2>3, <4>1, <4>2, <4>3, <4>4 DEF Rest, Unread, Consecutive
    <3> QED BY <3>1 DEF At
  <2>10. cb' # 0 =>
           /\ AllAnswered' /\ Len(id'[cb'].raw) <= 1
           /\ \/ Unread(id[cb].raw)'
              \/ \E t \in Threads : /\ At(t, "chaining")' /\ threads'[t].next = cb'
                                   /\ id'[threads'[t].obj].leftovers # <<>>
    <3>1. SUFFICES ASSUME cb' # 0
          PROVE /\ AllAnswered' /\ Len(id'[cb'].raw) <= 1
                /\ \/ Unread(id[cb].raw)'
                   \/ \E t \in Threads : /\ At(t, "chaining")' /\ threads'[t].next = cb'
                                        /\ id'[threads'[t].obj].leftovers # <<>>
      OBVIOUS
    <3>2. cb' = cb /\ cb \in Objects /\ id'[cb].raw = id[cb].raw
      BY <3>1 DEF Loses, WatchInv, TypeOK
    <3>3. CASE Unread(id[cb].raw)
      BY <2>1, <2>3, <3>1, <3>2, <3>3 DEF Order, Unread, Consecutive
    <3>4. ASSUME NEW t \in Threads, At(t, "chaining"), threads[t].next = cb,
                 id[threads[t].obj].leftovers # <<>>
          PROVE  At(t, "chaining")' /\ threads'[t].next = cb'
                 /\ id'[threads'[t].obj].leftovers # <<>>
      <4>1. threads'[t] = threads[t]
        BY <3>1, <3>2, <3>4 DEF Loses, At
      <4>2. threads[t].obj \in Objects
        BY <3>4 DEF WatchInv, Holding, At
      <4>3. id'[threads[t].obj].leftovers = id[threads[t].obj].leftovers
        BY <4>2 DEF Loses
      <4> QED BY <3>2, <3>4, <4>1, <4>3 DEF At
    <3> QED BY <2>3, <3>1, <3>2, <3>3, <3>4 DEF Order
  <2> QED BY <2>1, <2>7, <2>8, <2>9, <2>10 DEF Order
<1> QED BY <1>1, <1>5, <1>6, <1>7

\* The object o becomes i, and loses; threads are as they were.
LEMMA LosesOne ==
  ASSUME OrderInv, NEW o \in Objects, NEW i \in IdType, id' = [id EXCEPT ![o] = i],
         UNCHANGED <<sent, net, client, queue, taken, answered, raced>>,
         open' => open /\ cb' = cb, cb' \in {0, cb},
         id[o].state = "live", i.state # "none", i.processed = id[o].processed,
         i.raw = id[o].raw, i.leftovers = id[o].leftovers,
         i.my_fd => id[o].my_fd, i.pipe => id[o].pipe /\ i.state = id[o].state,
         \/ UNCHANGED threads
         \/ \E t \in Threads : /\ threads' = [threads EXCEPT ![t] = Idle] /\ ~ i.pipe
                              /\ At(t, "ending") /\ threads[t].obj = o,
         open' /\ id[o].my_fd => i.my_fd /\ i.state = id[o].state
  PROVE  Loses
<1>1. id \in [Objects -> IdType] /\ threads \in [Threads -> ThreadType]
  BY DEF OrderInv, WatchInv, TypeOK, ThreadType
<1>2. id'[o] = i /\ \A p \in Objects : p # o => id'[p] = id[p]
  BY <1>1
<1>3. \A p \in Objects :
       /\ id'[p].state = "none" <=> id[p].state = "none"
       /\ id[p].state = "none" => id'[p] = id[p]
       /\ id'[p].processed = id[p].processed /\ id'[p].raw = id[p].raw
       /\ id'[p].leftovers = id[p].leftovers
       /\ id'[p].my_fd => id[p].my_fd
       /\ id'[p].pipe => id[p].pipe /\ id'[p].state = id[p].state
       /\ open' /\ id[p].my_fd => id'[p].my_fd /\ id'[p].state = id[p].state
  BY <1>2
<1>4. \A u \in Threads : threads[u].at # "idle" => threads[u].obj \in Objects
  BY DEF OrderInv, WatchInv, Holding, At
<1>5. \A u \in Threads :
        \/ threads'[u] = threads[u]
        \/ /\ threads'[u] = Idle /\ threads[u].at = "ending"
           /\ threads[u].obj = o /\ ~ id'[o].pipe
  BY <1>1, <1>2 DEF At
<1> QED BY <1>3, <1>4, <1>5 DEF Loses

\* The steps that only lose.
LEMMA LosesClose == OrderInv /\ CloseCallback => Loses
<1> SUFFICES ASSUME OrderInv, CloseCallback PROVE Loses
  OBVIOUS
<1>1. cb # 0 /\ cb \in Objects /\ id \in [Objects -> IdType]
  BY DEF CloseCallback, HasCallbacks, TypeOK, WatchInv, OrderInv
<1>2. PICK o \in Objects : o = cb
  BY <1>1
<1>3. id[o].state = "live" /\ id[o].my_fd /\ id[o] \in IdType
  BY <1>1, <1>2, CallbackIs DEF Live
<1>4. PICK i \in IdType : i = Ended(id[o])
  BY <1>3, EndedType
<1>5. /\ i.pipe = FALSE /\ i.my_fd = FALSE /\ i.leftovers = id[o].leftovers
      /\ i.state = (IF id[o].hold THEN id[o].state ELSE "dead")
      /\ i.processed = id[o].processed /\ i.raw = id[o].raw
  BY <1>3, <1>4, EndedType
<1>6. /\ id' = [id EXCEPT ![o] = i] /\ cb' = 0 /\ open' = FALSE
      /\ UNCHANGED <<sent, net, client, queue, taken, answered, raced>> /\ UNCHANGED threads
  BY <1>2, <1>3, <1>4 DEF CloseCallback, End, Closes, clientVars
<1>7. i.state # "none" /\ cb' \in {0, cb}
  BY <1>3, <1>5, <1>6
<1> QED BY <1>3, <1>5, <1>6, <1>7, LosesOne

\* A timeout that expires is such a step,
LEMMA LosesTime ==
  ASSUME OrderInv, NEW o \in Objects, TimePasses(o) PROVE Loses
<1>1. id[o] \in IdType /\ id[o].state = "live"
  BY DEF TimePasses, TypeOK, WatchInv, OrderInv, Live
<1>2. [id[o] EXCEPT !.late = TRUE] \in IdType
  BY <1>1 DEF IdType
<1>3. PICK i \in IdType : i = [id[o] EXCEPT !.late = TRUE]
  BY <1>2
<1>4. /\ i.pipe = id[o].pipe /\ i.my_fd = id[o].my_fd /\ i.leftovers = id[o].leftovers
      /\ i.state = id[o].state /\ i.processed = id[o].processed /\ i.raw = id[o].raw
  BY <1>1, <1>3 DEF IdType
<1>5. /\ id' = [id EXCEPT ![o] = i] /\ UNCHANGED threads
      /\ UNCHANGED <<sent, net, client, queue, taken, answered, raced>>
      /\ open' => open /\ cb' = cb
      /\ cb' \in {0, cb}
  BY <1>3 DEF TimePasses, clientVars
<1> QED BY <1>1, <1>4, <1>5, LosesOne

\* and do_timeout(),
LEMMA LosesTimeout ==
  ASSUME OrderInv, NEW o \in Objects, DoTimeout(o) PROVE Loses
<1>1. id[o] \in IdType /\ id[o].state = "live"
  BY DEF DoTimeout, TypeOK, WatchInv, OrderInv, Live
<1>2. PICK e \in IdType : e = Ended(id[o])
  BY <1>1, EndedType
<1>3. /\ e.pipe = FALSE /\ e.my_fd = FALSE /\ e.leftovers = id[o].leftovers
      /\ e.state = (IF id[o].hold THEN id[o].state ELSE "dead")
      /\ e.processed = id[o].processed /\ e.raw = id[o].raw
      /\ e.timeouts = id[o].timeouts
  BY <1>1, <1>2, EndedType
<1>4. e.timeouts - 1 \in Nat
  BY <1>1, <1>3 DEF DoTimeout, IdType
<1>5. [e EXCEPT !.timeouts = @ - 1] \in IdType
  BY <1>4 DEF IdType
<1>6. PICK i \in IdType : i = [e EXCEPT !.timeouts = @ - 1]
  BY <1>5
<1>7. /\ i.pipe = FALSE /\ i.my_fd = FALSE /\ i.leftovers = e.leftovers
      /\ i.state = e.state /\ i.processed = e.processed /\ i.raw = e.raw
  BY <1>3, <1>6 DEF IdType
<1>8. /\ id' = [id EXCEPT ![o] = i]
      /\ open' = (open /\ ~ id[o].my_fd) /\ cb' = (IF id[o].my_fd THEN 0 ELSE cb)
      /\ UNCHANGED <<sent, net, client, queue, taken, answered, raced>> /\ UNCHANGED threads
  <2>1. id' = [id EXCEPT ![o] = [Ended(id[o]) EXCEPT !.timeouts = id[o].timeouts - 1]]
    BY DEF DoTimeout
  <2>2. /\ open' = (open /\ ~ id[o].my_fd) /\ cb' = (IF id[o].my_fd THEN 0 ELSE cb)
        /\ UNCHANGED <<sent, net, client, queue, taken, answered, raced>> /\ UNCHANGED threads
    BY DEF DoTimeout, Closes, clientVars
  <2> QED BY <1>2, <1>3, <1>6, <2>1, <2>2
<1>9. /\ i.state # "none" /\ cb' \in {0, cb}
      /\ open' => open /\ cb' = cb
      /\ open' => ~ id[o].my_fd
  BY <1>1, <1>3, <1>7, <1>8
<1> QED BY <1>1, <1>3, <1>7, <1>8, <1>9, LosesOne

\* and the pipe's timeout,
LEMMA LosesPipeTimeout ==
  ASSUME OrderInv, NEW o \in Objects, PipeTimeout(o) PROVE Loses
<1>1. id[o] \in IdType /\ id[o].state = "live"
  BY DEF PipeTimeout, TypeOK, WatchInv, OrderInv, Live
<1>2. PICK i \in IdType : i = Ended(id[o])
  BY <1>1, EndedType
<1>3. /\ i.pipe = FALSE /\ i.my_fd = FALSE /\ i.leftovers = id[o].leftovers
      /\ i.state = (IF id[o].hold THEN id[o].state ELSE "dead")
      /\ i.processed = id[o].processed /\ i.raw = id[o].raw
  BY <1>1, <1>2, EndedType
<1>4. /\ id' = [id EXCEPT ![o] = i]
      /\ open' = (open /\ ~ id[o].my_fd) /\ cb' = (IF id[o].my_fd THEN 0 ELSE cb)
      /\ UNCHANGED <<sent, net, client, queue, taken, answered, raced>> /\ UNCHANGED threads
  BY <1>2 DEF PipeTimeout, End, Closes, clientVars
<1>5. /\ i.state # "none" /\ cb' \in {0, cb}
      /\ open' => open /\ cb' = cb
      /\ open' => ~ id[o].my_fd
  BY <1>1, <1>3, <1>4
<1> QED BY <1>1, <1>3, <1>4, <1>5, LosesOne

\* and end() without keep-alive.
LEMMA LosesEndClose ==
  ASSUME OrderInv, NEW t \in Threads, EndClose(t) PROVE Loses
<1>1. threads[t].obj \in Objects /\ At(t, "ending")
  BY DEF OrderInv, WatchInv, Holding, EndClose, At
<1>2. PICK o \in Objects : o = threads[t].obj
  BY <1>1
<1>3. id[o] \in IdType /\ id[o].state = "live"
  BY <1>2 DEF EndClose, TypeOK, WatchInv, OrderInv, Live
<1>4. PICK i \in IdType : i = Ended(id[o])
  BY <1>3, EndedType
<1>5. /\ i.pipe = FALSE /\ i.my_fd = FALSE /\ i.leftovers = id[o].leftovers
      /\ i.state = (IF id[o].hold THEN id[o].state ELSE "dead")
      /\ i.processed = id[o].processed /\ i.raw = id[o].raw
  BY <1>3, <1>4, EndedType
<1>6. /\ id' = [id EXCEPT ![o] = i]
      /\ open' = (open /\ ~ id[o].my_fd) /\ cb' = (IF id[o].my_fd THEN 0 ELSE cb)
      /\ UNCHANGED <<sent, net, client, queue, taken, answered, raced>>
      /\ threads' = [threads EXCEPT ![t] = Idle]
  BY <1>2, <1>4 DEF EndClose, End, Closes, Rests, clientVars
<1>7. /\ i.state # "none" /\ cb' \in {0, cb}
      /\ open' => open /\ cb' = cb
      /\ open' => ~ id[o].my_fd
  BY <1>3, <1>5, <1>6
<1> QED BY <1>1, <1>2, <1>3, <1>5, <1>6, <1>7, LosesOne

\* A thread gives up because the object is gone: no pipe, and no callbacks,
\* depended on it.
LEMMA LosesFails ==
  ASSUME OrderInv, NEW t \in Threads, Fails(t) PROVE Loses
<1>1. /\ threads' = [threads EXCEPT ![t] = Idle]
      /\ UNCHANGED <<sent, net, client, queue, taken, answered, raced>>
      /\ UNCHANGED <<open, cb, id>>
  BY DEF Fails, Rests, clientVars
<1>2. threads \in [Threads -> ThreadType] /\ threads[t].obj \in Objects
  BY DEF OrderInv, WatchInv, TypeOK, Holding, ThreadType, Fails, At
<1>3. \A u \in Threads : u # t => threads'[u] = threads[u]
  BY <1>1, <1>2
<1>4. threads'[t] = Idle
  BY <1>1, <1>2
<1>5. ~ id[threads[t].obj].pipe
  <2>1. On(t, threads[t].obj)
    BY DEF Fails, On
  <2>2. id[threads[t].obj].pipe => Live(threads[t].obj) /\ At(t, "ending")
    BY <1>2, <2>1 DEF OrderInv, Turns
  <2> QED BY <2>2 DEF Fails, At
<1>6. At(t, "chaining") /\ cb # 0 => threads[t].next # cb
  <2> SUFFICES ASSUME At(t, "chaining"), cb # 0, threads[t].next = cb PROVE FALSE
    OBVIOUS
  <2>1. open /\ Live(cb)
    BY CallbackIs
  <2>2. Live(threads[t].obj)
    BY <2>1 DEF OrderInv, Turns
  <2> QED BY <2>1, <2>2 DEF Fails, At
<1>7. \A u \in Threads :
       \/ /\ threads'[u] = threads[u]
          /\ threads[u].at = "chaining" /\ open' /\ id[threads[u].obj].my_fd =>
               /\ id'[threads[u].obj].my_fd
               /\ id'[threads[u].obj].state = id[threads[u].obj].state
       \/ /\ threads'[u] = Idle
          /\ threads[u].at # "idle" => ~ id'[threads[u].obj].pipe
          /\ threads[u].at = "chaining" /\ cb' # 0 => threads[u].next # cb'
  BY <1>1, <1>3, <1>4, <1>5, <1>6 DEF At
<1> QED BY <1>1, <1>7 DEF Loses

\* The tests at the end of chain() change nothing that the order is about.
LEMMA LosesTested ==
  ASSUME OrderInv, NEW t \in Threads, NEW o \in Objects, NEW n \in Objects,
         NEW i \in IdType, Tested(t, o, n, i)
  PROVE  Loses
<1>1. /\ o # n /\ id \in [Objects -> IdType] /\ threads \in [Threads -> ThreadType]
      /\ id[n].state # "none"
      /\ threads[t].at = "chained" /\ threads[t].obj = o /\ threads[t].next = n
  BY DEF OrderInv, WatchInv, TypeOK, Holding, Tested, At, Chains, Made, ThreadType
<1>2. PICK w \in ThreadType : w = [at |-> "rearming", obj |-> o, next |-> n]
  BY DEF ThreadType
<1>3. w.at = "rearming" /\ w.obj = o /\ w.next = n
  BY <1>2
<1>4. /\ id' = [id EXCEPT ![n] = i] /\ threads' = [threads EXCEPT ![t] = w]
      /\ UNCHANGED <<sent, net, client, open, cb, queue, taken, answered, raced>>
      /\ id[n].my_fd /\ ~ id[n].processed
      /\ i.my_fd /\ ~ i.processed /\ i.raw = id[n].raw /\ i.leftovers = id[n].leftovers
      /\ i.pipe = id[n].pipe /\ i.state = id[n].state
  BY <1>2 DEF Tested
<1>5. /\ \A u \in Threads : u # t => threads'[u] = threads[u]
      /\ threads'[t] = w
  BY <1>1, <1>4
<1>6. id[n].processed = FALSE /\ i.processed = FALSE
  BY <1>1, <1>4 DEF IdType
<1>7. \A p \in Objects :
       /\ id'[p].state = id[p].state
       /\ id[p].state = "none" => id'[p] = id[p]
       /\ id'[p].processed = id[p].processed /\ id'[p].raw = id[p].raw
       /\ id'[p].leftovers = id[p].leftovers
       /\ id'[p].my_fd <=> id[p].my_fd
       /\ id'[p].pipe => id[p].pipe
  BY <1>1, <1>4, <1>6
<1>8. \A u \in Threads : threads[u].at = "chaining" => threads[u].obj \in Objects
  BY DEF OrderInv, WatchInv, Holding, At
<1>9. \A u \in Threads :
       \/ /\ threads'[u] = threads[u]
          /\ threads[u].at = "chaining" /\ open' /\ id[threads[u].obj].my_fd =>
               /\ id'[threads[u].obj].my_fd
               /\ id'[threads[u].obj].state = id[threads[u].obj].state
       \/ /\ threads'[u].obj = threads[u].obj /\ threads'[u].next = threads[u].next
          /\ threads[u].at = "chained" /\ threads'[u].at = "rearming"
  BY <1>1, <1>3, <1>5, <1>7, <1>8
<1> QED BY <1>4, <1>7, <1>9 DEF Loses

\* Nor does the end of chain().
LEMMA LosesThrough ==
  ASSUME OrderInv, NEW t \in Threads, NEW o \in Objects, NEW n \in Objects,
         NEW i \in IdType, NEW j \in IdType, Through(t, o, n, i, j)
  PROVE  Loses
<1>1. Through(t, o, n, i, j)
  OBVIOUS
<1>2. /\ o # n /\ id \in [Objects -> IdType] /\ threads \in [Threads -> ThreadType]
      /\ id[n].state # "none" /\ id[o].state # "none"
      /\ threads[t].at = "chained" /\ threads[t].obj = o /\ threads[t].next = n
  BY <1>1 DEF OrderInv, WatchInv, TypeOK, Holding, Turns, Through, At, Chains, Made, ThreadType
<1>3. /\ \A p \in Objects : p # n /\ p # o => id'[p] = id[p]
      /\ id'[n] = i /\ id'[o] = j
      /\ \A u \in Threads : u # t => threads'[u] = threads[u]
      /\ threads'[t] = Idle
      /\ UNCHANGED <<sent, net, client, queue, taken, answered, raced>> /\ open' = open
  BY <1>1, <1>2 DEF Through
<1>4. /\ i.my_fd = id[n].my_fd /\ i.processed = id[n].processed
      /\ i.raw = id[n].raw /\ i.leftovers = id[n].leftovers
      /\ i.pipe => id[n].pipe /\ id[n].my_fd
      /\ i.state = (IF id[n].my_fd THEN id[n].state ELSE "dead")
  BY <1>1 DEF Through
<1>5. /\ j.my_fd = id[o].my_fd /\ j.processed = id[o].processed
      /\ j.raw = id[o].raw /\ j.leftovers = id[o].leftovers /\ j.pipe = FALSE
      /\ j.state = (IF id[o].hold THEN id[o].state ELSE "dead")
  BY <1>1 DEF Through
<1>6. cb' = cb
  BY <1>1 DEF Through
<1>7. \A p \in Objects :
       /\ id'[p].state = "none" <=> id[p].state = "none"
       /\ id[p].state = "none" => id'[p] = id[p]
       /\ id'[p].processed = id[p].processed /\ id'[p].raw = id[p].raw
       /\ id'[p].leftovers = id[p].leftovers
       /\ id'[p].my_fd => id[p].my_fd
       /\ id'[p].pipe => id[p].pipe /\ id'[p].state = id[p].state
       /\ p # o /\ id[p].my_fd => id'[p].my_fd /\ id'[p].state = id[p].state
  BY <1>2, <1>3, <1>4, <1>5
<1>8. \A u \in Threads : u # t /\ threads[u].at # "idle" =>
        threads[u].obj \in Objects /\ threads[u].obj # o
  BY <1>2 DEF OrderInv, WatchInv, Holding, Turns, On, At
<1>9. \A u \in Threads :
       \/ /\ threads'[u] = threads[u]
          /\ threads[u].at = "chaining" /\ open' /\ id[threads[u].obj].my_fd =>
               /\ id'[threads[u].obj].my_fd
               /\ id'[threads[u].obj].state = id[threads[u].obj].state
       \/ /\ threads'[u] = Idle
          /\ threads[u].at # "idle" => ~ id'[threads[u].obj].pipe
          /\ threads[u].at = "chaining" /\ cb' # 0 => threads[u].next # cb'
  BY <1>2, <1>3, <1>5, <1>7, <1>8
<1> QED BY <1>3, <1>6, <1>7, <1>9 DEF Loses

\* Both.
LEMMA LosesChained ==
  ASSUME OrderInv, NEW t \in Threads, Chained(t) PROVE Loses
BY ChainedDoes, LosesTested, LosesThrough DEF OrderInv

\* The callbacks are those of the new object since it was made, unless it has its
\* request.
LEMMA LosesRearm ==
  ASSUME OrderInv, NEW t \in Threads, Rearm(t), ~ raced' PROVE Loses
<1>1. PICK o \in Objects, n \in Objects, j \in IdType : Rearmed(t, o, n, j)
  BY RearmDoes DEF OrderInv
<1>2. /\ o # n /\ id \in [Objects -> IdType] /\ threads \in [Threads -> ThreadType]
      /\ id[n].state # "none" /\ id[o].state # "none"
      /\ threads[t].at = "rearming" /\ threads[t].obj = o
  BY <1>1 DEF OrderInv, WatchInv, TypeOK, Holding, Turns, Rearmed, At, Chains, Made, ThreadType
<1>3. /\ \A p \in Objects : p # o => id'[p] = id[p]
      /\ id'[o] = j
      /\ \A u \in Threads : u # t => threads'[u] = threads[u]
      /\ threads'[t] = Idle
      /\ UNCHANGED <<sent, net, client, queue, taken, answered>> /\ open' = open
  BY <1>1, <1>2 DEF Rearmed
<1>4. /\ j.my_fd = id[o].my_fd /\ j.processed = id[o].processed
      /\ j.raw = id[o].raw /\ j.leftovers = id[o].leftovers /\ j.pipe = FALSE
      /\ j.state = (IF id[o].hold THEN id[o].state ELSE "dead")
  BY <1>1 DEF Rearmed
<1>5. cb' = cb
  <2>1. cb' = (IF open THEN n ELSE cb) /\ ~ id[n].processed
    BY <1>1 DEF Rearmed
  <2>2. open => cb = n
    BY <1>2, <2>1 DEF OrderInv, Line, Made
  <2> QED BY <2>1, <2>2
<1>6. \A p \in Objects :
       /\ id'[p].state = "none" <=> id[p].state = "none"
       /\ id[p].state = "none" => id'[p] = id[p]
       /\ id'[p].processed = id[p].processed /\ id'[p].raw = id[p].raw
       /\ id'[p].leftovers = id[p].leftovers
       /\ id'[p].my_fd => id[p].my_fd
       /\ id'[p].pipe => id[p].pipe /\ id'[p].state = id[p].state
       /\ p # o => id'[p] = id[p]
  BY <1>2, <1>3, <1>4
<1>7. \A u \in Threads : u # t /\ threads[u].at # "idle" =>
        threads[u].obj \in Objects /\ threads[u].obj # o
  BY <1>2 DEF OrderInv, WatchInv, Holding, Turns, On, At
<1>8. \A u \in Threads :
       \/ /\ threads'[u] = threads[u]
          /\ threads[u].at = "chaining" /\ open' /\ id[threads[u].obj].my_fd =>
               /\ id'[threads[u].obj].my_fd
               /\ id'[threads[u].obj].state = id[threads[u].obj].state
       \/ /\ threads'[u] = Idle
          /\ threads[u].at # "idle" => ~ id'[threads[u].obj].pipe
          /\ threads[u].at = "chaining" /\ cb' # 0 => threads[u].next # cb'
  BY <1>2, <1>3, <1>4, <1>6, <1>7
<1> QED BY <1>3, <1>5, <1>6, <1>8 DEF Loses

\* What the patient client sends on a connection where all is answered comes
\* behind what is unread.
LEMMA SendsUnread ==
  ASSUME TypeOK, ~ Eager, NEW s \in Seq(Bytes), Unread(s),
         Len(answered) = Len(taken),
         ClientSends \/ ClientErrs
  PROVE  Unread(s)'
<1>1. /\ sent \in Nat /\ Len(s) \in Nat /\ Len(net) \in Nat /\ Len(taken) \in Nat
      /\ net \in Seq(Bytes) /\ MaxRequests \in Nat /\ taken' = taken
  BY HTTPAssumption DEF TypeOK, ClientSends, ClientErrs
<1>2. CASE ClientSends
  <2>1. PICK n \in 1 .. 2 * MaxRequests - sent :
          sent' = sent + n /\ net' = net \o [k \in 1 .. n |-> sent + k]
    BY <1>2 DEF ClientSends
  <2>2. sent # 2 * MaxRequests /\ n \in Nat
    BY <1>1, <2>1
  <2>3. /\ Len(s) + Len(net) = sent - 2 * Len(taken)
        /\ Consecutive(s, 2 * Len(taken))
        /\ Consecutive(net, 2 * Len(taken) + Len(s))
    BY <2>2 DEF Unread
  <2> DEFINE f == [k \in 1 .. n |-> sent + k]
  <2>4. f \in Seq(Nat) /\ Len(f) = n /\ \A k \in 1 .. n : f[k] = sent + k
    BY <1>1, <2>2
  <2> HIDE DEF f
  <2>5. net \in Seq(Nat)
    BY <1>1 DEF Bytes
  <2>6. /\ Len(net') = Len(net) + n
        /\ \A k \in 1 .. Len(net) : net'[k] = net[k]
        /\ \A k \in 1 .. n : net'[Len(net) + k] = sent + k
    BY <1>1, <2>1, <2>2, <2>4, <2>5 DEF f
  <2>7. \A k \in 1 .. Len(net') : net'[k] = 2 * Len(taken) + Len(s) + k
    <3> SUFFICES ASSUME NEW k \in 1 .. Len(net') PROVE net'[k] = 2 * Len(taken) + Len(s) + k
      OBVIOUS
    <3>1. CASE k <= Len(net)
      <4>1. k \in 1 .. Len(net) /\ net'[k] = net[k]
        BY <1>1, <2>2, <2>6, <3>1
      <4> QED BY <2>3, <4>1 DEF Consecutive
    <3>2. CASE k > Len(net)
      <4>1. k - Len(net) \in 1 .. n /\ k = Len(net) + (k - Len(net))
        BY <1>1, <2>2, <2>6, <3>2
      <4>2. net'[k] = sent + (k - Len(net))
        BY <2>6, <4>1
      <4> QED BY <1>1, <2>3, <4>2, SMTT(30)
    <3> QED BY <1>1, <2>6, <3>1, <3>2
  <2>8. Len(s) + Len(net') = sent' - 2 * Len(taken')
    <3>1. sent' = sent + n /\ Len(net') = Len(net) + n /\ taken' = taken
      BY <1>1, <2>1, <2>6
    <3>2. Len(s) + Len(net) = sent - 2 * Len(taken)
      BY <2>3
    <3> QED BY <1>1, <2>2, <3>1, <3>2
  <2>9. Consecutive(s, 2 * Len(taken))' /\ Consecutive(net, 2 * Len(taken) + Len(s))'
    BY <1>1, <2>3, <2>7 DEF Consecutive
  <2> QED BY <2>8, <2>9 DEF Unread
<1>3. CASE ClientErrs
  <2>1. /\ Len(answered) = sent \div 2 /\ sent % 2 = 0 /\ sent # 2 * MaxRequests
        /\ sent' = 2 * MaxRequests /\ net' = Append(net, 0)
    BY <1>1, <1>3 DEF ClientErrs
  <2>2. Len(s) + Len(net) = sent - 2 * Len(taken)
    BY <2>1 DEF Unread
  <2>3. Len(s) = 0 /\ Len(net) = 0
    BY <1>1, <2>1, <2>2
  <2>4. s = <<>> /\ net = <<>>
    BY <1>1, <2>3
  <2> QED BY <2>1, <2>4 DEF Unread
<1> QED BY <1>2, <1>3

\* It does not send while an answer is missing or bytes are left over.
LEMMA SendsLast ==
  ASSUME TypeOK, ~ Eager, NEW s \in Seq(Bytes), Unread(s),
         \/ Len(answered) + 1 = Len(taken)
         \/ Len(answered) = Len(taken) /\ s # <<>> /\ sent % 2 = 0
  PROVE  ~ ClientSends /\ ~ ClientErrs
<1> SUFFICES ASSUME ClientSends \/ ClientErrs PROVE FALSE
  OBVIOUS
<1>1. /\ sent \in Nat /\ Len(s) \in Nat /\ Len(net) \in Nat /\ Len(taken) \in Nat
      /\ Len(answered) \in Nat /\ MaxRequests \in Nat
  BY HTTPAssumption DEF TypeOK
<1>2. sent # 2 * MaxRequests /\ Len(answered) = sent \div 2
  BY <1>1 DEF ClientSends, ClientErrs
<1>3. Len(s) + Len(net) = sent - 2 * Len(taken)
  BY <1>2 DEF Unread
<1>4. s # <<>> => Len(s) > 0
  OBVIOUS
<1>5. sent >= 2 * Len(taken) /\ sent <= 2 * Len(answered) + 1
  BY <1>1, <1>2, <1>3
<1>6. Len(answered) = Len(taken) /\ s # <<>> /\ sent % 2 = 0
  BY <1>1, <1>5
<1>7. sent > 2 * Len(taken)
  BY <1>1, <1>3, <1>4, <1>6
<1> QED BY <1>1, <1>5, <1>6, <1>7

\* A patient client sends nothing while an answer is outstanding.
LEMMA OrderClient ==
  ASSUME OrderInv, ~ Eager, ClientSends \/ ClientErrs \/ ClientChanges \/ UNCHANGED vars,
         WatchInv'
  PROVE  OrderInv'
<1> USE DEF OrderInv
<1>1. UNCHANGED <<open, cb, id, queue, threads, taken, answered, raced>>
  BY DEF ClientSends, ClientErrs, ClientChanges, vars
<1>2. Line' /\ Turns' /\ Whole'
  BY <1>1 DEF Line, Turns, Whole, Newest, Made, Live, At, On, Chains
<1>3. CASE ClientChanges \/ UNCHANGED vars
  <2>1. UNCHANGED <<sent, net>> /\ (client' # "gone" => client # "gone")
    BY <1>3 DEF ClientChanges, vars
  <2>2. Order'
    BY <1>1, <2>1, ZenonT(40) DEF Order, AllAnswered, Asked, Rest, Unread, Consecutive, On, At
  <2> QED BY <1>2, <2>2
<1>4. CASE ClientSends \/ ClientErrs
  <2>1. client # "gone" /\ client' = client
    BY <1>4 DEF ClientSends, ClientErrs
  <2>2. TypeOK /\ \A o \in Objects : id[o].raw \in Seq(Bytes) /\ id[o].leftovers \in Seq(Bytes)
    BY DEF WatchInv, TypeOK, IdType
  <2>3. \A o \in Objects : ~ Asked(o)
    BY <1>4, <2>1, <2>2, SendsLast DEF Order, Rest
  <2>4. \A o \in Objects : AllAnswered /\ Rest(o) => id[o].leftovers = <<>>
    BY <1>4, <2>1, <2>2, SendsLast DEF Rest, AllAnswered
  <2>5. sent' % 2 = 1 => sent' = 2 * Len(answered) + 1
    <3>1. CASE ClientErrs
      <4>1. sent' = 2 * MaxRequests /\ MaxRequests \in Nat
        BY <3>1, HTTPAssumption DEF ClientErrs
      <4> QED BY <4>1
    <3>2. CASE ClientSends
      <4>1. PICK n \in 1 .. 2 * MaxRequests - sent :
              /\ Len(answered) = sent \div 2 /\ (n = 1 \/ (sent + n) % 2 = 0)
              /\ sent' = sent + n
        BY <3>2 DEF ClientSends
      <4>2. sent \in Nat /\ n \in Nat
        BY <4>1, HTTPAssumption DEF WatchInv, TypeOK
      <4> QED BY <4>1, <4>2
    <3> QED BY <1>4, <3>1, <3>2
  <2>6. \A o \in Objects : ~ Asked(o)'
    BY <1>1, <2>3 DEF Asked, On, At
  <2>7. \A o \in Objects : AllAnswered /\ Rest(o) => AllAnswered' /\ Rest(o)'
    <3> SUFFICES ASSUME NEW o \in Objects, AllAnswered, Rest(o) PROVE AllAnswered' /\ Rest(o)'
      OBVIOUS
    <3>1. id[o].leftovers = <<>> /\ id'[o].leftovers = <<>>
      BY <1>1, <2>4
    <3>2. PICK s \in Seq(Bytes) : s = id[o].leftovers
      BY <2>2
    <3>3. Unread(s)'
      BY <1>4, <2>1, <2>2, <3>2, SendsUnread DEF Rest, AllAnswered
    <3>4. s = id'[o].leftovers
      BY <1>1, <3>2
    <3> QED BY <1>1, <2>1, <3>1, <3>3, <3>4 DEF Rest, AllAnswered, Unread, Consecutive
  <2>8. \A t \in Threads : At(t, "ending")' => AllAnswered' /\ Rest(threads[t].obj)'
    <3> SUFFICES ASSUME NEW t \in Threads, threads'[t].at = "ending"
                 PROVE  AllAnswered' /\ Rest(threads[t].obj)'
      BY DEF At
    <3>1. At(t, "ending") /\ threads[t].obj \in Objects /\ threads'[t] = threads[t]
      BY <1>1 DEF At, WatchInv, Holding
    <3>2. PICK o \in Objects : o = threads[t].obj
      BY <3>1
    <3>3. AllAnswered' /\ Rest(o)'
      BY <2>7, <3>1, <3>2 DEF Order
    <3>4. o = threads'[t].obj
      BY <3>1, <3>2
    <3> QED BY <3>3, <3>4 DEF Rest, Unread
  <2>9. \A t \in Threads : At(t, "chaining") => id[threads[t].obj].leftovers = <<>>
    BY <2>4 DEF Order, WatchInv, Holding, At
  <2>10. cb' # 0 =>
           AllAnswered' /\ Len(id'[cb'].raw) <= 1 /\ Unread(id[cb].raw)'
    <3> SUFFICES ASSUME cb # 0 PROVE AllAnswered' /\ Len(id'[cb'].raw) <= 1 /\ Unread(id[cb].raw)'
      BY <1>1
    <3>1. AllAnswered /\ Len(id[cb].raw) <= 1 /\ Unread(id[cb].raw) /\ cb \in Objects
      BY <2>9 DEF Order, WatchInv, TypeOK
    <3>2. PICK s \in Seq(Bytes) : s = id[cb].raw
      BY <2>2, <3>1
    <3>3. Unread(s)'
      BY <1>4, <2>1, <2>2, <3>1, <3>2, SendsUnread DEF AllAnswered
    <3>4. s = id'[cb'].raw
      BY <1>1, <3>2
    <3> QED BY <1>1, <2>1, <3>1, <3>3, <3>4 DEF AllAnswered, Unread
  <2>11. Order'
    <3>1. /\ Len(answered) <= Len(taken)
          /\ \A k \in 1 .. Len(answered) : answered[k] = taken[k]
      BY DEF Order
    <3>2. \A t \in Threads : At(t, "chaining")' => id'[threads'[t].obj].leftovers = <<>>
      BY <1>1, <2>9 DEF At
    <3> QED BY <1>1, <2>5, <2>6, <2>8, <2>10, <3>1, <3>2 DEF Order
  <2> QED BY <1>2, <2>11
<1> QED BY <1>3, <1>4

\* In bytes that follow each other from an even one, the second completes the
\* first request, and the rest follow it.
LEMMA FirstRequest ==
  ASSUME NEW r \in Seq(Bytes), NEW m \in Nat, Consecutive(r, 2 * m)
  PROVE  /\ Complete(r) <=> Len(r) >= 2
         /\ Complete(r) =>
              /\ Request(r) = <<2 * m + 1, 2 * m + 2>> /\ WellFormed(Request(r))
              /\ LastOf(r) = 2
              /\ Len(SubSeq(r, 3, Len(r))) = Len(r) - 2
              /\ Consecutive(SubSeq(r, 3, Len(r)), 2 * (m + 1))
<1>1. /\ Len(r) \in Nat /\ DOMAIN r = 1 .. Len(r)
      /\ \A k \in 1 .. Len(r) : r[k] = 2 * m + k
  BY DEF Consecutive
<1>2. Len(r) >= 2 => r[2] % 2 = 0 /\ r[1] % 2 = 1
  BY <1>1
<1>3. Complete(r) => Len(r) >= 2
  <2> SUFFICES ASSUME Complete(r), Len(r) < 2 PROVE FALSE
    BY <1>1
  <2>1. PICK k \in 1 .. Len(r) : r[k] % 2 = 0
    BY <1>1 DEF Complete
  <2>2. k = 1 /\ r[k] = 2 * m + 1
    BY <1>1, <2>1
  <2> QED BY <2>1, <2>2
<1>4. Len(r) >= 2 => Complete(r)
  BY <1>1, <1>2 DEF Complete
<1>5. ASSUME Complete(r)
      PROVE  /\ Request(r) = <<2 * m + 1, 2 * m + 2>> /\ WellFormed(Request(r))
             /\ LastOf(r) = 2
             /\ Len(SubSeq(r, 3, Len(r))) = Len(r) - 2
             /\ Consecutive(SubSeq(r, 3, Len(r)), 2 * (m + 1))
  <2>1. /\ LastOf(r) \in 1 .. Len(r) /\ r[LastOf(r)] % 2 = 0
        /\ \A j \in 1 .. LastOf(r) - 1 : r[j] % 2 = 1
    BY <1>5, LastOfFirst
  <2>2. Len(r) >= 2 /\ r[1] = 2 * m + 1 /\ r[2] = 2 * m + 2
    BY <1>1, <1>3, <1>5
  <2>3. r[1] % 2 = 1 /\ r[2] % 2 = 0
    BY <2>2
  <2>4. LastOf(r) = 2
    <3>1. LastOf(r) # 1
      BY <2>1, <2>3
    <3>2. ~ LastOf(r) > 2
      <4> SUFFICES ASSUME LastOf(r) > 2 PROVE FALSE
        OBVIOUS
      <4>1. 2 \in 1 .. LastOf(r) - 1
        BY <1>1, <2>1
      <4> QED BY <2>1, <2>3, <4>1
    <3> QED BY <1>1, <2>1, <3>1, <3>2
  <2>5. Request(r) = <<2 * m + 1, 2 * m + 2>>
    <3>1. Request(r) = SubSeq(r, 1, 2)
      BY <2>4 DEF Request
    <3>2. /\ SubSeq(r, 1, 2) \in Seq(Bytes) /\ Len(SubSeq(r, 1, 2)) = 2
          /\ SubSeq(r, 1, 2)[1] = r[1] /\ SubSeq(r, 1, 2)[2] = r[2]
      BY <1>1, <2>2
    <3> QED BY <2>2, <3>1, <3>2, PairIs
  <2>6. WellFormed(Request(r))
    BY <2>5 DEF WellFormed
  <2> DEFINE e == SubSeq(r, 3, Len(r))
  <2>7. Len(e) = Len(r) - 2 /\ \A k \in 1 .. Len(r) - 2 : e[k] = r[k + 2]
    BY <1>1, <2>2
  <2> HIDE DEF e
  <2>8. \A k \in 1 .. Len(e) : e[k] = 2 * (m + 1) + k
    <3> SUFFICES ASSUME NEW k \in 1 .. Len(e) PROVE e[k] = 2 * (m + 1) + k
      OBVIOUS
    <3>1. k + 2 \in 1 .. Len(r) /\ e[k] = r[k + 2]
      BY <1>1, <2>7
    <3>2. r[k + 2] = 2 * m + (k + 2)
      BY <1>1, <3>1
    <3> QED BY <1>1, <2>7, <3>1, <3>2
  <2> QED BY <2>4, <2>5, <2>6, <2>7, <2>8 DEF e, Consecutive
<1> QED BY <1>3, <1>4, <1>5

\* The object o, which waited for it, has got the next request, and i is what
\* it becomes.
Taking(o, i) ==
  /\ Made(o) /\ ~ id[o].processed /\ AllAnswered
  /\ id'[o] = i /\ i.state # "none" /\ i.processed /\ ~ i.pipe /\ i.raw \in Seq(Bytes)
  /\ Consecutive(i.raw, 2 * Len(taken)) /\ Len(i.raw) = sent - 2 * Len(taken)
  /\ Complete(i.raw) /\ i.leftovers = SubSeq(i.raw, LastOf(i.raw) + 1, Len(i.raw))
  /\ cb' = 0 /\ queue' = Append(queue, o) /\ taken' = Append(taken, Request(i.raw))
  /\ net' = <<>> /\ UNCHANGED <<sent, client, open, answered, raced>>
  /\ \A p \in Objects : p # o =>
       /\ id'[p].state = id[p].state /\ id'[p].processed = id[p].processed
       /\ id'[p].pipe = id[p].pipe
       /\ id[p].state = "none" => id'[p] = id[p]
  /\ \A u \in Threads :
       /\ threads'[u].obj = threads[u].obj /\ threads'[u].next = threads[u].next
       /\ \/ threads'[u].at = threads[u].at
          \/ threads[u].at = "chaining" /\ threads'[u].at = "chained"
       /\ threads'[u].at = "chaining" =>
            /\ id'[threads[u].obj].leftovers = <<>>
            /\ id'[threads[u].obj].my_fd = id[threads[u].obj].my_fd

\* An object that takes a request takes the next one.
LEMMA OrderTaking ==
  ASSUME OrderInv, NEW o \in Objects, NEW i, Taking(o, i), WatchInv'
  PROVE  OrderInv'
<1> USE DEF OrderInv
<1>1. Made(o) /\ ~ id[o].processed
  BY DEF Taking
<1>2. /\ Newest(o) /\ queue = <<>>
      /\ \A p \in Objects : ~ Asked(p) /\ ~ id[p].pipe
      /\ \A t \in Threads : ~ At(t, "handling") /\ ~ At(t, "ending")
      /\ \A t \in Threads : ~ On(t, o)
  BY <1>1, NobodyElse
<1>3. queue' = <<o>>
  BY <1>2 DEF Taking
<1>4. \A p \in Objects : Made(p)' <=> Made(p)
  BY <1>1 DEF Made, Taking
<1>5. \A p \in Objects : Newest(p)' <=> Newest(p)
  BY <1>4 DEF Newest
<1>6. \A p \in Objects : id'[p].processed \/ ~ Made(p)
  BY <1>2, NewestOne DEF Taking, Line
<1>7. \A p \in Objects : ~ id'[p].pipe
  BY <1>2 DEF Taking
<1>8. \A t \in Threads : ~ At(t, "handling")' /\ ~ At(t, "ending")'
  BY <1>2 DEF At, Taking
<1>9. \A t \in Threads, p \in Objects : On(t, p)' <=> On(t, p)
  BY DEF On, Taking
<1>10. Line'
  <2>1. \A p \in Objects : ~ Made(p)' => id'[p] = NewId
    BY <1>1, <1>4 DEF Line, Taking, Made
  <2>2. cb' = 0
    BY DEF Taking
  <2> QED BY <1>4, <1>6, <2>1, <2>2 DEF Line
<1>11. Turns'
  <2>1. \A t \in Threads :
          /\ ~ At(t, "idle")' => Made(threads[t].obj)'
          /\ Chains(t)' => threads'[t].next = threads'[t].obj + 1
    <3>1. \A t \in Threads : threads'[t].at # "idle" =>
            /\ threads'[t].obj = threads[t].obj /\ threads[t].at # "idle"
            /\ threads[t].obj \in Objects
      BY DEF Taking, WatchInv, Holding, At
    <3>2. \A t \in Threads : Chains(t)' => Chains(t)
      BY DEF Chains, Taking
    <3> QED BY <1>4, <3>1, <3>2 DEF Turns, At, Made, Taking
  <2>2. \A t \in Threads : At(t, "chaining")' /\ open' =>
          Live(threads[t].obj)' /\ id'[threads'[t].obj].my_fd
    <3> SUFFICES ASSUME NEW t \in Threads, threads'[t].at = "chaining", open'
                 PROVE  id'[threads'[t].obj].state = "live" /\ id'[threads'[t].obj].my_fd
      BY DEF At, Live
    <3>1. /\ threads[t].at = "chaining" /\ open /\ threads'[t].obj = threads[t].obj
          /\ id'[threads[t].obj].my_fd = id[threads[t].obj].my_fd
      BY DEF Taking
    <3>2. /\ id[threads[t].obj].state = "live" /\ id[threads[t].obj].my_fd
          /\ threads[t].obj \in Objects /\ id[threads[t].obj].processed
      BY <3>1 DEF Turns, At, Live, WatchInv, Holding
    <3>3. threads[t].obj # o
      BY <1>1, <3>2
    <3> QED BY <3>1, <3>2, <3>3 DEF Taking
  <2>3. \A t, u \in Threads, p \in Objects : On(t, p)' /\ On(u, p)' => t = u
    BY <1>9 DEF Turns
  <2>4. /\ Len(queue') = 1 /\ Newest(queue[1])' /\ ~ id'[queue'[1]].pipe
        /\ \A t \in Threads : ~ On(t, queue[1])'
    <3>1. Len(queue') = 1 /\ queue'[1] = o
      BY <1>3
    <3>2. Newest(o)' /\ ~ id'[o].pipe /\ \A t \in Threads : ~ On(t, o)'
      BY <1>2, <1>5, <1>7, <1>9
    <3> QED BY <3>1, <3>2 DEF Newest, Made, On
  <2> QED BY <1>7, <1>8, <2>1, <2>2, <2>3, <2>4 DEF Turns
<1>12. /\ taken \in Seq(Seq(Bytes)) /\ Len(taken) \in Nat /\ sent \in Nat /\ Len(answered) \in Nat
       /\ i.raw \in Seq(Bytes) /\ Len(i.raw) \in Nat
  <2>1. sent \in 0 .. 2 * MaxRequests /\ taken \in Seq(Seq(Bytes)) /\ answered \in Seq(Seq(Bytes))
    BY DEF WatchInv, TypeOK
  <2>2. i.raw \in Seq(Bytes)
    BY DEF Taking
  <2> QED BY <2>1, <2>2
<1> DEFINE m == Len(taken)
<1>13. /\ Len(i.raw) >= 2 /\ Request(i.raw) = <<2 * m + 1, 2 * m + 2>>
       /\ i.leftovers = SubSeq(i.raw, 3, Len(i.raw))
       /\ Len(i.leftovers) = Len(i.raw) - 2 /\ Consecutive(i.leftovers, 2 * (m + 1))
  <2>1. PICK r \in Seq(Bytes), l \in Nat : r = i.raw /\ l = m
    BY <1>12
  <2>2. Consecutive(r, 2 * l) /\ Complete(r) /\ i.leftovers = SubSeq(r, LastOf(r) + 1, Len(r))
    BY <2>1 DEF Taking
  <2>3. /\ Len(r) >= 2 /\ Request(r) = <<2 * l + 1, 2 * l + 2>> /\ LastOf(r) = 2
        /\ Len(SubSeq(r, 3, Len(r))) = Len(r) - 2
        /\ Consecutive(SubSeq(r, 3, Len(r)), 2 * (l + 1))
    BY <2>2, FirstRequest
  <2>4. i.leftovers = SubSeq(r, 3, Len(r))
    BY <2>2, <2>3
  <2> QED BY <2>1, <2>3, <2>4
<1>14. Request(i.raw) \in Seq(Bytes)
  BY <1>12, LastOfFirst DEF Taking
<1>15. /\ Len(taken') = m + 1 /\ DOMAIN taken' = 1 .. m + 1 /\ DOMAIN taken = 1 .. m
       /\ \A k \in 1 .. m : taken'[k] = taken[k]
       /\ taken'[m + 1] = Request(i.raw)
  BY <1>12, <1>14, AppendIs DEF Taking
<1>16. Whole'
  <2> SUFFICES ASSUME NEW k \in DOMAIN taken' PROVE taken'[k] \in {<<2 * k - 1, 2 * k>>, <<0>>}
    BY DEF Whole
  <2>1. CASE k \in 1 .. m
    BY <1>15, <2>1 DEF Whole
  <2>2. CASE k = m + 1
    <3>1. 2 * k - 1 = 2 * m + 1 /\ 2 * k = 2 * m + 2
      BY <1>12, <2>2
    <3> QED BY <1>13, <1>15, <2>2, <3>1
  <2> QED BY <1>12, <1>15, <2>1, <2>2
<1>17. Order'
  <2>1. /\ Len(answered') <= Len(taken')
        /\ \A k \in 1 .. Len(answered') : answered'[k] = taken'[k]
        /\ sent' % 2 = 1 => sent' = 2 * Len(answered') + 1
    <3>1. UNCHANGED <<sent, answered, raced>>
      BY DEF Taking
    <3>2. /\ Len(answered) <= m
          /\ \A k \in 1 .. Len(answered) : answered[k] = taken[k]
          /\ sent % 2 = 1 => sent = 2 * Len(answered) + 1
      BY DEF Order
    <3> QED BY <1>12, <1>15, <3>1, <3>2
  <2>2. sent % 2 = 0
    <3>1. Len(answered) <= m /\ (sent % 2 = 1 => sent = 2 * Len(answered) + 1)
      BY DEF Order
    <3>2. sent = Len(i.raw) + 2 * m
      BY <1>12 DEF Taking
    <3>3. Len(i.raw) >= 2 /\ m \in Nat
      BY <1>12, <1>13
    <3>4. sent % 2 # 1
      <4> HIDE DEF m
      <4>1. \A a, l, r \in Nat : a <= l /\ r >= 2 => 2 * a + 1 # r + 2 * l
        OBVIOUS
      <4> QED BY <1>12, <3>1, <3>2, <3>3, <4>1
    <3> QED BY <1>12, <3>4
  <2>3. Rest(o)'
    <3>1. id'[o].leftovers = i.leftovers /\ net' = <<>> /\ sent' = sent
      BY DEF Taking
    <3>2. Len(i.leftovers) + Len(net') = sent' - 2 * Len(taken')
      <4>1. /\ Len(i.leftovers) = Len(i.raw) - 2 /\ Len(taken') = m + 1 /\ m \in Nat
            /\ Len(i.raw) = sent - 2 * m /\ Len(net') = 0
        BY <1>12, <1>13, <1>15, <3>1 DEF Taking
      <4> QED BY <1>12, <3>1, <4>1
    <3>3. Consecutive(i.leftovers, 2 * Len(taken'))
      BY <1>13, <1>15
    <3>4. Consecutive(net', 2 * Len(taken') + Len(i.leftovers))
      BY <3>1 DEF Consecutive
    <3> QED BY <2>2, <3>1, <3>2, <3>3, <3>4 DEF Rest, Unread, Consecutive
  <2>4. \A p \in Objects : Asked(p)' => p = o
    BY <1>3, <1>7, <1>8 DEF Asked
  <2>5. \A p \in Objects : Asked(p)' =>
          /\ Len(taken') > 0 /\ taken'[Len(taken')] = Request(id'[p].raw)
          /\ client' # "gone" => Len(answered') + 1 = Len(taken')
          /\ Rest(p)'
    <3>1. Len(taken') > 0 /\ taken'[Len(taken')] = Request(id'[o].raw)
      BY <1>12, <1>15 DEF Taking
    <3>2. client' # "gone" => Len(answered') + 1 = Len(taken')
      BY <1>12, <1>15 DEF Taking, AllAnswered
    <3> QED BY <2>3, <2>4, <3>1, <3>2
  <2>6. \A t \in Threads : At(t, "chaining")' => id'[threads'[t].obj].leftovers = <<>>
    BY DEF Taking, At
  <2>7. cb' = 0
    BY DEF Taking
  <2> QED BY <1>8, <2>1, <2>5, <2>6, <2>7 DEF Order
<1> QED BY <1>10, <1>11, <1>16, <1>17

\* The object o still waits for its request, as i, or has given up.
Reading(o, i) ==
  /\ Made(o) /\ ~ id[o].processed /\ id' = [id EXCEPT ![o] = i]
  /\ i.state # "none" /\ ~ i.processed /\ ~ i.pipe
  /\ UNCHANGED <<sent, client, queue, threads, answered, raced>>
  /\ open' => open /\ (i.my_fd => id[o].my_fd) /\ cb' = cb
  /\ Len(answered) <= Len(taken') /\ \A k \in 1 .. Len(answered) : answered[k] = taken'[k]
  /\ cb' # 0 => cb' = o /\ AllAnswered' /\ Len(i.raw) <= 1 /\ Unread(i.raw)'

\* An object that reads part of a request reads what follows the last one.
LEMMA OrderReading ==
  ASSUME OrderInv, NEW o \in Objects, NEW i \in IdType, Reading(o, i), WatchInv', Whole',
         \A t \in Threads : At(t, "chaining") => id[threads[t].obj].leftovers = <<>>
  PROVE  OrderInv'
<1> USE DEF OrderInv
<1>1. Made(o) /\ ~ id[o].processed
  BY DEF Reading
<1>2. /\ Newest(o) /\ queue = <<>>
      /\ \A p \in Objects : ~ Asked(p) /\ ~ id[p].pipe
      /\ \A t \in Threads : ~ At(t, "handling") /\ ~ At(t, "ending")
      /\ \A t \in Threads : ~ On(t, o)
  BY <1>1, NobodyElse
<1>3. /\ id'[o] = i /\ \A p \in Objects : p # o => id'[p] = id[p]
      /\ queue' = <<>> /\ threads' = threads
  BY <1>2 DEF Reading, WatchInv, TypeOK
<1>4. \A p \in Objects : Made(p)' <=> Made(p)
  BY <1>1, <1>3 DEF Made, Reading
<1>5. \A p \in Objects : Newest(p)' <=> Newest(p)
  BY <1>4 DEF Newest
<1>6. \A p \in Objects : ~ id'[p].pipe
  BY <1>2, <1>3 DEF Reading
<1>7. \A t \in Threads : threads[t].at # "idle" => threads[t].obj \in Objects /\ threads[t].obj # o
  BY <1>1 DEF WatchInv, Holding, At
<1>8. Line'
  <2>1. \A p \in Objects : ~ Made(p)' => id'[p] = NewId
    BY <1>1, <1>3, <1>4 DEF Line
  <2>2. \A p \in Objects : Made(p)' /\ ~ id'[p].processed => Newest(p)'
    BY <1>1, <1>3, <1>4, <1>5 DEF Line
  <2>3. \A p \in Objects : Made(p)' /\ ~ id'[p].processed /\ open' => cb' = p
    BY <1>1, <1>3, <1>4 DEF Line, Reading
  <2>4. cb' # 0 => ~ id'[cb'].processed
    BY <1>3 DEF Reading
  <2> QED BY <1>4, <2>1, <2>2, <2>3, <2>4 DEF Line
<1>9. Turns'
  <2>1. \A t \in Threads :
          /\ ~ At(t, "idle")' => Made(threads[t].obj)'
          /\ ~ At(t, "handling")' /\ ~ At(t, "ending")'
          /\ Chains(t)' => threads'[t].next = threads'[t].obj + 1
    BY <1>2, <1>3, <1>7 DEF Turns, At, Made, Chains
  <2>2. \A t \in Threads : At(t, "chaining")' /\ open' =>
          Live(threads[t].obj)' /\ id'[threads'[t].obj].my_fd
    BY <1>3, <1>7 DEF Turns, At, Live, Reading
  <2>3. \A t, u \in Threads, p \in Objects : On(t, p)' /\ On(u, p)' => t = u
    BY <1>3 DEF Turns, On
  <2> QED BY <1>3, <1>6, <2>1, <2>2, <2>3 DEF Turns
<1>10. Order'
  <2>1. \A p \in Objects : ~ Asked(p)'
    BY <1>2, <1>3, <1>6 DEF Asked, At
  <2>2. \A t \in Threads : ~ At(t, "ending")'
    BY <1>2, <1>3 DEF At
  <2>3. \A t \in Threads : At(t, "chaining")' => id'[threads'[t].obj].leftovers = <<>>
    BY <1>3, <1>7 DEF At
  <2>4. cb' # 0 => AllAnswered' /\ Len(id'[cb'].raw) <= 1 /\ Unread(id[cb].raw)'
    <3> SUFFICES ASSUME cb' # 0 PROVE AllAnswered' /\ Len(id'[cb'].raw) <= 1 /\ Unread(id[cb].raw)'
      OBVIOUS
    <3>1. cb' = o /\ AllAnswered' /\ Len(i.raw) <= 1 /\ Unread(i.raw)'
      BY DEF Reading
    <3>2. i.raw = id'[cb'].raw
      BY <1>3, <3>1
    <3> QED BY <3>1, <3>2 DEF Unread
  <2>5. /\ Len(answered') <= Len(taken')
        /\ \A k \in 1 .. Len(answered') : answered'[k] = taken'[k]
        /\ sent' % 2 = 1 => sent' = 2 * Len(answered') + 1
    BY DEF Reading, Order
  <2> QED BY <2>1, <2>2, <2>3, <2>4, <2>5 DEF Order
<1> QED BY <1>8, <1>9, <1>10

\* Bytes, and others that follow them.
LEMMA ConsecutiveConcat ==
  ASSUME NEW r \in Seq(Bytes), NEW s \in Seq(Bytes), NEW b \in Nat,
         Consecutive(r, b), Consecutive(s, b + Len(r))
  PROVE  Consecutive(r \o s, b)
<1>1. Len(r) \in Nat /\ Len(s) \in Nat /\ Len(r \o s) = Len(r) + Len(s)
  OBVIOUS
<1>2. /\ \A k \in 1 .. Len(r) : (r \o s)[k] = r[k]
      /\ \A k \in 1 .. Len(s) : (r \o s)[Len(r) + k] = s[k]
  OBVIOUS
<1> SUFFICES ASSUME NEW k \in 1 .. Len(r \o s) PROVE (r \o s)[k] = b + k
  BY DEF Consecutive
<1>3. CASE k <= Len(r)
  <2>1. k \in 1 .. Len(r)
    BY <1>1, <1>3
  <2> QED BY <1>2, <2>1 DEF Consecutive
<1>4. CASE k > Len(r)
  <2>1. k - Len(r) \in 1 .. Len(s) /\ k = Len(r) + (k - Len(r))
    BY <1>1, <1>4
  <2>2. (r \o s)[k] = s[k - Len(r)]
    BY <1>2, <2>1
  <2>3. s[k - Len(r)] = (b + Len(r)) + (k - Len(r))
    BY <2>1 DEF Consecutive
  <2> QED BY <1>1, <2>2, <2>3
<1> QED BY <1>1, <1>3, <1>4

\* The line that is no request is not one.
LEMMA NoRequest ==
  /\ Complete(<<0>>) /\ Request(<<0>>) = <<0>> /\ ~ WellFormed(Request(<<0>>))
<1>1. <<0>> \in Seq(Bytes) /\ Len(<<0>>) = 1 /\ <<0>>[1] = 0 /\ DOMAIN <<0>> = 1 .. 1
  BY HTTPAssumption DEF Bytes
<1>2. Complete(<<0>>)
  BY <1>1 DEF Complete
<1>3. LastOf(<<0>>) = 1
  <2>1. LastOf(<<0>>) \in 1 .. Len(<<0>>)
    BY <1>1, <1>2, LastOfFirst
  <2> QED BY <1>1, <2>1
<1>4. Request(<<0>>) = <<0>>
  <2>1. Request(<<0>>) = SubSeq(<<0>>, 1, 1)
    BY <1>3 DEF Request
  <2>2. SubSeq(<<0>>, 1, Len(<<0>>)) = <<0>>
    BY <1>1, SubSeqAll
  <2> QED BY <1>1, <2>1, <2>2
<1>5. Len(Request(<<0>>)) = 1
  BY <1>1, <1>4
<1> QED BY <1>2, <1>4, <1>5 DEF WellFormed

\* read_callback(): each outcome of got_data() keeps the order.
LEMMA OrderRead ==
  ASSUME OrderInv, ReadCallback, WatchInv' PROVE OrderInv'
<1> USE DEF OrderInv
<1>1. /\ cb # 0 /\ cb \in Objects /\ id \in [Objects -> IdType] /\ net \in Seq(Bytes)
      /\ net # <<>> /\ GotData(id, cb, net) /\ net' = <<>>
      /\ UNCHANGED <<sent, client, threads, answered, raced>>
  BY DEF ReadCallback, HasCallbacks, WatchInv, TypeOK, clientVars
<1>2. PICK o \in Objects : o = cb
  BY <1>1
<1>3. Made(o) /\ ~ id[o].processed /\ id[o].state = "live" /\ id[o].my_fd
  BY <1>1, <1>2, CallbackIs DEF Live
<1>4. PICK i \in IdType : Got(id, o, net, i)
  BY <1>1, <1>2, GotDataDoes
<1>5. /\ id' = [id EXCEPT ![o] = i] /\ i.raw = id[o].raw \o net /\ i.hold = id[o].hold
      /\ GotPart(id, o, i) \/ GotRequest(id, o, i) \/ GotNone(id, o, i)
  BY <1>4 DEF Got
<1>6. \A t \in Threads : At(t, "chaining") => id[threads[t].obj].leftovers = <<>>
  BY <1>1 DEF Order, Rest
<1>7. AllAnswered /\ Len(id[o].raw) <= 1 /\ Unread(id[o].raw)
  BY <1>1, <1>2, <1>6 DEF Order
<1>8. /\ id[o].raw \in Seq(Bytes) /\ i.raw \in Seq(Bytes) /\ Len(taken) \in Nat
      /\ taken \in Seq(Seq(Bytes)) /\ sent \in Nat /\ Len(id[o].raw) \in Nat
      /\ Len(net) \in Nat /\ Len(i.raw) = Len(id[o].raw) + Len(net)
      /\ Len(answered) \in Nat
  <2>1. sent \in 0 .. 2 * MaxRequests /\ taken \in Seq(Seq(Bytes))
        /\ answered \in Seq(Seq(Bytes))
    BY DEF WatchInv, TypeOK
  <2>2. id[o].raw \in Seq(Bytes) /\ i.raw \in Seq(Bytes)
    BY <1>1 DEF IdType
  <2> QED BY <1>1, <1>5, <2>1, <2>2
<1>9. \A p \in Objects : ~ id[p].pipe
  BY <1>3, NobodyElse
<1>10. CASE /\ Len(id[o].raw) + Len(net) = sent - 2 * Len(taken)
            /\ Consecutive(id[o].raw, 2 * Len(taken))
            /\ Consecutive(net, 2 * Len(taken) + Len(id[o].raw))
  <2>1. Consecutive(i.raw, 2 * Len(taken)) /\ Len(i.raw) = sent - 2 * Len(taken)
    <3>1. PICK r \in Seq(Bytes), s \in Seq(Bytes), b \in Nat :
            r = id[o].raw /\ s = net /\ b = 2 * Len(taken)
      BY <1>1, <1>8
    <3>2. Consecutive(r \o s, b)
      BY <1>10, <3>1, ConsecutiveConcat
    <3> QED BY <1>5, <1>8, <1>10, <3>1, <3>2
  <2>2. /\ Complete(i.raw) <=> Len(i.raw) >= 2
        /\ Complete(i.raw) => WellFormed(Request(i.raw))
    <3>1. PICK r \in Seq(Bytes), m \in Nat : r = i.raw /\ m = Len(taken)
      BY <1>8
    <3>2. Consecutive(r, 2 * m)
      BY <2>1, <3>1
    <3> QED BY <3>1, <3>2, FirstRequest
  <2>3. CASE GotPart(id, o, i)
    <3>1. /\ ~ Complete(i.raw) /\ i.state = id[o].state /\ i.my_fd = id[o].my_fd
          /\ i.pipe = id[o].pipe /\ i.processed = id[o].processed
          /\ UNCHANGED <<open, cb, queue, taken>>
      BY <1>3, <2>3 DEF GotPart
    <3>2. Len(i.raw) <= 1
      BY <1>8, <2>2, <3>1
    <3>3. Unread(i.raw)'
      <4>1. Len(i.raw) + Len(net') = sent' - 2 * Len(taken')
        <5>1. Len(net') = 0
          BY <1>1
        <5>2. Len(i.raw) = sent' - 2 * Len(taken')
          BY <1>1, <2>1, <3>1
        <5>3. Len(i.raw) \in Nat
          BY <1>8
        <5> QED BY <5>1, <5>2, <5>3
      <4>2. Consecutive(i.raw, 2 * Len(taken)) /\ Consecutive(net, 2 * Len(taken) + Len(i.raw))'
        BY <1>1, <2>1 DEF Consecutive
      <4> QED BY <3>1, <4>1, <4>2 DEF Unread, Consecutive
    <3>4. AllAnswered'
      BY <1>1, <1>7, <3>1 DEF AllAnswered
    <3>5. Whole'
      BY <3>1 DEF Whole
    <3>6. Reading(o, i)
      BY <1>1, <1>2, <1>3, <1>5, <1>9, <3>1, <3>2, <3>3, <3>4 DEF Reading, Order
    <3> QED BY <1>6, <3>5, <3>6, OrderReading
  <2>4. CASE GotRequest(id, o, i)
    <3>1. /\ Complete(i.raw) /\ i.state = id[o].state /\ i.pipe = id[o].pipe
          /\ i.leftovers = SubSeq(i.raw, LastOf(i.raw) + 1, Len(i.raw)) /\ i.processed = TRUE
          /\ cb' = 0 /\ queue' = Append(queue, o) /\ UNCHANGED open
          /\ taken' = Append(taken, Request(i.raw))
      BY <2>4 DEF GotRequest
    <3>2. id'[o] = i /\ \A p \in Objects : p # o => id'[p] = id[p]
      BY <1>1, <1>5
    <3>3. \A u \in Threads : threads[u].at = "chaining" =>
            /\ id'[threads[u].obj] = id[threads[u].obj]
            /\ id[threads[u].obj].leftovers = <<>>
      BY <1>3, <1>6, <3>2 DEF WatchInv, Holding, At
    <3>4. Taking(o, i)
      BY <1>1, <1>3, <1>7, <1>8, <1>9, <2>1, <3>1, <3>2, <3>3 DEF Taking
    <3> QED BY <3>4, OrderTaking
  <2> QED BY <1>5, <2>2, <2>3, <2>4 DEF GotNone
<1>11. CASE id[o].raw = <<>> /\ net = <<0>> /\ sent = 2 * MaxRequests
  <2>1. i.raw = <<0>>
    BY <1>5, <1>11
  <2>2. GotNone(id, o, i) /\ Request(i.raw) = <<0>>
    BY <1>3, <1>5, <2>1, NoRequest DEF GotPart, GotRequest
  <2>3. /\ i.state = (IF id[o].hold THEN id[o].state ELSE "dead")
        /\ i.pipe = FALSE /\ i.processed = id[o].processed
        /\ open' = FALSE /\ cb' = 0 /\ UNCHANGED queue
        /\ taken' = Append(taken, <<0>>)
    BY <2>2 DEF GotNone
  <2>4. <<0>> \in Seq(Bytes)
    BY HTTPAssumption DEF Bytes
  <2>5. /\ Len(taken') = Len(taken) + 1
        /\ DOMAIN taken' = 1 .. Len(taken) + 1 /\ DOMAIN taken = 1 .. Len(taken)
        /\ \A k \in 1 .. Len(taken) : taken'[k] = taken[k]
        /\ taken'[Len(taken) + 1] = <<0>>
    BY <1>8, <2>3, <2>4, AppendIs
  <2>6. Whole'
    <3> SUFFICES ASSUME NEW k \in DOMAIN taken' PROVE taken'[k] \in {<<2 * k - 1, 2 * k>>, <<0>>}
      BY DEF Whole
    <3>1. CASE k \in 1 .. Len(taken)
      BY <2>5, <3>1 DEF Whole
    <3>2. CASE k = Len(taken) + 1
      BY <2>5, <3>2
    <3> QED BY <1>8, <2>5, <3>1, <3>2
  <2>7. /\ Len(answered) <= Len(taken')
        /\ \A k \in 1 .. Len(answered) : answered[k] = taken'[k]
    <3>1. Len(answered) <= Len(taken) /\ \A k \in 1 .. Len(answered) : answered[k] = taken[k]
      BY DEF Order
    <3>2. \A k \in 1 .. Len(answered) : k \in 1 .. Len(taken)
      BY <1>8, <3>1
    <3> QED BY <1>8, <2>5, <3>1, <3>2
  <2>8. i.state # "none"
    BY <1>3, <2>3
  <2>9. Reading(o, i)
    BY <1>1, <1>3, <1>5, <2>3, <2>7, <2>8 DEF Reading
  <2> QED BY <1>6, <2>6, <2>9, OrderReading
<1> QED BY <1>7, <1>10, <1>11 DEF Unread

\* Once the newest object has its request, no object waits for one.
LEMMA AllTaken ==
  ASSUME OrderInv, NEW o \in Objects, Newest(o), id[o].processed
  PROVE  /\ \A p \in Objects : Made(p) => id[p].processed
         /\ cb = 0
         /\ \A t \in Threads : At(t, "chaining") => id[threads[t].obj].leftovers = <<>>
         /\ \A t \in Threads : At(t, "handling") \/ At(t, "ending") => threads[t].obj = o
         /\ \A p \in Objects : p # o => ~ id[p].pipe
         /\ queue # <<>> => queue = <<o>>
<1> USE DEF OrderInv
<1>1. \A p \in Objects : Made(p) => id[p].processed
  BY NewestOne DEF Line
<1>2. cb = 0
  BY <1>1, CallbackIs
<1>3. \A t \in Threads : At(t, "chaining") => id[threads[t].obj].leftovers = <<>>
  BY <1>1 DEF Order, WatchInv, Holding, At, Chains
<1>4. \A t \in Threads : At(t, "handling") \/ At(t, "ending") => threads[t].obj = o
  BY NewestOne DEF Turns, WatchInv, Holding, At
<1>5. \A p \in Objects : p # o => ~ id[p].pipe
  BY NewestOne DEF Turns
<1>6. queue # <<>> => queue = <<o>>
  <2> SUFFICES ASSUME queue # <<>> PROVE queue = <<o>>
    OBVIOUS
  <2>1. queue \in Seq(Objects) /\ Len(queue) = 1 /\ Newest(queue[1]) /\ queue[1] \in Objects
    BY TailIs DEF WatchInv, TypeOK, Turns
  <2>2. queue[1] = o
    BY <2>1, NewestOne
  <2> QED BY <2>1, <2>2
<1> QED BY <1>1, <1>2, <1>3, <1>4, <1>5, <1>6

\* A step by which the newest object o, which has its request, comes from one
\* place to the next: t becomes w.
Turning(t, w, o) ==
  /\ Newest(o) /\ id[o].processed /\ Rest(o)
  /\ threads' = [threads EXCEPT ![t] = w] /\ threads[t].at \in {"idle", "handling"}
  /\ w.at \in {"idle", "handling", "ending"} /\ (w.at # "idle" => w.obj = o)
  /\ w.at = "handling" => t \in Workers
  /\ \A u \in Threads : u # t => ~ On(u, o)
  /\ queue' = <<>> /\ UNCHANGED <<sent, net, client, open, cb, taken, raced>>
  /\ \A p \in Objects :
       /\ id'[p].state = id[p].state /\ id'[p].my_fd = id[p].my_fd
       /\ id'[p].processed = id[p].processed /\ id'[p].raw = id[p].raw
       /\ id'[p].leftovers = id[p].leftovers
       /\ id[p].state = "none" => id'[p] = id[p]
       /\ p # o => id'[p].pipe = id[p].pipe
  /\ id'[o].pipe => id[o].state = "live" /\ (w.at = "idle" \/ (t = "backend" /\ w.at = "ending"))
  /\ Len(answered') <= Len(taken) /\ \A k \in 1 .. Len(answered') : answered'[k] = taken[k]
  /\ sent % 2 = 1 => sent = 2 * Len(answered') + 1
  /\ w.at = "ending" => AllAnswered'
  /\ w.at = "handling" \/ (w.at = "idle" /\ id'[o].pipe) =>
       /\ Len(taken) > 0 /\ taken[Len(taken)] = Request(id[o].raw)
       /\ client # "gone" => Len(answered') + 1 = Len(taken)

\* The turn of one thread with the newest object.
LEMMA OrderTurning ==
  ASSUME OrderInv, NEW t \in Threads, NEW w \in ThreadType, NEW o \in Objects,
         Turning(t, w, o), WatchInv'
  PROVE  OrderInv'
<1> USE DEF OrderInv
<1>1. Newest(o) /\ id[o].processed /\ Rest(o)
  BY DEF Turning
<1>2. /\ \A p \in Objects : Made(p) => id[p].processed
      /\ cb = 0
      /\ \A u \in Threads : At(u, "chaining") => id[threads[u].obj].leftovers = <<>>
      /\ \A u \in Threads : At(u, "handling") \/ At(u, "ending") => threads[u].obj = o
      /\ \A p \in Objects : p # o => ~ id[p].pipe
  BY <1>1, AllTaken
<1>3. /\ \A p \in Objects : Made(p)' <=> Made(p)
      /\ \A p \in Objects : p # o => ~ id'[p].pipe
  BY <1>2 DEF Made, Turning
<1>4. \A p \in Objects : Newest(p)' <=> Newest(p)
  BY <1>3 DEF Newest
<1>5. /\ \A u \in Threads : u # t => threads'[u] = threads[u]
      /\ threads'[t] = w /\ queue' = <<>>
  BY DEF Turning, WatchInv, TypeOK
<1>6. \A u \in Threads : u # t => ~ On(u, o) /\ ~ On(u, o)'
  BY <1>5 DEF Turning, On
<1>7. \A u \in Threads : u # t => ~ At(u, "handling")' /\ ~ At(u, "ending")'
  BY <1>2, <1>5, <1>6 DEF On, At
<1>8. Line'
  BY <1>2, <1>3 DEF Line, Turning, Made
<1>9. \A u \in Threads : threads[u].at # "idle" => threads[u].obj \in Objects
  BY DEF WatchInv, Holding, At
<1>10. Turns'
  <2>1. \A u \in Threads :
          /\ ~ At(u, "idle")' => Made(threads[u].obj)'
          /\ At(u, "handling")' => u \in Workers
          /\ Chains(u)' => threads'[u].next = threads'[u].obj + 1
    BY <1>1, <1>3, <1>5, <1>7, <1>9 DEF Turns, Turning, At, Chains, Made, Newest
  <2>2. \A u \in Threads : At(u, "handling")' \/ At(u, "ending")' => Newest(threads[u].obj)'
    <3>1. w.at # "idle" => threads'[t].obj = o
      BY <1>5 DEF Turning
    <3>2. Newest(o)'
      BY <1>1, <1>4
    <3> QED BY <1>5, <1>7, <3>1, <3>2 DEF At, Newest, Made
  <2>3. \A u \in Threads : At(u, "chaining")' /\ open' =>
          Live(threads[u].obj)' /\ id'[threads'[u].obj].my_fd
    BY <1>5, <1>9 DEF Turns, Turning, At, Live
  <2>4. \A u, v \in Threads, p \in Objects : On(u, p)' /\ On(v, p)' => u = v
    <3>1. \A u \in Threads, p \in Objects : u # t /\ On(u, p)' => On(u, p) /\ p # o
      BY <1>5, <1>6 DEF On
    <3>2. \A p \in Objects : On(t, p)' => p = o
      BY <1>5 DEF On, Turning
    <3> QED BY <3>1, <3>2 DEF Turns
  <2>5. \A p \in Objects : id'[p].pipe =>
          /\ Newest(p)' /\ Live(p)'
          /\ \A u \in Threads : On(u, p)' => u = "backend" /\ At(u, "ending")'
    <3> SUFFICES ASSUME id'[o].pipe
                 PROVE  /\ Newest(o)' /\ Live(o)'
                        /\ \A u \in Threads : On(u, o)' => u = "backend" /\ At(u, "ending")'
      BY <1>3
    <3> QED BY <1>1, <1>4, <1>5, <1>6 DEF Turning, Live, On, At
  <2> QED BY <1>5, <2>1, <2>2, <2>3, <2>4, <2>5 DEF Turns
<1>11. Whole'
  BY DEF Whole, Turning
<1>12. Order'
  <2>1. Rest(o)'
    <3>1. UNCHANGED <<sent, net, taken>> /\ id'[o].leftovers = id[o].leftovers
      BY DEF Turning
    <3> QED BY <1>1, <3>1 DEF Rest, Unread, Consecutive
  <2>2. \A p \in Objects : Asked(p)' =>
          p = o /\ (w.at = "handling" \/ (w.at = "idle" /\ id'[o].pipe))
    <3> SUFFICES ASSUME NEW p \in Objects, Asked(p)'
                 PROVE  p = o /\ (w.at = "handling" \/ (w.at = "idle" /\ id'[o].pipe))
      OBVIOUS
    <3>1. CASE \E u \in Threads : On(u, p)' /\ At(u, "handling")'
      BY <1>5, <1>7, <3>1 DEF On, At, Turning
    <3>2. CASE id'[p].pipe /\ \A u \in Threads : ~ On(u, p)'
      <4>1. p = o
        BY <1>3, <3>2
      <4>2. w.at = "idle"
        BY <1>5, <3>2, <4>1 DEF Turning, On
      <4> QED BY <3>2, <4>1, <4>2
    <3>3. queue' # <<p>>
      BY <1>5
    <3> QED BY <3>1, <3>2, <3>3 DEF Asked
  <2>3. \A p \in Objects : Asked(p)' =>
          /\ Len(taken') > 0 /\ taken'[Len(taken')] = Request(id'[p].raw)
          /\ client' # "gone" => Len(answered') + 1 = Len(taken')
          /\ Rest(p)'
    BY <2>1, <2>2 DEF Turning
  <2>4. \A u \in Threads : At(u, "ending")' => AllAnswered' /\ Rest(threads[u].obj)'
    <3> SUFFICES ASSUME NEW u \in Threads, At(u, "ending")'
                 PROVE  AllAnswered' /\ Rest(threads[u].obj)'
      OBVIOUS
    <3>1. u = t /\ w.at = "ending" /\ threads'[u].obj = o /\ AllAnswered'
      BY <1>5, <1>7 DEF At, Turning
    <3> QED BY <2>1, <3>1 DEF Rest, Unread
  <2>5. \A u \in Threads : At(u, "chaining")' => id'[threads'[u].obj].leftovers = <<>>
    BY <1>2, <1>5, <1>9 DEF Turning, At
  <2>6. cb' = 0
    BY <1>2 DEF Turning
  <2>7. /\ Len(answered') <= Len(taken')
        /\ \A k \in 1 .. Len(answered') : answered'[k] = taken'[k]
        /\ sent' % 2 = 1 => sent' = 2 * Len(answered') + 1
    BY DEF Turning
  <2> QED BY <2>3, <2>4, <2>5, <2>6, <2>7 DEF Order
<1> QED BY <1>8, <1>10, <1>11, <1>12

\* A worker takes the only object of the queue.
LEMMA OrderHandle ==
  ASSUME OrderInv, NEW t \in Threads, Handle(t), WatchInv' PROVE OrderInv'
<1> USE DEF OrderInv
<1>1. /\ id \in [Objects -> IdType] /\ queue \in Seq(Objects) /\ queue # <<>>
      /\ threads \in [Threads -> ThreadType] /\ t \in Workers /\ threads[t].at = "idle"
      /\ queue' = Tail(queue) /\ UNCHANGED <<sent, net, client, open, cb, taken, answered, raced>>
  BY DEF Handle, WatchInv, TypeOK, ThreadType, At, clientVars
<1>2. PICK o \in Objects : o = queue[1] /\ o = Head(queue)
  BY <1>1, TailIs
<1>3. Len(queue) = 1 /\ Newest(o) /\ ~ id[o].pipe /\ \A u \in Threads : ~ On(u, o)
  BY <1>1, <1>2 DEF Turns
<1>4. queue = <<o>> /\ queue' = <<>>
  BY <1>1, <1>2, <1>3
<1>5. Asked(o)
  BY <1>4 DEF Asked
<1>6. /\ Len(taken) > 0 /\ taken[Len(taken)] = Request(id[o].raw) /\ Rest(o)
      /\ client # "gone" => Len(answered) + 1 = Len(taken)
      /\ id[o].processed
  BY <1>5, AskedNewest DEF Order
<1>7. /\ Len(answered) <= Len(taken) /\ \A k \in 1 .. Len(answered) : answered[k] = taken[k]
      /\ sent % 2 = 1 => sent = 2 * Len(answered) + 1
  BY DEF Order
<1>8. CASE Live(o)
  <2>1. PICK w \in ThreadType : w = [at |-> "handling", obj |-> o, next |-> 0]
    BY DEF ThreadType
  <2>2. w.at = "handling" /\ w.obj = o
    BY <2>1
  <2>3. /\ id' = [id EXCEPT ![o].timeouts = IF @ = 0 THEN 0 ELSE @ - 1]
        /\ threads' = [threads EXCEPT ![t] = w]
    BY <1>2, <1>8, <2>1 DEF Handle, Goes
  <2>4. \A p \in Objects :
          /\ id'[p].state = id[p].state /\ id'[p].my_fd = id[p].my_fd
          /\ id'[p].processed = id[p].processed /\ id'[p].raw = id[p].raw
          /\ id'[p].leftovers = id[p].leftovers /\ id'[p].pipe = id[p].pipe
          /\ p # o => id'[p] = id[p]
    BY <1>1, <2>3, SMTT(30) DEF IdType
  <2>5. id[o].state # "none" /\ ~ id'[o].pipe
    BY <1>3, <1>8, <2>4 DEF Live
  <2>6. Turning(t, w, o)
    BY <1>1, <1>3, <1>4, <1>6, <1>7, <2>2, <2>3, <2>4, <2>5 DEF Turning
  <2> QED BY <2>6, OrderTurning
<1>9. CASE ~ Live(o)
  <2>1. UNCHANGED <<id, threads>>
    BY <1>2, <1>9 DEF Handle
  <2>2. PICK w \in ThreadType : w = threads[t]
    BY <1>1
  <2>3. w.at = "idle" /\ threads' = [threads EXCEPT ![t] = w]
    BY <1>1, <2>1, <2>2
  <2>4. Turning(t, w, o)
    BY <1>1, <1>3, <1>4, <1>6, <1>7, <2>1, <2>3 DEF Turning
  <2> QED BY <2>4, OrderTurning
<1> QED BY <1>8, <1>9

\* What is sent is the answer to the last request taken.
LEMMA OrderSent ==
  ASSUME OrderInv, NEW t \in Threads, NEW o \in Objects, Asked(o), Sent(o),
         queue = <<>>, threads[t].at \in {"idle", "handling"},
         \A u \in Threads : u # t => ~ On(u, o),
         id[o].pipe => Live(o) /\ t = "backend",
         Goes(t, "ending", o, 0), UNCHANGED <<sent, net, client, open, cb, id, queue, taken, raced>>,
         WatchInv'
  PROVE  OrderInv'
<1> USE DEF OrderInv
<1>1. /\ Len(taken) > 0 /\ taken[Len(taken)] = Request(id[o].raw) /\ Rest(o)
      /\ client # "gone" => Len(answered) + 1 = Len(taken)
      /\ Newest(o) /\ id[o].processed
  BY AskedNewest DEF Order
<1>2. /\ Len(answered) <= Len(taken) /\ \A k \in 1 .. Len(answered) : answered[k] = taken[k]
      /\ sent % 2 = 1 => sent = 2 * Len(answered) + 1
  BY DEF Order
<1>3. /\ taken \in Seq(Seq(Bytes)) /\ answered \in Seq(Seq(Bytes)) /\ sent \in Nat
      /\ Len(taken) \in Nat /\ Len(answered) \in Nat /\ MaxRequests \in Nat
      /\ id[o].raw \in Seq(Bytes) /\ id[o].leftovers \in Seq(Bytes) /\ net \in Seq(Bytes)
  <2>1. sent \in 0 .. 2 * MaxRequests /\ taken \in Seq(Seq(Bytes))
        /\ answered \in Seq(Seq(Bytes)) /\ net \in Seq(Bytes)
    BY DEF WatchInv, TypeOK
  <2>2. id[o].raw \in Seq(Bytes) /\ id[o].leftovers \in Seq(Bytes)
    BY DEF WatchInv, TypeOK, IdType
  <2> QED BY <2>1, <2>2, HTTPAssumption
<1>4. Request(id[o].raw) \in Seq(Bytes)
  BY <1>1, <1>3, LastOfFirst DEF WatchInv, Holding
<1>5. CASE client = "gone"
  <2>1. answered' = answered
    BY <1>5 DEF Sent
  <2>2. /\ Len(answered') <= Len(taken) /\ \A k \in 1 .. Len(answered') : answered'[k] = taken[k]
        /\ sent % 2 = 1 => sent = 2 * Len(answered') + 1
        /\ AllAnswered'
    BY <1>2, <1>5, <2>1 DEF AllAnswered
  <2>3. PICK w \in ThreadType : w = [at |-> "ending", obj |-> o, next |-> 0]
    BY DEF ThreadType
  <2>4. w.at = "ending" /\ w.obj = o /\ threads' = [threads EXCEPT ![t] = w]
    BY <2>3 DEF Goes
  <2>5. Turning(t, w, o)
    BY <1>1, <2>2, <2>4 DEF Turning, Live
  <2> QED BY <2>5, OrderTurning
<1>6. CASE client # "gone"
  <2>1. answered' = Append(answered, Request(id[o].raw)) /\ Len(answered) + 1 = Len(taken)
    BY <1>1, <1>6 DEF Sent
  <2>2. /\ Len(answered') = Len(taken)
        /\ \A k \in 1 .. Len(answered) : answered'[k] = answered[k]
        /\ answered'[Len(taken)] = Request(id[o].raw)
    BY <1>3, <1>4, <2>1, AppendIs
  <2>3. \A k \in 1 .. Len(answered') : answered'[k] = taken[k]
    <3> SUFFICES ASSUME NEW k \in 1 .. Len(answered') PROVE answered'[k] = taken[k]
      OBVIOUS
    <3>1. k \in 1 .. Len(answered) \/ k = Len(taken)
      BY <1>3, <2>1, <2>2
    <3> QED BY <1>1, <1>2, <2>2, <3>1
  <2>4. sent % 2 = 0
    <3>1. sent >= 2 * Len(taken) \/ sent = 2 * MaxRequests
      <4>1. Len(id[o].leftovers) \in Nat /\ Len(net) \in Nat
        BY <1>3
      <4>2. \/ Len(id[o].leftovers) + Len(net) = sent - 2 * Len(taken)
            \/ sent = 2 * MaxRequests
        BY <1>1 DEF Rest, Unread
      <4> QED BY <1>3, <4>1, <4>2
    <3>2. \A m \in Nat : (2 * m) % 2 = 0
      OBVIOUS
    <3>3. CASE sent = 2 * MaxRequests
      BY <1>3, <3>2, <3>3
    <3>4. CASE sent >= 2 * Len(taken)
      <4>1. sent # 2 * Len(answered) + 1
        BY <1>3, <2>1, <3>4
      <4> QED BY <1>2, <1>3, <4>1
    <3> QED BY <3>1, <3>3, <3>4
  <2>5. AllAnswered' /\ Len(answered') <= Len(taken)
    BY <1>3, <2>2 DEF AllAnswered
  <2>6. PICK w \in ThreadType : w = [at |-> "ending", obj |-> o, next |-> 0]
    BY DEF ThreadType
  <2>7. w.at = "ending" /\ w.obj = o /\ threads' = [threads EXCEPT ![t] = w]
    BY <2>6 DEF Goes
  <2>8. Turning(t, w, o)
    BY <1>1, <2>3, <2>4, <2>5, <2>7 DEF Turning, Live
  <2> QED BY <2>8, OrderTurning
<1> QED BY <1>5, <1>6

\* An answer sent by the thread is the next one,
LEMMA OrderSendNow ==
  ASSUME OrderInv, NEW t \in Threads, SendNow(t), WatchInv' PROVE OrderInv'
<1>1. threads[t].at = "handling" /\ threads[t].obj \in Objects
  BY DEF SendNow, OrderInv, WatchInv, Holding, At
<1>2. PICK o \in Objects : o = threads[t].obj
  BY <1>1
<1>3. On(t, o) /\ At(t, "handling")
  BY <1>1, <1>2 DEF On, At
<1>4. Asked(o)
  BY <1>3 DEF Asked
<1>5. Newest(o) /\ id[o].processed
  BY <1>4, AskedNewest
<1>6. queue = <<>>
  <2>1. queue # <<>> => queue = <<o>> /\ ~ On(t, queue[1])
    BY <1>5, AllTaken DEF OrderInv, Turns
  <2>2. <<o>>[1] = o
    OBVIOUS
  <2> QED BY <1>3, <2>1, <2>2
<1>7. ~ id[o].pipe /\ \A u \in Threads : u # t => ~ On(u, o)
  BY <1>3 DEF OrderInv, Turns, At
<1>8. /\ Sent(o) /\ Goes(t, "ending", o, 0)
      /\ UNCHANGED <<sent, net, client, open, cb, id, queue, taken, raced>>
  BY <1>2 DEF SendNow, clientVars
<1> QED BY <1>1, <1>4, <1>6, <1>7, <1>8, OrderSent

\* an answer sent by a pipe too,
LEMMA OrderPipeDone ==
  ASSUME OrderInv, NEW o \in Objects, PipeDone(o), WatchInv' PROVE OrderInv'
<1>1. id[o].pipe /\ Live(o) /\ threads["backend"].at = "idle" /\ "backend" \in Threads
  BY DEF PipeDone, BackendFree, At, Threads
<1>2. \A u \in Threads : ~ On(u, o)
  BY <1>1 DEF OrderInv, Turns, On, At
<1>3. Asked(o)
  BY <1>1, <1>2 DEF Asked
<1>4. Newest(o) /\ id[o].processed
  BY <1>3, AskedNewest
<1>5. queue = <<>>
  <2>1. queue # <<>> => queue = <<o>> /\ ~ id[queue[1]].pipe
    BY <1>4, AllTaken DEF OrderInv, Turns
  <2>2. <<o>>[1] = o
    OBVIOUS
  <2> QED BY <1>1, <2>1, <2>2
<1>6. /\ Sent(o) /\ Goes("backend", "ending", o, 0)
      /\ UNCHANGED <<sent, net, client, open, cb, id, queue, taken, raced>>
  BY DEF PipeDone, clientVars
<1> QED BY <1>1, <1>2, <1>3, <1>5, <1>6, OrderSent

\* and one that starts through a pipe is still outstanding.
LEMMA OrderSendAsync ==
  ASSUME OrderInv, NEW t \in Threads, SendAsync(t), WatchInv' PROVE OrderInv'
<1>1. threads[t].at = "handling" /\ threads[t].obj \in Objects
  BY DEF SendAsync, OrderInv, WatchInv, Holding, At
<1>2. PICK o \in Objects : o = threads[t].obj
  BY <1>1
<1>3. On(t, o) /\ At(t, "handling") /\ Live(o)
  BY <1>1, <1>2 DEF On, At, SendAsync
<1>4. Asked(o)
  BY <1>3 DEF Asked
<1>5. Newest(o) /\ id[o].processed
  BY <1>4, AskedNewest
<1>6. queue = <<>>
  <2>1. queue # <<>> => queue = <<o>> /\ ~ On(t, queue[1])
    BY <1>5, AllTaken DEF OrderInv, Turns
  <2>2. <<o>>[1] = o
    OBVIOUS
  <2> QED BY <1>3, <2>1, <2>2
<1>7. \A u \in Threads : u # t => ~ On(u, o)
  BY <1>3 DEF OrderInv, Turns
<1>8. /\ id' = [id EXCEPT ![o].pipe = TRUE] /\ threads' = [threads EXCEPT ![t] = Idle]
      /\ UNCHANGED <<sent, net, client, open, cb, queue, taken, answered, raced>>
  BY <1>2 DEF SendAsync, Rests, clientVars
<1>9. \A p \in Objects :
        /\ id'[p].state = id[p].state /\ id'[p].my_fd = id[p].my_fd
        /\ id'[p].processed = id[p].processed /\ id'[p].raw = id[p].raw
        /\ id'[p].leftovers = id[p].leftovers
        /\ p # o => id'[p] = id[p]
  BY <1>8, SMTT(30) DEF OrderInv, WatchInv, TypeOK, IdType
<1>10. /\ Len(taken) > 0 /\ taken[Len(taken)] = Request(id[o].raw) /\ Rest(o)
       /\ client # "gone" => Len(answered) + 1 = Len(taken)
  BY <1>4 DEF OrderInv, Order
<1>11. /\ Len(answered) <= Len(taken) /\ \A k \in 1 .. Len(answered) : answered[k] = taken[k]
       /\ sent % 2 = 1 => sent = 2 * Len(answered) + 1
  BY DEF OrderInv, Order
<1>12. PICK w \in ThreadType : w = Idle /\ w.at = "idle"
  BY IdleType
<1>13. /\ threads' = [threads EXCEPT ![t] = w] /\ queue' = <<>>
       /\ UNCHANGED <<sent, net, client, open, cb, taken, raced>> /\ answered' = answered
  BY <1>6, <1>8, <1>12
<1>14. id[o].state = "live"
  BY <1>3 DEF Live
<1>15. \A p \in Objects :
         /\ id'[p].state = id[p].state /\ id'[p].my_fd = id[p].my_fd
         /\ id'[p].processed = id[p].processed /\ id'[p].raw = id[p].raw
         /\ id'[p].leftovers = id[p].leftovers
         /\ id[p].state = "none" => id'[p] = id[p]
         /\ p # o => id'[p].pipe = id[p].pipe
  BY <1>9, <1>14
<1>16. /\ Len(answered') <= Len(taken) /\ \A k \in 1 .. Len(answered') : answered'[k] = taken[k]
       /\ sent % 2 = 1 => sent = 2 * Len(answered') + 1
       /\ Len(taken) > 0 /\ taken[Len(taken)] = Request(id[o].raw)
       /\ client # "gone" => Len(answered') + 1 = Len(taken)
  BY <1>10, <1>11, <1>13
<1>17. Turning(t, w, o)
  <2>1. /\ Newest(o) /\ id[o].processed /\ Rest(o)
        /\ threads' = [threads EXCEPT ![t] = w] /\ threads[t].at \in {"idle", "handling"}
        /\ w.at = "idle" /\ \A u \in Threads : u # t => ~ On(u, o)
        /\ queue' = <<>> /\ UNCHANGED <<sent, net, client, open, cb, taken, raced>>
    BY <1>1, <1>5, <1>7, <1>10, <1>12, <1>13
  <2>2. w.at = "idle" /\ id[o].state = "live"
    BY <1>14, <2>1
  <2>3. id'[o].pipe => id[o].state = "live" /\ (w.at = "idle" \/ (t = "backend" /\ w.at = "ending"))
    BY <2>2
  <2> QED BY <1>15, <1>16, <2>1, <2>2, <2>3 DEF Turning
<1> QED BY <1>17, OrderTurning

\* The connection is kept: the object made is the one after the newest.
LEMMA OrderEndKeep ==
  ASSUME OrderInv, NEW t \in Threads, EndKeep(t), WatchInv' PROVE OrderInv'
<1> USE DEF OrderInv
<1>1. PICK o \in Objects, n \in Objects : Kept(t, o, n)
  BY EndKeepDoes
<1>2. /\ o # n /\ threads[t].obj = o /\ threads[t].at = "ending" /\ id[o].state = "live"
      /\ id[o].my_fd /\ id[n] = NewId
      /\ id \in [Objects -> IdType] /\ threads \in [Threads -> ThreadType]
      /\ UNCHANGED <<sent, net, client, open, queue, taken, answered, raced>>
      /\ cb' = (IF open THEN n ELSE 0)
  BY <1>1 DEF Kept, At, Live, WatchInv, TypeOK, ThreadType
<1>3. /\ id'[n] = Created /\ id'[o] = [id[o] EXCEPT !.pipe = FALSE]
      /\ \A p \in Objects : p # n /\ p # o => id'[p] = id[p]
      /\ \A u \in Threads : u # t => threads'[u] = threads[u]
      /\ threads'[t] = [at |-> "chaining", obj |-> o, next |-> n]
  BY <1>1, <1>2 DEF Kept
<1>4. threads'[t].at = "chaining" /\ threads'[t].obj = o /\ threads'[t].next = n
  BY <1>3
<1>5. /\ id'[o].state = id[o].state /\ id'[o].my_fd = id[o].my_fd /\ id'[o].raw = id[o].raw
      /\ id'[o].processed = id[o].processed /\ id'[o].leftovers = id[o].leftovers
      /\ id'[o].pipe = FALSE
  <2>1. id[o] \in IdType
    BY <1>2
  <2> QED BY <1>3, <2>1 DEF IdType
<1>6. /\ id'[n].state = "live" /\ id'[n].my_fd = TRUE /\ id'[n].raw = <<>>
      /\ id'[n].processed = FALSE /\ id'[n].pipe = FALSE
  BY <1>3, CreatedType
<1>7. /\ At(t, "ending") /\ On(t, o) /\ Newest(o) /\ id[o].processed
      /\ AllAnswered /\ Rest(o) /\ ~ Made(n)
  BY <1>2 DEF At, On, Turns, Order, WatchInv, Holding, Made, NewId
<1>8. /\ \A p \in Objects : Made(p) => id[p].processed
      /\ \A u \in Threads : At(u, "chaining") => id[threads[u].obj].leftovers = <<>>
      /\ \A u \in Threads : At(u, "handling") \/ At(u, "ending") => threads[u].obj = o
      /\ \A p \in Objects : p # o => ~ id[p].pipe
      /\ queue # <<>> => queue = <<o>>
  BY <1>7, AllTaken
<1>9. queue = <<>> /\ queue' = <<>>
  <2>1. queue # <<>> => ~ On(t, queue[1])
    BY DEF Turns
  <2>2. <<o>>[1] = o
    OBVIOUS
  <2> QED BY <1>2, <1>7, <1>8, <2>1, <2>2
<1>10. n = o + 1
  <2>1. \A p \in Objects : p <= o => Made(p)
    <3>1. Made(o)
      BY <1>7 DEF Newest
    <3>2. \A p \in Objects : p < o => Made(p)
      BY <3>1 DEF Line
    <3> QED BY <3>1, <3>2 DEF Objects
  <2>2. \A p \in Objects : p > o => id[p] = NewId
    BY <1>7 DEF Newest, Line, Objects
  <2>3. n > o
    BY <1>7, <2>1 DEF Objects
  <2>4. ~ n > o + 1
    <3> SUFFICES ASSUME n > o + 1 PROVE FALSE
      OBVIOUS
    <3>1. o + 1 \in Objects /\ o + 1 > o /\ o + 1 \in 1 .. n - 1
      BY HTTPAssumption DEF Objects
    <3>2. id[o + 1] = NewId
      BY <2>2, <3>1
    <3> QED BY <1>1, <3>1, <3>2 DEF Kept
  <2> QED BY <2>3, <2>4 DEF Objects
<1>11. \A p \in Objects : Made(p)' <=> (Made(p) \/ p = n)
  BY <1>2, <1>3, <1>5, <1>6 DEF Made
<1>12. \A p \in Objects : Made(p) => p <= o
  BY <1>7 DEF Newest
<1>13. \A u \in Threads : u # t =>
         /\ ~ At(u, "handling")' /\ ~ At(u, "ending")'
         /\ threads[u].at # "idle" => threads[u].obj \in Objects /\ threads[u].obj # o
                                      /\ threads[u].obj # n
  <2>1. \A u \in Threads : u # t => ~ On(u, o)
    BY <1>7 DEF Turns
  <2> QED BY <1>3, <1>7, <1>8, <2>1 DEF On, At, WatchInv, Holding, Turns
<1>14. Line'
  <2>1. \A p, q \in Objects : q < p /\ Made(p)' => Made(q)'
    <3> SUFFICES ASSUME NEW p \in Objects, NEW q \in Objects, q < p, Made(p)' PROVE Made(q)'
      OBVIOUS
    <3>1. CASE Made(p)
      BY <1>11, <3>1 DEF Line
    <3>2. CASE p = n
      <4>1. q <= o
        BY <1>10, <3>2 DEF Objects
      <4>2. q = o \/ q < o
        BY <4>1 DEF Objects
      <4> QED BY <1>7, <1>11, <4>2 DEF Line, Newest
    <3> QED BY <1>11, <3>1, <3>2
  <2>2. \A p \in Objects : ~ Made(p)' => id'[p] = NewId
    <3>1. Made(o)
      BY <1>7 DEF Newest
    <3> QED BY <1>3, <1>11, <3>1 DEF Line
  <2>3. \A p \in Objects : Made(p)' /\ ~ id'[p].processed => p = n
    BY <1>3, <1>5, <1>8, <1>11
  <2>4. Newest(n)'
    <3>1. \A p \in Objects : Made(p)' => p <= n
      BY <1>10, <1>11, <1>12 DEF Objects
    <3> QED BY <1>11, <3>1 DEF Newest
  <2>5. open' => cb' = n
    BY <1>2
  <2>6. cb' # 0 => ~ id'[cb'].processed
    <3>1. cb' \in {0, n} /\ id'[n].processed = FALSE
      BY <1>2, <1>6
    <3> QED BY <3>1
  <2> QED BY <2>1, <2>2, <2>3, <2>4, <2>5, <2>6 DEF Line
<1>15. \A p \in Objects : ~ id'[p].pipe
  BY <1>3, <1>5, <1>6, <1>8
<1>16. Turns'
  <2>1. \A u \in Threads :
          /\ ~ At(u, "idle")' => Made(threads[u].obj)'
          /\ ~ At(u, "handling")' /\ ~ At(u, "ending")'
          /\ Chains(u)' => threads'[u].next = threads'[u].obj + 1
    <3>1. id'[o].state # "none"
      BY <1>2, <1>5
    <3>2. \A u \in Threads : u # t => threads'[u] = threads[u] /\ (threads[u].at # "idle" =>
            id'[threads[u].obj] = id[threads[u].obj])
      BY <1>3, <1>13
    <3> QED BY <1>4, <1>10, <1>13, <3>1, <3>2 DEF Turns, At, Made, Chains
  <2>2. \A u \in Threads : At(u, "chaining")' /\ open' =>
          Live(threads[u].obj)' /\ id'[threads'[u].obj].my_fd
    <3>1. id'[o].state = "live" /\ id'[o].my_fd /\ open' = open
      BY <1>2, <1>5
    <3>2. \A u \in Threads : u # t => threads'[u] = threads[u] /\ (threads[u].at # "idle" =>
            id'[threads[u].obj] = id[threads[u].obj])
      BY <1>3, <1>13
    <3> QED BY <1>4, <3>1, <3>2 DEF Turns, At, Live
  <2>3. \A u, v \in Threads, p \in Objects : On(u, p)' /\ On(v, p)' => u = v
    BY <1>3, <1>4, <1>13 DEF Turns, On
  <2> QED BY <1>9, <1>15, <2>1, <2>2, <2>3 DEF Turns
<1>17. Whole'
  BY <1>2 DEF Whole
<1>18. Order'
  <2>1. Rest(o)' /\ AllAnswered'
    BY <1>2, <1>5, <1>7, ZenonT(40) DEF Rest, AllAnswered, Unread, Consecutive
  <2>2. \A p \in Objects : ~ Asked(p)'
    BY <1>4, <1>9, <1>13, <1>15 DEF Asked, At
  <2>3. \A u \in Threads : ~ At(u, "ending")'
    BY <1>4, <1>13 DEF At
  <2>4. \A u \in Threads : At(u, "chaining")' /\ id'[threads'[u].obj].leftovers # <<>> => u = t
    BY <1>3, <1>8, <1>13 DEF At
  <2>5. \A u \in Threads : At(u, "chaining")' /\ id'[threads'[u].obj].leftovers # <<>> =>
          /\ AllAnswered' /\ Rest(threads[u].obj)'
          /\ ~ id'[threads'[u].next].processed /\ id'[threads'[u].next].raw = <<>>
    <3>1. Rest(threads[t].obj)'
      BY <1>4, <2>1 DEF Rest, Unread
    <3> QED BY <1>4, <1>6, <2>1, <2>4, <3>1
  <2>6. cb' # 0 =>
          /\ AllAnswered' /\ Len(id'[cb'].raw) <= 1
          /\ \/ Unread(id[cb].raw)'
             \/ \E u \in Threads : /\ At(u, "chaining")' /\ threads'[u].next = cb'
                                  /\ id'[threads'[u].obj].leftovers # <<>>
    <3> SUFFICES ASSUME cb' # 0
                 PROVE  /\ Len(id'[cb'].raw) <= 1
                        /\ \/ Unread(id[cb].raw)'
                           \/ \E u \in Threads : /\ At(u, "chaining")' /\ threads'[u].next = cb'
                                                /\ id'[threads'[u].obj].leftovers # <<>>
      BY <2>1
    <3>1. cb' = n /\ id'[cb'].raw = <<>> /\ Len(<<>>) = 0
      BY <1>2, <1>6
    <3>2. CASE id[o].leftovers = <<>>
      <4>1. Unread(<<>>)'
        BY <1>5, <2>1, <3>2 DEF Rest, Unread
      <4> QED BY <3>1, <4>1 DEF Unread
    <3>3. CASE id[o].leftovers # <<>>
      BY <1>4, <1>5, <3>1, <3>3 DEF At
    <3> QED BY <3>2, <3>3
  <2>7. /\ Len(answered') <= Len(taken')
        /\ \A k \in 1 .. Len(answered') : answered'[k] = taken'[k]
        /\ sent' % 2 = 1 => sent' = 2 * Len(answered') + 1
    BY <1>2 DEF Order
  <2> QED BY <2>2, <2>3, <2>5, <2>6, <2>7 DEF Order
<1> QED BY <1>14, <1>16, <1>17, <1>18

\* chain(): nothing is left to read, or the new object takes the next request.
LEMMA OrderChain ==
  ASSUME OrderInv, NEW t \in Threads, Chain(t), WatchInv' PROVE OrderInv'
<1> USE DEF OrderInv
<1>1. PICK o \in Objects, n \in Objects, i \in IdType, j \in IdType :
        /\ Handed(t, o, n, i, j)
        /\ HandedPart(o, n, i) \/ HandedRequest(o, n, i) \/ HandedNone(o, n, i)
  BY ChainDoes
<1>2. /\ o # n /\ id \in [Objects -> IdType] /\ threads \in [Threads -> ThreadType]
      /\ id[o] \in IdType /\ id[n] \in IdType /\ id[o].processed
      /\ id[o].state = "live" /\ id[n].state = "live"
      /\ threads[t].at = "chaining" /\ threads[t].obj = o /\ threads[t].next = n
  <2>1. id \in [Objects -> IdType] /\ threads \in [Threads -> ThreadType]
    BY DEF WatchInv, TypeOK, ThreadType
  <2>2. /\ o # n /\ id[o].state = "live" /\ id[n].state = "live"
        /\ threads[t].at = "chaining" /\ threads[t].obj = o /\ threads[t].next = n
    BY <1>1 DEF Handed, At, Live
  <2>3. id[o].processed
    BY <2>2 DEF WatchInv, Holding, At
  <2> QED BY <2>1, <2>2, <2>3
<1>3. /\ j.my_fd = FALSE /\ j.pipe = id[o].pipe /\ j.processed = id[o].processed
      /\ j.raw = id[o].raw /\ j.state = id[o].state /\ j.leftovers = id[o].leftovers
  BY <1>1, <1>2 DEF Handed, IdType
<1>4. /\ \A p \in Objects : p # n /\ p # o => id'[p] = id[p]
      /\ id'[n] = i /\ id'[o] = j
      /\ \A u \in Threads : u # t => threads'[u] = threads[u]
      /\ threads'[t].at = "chained" /\ threads'[t].obj = o /\ threads'[t].next = n
      /\ UNCHANGED <<sent, net, client, answered, raced>>
      /\ i.raw = id[n].raw \o id[o].leftovers /\ i.state = "live"
  BY <1>1, <1>2 DEF Handed
<1>5. \A u \in Threads : u # t /\ threads[u].at # "idle" =>
        threads[u].obj \in Objects /\ threads[u].obj # o
  BY <1>2 DEF WatchInv, Holding, Turns, On, At
<1>6. \A u \in Threads : u # t /\ Chains(u) => threads[u].next # n
  BY <1>2 DEF WatchInv, Holding, Chains
<1>7. CASE id[o].leftovers = <<>>
  <2>1. i.raw = id[n].raw
    BY <1>2, <1>4, <1>7 DEF IdType
  <2>2. /\ i.my_fd = TRUE /\ i.pipe = id[n].pipe
        /\ i.leftovers = id[n].leftovers /\ i.processed = id[n].processed
        /\ UNCHANGED <<open, cb, queue, taken>>
    BY <1>1, <1>7 DEF HandedPart, HandedRequest, HandedNone
  <2>3. ~ id[n].processed => id[n].my_fd
    <3>1. ~ id[n].hold
      BY <1>2, <1>6 DEF WatchInv, Holding, At, Chains
    <3> QED BY <1>2, <3>1 DEF WatchInv, Waiting, Made, Live
  <2>4. \A p \in Objects :
         /\ id'[p].state = id[p].state
         /\ id'[p].processed = id[p].processed /\ id'[p].raw = id[p].raw
         /\ id'[p].leftovers = id[p].leftovers
         /\ id'[p].my_fd => id[p].my_fd \/ id[p].processed
         /\ id'[p].pipe = id[p].pipe
         /\ id[p].state = "none" => id'[p] = id[p]
         /\ p # o /\ id[p].my_fd => id'[p].my_fd
    BY <1>2, <1>3, <1>4, <2>1, <2>2, <2>3, ZenonT(40)
  <2>5. \A u \in Threads : u # t =>
         /\ threads'[u] = threads[u]
         /\ threads[u].at = "chaining" /\ open' /\ id[threads[u].obj].my_fd =>
              /\ id'[threads[u].obj].my_fd
              /\ id'[threads[u].obj].state = id[threads[u].obj].state
    BY <1>4, <1>5, <2>4
  <2>6. Loses
    BY <1>2, <1>4, <1>7, <2>2, <2>4, <2>5 DEF Loses
  <2> QED BY <2>6, OrderLoses
<1>8. CASE id[o].leftovers # <<>>
  <2>1. /\ AllAnswered /\ Rest(o) /\ ~ id[n].processed /\ id[n].raw = <<>>
    BY <1>2, <1>8 DEF Order, At
  <2>2. /\ net = <<>> /\ sent % 2 = 0 /\ Made(n)
        /\ Len(id[o].leftovers) + Len(net) = sent - 2 * Len(taken)
        /\ Consecutive(id[o].leftovers, 2 * Len(taken))
    BY <1>2, <1>8, <2>1 DEF Rest, Unread, Made
  <2>3. PICK r \in Seq(Bytes), m \in Nat : r = id[o].leftovers /\ m = Len(taken)
    <3>1. id[o].leftovers \in Seq(Bytes) /\ taken \in Seq(Seq(Bytes))
      BY <1>2 DEF IdType, WatchInv, TypeOK
    <3> QED BY <3>1
  <2>4. i.raw = r
    BY <1>4, <2>1, <2>3
  <2>5. Len(r) = sent - 2 * m /\ Len(r) \in Nat /\ sent \in Nat /\ Len(r) > 0
    <3>1. Len(net) = 0 /\ Len(r) \in Nat /\ Len(r) > 0
      BY <1>8, <2>2, <2>3
    <3>2. sent \in Nat
      BY DEF WatchInv, TypeOK
    <3>3. Len(r) + Len(net) = sent - 2 * m
      BY <2>2, <2>3
    <3>4. \A a, b, c \in Nat : b = 0 /\ a + b = c - 2 * m => a = c - 2 * m
      OBVIOUS
    <3> QED BY <3>1, <3>2, <3>3, <3>4
  <2>6. Len(r) >= 2
    <3>1. \A a \in Nat : a % 2 = 0 /\ a - 2 * m = 1 => FALSE
      OBVIOUS
    <3> QED BY <2>2, <2>5, <3>1
  <2>7. Complete(r) /\ WellFormed(Request(r))
    BY <2>2, <2>3, <2>6, FirstRequest
  <2>8. /\ i.pipe = id[n].pipe
        /\ i.leftovers = SubSeq(i.raw, LastOf(i.raw) + 1, Len(i.raw)) /\ i.processed = TRUE
        /\ cb' = 0 /\ queue' = Append(queue, n) /\ UNCHANGED open
        /\ taken' = Append(taken, Request(i.raw))
    BY <1>1, <1>8, <2>4, <2>7 DEF HandedPart, HandedRequest, HandedNone
  <2>9. /\ \A p \in Objects : ~ id[p].pipe
        /\ \A u \in Threads : At(u, "chaining") /\ id[threads[u].obj].leftovers # <<>> =>
             threads[u].next = n
    BY <2>1, <2>2, NobodyElse
  <2>10. \A u \in Threads :
           /\ threads'[u].obj = threads[u].obj /\ threads'[u].next = threads[u].next
           /\ \/ threads'[u].at = threads[u].at
              \/ threads[u].at = "chaining" /\ threads'[u].at = "chained"
           /\ threads'[u].at = "chaining" =>
                /\ id'[threads[u].obj].leftovers = <<>>
                /\ id'[threads[u].obj].my_fd = id[threads[u].obj].my_fd
    <3>1. /\ threads'[t].obj = threads[t].obj /\ threads'[t].next = threads[t].next
          /\ threads[t].at = "chaining" /\ threads'[t].at = "chained"
      BY <1>2, <1>4
    <3>2. ASSUME NEW u \in Threads, u # t, threads[u].at = "chaining"
          PROVE  /\ id'[threads[u].obj].leftovers = <<>>
                 /\ id'[threads[u].obj].my_fd = id[threads[u].obj].my_fd
      <4>1. threads[u].obj \in Objects /\ threads[u].obj # o /\ threads[u].next # n
        BY <1>5, <1>6, <3>2 DEF Chains
      <4>2. threads[u].obj # n
        BY <2>1, <3>2 DEF WatchInv, Holding, At
      <4>3. id[threads[u].obj].leftovers = <<>>
        BY <2>9, <3>2, <4>1 DEF At
      <4> QED BY <1>4, <4>1, <4>2, <4>3
    <3>3. \A u \in Threads : u # t => threads'[u] = threads[u]
      BY <1>4
    <3> QED BY <3>1, <3>2, <3>3
  <2>11. \A p \in Objects : p # n =>
           /\ id'[p].state = id[p].state /\ id'[p].processed = id[p].processed
           /\ id'[p].pipe = id[p].pipe
           /\ id[p].state = "none" => id'[p] = id[p]
    BY <1>2, <1>3, <1>4
  <2>12. /\ i.state # "none" /\ ~ i.pipe /\ i.raw \in Seq(Bytes) /\ Complete(i.raw)
         /\ Consecutive(i.raw, 2 * Len(taken)) /\ Len(i.raw) = sent - 2 * Len(taken)
         /\ net' = <<>> /\ UNCHANGED <<sent, client, open, answered, raced>>
    BY <1>4, <2>2, <2>3, <2>4, <2>5, <2>7, <2>8, <2>9
  <2>13. Taking(n, i)
    BY <1>4, <2>1, <2>2, <2>8, <2>10, <2>11, <2>12 DEF Taking
  <2> QED BY <2>13, OrderTaking
<1> QED BY <1>7, <1>8

\* Initially nothing is asked.
LEMMA OrderInit == Init => OrderInv
<1> SUFFICES ASSUME Init PROVE OrderInv
  OBVIOUS
<1>1. WatchInv
  BY WatchInit
<1>2. /\ sent = 0 /\ net = <<>> /\ open = TRUE /\ cb = 1 /\ queue = <<>>
      /\ taken = <<>> /\ answered = <<>> /\ 1 \in Objects
      /\ id[1] = Created /\ \A o \in Objects : o # 1 => id[o] = NewId
      /\ \A t \in Threads : threads[t].at = "idle"
  <2>1. 1 \in Objects
    BY HTTPAssumption DEF Objects
  <2>2. \A t \in Threads : threads[t] = Idle
    BY DEF Init
  <2> QED BY <2>1, <2>2, IdleType DEF Init
<1>3. \A o \in Objects : Made(o) <=> o = 1
  <2>1. NewId.state = "none"
    BY DEF NewId
  <2> QED BY <1>2, <2>1, CreatedType DEF Made
<1>4. \A o \in Objects : ~ id[o].pipe /\ ~ id[o].processed
  <2>1. ~ NewId.pipe /\ ~ NewId.processed
    BY DEF NewId
  <2> QED BY <1>2, <2>1, CreatedType
<1>5. Line
  BY <1>2, <1>3, <1>4 DEF Line, Newest, Objects
<1>6. Turns
  BY <1>2, <1>4 DEF Turns, At, On, Chains
<1>7. Whole
  BY <1>2 DEF Whole
<1>8. Order
  <2>1. \A o \in Objects : ~ Asked(o)
    BY <1>2, <1>4 DEF Asked, At
  <2>2. Len(<<>>) = 0 /\ id[1].raw = <<>>
    BY <1>2, CreatedType
  <2>3. Unread(id[1].raw)
    <3>1. 0 + 0 = 0 - 2 * 0
      OBVIOUS
    <3>2. Consecutive(<<>>, 2 * Len(taken)) /\ Consecutive(net, 2 * Len(taken) + Len(<<>>))
      BY <1>2 DEF Consecutive
    <3>3. Len(id[1].raw) + Len(net) = sent - 2 * Len(taken)
      BY <1>2, <2>2, <3>1
    <3> QED BY <2>2, <3>2, <3>3 DEF Unread
  <2>4. AllAnswered
    BY <1>2 DEF AllAnswered
  <2> QED BY <1>2, <2>1, <2>2, <2>3, <2>4 DEF Order, At
<1> QED BY <1>1, <1>5, <1>6, <1>7, <1>8 DEF OrderInv

\* Every step keeps OrderInv when the client waits for its answers, unless the
\* callbacks are set too late.
LEMMA OrderNext ==
  ASSUME ~ Eager PROVE OrderInv /\ [Next]_vars /\ ~ raced' => OrderInv'
<1> SUFFICES ASSUME OrderInv, [Next]_vars, ~ raced' PROVE OrderInv'
  OBVIOUS
<1>1. WatchInv'
  BY WatchNext DEF OrderInv
<1>2. CASE ClientSends \/ ClientErrs \/ ClientChanges \/ UNCHANGED vars
  BY <1>1, <1>2, OrderClient
<1>3. CASE Backend
  <2>1. CASE ReadCallback
    BY <1>1, <2>1, OrderRead
  <2>2. CASE CloseCallback
    BY <1>1, <2>2, LosesClose, OrderLoses
  <2>3. ASSUME NEW o \in Objects, DoTimeout(o) \/ PipeDone(o) \/ PipeTimeout(o)
        PROVE  OrderInv'
    BY <1>1, <2>3, LosesTimeout, LosesPipeTimeout, OrderLoses, OrderPipeDone
  <2> QED BY <1>3, <2>1, <2>2, <2>3 DEF Backend
<1>4. CASE \E o \in Objects : TimePasses(o)
  BY <1>1, <1>4, LosesTime, OrderLoses
<1>5. ASSUME NEW t \in Threads, Thread(t) PROVE OrderInv'
  <2>1. CASE Fails(t) \/ EndClose(t) \/ Chained(t) \/ Rearm(t)
    BY <1>1, <2>1, LosesFails, LosesEndClose, LosesChained, LosesRearm, OrderLoses
  <2>2. CASE Handle(t) \/ SendNow(t) \/ SendAsync(t) \/ EndKeep(t) \/ Chain(t)
    BY <1>1, <2>2, OrderHandle, OrderSendNow, OrderSendAsync, OrderEndKeep, OrderChain
  <2> QED BY <1>5, <2>1, <2>2 DEF Thread
<1> QED BY <1>2, <1>3, <1>4, <1>5 DEF Next

\* Once the callbacks were set too late, they were.
LEMMA RacedStays == WatchInv /\ [Next]_vars => (raced => raced')
<1> SUFFICES ASSUME [Next]_vars, raced PROVE raced'
  OBVIOUS
<1>1. CASE ClientSends \/ ClientErrs \/ ClientChanges \/ UNCHANGED vars
  BY <1>1 DEF ClientSends, ClientErrs, ClientChanges, vars
<1>2. CASE Backend
  BY <1>2 DEF Backend, ReadCallback, CloseCallback, DoTimeout, PipeDone, PipeTimeout
<1>3. CASE \E o \in Objects : TimePasses(o)
  BY <1>3 DEF TimePasses
<1>4. ASSUME NEW t \in Threads, Thread(t) PROVE raced'
  BY <1>4 DEF Thread, Handle, SendNow, SendAsync, Fails, EndClose, EndKeep, Chain,
     Chained, Rearm
<1> QED BY <1>1, <1>2, <1>3, <1>4 DEF Next

\* OrderInv holds with a patient client until the callbacks are set too late.
THEOREM OrderAlways == ASSUME ~ Eager PROVE Spec => []Ordered
<1>1. Init => Ordered
  BY OrderInit DEF Ordered
<1>2. WatchInv /\ Ordered /\ [Next]_vars => Ordered'
  <2> SUFFICES ASSUME WatchInv, Ordered, [Next]_vars, ~ raced' PROVE OrderInv'
    BY DEF Ordered
  <2>1. OrderInv
    BY RacedStays DEF Ordered
  <2> QED BY <2>1, OrderNext
<1> QED BY <1>1, <1>2, WatchAlways, PTL DEF Spec

\* The requests taken off the connection are those the client sent, in order,
\* each once and whole, for any number of requests and threads: although the
\* connection goes from object to object and got_data() runs in the backend and
\* in handler threads.  Only chain() can break that, by setting the callbacks of
\* an object that has taken its request between the test and the setting.
THEOREM InOrderTheorem == ASSUME ~ Eager PROVE Spec => []InOrder
<1>1. Ordered => InOrder
  BY DEF Ordered, OrderInv, InOrder
<1> QED BY <1>1, OrderAlways, PTL

\* The answers are those to the requests taken, in their order, and at most one
\* object is being answered: two threads never answer on one connection, unless
\* chain() has set the callbacks too late.
THEOREM AnswersInOrderTheorem == ASSUME ~ Eager PROVE Spec => []AnswersInOrder
<1>1. Ordered => AnswersInOrder
  <2> SUFFICES ASSUME OrderInv PROVE OneByOne
    BY DEF Ordered, AnswersInOrder
  <2>1. \A o \in Answering : o \in Objects /\ Newest(o)
    <3> SUFFICES ASSUME NEW o \in Answering PROVE o \in Objects /\ Newest(o)
      OBVIOUS
    <3>1. CASE o \in Objects /\ id[o].pipe
      BY <3>1 DEF OrderInv, Turns
    <3>2. CASE \E t \in Threads : At(t, "handling") /\ o = threads[t].obj
      BY <3>2 DEF OrderInv, Turns, WatchInv, Holding, At
    <3>3. CASE \E k \in DOMAIN queue : o = queue[k]
      <4>1. PICK k \in DOMAIN queue : o = queue[k]
        BY <3>3
      <4>2. queue \in Seq(Objects)
        BY DEF OrderInv, WatchInv, TypeOK
      <4>3. queue # <<>> /\ DOMAIN queue = 1 .. Len(queue) /\ queue[k] \in Objects
        BY <4>1, <4>2
      <4>4. Len(queue) = 1 /\ Newest(queue[1])
        BY <4>3 DEF OrderInv, Turns
      <4>5. k = 1
        BY <4>3, <4>4
      <4> QED BY <4>1, <4>3, <4>4, <4>5
    <3> QED BY <3>1, <3>2, <3>3 DEF Answering
  <2>2. \A o, p \in Answering : o = p
    BY <2>1, NewestOne
  <2>3. answered \in Seq(Seq(Bytes))
    BY DEF OrderInv, WatchInv, TypeOK
  <2>4. DOMAIN answered = 1 .. Len(answered)
    BY <2>3
  <2> QED BY <2>2, <2>4 DEF OrderInv, Order, OneByOne
<1> QED BY <1>1, OrderAlways, PTL

=============================================================================
