-------------------------------- MODULE HTTP --------------------------------
(***************************************************************************)
(* One client connection of protocols/http.pike, as built with THREADS.    *)
(* A request object reads one request, a handler thread answers it, and    *)
(* end() closes the connection or, with KEEP_ALIVE, gives it to a new      *)
(* object.  What is hard is who may touch the connection: the backend      *)
(* thread runs the socket callbacks, the call_outs and the end of a piped  *)
(* answer, while handler threads run handle_request() and, after a short   *)
(* answer, end() and chain().                                              *)
(*                                                                         *)
(* Request r is the bytes 2r-1 and 2r, the second of which completes it;   *)
(* the byte 0 is a line that is no request.                                *)
(* A thread may be interrupted between the steps below (Pike switches      *)
(* threads at calls and in loops); each got_data() is one step, and so are *)
(* two calls that set both callbacks.  Left out: results that leave the    *)
(* connection to a module (leave_me), PING, bodies over PostBodySize, the  *)
(* protocol's wording.                                                     *)
(***************************************************************************)
EXTENDS Integers, Sequences

CONSTANTS
  MaxRequests,   \* bound: requests of the client
  Workers,       \* handler threads
  Eager,         \* whether the client sends on while it waits for an answer
  KeepAlive      \* the build option KEEP_ALIVE

ASSUME HTTPAssumption ==
  /\ MaxRequests \in Nat \ {0} /\ Eager \in BOOLEAN /\ KeepAlive \in BOOLEAN
  /\ "backend" \notin Workers

Bytes == 0 .. 2 * MaxRequests
Objects == 1 .. MaxRequests + 1    \* bound: request objects
Threads == Workers \cup {"backend"}

VARIABLES
  sent,       \* bytes the client has sent
  net,        \* and the server has not read
  client,     \* "reads", "stuck" (reads no more) or "gone" (has closed)
  open,       \* whether the server has the connection open
  cb,         \* the object whose callbacks the connection has, 0 for none
  id,         \* the request objects
  queue,      \* handle_queue, as far as it is about this connection
  threads,    \* what each thread does for this connection
  taken,      \* requests taken from the connection (history)
  answered,   \* requests whose answer was sent (history)
  raced       \* chain() has set the callbacks of an object that had its
              \*   request already (history)

clientVars == <<sent, client>>
vars == <<sent, net, client, open, cb, id, queue, threads, taken, answered, raced>>

\* timeouts: pending call_outs of do_timeout().  late: thirty seconds since
\* `time'.  hold: do_not_disconnect is -1.
NewId == [state |-> "none", my_fd |-> FALSE, raw |-> <<>>, leftovers |-> <<>>,
          timeouts |-> 0, late |-> FALSE, hold |-> FALSE, processed |-> FALSE,
          pipe |-> FALSE]

\* Mutant of Created: no do_timeout() is called out.
CreatedUnwatched == [NewId EXCEPT !.state = "live", !.my_fd = TRUE]

\* create(): one do_timeout() is called out, and the callbacks are set.
Created == [NewId EXCEPT !.state = "live", !.my_fd = TRUE, !.timeouts = 1]

Idle == [at |-> "idle", obj |-> 0, next |-> 0]

Init ==
  /\ sent = 0 /\ net = <<>> /\ client = "reads"
  /\ open = TRUE /\ cb = 1
  /\ id = [o \in Objects |-> IF o = 1 THEN Created ELSE NewId]
  /\ queue = <<>>
  /\ threads = [t \in Threads |-> Idle]
  /\ taken = <<>> /\ answered = <<>> /\ raced = FALSE

Live(o) == id[o].state = "live"
Goes(t, at, o, n) == threads' = [threads EXCEPT ![t] = [at |-> at, obj |-> o, next |-> n]]
Rests(t) == threads' = [threads EXCEPT ![t] = Idle]
At(t, at) == threads[t].at = at
BackendFree == At("backend", "idle")

-----------------------------------------------------------------------------
(* The client                                                              *)

\* A patient client sends the beginning of a request, or whole ones, and then
\* waits for all the answers.
ClientSends ==
  /\ open /\ client # "gone"
  /\ \E n \in 1 .. 2 * MaxRequests - sent :
       /\ \/ Eager
          \/ Len(answered) = sent \div 2 /\ (n = 1 \/ (sent + n) % 2 = 0)
       /\ sent' = sent + n
       /\ net' = net \o [k \in 1 .. n |-> sent + k]
  /\ UNCHANGED <<client, open, cb, id, queue, threads, taken, answered, raced>>

\* Between requests, and for the last time.
ClientErrs ==
  /\ open /\ client # "gone"
  /\ Len(answered) = sent \div 2 /\ sent % 2 = 0 /\ sent < 2 * MaxRequests
  /\ sent' = 2 * MaxRequests
  /\ net' = Append(net, 0)
  /\ UNCHANGED <<client, open, cb, id, queue, threads, taken, answered, raced>>

ClientChanges ==
  /\ open /\ client = "reads"
  /\ client' \in {"stuck", "gone"}
  /\ UNCHANGED <<sent, net, open, cb, id, queue, threads, taken, answered, raced>>

-----------------------------------------------------------------------------
(* disconnect(), end() and got_data(): what they do to an object           *)

Disconnected(i) == [i EXCEPT !.pipe = FALSE, !.state = IF i.hold THEN @ ELSE "dead"]

\* end() without keepit.
Ended(i) == Disconnected([i EXCEPT !.my_fd = FALSE])
Closes(o) ==
  /\ open' = (open /\ ~ id[o].my_fd)
  /\ cb' = IF id[o].my_fd THEN 0 ELSE cb

End(o) == Closes(o) /\ id' = [id EXCEPT ![o] = Ended(@)]

\* Mutant of Received: the do_timeout() removed is not added again.
ReceivedUnwatched(i, s) ==
  [i EXCEPT !.raw = @ \o s, !.late = FALSE, !.timeouts = IF @ = 0 THEN 0 ELSE @ - 1]

\* Of the do_timeout()s called out, got_data() removes one, and adds one.
Received(i, s) ==
  [i EXCEPT !.raw = @ \o s, !.late = FALSE, !.timeouts = IF @ = 0 THEN 1 ELSE @]

Complete(s) == \E k \in DOMAIN s : s[k] % 2 = 0
LastOf(s) == CHOOSE k \in DOMAIN s : s[k] % 2 = 0 /\ \A j \in 1 .. k - 1 : s[j] % 2 = 1
Request(s) == SubSeq(s, 1, LastOf(s))
WellFormed(s) == Len(s) = 2 /\ s[1] % 2 = 1 /\ s[2] = s[1] + 1

\* Mutant of Takes: the callbacks stay.
TakesOn(ids, o, i) ==
  /\ id' = [ids EXCEPT ![o] = [i EXCEPT
              !.processed = TRUE,
              !.leftovers = SubSeq(i.raw, LastOf(i.raw) + 1, Len(i.raw))]]
  /\ queue' = Append(queue, o)
  /\ UNCHANGED <<open, cb>>

\* A request is complete: no more callbacks, and a handler thread's turn.
Takes(ids, o, i) ==
  /\ id' = [ids EXCEPT ![o] = [i EXCEPT
              !.processed = TRUE,
              !.leftovers = SubSeq(i.raw, LastOf(i.raw) + 1, Len(i.raw))]]
  /\ cb' = 0
  /\ queue' = Append(queue, o)
  /\ UNCHANGED open

\* got_data(s) of the object o, the objects being ids.  Without a connection
\* of its own (chain() has set the callbacks too late) it throws.
GotData(ids, o, s) ==
  LET got == Received(ids[o], s) IN
  \/ /\ ~ Complete(got.raw)
     /\ id' = [ids EXCEPT ![o] = got]
     /\ UNCHANGED <<open, cb, queue, taken>>
  \/ /\ Complete(got.raw) /\ ~ got.my_fd
     /\ id' = [ids EXCEPT ![o] = got]
     /\ UNCHANGED <<open, cb, queue, taken>>
  \/ /\ Complete(got.raw) /\ got.my_fd
     /\ taken' = Append(taken, Request(got.raw))
     /\ \/ WellFormed(Request(got.raw)) /\ Takes(ids, o, got)
        \/ /\ ~ WellFormed(Request(got.raw))
           /\ open' = FALSE /\ cb' = 0
           /\ id' = [ids EXCEPT ![o] = Ended(got)]
           /\ UNCHANGED queue

-----------------------------------------------------------------------------
(* The backend: socket callbacks and call_outs                             *)

\* The functions of a destructed object are no callbacks.
HasCallbacks == open /\ cb # 0 /\ Live(cb)

ReadCallback ==
  /\ BackendFree /\ HasCallbacks /\ net # <<>>
  /\ GotData(id, cb, net)
  /\ net' = <<>>
  /\ UNCHANGED <<clientVars, threads, answered, raced>>

CloseCallback ==
  /\ BackendFree /\ HasCallbacks
  /\ client = "gone" /\ net = <<>>
  /\ End(cb)
  /\ UNCHANGED <<clientVars, net, queue, threads, taken, answered, raced>>

\* Thirty seconds since the object's `time'.
TimePasses(o) ==
  /\ Live(o) /\ ~ id[o].late
  /\ id' = [id EXCEPT ![o].late = TRUE]
  /\ UNCHANGED <<clientVars, net, open, cb, queue, threads, taken, answered, raced>>

\* do_timeout(); a premature one, which calls itself out again, is no step.
DoTimeout(o) ==
  /\ BackendFree /\ Live(o) /\ id[o].timeouts > 0 /\ id[o].late
  /\ Closes(o)
  /\ id' = [id EXCEPT ![o] = [Ended(@) EXCEPT !.timeouts = id[o].timeouts - 1]]
  /\ UNCHANGED <<clientVars, net, queue, threads, taken, answered, raced>>

Sent(o) ==
  answered' = IF client = "gone" THEN answered
              ELSE Append(answered, Request(id[o].raw))

\* Mutant of PipeDone: do_log() without end().
PipeDoneLogs(o) ==
  /\ BackendFree /\ Live(o) /\ id[o].pipe /\ client # "stuck"
  /\ Sent(o)
  /\ UNCHANGED <<clientVars, net, open, cb, id, queue, threads, taken, raced>>

\* The pipe's done callback, when all is written or writing fails: do_log().
PipeDone(o) ==
  /\ BackendFree /\ Live(o) /\ id[o].pipe /\ client # "stuck"
  /\ Sent(o)
  /\ Goes("backend", "ending", o, 0)
  /\ UNCHANGED <<clientVars, net, open, cb, id, queue, taken, raced>>

\* timer() sees no progress, and pipe_timeout() ends the answer.
PipeTimeout(o) ==
  /\ BackendFree /\ Live(o) /\ id[o].pipe /\ client = "stuck"
  /\ End(o)
  /\ UNCHANGED <<clientVars, net, queue, threads, taken, answered, raced>>

-----------------------------------------------------------------------------
(* Handler threads: handle_request() and send_result()                     *)

\* A thread takes the request; handle_request() removes one do_timeout().
Handle(t) ==
  /\ t \in Workers /\ At(t, "idle") /\ queue # <<>>
  /\ LET o == Head(queue) IN
     \/ /\ Live(o)
        /\ id' = [id EXCEPT ![o].timeouts = IF @ = 0 THEN 0 ELSE @ - 1]
        /\ Goes(t, "handling", o, 0)
     \/ ~ Live(o) /\ UNCHANGED <<id, threads>>
  /\ queue' = Tail(queue)
  /\ UNCHANGED <<clientVars, net, open, cb, taken, answered, raced>>

\* A short answer is written at once.
SendNow(t) ==
  /\ At(t, "handling") /\ Live(threads[t].obj) /\ id[threads[t].obj].my_fd
  /\ Sent(threads[t].obj)
  /\ Goes(t, "ending", threads[t].obj, 0)
  /\ UNCHANGED <<clientVars, net, open, cb, id, queue, taken, raced>>

\* Mutant of SendAsync: the pipe is not started.
SendAsyncUnstarted(t) ==
  /\ At(t, "handling") /\ Live(threads[t].obj) /\ id[threads[t].obj].my_fd
  /\ Rests(t)
  /\ UNCHANGED <<clientVars, net, open, cb, id, queue, taken, answered, raced>>

\* A longer one is piped by the backend.
SendAsync(t) ==
  /\ At(t, "handling") /\ Live(threads[t].obj) /\ id[threads[t].obj].my_fd
  /\ id' = [id EXCEPT ![threads[t].obj].pipe = TRUE]
  /\ Rests(t)
  /\ UNCHANGED <<clientVars, net, open, cb, queue, taken, answered, raced>>

\* The object, or the one it is chained to, was destructed meanwhile: the
\* next use of it throws, and the thread gives up.
Fails(t) ==
  /\ threads[t].at \in {"handling", "ending", "chaining", "rearming"}
  /\ \/ ~ At(t, "rearming") /\ ~ Live(threads[t].obj)
     \/ At(t, "handling") /\ ~ id[threads[t].obj].my_fd
     \/ threads[t].at \in {"chaining", "rearming"} /\ ~ Live(threads[t].next)
  /\ Rests(t)
  /\ UNCHANGED <<clientVars, net, open, cb, id, queue, taken, answered, raced>>

-----------------------------------------------------------------------------
(* end(0, 1) and chain()                                                   *)

EndClose(t) ==
  /\ At(t, "ending") /\ Live(threads[t].obj)
  /\ End(threads[t].obj)
  /\ Rests(t)
  /\ UNCHANGED <<clientVars, net, queue, taken, answered, raced>>

\* The new object's create() takes the callbacks.
EndKeep(t) ==
  /\ KeepAlive
  /\ At(t, "ending") /\ Live(threads[t].obj) /\ id[threads[t].obj].my_fd
  /\ \E n \in Objects :
       /\ id[n] = NewId /\ \A m \in 1 .. n - 1 : id[m] # NewId
       /\ id' = [id EXCEPT ![n] = Created, ![threads[t].obj].pipe = FALSE]
       /\ cb' = IF open THEN n ELSE 0
       /\ Goes(t, "chaining", threads[t].obj, n)
  /\ UNCHANGED <<clientVars, net, open, queue, taken, answered, raced>>

\* chain(), as far as got_data() of what the old object had left; or it calls
\* do_timeout() out, a second time.
Chain(t) ==
  LET o == threads[t].obj  n == threads[t].next
      given == [id EXCEPT ![o].my_fd = FALSE, ![n].my_fd = TRUE, ![n].hold = TRUE]
  IN
  /\ At(t, "chaining") /\ Live(o) /\ Live(n)
  /\ \/ id[o].leftovers # <<>> /\ GotData(given, n, id[o].leftovers)
     \/ /\ id[o].leftovers = <<>>
        /\ id' = [given EXCEPT ![n].timeouts = @ + 1, ![n].late = FALSE]
        /\ UNCHANGED <<open, cb, queue, taken>>
  /\ Goes(t, "chained", o, n)
  /\ UNCHANGED <<clientVars, net, answered, raced>>

\* The tests at the end of chain(), between which nothing is called; if the
\* callbacks are not to be set, the disconnect() of the old object follows.
Chained(t) ==
  LET o == threads[t].obj  n == threads[t].next
      free == [id[n] EXCEPT !.hold = FALSE]
  IN
  /\ At(t, "chained")
  /\ \/ /\ free.my_fd /\ ~ free.processed
        /\ id' = [id EXCEPT ![n] = free]
        /\ Goes(t, "rearming", o, n)
     \/ /\ ~ free.my_fd \/ free.processed
        /\ id' = [id EXCEPT ![n] = IF free.my_fd THEN free ELSE Disconnected(free),
                            ![o] = Disconnected(@)]
        /\ Rests(t)
  /\ UNCHANGED <<clientVars, net, open, cb, queue, taken, answered, raced>>

\* The callbacks are set, whatever the object has become since the test.
Rearm(t) ==
  LET o == threads[t].obj  n == threads[t].next IN
  /\ At(t, "rearming")
  /\ cb' = IF open THEN n ELSE cb
  /\ raced' = (raced \/ id[n].processed)
  /\ id' = [id EXCEPT ![o] = Disconnected(@)]
  /\ Rests(t)
  /\ UNCHANGED <<clientVars, net, open, queue, taken, answered>>

-----------------------------------------------------------------------------
Backend ==
  \/ ReadCallback \/ CloseCallback
  \/ \E o \in Objects : DoTimeout(o) \/ PipeDone(o) \/ PipeTimeout(o)

Thread(t) ==
  \/ Handle(t) \/ SendNow(t) \/ SendAsync(t) \/ Fails(t)
  \/ EndClose(t) \/ EndKeep(t) \/ Chain(t) \/ Chained(t) \/ Rearm(t)

Next ==
  \/ ClientSends \/ ClientErrs \/ ClientChanges
  \/ Backend
  \/ \E o \in Objects : TimePasses(o)
  \/ \E t \in Threads : Thread(t)

Spec == Init /\ [][Next]_vars

\* The backend and the threads are scheduled, and time passes.
FairSpec ==
  /\ Spec /\ WF_vars(Backend)
  /\ \A t \in Threads : WF_vars(Thread(t))
  /\ \A o \in Objects : WF_vars(TimePasses(o)) /\ WF_vars(DoTimeout(o))

-----------------------------------------------------------------------------
(* Properties                                                              *)

IdType ==
  [state : {"none", "live", "dead"}, my_fd : BOOLEAN, raw : Seq(Bytes),
   leftovers : Seq(Bytes), timeouts : Nat, late : BOOLEAN, hold : BOOLEAN,
   processed : BOOLEAN, pipe : BOOLEAN]

\* Every variable has its type.
TypeOK ==
  /\ sent \in 0 .. 2 * MaxRequests /\ net \in Seq(Bytes)
  /\ client \in {"reads", "stuck", "gone"} /\ open \in BOOLEAN
  /\ cb \in Objects \cup {0}
  /\ id \in [Objects -> IdType] /\ queue \in Seq(Objects)
  /\ threads \in [Threads ->
       [at : {"idle", "handling", "ending", "chaining", "chained", "rearming"},
        obj : Objects \cup {0}, next : Objects \cup {0}]]
  /\ taken \in Seq(Seq(Bytes)) /\ answered \in Seq(Seq(Bytes))
  /\ raced \in BOOLEAN

\* The requests taken are those sent, in order, each once and whole: none is
\* lost, doubled or run together with the next while the connection changes
\* from object to object and from thread to thread.  It is so as long as
\* chain() has not set the callbacks of an object that had its request already.
Whole == \A k \in DOMAIN taken : taken[k] \in {<<2 * k - 1, 2 * k>>, <<0>>}
InOrder == ~ raced => Whole

\* An object that waits for its client, on a connection of its own or with the
\* callbacks of one, is live and has a do_timeout() called out.
Watched ==
  \A o \in Objects : (o = cb \/ id[o].my_fd) /\ ~ id[o].processed =>
    Live(o) /\ id[o].timeouts > 0

\* Answers come in the order of the requests, one each, and at most one
\* object is being answered on the connection, queued, in a thread or in a
\* pipe, again as long as chain() has not come too late.
Answering ==
  {o \in Objects : Live(o) /\ id[o].pipe}
  \cup {threads[t].obj : t \in {u \in Threads : At(u, "handling")}}
  \cup {queue[k] : k \in DOMAIN queue}
OneByOne ==
  /\ Len(answered) <= Len(taken) /\ \A k \in DOMAIN answered : answered[k] = taken[k]
  /\ \A o, p \in Answering : Live(o) /\ Live(p) => o = p
AnswersInOrder == ~ raced => OneByOne

\* Every request taken is answered, unless the connection was closed.
TakenIsAnswered ==
  \A k \in 1 .. MaxRequests : Len(taken) >= k ~> Len(answered) >= k \/ ~ open

\* No connection stays open for ever with a client that has no more to say.
ConnectionEnds == <>(~ open)

\* got_data(), of `time': "Check is made towards this to make sure the object
\* is not killed prematurely."
NotKilledPrematurely ==
  [][\A o \in Objects : DoTimeout(o) =>
       ~ id[o].pipe /\ \A t \in Workers : ~ (At(t, "handling") /\ threads[t].obj = o)]_vars

-----------------------------------------------------------------------------
(* The inductive invariants of the proofs                                  *)

Made(o) == id[o].state # "none"
Newest(o) == Made(o) /\ \A p \in Objects : Made(p) => p <= o
On(t, o) == threads[t].at # "idle" /\ threads[t].obj = o
Chains(t) == threads[t].at \in {"chaining", "chained", "rearming"}

\* With any client.  What threads, the queue and pipes work on has its request;
\* an object is chained to by one thread, which holds it until it is through.
Holding ==
  /\ \A t \in Threads : ~ At(t, "idle") =>
       threads[t].obj \in Objects /\ id[threads[t].obj].processed
  /\ \A t \in Threads : Chains(t) =>
       /\ threads[t].next \in Objects /\ Made(threads[t].next)
       /\ threads[t].next # threads[t].obj
  /\ \A t, u \in Threads :
       Chains(t) /\ Chains(u) /\ threads[t].next = threads[u].next => t = u
  /\ \A k \in DOMAIN queue : id[queue[k]].processed
  /\ \A o \in Objects : id[o].processed => Complete(id[o].raw)
  /\ \A o \in Objects : id[o].pipe => id[o].processed
  /\ \A o \in Objects : id[o].hold =>
       \E t \in Threads : At(t, "chained") /\ threads[t].next = o

\* An object without its request yet has the connection, unless that is
\* closed, and a do_timeout().
Waiting ==
  /\ \A o \in Objects : ~ id[o].processed =>
       /\ id[o].my_fd => Live(o) /\ id[o].timeouts > 0
       /\ Made(o) /\ (open \/ (Live(o) /\ ~ id[o].hold)) => id[o].my_fd
  /\ cb # 0 => open /\ Made(cb)

\* The inductive invariant with any client.
WatchInv == TypeOK /\ Holding /\ Waiting

\* With a patient client, as long as chain() has not come too late.  Objects
\* are made one after the other, and all but the newest are through with their
\* request; it has the callbacks until then, and no other has them.
Line ==
  /\ \A o, p \in Objects : p < o /\ Made(o) => Made(p)
  /\ \A o \in Objects : ~ Made(o) => id[o] = NewId
  /\ \A o \in Objects : Made(o) /\ ~ id[o].processed =>
       /\ Newest(o)
       /\ open => cb = o
  /\ cb # 0 => ~ id[cb].processed

\* The newest object is in one place: the queue, a thread, a pipe.  A thread
\* has the connection until it gives it on.
Turns ==
  /\ \A t \in Threads :
       /\ ~ At(t, "idle") => Made(threads[t].obj)
       /\ At(t, "handling") => t \in Workers
       /\ At(t, "handling") \/ At(t, "ending") => Newest(threads[t].obj)
       /\ Chains(t) => threads[t].next = threads[t].obj + 1
       /\ At(t, "chaining") /\ open => Live(threads[t].obj) /\ id[threads[t].obj].my_fd
  /\ \A t, u \in Threads, o \in Objects : On(t, o) /\ On(u, o) => t = u
  /\ queue # <<>> =>
       /\ Len(queue) = 1 /\ Newest(queue[1]) /\ ~ id[queue[1]].pipe
       /\ \A t \in Threads : ~ On(t, queue[1])
  /\ \A o \in Objects : id[o].pipe =>
       /\ Newest(o) /\ Live(o)
       /\ \A t \in Threads : On(t, o) => t = "backend" /\ At(t, "ending")

\* The bytes s, and behind them those not read yet, are what the client has
\* sent and no object has taken; or that is the line that is no request.
Consecutive(s, b) == \A i \in 1 .. Len(s) : s[i] = b + i
Unread(s) ==
  \/ /\ Len(s) + Len(net) = sent - 2 * Len(taken)
     /\ Consecutive(s, 2 * Len(taken))
     /\ Consecutive(net, 2 * Len(taken) + Len(s))
  \/ s = <<>> /\ net = <<0>> /\ sent = 2 * MaxRequests
AllAnswered == client # "gone" => Len(answered) = Len(taken)

\* The request of o was taken and its answer not yet sent.
Asked(o) ==
  \/ queue = <<o>>
  \/ \E t \in Threads : On(t, o) /\ At(t, "handling")
  \/ id[o].pipe /\ \A t \in Threads : ~ On(t, o)

\* What the object o has left over of the bytes it got, and leaves to the next.
Rest(o) ==
  /\ Unread(id[o].leftovers)
  /\ id[o].leftovers # <<>> => net = <<>> /\ sent % 2 = 0

Order ==
  /\ Len(answered) <= Len(taken)
  /\ \A k \in 1 .. Len(answered) : answered[k] = taken[k]
  /\ sent % 2 = 1 => sent = 2 * Len(answered) + 1
  /\ \A o \in Objects : Asked(o) =>
       /\ Len(taken) > 0 /\ taken[Len(taken)] = Request(id[o].raw)
       /\ client # "gone" => Len(answered) + 1 = Len(taken)
       /\ Rest(o)
  /\ \A t \in Threads : At(t, "ending") => AllAnswered /\ Rest(threads[t].obj)
  /\ \A t \in Threads : At(t, "chaining") /\ id[threads[t].obj].leftovers # <<>> =>
       /\ AllAnswered /\ Rest(threads[t].obj)
       /\ ~ id[threads[t].next].processed /\ id[threads[t].next].raw = <<>>
  /\ cb # 0 =>
       /\ AllAnswered /\ Len(id[cb].raw) <= 1
       /\ \/ Unread(id[cb].raw)
          \/ \E t \in Threads : /\ At(t, "chaining") /\ threads[t].next = cb
                               /\ id[threads[t].obj].leftovers # <<>>

\* The inductive invariant with a patient client.
OrderInv == WatchInv /\ Line /\ Turns /\ Whole /\ Order
Ordered == ~ raced => OrderInv
=============================================================================
