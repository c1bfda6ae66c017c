# Caudium: TLA+ models, checks and proofs

Caudium is a web server written in Pike, with a few modules in C. This directory
holds TLA+ modules that model its own core logic, TLC configurations that check
them on small instances, and TLAPS proofs of what holds for any instance. Every
definition is read off the source; `PROJECT.json` says, definition by
definition, from which lines. Paths below are relative to `src/server/` unless
they begin with `src/`.

How to run, in this directory:

    tlc -workers 2 -config MCHandlerPool.cfg MCHandlerPool
    tlapm ShutdownProofs.tla

1. [The system](#1-the-system) - its parts, their state, how they interact
2. [The modules](#2-the-modules) - what models what, and how
3. [The runs](#3-the-runs) - what TLC checks, bounds, fairness
4. [The proofs](#4-the-proofs) - what TLAPS shows, and by which invariant
5. [Where the code and its documents disagree](#5-where-the-code-and-its-documents-disagree)
6. [What is not covered](#6-what-is-not-covered)
7. [Plan](#7-plan)

## 1. The system

### How it runs

A Caudium process has one *backend* thread, Pike's event loop, which runs socket
callbacks, call_outs (timers) and signal handlers, and a pool of *handler
threads* which run request handlers. Pike has an interpreter lock: one thread
runs at a time and may be switched at function calls and backward jumps. So a
statement such as `number_of_threads--` is one step; what follows it may find
everything else changed. C code may release the lock around system calls. A
script, `start-caudium`, starts the process again when it dies, unless its exit
code is 0.

A request goes this way: the backend accepts a connection and makes a *request
object* for it (`protocols/http.pike`), whose callbacks collect the request;
`caudium->handle()` puts it in a queue; a handler thread takes it, finds the
modules that answer it (`base_server/configuration.pike`), and sends the answer,
at once if it is short, else through `Caudium.nbio`, a C object that the backend
drives. Then the connection is closed, or chained to a new request object.
Modules keep what is expensive in *caches*, which keep what should outlive the
process in the *storage*.

### The components

| Component | State it keeps | Operations | What makes it correct |
|---|---|---|---|
| **Handler threads** `base_server/caudium.pike` 540-680 | the queue, `number_of_threads`, `thread_reap_cnt` | handle, the thread loop, start, stop | each job handled once; an error costs no thread; a stop that says it is done is done, and a stop always returns |
| **Shutdown** same file, 260-385, 490-530, 3280-3490 | pending call_outs, `_recurse`, `shutting_down` | shutdown, restart, SIGTERM, SIGINT, EMFILE, exit | the exit code is the one that was asked for; modules stop before threads; the process does end |
| **Output pump** `src/src/cmods/_Caudium/nb_send.c` | list of inputs, buffer, modes of input and output, done callback | write, input, output, three callbacks | the bytes queued are the bytes sent, in order; done is called once; it never sleeps on data |
| **Storage** `etc/modules/Storage.pmod` | values in memory, pending syncs, a file per object, an index | store, retrieve, list, unlink (key, namespace, regexp), sync, stop, restart | reads are fresh, nothing is forgotten, what is removed stays removed, a stop saves |
| **HTTP connection** `protocols/http.pike` | request objects, socket callbacks, `do_timeout` call_outs, left-over bytes | got_data, handle_request, send_result, end, chain, timeouts | requests whole and in order, answered in order; no connection hangs; none is killed at work |
| **Request parser and text functions** `src/src/cmods/_Caudium/caudium.c` | a request buffer; else none | append; encode, decode, query string, headers, prestates, address, extension, attributes | the pieces in which a request comes make no difference; what one function writes another reads |
| **Entity parser** `src/src/cmods/_Caudium/entparse.c` | an output buffer | parse | entities replaced, the rest as it was, within the buffer |
| **UltraLog** `src/src/cmods/UltraLog` | automaton, tables of the hour and of the day | read, end of field, end of line, skip, end of file | each line counted once or broken, in the report of its day; tables that agree |
| **Mhash, PCRE, PiXSL** `src/src/cmods/...` | contexts and memory of a library | the methods, in any order | answers from the last start; no memory lost, no value of the stack left, but those one knows of |
| **Scratchpad** `src/src/cmods/_Caudium/scratchpad.c`, `.h` | a buffer per thread | get, grow, destroy | the buffer is as large as was asked for |
| **SQL file system** `modules/filesystems/sqlfs.pike`, `etc/include/sqlfs/` | a cache with times, a file position | find_file, have, retrieve, store, flush, read, seek | answers no older than the time to live, counted from their store |
| Range requests, `protocols/http.pike` 1157-1320 | none | parse, combine | the ranges of RFC 2616 |
| ABS and watchdog, `caudium.pike` 97, 164-207, 586-630, 1509-1559 | ping flags, call_outs | engage, check | a stuck server restarts, a busy one does not |
| Start script `start-caudium.in` | child pid, signals, exit code | loop, traps, watchdog | one server, restarted iff it should be |
| Caches `etc/modules/Cache.pmod` | RAM tier, disk tier, sizes, hit counts | store, retrieve, refresh, flush, expire, stop | what is refreshed is gone; sizes are what they say |
| FastCGI `modules/scripting/fastcgi.pike` | channels, request ids, streams | request, packet, close | an answer reaches its own request |
| Resolver and sockets `base_server/hosts.pike`, `socket.pike` | queues of callbacks by name | lookup, answer | each callback runs once |
| Sessions `modules/misc/gsession.pike` | sessions, collector counters | create, touch, collect | a session in use is not collected |

The rest of the tree (module dispatch, configuration interface, tags, file
systems, authentication, graphics, logging and so on) is listed in
`PROJECT.json` with the reason why it has no model: mostly functions of one
request, foreign code, or state that changes only while the server is set up.

### How they interact

- HTTP **calls** `caudium->handle()`: the pool's queue is the only way from the
  backend to handler threads. A handler may queue as well, when a pipelined
  request is left over.
- Shutdown **drives** the pool's stop from a call_out or from inside a signal
  handler, and then stops the cache manager in the same thread.
- HTTP, CGI and the proxies **own** a pump each; its done callback is their
  `end()`.
- The caches **call** the storage with a namespace each; the storage's call_outs
  run in the backend while handler threads use it.
- The start script sees only the **exit code**.

### What is hard

Counters that two threads change in turn; stops that run over work in progress,
from signal handlers that never return to what they interrupt; call_outs of
which several are pending and one is removed; objects destructed under a thread
that uses them; writes that take any part of what they are given; a crash
between truncation and write. In the C functions: boundaries of buffers and of
pointer loops, and objects whose methods are called in an order nobody tried.
`PROJECT.json` lists each under `hazards`, at its
line, with the property that would notice, or the reason why there is none.

## 2. The modules

| Module | Extends | Models |
|---|---|---|
| `HandlerPool` | | the queue, the threads and `stop_handler_threads()` |
| `Shutdown` | `HandlerPool` | how a process ends: composed with the pool it stops |
| `NBIO` | | the output pump |
| `Delivery` | | abstract: what a sender promises; `NBIO` refines it |
| `Disk` | | `Storage.Methods.Disk`: files and index |
| `StorageManager` | `Disk` | the write-behind store, with crashes and restarts |
| `HTTP` | | one client connection |
| `Bytes` | | text as a sequence of bytes, and the C idioms on it |
| `Text` | `Bytes` | the text functions of `caudium.c`, as operators |
| `ParseHTTP` | `Text` | the object `Caudium.ParseHTTP` |
| `EntParse` | `Bytes` | `ent_parser()` and its callback, as operators |
| `UltraUtil` | `Bytes` | the tables and summaries of `ultrautil.c`, as operators |
| `UltraLog` | `UltraUtil` | `ultraparse()` over a log file |
| `Mhash`, `PCRE`, `PiXSL` | | the objects of the three bindings |
| `Scratchpad` | | the scratchpads of some threads |
| `SQLFS` | | the cache of the SQL file system between requests and a database, and its file object |
| `MC...` | one each | values of the constants |
| `ShutdownProofs`, `StorageProofs`, `HTTPProofs`, `NBIOProofs`, `UltraLogProofs` | the module proved about | theorems (`ShutdownProofs` has those about `HandlerPool` too) |
| `ParseHTTPProofs` | `MCText` | theorems about the request parser, the entity parser and the text functions |
| `ObjectProofs` | `MCObjects` | theorems about the bindings, the scratchpads and the SQL file system, and about all of them together |
| `Lemmas` | | facts about sequences and sums that the proofs share, the principles of the least number and the smallest set, and that a table exists whose entries follow from those before or behind them |

Definitions keep the names of the source. Variables marked *(history)* are not
in the code: they record what happened so that a property can speak of it. A
definition marked *Mutant of X* is no part of the model: it is X with a
plausible bug, by which one sees that a property can fail.

**HandlerPool.** `queued` is every item ever written to `handle_queue`, of which
`r_ptr` have been read. `ReadJob`, `JobDone`, `JobFails`, `ReadPoison`, `Reap`
are the loop of `handler_thread()`, with the catch around a handler.
`StopWrite` and `StopCount` are the two statements of one iteration of the stop
(a thread can read the zero in between, so `thread_reap_cnt` passes through
-1); `StopTick` is a second of waiting. Sleeping is not modelled as time, only
counted.

**Shutdown.** `call_outs` are the pending `really_low_shutdown`s, oldest first:
they have equal delays, so they fire in that order. `closing` is
`__close_connections`, `cache_guard` is `cache_shutdown_failed`. Signal handlers
are steps of the backend at any point of it, also inside the stop of the
threads; as they end in `exit()`, the interrupted call is never resumed, which
is why `StopThreads` may be taken from any state. The threaded build is
modelled: it does not fork.

**NBIO.** A byte is the pair of its input and its offset there, so loss,
duplication and reordering can be told apart. `pc` divides `_output_write_cb`
where it writes. `armed` says whether the output has a write callback; `mode` of
an input whether it has read and close callbacks. Kinds of input: string,
non-blocking object, blocking object, mapped file (mapped in parts of
`MaxMmap`). `RemapMayFail` lets a later `mmap()` fail (`RemapFails`): line 718 compares
`TEST_MMAP_FAILOVER` with `NBIO_BLOCK_OBJ`, of which the first is commented out and the
second is an enumerator, so the preprocessor compares 0 with 0 and always takes the
first branch. The head becomes a blocking object that has a descriptor, and the same
callback goes on to read from it (`ReadFd`, `ReadFdFails`) and to write what it has
read (`WriteRead`), with `outp->mode` left at `IDLE`. A file is assumed not to become
shorter while it is sent. `AnyOrder` lets a caller queue a file object before the last
position, which no caller in the tree does. The statistics (`nobjects`, `mmapped`) are
left out.

**Disk, StorageManager.** An entry is a namespace with a key, a value the number
of its `store()`. A file holds a value, nothing, or is `Torn`: opened and
truncated and not yet written; `decode()` rejects such a file. `Disk`'s
operations are single steps but for `sync()`'s write, which clients may
interleave with (`SyncLooks`, `SyncOpens`, `SyncWrites`), and the index file,
which is opened and written. `job` is the `sync()` or `sync_all()` under way,
of which there is one at a time. `Crash` may happen between any two steps;
`Restart` is `create()` of the next process. `sync_all(ns)` goes over its
entries twice in the code; the second time changes nothing that the first did
not, and it is modelled once.

**HTTP.** Request `r` is two bytes, the second of which completes it. An object
of `id` has the callbacks of the connection (`cb`) or not, some `do_timeout`s
called out (`timeouts`), and left-over bytes. `threads` says what each thread is
doing for this connection: handling, ending, chaining, rearming. `Chain` is `chain()`
up to and with its `got_data()`; `Chained` is what it tests after that, between which it
calls nothing; `Rearm` is the two calls that set the callbacks. Before `Rearm` the
backend may take the object's request, and the object then has its callbacks back:
`raced` *(history)* records that. After it, the object may take a request a second
time, of bytes that are left over (1590), and one without a connection throws. The two
calls of `Rearm` are one step, and so is each `got_data()`. A function of a destructed
object is no callback (`HasCallbacks`). `TimePasses` says of an object that thirty seconds have
passed since its `time`. A pipe is NBIO, reduced to "will be done, or stuck".

**Bytes, Text, EntParse.** Text is a sequence of byte values, as these functions
are about bytes. A pointer loop is an operator over positions, or the sets of
positions it stops at; recursion is a function over positions, so no operator is
RECURSIVE. Each function is compared with a definition by the parts of the text
(`HeaderLines`, `SplitQuery`, `Replaced`), which knows nothing of pointers. The
bytes of an entity that a scope does not know come out as they went in, as in
the code. The arrays an entity is collected in have `EntMaxEntsize + 1` bytes; a
`Dot` that writes behind them ends the model with `Overrun`, which is no code of
the parser: what the program does from there is undefined.

**ParseHTTP.** `data` is what the buffer holds, `free` the room left. `BufAppend`
is `append()` with any next piece of the stream: the scan for the empty line from
`Lookback` bytes before, then the request line and the one pass over the headers
with their error returns. `ret` is what the last call returned.

**UltraLog, UltraUtil.** The automaton takes one byte a step. `parser` is the line
buffer, the position in the format and the points of the fields, with the values
that are *not* reset between lines (`NextLine`). `hour` and `day` are the tables of
the two scopes; `EndOfLine` flushes the one or both into `reports`, the calls of the
daily callback, before it counts the line. `Skip` is the inner loop behind a broken
field, `Cleanup` the end of the file. A table is a function from keys to counts.

**Mhash, PCRE, PiXSL.** One action per method and outcome. What a library decides
is a choice: whether a pattern compiles, what `pcre_exec()` returns, which callbacks
Sablotron calls in which order. Memory is a count of blocks, the Pike stack a count
of values. An error thrown is an action that leaves things where they are at the
throw. `MakesTables(n)` is the `pcre_maketables()` of a `create()` in another locale than
"C" (n = 1), whose block nobody frees; `RunReturns` leaves the text of the result to
nobody. The process's locale may change from call to call, which is more than a
server does. `PcreSplitUndefined` is a `split()` whose `pcre_exec()` returns an error that
it does not list: it asks Pike for an array of a negative size, which is undefined,
and the model of the object ends there.

**Scratchpad.** Per thread the size the code believes in (`buf_size`) and the bytes
that the buffer really has (`bytes`), which part after an error.

**SQLFS.** Two requests, each `find_file()`, `have()`, `retrieve()` or the queries and
`store()`, interleave with each other, with a clock and with changes of the database.
The clock goes on at any point, also between the answer of a query and its
`store()`, which stamps it with the time of then: nothing in the code bounds that
time, and `sq_delay` *(history)* is the longest there was.
`m_delete()` returns the mapping or the value, depending on the Pike version;
`FlushOperation` and `CacheThrows` have both. `ShRead`, `ShSeek` and `ShTruncate` are
the file object.

## 3. The runs

Passing runs; each takes less than a minute or so.

| Run | Instance | Shows |
|---|---|---|
| `pool` | 2 threads, 3 jobs, 2 ticks | the counters agree with queue and threads (`Accounting`); no job is lost or run twice (`EachReadOnce`); a throw costs no thread (`NoThreadLost`); a clean stop is clean (`CleanStop`); accepted jobs are handled (`AcceptedIsHandled`); the stop returns (`StopReturns`) |
| `shutdown` | 2 requests to end by any route, 2 threads, 2 jobs, 2 ticks, patience 1 | `FirstAskedDecides`, `OneSocketRestart`, `ModulesStopFirst`, `GracefulExit`, `AskedEnds` |
| `nbio` | up to 3 inputs of 9 shapes in callers' order; mappings may fail, and so may the reads that follow | the pump idles only for an input that will wake it (`NoSleepOnData`), calls done once (`DoneOnce`), and finishes (`Finishes`) |
| `nbio_any` | the same in any order; mappings do not fail | no byte lost, doubled or moved (`Conserved`), the buffer is bounded (`BufferBounded`), and the pump implements `Delivery` (`Delivers`) |
| `storage` | 2 entries, 2 stores, 1 crash | `FreshRead`, `NothingForgotten`, `UnlinkedIsGone`, `StopSaves` |
| `http` | 3 requests, 2 threads, keep-alive, a patient client | requests are taken in order, whole and once, and answered one at a time, until a `chain()` has set callbacks too late (`InOrder`, `AnswersInOrder`); whatever that does, a waiting object is watched by a call_out (`Watched`), a request taken is answered or the connection closed (`TakenIsAnswered`), and the connection ends (`ConnectionEnds`) |
| `text` | some 700 small requests cut in every way, buffer sizes 5 (refused) and 22; every word over 8 alphabets of delimiters | the end of the head is seen wherever it is cut (`EndSeenInPieces`); headers are what their lines say (`HeadersAreTheLines`); the buffer of a request is not overrun, nor is the output buffer of the entity parser, as long as no entity has outgrown its array (`BuffersHold`); query strings come apart at their separators (`QueryByParameterOK`); encoders and decoders, the two header parsers, prestates, addresses, extensions, attributes and entities agree with each other (`TextComesBack`) |
| `ultralog` | logs of 3 lines out of 14 kinds, and CRLF logs; 7 formats; a line buffer of 30, blocks of 16 | the automaton stays inside its tables (`InsideTheTables`), lines are counted once or broken (`LinesAccounted`), each report is of one day and each line in one report (`ReportsOfOneDay`), the tables of a report add up (`DayTotals`) |
| `objects` | hashes and HMACs of 2 types, 2 patterns, XSLT runs of 4 callbacks, 2 threads' scratchpads, 2 requests to a cached database | an object used again answers from its last start (`NoStaleAnswer`), memory is lost only to tables, results and errors, and values are left on the stack only by `close()` (`LossesKnown`), `PointerIsValid`, an answer is older than its request by the time to live and the time its store took at most (`AnswerFresh`), and files read in pieces have no gap (`PiecesCover`) |

Runs that TLC must refute are in section 5.

### Bounds, and why they are enough

- *Pool*: two threads are what it takes for one to read a zero, or the other's,
  while the backend counts; three jobs let one wait while both run, and let a
  handler queue behind the zeroes. Two ticks give one stop that waits and
  succeeds and one that gives up. The safety properties are proved for any
  number of each.
- *Shutdown*: two requests give every pair of routes in both orders. Patience
  is 1 and not 4, so that SIGINT reaches its impatient branch with two; the code
  only compares the counter.
- *NBIO*: a buffer of two reads' worth and a mapping of two bytes, with inputs
  from zero to five bytes, let every boundary fall before, at and after each
  other one. Three inputs have a head, a successor and one behind.
- *Storage*: two stores let a value overtake another of the same entry, or one
  entry be written while the other changes; one crash at any step of either.
  Proved for any number.
- *HTTP*: three requests need a chain of a chain, the case in which an object is
  both a child and a parent; two threads let one answer the next request while
  the other still finishes `chain()`.

- *Text*: words of 4 to 9 letters over alphabets of the bytes that a function
  treats apart, and one or two it does not: every pair of boundaries is
  adjacent somewhere. Requests have up to two headers, so that a name can come
  again, and three kinds of line end.
- *UltraLog*: three lines make a line before, at and behind a change of hour and
  of day, a broken one between good ones, and one that is thrown away with it.
  The line buffer is shorter than the longest line; blocks end inside fields.
- *Objects*: two of each thing that may be mistaken for another (types, keys,
  patterns, threads, requests); two tables and two results, so that the loss is
  seen to be one for each. The clock has four times, enough for an entry to expire
  and for an answer to be stored as late as the bound of `AnswerFresh` allows: without
  `sq_delay` TLC refutes both its clauses on this instance.

`CHECK_DEADLOCK FALSE` is said where the system does stop: a finished pump, a
closed connection with a client that is done, a log read to its end, a word of
full length.

### Fairness

Only what the process itself does is fair. Weak fairness of the backend: the
event loop runs its callbacks and call_outs. Weak fairness of each handler
thread *outside* a handler: Pike's scheduler runs it. Handlers themselves may
hang for ever: `StopReturns` and `AskedEnds` hold in spite of it, and
`AcceptedIsHandled` takes their return as a premise inside the property. No
client, admin or signal is fair. In `NBIO` the peer either reads or fails, and
inputs deliver or close: a write that may take nothing takes something again and
again (strong fairness of `Progress`, since the callback that takes nothing is
a step too). This is the one assumption on the world, and the timeout that the
caller has for its failure is modelled in `HTTP` (`PipeTimeout`). In `HTTP`,
time passes, and the answer of a handler is assumed to come; the client may
stop reading, disappear or say nothing at any time. In `Shutdown`,
`cache_manager->stop()` returns or throws if `CacheMayHang` is FALSE.

`NBIO`'s idle output and `HTTP`'s request queue are about one object: that
the backend serves other connections in between is stuttering.

## 4. The proofs

Everything here is checked by TLAPS (SMT with Z3, Zenon, and LS4 for the last,
temporal step of each theorem) for all values of the constants that satisfy the
modules' `ASSUME`s: at least one thread and one tick, the zero being no job,
natural bounds, entries being pairs, sizes of scratchpads.

**ShutdownProofs**, on the pool. `PoolInv == TypeOK /\ Held /\ Stages /\ EachReadOnce /\
Accounting` is inductive. `Accounting` is the heart: threads in their loop =
`number_of_threads` + zeroes still queued, and `thread_reap_cnt` = zeroes queued
+ threads that have read one, less one while the backend is between its two
statements. `CleanStop` is not inductive by itself: it follows because a
count of zero at `stopped` leaves no zero queued and nobody in the loop, hence a
read index past every job that was before the first zero. `Held` (a thread holds
a position iff it runs) and `Stages` (what has happened at each stage of the
stop) are what the steps need of one another. Theorems: `TypeCorrect`,
`AccountingHolds`, `ReadOnce`, `StopIsClean`, `ThreadsSurvive`.

**ShutdownProofs**, on shutdown. `ShutdownInv == ShutdownTypeOK /\ Ways /\ Sockets /\
Promise`. `Promise` says that until one fires the pending call_outs are, one for
one, the requests made, and afterwards that the exit code is that of the first;
it holds as long as no SIGINT came and the cache did not fail, which `Ways`
ties to the state (`closing` means SIGINT was there, the guard cannot fire
without a failure). The pool enters only through where the backend thread is, so
its steps are one lemma. `GracefulExit` is about both: `GracefulInv == ShutdownInv /\
Orderly /\ Waited`, where `Orderly` says that the pool keeps `PoolInv` until the
SIGINT that runs out of patience interrupts a stop (`Stages` holds of the pool also
when another call_out stops it again), and `Waited` that an exit which is not that
of the cache's guard has waited for the threads. Theorems: `ShutdownTypes`,
`FirstDecides`, `SocketsAskOnce`, `ModulesFirst`, `GracefulExitTheorem`.

**StorageProofs.** `StorageInv == TypeOK /\ MemoryIsLatest /\ WriteUnderWay /\
GoneIsNowhere /\ NothingForgotten`. `FreshRead` alone is not inductive: one has
to know that a write under way carries the latest value, or that another sync is
still called out for that entry (`WriteUnderWay`), and that without a value in
memory no write is under way (`MemoryIsLatest`). For `StopSaves`, a second
invariant, `SyncAllUnderWay`, follows each value that was there when the
`sync_all()` began through `todo`, the open file and the file. Theorems:
`StorageTypes`, `ReadsAreFresh`, `NothingIsForgotten`, `UnlinkedStaysGone`,
`StopSavesAll`.

**HTTPProofs.** `WatchInv == TypeOK /\ Holding /\ Waiting` is inductive for any
client. `Holding` says who may work on an object: what a thread, the queue or a
pipe has is an object whose request is complete, and an object that is chained to
belongs to the one thread that chains. `Waiting` says that an object without its
request has the connection and a `do_timeout()` called out, unless a `chain()` is
about to give it. `InOrder` and `AnswersInOrder` need a client that waits for its
answers (`~ Eager`; with the other kind they are false, see 5), and more:
`Ordered == ~ raced => OrderInv` with `OrderInv == WatchInv /\ Line /\ Turns /\ Whole /\
Order`, and `WatchInv` whatever has raced. `Line`: objects are
made one after the other and all but the newest are through with their request.
`Turns`: the newest is in one place, the queue, a thread or a pipe. `Order`
accounts for every byte the client sent: the requests taken, what the object in
turn holds or has left over, and what is still in the network are consecutive
(`Unread`), also between `create()` and the `got_data()` of a `chain()`. Theorems:
`HTTPTypes`, `WatchedTheorem`, `InOrderTheorem`, `AnswersInOrderTheorem`.

**NBIOProofs.** `PumpInv == TypeOK /\ Control /\ InputOK of each input` ties the
five states of the output to `armed`, `called` and the buffer, and says how far
each kind of input may have been read: `DoneOnceTheorem` is part of it. On top of it
stand three more invariants, one for each property. After a failed mapping the
output's mode says `IDLE` while it writes, so `armed` and not the mode tells whether it
waits; and `buf_pos` is not reset when the bytes read from a descriptor have gone, so
the invariant bounds `buf_pos + Len(buf)` by one read there. `LastWaits`, with a file
object queued last (`~ AnyOrder`, as the callers in the server do; the run
`nbio_sleep` shows why it is needed): an idle output has one input left, which
reads. `Filled` with `Ascending`: the buffer is over `READ_BUFFER_SIZE` by one read
for each non-blocking object spent, because an input that ends in a full buffer wakes its
successor. `Balance`, the equation `sent \o buf \o Remaining = Expected` of
`Conserved`: each step cuts a piece off the head of one of its parts and puts it at
the end of the one before, which lemmas about `FlattenSeq` turn into equalities of
streams. It assumes that no later `mmap()` fails and that no file that is mapped or
read blocking is queued with a length below its size (`KeptLengths`: those lengths
the code ignores, see 5). `DeliversTheorem` is the refinement of `Delivery`, step by
step, under the same two assumptions.

**UltraLogProofs.** `UltraInv == LinesInv /\ BufferInv`. `LinesInv` strengthens
`LinesAccounted` by the line that is being skipped, which counts as one end of a
line more on both sides; without it the upper bound is not inductive. `BufferInv`
says that the points of the fields lie inside the buffer, and that the position is
one of the format's. That the last field of every accepted format ends with the
line, so that the automaton never walks off its end, is `FormatEnds`, a fact about
the recursive `parse_log_format()`. Two more invariants are about the tables, and
need nothing of the parser. `DayInv`, for `ReportsOfOneDay`: the open day has the
lines of the date of the last line and no other, none of the reports made while the
log is read is final, and what they have counted with the open day are all the lines.
`TotalsInv`, for `DayTotals`: `Sums` says what agrees in a day at any time, `OpenHour` what
agrees in it only together with the hour that is open (the files found, which reach
`pages` and `hits` at the end of the hour; the hosts and sessions of each hour, where a
session that ends by a line of its own host moves from one to the other). `FlushSums`
ends an hour, `CountSums` counts a line, and `SummaryAgrees` makes the report. `Total` is a
sum in an order nobody knows (`CHOOSE`), and `FoldLeft` one in the order of the reports;
`Lemmas` shows that the order makes no difference (`AnyFirst`, `TableIsSum`) and what
follows for a part and the rest, two tables added up, and keys renamed (`SumSplit`,
`SumPlus`, `SumFibers`), by a smallest subset of the keys for which it fails. Theorems:
`InsideTheTablesTheorem`, `LinesAccountedTheorem`, `ReportsOfOneDayTheorem`,
`DayTotalsTheorem`.

**ParseHTTPProofs.** `EndInv == StreamType /\ NoEndYet /\ BodyIsTheRest`. `Ends(d, p, n)`
are the ends of a head that is scanned from position p with n line feeds counted;
one step of the scan leaves them as they are (`EndsStep`), so the scan tells whether
there is one, and the first (`ScanTells`). `EnoughLookback` is the point: when the bytes
kept so far have no empty line and there are no three carriage returns in a row, the
three bytes the scan goes back are enough, and the ends it can find are all there
are. `RoomInv` counts the bytes free. For the entity parser `Held`, the output is
inside the buffer, is kept by every kind of byte, because the growing of `append_data`
allows for the text and two bytes more (an entity without a value is put back
with its two marks: one less would not do), up to the byte that overruns the
array of an entity (`Overrun`), behind which nothing is claimed. Theorems: `EndSeenTheorem`,
`BuffersHoldTheorem`.

For `HeadersAreTheLines`, `HeadInv == NoShortYet /\ HeadersAreTheLines`. The scan can
miss an empty line, one with three carriage returns or more that is cut between
two pieces; then the head goes on to a later one. But as long as `append()` answers
0, or refuses, what it has kept has no *short* end, an empty line with one carriage
return at most, which the three bytes are always enough to see (`ShortSeen`). A head
whose lines are well-formed can end with a short one only, since no other line is
nothing when its carriage return is taken off (`FirstHeadSays`), so the end that is
found is the first, and the head has the header lines and then nothing
(`HeadersThenNot`). The loop finds one pair in each of these lines (`LinesFound`, line
by line from the last), and `JoinedIs` says what any loop over pairs makes: each name
with the values it has, joined in their order. Together they are the mapping that the
reference makes of the lines (`HeadersSay`). Theorem: `HeadersAreTheLinesTheorem`.

The text functions have no state, so their theorems are about any sequence of bytes,
of which `MCText` checks those up to a length: `QueryTheorem` is `QueryByParameter`, and
`EncodingTheorem`, `HeaderParsersTheorem`, `PrestatesTheorem`, `AddressTheorem`,
`ExtensionTheorem`, `AttributesTheorem` and `EntitiesTheorem` are each one part of
`TextComesBack`. `QueryByParameterTheorem` and `TextComesBackTheorem` take them to every
state of `MCText`, whose words are made of bytes (`WordInv`) and, for queries, have no
NUL (`QueryInv`). `EncodingTheorem` gives each byte of the source its place in the encoded text (`Laid`, `HasPlaces`);
a decoder, which takes one byte or an escape of three at a time, is at such a place
whenever it begins a step, and makes of what follows the rest of the source
(`DecodeLaid`). For the prestates, the first position of each delimiter is
found (`FirstOfIs`), and that a list that is split before and after something is
appended has the same pieces (`SplitMore`). For the entities, after each turn
(`Turned`) the parser has failed for memory, or is outside of an entity, its output
followed by the reference for the rest being the reference for the whole (`Outside`),
or has read some bytes of an entity (`Within`), of which its two buffers hold the name
and the parts so far (`Reading`); the reference is a table by recursion that looks
ahead, so `ReplacesExists` first shows that there is one, and `WholeEntity` that the
parts the parser collects byte by byte are those the reference finds at once. For
attributes, an encoded string is a table whose entries are each the code of one byte
before what the rest makes (`ChainTable`), so none of its bytes is a mark of the tag, and
different texts have different codes. For query strings, the loop is followed from the
end of one parameter to the end of the next, with what it has put aside between them
(`InParam`, `ParamsFound`): the name and the value it takes there are those of the piece,
and `JoinedIs` does the rest. For the two header parsers, one reads line by line from
the position the last header ended at (`HeadersStep`) and the other from colon to
colon: both find the pair of each line (`SamePairs`), and where each name is there once
the last value of a name is all its values (`LastIsJoined`).

**ObjectProofs.** First each object alone.
- `PadInv`: in a thread in which nothing was thrown the buffer has at least
  `buf_size` bytes, which is what `scratchpad_get()` compares with;
  `PointerIsValid` alone says nothing of that.
- `Blocks` counts blocks for PCRE: one while there is a pattern, one for each table made
  and at most one for each call that threw. `XsInv` counts those of Sablotron: two
  while a run is on, at most two for each run that threw, one for each result; and
  on the stack one value for each `close()` that succeeded.
- `MhInv`: `Sound` of the storage; the contexts and the digest are of the data fed,
  an object has those of its own class only, and never a context beside a digest.
  A lemma says what each start of an object makes; each method is one of these.
- `PiecesInv` is `PiecesCover` with its types.
- `FreshInv == HistoryInv /\ CacheInv /\ ReadersInv`, for `AnswerFresh`: each entry of
  the cache was the file's version at the time of its stamp or up to `sq_delay` before
  it, and a delay never shrinks; a request that has
  flushed the cache finds no entry from before its own start until it is
  answered (`NoneBefore`), although other requests go on storing, because what they
  store is stamped with now. What they store is older than its stamp by `sq_delay` at
  most. Each step leaves entries that were there or are of now (`OldOrOfNow`), so that
  one lemma serves all.

Then together: a behaviour of `MCObjects` is one of each object
(`ObjectsBehave`), from which `NoStaleAnswerTheorem` and `LossesKnownTheorem`, the two
properties the run checks of them together.

**Data without induction.** The induction theorems of the library cannot be
instantiated here. Where a fact about all positions of a sequence is needed (that
`FlattenSeq` of a list is its head before the rest; where `parse_log_format()` ends; what
the scan of the request parser tells; the turns of the entity parser; the steps of a
decoder), the proof takes the least counterexample, by `Least` of `Lemmas`, which says
that a set of natural numbers that is not empty has a least element, and refutes
it (`FromTheStart`, `FromTheEnd`: the first or the last position for which it fails); for sums over a finite set it takes a smallest subset (`SmallestSet`). A table
that is defined by recursion is a choice (`CHOOSE`) for the prover, of which nothing is
known unless there is one: `RecursionIs` of `Lemmas` says that there is when each value
depends on those of a smaller rank only.

The type invariants of the pool, of shutdown, the storage, the connection and the
pump are conjuncts of these invariants and theorems of their own.

**Only model-checked:** every liveness property (the prover has neither fairness
nor ENABLED). Every invariant and every action property that a passing run checks is
also the property of a theorem.

## 5. Where the code and its documents disagree

Found by a run that TLC refutes; the counterexample is the run's output.

| Run | The document says | The code does |
|---|---|---|
| `nbio_sleep`, `NoSleepOnData` | `write_cb` will be called once data is available (`nb_send.c` 655) | an input that ends while the output idles wakes nobody; what is queued behind it is never sent. No caller in the tree queues anything behind an object |
| `storage_flush`, `FlushedIsGone` | `flush(regexp)` removes matching objects (`SlowStorage.pike`) | the files go, the values in memory stay and are read |
| `http_timeout`, `NotKilledPrematurely` | `time` is checked so that an object is not killed prematurely (`http.pike` 1720) | on a kept-alive connection one of two `do_timeout`s is left over, and cuts off an answer that takes more than thirty seconds |

Written as a property that TLC refutes when it is added to the configuration named;
they have no run of their own:

- `TerminateQuits` (`MCShutdown.cfg`): SIGTERM is a shutdown with exit code 0
  (`caudium.pike` 3478); a restart asked for within five seconds before fires
  first, and the start script starts again.
- `CacheGuardEnds` (`MCShutdown.cfg` with `CacheMayHang = TRUE`): thirty seconds, then
  "Caudium was not able to cleanly shutdown the cache" (`caudium.pike` 380); but the
  guard is a call_out of the thread that hangs.
- `PosIsPosition` (`MCNBIO.cfg`): `pos` is the current position (`caudium.h`); when a
  later `mmap()` fails, the file is read on from its beginning.
- `EntitySizeOK` (`MCText.cfg`): `ENT_MAX_ENTSIZE` is "the maximum size of the entity name
  (excluding the & and the ; chars)" (`entparse.h` 98), and a longer entity is
  `ENT_ERR_ENTNAMELONG`; but a dot is added to an entity without a look at its length
  (`entparse.c` 228), so that it grows out of the array of 256 bytes that it is
  collected in (`&aaaa.` with an `EntMaxEntsize` of 4). `BuffersHold` is about the output
  buffer of the parser as long as that has not happened.
- `QueryCompleteOK` (`MCText.cfg`): "Format and unescape all query string and add the
  result to the mapping" (`etc/modules/Caudium.pmod/module.pmod`); behind an empty
  parameter nothing is added, `&a=x` gives no variable.

Met while modelling, and followed by the model:

- `caudium.c`: `html_safeentities` has `<` and `>` swapped (112). `parse_prestates()`
  takes every prefix of "internal" for it. `append()` answers 413 to a large piece
  whose head is small (documented for large headers, 437); three carriage returns
  between line feeds hide the end of a head that is cut there. Nothing in the tree
  uses ParseHTTP, `protocols/http.pike` parses on its own.
- `nb_send.c`: after a failed `mmap()` the object meant to become a non-blocking one
  (713, "converting to NBIO_OBJ") always becomes a blocking one, because of the test of
  line 718; it is read from where its descriptor is.
- `entparse.c`: a callback gets the first part of an entity only; a bare `&` drops
  the text up to the end.
- `ultraparse.c`: `num_states` is a truth value (252), so that the test for too few
  fields (573) never fires; three letters that are no month keep an older number;
  a field that is broken at the end of its line throws the next line away as well;
  a log with CR LF counts each line twice; the last report is dated by the last
  line parsed and lost if a part of the date is zero; the byte before a `?` is
  lost; an hour over 23 writes behind the arrays. `SESSION_IDLE` is 600 seconds and
  its comment says 20 minutes (`ultraparse.h` 131).
- `scratchpad.h`: "it always returns a valid pointer"; after a call that threw, the
  next may return a buffer that is too small, or NULL.
- `hmac.c`: `create(type)` makes a context without a key, and `set_key()` then throws.
- `pcre.c`: `match()` takes the errors it does not list for a match; `split()` asks for an
  array of a negative size for them (292); memory is lost when an error is thrown,
  and in a locale other than "C" one block of tables for every pattern (134).
- `sablot.c`: the text of a result (256) is copied and never freed; `error()` may return the error of an earlier run; a `getAll()` of a wrong
  type pops the stack twice, and a `close()` that succeeds leaves a value there;
  a nested `getAll()` frees a buffer that Sablotron holds; `success` is not
  initialised.
- `sqlfs`: the age of an entry counts from its store, not from its query, and nothing
  bounds the time between them (`read.h` 363-383): an old answer stored behind the
  flush of another request is served as new, also to one with `no-cache`.
  With a Pike whose `m_delete()` returns the value, flushing a path that is
  not cached makes the cache 0 and all later requests throw; an entry flushed
  between `have()` and `retrieve()` gives 0; `trunctate` is misspelt; `seek()` adds
  a negative offset; a piece read repeats the last byte of the one before.
- `http.pike`: with a client that pipelines without waiting (`Eager = TRUE`),
  `InOrder` and `AnswersInOrder` fail: `create()` takes the callbacks before `chain()`
  has delivered the left-over bytes, so later bytes can be parsed before them, and
  the request they make is taken again with the left-over ones behind it. `Watched`,
  `TakenIsAnswered` and `ConnectionEnds` hold with such a client too (a run of some
  minutes).
  `chain()` looks at `processed` and then makes two calls (1885-1888): when the
  backend takes the request in between, an object that is handled has its callbacks
  back, and may take a request a second time while the first is answered. Without
  their premise `~ raced` TLC refutes `InOrder` and `AnswersInOrder` (`Whole`, `OneByOne`)
  on the instance of `http`. No comment says otherwise, so there is no run for it.
  With `KeepAlive = FALSE` `NotKilledPrematurely` holds. A request that waits in the queue for more
  than thirty seconds is killed as well. The 150 s that `chain()` gives a kept
  connection are undone by the 30 s call_out that `create()` made. The comment at
  the pipe's timer says 360 s, the call_out 300. The branch that sets
  `unread_data` cannot be taken. A suffix range longer than the file keeps its
  negative start (1290-1295: `r1` is corrected and then not used).
- `caudium.pike` 569: the comment on `thread_reap_cnt` describes another count;
  346-348: the description of `restart()` is that of the build without threads.
- `Disk.pike` 64: "orphans" are to be removed by `create()`; lines 80 and 83
  append the directory twice, and the path that is removed does not exist.
- `Storage.Manager`: `storage_types()` offers "MySQL", `start()` knows "SQL";
  `sync_all()` without a namespace passes 0 on, so that `list()`, `size()` and
  `destroy()` sync nothing; `stop()` of one namespace ends the index sync of
  all; an `unlink()` while the entry's file is being written can bring the file
  back (`UnlinkedIsGone` leaves such entries out, and says so); `unlink(ns)`
  with an index from before a crash leaves files that it does not name.
- `nb_send.c` 356: the length given for a mapped file is ignored in favour of
  that of the file.

## 6. What is not covered

- Parsing in Pike (`http.pike` has its own), dates, logging. Of the C modules:
  clocks and calendars (`datetime.c`, and `getdate.c`, which is generated),
  system calls, and what the libraries behind the bindings compute.
- The writing half of the SQL file system: `write.h` is commented out of the build.
- In HTTP: results that leave the connection to a module, `PING`, bodies over
  `PostBodySize`, HTTPS.
- In Shutdown: builds without threads; what a stopped module does with a
  request.
- In Storage: sizes; the methods SQL, GDBM and None; two syncs at once, which
  can only happen when a handler thread calls `unlink_regexp()` during one.
- In NBIO: allocation failures, and reads of freed memory in
  `f__input_read_cb` (848), of which the harmless outcome is modelled.
- Every component without a module in `PROJECT.json`.
- Hazards that no property is about: a handler that queues behind the last zero
  (`caudium.pike` 630); requests to modules whose `stop()` has run (301); a mapping
  that fails (`nb_send.c` 707), the length of a mapped file (237), a second thread
  that calls into a pump while it writes (615); an index file older than the files
  (`Disk.pike` 83) and two entries of one hash (219); an `unlink()` during a write
  (`Manager.pike` 140); a body over `PostBodySize` (`http.pike` 490).

Recursive operators are avoided in all modules, so that theorems about each
remain possible.

## 7. Plan

In this order; the first eight are done, the ninth in part.

1. **HandlerPool** and its proofs: everything that is concurrent goes through it.
2. **Shutdown** over it, with its proofs: the hardest interleavings.
3. **NBIO** with **Delivery**: the one part in C with its own control flow.
4. **Disk** and **StorageManager**, with proofs: crashes.
5. **HTTP**: the connection.
6. **Text**, **ParseHTTP**, **EntParse** and **UltraLog**: the C code that walks over
   bytes of its own accord.
7. **Mhash**, **PCRE**, **PiXSL**, **Scratchpad**, **SQLFS** and the first
   theorems about them: objects with methods in any order.
8. **HTTPProofs**, **NBIOProofs**, **UltraLogProofs**, **ParseHTTPProofs**, and the rest of
   **ObjectProofs**: the invariants of every component that is modelled.
9. The text functions, for every text: encoding, query strings, header lines and the
   two header parsers, prestates, addresses, extensions, attributes and entities. Done.
10. **Ranges**: `parse_range_header()` and the multipart wrapper against
   the ranges that the RFC defines, for all small files and headers.
11. **AntiBlock** and **Supervisor**: the in-server watchdog over the pool,
   and the start script over the exit codes of `Shutdown`. Abstract
   specification: a server that answers is never restarted, one that does not
   is.
12. **CacheTiers** over `StorageManager`: RAM and disk tier. To look at:
    `refresh()` unlinks a key that nothing is stored under; `store()` over an
    existing object counts its size twice; an error in `expire_cache()` leaves
    `in_expire` set for good.
13. **FastCGI**: request ids on shared channels. **Sockets**: the resolver and
    `async_connect()`, callbacks that run once. **Sessions**: the collector.
14. **Connection**: `HTTP` with `HandlerPool` in place of its own queue, so that a
    stop meets pipelined requests.
