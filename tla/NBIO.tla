------------------------------- MODULE NBIO --------------------------------
(***************************************************************************)
(* Caudium.nbio (src/cmods/_Caudium/nb_send.c): the object that pumps a    *)
(* list of inputs into one output from the callbacks of the backend.       *)
(*                                                                         *)
(* A caller queues strings and file objects with write() and input(), sets *)
(* a done callback and hands over the socket with output(); after that     *)
(* everything happens in three callbacks, which the backend runs one at a  *)
(* time: _output_write_cb when the socket can take data, _input_read_cb    *)
(* and _input_close_cb for a non-blocking input at the head of the list.   *)
(*                                                                         *)
(* A byte is the pair <<input, offset in that input's source>>.  do_write  *)
(* releases the interpreter lock, so _output_write_cb is not one step: pc  *)
(* says how far it has come.                                               *)
(***************************************************************************)
EXTENDS Integers, Sequences, SequencesExt

CONSTANTS
  Offers,         \* what a caller may queue: records [kind, size, limit]
  MaxInputs,      \* bound: inputs queued on one object
  ReadBuffer,     \* READ_BUFFER_SIZE
  MaxMmap,        \* MAX_MMAP_SIZE
  MaxChunk,       \* the most that one read callback delivers
  RemapMayFail,   \* whether a later mmap() may fail
  AnyOrder        \* FALSE: a file object is queued last, as http.pike,
                  \*   cgi.pike and socket.pike do; TRUE: in any order

Kinds == {"str", "obj", "block", "mmap"}

\* A limit of -1 is `till end'; strings come through f_write, which ignores
\* an empty one, and an empty file cannot be mapped.
ASSUME OffersAssumption ==
  /\ Offers \subseteq [kind : Kinds, size : Nat, limit : Nat \cup {-1}]
  /\ \A o \in Offers : o.kind \in {"str", "mmap"} => o.size > 0
ASSUME BoundsAssumption ==
  /\ MaxInputs \in Nat
  /\ {ReadBuffer, MaxMmap, MaxChunk} \subseteq Nat \ {0}
  /\ {RemapMayFail, AnyOrder} \subseteq BOOLEAN

VARIABLES
  given,     \* what the caller queued, in order (history)
  inputs,    \* the linked list, head first
  outp,      \* "none", or the mode of the output: "IDLE" or "ACTIVE"
  armed,     \* the output has a write callback and the backend will call it
  buf,       \* the buffered bytes, from buf_pos on
  buf_pos,   \* bytes at the front of the buffer that are already written
  sent,      \* the bytes written to the output; `written' is its length
  pc,        \* where _output_write_cb is: "event" when no callback runs
  cb,        \* a done callback is set
  called,    \* how often the done callback has been called
  finished,  \* the flag of that name
  failed     \* a write failed for good, or the owner dropped the object (history)

vars == <<given, inputs, outp, armed, buf, buf_pos, sent, pc, cb, called,
          finished, failed>>
bufVars == <<buf, buf_pos>>
endVars == <<cb, called, finished, failed>>

MinOf(a, b) == IF a < b THEN a ELSE b

\* n bytes of the source of input id, starting after offset k.
Bytes(id, k, n) == [j \in 1 .. n |-> <<id, k + j>>]

Source(inp) == given[inp.id]
Head1 == inputs[1]
HeadIs(kind) == inputs # <<>> /\ Head1.kind = kind
SetHead(inp) == <<inp>> \o Tail(inputs)

\* free_input(): unlink the head; a non-blocking object that becomes the
\* head gets its read and close callbacks.
FreeHead ==
  LET rest == Tail(inputs)
  IN  IF rest # <<>> /\ rest[1].kind = "obj"
      THEN [rest EXCEPT ![1].mode = "READING"]
      ELSE rest

Init ==
  /\ given = <<>> /\ inputs = <<>>
  /\ outp = "none" /\ armed = FALSE
  /\ buf = <<>> /\ buf_pos = 0 /\ sent = <<>>
  /\ pc = "event"
  /\ cb = FALSE /\ called = 0 /\ finished = FALSE /\ failed = FALSE

-----------------------------------------------------------------------------
(* The caller: write(), input(), set_done_callback(), output()             *)

Setup == pc = "event" /\ outp = "none" /\ ~ finished

\* new_input(..., first = 0).  A mapped file is sent to the size that fstat()
\* gives, and its first MAX_MMAP_SIZE bytes are mapped now.
NewInput(o) ==
  [id   |-> Len(given) + 1,
   kind |-> o.kind,
   base |-> 0,
   len  |-> IF o.kind \in {"str", "mmap"} THEN o.size ELSE o.limit,
   pos  |-> 0,
   off  |-> 0,
   mend |-> IF o.kind = "mmap" THEN MinOf(o.size, MaxMmap) ELSE 0,
   mode |-> "SLEEPING"]

AddInput(o) ==
  /\ Setup /\ Len(given) < MaxInputs
  /\ AnyOrder \/ \A i \in DOMAIN given : given[i].kind = "str"
  /\ given' = Append(given, o)
  /\ inputs' = Append(inputs, NewInput(o))
  /\ UNCHANGED <<outp, armed, bufVars, sent, pc, endVars>>

SetDoneCallback ==
  /\ Setup /\ cb' = TRUE
  /\ UNCHANGED <<given, inputs, outp, armed, bufVars, sent, pc, called,
                 finished, failed>>

Output ==
  /\ Setup
  /\ outp' = "ACTIVE" /\ armed' = TRUE
  /\ UNCHANGED <<given, inputs, bufVars, sent, pc, endVars>>

-----------------------------------------------------------------------------
(* finished() and do_write()                                               *)

\* Back to the backend with the write callback set again.
Rearm == armed' = TRUE /\ pc' = "event"

\* Mutant of Finish: the output keeps its callback.
FinishKeepingOutput ==
  /\ inputs' = <<>> /\ Rearm /\ UNCHANGED outp
  /\ finished' = TRUE
  /\ called' = called + (IF cb THEN 1 ELSE 0)

\* finished(): every input and the output are freed, and with them their
\* callbacks; then the done callback is called.
Finish ==
  /\ inputs' = <<>> /\ outp' = "none" /\ armed' = FALSE
  /\ finished' = TRUE
  /\ called' = called + (IF cb THEN 1 ELSE 0)
  /\ pc' = "event"

\* do_write() wrote the first n bytes of data; EWOULDBLOCK is n = 0 and EINTR
\* is retried inside.
Wrote(data, n) == n \in 0 .. Len(data) /\ sent' = sent \o SubSeq(data, 1, n)

\* _output_write_cb has no buffered data (left) and looks at the head.
AtHead == pc = "head" \/ (pc = "wcb" /\ buf = <<>>)

\* A blocking head with a descriptor was a mapped file (RemapFails).
HasFd == Source(Head1).kind = "mmap"

\* read_data() from the head would return no bytes.
BlockingAtEof ==
  /\ HeadIs("block") /\ ~ HasFd
  /\ Head1.len = -1 \/ Head1.pos < Head1.len
  /\ Head1.pos = Source(Head1).size

\* do_write() fails for any other reason and calls finished().
WriteFails ==
  /\ \/ pc = "wcb" /\ buf # <<>>
     \/ pc = "read"
     \/ AtHead /\ (HeadIs("str") \/ HeadIs("mmap") \/ BlockingAtEof)
  /\ failed' = TRUE
  /\ Finish
  /\ UNCHANGED <<given, bufVars, sent, cb>>

-----------------------------------------------------------------------------
(* _output_write_cb                                                        *)

OutputReady ==
  /\ pc = "event" /\ outp # "none" /\ armed
  /\ armed' = FALSE /\ pc' = "wcb"
  /\ UNCHANGED <<given, inputs, outp, bufVars, sent, endVars>>

\* Buffered data goes first; only when all of it is gone does the callback
\* fall through to the head of the list.
WriteBuffer(n) ==
  /\ pc = "wcb" /\ buf # <<>> /\ Wrote(buf, n)
  /\ buf' = SubSeq(buf, n + 1, Len(buf))
  /\ IF n = Len(buf)
     THEN buf_pos' = 0 /\ pc' = "head" /\ UNCHANGED armed
     ELSE buf_pos' = buf_pos + n /\ Rearm
  /\ UNCHANGED <<given, inputs, outp, endVars>>

NothingLeft ==
  /\ AtHead /\ inputs = <<>>
  /\ Finish
  /\ UNCHANGED <<given, bufVars, sent, cb, failed>>

\* Mutant of WaitForInput: a sleeping input does not get its callbacks back.
WaitForSleeping ==
  /\ AtHead /\ HeadIs("obj")
  /\ outp' = "IDLE" /\ pc' = "event"
  /\ UNCHANGED <<given, inputs, armed, bufVars, sent, endVars>>

\* A non-blocking head: the output idles until the input has data.
WaitForInput ==
  /\ AtHead /\ HeadIs("obj")
  /\ outp' = "IDLE" /\ pc' = "event"
  /\ inputs' = SetHead([Head1 EXCEPT !.mode = "READING"])
  /\ UNCHANGED <<given, armed, bufVars, sent, endVars>>

\* After a write of n bytes from the head: unlink it when it is done, set the
\* write callback again, and finish when it was the last.
Advance(inp, n) ==
  LET done == inp.pos + n = inp.len
      next == IF done THEN FreeHead
              ELSE SetHead([inp EXCEPT !.pos = inp.pos + n])
  IN  IF next = <<>>
      THEN Finish
      ELSE inputs' = next /\ Rearm /\ UNCHANGED <<outp, called, finished>>

\* Mutant of WriteString: the write callback is not set again.
WriteStringOnce(n) ==
  /\ AtHead /\ HeadIs("str")
  /\ Wrote(Bytes(Head1.id, Head1.base + Head1.pos, Head1.len - Head1.pos), n)
  /\ pc' = "event"
  /\ inputs' = IF Head1.pos + n = Head1.len THEN FreeHead
               ELSE SetHead([Head1 EXCEPT !.pos = Head1.pos + n])
  /\ UNCHANGED <<given, outp, armed, bufVars, endVars>>

WriteString(n) ==
  /\ AtHead /\ HeadIs("str")
  /\ Wrote(Bytes(Head1.id, Head1.base + Head1.pos, Head1.len - Head1.pos), n)
  /\ Advance(Head1, n)
  /\ UNCHANGED <<given, bufVars, cb, failed>>

\* The mapped part of the head, mapping the next part first when it is used up.
WriteMmap(n) ==
  /\ AtHead /\ HeadIs("mmap")
  /\ LET mend == IF Head1.mend = Head1.pos
                 THEN Head1.pos + MinOf(Head1.len - Head1.pos, MaxMmap)
                 ELSE Head1.mend
     IN  /\ Wrote(Bytes(Head1.id, Head1.pos, mend - Head1.pos), n)
         /\ Advance([Head1 EXCEPT !.mend = mend], n)
  /\ UNCHANGED <<given, bufVars, cb, failed>>

\* Mapping the next part fails.  Line 718 compares two names of which neither
\* is a macro, so the preprocessor always takes the first branch: the head
\* becomes a blocking object, read from where its descriptor is, and the
\* callback goes on with that; the mode of the output stays IDLE.
RemapFails ==
  /\ RemapMayFail /\ AtHead /\ HeadIs("mmap") /\ Head1.mend = Head1.pos
  /\ inputs' = SetHead([Head1 EXCEPT !.kind = "block"])
  /\ outp' = "IDLE" /\ pc' = "head"
  /\ UNCHANGED <<given, armed, bufVars, sent, endVars>>

\* read_data() from a descriptor: the bytes go into the buffer, the head is
\* freed when its length has been read, and the callback writes the buffer.
ReadFd ==
  /\ AtHead /\ HeadIs("block") /\ HasFd
  /\ LET n == MinOf(ReadBuffer, Head1.len - Head1.pos)
     IN  /\ buf' = Bytes(Head1.id, Head1.off, n)
         /\ inputs' =
              IF Head1.pos + n = Head1.len THEN FreeHead
              ELSE SetHead([Head1 EXCEPT !.pos = Head1.pos + n,
                                         !.off = Head1.off + n])
  /\ buf_pos' = 0 /\ pc' = "read"
  /\ UNCHANGED <<given, outp, armed, sent, endVars>>

\* The read fails: the head is freed and the callback goes on with the next.
ReadFdFails ==
  /\ AtHead /\ HeadIs("block") /\ HasFd
  /\ inputs' = FreeHead
  /\ buf_pos' = 0 /\ pc' = "wcb"
  /\ UNCHANGED <<given, outp, armed, buf, sent, endVars>>

\* The write after ReadFd: buf_pos is not reset when all of it is gone.
WriteRead(n) ==
  /\ pc = "read" /\ Wrote(buf, n)
  /\ buf' = SubSeq(buf, n + 1, Len(buf)) /\ buf_pos' = buf_pos + n
  /\ IF n = Len(buf) /\ inputs = <<>>
     THEN Finish
     ELSE Rearm /\ UNCHANGED <<inputs, outp, called, finished>>
  /\ UNCHANGED <<given, cb, failed>>

\* read_data() from an object without a descriptor that still has data: what
\* it returns is put in front of the list as a string, and the callback
\* starts over.
ReadBlocking(n) ==
  /\ AtHead /\ HeadIs("block") /\ ~ HasFd
  /\ Head1.len = -1 \/ Head1.pos < Head1.len
  /\ n \in 1 .. MinOf(ReadBuffer, Source(Head1).size - Head1.pos)
  /\ inputs' = <<[NewInput([kind |-> "str", size |-> n, limit |-> 0])
                    EXCEPT !.id = Head1.id, !.base = Head1.pos]>>
                 \o SetHead([Head1 EXCEPT !.pos = Head1.pos + n])
  /\ buf_pos' = 0 /\ pc' = "wcb"
  /\ UNCHANGED <<given, outp, armed, buf, sent, endVars>>

\* The wanted length has been read: read_data() frees the head and goes on
\* with the next, which is what the callback does when it starts over.
BlockingDone ==
  /\ AtHead /\ HeadIs("block") /\ ~ HasFd
  /\ Head1.len # -1 /\ Head1.pos >= Head1.len
  /\ inputs' = FreeHead
  /\ buf_pos' = 0 /\ pc' = "wcb"
  /\ UNCHANGED <<given, outp, armed, buf, sent, endVars>>

\* End of file: the head is freed, nothing is written, and the callback
\* returns or finishes.
BlockingEof ==
  /\ AtHead /\ BlockingAtEof
  /\ IF FreeHead = <<>>
     THEN Finish
     ELSE inputs' = FreeHead /\ Rearm /\ UNCHANGED <<outp, called, finished>>
  /\ buf_pos' = 0
  /\ UNCHANGED <<given, buf, sent, cb, failed>>

-----------------------------------------------------------------------------
(* _input_read_cb and _input_close_cb                                      *)

Reading == pc = "event" /\ HeadIs("obj") /\ Head1.mode = "READING"

\* The head delivers n bytes.  What exceeds the wanted length is dropped and
\* ends the input; a full buffer puts the input to sleep (an input that has
\* just been freed has no callbacks left to remove); an idle output is woken
\* by calling its callback directly.  The code trims and sleeps.
InputReadInto(n, trim, sleep) ==
  /\ Reading
  /\ n \in 1 .. MinOf(MaxChunk, Source(Head1).size - Head1.off)
  /\ LET pos  == Head1.pos + n
         last == Head1.len # -1 /\ pos >= Head1.len
         used == IF last /\ trim THEN n - (pos - Head1.len) ELSE n
         full == sleep /\ buf_pos + Len(buf) + used > ReadBuffer
     IN  /\ buf' = buf \o Bytes(Head1.id, Head1.off, used)
         /\ inputs' =
              IF last THEN FreeHead
              ELSE SetHead([Head1 EXCEPT
                              !.pos = pos, !.off = Head1.off + n,
                              !.mode = IF full THEN "SLEEPING" ELSE "READING"])
  /\ IF outp = "IDLE"
     THEN outp' = "ACTIVE" /\ pc' = "wcb"
     ELSE UNCHANGED <<outp, pc>>
  /\ UNCHANGED <<given, armed, buf_pos, sent, endVars>>

\* Mutants of InputRead: the buffer takes all that was read; a full buffer
\* does not put the input to sleep.
InputReadUntrimmed(n) == InputReadInto(n, FALSE, TRUE)
InputReadGreedy(n) == InputReadInto(n, TRUE, FALSE)

InputRead(n) == InputReadInto(n, TRUE, TRUE)

\* Mutant of InputClose: what is still buffered is forgotten.
InputCloseHasty ==
  /\ Reading
  /\ Head1.off = Source(Head1).size
  /\ IF FreeHead = <<>>
     THEN Finish
     ELSE inputs' = FreeHead /\ UNCHANGED <<outp, armed, called, finished, pc>>
  /\ UNCHANGED <<given, bufVars, sent, cb, failed>>

InputClose ==
  /\ Reading
  /\ Head1.off = Source(Head1).size
  /\ IF buf = <<>> /\ FreeHead = <<>>
     THEN Finish
     ELSE inputs' = FreeHead /\ UNCHANGED <<outp, armed, called, finished, pc>>
  /\ UNCHANGED <<given, bufVars, sent, cb, failed>>

-----------------------------------------------------------------------------
\* The owner drops the object (free_nb_struct): no callback is called.
Destroy ==
  /\ pc = "event" /\ outp # "none"
  /\ inputs' = <<>> /\ outp' = "none" /\ armed' = FALSE
  /\ buf' = <<>> /\ buf_pos' = 0
  /\ cb' = FALSE /\ finished' = TRUE /\ failed' = TRUE
  /\ UNCHANGED <<given, sent, pc, called>>

-----------------------------------------------------------------------------
\* What is left of the head when the callback looks at it.
Left == IF inputs = <<>> THEN 0
        ELSE Source(Head1).size

WriteCallback ==
  \/ \E n \in 0 .. Len(buf) : WriteBuffer(n)
  \/ NothingLeft
  \/ WaitForInput
  \/ \E n \in 0 .. Left : WriteString(n)
  \/ \E n \in 0 .. Left : WriteMmap(n)
  \/ RemapFails
  \/ ReadFd
  \/ ReadFdFails
  \/ \E n \in 0 .. Len(buf) : WriteRead(n)
  \/ \E n \in 1 .. Left : ReadBlocking(n)
  \/ BlockingDone
  \/ BlockingEof

InputCallback == (\E n \in 1 .. Left : InputRead(n)) \/ InputClose

Next ==
  \/ \E o \in Offers : AddInput(o)
  \/ SetDoneCallback
  \/ Output
  \/ OutputReady
  \/ WriteCallback
  \/ WriteFails
  \/ InputCallback
  \/ Destroy

Spec == Init /\ [][Next]_vars

\* The socket accepts bytes again and again, and an input delivers or ends.
Progress ==
  \/ \E n \in 1 .. Len(buf) : WriteBuffer(n) \/ WriteRead(n)
  \/ \E n \in 1 .. Left : WriteString(n) \/ WriteMmap(n)

FairSpec ==
  /\ Spec
  /\ WF_vars(OutputReady)
  /\ WF_vars(WriteCallback)
  /\ SF_vars(Progress)
  /\ WF_vars(InputCallback)

-----------------------------------------------------------------------------
(* Properties                                                              *)

Byte == Nat \X Nat
InputType ==
  [id : Nat, kind : Kinds, base : Nat, len : Nat \cup {-1}, pos : Nat, off : Nat,
   mend : Nat, mode : {"SLEEPING", "READING"}]

\* Every variable has its type, and an input comes from what was given.
TypeOK ==
  /\ given \in Seq(Offers) /\ inputs \in Seq(InputType)
  /\ \A i \in DOMAIN inputs : inputs[i].id \in DOMAIN given
  /\ outp \in {"none", "IDLE", "ACTIVE"} /\ armed \in BOOLEAN
  /\ buf \in Seq(Byte) /\ sent \in Seq(Byte) /\ buf_pos \in Nat /\ called \in Nat
  /\ pc \in {"event", "wcb", "head", "read"}
  /\ {cb, finished, failed} \subseteq BOOLEAN

\* What the caller asked to be sent of an input: all of it, or at most limit.
Wanted(o) ==
  IF o.kind = "str" \/ o.limit = -1 THEN o.size ELSE MinOf(o.limit, o.size)

Expected == FlattenSeq([i \in DOMAIN given |-> Bytes(i, 0, Wanted(given[i]))])

\* What is still to come from an input of the list.
ToCome(inp) ==
  LET end == IF inp.kind \in {"str", "mmap"} THEN inp.len
             ELSE Wanted(Source(inp))
  IN  Bytes(inp.id, inp.base + inp.pos, end - inp.pos)

\* No byte is lost, duplicated or out of order anywhere between the inputs
\* and the socket: what is sent, what is buffered and what the list still
\* holds are together exactly what the caller queued.
Remaining == FlattenSeq([i \in DOMAIN inputs |-> ToCome(inputs[i])])
Conserved == ~ finished => sent \o buf \o Remaining = Expected

\* The done callback is called once, when the object finishes, and a
\* finished object holds no input and no output that could call it again.
DoneOnce ==
  /\ called <= 1
  /\ called = 1 => finished
  /\ finished => inputs = <<>> /\ outp = "none" /\ ~ armed
  /\ finished /\ cb => called = 1

\* A non-blocking input sleeps once the buffer is over READ_BUFFER_SIZE, so it
\* overshoots by at most one read; but an input that ends in a full buffer
\* wakes its successor, which then overshoots by one read of its own.
Pulled(k) == {i \in 1 .. k : given[i].kind = "obj"}
Overshoot(k) == ReadBuffer + MaxChunk * Cardinality(Pulled(k))
BufferBounded == buf_pos + Len(buf) <= Overshoot(Len(given))

\* The comment in _output_write_cb: if no data is available just return,
\* write_cb will be called once there is.  An idle output waits for an input
\* that will call back, never with bytes in hand.
NoSleepOnData ==
  pc = "event" /\ outp # "none" /\ ~ armed =>
    buf = <<>> /\ HeadIs("obj") /\ Head1.mode = "READING"

\* caudium.h: pos is the current position of an input, here of one that is
\* read from its descriptor after a mapping failed.
PosIsPosition ==
  \A i \in DOMAIN inputs :
    inputs[i].kind = "block" /\ Source(inputs[i]).kind = "mmap" =>
      inputs[i].off = inputs[i].pos

\* Once the output is handed over, the object finishes.
Finishes == outp # "none" ~> finished

Promise == INSTANCE Delivery WITH
  promised  <- Expected,
  delivered <- sent,
  state     <- IF finished THEN (IF failed THEN "aborted" ELSE "complete")
               ELSE IF outp = "none" THEN "open" ELSE "sending"

\* The pump is a delivery: the caller's bytes in order, complete or aborted.
Delivers == Promise!Spec

-----------------------------------------------------------------------------
(* The inductive invariants                                                *)

\* The pump is finished, set up, idle, armed, or in its write callback.
Control ==
  /\ ~ finished => called = 0 /\ ~ failed
  /\ finished => /\ inputs = <<>> /\ outp = "none" /\ called <= 1
                 /\ cb => called = 1
  /\ outp = "none" => pc = "event" /\ ~ armed
  /\ pc = "event" /\ outp = "ACTIVE" => armed
  /\ pc = "head" => buf = <<>>
  /\ pc = "read" => buf_pos + Len(buf) <= ReadBuffer
  /\ buf = <<>> => buf_pos <= ReadBuffer

\* How far each kind of input has been read.
InputOK(inp) ==
  /\ inp.kind = "str" => inp.pos <= inp.len
  /\ inp.kind = "mmap" =>
       /\ Source(inp).kind = "mmap" /\ inp.base = 0 /\ inp.off = 0
       /\ inp.pos <= inp.mend /\ inp.mend <= inp.len /\ inp.len = Source(inp).size
  /\ inp.kind = "block" =>
       /\ Source(inp).kind \in {"block", "mmap"} /\ inp.base = 0
       /\ inp.pos <= Source(inp).size
       /\ inp.len = IF Source(inp).kind = "mmap" THEN Source(inp).size
                    ELSE Source(inp).limit
  /\ inp.kind = "obj" =>
       /\ Source(inp).kind = "obj" /\ inp.base = 0
       /\ inp.off <= Source(inp).size
       /\ inp.len = -1 \/ inp.pos <= inp.len

PumpInv == TypeOK /\ Control /\ \A i \in DOMAIN inputs : InputOK(inputs[i])

\* With the file object last: only it can make the output wait.
StringsFirst == \A i \in DOMAIN inputs : i < Len(inputs) => inputs[i].kind = "str"
LastWaits ==
  /\ StringsFirst
  /\ outp = "none" /\ ~ finished =>
       /\ Len(inputs) = Len(given)
       /\ \A i \in DOMAIN inputs :
            inputs[i].kind = given[i].kind /\ inputs[i].mode = "SLEEPING"
  /\ pc = "event" /\ outp # "none" /\ ~ armed =>
       buf = <<>> /\ Len(inputs) = 1 /\ Head1.kind = "obj" /\ Head1.mode = "READING"

\* The list keeps the order of the caller; what a blocking object returned
\* comes before the object.
Ascending ==
  \A i, j \in DOMAIN inputs : i < j =>
    \/ inputs[i].id < inputs[j].id
    \/ inputs[i].id = inputs[j].id /\ inputs[i].kind = "str"

\* Each input before the head may have overshot once, and the head if it sleeps.
Spent ==
  IF inputs = <<>> THEN Len(given)
  ELSE IF Head1.kind = "obj" /\ Head1.mode = "SLEEPING" THEN Head1.id
  ELSE Head1.id - 1
Filled == buf_pos + Len(buf) <= Overshoot(Spent)

\* Without a failed mapping an object is read from where its position says,
\* and nothing is read from a descriptor into the buffer.
ReadInPlace ==
  /\ pc # "read"
  /\ \A i \in DOMAIN inputs :
       /\ inputs[i].kind = "obj" =>
            /\ inputs[i].off = inputs[i].pos
            /\ inputs[i].len = Source(inputs[i]).limit
       /\ inputs[i].kind = "block" => Source(inputs[i]).kind = "block"

\* The lengths that the pump keeps: those of a non-blocking object, and for
\* the other kinds of file only one that is not below the size.
KeptLengths ==
  \A o \in Offers : o.kind \in {"block", "mmap"} => o.limit = -1 \/ o.limit >= o.size

=============================================================================
