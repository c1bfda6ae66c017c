---------------------------- MODULE ObjectProofs ----------------------------
(* Theorems about the objects of the C modules and about the SQL file      *)
(* system, for any types, keys and data of a digest, any patterns and      *)
(* documents, any threads and sizes of a scratchpad, and any readers and   *)
(* files of the cache: first each alone, at the end the system of them     *)
(* that the model checker runs.                                            *)
EXTENDS MCObjects, Lemmas

-----------------------------------------------------------------------------
(* The scratchpad *)

\* No thread has a pad at first.
LEMMA PadInitially == SpInit => PadInv
BY DEF SpInit, SpTypeOK, PadInv, NoPad

\* A new pad is as large as was asked for, at least.
LEMMA PadAllocate ==
    ASSUME PadInv, NEW t \in SpThreads, NEW n \in SpWanted, SpAllocate(t, n)
    PROVE  PadInv'
BY SpAssumption DEF SpTypeOK, PadInv, SpAllocate, SpMax, SpMin

\* scratchpad_get() of what the pad has, by its buf_size, has it.
LEMMA PadEnough ==
    ASSUME PadInv, NEW t \in SpThreads, NEW n \in SpWanted, Enough(t, n)
    PROVE  PadInv'
BY SpAssumption DEF SpTypeOK, PadInv, Enough

\* A pad that is grown has its new size, or the call has thrown.
LEMMA PadGrows ==
    ASSUME PadInv, NEW t \in SpThreads, NEW n \in SpWanted, SpGrow(t, n)
    PROVE  PadInv'
<1>1. PICK size \in Doubled(sp_pad[t].buf_size, n) :
         \/ sp_pad' = [sp_pad EXCEPT ![t].buf_size = size, ![t].bytes = size, ![t].given = n]
         \/ sp_pad' = [sp_pad EXCEPT ![t].buf_size = size, ![t].bytes = 0, ![t].thrown = TRUE]
  BY DEF SpGrow
<1>2. size \in Nat /\ n \in Nat /\ n <= size
  BY SpAssumption DEF Doubled
<1> QED BY <1>1, <1>2, SMTT(30) DEF SpTypeOK, PadInv

\* A pad that cannot grow keeps its buffer, and the call has thrown.
LEMMA PadTooLarge ==
    ASSUME PadInv, NEW t \in SpThreads, NEW n \in SpWanted, SpTooLarge(t, n)
    PROVE  PadInv'
<1>1. PICK d \in Doublings(sp_pad[t].buf_size) :
         sp_pad' = [sp_pad EXCEPT ![t].buf_size = d, ![t].thrown = TRUE]
  BY DEF SpTooLarge
<1>2. sp_pad[t].buf_size \in Nat
  BY DEF PadInv, SpTypeOK
<1>3. d \in 0 .. SpMax(sp_pad[t].buf_size, SpadMaxSize)
  BY Zenon DEF Doublings
<1>4. d \in Nat
  BY <1>2, <1>3, SpAssumption DEF SpMax
<1> QED BY <1>1, <1>4 DEF SpTypeOK, PadInv

(* scratchpad_get() returns a buffer as large as was asked for, in every   *)
(* thread in which no call has thrown.                                     *)
THEOREM PadIsValid == SpSpec => []PointerIsValid
<1>1. ASSUME PadInv, SpNext PROVE PadInv'
  <2> PICK t \in SpThreads :
         \/ \E n \in SpWanted : SpAllocate(t, n) \/ Enough(t, n) \/ SpGrow(t, n) \/ SpTooLarge(t, n)
         \/ SpDestroy(t)
    BY <1>1 DEF SpNext
  <2>1. CASE \E n \in SpWanted : SpAllocate(t, n) \/ Enough(t, n) \/ SpGrow(t, n) \/ SpTooLarge(t, n)
    BY <1>1, <2>1, PadAllocate, PadEnough, PadGrows, PadTooLarge
  <2>2. CASE SpDestroy(t)
    BY <1>1, <2>2 DEF SpDestroy, SpTypeOK, PadInv, NoPad
  <2> QED BY <2>1, <2>2
<1>2. ASSUME PadInv, UNCHANGED sp_pad PROVE PadInv'
  BY <1>2 DEF SpTypeOK, PadInv
<1>3. PadInv => PointerIsValid
  BY DEF PadInv, PointerIsValid
<1> QED BY PadInitially, <1>1, <1>2, <1>3, PTL DEF SpSpec

-----------------------------------------------------------------------------
(* PCRE.Regexp *)

(* An answer is always that of the pattern created last, and a create()    *)
(* that failed leaves none.                                                *)
THEOREM PatternIsNotStale == PcreSpec => []NoStalePattern
<1>1. PcreInit => NoStalePattern
  BY DEF PcreInit, NoStalePattern
<1>2. ASSUME NoStalePattern, [PcreNext]_pc_vars PROVE NoStalePattern'
  <2>1. ASSUME NEW p, NEW n, PcreCreate(p, n) \/ PcreCreateFails(p, n) \/ PcreStudyFails(p, n)
        PROVE  NoStalePattern'
    BY <2>1 DEF PcreCreate, PcreCreateFails, PcreStudyFails, FreeRegexp, NoStalePattern
  <2>2. ASSUME NEW r, PcreMatch(r) \/ PcreSplit(r) PROVE NoStalePattern'
    BY <1>2, <2>2 DEF PcreMatch, PcreSplit, Ready, NoStalePattern
  <2>3. ASSUME NEW r, PcreSplitFails(r) PROVE NoStalePattern'
    BY <1>2, <2>3 DEF PcreSplitFails, NoStalePattern
  <2>4. CASE PcreMatchFails
    BY <1>2, <2>4 DEF PcreMatchFails, NoStalePattern
  <2>5. CASE PcreSplitUndefined
    BY <1>2, <2>5 DEF PcreSplitUndefined, Ready, NoStalePattern
  <2>6. CASE UNCHANGED pc_vars
    BY <1>2, <2>6 DEF pc_vars, NoStalePattern
  <2> QED BY <1>2, <2>1, <2>2, <2>3, <2>4, <2>5, <2>6 DEF PcreNext
<1> QED BY <1>1, <1>2, PTL DEF PcreSpec

(* The blocks of the library that are neither the object's own nor tables  *)
(* are no more than the calls that threw.                                  *)
Blocks == /\ pc_live \in Int /\ pc_thrown \in Nat /\ pc_tables \in Nat
          /\ PcreLosses
\* PCRE: what is lost are the tables, one for each pattern of a locale other than
\* "C", and at most one block for each call that threw.
THEOREM PcreLeaks == PcreSpec => []PcreLosses
<1>0. \A p : Held(p) \in {0, 1}
  BY DEF Held
<1>1. PcreInit => Blocks
  BY DEF PcreInit, Blocks, PcreLosses, Held
<1>2. ASSUME Blocks, [PcreNext]_pc_vars PROVE Blocks'
  <2> USE <1>0
  <2>0. Held(NoPattern) = 0
    BY DEF Held
  <2>1. ASSUME NEW p, NEW n, PcreCreate(p, n) PROVE Blocks'
    <3>1. n \in {0, 1} /\ pc_tables' = pc_tables + n /\ pc_thrown' = pc_thrown
          /\ pc_live' = pc_live - Held(pc_regexp) + Held(p) + n /\ pc_regexp' = p
      BY <2>1 DEF PcreCreate, MakesTables
    <3> QED BY <1>2, <3>1 DEF Blocks, PcreLosses
  <2>2. ASSUME NEW p, NEW n, PcreCreateFails(p, n) \/ PcreStudyFails(p, n) PROVE Blocks'
    <3>1. PICK m : /\ m \in {n, n + 1} /\ pc_live' = pc_live - Held(pc_regexp) + m
                   /\ pc_regexp' = NoPattern
      BY <2>2 DEF PcreCreateFails, PcreStudyFails, FreeRegexp
    <3>2. n \in {0, 1} /\ pc_tables' = pc_tables + n /\ pc_thrown' = pc_thrown + 1
      BY <2>2 DEF PcreCreateFails, PcreStudyFails, MakesTables, Throw
    <3> QED BY <1>2, <2>0, <3>1, <3>2 DEF Blocks, PcreLosses
  <2>3. ASSUME NEW r, PcreMatch(r) \/ PcreSplit(r) PROVE Blocks'
    BY <1>2, <2>3 DEF PcreMatch, PcreSplit, SplitVector, Blocks, PcreLosses
  <2>4. ASSUME NEW r, PcreSplitFails(r) PROVE Blocks'
    <3>1. pc_live' \in {pc_live, pc_live + 1} /\ Throw /\ UNCHANGED <<pc_regexp, pc_tables>>
      BY <2>4 DEF PcreSplitFails
    <3> QED BY <1>2, <3>1 DEF Throw, Blocks, PcreLosses
  <2>5. CASE PcreSplitUndefined
    BY <1>2, <2>5 DEF PcreSplitUndefined, Blocks, PcreLosses
  <2>6. CASE PcreMatchFails
    BY <1>2, <2>6 DEF PcreMatchFails, Throw, Blocks, PcreLosses
  <2>7. CASE UNCHANGED pc_vars
    BY <1>2, <2>7 DEF pc_vars, Blocks, PcreLosses
  <2> QED BY <1>2, <2>1, <2>2, <2>3, <2>4, <2>5, <2>6, <2>7 DEF PcreNext
<1>3. Blocks => PcreLosses
  BY DEF Blocks
<1> QED BY <1>1, <1>2, <1>3, PTL DEF PcreSpec

-----------------------------------------------------------------------------
(* PiXSL.Parser *)

\* A run has two objects of the library, each run that threw left no more than
\* these, and each that returned its result; the stack has one value for each
\* close() that succeeded.
XsInv ==
    /\ xs_running \in BOOLEAN /\ xs_bad \in BOOLEAN
    /\ xs_live \in Int /\ xs_thrown \in Nat /\ xs_results \in Nat /\ xs_stack \in Int
    /\ ~ xs_running => xs_live - xs_results \in 0 .. 2 * xs_thrown
    /\ xs_running => xs_live - xs_results \in 2 .. 2 * xs_thrown + 2
    /\ StackUnderCallbacks

\* The calls of the parser and of the library keep the account.
LEMMA XsStep == ASSUME XsInv, [XsNext]_xs_vars PROVE XsInv'
<1>1. ASSUME NEW d, SetXml(d) \/ SetXsl(d) PROVE XsInv'
  BY <1>1 DEF SetXml, SetXsl, XsFrame, xs_in, XsInv, StackUnderCallbacks
<1>2. ASSUME NEW names, SetSchemeCallbacks(names) PROVE XsInv'
  BY <1>2 DEF SetSchemeCallbacks, XsFrame, xs_in, XsInv, StackUnderCallbacks
<1>3. CASE RunFails
  <2>1. /\ xs_live' \in {xs_live, xs_live + 1} /\ xs_thrown' = xs_thrown + 1
        /\ ~ xs_running /\ UNCHANGED <<xs_running, xs_results, xs_bad, xs_stack, xs_closed>>
    BY <1>3 DEF RunFails, XsThrows, Between, xs_in
  <2>2. /\ xs_live \in Int /\ xs_thrown \in Nat /\ xs_results \in Nat
        /\ xs_live - xs_results \in 0 .. 2 * xs_thrown
    BY <2>1, Zenon DEF XsInv
  <2>3. PICK l, t, n : l = xs_live' /\ t = xs_thrown' /\ n = xs_results'
    OBVIOUS
  <2>4. l \in {xs_live, xs_live + 1} /\ t = xs_thrown + 1 /\ n = xs_results
    BY <2>1, <2>3, Zenon
  <2>5. l \in Int /\ t \in Nat /\ n \in Nat /\ l - n \in 0 .. 2 * t
    BY <2>2, <2>4
  <2>6. xs_running' \in BOOLEAN /\ ~ xs_running' /\ xs_bad' \in BOOLEAN /\ xs_stack' \in Int
    BY <2>1, Zenon DEF XsInv
  <2> QED BY <2>1, <2>3, <2>5, <2>6, Zenon DEF XsInv, StackUnderCallbacks
<1>4. CASE RunStarts
  <2>1. /\ ~ xs_running /\ xs_running' = TRUE /\ xs_live' = xs_live + 2
        /\ xs_stack' = 0 /\ xs_bad' = FALSE /\ xs_closed' = 0
        /\ UNCHANGED <<xs_thrown, xs_results>>
    BY <1>4 DEF RunStarts, Between
  <2>2. xs_running' \in BOOLEAN /\ xs_running' /\ xs_bad' \in BOOLEAN /\ xs_stack' = xs_closed'
    BY <2>1, Zenon
  <2>3. /\ xs_live' \in Int /\ xs_thrown' \in Nat /\ xs_results' \in Nat /\ xs_stack' \in Int
        /\ xs_live' - xs_results' \in 2 .. 2 * xs_thrown' + 2
    BY <2>1 DEF XsInv
  <2> QED BY <2>2, <2>3, Zenon DEF XsInv, StackUnderCallbacks
<1>5. CASE MhError
  BY <1>5 DEF MhError, xs_in, XsInv, StackUnderCallbacks
<1>6. CASE RunReturns \/ RunWithoutResult
  <2>1. /\ xs_running /\ xs_running' = FALSE /\ UNCHANGED <<xs_bad, xs_stack, xs_closed>>
        /\ \/ xs_live' = xs_live - 2 + 1 /\ xs_results' = xs_results + 1 /\ xs_thrown' = xs_thrown
           \/ xs_live' = xs_live - 2 /\ xs_results' = xs_results /\ xs_thrown' = xs_thrown + 1
    BY <1>6 DEF RunReturns, RunWithoutResult, XsThrows, Destroyed, xs_in
  <2>2. xs_running' \in BOOLEAN /\ ~ xs_running'
    BY <2>1, Zenon
  <2>3. PICK l, t, n : l = xs_live' /\ t = xs_thrown' /\ n = xs_results'
    OBVIOUS
  <2>4. /\ xs_live \in Int /\ xs_thrown \in Nat /\ xs_results \in Nat
        /\ xs_live - xs_results \in 2 .. 2 * xs_thrown + 2
    BY <2>1 DEF XsInv
  <2>5. l \in Int /\ t \in Nat /\ n \in Nat /\ l - n \in 0 .. 2 * t
    BY <2>1, <2>3, <2>4
  <2>6. xs_bad' \in BOOLEAN /\ xs_stack' \in Int
    BY <2>1, Zenon DEF XsInv
  <2> QED BY <2>2, <2>3, <2>5, <2>6, Zenon DEF XsInv, StackUnderCallbacks
<1>7. CASE CallbackThrows
  <2>1. /\ xs_running /\ xs_running' = FALSE /\ xs_thrown' = xs_thrown + 1
        /\ xs_stack' = 0 /\ UNCHANGED <<xs_live, xs_results, xs_bad, xs_closed>>
    BY <1>7 DEF CallbackThrows, XsThrows
  <2>2. xs_running' \in BOOLEAN /\ ~ xs_running'
    BY <2>1, Zenon
  <2>3. /\ xs_live' \in Int /\ xs_thrown' \in Nat /\ xs_results' \in Nat /\ xs_stack' \in Int
        /\ xs_bad' \in BOOLEAN /\ xs_live' - xs_results' \in 0 .. 2 * xs_thrown'
    BY <2>1 DEF XsInv
  <2> QED BY <2>2, <2>3, Zenon DEF XsInv, StackUnderCallbacks
<1>8. ASSUME NEW wrong \in BOOLEAN, ShGetAll(wrong) PROVE XsInv'
  <2>1. /\ xs_stack' = (IF wrong THEN xs_stack - 1 ELSE xs_stack)
        /\ xs_bad' = (xs_bad \/ wrong)
        /\ UNCHANGED <<xs_running, xs_live, xs_thrown, xs_results, xs_closed>>
    BY <1>8 DEF ShGetAll, Call, CallFrame
  <2>2. CASE wrong
    BY <2>1, <2>2 DEF XsInv, StackUnderCallbacks
  <2>3. CASE ~ wrong
    BY <2>1, <2>3 DEF XsInv, StackUnderCallbacks
  <2> QED BY <2>2, <2>3
<1>9. CASE ShFreeMemory
  BY <1>9 DEF ShFreeMemory, Call, CallFrame, XsInv, StackUnderCallbacks
<1>10. ASSUME NEW name, ShOpenPutGet(name) PROVE XsInv'
  BY <1>10 DEF ShOpenPutGet, Call, CallFrame, XsInv, StackUnderCallbacks
<1>11. ASSUME NEW ok \in BOOLEAN, ShClose(ok) PROVE XsInv'
  <2>1. /\ xs_stack' = (IF ok THEN xs_stack + 1 ELSE xs_stack)
        /\ xs_closed' = (IF ok THEN xs_closed + 1 ELSE xs_closed)
        /\ UNCHANGED <<xs_running, xs_live, xs_thrown, xs_results, xs_bad>>
    BY <1>11 DEF ShClose, ShCloseLeaves, Call, CallFrame
  <2> QED BY <2>1 DEF XsInv, StackUnderCallbacks
<1>12. CASE UNCHANGED xs_vars
  BY <1>12 DEF xs_vars, xs_in, XsInv, StackUnderCallbacks
<1> QED BY <1>1, <1>2, <1>3, <1>4, <1>5, <1>6, <1>7, <1>8, <1>9, <1>10, <1>11, <1>12
    DEF XsNext

\* Of the library's memory an object loses the text of each result, and what a
\* run that threw an error had made; and of the callbacks only close() leaves a
\* value on the Pike stack, one each time it succeeds.
XsKept == XsLosses /\ StackUnderCallbacks
\* PiXSL: for any documents, and any calls of the library.
THEOREM XsReleases == XsSpec => []XsKept
<1>1. ASSUME XsInit PROVE XsInv
  <2>1. /\ xs_live \in Int /\ xs_thrown \in Nat /\ xs_results \in Nat /\ xs_stack \in Int
        /\ xs_live - xs_results \in 0 .. 2 * xs_thrown
    BY <1>1 DEF XsInit
  <2>2. xs_running \in BOOLEAN /\ ~ xs_running /\ xs_bad \in BOOLEAN
    BY <1>1, Zenon DEF XsInit
  <2> QED BY <2>1, <2>2, Zenon DEF XsInv, StackUnderCallbacks
<1>2. XsInv => XsKept
  BY DEF XsInv, XsKept, XsLosses
<1> QED BY <1>1, <1>2, XsStep, PTL DEF XsSpec

-----------------------------------------------------------------------------
(* Mhash.Hash and Mhash.HMAC *)

\* What an object is made of; that it has only contexts of its own class, all
\* of them for the data fed; and never a digest and a context.
MhContext == [type : Types \cup {NoType}, key : Keys \cup {NoKey}, data : Seq(Data)]
MhObject == [hash : SUBSET MhContext, hmac : SUBSET MhContext, type : Types \cup {NoType},
             res : SUBSET MhContext, pw : Keys \cup {NoKey}]
Sound(o, fed, plain) ==
    /\ o \in MhObject /\ fed \in Seq(Data) /\ plain \in BOOLEAN
    /\ Hash => o.hmac = {}
    /\ Hmac => o.hash = {}
    /\ \A x \in o.hash \cup o.hmac \cup o.res :
          x.data = fed /\ x.type = o.type /\ (Hmac /\ x.key = NoKey => plain)
    /\ o.res = {} \/ o.hash \cup o.hmac = {}
MhInv == mh_class \in {"Hash", "HMAC"} /\ Sound(mh_obj, mh_fed, mh_plain)

\* An object that goes on soundly is sound.
LEMMA GoIs ==
  ASSUME MhInv, NEW o, NEW fed, NEW plain, Go(o, fed, plain), Sound(o, fed, plain)
  PROVE  MhInv'
<1>1. mh_obj' = o /\ mh_fed' = fed /\ mh_plain' = plain /\ mh_class' = mh_class
  BY DEF Go
<1>2. (Hash' <=> Hash) /\ (Hmac' <=> Hmac)
  BY <1>1 DEF Hash, Hmac
<1> QED BY <1>1, <1>2 DEF MhInv, Sound

\* A new context has no data.
LEMMA LibInitIs ==
  ASSUME NEW t \in Types \cup {NoType}, NEW key \in Keys \cup {NoKey}
  PROVE  /\ LibInit(t, key) \in SUBSET MhContext
         /\ \A x \in LibInit(t, key) : x.data = <<>> /\ x.type = t /\ x.key = key
<1>1. LibInit(t, key) = {} \/ LibInit(t, key) = {[type |-> t, key |-> key, data |-> <<>>]}
  BY DEF LibInit
<1>2. [type |-> t, key |-> key, data |-> <<>>] \in MhContext
  BY DEF MhContext
<1> QED BY <1>1, <1>2

\* A context that is fed has the data more.
FedFrom(c, d, e) ==
    /\ e \in SUBSET MhContext
    /\ \A y \in e : \E x \in c : y.data = Append(x.data, d) /\ y.type = x.type /\ y.key = x.key
\* What mhash() makes of the contexts, none or one, is fed from them.
LEMMA LibFeedIs ==
  ASSUME NEW c \in SUBSET MhContext, NEW d \in Data
  PROVE  FedFrom(c, d, LibFeed(c, d))
<1>1. ASSUME NEW y \in LibFeed(c, d)
      PROVE  y \in MhContext /\ \E x \in c :
               y.data = Append(x.data, d) /\ y.type = x.type /\ y.key = x.key
  <2>1. PICK x \in c : y = [x EXCEPT !.data = Append(x.data, d)]
    BY <1>1 DEF LibFeed
  <2>2. x \in MhContext
    OBVIOUS
  <2>3. x.data \in Seq(Data)
    BY <2>2 DEF MhContext
  <2>4. Append(x.data, d) \in Seq(Data)
    BY <2>3
  <2>5. y.data = Append(x.data, d) /\ y.type = x.type /\ y.key = x.key /\ y \in MhContext
    BY <2>1, <2>2, <2>4 DEF MhContext
  <2> QED BY <2>5
<1> QED BY <1>1 DEF FedFrom

\* An object from which all is freed, and that starts again.
LEMMA FreeHashIs ==
  ASSUME NEW o \in MhObject
  PROVE  /\ FreeHash(o) \in MhObject
         /\ FreeHash(o).hash = {} /\ FreeHash(o).hmac = {} /\ FreeHash(o).res = {}
         /\ FreeHash(o).type = o.type /\ FreeHash(o).pw = o.pw
BY DEF FreeHash, MhObject

\* An object that starts behind free_hash() has no data.
LEMMA StartHashIs ==
  ASSUME Hash, NEW o \in MhObject, o.hash = {}, o.hmac = {}, o.res = {}
  PROVE  /\ Sound(StartHash(o), <<>>, FALSE)
         /\ StartHash(o).type = o.type /\ StartHash(o).res = {}
<1>1. ~ Hmac
  BY DEF Hash, Hmac
<1>2. <<>> \in Seq(Data)
  OBVIOUS
<1>3. CASE o.type = NoType
  BY <1>1, <1>2, <1>3 DEF StartHash, Sound
<1>4. CASE o.type # NoType
  <2>1. PICK c : c = LibInit(o.type, NoKey)
    OBVIOUS
  <2>2. o.type \in Types \cup {NoType} /\ NoKey \in Keys \cup {NoKey}
    BY DEF MhObject
  <2>3. c \in SUBSET MhContext /\ \A x \in c : x.data = <<>> /\ x.type = o.type
    BY <2>1, <2>2, LibInitIs
  <2>4. StartHash(o) = [o EXCEPT !.hash = c]
    BY <1>4, <2>1 DEF StartHash
  <2>5. /\ StartHash(o) \in MhObject /\ StartHash(o).hash = c
        /\ StartHash(o).hmac = {} /\ StartHash(o).res = {} /\ StartHash(o).type = o.type
    BY <2>3, <2>4 DEF MhObject
  <2> QED BY <1>1, <1>2, <2>3, <2>5 DEF Sound
<1> QED BY <1>3, <1>4

\* So does the start of an HMAC, which has a key.
LEMMA StartHmacIs ==
  ASSUME Hmac, NEW o \in MhObject, o.hash = {}, o.hmac = {}, o.res = {}
  PROVE  /\ Sound(StartHmac(o), <<>>, FALSE)
         /\ StartHmac(o).type = o.type /\ StartHmac(o).res = {}
<1>1. ~ Hash
  BY DEF Hash, Hmac
<1>2. <<>> \in Seq(Data)
  OBVIOUS
<1>3. CASE InitHmac(o) # "OK"
  BY <1>1, <1>2, <1>3 DEF StartHmac, Sound
<1>4. CASE InitHmac(o) = "OK"
  <2>1. PICK c : c = LibInit(o.type, o.pw)
    OBVIOUS
  <2>2. o.type \in Types \cup {NoType} /\ o.pw \in Keys \cup {NoKey}
    BY DEF MhObject
  <2>3. c \in SUBSET MhContext /\ \A x \in c : x.data = <<>> /\ x.type = o.type /\ x.key = o.pw
    BY <2>1, <2>2, LibInitIs
  <2>4. o.pw # NoKey
    BY <1>4 DEF InitHmac
  <2>5. StartHmac(o) = [o EXCEPT !.hmac = c]
    BY <1>4, <2>1 DEF StartHmac
  <2>6. /\ StartHmac(o) \in MhObject /\ StartHmac(o).hmac = c
        /\ StartHmac(o).hash = {} /\ StartHmac(o).res = {} /\ StartHmac(o).type = o.type
    BY <2>3, <2>5 DEF MhObject
  <2> QED BY <1>1, <1>2, <2>3, <2>4, <2>6 DEF Sound
<1> QED BY <1>3, <1>4

\* An object with data more, which has no digest.
LEMMA FeedIs ==
  ASSUME NEW o, NEW fed, NEW plain, Sound(o, fed, plain), o.res = {}, NEW d \in Data,
         mh_class \in {"Hash", "HMAC"}
  PROVE  /\ Hash => Sound([o EXCEPT !.hash = LibFeed(@, d)], Append(fed, d), plain)
         /\ Hmac => Sound([o EXCEPT !.hmac = LibFeed(@, d)], Append(fed, d), plain)
<1>1. o \in MhObject /\ Append(fed, d) \in Seq(Data) /\ plain \in BOOLEAN
  BY DEF Sound
<1>2. ~ (Hash /\ Hmac)
  BY DEF Hash, Hmac
<1>3. PICK a, b : a = LibFeed(o.hash, d) /\ b = LibFeed(o.hmac, d)
  OBVIOUS
<1>4. o.hash \in SUBSET MhContext /\ o.hmac \in SUBSET MhContext
  BY <1>1 DEF MhObject
<1>5. FedFrom(o.hash, d, a)
  BY <1>3, <1>4, LibFeedIs
<1>6. FedFrom(o.hmac, d, b)
  BY <1>3, <1>4, LibFeedIs
<1>7. ASSUME Hash PROVE Sound([o EXCEPT !.hash = a], Append(fed, d), plain)
  <2>1. PICK p : p = [o EXCEPT !.hash = a]
    OBVIOUS
  <2>2. /\ p \in MhObject /\ p.hash = a /\ p.hmac = o.hmac /\ p.res = o.res
        /\ p.type = o.type
    BY <1>1, <1>5, <2>1 DEF MhObject, FedFrom
  <2>3. o.hmac = {} /\ ~ Hmac
    BY <1>2, <1>7 DEF Sound
  <2>4. \A x \in p.hash \cup p.hmac \cup p.res :
           x.data = Append(fed, d) /\ x.type = p.type /\ (Hmac /\ x.key = NoKey => plain)
    BY <1>5, <2>2, <2>3 DEF Sound, FedFrom
  <2> QED BY <1>1, <2>1, <2>2, <2>3, <2>4 DEF Sound
<1>8. ASSUME Hmac PROVE Sound([o EXCEPT !.hmac = b], Append(fed, d), plain)
  <2>1. PICK p : p = [o EXCEPT !.hmac = b]
    OBVIOUS
  <2>2. /\ p \in MhObject /\ p.hmac = b /\ p.hash = o.hash /\ p.res = o.res
        /\ p.type = o.type
    BY <1>1, <1>6, <2>1 DEF MhObject, FedFrom
  <2>3. o.hash = {} /\ ~ Hash
    BY <1>2, <1>8 DEF Sound
  <2>4. \A x \in p.hash \cup p.hmac \cup p.res :
           x.data = Append(fed, d) /\ x.type = p.type /\ (Hmac /\ x.key = NoKey => plain)
    BY <1>6, <2>2, <2>3 DEF Sound, FedFrom
  <2> QED BY <1>1, <2>1, <2>2, <2>3, <2>4 DEF Sound
<1> QED BY <1>3, <1>7, <1>8

\* A plain hash may be started with any plain flag, an HMAC only so.
LEMMA PlainIs ==
  ASSUME Hash, NEW o, NEW fed, NEW plain, Sound(o, fed, plain), NEW other \in BOOLEAN
  PROVE  Sound(o, fed, other)
<1>1. ~ Hmac
  BY DEF Hash, Hmac
<1> QED BY <1>1 DEF Sound

\* The methods of Mhash.Hash.
LEMMA HashCreateKeeps == ASSUME MhInv, NEW t \in Types, HashCreate(t) PROVE MhInv'
<1>1. PICK o : o = [mh_obj EXCEPT !.type = t]
  OBVIOUS
<1>2. Hash /\ mh_obj.hash = {} /\ mh_obj.res = {} /\ Go(StartHash(o), <<>>, FALSE)
  BY <1>1 DEF HashCreate
<1>3. mh_obj \in MhObject /\ mh_obj.hmac = {}
  BY <1>2 DEF MhInv, Sound
<1>4. o \in MhObject /\ o.hash = {} /\ o.hmac = {} /\ o.res = {}
  BY <1>1, <1>2, <1>3 DEF MhObject
<1> QED BY <1>2, <1>4, StartHashIs, GoIs

\* feed() goes on with the data, or starts again behind a digest.
LEMMA HashFeedKeeps == ASSUME MhInv, NEW d \in Data \cup {NoData}, HashFeed(d) PROVE MhInv'
<1>1. PICK o, before :
        /\ o = IF mh_obj.hash = {} THEN StartHash(FreeHash(mh_obj)) ELSE mh_obj
        /\ before = IF mh_obj.hash = {} THEN <<>> ELSE mh_fed
  OBVIOUS
<1>2. /\ Hash
      /\ IF d = NoData THEN Go(o, before, FALSE)
         ELSE Go([o EXCEPT !.hash = LibFeed(@, d)], Append(before, d), FALSE)
  BY <1>1 DEF HashFeed, Fed
<1>3. mh_obj \in MhObject /\ Sound(mh_obj, mh_fed, mh_plain)
  BY DEF MhInv, Sound
<1>4. Sound(o, before, FALSE) /\ o.res = {}
  <2>1. CASE mh_obj.hash = {}
    BY <1>1, <1>2, <1>3, <2>1, FreeHashIs, StartHashIs
  <2>2. CASE mh_obj.hash # {}
    <3>1. o = mh_obj /\ before = mh_fed /\ mh_obj.res = {}
      BY <1>1, <1>3, <2>2 DEF Sound
    <3> QED BY <1>2, <1>3, <3>1, PlainIs
  <2> QED BY <2>1, <2>2
<1>5. CASE d = NoData
  BY <1>2, <1>4, <1>5, GoIs
<1>6. CASE d # NoData
  <2>1. d \in Data /\ mh_class \in {"Hash", "HMAC"}
    BY <1>6 DEF MhInv
  <2>2. PICK p, fed : p = [o EXCEPT !.hash = LibFeed(@, d)] /\ fed = Append(before, d)
    OBVIOUS
  <2>3. Sound(p, fed, FALSE)
    BY <1>2, <1>4, <2>1, <2>2, FeedIs
  <2>4. Go(p, fed, FALSE)
    BY <1>2, <1>6, <2>2
  <2> QED BY <2>3, <2>4, GoIs
<1> QED BY <1>5, <1>6

\* digest() makes of the context a digest of the same data.
LEMMA HashDigestKeeps == ASSUME MhInv, HashDigest PROVE MhInv'
<1>1. PICK o : o = [mh_obj EXCEPT !.res = mh_obj.hash, !.hash = {}]
  OBVIOUS
<1>2. Hash /\ mh_obj.res = {} /\ Go(o, mh_fed, FALSE)
  BY <1>1 DEF HashDigest
<1>3. mh_obj \in MhObject /\ mh_obj.hmac = {} /\ Sound(mh_obj, mh_fed, FALSE)
  BY <1>2, PlainIs DEF MhInv, Sound
<1>4. /\ o \in MhObject /\ o.hash = {} /\ o.hmac = {} /\ o.res = mh_obj.hash
      /\ o.type = mh_obj.type
  BY <1>1, <1>3 DEF MhObject
<1>5. Sound(o, mh_fed, FALSE)
  BY <1>3, <1>4 DEF Sound
<1> QED BY <1>2, <1>5, GoIs

\* reset() frees all and starts again.
LEMMA HashResetKeeps == ASSUME MhInv, HashReset PROVE MhInv'
<1>1. Hash /\ Go(StartHash(FreeHash(mh_obj)), <<>>, FALSE) /\ mh_obj \in MhObject
  BY DEF HashReset, MhInv, Sound
<1> QED BY <1>1, FreeHashIs, StartHashIs, GoIs

\* So does set_type(), with a type, or with none.
LEMMA HashSetTypeKeeps ==
  ASSUME MhInv, NEW t \in Types \cup {NoType}, HashSetType(t) PROVE MhInv'
<1>1. PICK o : o = [mh_obj EXCEPT !.type = t]
  OBVIOUS
<1>2. Hash /\ Go(StartHash(FreeHash(o)), <<>>, FALSE)
  BY <1>1 DEF HashSetType
<1>3. o \in MhObject
  BY <1>1 DEF MhInv, Sound, MhObject
<1> QED BY <1>2, <1>3, FreeHashIs, StartHashIs, GoIs

\* The methods of Mhash.HMAC.
LEMMA HmacCreateKeeps == ASSUME MhInv, NEW t \in Types, HmacCreate(t) PROVE MhInv'
<1>1. PICK c, o : c = LibInit(t, NoKey) /\ o = [mh_obj EXCEPT !.type = t, !.hmac = c]
  OBVIOUS
<1>2. Hmac /\ mh_obj.hmac = {} /\ mh_obj.res = {} /\ Go(o, <<>>, TRUE)
  BY <1>1 DEF HmacCreate
<1>3. c \in SUBSET MhContext /\ \A x \in c : x.data = <<>> /\ x.type = t
  BY <1>1, LibInitIs
<1>4. mh_obj \in MhObject /\ mh_obj.hash = {} /\ ~ Hash
  BY <1>2 DEF MhInv, Sound, Hash, Hmac
<1>5. o \in MhObject /\ o.hash = {} /\ o.hmac = c /\ o.res = {} /\ o.type = t
  BY <1>1, <1>2, <1>3, <1>4 DEF MhObject
<1>6. <<>> \in Seq(Data)
  OBVIOUS
<1>7. Sound(o, <<>>, TRUE)
  BY <1>3, <1>4, <1>5, <1>6 DEF Sound
<1> QED BY <1>2, <1>7, GoIs

\* set_key() starts an object that waited for its key, and else waits.
LEMMA HmacSetKeyKeeps == ASSUME MhInv, NEW k \in Keys, HmacSetKey(k) PROVE MhInv'
<1>1. PICK o : o = [mh_obj EXCEPT !.pw = k]
  OBVIOUS
<1>2. /\ Hmac
      /\ IF InitHmac(o) = "OK" THEN Go(StartHmac(o), <<>>, FALSE)
         ELSE Go(o, mh_fed, mh_plain)
  BY <1>1 DEF HmacSetKey
<1>3. mh_obj \in MhObject /\ Sound(mh_obj, mh_fed, mh_plain) /\ mh_obj.hash = {}
  BY <1>2 DEF MhInv, Sound
<1>4. /\ o \in MhObject /\ o.hash = mh_obj.hash /\ o.hmac = mh_obj.hmac
      /\ o.res = mh_obj.res /\ o.type = mh_obj.type
  BY <1>1, <1>3 DEF MhObject
<1>5. CASE InitHmac(o) = "OK"
  <2>1. o.hmac = {} /\ o.res = {} /\ o.hash = {}
    BY <1>3, <1>4, <1>5 DEF InitHmac
  <2> QED BY <1>2, <1>4, <1>5, <2>1, StartHmacIs, GoIs
<1>6. CASE InitHmac(o) # "OK"
  <2>1. Sound(o, mh_fed, mh_plain)
    BY <1>3, <1>4 DEF Sound
  <2> QED BY <1>2, <1>6, <2>1, GoIs
<1> QED BY <1>5, <1>6

\* feed() goes on, starts again, or starts behind the key.
LEMMA HmacFeedKeeps == ASSUME MhInv, NEW d \in Data \cup {NoData}, HmacFeed(d) PROVE MhInv'
<1>1. PICK code, o, before, plain :
        /\ code = InitHmac(mh_obj)
        /\ o = StartHmac(IF code = "DONE" THEN FreeHash(mh_obj) ELSE mh_obj)
        /\ before = (IF code = "LIVE" THEN mh_fed ELSE <<>>)
        /\ plain = (mh_plain /\ code = "LIVE")
  OBVIOUS
<1>2. /\ Hmac /\ code \in {"DONE", "OK", "LIVE"}
      /\ IF d = NoData THEN Go(o, before, plain)
         ELSE Go([o EXCEPT !.hmac = LibFeed(@, d)], Append(before, d), plain)
  BY <1>1, Zenon DEF HmacFeed, Fed
<1>3. mh_obj \in MhObject /\ Sound(mh_obj, mh_fed, mh_plain) /\ mh_obj.hash = {}
  BY <1>2 DEF MhInv, Sound
<1>4. Sound(o, before, plain) /\ o.res = {}
  <2>1. CASE code = "LIVE"
    <3>1. mh_obj.hmac # {}
      BY <1>1, <2>1 DEF InitHmac
    <3>2. o = mh_obj /\ before = mh_fed
      BY <1>1, <2>1 DEF StartHmac
    <3>3. plain = mh_plain
      <4>1. mh_plain \in BOOLEAN
        BY <1>3 DEF Sound
      <4> QED BY <1>1, <2>1, <4>1
    <3>4. mh_obj.res = {}
      BY <1>3, <3>1 DEF Sound
    <3> QED BY <1>3, <3>2, <3>3, <3>4
  <2>2. CASE code = "DONE"
    <3>1. o = StartHmac(FreeHash(mh_obj)) /\ before = <<>> /\ plain = FALSE
      BY <1>1, <2>2
    <3>2. /\ FreeHash(mh_obj) \in MhObject
          /\ FreeHash(mh_obj).hash = {} /\ FreeHash(mh_obj).hmac = {}
          /\ FreeHash(mh_obj).res = {}
      BY <1>3, FreeHashIs
    <3> QED BY <1>2, <3>1, <3>2, StartHmacIs
  <2>3. CASE code = "OK"
    <3>1. o = StartHmac(mh_obj) /\ before = <<>> /\ plain = FALSE
      BY <1>1, <2>3
    <3>2. mh_obj.hmac = {} /\ mh_obj.res = {}
      BY <1>1, <2>3 DEF InitHmac
    <3> QED BY <1>2, <1>3, <3>1, <3>2, StartHmacIs
  <2> QED BY <1>2, <2>1, <2>2, <2>3
<1>5. CASE d = NoData
  BY <1>2, <1>4, <1>5, GoIs
<1>6. CASE d # NoData
  <2>1. d \in Data /\ mh_class \in {"Hash", "HMAC"}
    BY <1>6 DEF MhInv
  <2>2. PICK p, fed : p = [o EXCEPT !.hmac = LibFeed(@, d)] /\ fed = Append(before, d)
    OBVIOUS
  <2>3. Sound(p, fed, plain)
    BY <1>2, <1>4, <2>1, <2>2, FeedIs
  <2>4. Go(p, fed, plain)
    BY <1>2, <1>6, <2>2
  <2> QED BY <2>3, <2>4, GoIs
<1> QED BY <1>5, <1>6

\* digest() makes of the context a digest of the same data.
LEMMA HmacDigestKeeps == ASSUME MhInv, HmacDigest PROVE MhInv'
<1>1. PICK o : o = [mh_obj EXCEPT !.res = mh_obj.hmac, !.hmac = {}]
  OBVIOUS
<1>2. Hmac /\ mh_obj.res = {} /\ Go(o, mh_fed, mh_plain)
  BY <1>1 DEF HmacDigest
<1>3. mh_obj \in MhObject /\ mh_obj.hash = {} /\ Sound(mh_obj, mh_fed, mh_plain)
  BY <1>2 DEF MhInv, Sound
<1>4. /\ o \in MhObject /\ o.hash = {} /\ o.hmac = {} /\ o.res = mh_obj.hmac
      /\ o.type = mh_obj.type
  BY <1>1, <1>3 DEF MhObject
<1>5. Sound(o, mh_fed, mh_plain)
  BY <1>3, <1>4 DEF Sound
<1> QED BY <1>2, <1>5, GoIs

\* reset() frees all and starts again, with a key.
LEMMA HmacResetKeeps == ASSUME MhInv, HmacReset PROVE MhInv'
<1>1. Hmac /\ Go(StartHmac(FreeHash(mh_obj)), <<>>, FALSE) /\ mh_obj \in MhObject
  BY DEF HmacReset, MhInv, Sound
<1> QED BY <1>1, FreeHashIs, StartHmacIs, GoIs

\* So does set_type(), of a type that an HMAC may have.
LEMMA HmacSetTypeKeeps ==
  ASSUME MhInv, NEW t \in Types \cup {NoType}, HmacSetType(t) PROVE MhInv'
<1>1. PICK o : o = [mh_obj EXCEPT !.type = t]
  OBVIOUS
<1>2. Hmac /\ Go(StartHmac(FreeHash(o)), <<>>, FALSE)
  BY <1>1 DEF HmacSetType
<1>3. o \in MhObject
  BY <1>1 DEF MhInv, Sound, MhObject
<1> QED BY <1>2, <1>3, FreeHashIs, StartHmacIs, GoIs

(* What digest() returns is the digest of exactly the data that were fed   *)
(* since the object was started last, with the type and the key that are   *)
(* set, for any types, keys and data.                                      *)
THEOREM DigestIsOfTheData == MhashSpec => []DigestOfTheData
<1>1. ASSUME MhashInit PROVE MhInv
  <2>1. InitHashStorage \in MhObject /\ <<>> \in Seq(Data)
    BY DEF InitHashStorage, MhObject
  <2>2. /\ mh_obj.hash = {} /\ mh_obj.hmac = {} /\ mh_obj.res = {} /\ mh_obj \in MhObject
        /\ mh_fed \in Seq(Data) /\ mh_plain = FALSE /\ mh_class \in {"Hash", "HMAC"}
    BY <1>1, <2>1 DEF MhashInit, InitHashStorage
  <2> QED BY <2>2 DEF MhInv, Sound
<1>2. ASSUME MhInv, [MhashNext]_mh_vars PROVE MhInv'
  <2>1. CASE UNCHANGED mh_vars
    BY <1>2, <2>1 DEF mh_vars, MhInv, Sound, Hash, Hmac
  <2>2. CASE MhashNext
    <3>1. ASSUME NEW t \in Types, HashCreate(t) \/ HmacCreate(t) PROVE MhInv'
      BY <1>2, <3>1, HashCreateKeeps, HmacCreateKeeps
    <3>2. ASSUME NEW t \in Types \cup {NoType}, HashSetType(t) \/ HmacSetType(t) PROVE MhInv'
      BY <1>2, <3>2, HashSetTypeKeeps, HmacSetTypeKeeps
    <3>3. ASSUME NEW d \in Data \cup {NoData}, HashFeed(d) \/ HmacFeed(d) PROVE MhInv'
      BY <1>2, <3>3, HashFeedKeeps, HmacFeedKeeps
    <3>4. ASSUME NEW k \in Keys, HmacSetKey(k) PROVE MhInv'
      BY <1>2, <3>4, HmacSetKeyKeeps
    <3>5. CASE HashDigest \/ HmacDigest \/ HashReset \/ HmacReset
      BY <1>2, <3>5, HashDigestKeeps, HmacDigestKeeps, HashResetKeeps, HmacResetKeeps
    <3> QED BY <2>2, <3>1, <3>2, <3>3, <3>4, <3>5 DEF MhashNext
  <2> QED BY <1>2, <2>1, <2>2
<1>3. MhInv => DigestOfTheData
  BY DEF MhInv, Sound, DigestOfTheData
<1> QED BY <1>1, <1>2, <1>3, PTL DEF MhashSpec

-----------------------------------------------------------------------------
(* Stdio_helper *)

\* Positions and limits are numbers, and what was given out has no gap.
PiecesInv == sh_upto \in Nat /\ sh_max \in Nat /\ sh_covered \in Nat /\ PiecesCover

\* read() of n bytes, or of all the rest, goes on where the last one ended.
LEMMA ReadCovers == ASSUME PiecesInv, NEW n \in 0 .. MaxRead, ShRead(n) PROVE PiecesInv'
<1>1. PICK u, m, c : u = sh_upto /\ m = sh_max /\ c = sh_covered
  OBVIOUS
<1>2. PICK u1, c1 : u1 = sh_upto' /\ c1 = sh_covered'
  OBVIOUS
<1>3. PICK k : k = IF FileSize > m THEN m + 1 ELSE FileSize
  OBVIOUS
<1>4. PICK h : h = IF n > 0 THEN Lesser(u + n + 1, k) ELSE Lesser(k, k)
  OBVIOUS
<1>5. u \in Nat /\ m \in Nat /\ c \in Nat /\ n \in Nat /\ k \in Nat
  BY <1>1, <1>3, SqlfsAssumption DEF PiecesInv
<1>6. Contents = k /\ Contents' = k /\ sh_max' = m
  BY <1>1, <1>3 DEF ShRead, Contents
<1>7. /\ u1 = (IF n > 0 THEN u + n ELSE k)
      /\ c1 = IF u1 < u THEN u1 ELSE IF u <= c /\ h > c THEN h ELSE c
  BY <1>1, <1>2, <1>4, <1>6 DEF ShRead, PieceOf
<1>8. Lesser(u, k) <= c /\ c <= u + 1
  BY <1>1, <1>6 DEF PiecesInv, PiecesCover
<1>9. u1 \in Nat /\ c1 \in Nat /\ Lesser(u1, k) <= c1 /\ c1 <= u1 + 1
  BY <1>4, <1>5, <1>7, <1>8 DEF Lesser
<1> QED BY <1>2, <1>5, <1>6, <1>9 DEF PiecesInv, PiecesCover

\* seek() starts a new account.
LEMMA SeekCovers == ASSUME PiecesInv, NEW n \in -1 .. FileSize, ShSeek(n) PROVE PiecesInv'
<1>1. PICK u : u = IF n > -1 THEN n ELSE FileSize - n
  OBVIOUS
<1>2. sh_upto' = u /\ sh_covered' = u /\ sh_max' = sh_max
  BY <1>1 DEF ShSeek
<1>3. u \in Nat
  BY <1>1, SqlfsAssumption
<1>4. PICK k : k = Contents'
  OBVIOUS
<1>5. k \in Nat
  BY <1>2, <1>4, SqlfsAssumption DEF PiecesInv, Contents
<1>6. Lesser(u, k) <= u /\ u <= u + 1
  BY <1>3, <1>5 DEF Lesser
<1> QED BY <1>2, <1>3, <1>4, <1>6 DEF PiecesInv, PiecesCover

\* truncate() moves the end only.
LEMMA TruncateCovers == ASSUME PiecesInv, NEW n \in 0 .. FileSize, ShTruncate(n) PROVE PiecesInv'
<1>1. PICK u, m, c : u = sh_upto /\ m = sh_max /\ c = sh_covered
  OBVIOUS
<1>2. PICK k, k1 : /\ k = IF FileSize > m THEN m + 1 ELSE FileSize
                   /\ k1 = IF FileSize > n THEN n + 1 ELSE FileSize
  OBVIOUS
<1>3. PICK c1 : c1 = IF n > m /\ c < u THEN u ELSE c
  OBVIOUS
<1>4. sh_upto' = u /\ sh_max' = n /\ sh_covered' = c1
  BY <1>1, <1>3 DEF ShTruncate
<1>5. Contents = k /\ Contents' = k1
  BY <1>1, <1>2, <1>4 DEF Contents
<1>6. u \in Nat /\ m \in Nat /\ c \in Nat /\ n \in Nat /\ FileSize \in Nat
  BY <1>1, SqlfsAssumption DEF PiecesInv
<1>7. Lesser(u, k) <= c /\ c <= u + 1
  BY <1>1, <1>5 DEF PiecesInv, PiecesCover
<1>8. c1 \in Nat /\ Lesser(u, k1) <= c1 /\ c1 <= u + 1
  BY <1>2, <1>3, <1>6, <1>7 DEF Lesser
<1> QED BY <1>4, <1>5, <1>6, <1>8 DEF PiecesInv, PiecesCover

\* The cache has no part in it.
LEMMA CacheCovers == ASSUME PiecesInv, UNCHANGED sh_vars PROVE PiecesInv'
BY DEF sh_vars, PiecesInv, PiecesCover, Contents

(* A file that Stdio_helper gives out in pieces comes out without a gap,   *)
(* for any size of the file and of the pieces.                             *)
THEOREM PiecesCoverTheorem == SqlfsSpec => []PiecesCover
<1>1. ASSUME SqlfsInit PROVE PiecesInv
  BY <1>1, SqlfsAssumption DEF SqlfsInit, PiecesInv, PiecesCover, Contents, Lesser
<1>2. ASSUME PiecesInv, [SqlfsNext]_sq_vars PROVE PiecesInv'
  <2>1. CASE ShNext
    BY <1>2, <2>1, ReadCovers, SeekCovers, TruncateCovers DEF ShNext
  <2>2. CASE CacheNext
    <3>1. UNCHANGED sh_vars
      BY <2>2 DEF CacheNext, Change, Tick, FindFile, Have, Retrieve, Query, StoreAnswer,
           CacheThrows, Over, Frame, World
    <3> QED BY <1>2, <3>1, CacheCovers, SMTT(30)
  <2>3. CASE UNCHANGED sq_vars
    BY <1>2, <2>3, CacheCovers DEF sq_vars
  <2> QED BY <1>2, <2>1, <2>2, <2>3 DEF SqlfsNext
<1>3. PiecesInv => PiecesCover
  BY DEF PiecesInv
<1> QED BY <1>1, <1>2, <1>3, PTL DEF SqlfsSpec
-----------------------------------------------------------------------------
(* The cache *)

ReaderRecords == [pc : {"idle", "have", "retrieve", "query", "store", "done", "thrown"},
                  op : {"content_ID", "contents"}, path : Paths, nocache : BOOLEAN,
                  since : Nat, asked : Nat, got : 0 .. MaxVersion, missed : BOOLEAN]

\* The history has the versions of all times up to now, the present one too.
HistoryInv ==
    /\ sq_ttl \in Nat /\ sq_now \in Nat /\ sq_ttl < sq_now /\ sq_delay \in Nat
    /\ sq_db \in [Paths -> 0 .. MaxVersion]
    /\ sq_seen \in [Paths -> [0 .. sq_now -> SUBSET (0 .. MaxVersion)]]
    /\ \A p \in Paths : sq_db[p] \in sq_seen[p][sq_now]

\* A version that the database had at the time t or later.
Seen(p, v, t) == \E u \in 0 .. sq_now : t <= u /\ v \in sq_seen[p][u]

\* What the cache holds was the file's version at the time of its stamp, less
\* the time that its store took.
CacheInv ==
    \A p \in DOMAIN sq_cache : p \in Paths /\
        \A o \in DOMAIN sq_cache[p] :
            /\ sq_cache[p][o].stamp \in 0 .. sq_now
            /\ Seen(p, sq_cache[p][o].value, sq_cache[p][o].stamp - sq_delay)

\* The entries are not older than time t, or the cache answers no more.
NoneBefore(t) ==
    \/ sq_broken = TRUE
    \/ \A p \in DOMAIN sq_cache : \A o \in DOMAIN sq_cache[p] : t <= sq_cache[p][o].stamp

SeenFrom(q, t) == Seen(q.path, q.got, t)

\* What a request knows at each of its steps. A request that flushed the
\* cache finds no entry from before its start until it is answered.
Asking(q) ==
    /\ q.pc # "idle" => q.since \in sq_ttl + 1 .. sq_now
    /\ q.pc = "store" => q.asked \in q.since .. sq_now /\ q.got \in sq_seen[q.path][q.asked]
    /\ q.pc \in {"have", "retrieve", "query", "store"} /\ q.nocache = TRUE => NoneBefore(q.since)
    /\ q.pc = "done" /\ q.missed = FALSE =>
          /\ sq_ttl # 0 => SeenFrom(q, q.since - sq_ttl - sq_delay)
          /\ q.nocache = TRUE => SeenFrom(q, q.since - sq_delay)

ReadersInv == /\ sq_reader \in [Readers -> ReaderRecords]
              /\ \A r \in Readers : Asking(sq_reader[r])
FreshInv == sq_broken \in BOOLEAN /\ HistoryInv /\ CacheInv /\ ReadersInv

-----------------------------------------------------------------------------
\* The steps of the cache: an entry is an old one, or one of now.
SameEntry(p, o) == /\ p \in DOMAIN sq_cache /\ o \in DOMAIN sq_cache[p]
                   /\ sq_cache'[p][o] = sq_cache[p][o]
EntryOfNow(p, o) == /\ p \in Paths /\ sq_cache'[p][o].stamp = sq_now
                    /\ Seen(p, sq_cache'[p][o].value, sq_now - sq_delay')
OldOrOfNow == \A p \in DOMAIN sq_cache' : p \in Paths /\ \A o \in DOMAIN sq_cache'[p] :
                  SameEntry(p, o) \/ EntryOfNow(p, o)
HistoryKept == /\ UNCHANGED <<sq_ttl, sq_db, sq_now, sq_seen>>
               /\ sq_delay' \in Nat /\ sq_delay <= sq_delay'
StaysBroken == sq_broken' \in BOOLEAN /\ (sq_broken = TRUE => sq_broken' = TRUE)

\* What was seen since a time was seen since an earlier one.
LEMMA SeenEarlier ==
    ASSUME FreshInv, NEW p, NEW v, NEW t \in Int, NEW t1 \in Int, t1 <= t, Seen(p, v, t)
    PROVE  Seen(p, v, t1)
<1>1. PICK u \in 0 .. sq_now : t <= u /\ v \in sq_seen[p][u]
  BY DEF Seen
<1>2. t1 <= u
  BY <1>1 DEF FreshInv, HistoryInv
<1> QED BY <1>1, <1>2 DEF Seen

\* Such a cache is as good as it was.
LEMMA CacheStep == ASSUME FreshInv, HistoryKept, OldOrOfNow PROVE CacheInv'
<1>1. /\ sq_now \in Nat /\ sq_now' = sq_now /\ sq_seen' = sq_seen
      /\ sq_delay \in Nat /\ sq_delay' \in Nat /\ sq_delay <= sq_delay'
  BY DEF FreshInv, HistoryInv, HistoryKept
<1>2. ASSUME NEW p \in DOMAIN sq_cache', NEW o \in DOMAIN sq_cache'[p]
      PROVE  /\ p \in Paths /\ sq_cache'[p][o].stamp \in 0 .. sq_now
             /\ Seen(p, sq_cache'[p][o].value, sq_cache'[p][o].stamp - sq_delay')
  <2>1. CASE SameEntry(p, o)
    <3>1. PICK t, v :
            /\ t \in 0 .. sq_now /\ t = sq_cache[p][o].stamp /\ v = sq_cache[p][o].value /\ p \in Paths
            /\ Seen(p, v, t - sq_delay)
      BY <2>1 DEF SameEntry, FreshInv, CacheInv
    <3>2. t - sq_delay \in Int /\ t - sq_delay' \in Int /\ t - sq_delay' <= t - sq_delay
      BY <1>1, <3>1
    <3>3. Seen(p, v, t - sq_delay')
      BY <3>1, <3>2, SeenEarlier
    <3> QED BY <2>1, <3>1, <3>3 DEF SameEntry
  <2>2. CASE EntryOfNow(p, o)
    <3>1. sq_now \in 0 .. sq_now
      BY <1>1
    <3> QED BY <3>1, <2>2 DEF EntryOfNow
  <2> QED BY <2>1, <2>2 DEF OldOrOfNow
<1>3. \A p, v, t : Seen(p, v, t)' = Seen(p, v, t)
  BY <1>1 DEF Seen
<1> QED BY <1>1, <1>2, <1>3, OldOrOfNow DEF CacheInv, OldOrOfNow

\* It has no entry from before a time when it had none.
LEMMA NoneBeforeStep ==
    ASSUME FreshInv, HistoryKept, OldOrOfNow, StaysBroken,
           NEW t \in Nat, t <= sq_now, NoneBefore(t)
    PROVE  NoneBefore(t)'
<1>1. CASE sq_broken = TRUE
  BY <1>1 DEF NoneBefore, StaysBroken
<1>2. CASE sq_broken # TRUE
  <2>1. ASSUME NEW p \in DOMAIN sq_cache', NEW o \in DOMAIN sq_cache'[p]
        PROVE  t <= sq_cache'[p][o].stamp
    <3>1. CASE SameEntry(p, o)
      BY <3>1, <1>2 DEF SameEntry, NoneBefore
    <3>2. CASE EntryOfNow(p, o)
      BY <3>2 DEF EntryOfNow
    <3> QED BY <3>1, <3>2 DEF OldOrOfNow
  <2> QED BY <2>1 DEF NoneBefore
<1> QED BY <1>1, <1>2

\* What the other requests know stays true.
LEMMA AskingStep ==
    ASSUME FreshInv, HistoryKept, OldOrOfNow, StaysBroken,
           NEW q \in ReaderRecords, Asking(q)
    PROVE  Asking(q)'
<1>1. /\ sq_ttl' = sq_ttl /\ sq_now' = sq_now /\ sq_seen' = sq_seen
      /\ sq_ttl \in Nat /\ sq_now \in Nat /\ q.since \in Nat
      /\ sq_delay \in Nat /\ sq_delay' \in Nat /\ sq_delay <= sq_delay'
  BY DEF HistoryKept, FreshInv, HistoryInv, ReaderRecords
<1>2. q.pc # "idle" => q.since <= sq_now
  BY <1>1 DEF Asking
<1>3. q.pc # "idle" /\ NoneBefore(q.since) => NoneBefore(q.since)'
  BY <1>1, <1>2, NoneBeforeStep
<1>4. \A t : SeenFrom(q, t) => SeenFrom(q, t)'
  BY <1>1 DEF SeenFrom, Seen
<1>5. /\ q.since - sq_delay \in Int /\ q.since - sq_delay' \in Int
      /\ q.since - sq_delay' <= q.since - sq_delay
      /\ q.since - sq_ttl - sq_delay \in Int /\ q.since - sq_ttl - sq_delay' \in Int
      /\ q.since - sq_ttl - sq_delay' <= q.since - sq_ttl - sq_delay
  BY <1>1
<1>6. /\ SeenFrom(q, q.since - sq_delay) => SeenFrom(q, q.since - sq_delay')
      /\ SeenFrom(q, q.since - sq_ttl - sq_delay) => SeenFrom(q, q.since - sq_ttl - sq_delay')
  BY <1>5, SeenEarlier DEF SeenFrom
<1>7. /\ SeenFrom(q, q.since - sq_delay) => SeenFrom(q, q.since - sq_delay)'
      /\ SeenFrom(q, q.since - sq_ttl - sq_delay) => SeenFrom(q, q.since - sq_ttl - sq_delay)'
  BY <1>1, <1>6 DEF SeenFrom, Seen
<1> QED BY <1>1, <1>3, <1>7 DEF Asking
\* One reader goes on to q, and the cache holds what it held, or what is new.
LEMMA ReaderStep ==
    ASSUME FreshInv, HistoryKept, OldOrOfNow, StaysBroken,
           NEW r \in Readers, NEW q \in ReaderRecords,
           sq_reader' = [sq_reader EXCEPT ![r] = q], Asking(q)'
    PROVE  FreshInv'
<1>1. HistoryInv'
  BY DEF FreshInv, HistoryInv, HistoryKept
<1>2. CacheInv'
  BY CacheStep
<1>3. sq_reader' \in [Readers -> ReaderRecords]
  BY DEF FreshInv, ReadersInv
<1>4. ASSUME NEW s \in Readers PROVE Asking(sq_reader[s])'
  <2>1. PICK z : z = sq_reader'[s]
    OBVIOUS
  <2>2. Asking(z)'
    <3>1. CASE s = r
      <4>1. z = q
        BY <2>1, <3>1 DEF FreshInv, ReadersInv
      <4> QED BY <4>1
    <3>2. CASE s # r
      <4>1. z = sq_reader[s]
        BY <2>1, <3>2 DEF FreshInv, ReadersInv
      <4>2. z \in ReaderRecords /\ Asking(z)
        BY <4>1 DEF FreshInv, ReadersInv
      <4> QED BY <4>2, AskingStep
    <3> QED BY <3>1, <3>2
  <2> QED BY <2>1, <2>2 DEF Asking, SeenFrom, Seen, NoneBefore
<1> QED BY <1>1, <1>2, <1>3, <1>4 DEF FreshInv, ReadersInv, StaysBroken

\* The caches that the operations leave behind.
LEMMA SameCache == ASSUME FreshInv, UNCHANGED sq_cache PROVE OldOrOfNow
BY DEF FreshInv, CacheInv, OldOrOfNow, SameEntry

\* flush() of a path leaves a cache of nothing.
LEMMA FlushedPath == ASSUME sq_cache' = NoCache PROVE OldOrOfNow
BY DEF NoCache, OldOrOfNow

\* flush() of an operation empties a path, and adds nothing.
LEMMA FlushedOperation ==
    ASSUME FreshInv, NEW p, sq_cache' = FlushOperation(p) PROVE OldOrOfNow
<1>1. DOMAIN sq_cache' = DOMAIN sq_cache
  BY DEF FlushOperation
<1>2. ASSUME NEW x \in DOMAIN sq_cache', NEW o \in DOMAIN sq_cache'[x] PROVE SameEntry(x, o)
  <2>1. CASE x = p
    <3>1. sq_cache'[x] = [y \in {} |-> 0]
      BY <2>1, <1>1, <1>2 DEF FlushOperation
    <3> QED BY <3>1, <1>2
  <2>2. CASE x # p
    <3>1. sq_cache'[x] = sq_cache[x]
      BY <2>2, <1>1, <1>2 DEF FlushOperation
    <3> QED BY <3>1, <1>1, <1>2 DEF SameEntry
  <2> QED BY <2>1, <2>2
<1> QED BY <1>1, <1>2 DEF OldOrOfNow, FreshInv, CacheInv

\* store() adds an entry of now.
LEMMA Stored ==
    ASSUME FreshInv, NEW p \in Paths, NEW o, NEW v, Seen(p, v, sq_now - sq_delay'),
           sq_cache' = Store(p, o, v)
    PROVE  OldOrOfNow
<1>1. DOMAIN sq_cache' = DOMAIN sq_cache \cup {p}
  BY DEF Store
<1>2. ASSUME NEW x \in DOMAIN sq_cache', NEW y \in DOMAIN sq_cache'[x]
      PROVE  SameEntry(x, y) \/ EntryOfNow(x, y)
  <2>1. CASE x # p
    <3>1. sq_cache'[x] = sq_cache[x] /\ x \in DOMAIN sq_cache
      BY <2>1, <1>1, <1>2 DEF Store
    <3> QED BY <3>1, <1>2 DEF SameEntry
  <2>2. CASE x = p
    <3>1. PICK old : old = IF p \in DOMAIN sq_cache THEN sq_cache[p] ELSE [z \in {} |-> 0]
      OBVIOUS
    <3>2. sq_cache'[p] = [z \in DOMAIN old \cup {o} |->
                            IF z = o THEN [value |-> v, stamp |-> sq_now] ELSE old[z]]
      BY <3>1, <1>1 DEF Store
    <3>3. CASE y = o
      <4>1. sq_cache'[x][y] = [value |-> v, stamp |-> sq_now]
        BY <2>2, <3>2, <3>3
      <4>2. sq_cache'[x][y].value = v /\ sq_cache'[x][y].stamp = sq_now
        BY <4>1
      <4> QED BY <4>2, <2>2 DEF EntryOfNow
    <3>4. CASE y # o
      <4>1. y \in DOMAIN old /\ sq_cache'[x][y] = old[y]
        BY <1>2, <2>2, <3>2, <3>4
      <4>2. p \in DOMAIN sq_cache /\ old = sq_cache[p]
        BY <4>1, <3>1
      <4> QED BY <4>1, <4>2, <2>2 DEF SameEntry
    <3> QED BY <3>3, <3>4
  <2> QED BY <2>1, <2>2
<1> QED BY <1>1, <1>2 DEF OldOrOfNow, FreshInv, CacheInv
\* A request that is on its way.
LEMMA OnItsWay ==
    ASSUME FreshInv, NEW r \in Readers, NEW q, q = sq_reader[r]
    PROVE  q \in ReaderRecords /\ Asking(q)
BY DEF FreshInv, ReadersInv

\* It goes to another step with what it had, or with a new answer.
LEMMA GoesOn ==
    ASSUME FreshInv, HistoryKept, OldOrOfNow, StaysBroken,
           NEW r \in Readers, NEW pc \in {"retrieve", "query", "thrown"},
           sq_reader[r].pc \in {"have", "retrieve", "store"}, Goes(r, pc)
    PROVE  FreshInv'
<1>1. PICK q : q = sq_reader[r]
  OBVIOUS
<1>2. q \in ReaderRecords /\ Asking(q)
  BY <1>1, OnItsWay
<1>3. PICK z : z = [q EXCEPT !.pc = pc]
  OBVIOUS
<1>4. /\ z \in ReaderRecords /\ z.pc = pc /\ z.since = q.since /\ z.nocache = q.nocache
      /\ sq_reader' = [sq_reader EXCEPT ![r] = z]
  BY <1>1, <1>2, <1>3 DEF ReaderRecords, Goes, FreshInv, ReadersInv
<1>5. Asking(q)'
  BY <1>2, AskingStep
<1>6. q.pc # "idle" /\ q.pc \in {"have", "retrieve", "query", "store"}
  BY <1>1
<1>7. Asking(z)'
  BY <1>4, <1>5, <1>6 DEF Asking
<1> QED BY <1>4, <1>7, ReaderStep

\* It gets an answer that was seen since it may have been.
LEMMA AnsweredStep ==
    ASSUME FreshInv, HistoryKept, OldOrOfNow, StaysBroken,
           NEW r \in Readers, NEW v \in 0 .. MaxVersion,
           sq_reader[r].pc \in {"retrieve", "store"}, Answered(r, v),
           sq_ttl # 0 => Seen(sq_reader[r].path, v, sq_reader[r].since - sq_ttl - sq_delay'),
           sq_reader[r].nocache = TRUE =>
               Seen(sq_reader[r].path, v, sq_reader[r].since - sq_delay')
    PROVE  FreshInv'
<1>1. PICK q : q = sq_reader[r]
  OBVIOUS
<1>2. q \in ReaderRecords /\ Asking(q)
  BY <1>1, OnItsWay
<1>3. Asking(q)'
  BY <1>2, AskingStep
<1>4. q.pc # "idle" /\ q.pc \in {"have", "retrieve", "query", "store"}
  BY <1>1
<1>5. CASE q.op = "content_ID" /\ v # 0
  <2>1. PICK z : z = [q EXCEPT !.op = "contents", !.pc = "have", !.got = 0, !.asked = 0]
    OBVIOUS
  <2>0. 0 \in 0 .. MaxVersion /\ 0 \in Nat
    BY SqlfsAssumption
  <2>2. /\ z \in ReaderRecords /\ z.pc = "have" /\ z.since = q.since /\ z.nocache = q.nocache
    BY <1>2, <2>0, <2>1 DEF ReaderRecords
  <2>3. sq_reader' = [sq_reader EXCEPT ![r] = z]
    BY <1>1, <1>5, <2>1 DEF Answered, FreshInv, ReadersInv
  <2>4. Asking(z)'
    BY <2>2, <1>3, <1>4 DEF Asking
  <2> QED BY <2>2, <2>3, <2>4, ReaderStep
<1>6. CASE ~ (q.op = "content_ID" /\ v # 0)
  <2>1. PICK z : z = [q EXCEPT !.got = v, !.pc = "done", !.asked = 0]
    OBVIOUS
  <2>2. /\ z \in ReaderRecords /\ z.pc = "done" /\ z.since = q.since /\ z.nocache = q.nocache
        /\ z.path = q.path /\ z.got = v
    BY <1>2, <2>1 DEF ReaderRecords
  <2>3. sq_reader' = [sq_reader EXCEPT ![r] = z]
    BY <1>1, <1>6, <2>1 DEF Answered, FreshInv, ReadersInv
  <2>4. sq_ttl' = sq_ttl /\ sq_now' = sq_now /\ sq_seen' = sq_seen
    BY DEF HistoryKept
  <2>5. /\ sq_ttl # 0 => SeenFrom(z, z.since - sq_ttl - sq_delay)'
        /\ z.nocache = TRUE => SeenFrom(z, z.since - sq_delay)'
    BY <1>1, <2>2, <2>4 DEF SeenFrom, Seen
  <2>6. Asking(z)'
    BY <2>2, <2>4, <2>5, <1>3, <1>4 DEF Asking
  <2> QED BY <2>2, <2>3, <2>6, ReaderStep
<1> QED BY <1>5, <1>6
-----------------------------------------------------------------------------
\* The steps of the requests.
LEMMA FrameKeeps == ASSUME FreshInv, Frame PROVE HistoryKept /\ StaysBroken
BY DEF FreshInv, HistoryInv, Frame, World, HistoryKept, StaysBroken

\* A request starts, and flushes the cache when it is to be asked past it.
LEMMA FindFileStep ==
    ASSUME FreshInv, NEW r \in Readers, NEW p \in Paths, NEW nocache \in BOOLEAN,
           FindFile(r, p, nocache)
    PROVE  FreshInv'
<1>1. PICK now, ttl : now = sq_now /\ ttl = sq_ttl
  OBVIOUS
<1>2. /\ now \in Nat /\ ttl \in Nat /\ ttl < now /\ sq_broken \in BOOLEAN
      /\ sq_now' = now /\ sq_ttl' = ttl
  BY <1>1 DEF FreshInv, HistoryInv, FindFile
<1>3. PICK z : z = [Idle(p) EXCEPT !.pc = "have", !.since = now, !.nocache = nocache]
  OBVIOUS
<1>4. 0 \in 0 .. MaxVersion
  BY SqlfsAssumption
<1>5. z \in ReaderRecords /\ z.pc = "have" /\ z.since = now /\ z.nocache = nocache
  BY <1>2, <1>3, <1>4 DEF ReaderRecords, Idle
<1>6. sq_reader' = [sq_reader EXCEPT ![r] = z] /\ HistoryKept
  BY <1>1, <1>3 DEF FindFile, HistoryKept, FreshInv, HistoryInv
<1>7. CASE nocache = TRUE /\ sq_broken = FALSE
  <2>1. sq_cache' = NoCache /\ sq_broken' \in BOOLEAN
    BY <1>7 DEF FindFile, FlushPath
  <2>2. OldOrOfNow /\ StaysBroken
    BY <2>1, <1>7, FlushedPath DEF StaysBroken
  <2>3. NoneBefore(now)'
    BY <2>1 DEF NoneBefore, NoCache
  <2>4. Asking(z)'
    BY <1>2, <1>5, <2>3 DEF Asking
  <2> QED BY <1>5, <1>6, <2>2, <2>4, ReaderStep
<1>8. CASE ~ (nocache = TRUE /\ sq_broken = FALSE)
  <2>1. sq_cache' = sq_cache /\ sq_broken' = sq_broken
    BY <1>2, <1>8 DEF FindFile
  <2>2. OldOrOfNow /\ StaysBroken
    BY <2>1, <1>2, SameCache DEF StaysBroken
  <2>3. nocache = TRUE => NoneBefore(now)'
    BY <2>1, <1>2, <1>8 DEF NoneBefore
  <2>4. Asking(z)'
    BY <1>2, <1>5, <2>3 DEF Asking
  <2> QED BY <1>5, <1>6, <2>2, <2>4, ReaderStep
<1> QED BY <1>7, <1>8

\* have() finds an entry, or flushes an old one.
LEMMA HaveStep == ASSUME FreshInv, NEW r \in Readers, Have(r) PROVE FreshInv'
<1>1. PICK p, o : p = sq_reader[r].path /\ o = sq_reader[r].op
  OBVIOUS
<1>2. HistoryKept /\ StaysBroken /\ sq_reader[r].pc = "have"
  BY FrameKeeps DEF Have, At
<1>3. CASE Cached(p, o) /\ ~ Expired(p, o)
  <2>1. Goes(r, "retrieve") /\ UNCHANGED sq_cache
    BY <1>1, <1>3 DEF Have
  <2> QED BY <2>1, <1>2, SameCache, GoesOn
<1>4. CASE ~ (Cached(p, o) /\ ~ Expired(p, o))
  <2>1. /\ Goes(r, "query")
        /\ sq_cache' = FlushOperation(p) \/ UNCHANGED sq_cache
    BY <1>1, <1>4 DEF Have
  <2>2. OldOrOfNow
    BY <2>1, SameCache, FlushedOperation
  <2> QED BY <2>1, <2>2, <1>2, GoesOn
<1> QED BY <1>3, <1>4

\* retrieve() finds one that is not too old, or misses it.
LEMMA RetrieveStep == ASSUME FreshInv, NEW r \in Readers, Retrieve(r) PROVE FreshInv'
<1>1. PICK p, o, q : q = sq_reader[r] /\ p = q.path /\ o = q.op
  OBVIOUS
<1>2. HistoryKept /\ StaysBroken /\ q.pc = "retrieve" /\ sq_broken = FALSE
  BY <1>1, FrameKeeps DEF Retrieve, At, FreshInv
<1>3. q \in ReaderRecords /\ Asking(q)
  BY <1>1, OnItsWay
<1>4. CASE Cached(p, o) /\ ~ Expired(p, o)
  <2>1. Answered(r, sq_cache[p][o].value) /\ UNCHANGED sq_cache
    BY <1>1, <1>4 DEF Retrieve
  <2>2. PICK v, t, now, ttl, s, d :
          /\ v = sq_cache[p][o].value /\ t = sq_cache[p][o].stamp
          /\ now = sq_now /\ ttl = sq_ttl /\ s = q.since /\ d = sq_delay
    OBVIOUS
  <2>3. p \in Paths /\ t \in 0 .. now /\ Seen(p, v, t - d)
    BY <1>4, <2>2 DEF Cached, FreshInv, CacheInv
  <2>4. v \in 0 .. MaxVersion
    BY <2>3 DEF Seen, FreshInv, HistoryInv
  <2>5. ttl # 0 => now <= t + ttl
    BY <1>4, <2>2, <2>3 DEF Expired, FreshInv, HistoryInv
  <2>6. now \in Nat /\ ttl \in Nat /\ d \in Nat /\ s \in ttl + 1 .. now
    BY <1>2, <1>3, <2>2 DEF FreshInv, HistoryInv, Asking
  <2>7. ttl # 0 => s - ttl - d <= t - d
    BY <2>3, <2>5, <2>6
  <2>8. q.nocache = TRUE => s <= t
    BY <1>2, <1>3, <1>4, <2>2 DEF Asking, NoneBefore, Cached
  <2>9. /\ q.nocache = TRUE => s - d <= t - d
        /\ t - d \in Int /\ s - d \in Int /\ s - ttl - d \in Int
    BY <2>3, <2>6, <2>8
  <2>10. /\ ttl # 0 => Seen(p, v, s - ttl - d)
         /\ q.nocache = TRUE => Seen(p, v, s - d)
    BY <2>3, <2>7, <2>9, SeenEarlier
  <2>11. OldOrOfNow
    BY <2>1, SameCache
  <2>14. sq_delay' = d
    BY <2>2 DEF Retrieve, Frame
  <2>12. /\ sq_ttl # 0 => Seen(sq_reader[r].path, v, sq_reader[r].since - sq_ttl - sq_delay')
         /\ sq_reader[r].nocache = TRUE =>
                Seen(sq_reader[r].path, v, sq_reader[r].since - sq_delay')
    BY <1>1, <2>2, <2>10, <2>14
  <2>13. sq_reader[r].pc \in {"retrieve", "store"} /\ Answered(r, v)
    BY <1>1, <1>2, <2>1, <2>2
  <2> QED BY <1>2, <2>4, <2>11, <2>12, <2>13, AnsweredStep
<1>5. CASE ~ (Cached(p, o) /\ ~ Expired(p, o))
  <2>1. /\ sq_reader' = [sq_reader EXCEPT ![r].pc = "done", ![r].missed = TRUE]
        /\ sq_cache' = FlushOperation(p) \/ UNCHANGED sq_cache
    BY <1>1, <1>5 DEF Retrieve
  <2>2. OldOrOfNow
    BY <2>1, SameCache, FlushedOperation
  <2>3. PICK z : z = [q EXCEPT !.pc = "done", !.missed = TRUE]
    OBVIOUS
  <2>4. z \in ReaderRecords /\ z.pc = "done" /\ z.missed = TRUE /\ z.since = q.since
    BY <1>3, <2>3 DEF ReaderRecords
  <2>5. sq_reader' = [sq_reader EXCEPT ![r] = z]
    BY <1>1, <2>1, <2>3 DEF FreshInv, ReadersInv
  <2>6. Asking(q)'
    BY <1>2, <1>3, <2>2, AskingStep
  <2>7. Asking(z)'
    BY <1>2, <2>4, <2>6 DEF Asking
  <2> QED BY <1>2, <2>2, <2>4, <2>5, <2>7, ReaderStep
<1> QED BY <1>4, <1>5
\* The database answers with its present version.
LEMMA QueryStep == ASSUME FreshInv, NEW r \in Readers, Query(r) PROVE FreshInv'
<1>1. PICK q : q = sq_reader[r]
  OBVIOUS
<1>2. q \in ReaderRecords /\ Asking(q) /\ q.pc = "query"
  BY <1>1, OnItsWay DEF Query, At
<1>3. HistoryKept /\ StaysBroken /\ OldOrOfNow
  BY FrameKeeps, SameCache DEF Query
<1>4. PICK v : v = sq_db[q.path]
  OBVIOUS
<1>5. v \in 0 .. MaxVersion /\ v \in sq_seen[q.path][sq_now]
  BY <1>2, <1>4 DEF FreshInv, HistoryInv, ReaderRecords
<1>12. PICK now \in Nat : now = sq_now
  BY DEF FreshInv, HistoryInv
<1>6. PICK z : z = [q EXCEPT !.pc = "store", !.asked = now, !.got = v]
  OBVIOUS
<1>7. /\ z \in ReaderRecords /\ z.pc = "store" /\ z.got = v /\ z.path = q.path
      /\ z.since = q.since /\ z.nocache = q.nocache /\ z.asked = now
  BY <1>2, <1>5, <1>6 DEF ReaderRecords
<1>8. sq_reader' = [sq_reader EXCEPT ![r] = z]
  BY <1>1, <1>4, <1>6, <1>12 DEF Query, FreshInv, ReadersInv
<1>13. now \in q.since .. sq_now'
  BY <1>2, <1>3, <1>12 DEF Asking, HistoryKept, ReaderRecords
<1>9. Asking(q)'
  BY <1>2, <1>3, AskingStep
<1>10. v \in sq_seen'[q.path][now]
  BY <1>3, <1>5, <1>12 DEF HistoryKept
<1>11. Asking(z)'
  BY <1>2, <1>7, <1>9, <1>10, <1>13 DEF Asking
<1> QED BY <1>3, <1>7, <1>8, <1>11, ReaderStep

\* The answer is given, and stored behind whatever was flushed since.
LEMMA StoreAnswerStep == ASSUME FreshInv, NEW r \in Readers, StoreAnswer(r) PROVE FreshInv'
<1>1. PICK q, v, now, ttl, s, a, d, d1 :
        /\ q = sq_reader[r] /\ v = q.got /\ now = sq_now /\ ttl = sq_ttl /\ s = q.since
        /\ a = q.asked /\ d = sq_delay /\ d1 = sq_delay'
  OBVIOUS
<1>2. q \in ReaderRecords /\ Asking(q) /\ q.pc = "store"
  BY <1>1, OnItsWay DEF StoreAnswer, At
<1>3. /\ now \in Nat /\ ttl \in Nat /\ d \in Nat /\ s \in ttl + 1 .. now /\ a \in s .. now
      /\ v \in 0 .. MaxVersion /\ v \in sq_seen[q.path][a] /\ q.path \in Paths
  BY <1>1, <1>2 DEF FreshInv, HistoryInv, Asking, ReaderRecords
<1>4. /\ \/ sq_cache' = sq_cache /\ d1 = d
         \/ sq_cache' = Store(q.path, q.op, v) /\ d1 = IF d < now - a THEN now - a ELSE d
      /\ Answered(r, v)
  BY <1>1 DEF StoreAnswer, Greater
<1>5. d1 \in Nat /\ d <= d1 /\ (d1 = d \/ now - d1 <= a)
  BY <1>3, <1>4
<1>6. HistoryKept /\ StaysBroken
  BY <1>1, <1>5 DEF StoreAnswer, World, FreshInv, HistoryKept, StaysBroken
<1>7. a \in 0 .. now /\ s - ttl - d1 <= a /\ s - d1 <= a
  BY <1>3, <1>5
<1>8. OldOrOfNow
  <2>1. CASE sq_cache' = sq_cache
    BY <2>1, SameCache
  <2>2. CASE sq_cache' = Store(q.path, q.op, v) /\ d1 = IF d < now - a THEN now - a ELSE d
    <3>1. now - d1 <= a
      BY <1>3, <2>2
    <3>2. Seen(q.path, v, sq_now - sq_delay')
      BY <1>1, <1>3, <1>7, <3>1 DEF Seen
    <3> QED BY <1>3, <2>2, <3>2, Stored
  <2> QED BY <1>4, <2>1, <2>2
<1>9. /\ Seen(sq_reader[r].path, v, sq_reader[r].since - sq_ttl - sq_delay')
      /\ Seen(sq_reader[r].path, v, sq_reader[r].since - sq_delay')
  BY <1>1, <1>3, <1>7 DEF Seen
<1>10. sq_reader[r].pc \in {"retrieve", "store"}
  BY <1>1, <1>2
<1> QED BY <1>3, <1>4, <1>6, <1>8, <1>9, <1>10, AnsweredStep

\* A method of the cache that is 0 throws.
LEMMA ThrowStep == ASSUME FreshInv, NEW r \in Readers, CacheThrows(r) PROVE FreshInv'
BY FrameKeeps, SameCache, GoesOn DEF CacheThrows

\* The request is over.
LEMMA OverStep == ASSUME FreshInv, NEW r \in Readers, Over(r) PROVE FreshInv'
<1>1. PICK q : q = sq_reader[r]
  OBVIOUS
<1>2. q \in ReaderRecords
  BY <1>1, OnItsWay
<1>3. HistoryKept /\ StaysBroken /\ OldOrOfNow
  BY FrameKeeps, SameCache DEF Over
<1>4. PICK z : z = Idle(q.path)
  OBVIOUS
<1>5. 0 \in 0 .. MaxVersion
  BY SqlfsAssumption
<1>6. z \in ReaderRecords /\ z.pc = "idle"
  BY <1>2, <1>4, <1>5 DEF Idle, ReaderRecords
<1>7. sq_reader' = [sq_reader EXCEPT ![r] = z]
  BY <1>1, <1>4 DEF Over, FreshInv, ReadersInv
<1>8. Asking(z)'
  BY <1>6 DEF Asking
<1> QED BY <1>3, <1>6, <1>7, <1>8, ReaderStep

\* The steps of the world: what was seen stays seen.
LEMMA MoreSeen ==
    ASSUME FreshInv, UNCHANGED <<sq_ttl, sq_cache, sq_broken, sq_reader, sq_delay>>, HistoryInv',
           \A p \in Paths : \A t \in 0 .. sq_now : sq_seen[p][t] \subseteq sq_seen'[p][t],
           NEW now, NEW now1, now = sq_now, now1 = sq_now', now <= now1
    PROVE  FreshInv'
<1>1. now \in Nat /\ now1 \in Nat /\ sq_ttl \in Nat
  BY DEF FreshInv, HistoryInv
<1>4. ASSUME NEW p \in Paths, NEW v, NEW t, Seen(p, v, t) PROVE Seen(p, v, t)'
  <2>1. PICK u \in 0 .. now : t <= u /\ v \in sq_seen[p][u]
    BY <1>4 DEF Seen
  <2>2. u \in 0 .. now1
    BY <1>1
  <2> QED BY <2>1, <2>2 DEF Seen
<1>2. CacheInv'
  <2>1. \A t : t \in 0 .. now => t \in 0 .. now1
    BY <1>1
  <2>2. ASSUME NEW p \in DOMAIN sq_cache, NEW o \in DOMAIN sq_cache[p]
        PROVE  /\ p \in Paths /\ sq_cache[p][o].stamp \in 0 .. now1
               /\ Seen(p, sq_cache[p][o].value, sq_cache[p][o].stamp - sq_delay)'
    <3>1. /\ p \in Paths /\ sq_cache[p][o].stamp \in 0 .. now
          /\ Seen(p, sq_cache[p][o].value, sq_cache[p][o].stamp - sq_delay)
      BY DEF FreshInv, CacheInv
    <3>2. PICK v, t : v = sq_cache[p][o].value /\ t = sq_cache[p][o].stamp - sq_delay
      OBVIOUS
    <3>3. Seen(p, v, t)'
      BY <3>1, <3>2, <1>4
    <3> QED BY <2>1, <3>1, <3>2, <3>3 DEF Seen
  <2>3. \A p \in DOMAIN sq_cache : p \in Paths
    BY DEF FreshInv, CacheInv
  <2> QED BY <2>2, <2>3 DEF CacheInv
<1>3. ASSUME NEW r \in Readers PROVE Asking(sq_reader[r])'
  <2>1. PICK q : q = sq_reader[r]
    OBVIOUS
  <2>2. q \in ReaderRecords /\ Asking(q)
    BY <2>1, OnItsWay
  <2>3. PICK s, ttl : s = q.since /\ ttl = sq_ttl
    OBVIOUS
  <2>4. s \in Nat /\ ttl \in Nat /\ q.path \in Paths
    BY <2>2, <2>3, <1>1 DEF ReaderRecords
  <2>5. q.pc # "idle" => s \in ttl + 1 .. now
    BY <2>2, <2>3 DEF Asking
  <2>6. q.pc # "idle" => s \in ttl + 1 .. now1
    BY <2>4, <2>5, <1>1
  <2>7. \A t : SeenFrom(q, t) => SeenFrom(q, t)'
    BY <2>4, <1>4 DEF SeenFrom
  <2>9. q.pc = "store" => q.asked \in s .. now1 /\ q.got \in sq_seen'[q.path][q.asked]
    <3>1. SUFFICES ASSUME q.pc = "store"
                   PROVE  q.asked \in s .. now1 /\ q.got \in sq_seen'[q.path][q.asked]
      OBVIOUS
    <3>2. q.asked \in s .. now /\ q.got \in sq_seen[q.path][q.asked]
      BY <2>2, <2>3, <3>1 DEF Asking
    <3>3. q.asked \in 0 .. now /\ q.asked \in s .. now1
      BY <1>1, <2>4, <3>2
    <3> QED BY <2>4, <3>2, <3>3
  <2>10. \A t : NoneBefore(t) => NoneBefore(t)'
    BY DEF NoneBefore
  <2>11. q.pc = "done" /\ q.missed = FALSE =>
            /\ ttl # 0 => SeenFrom(q, s - ttl - sq_delay)'
            /\ q.nocache = TRUE => SeenFrom(q, s - sq_delay)'
    <3>1. q.pc = "done" /\ q.missed = FALSE =>
            /\ ttl # 0 => SeenFrom(q, s - ttl - sq_delay)
            /\ q.nocache = TRUE => SeenFrom(q, s - sq_delay)
      BY <2>2, <2>3 DEF Asking
    <3> QED BY <2>7, <3>1 DEF SeenFrom, Seen
  <2>12. /\ sq_ttl' = ttl /\ sq_now' = now1
         /\ q.pc \in {"have", "retrieve", "query", "store"} /\ q.nocache = TRUE
               => NoneBefore(s)'
    BY <2>2, <2>3, <2>10 DEF Asking
  <2>13. Asking(q)'
    BY <2>3, <2>6, <2>9, <2>11, <2>12 DEF Asking
  <2> QED BY <2>1, <2>13 DEF Asking, SeenFrom, Seen, NoneBefore
<1> QED BY <1>2, <1>3 DEF FreshInv, ReadersInv

\* The database changes: the old version and the new are both of now.
LEMMA ChangeStep ==
    ASSUME FreshInv, NEW p \in Paths, NEW v \in 0 .. MaxVersion, Change(p, v) PROVE FreshInv'
<1>1. PICK now : now = sq_now
  OBVIOUS
<1>2. now \in Nat /\ now \in 0 .. now /\ now <= now
  BY <1>1 DEF FreshInv, HistoryInv
<1>3. PICK f : f = [sq_seen[p] EXCEPT ![now] = @ \cup {v}]
  OBVIOUS
<1>4. sq_seen[p] \in [0 .. now -> SUBSET (0 .. MaxVersion)]
  BY <1>1 DEF FreshInv, HistoryInv
<1>5. /\ f \in [0 .. now -> SUBSET (0 .. MaxVersion)] /\ v \in f[now]
      /\ \A t \in 0 .. now : sq_seen[p][t] \subseteq f[t]
  BY <1>2, <1>3, <1>4
<1>6. sq_seen' = [sq_seen EXCEPT ![p] = f] /\ sq_db' = [sq_db EXCEPT ![p] = v] /\ sq_now' = now
  BY <1>1, <1>3 DEF Change
<1>7. HistoryInv'
  BY <1>1, <1>2, <1>5, <1>6 DEF Change, FreshInv, HistoryInv
<1>8. \A x \in Paths : \A t \in 0 .. sq_now : sq_seen[x][t] \subseteq sq_seen'[x][t]
  BY <1>1, <1>5, <1>6 DEF FreshInv, HistoryInv
<1> QED BY <1>1, <1>2, <1>6, <1>7, <1>8, MoreSeen DEF Change

\* Time goes by, with the version that the database has.
LEMMA TickStep == ASSUME FreshInv, Tick PROVE FreshInv'
<1>1. PICK now, now1, ttl : now = sq_now /\ now1 = sq_now' /\ ttl = sq_ttl
  OBVIOUS
<1>2. now \in Nat /\ ttl \in Nat /\ ttl < now /\ now1 = now + 1
  BY <1>1 DEF Tick, FreshInv, HistoryInv
<1>3. /\ now1 \in Nat /\ ttl < now1 /\ now <= now1 /\ now1 \in 0 .. now1
      /\ \A t : t \in 0 .. now1 /\ t # now1 => t \in 0 .. now
      /\ \A t : t \in 0 .. now => t # now1 /\ t \in 0 .. now1
  BY <1>2
<1>4. ASSUME NEW p \in Paths
      PROVE  /\ sq_seen'[p] = [t \in 0 .. now1 |-> IF t = now1 THEN {sq_db[p]} ELSE sq_seen[p][t]]
             /\ sq_seen[p] \in [0 .. now -> SUBSET (0 .. MaxVersion)]
             /\ sq_db[p] \in 0 .. MaxVersion
  BY <1>1 DEF Tick, FreshInv, HistoryInv
<1>5. ASSUME NEW p \in Paths
      PROVE  /\ sq_seen'[p] \in [0 .. now1 -> SUBSET (0 .. MaxVersion)]
             /\ sq_db[p] \in sq_seen'[p][now1]
             /\ \A t \in 0 .. now : sq_seen[p][t] \subseteq sq_seen'[p][t]
  <2>1. PICK f, g, d, M, D : /\ f = sq_seen[p] /\ g = sq_seen'[p] /\ d = sq_db[p]
                             /\ M = 0 .. MaxVersion /\ D = 0 .. now
    OBVIOUS
  <2>2. /\ f \in [D -> SUBSET M] /\ d \in M
        /\ g = [t \in 0 .. now1 |-> IF t = now1 THEN {d} ELSE f[t]]
    BY <1>4, <2>1
  <2>3. ASSUME NEW t \in 0 .. now1
        PROVE g[t] \in SUBSET M /\ (t # now1 => g[t] = f[t]) /\ (t = now1 => g[t] = {d})
    <3>1. CASE t = now1
      BY <2>2, <3>1
    <3>2. CASE t # now1
      BY <1>3, <2>1, <2>2, <3>2
    <3> QED BY <3>1, <3>2
  <2>4. g \in [0 .. now1 -> SUBSET M]
    BY <2>2, <2>3
  <2>5. d \in g[now1] /\ \A t \in 0 .. now : f[t] \subseteq g[t]
    BY <1>3, <2>3
  <2> QED BY <2>1, <2>4, <2>5
<1>6. sq_seen' \in [Paths -> [0 .. now1 -> SUBSET (0 .. MaxVersion)]]
  <2>1. sq_seen' = [p \in Paths |-> sq_seen'[p]]
    BY DEF Tick
  <2> QED BY <2>1, <1>5
<1>7. HistoryInv'
  BY <1>1, <1>3, <1>5, <1>6 DEF Tick, FreshInv, HistoryInv
<1> QED BY <1>1, <1>3, <1>5, <1>7, MoreSeen DEF Tick

-----------------------------------------------------------------------------
(* What a request is given is older than it by at most ttl seconds and the *)
(* longest time that a thread took from a query to the store of its        *)
(* answer, and by that time alone when the client asked past the cache:    *)
(* for any number of threads and files, however they flush each other's    *)
(* entries, and however much time goes by between any two of their steps.  *)
THEOREM AnswerFreshTheorem == SqlfsSpec => []AnswerFresh
<1>1. ASSUME SqlfsInit PROVE FreshInv
  <2>1. HistoryInv
    <3>1. PICK ttl, now : ttl = sq_ttl /\ now = sq_now
      OBVIOUS
    <3>2. ttl \in Nat /\ now = ttl + 1
      BY <1>1, <3>1, SqlfsAssumption DEF SqlfsInit
    <3>3. now \in Nat /\ ttl < now /\ now \in 0 .. now
      BY <3>2
    <3> QED BY <1>1, <3>1, <3>2, <3>3 DEF SqlfsInit, HistoryInv
  <2>2. CacheInv /\ sq_broken \in BOOLEAN
    BY <1>1 DEF SqlfsInit, CacheInv, NoCache
  <2>3. PICK p \in Paths : sq_reader = [r \in Readers |-> Idle(p)]
    BY <1>1 DEF SqlfsInit
  <2>4. PICK z : z = Idle(p)
    OBVIOUS
  <2>5. 0 \in 0 .. MaxVersion
    BY SqlfsAssumption
  <2>6. z \in ReaderRecords /\ z.pc = "idle"
    BY <2>4, <2>5 DEF Idle, ReaderRecords
  <2>7. Asking(z)
    BY <2>6 DEF Asking
  <2>8. ReadersInv
    BY <2>3, <2>4, <2>6, <2>7 DEF ReadersInv
  <2> QED BY <2>1, <2>2, <2>8 DEF FreshInv
<1>2. ASSUME FreshInv, [SqlfsNext]_sq_vars PROVE FreshInv'
  <2>1. CASE CacheNext
    BY <1>2, <2>1, ChangeStep, TickStep, FindFileStep, HaveStep, RetrieveStep, QueryStep,
       StoreAnswerStep, ThrowStep, OverStep DEF CacheNext
  <2>2. ASSUME UNCHANGED sq_state PROVE FreshInv'
    BY <1>2, <2>2 DEF sq_state, FreshInv, HistoryInv, CacheInv, ReadersInv, Asking,
       SeenFrom, Seen, NoneBefore
  <2>3. ShNext \/ UNCHANGED sq_vars => UNCHANGED sq_state
    BY DEF ShNext, ShRead, ShSeek, ShTruncate, sq_vars
  <2> QED BY <1>2, <2>1, <2>2, <2>3 DEF SqlfsNext
<1>3. FreshInv => AnswerFresh
  <2> SUFFICES ASSUME FreshInv, NEW r \in Readers, Answers(r)
               PROVE  /\ sq_ttl # 0 => SeenSince(r, sq_reader[r].since - sq_ttl - sq_delay)
                      /\ sq_reader[r].nocache => SeenSince(r, sq_reader[r].since - sq_delay)
    BY DEF AnswerFresh
  <2>1. PICK q : q = sq_reader[r]
    OBVIOUS
  <2>2. q \in ReaderRecords /\ Asking(q) /\ q.pc = "done"
    BY <2>1, OnItsWay DEF Answers
  <2>3. q.missed = FALSE /\ q.nocache \in BOOLEAN
    BY <2>1, <2>2 DEF ReaderRecords, Answers
  <2>4. /\ sq_ttl # 0 => SeenFrom(q, q.since - sq_ttl - sq_delay)
        /\ q.nocache = TRUE => SeenFrom(q, q.since - sq_delay)
    BY <2>2, <2>3 DEF Asking
  <2> QED BY <2>1, <2>3, <2>4 DEF SeenFrom, Seen, SeenSince
<1> QED BY <1>1, <1>2, <1>3, PTL DEF SqlfsSpec

-----------------------------------------------------------------------------
(* The objects together *)

\* A step of the system is one of each object, or leaves it alone.
LEMMA EachObjectSteps ==
    ASSUME [MCNext]_all
    PROVE  /\ [MhashNext]_mh_vars
           /\ [PcreNext]_pc_vars
           /\ [XsNext]_xs_vars
           /\ [SpNext]_sp_pad
           /\ [SqlfsNext]_sq_vars
<1>1. CASE MhashOnly
  BY <1>1 DEF MhashOnly
<1>2. CASE PcreOnly
  BY <1>2 DEF PcreOnly
<1>3. CASE PiXSLOnly
  BY <1>3 DEF PiXSLOnly
<1>4. CASE ScratchpadOnly
  BY <1>4 DEF ScratchpadOnly
<1>5. CASE CacheOnly \/ StdioOnly
  BY <1>5 DEF CacheOnly, StdioOnly, SqlfsNext
<1>6. CASE UNCHANGED all
  BY <1>6 DEF all
<1> QED BY <1>1, <1>2, <1>3, <1>4, <1>5, <1>6 DEF MCNext

(* What the model checker runs are behaviours of each object.              *)
THEOREM ObjectsBehave ==
    MCSpec => MhashSpec /\ PcreSpec /\ XsSpec /\ SpSpec /\ SqlfsSpec
<1>1. MCInit => MhashInit /\ PcreInit /\ XsInit /\ SpInit /\ SqlfsInit
  BY DEF MCInit
<1> QED BY <1>1, EachObjectSteps, PTL
    DEF MCSpec, MhashSpec, PcreSpec, XsSpec, SpSpec, SqlfsSpec

(* An object that is used again answers from its last start: digests are   *)
(* those of the data fed since, matches those of the pattern created last. *)
THEOREM NoStaleAnswerTheorem == MCSpec => []NoStaleAnswer
<1>1. DigestOfTheData /\ NoStalePattern => NoStaleAnswer
  BY DEF NoStaleAnswer
<1> QED BY <1>1, ObjectsBehave, DigestIsOfTheData, PatternIsNotStale, PTL

(* What the bindings lose of their libraries' memory is known, for any     *)
(* calls in any order: the tables and what calls that threw held for PCRE, *)
(* the results and what runs that threw had made for Sablotron; and only   *)
(* the close() callback leaves a value on the Pike stack.                  *)
THEOREM LossesKnownTheorem == MCSpec => []LossesKnown
<1>1. PcreLosses /\ XsKept => LossesKnown
  BY DEF XsKept, LossesKnown
<1> QED BY <1>1, ObjectsBehave, PcreLeaks, XsReleases, PTL
=============================================================================
