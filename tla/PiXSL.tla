------------------------------- MODULE PiXSL -------------------------------
(***************************************************************************)
(* The object PiXSL.Parser: documents and callbacks are set, and run()     *)
(* gives them to the Sablotron library, which calls back into Pike to read *)
(* the documents of other schemes. The library is external: in a run it    *)
(* makes any calls of the scheme handler in any order, except that it      *)
(* gives a buffer back before it asks for the next one.                    *)
(***************************************************************************)
EXTENDS Naturals, Integers

CONSTANTS Documents, XsMaxCalls,   \* bound on the calls of one run
          XsMaxThrown,             \* bound on the runs that throw
          XsMaxResults             \* bound on those that return
ASSUME XsAssumption == XsMaxCalls \in Nat /\ XsMaxThrown \in Nat /\ XsMaxResults \in Nat

CallbackNames == {"getAll", "freeMemory", "open", "put", "get", "close"}
Unset == "unset"

VARIABLES xs_xml, xs_xsl,    \* the documents, text or file name
          xs_do, xs_cb,      \* do_callbacks, and the callbacks that are functions
          xs_err,            \* THIS->err
          xs_running, xs_calls,
          xs_live,           \* situations, processors and results of the library
          xs_buffer,         \* THIS->getAllBuffer: "none", or "allocated"
          xs_held,           \* the library has not given that buffer back
          xs_stack,          \* values on the Pike stack that were not there before the run
          xs_thrown, xs_results, \* history: runs that threw, runs that returned
          xs_bad, xs_closed  \* history: calls of this run
xs_set == <<xs_xml, xs_xsl, xs_do, xs_cb>>
xs_in == <<xs_buffer, xs_held, xs_stack, xs_bad, xs_closed, xs_calls>>
xs_vars == <<xs_set, xs_err, xs_running, xs_live, xs_thrown, xs_results, xs_in>>

XsInit ==
    /\ xs_xml = Unset /\ xs_xsl = Unset /\ xs_do = FALSE /\ xs_cb = {} /\ xs_err = FALSE
    /\ xs_running = FALSE /\ xs_calls = 0 /\ xs_live = 0 /\ xs_buffer = "none"
    /\ xs_held = FALSE /\ xs_stack = 0 /\ xs_thrown = 0 /\ xs_results = 0
    /\ xs_bad = FALSE /\ xs_closed = 0

Between == ~xs_running
XsFrame == UNCHANGED <<xs_err, xs_running, xs_live, xs_thrown, xs_results, xs_in>>
SetXml(d) == Between /\ xs_xml' = d /\ UNCHANGED <<xs_xsl, xs_do, xs_cb>> /\ XsFrame
SetXsl(d) == Between /\ xs_xsl' = d /\ UNCHANGED <<xs_xml, xs_do, xs_cb>> /\ XsFrame

(* The callbacks that the mapping does not name stay what they were. *)
SetSchemeCallbacks(names) ==
    /\ Between /\ xs_do' = (names # {}) /\ xs_cb' = xs_cb \cup names
    /\ UNCHANGED <<xs_xml, xs_xsl>> /\ XsFrame

-----------------------------------------------------------------------------
XsThrows == xs_thrown < XsMaxThrown /\ xs_thrown' = xs_thrown + 1

(* run(): a situation, then a processor for it, then the arguments. When   *)
(* there is no processor the situation is left behind.                     *)
RunFails ==
    /\ Between /\ xs_xml # Unset /\ xs_xsl # Unset /\ XsThrows
    /\ xs_live' \in {xs_live, xs_live + 1}
    /\ UNCHANGED <<xs_set, xs_err, xs_running, xs_results, xs_in>>
RunStarts ==
    /\ Between /\ xs_xml # Unset /\ xs_xsl # Unset
    /\ xs_running' = TRUE /\ xs_live' = xs_live + 2
    /\ xs_stack' = 0 /\ xs_bad' = FALSE /\ xs_closed' = 0 /\ xs_calls' = 0
    /\ UNCHANGED <<xs_set, xs_err, xs_thrown, xs_results, xs_buffer, xs_held>>

(* The library reports a problem: the message stays in THIS->err, also     *)
(* for the runs to come.                                                   *)
MhError ==
    /\ xs_running /\ xs_err' = TRUE
    /\ UNCHANGED <<xs_set, xs_running, xs_live, xs_thrown, xs_results, xs_in>>

(* Both objects are destroyed. The text of the result, which the library   *)
(* has allocated for the caller, is copied and never given back to it;     *)
(* without a result an error is thrown.                                    *)
DestroyedProcessor == xs_live - 1
Destroyed == xs_live - 2
RunReturns ==
    /\ xs_running /\ ~xs_held /\ xs_results < XsMaxResults
    /\ xs_running' = FALSE /\ xs_live' = Destroyed + 1 /\ xs_results' = xs_results + 1
    /\ UNCHANGED <<xs_set, xs_err, xs_thrown, xs_in>>
RunWithoutResult ==
    /\ xs_running /\ ~xs_held /\ XsThrows
    /\ xs_running' = FALSE /\ xs_live' = Destroyed
    /\ UNCHANGED <<xs_set, xs_err, xs_results, xs_in>>

(* An error that a callback throws goes through the library to the caller  *)
(* of run().                                                               *)
CallbackThrows ==
    /\ xs_running /\ xs_do /\ xs_cb # {} /\ XsThrows
    /\ xs_running' = FALSE /\ xs_held' = FALSE /\ xs_stack' = 0
    /\ UNCHANGED <<xs_set, xs_err, xs_live, xs_results, xs_buffer, xs_bad, xs_closed, xs_calls>>

-----------------------------------------------------------------------------
Call == xs_running /\ xs_do /\ xs_calls < XsMaxCalls /\ xs_calls' = xs_calls + 1
CallFrame == UNCHANGED <<xs_set, xs_err, xs_running, xs_live, xs_thrown, xs_results>>

(* sh_getAll(): without a callback nothing is done. The answer of the      *)
(* callback is popped once, one of a wrong type twice; the old buffer goes *)
(* and the library gets a new one in any case.                             *)
ShGetAll(wrong) ==
    /\ Call /\ CallFrame /\ "getAll" \in xs_cb /\ ~xs_held
    /\ xs_buffer' = "allocated" /\ xs_held' = TRUE
    /\ xs_stack' = IF wrong THEN xs_stack - 1 ELSE xs_stack
    /\ xs_bad' = (xs_bad \/ wrong)
    /\ UNCHANGED xs_closed

(* sh_freeMemory(): the buffer goes, with or without a callback. *)
ShFreeMemory ==
    /\ Call /\ CallFrame /\ xs_held
    /\ xs_buffer' = "none" /\ xs_held' = FALSE
    /\ UNCHANGED <<xs_stack, xs_bad, xs_closed>>

(* sh_open(), sh_put(), sh_get(): what the callback pushed is popped in    *)
(* every case. sh_close() does so only when it failed.                     *)
ShOpenPutGet(name) ==
    /\ Call /\ CallFrame /\ name \in xs_cb \cap {"open", "put", "get"}
    /\ UNCHANGED <<xs_buffer, xs_held, xs_stack, xs_bad, xs_closed>>
ShClosePopsNothing(ok) == xs_stack + 1
ShCloseLeaves(ok) == IF ok THEN xs_stack + 1 ELSE xs_stack
ShClose(ok) ==
    /\ Call /\ CallFrame /\ "close" \in xs_cb
    /\ xs_stack' = ShCloseLeaves(ok)
    /\ xs_closed' = IF ok THEN xs_closed + 1 ELSE xs_closed
    /\ UNCHANGED <<xs_buffer, xs_held, xs_bad>>

XsNext ==
    \/ \E d \in Documents : SetXml(d) \/ SetXsl(d)
    \/ \E names \in SUBSET CallbackNames : SetSchemeCallbacks(names)
    \/ RunFails \/ RunStarts \/ MhError \/ RunReturns \/ RunWithoutResult \/ CallbackThrows
    \/ \E wrong \in BOOLEAN : ShGetAll(wrong)
    \/ ShFreeMemory
    \/ \E name \in CallbackNames : ShOpenPutGet(name)
    \/ \E ok \in BOOLEAN : ShClose(ok)
XsSpec == XsInit /\ [][XsNext]_xs_vars

(* Between two runs the library holds for this object the text of every    *)
(* result it has given, and at most the situation and the processor of     *)
(* every run that threw an error; nothing is destroyed twice.              *)
XsLosses == ~xs_running => xs_live - xs_results \in 0 .. 2 * xs_thrown

(* The Pike stack under the callbacks: it grows by one value for each      *)
(* close() that succeeded, which leaves its answer there until run() is    *)
(* over, and by no other call; it shrinks below what run() started with    *)
(* only when a getAll() answered with a wrong type.                        *)
StackUnderCallbacks == xs_running /\ ~xs_bad => xs_stack = xs_closed
=============================================================================
