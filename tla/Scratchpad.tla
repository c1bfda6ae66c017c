----------------------------- MODULE Scratchpad -----------------------------
(***************************************************************************)
(* The buffer each thread of the C modules has for its intermediate        *)
(* results: scratchpad_get(n) gives a pointer to n bytes of it, growing it *)
(* when it is too small. The callers do not check the pointer: "it always  *)
(* returns a valid pointer".                                               *)
(***************************************************************************)
EXTENDS Naturals

CONSTANTS SpThreads, SpWanted,
          SpadInitSize, SpadMaxSize     \* SPAD_INIT_SIZE, SPAD_MAX_SIZE
ASSUME SpAssumption ==
    SpWanted \subseteq Nat /\ SpadInitSize \in Nat \ {0} /\ SpadMaxSize \in Nat \ {0}

(* Per thread: whether it has a pad, its buf_size, the bytes that buf has  *)
(* (0 for NULL), the size asked for by the last scratchpad_get() that      *)
(* returned, and whether one has thrown since.                             *)
VARIABLE sp_pad
NoPad == [there |-> FALSE, buf_size |-> 0, bytes |-> 0, given |-> 0, thrown |-> FALSE]
SpInit == sp_pad = [t \in SpThreads |-> NoPad]

SpMin(a, b) == IF a < b THEN a ELSE b
SpMax(a, b) == IF a < b THEN b ELSE a

(* scratchpad_init() and scratchpad_allocate() *)
SpAllocate(t, n) ==
    LET size == SpMax(n, SpadInitSize)
    IN  /\ ~sp_pad[t].there
        /\ sp_pad' = [sp_pad EXCEPT ![t] =
                         [there |-> TRUE, buf_size |-> SpMin(size, SpadMaxSize),
                          bytes |-> size, given |-> n, thrown |-> FALSE]]

Enough(t, n) ==
    /\ sp_pad[t].there /\ sp_pad[t].buf_size >= n
    /\ sp_pad' = [sp_pad EXCEPT ![t].given = n]

(* scratchpad_grow(): buf_size is doubled until it is enough ... *)
Doublings(s) ==
    {d \in 0 .. SpMax(s, SpadMaxSize) : \E k \in 0 .. SpadMaxSize : d = s * 2^k}
DoubledOnce(s, n) == {2 * s}
Doubled(s, n) == {d \in n .. SpadMaxSize : d < 2 * n /\ d \in Doublings(s)}
SpGrow(t, n) ==
    /\ sp_pad[t].there /\ sp_pad[t].buf_size < n
    /\ \E size \in Doubled(sp_pad[t].buf_size, n) :
          \/ sp_pad' = [sp_pad EXCEPT ![t].buf_size = size, ![t].bytes = size, ![t].given = n]
          \/ sp_pad' = [sp_pad EXCEPT ![t].buf_size = size, ![t].bytes = 0,
                                      ![t].thrown = TRUE]      \* out of memory
(* ... or would exceed the maximum. The doublings that were made are kept, *)
(* the buffer is the old one.                                              *)
SpTooLarge(t, n) ==
    LET s == sp_pad[t].buf_size
    IN  /\ sp_pad[t].there /\ s < n
        /\ \E d \in Doublings(s) :
              /\ d < n /\ 2 * d > SpadMaxSize
              /\ sp_pad' = [sp_pad EXCEPT ![t].buf_size = d, ![t].thrown = TRUE]

(* The end of a thread: scratchpad_destroy(). *)
SpDestroy(t) == sp_pad[t].there /\ sp_pad' = [sp_pad EXCEPT ![t] = NoPad]

SpNext ==
    \E t \in SpThreads :
        \/ \E n \in SpWanted : SpAllocate(t, n) \/ Enough(t, n) \/ SpGrow(t, n) \/ SpTooLarge(t, n)
        \/ SpDestroy(t)
SpSpec == SpInit /\ [][SpNext]_sp_pad

(* "it always returns a valid pointer": the buffer that scratchpad_get()   *)
(* returned is as large as was asked for. It is not always so in a thread  *)
(* in which a call has thrown, see the README.                             *)
PointerIsValid ==
    \A t \in SpThreads : ~sp_pad[t].thrown => sp_pad[t].given <= sp_pad[t].bytes

(* Why: a thread in which nothing was thrown has at least the buf_size     *)
(* bytes that Enough compares with.                                        *)
SpTypeOK == sp_pad \in [SpThreads -> [there : BOOLEAN, buf_size : Nat, bytes : Nat,
                                      given : Nat, thrown : BOOLEAN]]
PadInv ==
    /\ SpTypeOK
    /\ \A t \in SpThreads : ~sp_pad[t].thrown =>
          sp_pad[t].buf_size <= sp_pad[t].bytes /\ sp_pad[t].given <= sp_pad[t].bytes
=============================================================================
