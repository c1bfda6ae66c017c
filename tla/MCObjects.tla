----------------------------- MODULE MCObjects -----------------------------
(* The objects that share nothing, one after the other: a behaviour is one *)
(* of the object that "which" names.                                       *)
EXTENDS Mhash, PCRE, PiXSL, Scratchpad, SQLFS, TLC

ReaderSymmetry == Permutations(Readers)

VARIABLE which
all == <<mh_vars, pc_vars, xs_vars, sp_pad, sq_vars, which>>

MCInit ==
    /\ which \in {"mhash", "pcre", "pixsl", "scratchpad", "cache", "stdio"}
    /\ MhashInit /\ PcreInit /\ XsInit /\ SpInit /\ SqlfsInit
    /\ which # "mhash" => mh_class = "Hash"
    /\ which # "cache" => sq_ttl = 0 /\ \A p \in Paths : sq_db[p] = 0

MhashOnly == which = "mhash" /\ MhashNext
             /\ UNCHANGED <<pc_vars, xs_vars, sp_pad, sq_vars, which>>
PcreOnly == which = "pcre" /\ PcreNext
            /\ UNCHANGED <<mh_vars, xs_vars, sp_pad, sq_vars, which>>
PiXSLOnly == which = "pixsl" /\ XsNext
             /\ UNCHANGED <<mh_vars, pc_vars, sp_pad, sq_vars, which>>
ScratchpadOnly == which = "scratchpad" /\ SpNext
                  /\ UNCHANGED <<mh_vars, pc_vars, xs_vars, sq_vars, which>>
CacheOnly == which = "cache" /\ CacheNext
             /\ UNCHANGED <<mh_vars, pc_vars, xs_vars, sp_pad, which>>
StdioOnly == which = "stdio" /\ ShNext
             /\ UNCHANGED <<mh_vars, pc_vars, xs_vars, sp_pad, which>>
MCNext == MhashOnly \/ PcreOnly \/ PiXSLOnly \/ ScratchpadOnly \/ CacheOnly \/ StdioOnly
MCSpec == MCInit /\ [][MCNext]_all

(* An object that is used again answers from its last start: a digest is   *)
(* that of the data fed since, a match that of the pattern created last.   *)
NoStaleAnswer == DigestOfTheData /\ NoStalePattern

(* What the bindings lose of their libraries' memory is known: for PCRE    *)
(* the tables of other locales than "C" and a block for each call that     *)
(* threw, for Sablotron each result and what a run that threw had made.    *)
(* And of the callbacks only close() leaves a value on the Pike stack.     *)
LossesKnown == PcreLosses /\ XsLosses /\ StackUnderCallbacks
=============================================================================
