-------------------------------- MODULE PCRE --------------------------------
(***************************************************************************)
(* The object PCRE.Regexp: create(), match() and split() in any order,     *)
(* with the memory they take from the PCRE library. The library (external) *)
(* decides whether a pattern compiles and what pcre_exec() returns.        *)
(***************************************************************************)
EXTENDS Naturals

CONSTANTS Patterns, MaxThrown,   \* bound on the calls that throw
          MaxTables              \* bound on the tables that are made
ASSUME PcreAssumption == MaxThrown \in Nat /\ MaxTables \in Nat
NoPattern == "no pattern"

VARIABLES pc_regexp,  \* the pattern whose compiled form the object holds
          pc_asked,   \* history: the pattern of the last create()
          pc_answer,  \* history: what the last match() or split() gave
          pc_live,    \* blocks of the library and of split() not freed
          pc_thrown,  \* history: calls that threw an error
          pc_tables   \* history: calls that made tables
pc_vars == <<pc_regexp, pc_asked, pc_answer, pc_live, pc_thrown, pc_tables>>

PcreInit ==
    /\ pc_regexp = NoPattern /\ pc_asked = NoPattern /\ pc_answer = "none"
    /\ pc_live = 0 /\ pc_thrown = 0 /\ pc_tables = 0

(* A compiled pattern with its study data counts as one block. *)
Held(p) == IF p = NoPattern THEN 0 ELSE 1
Throw == pc_thrown < MaxThrown /\ pc_thrown' = pc_thrown + 1

(* The object's pattern goes, and n blocks come. *)
FreeNothing(n) == pc_live' = pc_live + n /\ pc_regexp' = pc_regexp
FreeRegexp(n) == pc_live' = pc_live - Held(pc_regexp) + n /\ pc_regexp' = NoPattern

(* In a locale other than "C", the process's own, character tables are     *)
(* made for every pattern that is to be compiled; nobody frees them.       *)
MakesTables(n) ==
    n \in {0, 1} /\ pc_tables + n <= MaxTables /\ pc_tables' = pc_tables + n

(* create(): the old pattern goes before the arguments are looked at;      *)
(* without any there is no new one. A pattern that does not compile leaves *)
(* nothing but its tables; one that cannot be studied leaves its compiled  *)
(* form to nobody.                                                         *)
PcreCreate(p, n) ==
    /\ MakesTables(n) /\ (p = NoPattern => n = 0)
    /\ pc_asked' = p /\ pc_answer' = "none" /\ UNCHANGED pc_thrown
    /\ pc_live' = pc_live - Held(pc_regexp) + Held(p) + n /\ pc_regexp' = p
PcreCreateFails(p, n) ==
    /\ MakesTables(n) /\ (p = NoPattern => n = 0)
    /\ Throw /\ FreeRegexp(n) /\ pc_asked' = p /\ pc_answer' = "none"
PcreStudyFails(p, n) ==
    /\ MakesTables(n) /\ p # NoPattern
    /\ Throw /\ FreeRegexp(n + 1) /\ pc_asked' = p /\ pc_answer' = "none"

Ready == pc_regexp # NoPattern
Errors == {"NULL", "BADOPTION", "BADMAGIC", "UNKNOWN_NODE", "NOMEMORY"}

(* pcre_exec() returns no match, a match, or an error; an error that       *)
(* match() does not list counts as a match.                                *)
PcreMatch(r) ==
    /\ Ready /\ r \in {"nomatch", "match", "other error"}
    /\ pc_answer' = IF r = "nomatch" THEN "0" ELSE "1"
    /\ UNCHANGED <<pc_regexp, pc_asked, pc_live, pc_thrown, pc_tables>>

(* split(): the vector is freed unless an error is thrown. *)
SplitKeepsVector == pc_live + 1
SplitVector == pc_live
PcreSplit(r) ==
    /\ Ready /\ r \in {"nomatch", "match"}
    /\ pc_answer' = IF r = "nomatch" THEN "0" ELSE "array"
    /\ pc_live' = SplitVector
    /\ UNCHANGED <<pc_regexp, pc_asked, pc_thrown, pc_tables>>

(* split() takes an error that it does not list for a number of matches,   *)
(* and aggregates that number less one of values, a negative one: what     *)
(* Pike does then is undefined, and the model ends here.                   *)
Undefined == "undefined"
PcreSplitUndefined ==
    /\ Ready /\ pc_answer' = Undefined
    /\ UNCHANGED <<pc_regexp, pc_asked, pc_live, pc_thrown, pc_tables>>

(* Bad options or one of the errors of pcre_exec(). *)
PcreMatchFails ==
    /\ Ready /\ Throw /\ pc_answer' = "none"
    /\ UNCHANGED <<pc_regexp, pc_asked, pc_live, pc_tables>>
PcreSplitFails(r) ==
    /\ Ready /\ Throw /\ pc_answer' = "none" /\ UNCHANGED <<pc_regexp, pc_asked, pc_tables>>
    /\ r \in Errors \cup {"bad option"}
    /\ pc_live' = IF r \in Errors THEN pc_live + 1 ELSE pc_live

PcreNext ==
    /\ pc_answer # Undefined
    /\ \/ \E p \in Patterns \cup {NoPattern}, n \in {0, 1} :
             PcreCreate(p, n) \/ PcreCreateFails(p, n) \/ PcreStudyFails(p, n)
       \/ \E r \in {"nomatch", "match", "other error"} : PcreMatch(r) \/ PcreSplit(r)
       \/ \E r \in Errors \cup {"bad option"} : PcreSplitFails(r)
       \/ PcreSplitUndefined \/ PcreMatchFails
PcreSpec == PcreInit /\ [][PcreNext]_pc_vars

(* An answer comes from the pattern of the last create(): one that failed  *)
(* leaves no older pattern behind to match with.                           *)
NoStalePattern ==
    /\ pc_regexp \in {pc_asked, NoPattern}
    /\ pc_answer # "none" => pc_regexp = pc_asked

(* What the object loses of the library's memory: the tables, one for each *)
(* pattern of a locale other than "C", and at most one block for each call *)
(* that threw; nothing else, and nothing is freed twice.                   *)
PcreLosses == pc_live - Held(pc_regexp) - pc_tables \in 0 .. pc_thrown
=============================================================================
