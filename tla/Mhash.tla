------------------------------- MODULE Mhash -------------------------------
(***************************************************************************)
(* The objects Mhash.Hash and Mhash.HMAC: the state their storage goes     *)
(* through when the methods are called in any order. A pointer is a set of *)
(* at most one element, {} for NULL; what is behind it is the type, the    *)
(* key and the data of a context of the mhash library, or of the digest    *)
(* that it ended with. A call that throws before it changed anything is a  *)
(* stuttering step.                                                        *)
(***************************************************************************)
EXTENDS Naturals, Sequences

CONSTANTS HashTypes,   \* the types the library knows
          HmacTypes,   \* those of them that have an HMAC block size
          OtherTypes,  \* numbers that are no type
          Keys, Data,
          MaxFed       \* bound on the data of one digest
ASSUME MhashAssumption == HmacTypes \subseteq HashTypes /\ MaxFed \in Nat

NoType == "no type"
NoKey == "no key"
NoData == "not a string"

VARIABLES mh_class,   \* "Hash" or "HMAC"
          mh_obj,     \* the mhash_storage
          mh_fed,     \* history: the data fed since the object was last started
          mh_plain    \* history: create(type) started the HMAC context
mh_vars == <<mh_class, mh_obj, mh_fed, mh_plain>>

InitHashStorage == [hash |-> {}, hmac |-> {}, type |-> NoType, res |-> {}, pw |-> NoKey]
MhashInit ==
    /\ mh_class \in {"Hash", "HMAC"} /\ mh_obj = InitHashStorage
    /\ mh_fed = <<>> /\ mh_plain = FALSE

(* The library: a context for a type it knows, and data for a context. *)
LibInit(t, key) == IF t \in HashTypes THEN {[type |-> t, key |-> key, data |-> <<>>]} ELSE {}
LibFeed(c, d) == {[x EXCEPT !.data = Append(@, d)] : x \in c}

FreeContext(o) == [o EXCEPT !.hash = {}, !.hmac = {}]
FreeHash(o) == [o EXCEPT !.hash = {}, !.hmac = {}, !.res = {}]

(* The object goes on from o with the data fed so far. *)
Go(o, fed, plain) ==
    /\ mh_obj' = o /\ mh_fed' = fed /\ mh_plain' = plain /\ UNCHANGED mh_class
Fed(d, before) == IF d = NoData THEN before ELSE Append(before, d)

-----------------------------------------------------------------------------
Hash == mh_class = "Hash"

StartHash(o) == IF o.type = NoType THEN o ELSE [o EXCEPT !.hash = LibInit(o.type, NoKey)]

HashCreate(t) ==
    /\ Hash /\ mh_obj.type = NoType /\ mh_obj.hash = {} /\ mh_obj.res = {}
    /\ Go(StartHash([mh_obj EXCEPT !.type = t]), <<>>, FALSE)

(* feed(): an object without a context starts a new one, and forgets a     *)
(* digest, before the argument is looked at.                               *)
HashFeed(d) ==
    LET o == IF mh_obj.hash = {} THEN StartHash(FreeHash(mh_obj)) ELSE mh_obj
        before == IF mh_obj.hash = {} THEN <<>> ELSE mh_fed
    IN  /\ Hash /\ mh_obj.type # NoType /\ Len(before) < MaxFed
        /\ IF d = NoData THEN Go(o, before, FALSE)
           ELSE Go([o EXCEPT !.hash = LibFeed(@, d)], Fed(d, before), FALSE)

HashDigest ==
    /\ Hash /\ mh_obj.res = {} /\ mh_obj.hash # {}
    /\ Go([mh_obj EXCEPT !.res = mh_obj.hash, !.hash = {}], mh_fed, FALSE)

HashReset == Hash /\ Go(StartHash(FreeHash(mh_obj)), <<>>, FALSE)

HashSetType(t) ==
    Hash /\ Go(StartHash(FreeHash([mh_obj EXCEPT !.type = t])), <<>>, FALSE)

-----------------------------------------------------------------------------
Hmac == mh_class = "HMAC"

InitHmacUnkeyed(o) ==
    IF o.hmac # {} THEN "LIVE" ELSE IF o.type = NoType THEN "TYPE"
    ELSE IF o.res # {} THEN "DONE" ELSE IF o.type \in HashTypes THEN "OK" ELSE "FAIL"
(* init_hmac(): what it returns, and the object behind it. *)
InitHmac(o) ==
    IF o.hmac # {} THEN "LIVE" ELSE IF o.type = NoType THEN "TYPE"
    ELSE IF o.pw = NoKey THEN "PASS" ELSE IF o.res # {} THEN "DONE"
    ELSE IF o.type \in HashTypes THEN "OK" ELSE "FAIL"
StartHmac(o) ==
    IF InitHmac(o) = "OK" THEN [o EXCEPT !.hmac = LibInit(o.type, o.pw)] ELSE o

(* create(type) starts the context of a plain hash. *)
HmacCreate(t) ==
    /\ Hmac /\ mh_obj.type = NoType /\ mh_obj.hmac = {} /\ mh_obj.res = {}
    /\ Go([mh_obj EXCEPT !.type = t, !.hmac = LibInit(t, NoKey)], <<>>, TRUE)

(* set_key(): while a context is live the call throws, the key stays. *)
HmacSetKey(k) ==
    LET o == [mh_obj EXCEPT !.pw = k]
    IN  /\ Hmac
        /\ IF InitHmac(o) = "OK" THEN Go(StartHmac(o), <<>>, FALSE)
           ELSE Go(o, mh_fed, mh_plain)

HmacFeed(d) ==
    LET code == InitHmac(mh_obj)
        o == StartHmac(IF code = "DONE" THEN FreeHash(mh_obj) ELSE mh_obj)
        before == IF code = "LIVE" THEN mh_fed ELSE <<>>
        plain == mh_plain /\ code = "LIVE"
    IN  /\ Hmac /\ code \in {"DONE", "OK", "LIVE"} /\ Len(before) < MaxFed
        /\ IF d = NoData THEN Go(o, before, plain)
           ELSE Go([o EXCEPT !.hmac = LibFeed(@, d)], Fed(d, before), plain)

HmacDigest ==
    /\ Hmac /\ mh_obj.res = {} /\ mh_obj.hmac # {}
    /\ Go([mh_obj EXCEPT !.res = mh_obj.hmac, !.hmac = {}], mh_fed, mh_plain)

HmacResetLive == Hmac /\ Go(StartHmac(mh_obj), <<>>, FALSE)
HmacReset == Hmac /\ Go(StartHmac(FreeHash(mh_obj)), <<>>, FALSE)

HmacSetType(t) ==
    Hmac /\ t \in HmacTypes /\ Go(StartHmac(FreeHash([mh_obj EXCEPT !.type = t])), <<>>, FALSE)

-----------------------------------------------------------------------------
Types == HashTypes \cup OtherTypes
MhashNext ==
    \/ \E t \in Types : HashCreate(t) \/ HmacCreate(t)
    \/ \E t \in Types \cup {NoType} : HashSetType(t) \/ HmacSetType(t)
    \/ \E d \in Data \cup {NoData} : HashFeed(d) \/ HmacFeed(d)
    \/ \E k \in Keys : HmacSetKey(k)
    \/ HashDigest \/ HmacDigest \/ HashReset \/ HmacReset
MhashSpec == MhashInit /\ [][MhashNext]_mh_vars

(* "Clean up the current hash context and start from the beginning": what  *)
(* digest() returns, now or again, is the digest of exactly the data fed   *)
(* since the object was started last, by reset(), set_type(), or a feed()  *)
(* behind a digest(); it has the type that is set, whose length digest()   *)
(* copies; and that of an HMAC object is made with a key, unless the       *)
(* context is the plain one that create(type) starts. There is never a     *)
(* digest and a context for another one.                                   *)
DigestOfTheData ==
    /\ \A x \in mh_obj.hash \cup mh_obj.hmac \cup mh_obj.res :
          /\ x.data = mh_fed /\ x.type = mh_obj.type
          /\ Hmac /\ x.key = NoKey => mh_plain
    /\ mh_obj.res = {} \/ mh_obj.hash \cup mh_obj.hmac = {}
=============================================================================
