------------------------------ MODULE EntParse ------------------------------
(***************************************************************************)
(* The entity parser behind _Caudium.parse_entities(): "&scope.name;" is   *)
(* replaced by what the scope's get() returns, and left as it is when the  *)
(* scope is unknown or get() returns 0. One step of the parser is one turn *)
(* of its loop.                                                            *)
(***************************************************************************)
EXTENDS Bytes

CONSTANTS Scopes,        \* Scopes[name][part]: what get(part) of a scope returns
          EntMaxEntsize, \* ENT_MAX_ENTSIZE
          EntMaxRetbufsize

ASSUME EntAssumption ==
    /\ EntMaxEntsize \in Nat /\ EntMaxRetbufsize \in Nat
    /\ \A scope \in DOMAIN Scopes : \A part \in DOMAIN Scopes[scope] :
          Scopes[scope][part] \in Seq(Byte)

(* entity_callback(): get() is called with the parts as a C string, that   *)
(* is, with the first of them. <<>> is no result, <<v>> the result v.      *)
EntityCallback(name, parts) ==
    LET scope == CString(name)
        part == CString(parts)
    IN  IF scope \in DOMAIN Scopes /\ part \in DOMAIN Scopes[scope]
        THEN <<Scopes[scope][part]>> ELSE <<>>

Ok == "ENT_ERR_OK"
OpenEntity == "ENT_ERR_OPENENTITY"
EntNameLong == "ENT_ERR_ENTNAMELONG"
InvalidName == "ENT_ERR_INVALIDNAME"
RetbufTooLong == "ENT_ERR_RETBUFTOOLONG"
(* No code of the parser: it has written behind the end of entfullname, and *)
(* what it does from there is undefined.                                   *)
Overrun == "overrun"

EntStart(s) ==
    [tmp |-> 1, curpos |-> 0, in_entity |-> FALSE, name |-> <<>>, parts |-> <<>>,
     full |-> <<>>, out |-> <<>>, cap |-> Len(s) + Len(s) \div 3, err |-> Ok]

At(s, p) == IF p <= Len(s) THEN s[p] ELSE NUL

(* append_data: room for what is there twice over, the result and two more *)
(* bytes, or the buffer grows; then text is put behind what is there.      *)
GrownNever(st, n) == st.cap
Grown(st, n) ==
    LET tmplen == Len(st.out) + n + 2
    IN  IF Len(st.out) + tmplen >= st.cap THEN st.cap + 2 * tmplen ELSE st.cap
AppendData(st, n, text) ==
    IF Grown(st, n) # st.cap /\ Grown(st, n) >= EntMaxRetbufsize
    THEN [st EXCEPT !.err = RetbufTooLong, !.cap = Grown(st, n)]
    ELSE [st EXCEPT !.out = @ \o text, !.cap = Grown(st, n), !.curpos = @ + 1]

(* A byte that is part of no entity. *)
Plain(s, st) == AppendData([st EXCEPT !.tmp = @ + 1], 0, <<At(s, st.tmp)>>)

(* "&&" stands for "&"; any other "&" starts an entity, whatever came      *)
(* before it.                                                              *)
Ampersand(s, st) ==
    IF At(s, st.tmp + 1) = AMP
    THEN Plain(s, [st EXCEPT !.tmp = @ + 1, !.curpos = @ + 1])
    ELSE [st EXCEPT !.tmp = @ + 1, !.curpos = @ + 1, !.in_entity = TRUE,
                    !.name = <<>>, !.parts = <<>>, !.full = <<>>]

(* Mutant of Semicolon: an entity without a value loses its marks.         *)
SemicolonStripping(s, st) ==
    LET res == EntityCallback(st.name, st.parts)
        next == [st EXCEPT !.tmp = @ + 1, !.in_entity = FALSE]
    IN  IF ~st.in_entity THEN Plain(s, st)
        ELSE AppendData(next, Len(st.full), IF res = <<>> THEN st.full ELSE res[1])

(* The end of an entity. The empty entity "&;" without a result is taken   *)
(* for a plain byte, and the one behind it is copied in its place.         *)
Semicolon(s, st) ==
    LET res == EntityCallback(st.name, st.parts)
        next == [st EXCEPT !.tmp = @ + 1, !.in_entity = FALSE]
    IN  IF ~st.in_entity THEN Plain(s, st)
        ELSE IF res # <<>> THEN AppendData(next, Len(res[1]), res[1])
        ELSE IF st.full = <<>> THEN Plain(s, next)
        ELSE AppendData(next, Len(st.full), <<AMP>> \o st.full \o <<SEMI>>)

(* The first dot takes the byte behind it into the parts, whatever it is;  *)
(* a later one divides the parts. Neither looks whether entfullname, of    *)
(* EntMaxEntsize + 1 bytes, has room; entparts is never the fuller one.    *)
Dot(s, st) ==
    IF ~st.in_entity THEN Plain(s, st)
    ELSE IF st.name = <<>> THEN [st EXCEPT !.err = InvalidName]
    ELSE IF Len(st.full) + (IF st.parts # <<>> THEN 1 ELSE 2) > EntMaxEntsize + 1
         THEN [st EXCEPT !.err = Overrun]
    ELSE IF st.parts # <<>>
         THEN [st EXCEPT !.tmp = @ + 1, !.curpos = @ + 1,
                         !.full = Append(@, DOT), !.parts = Append(@, NUL)]
    ELSE [st EXCEPT !.tmp = @ + 2, !.curpos = @ + 2,
                    !.full = @ \o <<DOT, At(s, st.tmp + 1)>>,
                    !.parts = <<At(s, st.tmp + 1)>>]

Other(s, st) ==
    IF ~st.in_entity THEN Plain(s, st)
    ELSE IF Len(st.full) >= EntMaxEntsize THEN [st EXCEPT !.err = EntNameLong]
    ELSE LET c == At(s, st.tmp)
         IN  [st EXCEPT !.tmp = @ + 1, !.curpos = @ + 1, !.full = Append(@, c),
                        !.name = IF st.parts = <<>> THEN Append(@, c) ELSE @,
                        !.parts = IF st.parts = <<>> THEN @ ELSE Append(@, c)]

EntStep(s, st) ==
    IF st.err # Ok \/ st.curpos >= Len(s) THEN st
    ELSE CASE At(s, st.tmp) = AMP -> Ampersand(s, st)
           [] At(s, st.tmp) = SEMI -> Semicolon(s, st)
           [] At(s, st.tmp) = DOT -> Dot(s, st)
           [] OTHER -> Other(s, st)

(* ent_parser(): every turn moves curpos on, so Len(s) turns are enough.   *)
(* For parse_entities() an entity left open or too long is no error: it    *)
(* returns what was put together so far.                                   *)
EntParser(s) ==
    LET T[k \in 0 .. Len(s)] == IF k = 0 THEN EntStart(s) ELSE EntStep(s, T[k - 1])
        st == T[Len(s)]
    IN  IF st.err = Ok /\ st.in_entity THEN [st EXCEPT !.err = OpenEntity] ELSE st

-----------------------------------------------------------------------------
(* An entity of the documented form, and text that has no other "&".       *)
EntityEnd(s, p) == FirstOf(s, p, {SEMI})
IsEntity(e) ==
    LET names == Split(e, {DOT})
    IN  \A k \in DOMAIN names : names[k] # <<>> /\ AMP \notin Bytes(names[k])
Documented(s) ==
    \A p \in DOMAIN s : s[p] = AMP =>
        /\ EntityEnd(s, p) <= Len(s) /\ EntityEnd(s, p) - p - 1 <= EntMaxEntsize
        /\ IsEntity(SubSeq(s, p + 1, EntityEnd(s, p) - 1))
ValueOfEntity(e) ==
    LET names == Split(e, {DOT})
        v == EntityCallback(names[1], IF Len(names) = 1 THEN <<>> ELSE names[2])
    IN  IF v = <<>> THEN <<AMP>> \o e \o <<SEMI>> ELSE v[1]
Replaced(s) ==
    LET R[p \in 1 .. Len(s) + 1] ==
            IF p > Len(s) THEN <<>>
            ELSE IF s[p] # AMP THEN <<s[p]>> \o R[p + 1]
            ELSE ValueOfEntity(SubSeq(s, p + 1, EntityEnd(s, p) - 1)) \o R[EntityEnd(s, p) + 1]
    IN  R[1]

(* Text whose every "&" begins an entity of the documented form comes out  *)
(* with each entity replaced, unknown ones and all other bytes exactly as  *)
(* they were, and nothing lost at the end.                                 *)
EntitiesReplaced(w) ==
    LET r == EntParser(w)
    IN  Documented(w) /\ r.err # RetbufTooLong => r.err = Ok /\ r.out = Replaced(w)

(* Whatever the text, the parser never writes behind the end of its output *)
(* buffer, which it makes larger by a rule of its own, as long as it has   *)
(* not written behind the end of entfullname, the array it collects an     *)
(* entity in.                                                              *)
OutputFits(w) ==
    \A k \in 0 .. Len(w) :
        LET r == EntParser(SubSeq(w, 1, k)) IN r.err # Overrun => Len(r.out) <= r.cap

(* "the maximum size of the entity name (excluding the & and the ; chars)" *)
(* (entparse.h:98): a longer entity is ENT_ERR_ENTNAMELONG before it is    *)
(* longer than the array it is collected in.                               *)
EntitySizeKept(w) == EntParser(w).err # Overrun
=============================================================================
