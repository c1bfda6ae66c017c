------------------------------- MODULE MCText -------------------------------
(* The request parser on small requests, cut into pieces in every way. *)
EXTENDS ParseHTTP, EntParse

G == 71
x == 97
X == 65
RequestLines == {<<G, SP, SLASH, x, SP, G>>,
                 <<G, SP, PCT, 52, 49, QM, x, PCT, SP, G>>,
                 <<G, SP, SLASH, PCT, SP>>,
                 <<G, SP, SLASH>>, <<>>,
                 <<G, SP, SLASH, SP, G, SP, x>>}
HeaderLine == {<<>>, <<X, COLON, SP, x>>, <<x, COLON, X, COLON>>, <<X, x, COLON>>, <<x>>}
LineEnd == {<<LF>>, <<CR, LF>>, <<CR, CR, LF>>}
MCStreams ==
    {r \o e \o (IF h1 = <<>> THEN <<>> ELSE h1 \o e)
        \o (IF h2 = <<>> THEN <<>> ELSE h2 \o e) \o e \o b :
        r \in RequestLines, e \in LineEnd, h1 \in HeaderLine, h2 \in HeaderLine,
        b \in {<<>>, <<LF, x>>}}

(* The text functions, on every word over one of the alphabets, up to a    *)
(* length.                                                                 *)
CONSTANT WordLength
VARIABLES alphabet, word

Alphabet ==
    [query |-> {<<x>>, <<EQ>>, <<AMP>>, <<SEMI>>, <<PCT, 52, 49>>},
     code |-> {<<x>>, <<PCT>>, <<PLUS>>, <<EQ>>, <<SP>>, <<200>>, <<NUL>>},
     block |-> {<<x>>, <<X>>, <<COLON>>, <<SP>>, <<CR, LF>>},
     prestate |-> {<<x>>, <<105>>, <<COMMA>>, <<RPAR>>, <<SLASH>>},
     address |-> {<<x>>, <<SP>>},
     file |-> {<<x>>, <<DOT>>, <<126>>},
     entity |-> {<<x>>, <<AMP>>, <<SEMI>>, <<DOT>>},
     markup |-> {<<x>>, <<QUOTE>>, <<LT>>, <<AMP>>, <<SLASH>>, <<BACKSLASH>>, <<48>>}]

Words == alphabet # "none"
MCInit ==
    /\ Init /\ word = <<>>
    /\ \/ alphabet = "none"
       \/ alphabet \in DOMAIN Alphabet /\ stream = CHOOSE s \in Streams : TRUE
Extend ==
    /\ Words
    /\ \E token \in Alphabet[alphabet] :
          Len(word) < WordLength[alphabet] /\ word' = word \o token
    /\ UNCHANGED <<vars, alphabet>>
MCNext == Extend \/ (~Words /\ Next /\ UNCHANGED <<alphabet, word>>)
MCSpec == MCInit /\ [][MCNext]_<<vars, alphabet, word>>

MCScopes == (<<x>> :> ((<<>> :> <<50, 51, 52, 53, 54, 55>>) @@ (<<x>> :> <<>>)))
MCWordLength == [query |-> 7, code |-> 4, block |-> 7, prestate |-> 5, address |-> 9,
                 file |-> 6, entity |-> 7, markup |-> 4]

On(a) == alphabet = a
(* Parameters of a query string, see QueryByParameter and QueryComplete. *)
QueryByParameterOK == On("query") => QueryByParameter(word)
QueryCompleteOK == On("query") => QueryComplete(word)

(* The two buffers that are filled by a rule of their own, the one of      *)
(* f_buf_append() with the NUL it writes behind the last byte, and the one *)
(* of ent_parser() that grows while it is filled, are never overrun, the   *)
(* latter as long as the array an entity is collected in is not.           *)
BuffersHold == RoomForTheNul /\ (On("entity") => OutputFits(word))

(* An entity is never longer than ENT_MAX_ENTSIZE, see EntitySizeKept.     *)
EntitySizeOK == On("entity") => EntitySizeKept(word)

(* What one function writes another one, or the documented form, reads     *)
(* back: the four encoders and the two decoders, the two header parsers,   *)
(* prestates, address and port, the extension of a backup copy, the        *)
(* attributes of a tag, and entities in a text.                            *)
TextComesBack ==
    /\ On("code") => EncodingComesBack(word)
    /\ On("block") => HeaderParsersAgree(word)
    /\ On("prestate") => PrestatesComeOff(word)
    /\ On("address") => AddressAndPort(word)
    /\ On("file") => BackupHasExtension(word)
    /\ On("markup") => AttributesStayApart(word)
    /\ On("entity") => EntitiesReplaced(word)
=============================================================================
