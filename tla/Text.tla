-------------------------------- MODULE Text --------------------------------
(***************************************************************************)
(* The text functions of _Caudium that every request goes through: URL     *)
(* decoding and encoding, query strings, prestates, header blocks,         *)
(* addresses, file extensions and tag attributes. Each is an operator over *)
(* byte strings, and is compared with what it should compute.              *)
(***************************************************************************)
EXTENDS Bytes, TLC

(* url_decode(str, len, 0, simple): a "%" without two bytes behind it is   *)
(* kept (simple # 0) or ends the text with a NUL, "+" is a space unless    *)
(* simple = 1. With exist the result begins with a NUL.                    *)
UrlDecode(s, simple) ==
    LET D[p \in 1 .. Len(s) + 3] ==
            IF p > Len(s) THEN <<>>
            ELSE IF s[p] = PCT /\ p + 2 <= Len(s) THEN <<Escaped(s, p)>> \o D[p + 3]
            ELSE IF s[p] = PCT /\ simple = 0 THEN <<NUL>>
            ELSE IF s[p] = PLUS /\ simple # 1 THEN <<SP>> \o D[p + 1]
            ELSE <<s[p]>> \o D[p + 1]
    IN  D[1]

HttpDecode(s) == UrlDecode(s, 1)
HttpDecodeUrl(s) == UrlDecode(s, 2)

-----------------------------------------------------------------------------
(* The bytes each of the encoders leaves alone. *)
Alnum == {c \in Byte : IsDigit(c) \/ IsUpper(c) \/ IsLower(c)}
IsSafe == Alnum
IsHttpSafe == Byte \ {0, 32, 9, 10, 13, 37, 39, 34, 60, 62, 64}
IsCookieSafePct == Byte \ {61, 44, 59, 58}
IsCookieSafe == Byte \ {61, 44, 59, 37, 58}
IsUrlSafe == Alnum \cup {38, 63, 61, 47, 58, 59, 36, 44, 46, 43, 64}

HexChar(n) == IF n < 10 THEN 48 + n ELSE 55 + n

(* do_encode_stuff(): when every byte before the first NUL is safe the     *)
(* string itself is returned, otherwise what comes before the first NUL,   *)
(* encoded.                                                                *)
DoEncodeStuff(s, safe) ==
    LET c == CString(s)
        E(b) == IF b \in safe THEN <<b>> ELSE <<PCT, HexChar(b \div 16), HexChar(b % 16)>>
    IN  IF Bytes(c) \subseteq safe THEN s ELSE Join([i \in DOMAIN c |-> E(c[i])], <<>>)

HttpEncode(s) == DoEncodeStuff(s, IsSafe)
HttpEncodeString(s) == DoEncodeStuff(s, IsHttpSafe)
HttpEncodeCookie(s) == DoEncodeStuff(s, IsCookieSafe)
HttpEncodeUrl(s) == DoEncodeStuff(s, IsUrlSafe)

(* Text that goes through an encoder and comes back through http_decode()  *)
(* is unchanged, for each of the four ideas of which bytes are safe; and   *)
(* http_decode_url() undoes http_encode() and http_encode_string() when    *)
(* these leave no plus sign. A NUL ends what the encoders look at, so text *)
(* with one is not meant.                                                  *)
EncodingComesBack(w) ==
    NUL \notin Bytes(w) =>
        /\ \A e \in {HttpEncode(w), HttpEncodeString(w), HttpEncodeCookie(w), HttpEncodeUrl(w)} :
              HttpDecode(e) = w
        /\ HttpDecodeUrl(HttpEncode(w)) = w
        /\ PLUS \notin Bytes(w) => HttpDecodeUrl(HttpEncodeString(w)) = w

-----------------------------------------------------------------------------
(* parse_query_string(): the parameters in the order in which the loop     *)
(* stores them. ptr, name and equal are its pointers, equal 0 for NULL. A  *)
(* parameter that begins with "&" moves ptr on by two and leaves name.     *)
IgnoredAt(q, name) == name > Len(q) \/ q[name] \in {NUL, AMP}
LastEqual(equal, ptr) == ptr
FirstEqual(equal, ptr) == IF equal = 0 THEN ptr ELSE equal

Parameters(q) ==
    LET n == Len(q)
        Ends(p) == p = n + 1 \/ q[p] \in {SEMI, AMP}
        Start(p) == LET s == {i \in 1 .. p - 1 : q[i] \in {SEMI, AMP}}
                    IN  IF s = {} THEN 1 ELSE Max(s) + 1
        P[ptr \in 1 .. n + 3] ==
            [name \in 1 .. n + 2 |-> [equal \in 0 .. n |->
                IF ptr > n + 1 THEN <<>>
                ELSE IF ~Ends(ptr)
                     THEN P[ptr + 1][name][IF q[ptr] = EQ THEN FirstEqual(equal, ptr) ELSE equal]
                ELSE IF IgnoredAt(q, name) \/ (equal = 0 /\ ptr = 1)
                     THEN P[ptr + 2][name][equal]
                ELSE <<IF equal = 0 THEN [name |-> SubSeq(q, Start(ptr), ptr - 1), value |-> <<>>]
                       ELSE [name |-> SubSeq(q, name, equal - 1),
                             value |-> SubSeq(q, equal + 1, ptr - 1)]>>
                     \o P[ptr + 1][ptr + 1][0]]]
    IN  P[1][1][0]

(* What the loops over name/value pairs make of them, those at the         *)
(* positions in at: a name that occurs again has the new value added to    *)
(* the one before, behind a separator.                                     *)
AddedLast(m, p, sep) == p.value
Added(m, p, sep) == IF p.name \in DOMAIN m THEN m[p.name] \o sep \o p.value ELSE p.value
Joined(pairs, at, sep) ==
    LET J[k \in 0 .. Len(pairs)] ==
            IF k = 0 THEN Empty
            ELSE IF k \notin at THEN J[k - 1]
            ELSE Insert(J[k - 1], pairs[k].name, Added(J[k - 1], pairs[k], sep))
    IN  J[Len(pairs)]

(* What goes into the mapping, decoded, the values of one name joined with *)
(* NULs; and the names without a value, as they are, in the multiset.      *)
Decoded(p) == [name |-> UrlDecode(p.name, 0), value |-> UrlDecode(p.value, 0)]
Valued(ps) == {k \in DOMAIN ps : ps[k].value # <<>>}
QueryVariables(q) ==
    LET ps == Parameters(q)
    IN  Joined([k \in DOMAIN ps |-> Decoded(ps[k])], Valued(ps), <<NUL>>)
EmptyVariables(q) ==
    LET ps == Parameters(q) IN {ps[k].name : k \in DOMAIN ps \ Valued(ps)}

(* The parameters are the pieces between the separators, and each is       *)
(* divided at its first "=".                                               *)
QueryParameter(s) ==
    LET e == FirstOf(s, 1, {EQ})
    IN  [name |-> SubSeq(s, 1, e - 1), value |-> SubSeq(s, e + 1, Len(s))]
SplitQuery(q) ==
    LET ps == Split(q, {AMP, SEMI}) IN [k \in DOMAIN ps |-> QueryParameter(ps[k])]
QueryAgrees(q) ==
    LET ps == SplitQuery(q)
        name(k) == Decoded(ps[k]).name
        values(n) == Kept([k \in DOMAIN ps |-> Decoded(ps[k]).value],
                          {k \in Valued(ps) : name(k) = n})
    IN  /\ QueryVariables(q) =
              [n \in {name(k) : k \in Valued(ps)} |-> Join(values(n), <<NUL>>)]
        /\ EmptyVariables(q) = {ps[k].name : k \in DOMAIN ps \ Valued(ps)}

(* A query string without an empty parameter is taken apart exactly at its *)
(* separators, an "=" in a value stays there, and a name that occurs again *)
(* keeps all its values.                                                   *)
QueryByParameter(w) ==
    (\A k \in DOMAIN Split(w, {AMP, SEMI}) : Split(w, {AMP, SEMI})[k] # <<>>) => QueryAgrees(w)

(* The documentation: "Format and unescape all query string and add the    *)
(* result to the mapping". Every name=value of the string is in the        *)
(* mapping, also behind a parameter that is empty.                         *)
QueryComplete(w) ==
    \A k \in DOMAIN SplitQuery(w) :
        LET p == SplitQuery(w)[k]
        IN  p.name # <<>> /\ p.value # <<>> => UrlDecode(p.name, 0) \in DOMAIN QueryVariables(w)

-----------------------------------------------------------------------------
(* char_decode_url(): "%XX" becomes a byte, one without two more bytes a   *)
(* NUL, and a "?" ends the file. make_shared_string() then takes the file  *)
(* up to its first NUL.                                                    *)
CharDecodeUrl(s) ==
    LET D[p \in 1 .. Len(s) + 3] ==
            IF p > Len(s) \/ s[p] = QM THEN <<>>
            ELSE IF s[p] # PCT THEN <<s[p]>> \o D[p + 1]
            ELSE IF p + 2 <= Len(s) THEN <<Escaped(s, p)>> \o D[p + 3]
            ELSE <<NUL>>
        Q[p \in 1 .. Len(s) + 3] ==
            CASE p > Len(s) -> 0
              [] p <= Len(s) /\ s[p] = QM -> p
              [] p <= Len(s) /\ s[p] = PCT -> Q[p + 3]
              [] OTHER -> Q[p + 1]
    IN  [file |-> CString(D[1]), mark |-> Q[1]]

(* The name/value pairs of a header block, as the loop finds them: a name  *)
(* is everything from the end of the value before it to the next colon.    *)
HeaderPairs(s) ==
    LET P[os \in 1 .. Len(s) + 1] ==
            LET i == FirstOf(s, os, {COLON})
                v == FirstOf(s, i + 1, Byte \ {SP})
                j == FirstOf(s, v, {CR, LF})
                e == IF j < Len(s) /\ s[j + 1] = LF THEN j + 1 ELSE j
            IN  IF i > Len(s) THEN <<>>
                ELSE <<[name |-> Lowercase(SubSeq(s, os, i - 1)),
                        value |-> SubSeq(s, v, j - 1)]>> \o P[e + 1]
    IN  P[1]

(* A header that occurs again replaces the one before (parse_headers). *)
JoinedLast(pairs) ==
    LET J[k \in 0 .. Len(pairs)] ==
            IF k = 0 THEN Empty ELSE Insert(J[k - 1], pairs[k].name, pairs[k].value)
    IN  J[Len(pairs)]

(* A header that occurs again is added to the one before, with a comma. *)
HeadersIn(s) == LET pairs == HeaderPairs(s) IN Joined(pairs, DOMAIN pairs, <<COMMA>>)

(* The header lines of a head, without the CR they may end with. *)
Stripped(l) == IF l # <<>> /\ l[Len(l)] = CR THEN SubSeq(l, 1, Len(l) - 1) ELSE l
HeaderLines(head) ==
    LET lines == Split(head, {LF})
        all == [k \in 1 .. Len(lines) - 1 |-> Stripped(lines[k + 1])]
    IN  Kept(all, {k \in DOMAIN all : all[k] # <<>>})
WellFormed(l) == COLON \in Bytes(l) /\ CR \notin Bytes(l)
NameOf(l) == Lowercase(SubSeq(l, 1, FirstOf(l, 1, {COLON}) - 1))
ValueOf(l) == SubSeq(l, FirstOf(l, FirstOf(l, 1, {COLON}) + 1, Byte \ {SP}), Len(l))
ValuesOf(n, lines) ==
    Kept([k \in DOMAIN lines |-> ValueOf(lines[k])], {k \in DOMAIN lines : NameOf(lines[k]) = n})

(* get_next_header(): how much of s it read, and the pairs it found there, *)
(* one for a line with a colon that ends with CR LF. A value ends at a CR, *)
(* the name is everything before its colon.                                *)
HeaderValueSpaced(s, c) == SubSeq(s, c + 1, FirstOf(s, c + 1, {CR}) - 1)
HeaderValue(s, c) == SubSeq(s, FirstOf(s, c + 1, Byte \ {SP}), FirstOf(s, c + 1, {CR}) - 1)

NextHeader(s) ==
    LET N[p \in 1 .. Len(s) + 2] ==
            IF p > Len(s) THEN [parsed |-> p - 1, pairs |-> <<>>]
            ELSE CASE s[p] = LF -> [parsed |-> p, pairs |-> <<>>]
                   [] s[p] = COLON ->
                        LET rest == N[FirstOf(s, p + 1, {CR}) + 1]
                        IN  [parsed |-> rest.parsed,
                             pairs |-> <<[name |-> Lowercase(SubSeq(s, 1, p - 1)),
                                          value |-> HeaderValue(s, p)]>> \o rest.pairs]
                   [] OTHER -> N[p + 1]
    IN  N[1]

(* parse_headers(): the last header of a name wins. *)
ParseHeaders(s) ==
    LET H[p \in 1 .. Len(s) + 2] ==
            IF p > Len(s) THEN <<>>
            ELSE LET h == NextHeader(SubSeq(s, p, Len(s))) IN h.pairs \o H[p + h.parsed]
    IN  JoinedLast(H[1])

(* The tree has two header parsers, parse_headers() and the one of         *)
(* ParseHTTP. On a block of lines that end with CR LF, none empty, each    *)
(* with a colon and a name of its own, they find the same names and values. *)
HeaderParsersAgree(w) ==
    LET block == w \o <<CR, LF>>
        lines == HeaderLines(<<LF>> \o block)
    IN  (/\ \A i \in DOMAIN w : (w[i] = CR) = (i < Len(w) /\ w[i + 1] = LF)
         /\ \A k \in DOMAIN lines : WellFormed(lines[k])
         /\ Len(lines) = Len(Split(block, {LF})) - 1
         /\ \A j, k \in DOMAIN lines : NameOf(lines[j]) = NameOf(lines[k]) => j = k)
        => ParseHeaders(block) = HeadersIn(block)

-----------------------------------------------------------------------------
(* parse_prestates(): "/(a,b)/rest". A first prestate that is a prefix of  *)
(* "internal" counts as "internal" (the comparison is over its own         *)
(* length), and then the others go to the second multiset.                 *)
LPAR == 40
RPAR == 41
Internal == <<105, 110, 116, 101, 114, 110, 97, 108>>
NamesInternal(s) == Len(s) <= Len(Internal) /\ s = SubSeq(Internal, 1, Len(s))

PrestateEndLast(url) ==
    LET at == {p \in 4 .. Len(url) : url[p] = SLASH /\ url[p - 1] = RPAR}
    IN  IF at = {} THEN 0 ELSE Max(at)
PrestateEnd(url) ==
    LET at == {p \in 4 .. Len(url) : /\ url[p] = SLASH /\ url[p - 1] = RPAR
                                     /\ \A i \in 4 .. p : url[i] # NUL}
    IN  IF at = {} THEN 0 ELSE Min(at)
ParsePrestates(url) ==
    LET end == PrestateEnd(url)
        pieces == Split(SubSeq(url, 3, end - 1), {COMMA, RPAR})
        names == SubSeq(pieces, 1, Len(pieces) - 1)
        all == {names[k] : k \in DOMAIN names}
    IN  IF Len(url) < 5 \/ url[2] # LPAR \/ end = 0
        THEN [rest |-> url, prestate |-> {}, internal |-> {}]
        ELSE [rest |-> CString(SubSeq(url, end, Len(url))),
              prestate |-> IF NamesInternal(names[1]) THEN {Internal} ELSE all,
              internal |-> IF NamesInternal(names[1])
                           THEN {names[k] : k \in 2 .. Len(names)} ELSE {}]

(* A URL that is built from prestates and a path is taken apart into the   *)
(* same prestates and the same path, also when the path has parentheses or *)
(* prestates of its own.                                                   *)
PrestatesComeOff(w) ==
    \A path \in {<<SLASH>>, <<SLASH, LPAR, 97, RPAR, SLASH>>} :
        LET r == ParsePrestates(<<SLASH, LPAR>> \o w \o <<RPAR>> \o path)
            names == Split(w, {COMMA})
        IN  Bytes(w) \cap {NUL, LPAR, RPAR, SLASH} = {} /\ w # <<>> /\ ~NamesInternal(names[1]) =>
                r.rest = path /\ r.prestate = Bytes(names) /\ r.internal = {}

-----------------------------------------------------------------------------
(* get_address() looks for the space (or a NUL) among the last six bytes   *)
(* but one, from the left; get_port() for the last space of all.           *)
Unknown == <<117, 110, 107, 110, 111, 119, 110>>
AddressWindowShort(n) == n - 4 .. n - 1
AddressWindow(n) == n - 5 .. n - 1

GetAddress(s) ==
    LET n == Len(s)
        at == {i \in AddressWindow(n) : n >= 7 /\ s[i] \in {NUL, SP}}
    IN  IF at = {} THEN Unknown
        ELSE SubSeq(s, 1, Min(at) - 1)

GetPort(s) ==
    LET at == {i \in DOMAIN s : s[i] = SP}
    IN  IF Len(s) < 7 \/ at = {} THEN <<48>>
        ELSE SubSeq(s, Max(at) + 1, Len(s))

(* The two functions, which look from different ends, divide an address    *)
(* with a port of one to five digits at the same place.                    *)
AddressAndPort(w) ==
    (\E i \in DOMAIN w : /\ w[i] = SP /\ Len(w) - i \in 1 .. 5 /\ Len(w) >= 7
                        /\ \A j \in DOMAIN w : w[j] \in {SP, NUL} => j = i)
    => GetAddress(w) \o <<SP>> \o GetPort(w) = w

(* extension(): what follows the last dot, without the mark of a backup. *)
BackupMark == {35, 126}
ExtensionKeeping(s) ==
    LET at == {i \in DOMAIN s : s[i] = DOT}
    IN  IF at = {} THEN <<>> ELSE SubSeq(s, Max(at) + 1, Len(s))
Extension(s) ==
    LET at == {i \in DOMAIN s : s[i] = DOT}
        dot == Max(at)
    IN  IF at = {} THEN <<>>
        ELSE SubSeq(s, dot + 1, IF s[Len(s)] \in BackupMark THEN Len(s) - 1 ELSE Len(s))
(* A backup copy has the extension of the file it is a copy of, and an     *)
(* extension never contains a dot.                                         *)
BackupHasExtension(w) ==
    /\ w # <<>> /\ w[Len(w)] \notin BackupMark =>
          \A b \in BackupMark : Extension(Append(w, b)) = Extension(w)
    /\ DOT \notin Bytes(Extension(w))

-----------------------------------------------------------------------------
(* The entities of encode_mapping(), entity -c being the one that a reader *)
(* sees as byte c. The HTML table has those of "<" and ">" the wrong way   *)
(* round. The XML table has a pattern of two bytes, a backslash and "0".   *)
QUOTE == 34
LT == 60
GT == 62
BACKSLASH == 92
HtmlEntities ==
    [k \in {<<QUOTE>>, <<LT>>, <<GT>>, <<AMP>>} |->
        CASE k[1] = LT -> -GT [] k[1] = GT -> -LT [] OTHER -> -k[1]]
XmlEntitiesUnquoted == [k \in {<<LT>>, <<GT>>, <<AMP>>, <<39>>} |-> -k[1]]
XmlEntities ==
    [k \in {<<LT>>, <<GT>>, <<AMP>>, <<QUOTE>>, <<39>>, <<BACKSLASH, 48>>} |->
        IF k[1] = BACKSLASH THEN -256 ELSE -k[1]]

EncodeString(s, table) ==
    LET R[p \in 1 .. Len(s) + 1] ==
            IF p > Len(s) THEN <<>>
            ELSE IF SubSeq(s, p, p) \in DOMAIN table
                 THEN <<table[SubSeq(s, p, p)]>> \o R[p + 1]
            ELSE IF p < Len(s) /\ SubSeq(s, p, p + 1) \in DOMAIN table
                 THEN <<table[SubSeq(s, p, p + 1)]>> \o R[p + 2]
            ELSE <<s[p]>> \o R[p + 1]
    IN  R[1]

EncodeMapping(m, table) ==
    [k \in {EncodeString(i, table) : i \in DOMAIN m} |->
        EncodeString(m[CHOOSE i \in DOMAIN m : EncodeString(i, table) = k], table)]

(* make_tag_attributes(): name="value" and a space for each pair but the   *)
(* "/" of an empty tag, in some order.                                     *)
MakeTagAttributes(m, table) ==
    LET safe == EncodeMapping([k \in DOMAIN m \ {<<SLASH>>} |-> m[k]], table)
    IN  {k \o <<EQ, QUOTE>> \o safe[k] \o <<QUOTE, SP>> : k \in DOMAIN safe}

(* Whatever is in a mapping, each attribute has one quoted value: the      *)
(* quotes stand where make_tag_attributes() puts them, nothing of name or  *)
(* value opens a tag, and two pairs never become one.                      *)
AttributesStayApart(w) ==
    \A table \in {HtmlEntities, XmlEntities} :
        LET m == Insert(Insert(Insert(Empty, <<SLASH>>, w), <<EQ>>, w), w, <<EQ>>)
            attributes == MakeTagAttributes(m, table)
        IN  /\ \A a \in attributes : /\ Len(Split(a, {QUOTE})) = 3
                                     /\ Bytes(a) \cap {LT, GT, AMP} = {}
            /\ Cardinality(attributes) = Cardinality(DOMAIN m \ {<<SLASH>>})
=============================================================================
