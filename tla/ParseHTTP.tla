----------------------------- MODULE ParseHTTP -----------------------------
(***************************************************************************)
(* _Caudium.ParseHTTP: the request parser that is fed whatever the socket  *)
(* delivers, in pieces of any size, and answers 0 until it has seen the    *)
(* empty line after the headers.                                           *)
(***************************************************************************)
EXTENDS Text

CONSTANTS Streams,   \* the byte streams clients send
          Sizes,     \* the sizes given to create()
          BufsizeMin, BufsizeMax

ASSUME SizeAssumption ==
    /\ Streams \subseteq Seq(Byte) /\ Sizes \subseteq Nat
    /\ BufsizeMin \in Nat \ {0} /\ BufsizeMax \in Nat

VARIABLES stream,    \* the bytes of this connection
          sent,      \* how many of them append() was called with, refused ones included
          data,      \* BUF->data up to BUF->pos
          size,      \* the bytes allocated
          free,      \* BUF->free
          other,     \* the mapping with method, url, protocol and the rest
          headers,   \* the mapping with the headers
          ret        \* what the last call returned; New before create()

vars == <<stream, sent, data, size, free, other, headers, ret>>

(* No call has returned yet, and create() has thrown. *)
New == -1
Thrown == -2

(* alloc_buf_struct() *)
Init ==
    /\ stream \in Streams
    /\ sent = 0 /\ data = <<>> /\ size = 0 /\ free = 0
    /\ other = Empty /\ headers = Empty
    /\ ret = New

(* create(other, headers, size): a size out of bounds throws, and Pike     *)
(* drops the object.                                                       *)
Create(n) ==
    /\ ret = New
    /\ free' = n
    /\ \/ n \in BufsizeMin .. BufsizeMax /\ ret' = 0 /\ size' = n
       \/ n \notin BufsizeMin .. BufsizeMax /\ ret' = Thrown /\ UNCHANGED size
    /\ UNCHANGED <<stream, sent, data, other, headers>>

-----------------------------------------------------------------------------
(* Looking for the end of the headers: a line feed, carriage returns, and  *)
(* a second line feed. The scan of one call starts three bytes before the  *)
(* new ones.                                                               *)
Lookback == 3

ScanStartNew(old) == old + 1
ScanStart(old) == IF old > Lookback THEN old - Lookback + 1 ELSE 1

(* How many bytes the scan of d went over and the line feeds it counted. *)
Scan(d, from) ==
    LET S[p \in from .. Len(d) + 1] ==
            [n \in 0 .. 2 |->
                IF n = 2 \/ p > Len(d) THEN [end |-> p - 1, slash_n |-> n]
                ELSE S[p + 1][CASE d[p] = LF -> n + 1
                                [] d[p] = CR -> n
                                [] OTHER -> 0]]
    IN  S[from][0]

-----------------------------------------------------------------------------
(* The request line and the headers of a head that is complete. What is    *)
(* already in the mappings stays there when a later part is refused.       *)
Parse(head, body) ==
    LET a == FirstOf(head, 1, {SP, LF})
        b == FirstOf(head, a + 1, {SP, LF})
        c == FirstOf(head, b + 1, {SP, LF})
        raw == SubSeq(head, a + 1, b - 1)
        url == CharDecodeUrl(raw)
        cr == c > b + 1 /\ head[c - 1] = CR
        o1 == Insert(Empty, "data", body)
        o2 == Insert(o1, "method", SubSeq(head, 1, a - 1))
        o3 == Insert(Insert(o2, "raw_url", raw), "file", url.file)
        o4 == IF url.mark = 0 THEN o3 ELSE Insert(o3, "query", SubSeq(raw, url.mark + 1, Len(raw)))
        o5 == Insert(o4, "protocol", SubSeq(head, b + 1, IF cr THEN c - 2 ELSE c - 1))
        Result(r, o, h) == [ret |-> r, other |-> o, headers |-> h]
    IN  IF head[a] = LF THEN Result(400, o1, Empty)
        ELSE IF head[b] = LF THEN Result(400, o2, Empty)
        ELSE IF head[c] = SP THEN Result(400, o4, Empty)
        ELSE Result(1, o5, HeadersIn(SubSeq(head, c + 1, Len(head))))

-----------------------------------------------------------------------------
(* append(str): refused when it does not leave room for the final NUL, and *)
(* then nothing of it is kept.                                             *)
FitsWholly(n) == n <= free
Fits(n) == n < free

BufAppend(n) ==
    LET str == SubSeq(stream, sent + 1, sent + n)
        all == data \o str
        found == Scan(all, ScanStart(Len(data)))
        parsed == Parse(SubSeq(all, 1, found.end), SubSeq(all, found.end + 1, Len(all)))
    IN  /\ ret \in {0, 413} /\ n \in 1 .. Len(stream) - sent
        /\ sent' = sent + n
        /\ IF ~Fits(n)
           THEN ret' = 413 /\ UNCHANGED <<data, free, other, headers>>
           ELSE /\ data' = all /\ free' = free - n
                /\ IF found.slash_n # 2
                   THEN ret' = 0 /\ UNCHANGED <<other, headers>>
                   ELSE /\ ret' = parsed.ret
                        /\ other' = parsed.other
                        /\ headers' = parsed.headers
        /\ UNCHANGED <<stream, size>>

Next == (\E n \in Sizes : Create(n)) \/ \E n \in 1 .. Len(stream) : BufAppend(n)

Spec == Init /\ [][Next]_vars

-----------------------------------------------------------------------------
(* What a request is, said without the scanning: the head ends with the    *)
(* first empty line, and every header is a line of it.                     *)
HeadEnds(d) ==
    {k \in 1 .. Len(d) :
        d[k] = LF /\ \E j \in 1 .. k - 1 : d[j] = LF /\ \A i \in j + 1 .. k - 1 : d[i] = CR}
HeadEnd(d) == Min(HeadEnds(d))

(* The pieces in which a request arrives make no difference: append()      *)
(* answers 0 only while there is no empty line in what it was given, and   *)
(* what follows the first one is the beginning of the body, in "data".     *)
(* (The three bytes the scan goes back are enough for two carriage         *)
(* returns between the line feeds; with a third one the end is missed.)    *)
EndSeenInPieces ==
    (\A i \in 1 .. Len(data) - 2 : SubSeq(data, i, i + 2) # <<CR, CR, CR>>) =>
        /\ ret = 0 => HeadEnds(data) = {}
        /\ ret \in {1, 400} =>
              /\ HeadEnds(data) # {}
              /\ other["data"] = SubSeq(data, HeadEnd(data) + 1, Len(data))

(* f_buf_append() writes a NUL behind the last byte it keeps: there is     *)
(* room for it whatever was appended, and the bytes that are free and      *)
(* those in use make up the buffer.                                        *)
RoomForTheNul == ret \notin {New, Thrown} => Len(data) + free = size /\ free >= 1

(* The one pass over the header block, which lowers the case in place and  *)
(* moves from colon to line end, finds what the lines say: every name once *)
(* in lower case, with the values of all its lines in their order and      *)
(* commas in between.                                                      *)
HeadersAreTheLines ==
    LET lines == HeaderLines(SubSeq(data, 1, HeadEnd(data)))
    IN  ret = 1 /\ (\A k \in DOMAIN lines : WellFormed(lines[k])) =>
            headers = [n \in {NameOf(lines[k]) : k \in DOMAIN lines} |->
                          Join(ValuesOf(n, lines), <<COMMA>>)]
=============================================================================
