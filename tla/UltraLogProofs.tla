--------------------------- MODULE UltraLogProofs ---------------------------
(* Theorems about the log parser, for any log, any formats and any sizes   *)
(* of the line buffer and of the blocks.                                   *)
EXTENDS UltraLog, Lemmas, FiniteSetTheorems, TLAPS

-----------------------------------------------------------------------------
(* Lines *)

\* The ends of lines in the first n bytes.
Ends(n) == {i \in 1 .. n : Class(log[i]) = "CRLF"}

\* How much the counters of lines may be apart, and that they count.
LinesInv ==
    /\ pos \in Nat /\ lines \in Nat /\ broken \in Nat /\ parser.skipping \in BOOLEAN
    /\ lines + broken <= LineEnds + (IF parser.skipping THEN 1 ELSE 0)
    /\ LineEnds + (IF parser.skipping THEN 1 ELSE 0) <= lines + 2 * broken

\* Some of the numbers 1 .. n are a finite set.
LEMMA FiniteEnds ==
  ASSUME NEW n \in Nat
  PROVE  IsFiniteSet(Ends(n)) /\ Cardinality(Ends(n)) \in Nat
<1>1. IsFiniteSet(1 .. n)
  BY FS_Interval
<1>2. Ends(n) \subseteq 1 .. n
  BY DEF Ends
<1> QED BY <1>1, <1>2, FS_Subset, FS_CardinalityType

\* One more byte is the end of a line or not.
LEMMA OneMoreByte ==
  ASSUME NEW n \in Nat
  PROVE  Cardinality(Ends(n + 1)) =
            Cardinality(Ends(n)) + (IF Class(log[n + 1]) = "CRLF" THEN 1 ELSE 0)
<1>1. CASE Class(log[n + 1]) = "CRLF"
  <2>1. Ends(n + 1) = Ends(n) \cup {n + 1}
    BY <1>1 DEF Ends
  <2>2. n + 1 \notin Ends(n)
    BY DEF Ends
  <2> QED BY <1>1, <2>1, <2>2, FiniteEnds, FS_AddElement
<1>2. CASE Class(log[n + 1]) # "CRLF"
  <2>1. Ends(n + 1) = Ends(n)
    BY <1>2 DEF Ends
  <2> QED BY <1>2, <2>1, FiniteEnds
<1> QED BY <1>1, <1>2

-----------------------------------------------------------------------------
(* The parser *)

\* The parser is a record of its fields, and buf_points one of the points.
Parser(s, b, f, t, k, d) ==
    [state_pos |-> s, buf |-> b, field_position |-> f, tmpinteger |-> t, skipping |-> k,
     buf_points |-> d]
Record(p) ==
    \E s, b, f, t, d : \E k \in BOOLEAN :
        p = Parser(s, b, f, t, k, d) /\ d = [q \in Points |-> d[q]]

\* The line buffer and what points into it.
InBuffer(p) ==
    /\ Record(p)
    /\ p.buf \in Seq(Byte) /\ Len(p.buf) \in 1 .. MaxLineLen
    /\ p.field_position \in 0 .. Len(p.buf)
    /\ \A q \in TextFields : p.buf_points[q] \in 0 .. Len(p.buf) - 1

\* Such a record is a parser.
LEMMA RecordOf ==
  ASSUME NEW s, NEW b, NEW f, NEW t, NEW k \in BOOLEAN, NEW d, d = [q \in Points |-> d[q]]
  PROVE  Record(Parser(s, b, f, t, k, d))
BY Zenon DEF Record

\* A parser made ready for the next line,
LEMMA NextLineIs ==
  ASSUME NEW p, Record(p)
  PROVE  InBuffer(NextLine(p)) /\ NextLine(p).skipping = FALSE /\ NextLine(p).state_pos = 1
<1>1. PICK s, c, f, t, d : \E k \in BOOLEAN : p = Parser(s, c, f, t, k, d)
  BY DEF Record
<1>2. PICK k \in BOOLEAN : p = Parser(s, c, f, t, k, d)
  BY <1>1
<1> DEFINE b == [q \in Points |-> IF q \in DateFields THEN d[q] ELSE 0]
<1>3. NextLine(p) = Parser(1, <<NUL>>, 1, t, FALSE, b)
  <2>1. p.buf_points = d
    BY <1>2 DEF Parser
  <2>2. NextLine(p) = [p EXCEPT !.state_pos = 1, !.buf = <<NUL>>, !.field_position = 1,
                                !.skipping = FALSE, !.buf_points = b]
    BY <2>1, Zenon DEF NextLine
  <2> HIDE DEF b
  <2> QED BY <1>2, <2>2 DEF Parser
<1>4. <<NUL>> \in Seq(Byte) /\ Len(<<NUL>>) = 1
  BY DEF NUL, Byte
<1>5. \A q \in TextFields : q \in Points /\ b[q] = 0
  BY DEF TextFields, Points, DateFields
<1>6. b = [q \in Points |-> b[q]]
  OBVIOUS
<1> HIDE DEF b
<1>7. Record(NextLine(p))
  BY <1>3, <1>6, RecordOf
<1>8. 1 \in 1 .. MaxLineLen /\ 1 \in 0 .. 1 /\ 0 \in 0 .. 1 - 1
  BY UltraAssumption
<1> QED BY <1>3, <1>4, <1>5, <1>7, <1>8 DEF Parser, InBuffer

\* a new one,
LEMMA NewParserIs ==
  InBuffer(NewParser) /\ NewParser.skipping = FALSE /\ NewParser.state_pos = 1
<1> DEFINE d == [q \in Points |-> 0]
           p == Parser(1, <<>>, 0, 0, FALSE, d)
<1>1. d = [q \in Points |-> d[q]]
  OBVIOUS
<1>2. NewParser = NextLine(p)
  BY DEF NewParser, Parser
<1> HIDE DEF d
<1>3. Record(p)
  BY <1>1, RecordOf
<1> HIDE DEF p
<1> QED BY <1>2, <1>3, NextLineIs

\* and one with a byte more in its buffer, or without room for it.
LEMMA BufSetIs ==
  ASSUME NEW p, InBuffer(p), NEW c \in Byte, p.skipping = FALSE
  PROVE  /\ InBuffer(BufSet(p, c)) /\ BufSet(p, c).state_pos = p.state_pos
         /\ BufSet(p, c).buf_points = p.buf_points
         /\ BufSet(p, c).field_position = p.field_position
         /\ ~ BufSet(p, c).skipping => Len(BufSet(p, c).buf) = Len(p.buf) + 1
<1>1. PICK s, b, f, t, d : \E k \in BOOLEAN : 
        p = Parser(s, b, f, t, k, d) /\ d = [q \in Points |-> d[q]]
  BY DEF InBuffer, Record
<1>0. PICK k \in BOOLEAN : p = Parser(s, b, f, t, k, d) /\ d = [q \in Points |-> d[q]]
  BY <1>1
<1>2. p = Parser(s, b, f, t, FALSE, d) /\ d = [q \in Points |-> d[q]]
  BY <1>0 DEF Parser
<1>3. /\ p.state_pos = s /\ p.buf = b /\ p.field_position = f /\ p.buf_points = d
      /\ p.skipping = FALSE
  BY <1>2 DEF Parser
<1>4. /\ b \in Seq(Byte) /\ Len(b) \in 1 .. MaxLineLen /\ f \in 0 .. Len(b)
      /\ \A q \in TextFields : d[q] \in 0 .. Len(b) - 1
  BY <1>3 DEF InBuffer
<1>5. CASE HasRoom(p)
  <2>1. BufSet(p, c) = Parser(s, Append(b, c), f, t, FALSE, d)
    BY <1>2, <1>5 DEF BufSet, Parser
  <2>2. /\ Append(b, c) \in Seq(Byte) /\ Len(Append(b, c)) = Len(b) + 1
        /\ Len(Append(b, c)) \in 1 .. MaxLineLen
    BY <1>3, <1>4, <1>5, UltraAssumption DEF HasRoom
  <2>3. Record(BufSet(p, c))
    BY <2>1, <1>2, RecordOf
  <2>4. /\ BufSet(p, c).buf = Append(b, c) /\ BufSet(p, c).state_pos = s
        /\ BufSet(p, c).field_position = f /\ BufSet(p, c).buf_points = d
    BY <2>1 DEF Parser
  <2>5. f \in 0 .. Len(b) + 1 /\ \A q \in TextFields : d[q] \in 0 .. (Len(b) + 1) - 1
    BY <1>4
  <2> QED BY <1>3, <2>2, <2>3, <2>4, <2>5 DEF InBuffer
<1>6. CASE ~ HasRoom(p)
  <2>1. BufSet(p, c) = Parser(s, b, f, t, TRUE, d)
    BY <1>2, <1>6 DEF BufSet, Parser
  <2>2. Record(BufSet(p, c))
    BY <2>1, <1>2, RecordOf
  <2>3. /\ BufSet(p, c).buf = b /\ BufSet(p, c).state_pos = s /\ BufSet(p, c).skipping
        /\ BufSet(p, c).field_position = f /\ BufSet(p, c).buf_points = d
    BY <2>1 DEF Parser
  <2> QED BY <1>3, <1>4, <2>2, <2>3 DEF InBuffer
<1> QED BY <1>5, <1>6

\* A parser skips or does not.
LEMMA SkippingIs == ASSUME NEW p, Record(p) PROVE p.skipping \in BOOLEAN
<1>1. PICK s, b, f, t, d : \E k \in BOOLEAN : p = Parser(s, b, f, t, k, d)
  BY DEF Record
<1> QED BY <1>1 DEF Parser

\* The parser behind a field that was right.
Done(p, save, v) ==
    [p EXCEPT !.state_pos = @ + 1, !.field_position = Len(p.buf),
              !.buf_points = IF save \in Points THEN [@ EXCEPT ![save] = v] ELSE @]
\* A field that is right: the next one begins behind it.
LEMMA DoneIs ==
  ASSUME NEW p, InBuffer(p), p.skipping = FALSE, NEW save, NEW v,
         save \in TextFields => v \in 0 .. Len(p.buf) - 1,
         NEW r, r = Done(p, save, v)
  PROVE  InBuffer(r) /\ r.skipping = FALSE /\ r.state_pos = p.state_pos + 1
<1>1. PICK s, b, f, t, d : \E k \in BOOLEAN : 
        p = Parser(s, b, f, t, k, d) /\ d = [q \in Points |-> d[q]]
  BY DEF InBuffer, Record
<1>2. PICK k \in BOOLEAN : p = Parser(s, b, f, t, k, d) /\ d = [q \in Points |-> d[q]]
  BY <1>1
<1>3. p.state_pos = s /\ p.buf = b /\ p.buf_points = d /\ k = FALSE
  BY <1>2 DEF Parser
<1>4. /\ b \in Seq(Byte) /\ Len(b) \in 1 .. MaxLineLen
      /\ \A q \in TextFields : d[q] \in 0 .. Len(b) - 1
  BY <1>3 DEF InBuffer
<1>0. PICK s1, l : s1 = s + 1 /\ l = Len(b)
  OBVIOUS
<1>5. PICK e : /\ e = IF save \in Points THEN [d EXCEPT ![save] = v] ELSE d
  OBVIOUS
<1>6. r = Parser(s1, b, l, t, FALSE, e)
  <2>1. r = [p EXCEPT !.state_pos = s1, !.field_position = l, !.buf_points = e]
    BY <1>0, <1>3, <1>5 DEF Done
  <2> QED BY <1>2, <1>3, <2>1 DEF Parser
<1>7. e = [q \in Points |-> e[q]]
  BY <1>2, <1>5
<1>8. \A q \in TextFields : e[q] \in 0 .. Len(b) - 1
  BY <1>2, <1>3, <1>4, <1>5 DEF TextFields, Points
<1>9. Record(r)
  BY <1>6, <1>7, RecordOf
<1>10. /\ r.buf = b /\ r.state_pos = s1 /\ r.field_position = l
       /\ r.buf_points = e /\ r.skipping = FALSE
  BY <1>6 DEF Parser
<1>11. Len(b) \in 0 .. Len(b)
  BY <1>4
<1> QED BY <1>0, <1>3, <1>4, <1>8, <1>9, <1>10, <1>11 DEF InBuffer

\* A field that is wrong, or that there is no room for.
LEMMA WrongIs ==
  ASSUME NEW p, InBuffer(p), NEW n, NEW r,
         r = [[p EXCEPT !.tmpinteger = n] EXCEPT !.skipping = TRUE]
  PROVE  InBuffer(r) /\ r.skipping = TRUE /\ r.state_pos = p.state_pos
<1>1. PICK s, b, f, t, d : \E k \in BOOLEAN : 
        p = Parser(s, b, f, t, k, d) /\ d = [q \in Points |-> d[q]]
  BY DEF InBuffer, Record
<1>2. PICK k \in BOOLEAN : p = Parser(s, b, f, t, k, d) /\ d = [q \in Points |-> d[q]]
  BY <1>1
<1>3. r = Parser(s, b, f, n, TRUE, d)
  BY <1>2 DEF Parser
<1>4. Record(r)
  <2>1. d = [q \in Points |-> d[q]] /\ TRUE \in BOOLEAN
    BY <1>2
  <2>2. Record(Parser(s, b, f, n, TRUE, d))
    BY <2>1, RecordOf
  <2> QED BY <1>3, <2>2, Zenon
<1>5. /\ p.state_pos = s /\ p.buf = b /\ p.field_position = f /\ p.buf_points = d
      /\ r.state_pos = s /\ r.buf = b /\ r.field_position = f /\ r.buf_points = d
      /\ r.skipping = TRUE
  BY <1>2, <1>3 DEF Parser
<1> QED BY <1>4, <1>5 DEF InBuffer

\* A number goes into tmpinteger.
LEMMA NumberIs ==
  ASSUME NEW p, InBuffer(p), NEW n, NEW r, r = [p EXCEPT !.tmpinteger = n]
  PROVE  /\ InBuffer(r) /\ r.skipping = p.skipping /\ r.state_pos = p.state_pos
         /\ r.buf = p.buf
<1>1. PICK s, b, f, t, d : \E k \in BOOLEAN : 
        p = Parser(s, b, f, t, k, d) /\ d = [q \in Points |-> d[q]]
  BY DEF InBuffer, Record
<1>2. PICK k \in BOOLEAN : p = Parser(s, b, f, t, k, d) /\ d = [q \in Points |-> d[q]]
  BY <1>1
<1>3. r = Parser(s, b, f, n, k, d)
  BY <1>2 DEF Parser
<1>4. Record(r)
  BY <1>2, <1>3, RecordOf
<1>5. /\ p.state_pos = s /\ p.buf = b /\ p.field_position = f /\ p.buf_points = d
      /\ p.skipping = k
      /\ r.state_pos = s /\ r.buf = b /\ r.field_position = f /\ r.buf_points = d
      /\ r.skipping = k
  BY <1>2, <1>3 DEF Parser
<1> QED BY <1>4, <1>5 DEF InBuffer

\* "process_field:" goes one state on or skips the line.
LEMMA ProcessIs ==
  ASSUME NEW p, InBuffer(p), p.skipping = FALSE, NEW r \in ProcessField(p)
  PROVE  /\ InBuffer(r)
         /\ r.skipping => r.state_pos = p.state_pos
         /\ ~ r.skipping => r.state_pos = p.state_pos + 1
<1> DEFINE save == Fields[format][p.state_pos].save
           text == SubSeq(p.buf, p.field_position + 1, Len(p.buf))
<1>1. CASE save \in TextFields
  <2>1. PICK q : q = BufSet(p, NUL)
    OBVIOUS
  <2>2. r = IF q.skipping THEN q ELSE Done(q, save, p.field_position)
    BY <1>1, <2>1, Zenon DEF ProcessField, Done
  <2>3. NUL \in Byte
    BY DEF NUL, Byte
  <2>4. /\ InBuffer(q) /\ q.state_pos = p.state_pos /\ q.skipping \in BOOLEAN
        /\ ~ q.skipping => Len(q.buf) = Len(p.buf) + 1
    <3>1. /\ InBuffer(q) /\ q.state_pos = p.state_pos
          /\ ~ q.skipping => Len(q.buf) = Len(p.buf) + 1
      BY <2>1, <2>3, BufSetIs
    <3> QED BY <3>1, SkippingIs DEF InBuffer
  <2>5. CASE q.skipping
    BY <2>2, <2>4, <2>5
  <2>6. CASE ~ q.skipping
    <3>0. PICK v : v = p.field_position
      OBVIOUS
    <3>1. v \in 0 .. Len(q.buf) - 1
      BY <2>4, <2>6, <3>0 DEF InBuffer
    <3>2. r = Done(q, save, v)
      BY <2>2, <2>6, <3>0
    <3>3. q.skipping = FALSE
      BY <2>4, <2>6
    <3> HIDE DEF save
    <3>4. InBuffer(r) /\ r.skipping = FALSE /\ r.state_pos = q.state_pos + 1
      BY <2>4, <3>1, <3>2, <3>3, DoneIs, ZenonT(40)
    <3> QED BY <2>4, <3>4
  <2> QED BY <2>5, <2>6
<1>2. CASE save \notin TextFields
  <2>1. PICK v \in FieldValue(save, text, p.tmpinteger) :
          r = LET q == [p EXCEPT !.tmpinteger = v.tmp]
              IN  IF v.ok THEN Done(q, save, v.tmp) ELSE [q EXCEPT !.skipping = TRUE]
    BY <1>2, Zenon DEF ProcessField, Done
  <2> HIDE DEF save
  <2>2. PICK n : n = v.tmp
    OBVIOUS
  <2>3. PICK q : q = [p EXCEPT !.tmpinteger = n]
    OBVIOUS
  <2>4. r = IF v.ok THEN Done(q, save, n)
            ELSE [[p EXCEPT !.tmpinteger = n] EXCEPT !.skipping = TRUE]
    BY <2>1, <2>2, <2>3
  <2>5. InBuffer(q) /\ q.skipping = FALSE /\ q.state_pos = p.state_pos
    BY <2>3, NumberIs
  <2>6. CASE v.ok
    <3>1. r = Done(q, save, n)
      BY <2>4, <2>6
    <3>2. InBuffer(r) /\ r.skipping = FALSE /\ r.state_pos = q.state_pos + 1
      BY <1>2, <2>5, <3>1, DoneIs, ZenonT(40)
    <3> QED BY <2>5, <3>2
  <2>7. CASE ~ v.ok
    <3>1. r = [[p EXCEPT !.tmpinteger = n] EXCEPT !.skipping = TRUE]
      BY <2>4, <2>7
    <3>2. InBuffer(r) /\ r.skipping = TRUE /\ r.state_pos = p.state_pos
      BY <3>1, WrongIs
    <3> QED BY <3>2
  <2> QED BY <2>6, <2>7
<1> QED BY <1>1, <1>2

-----------------------------------------------------------------------------
(* parse_log_format() *)

\* The fields from position i on, by what was matched before it, made from
\* the fields P from the positions behind it on.
Separated(f, P, i, got, c, n) ==
    <<[save |-> IF got = "NONE" THEN "SKIP" ELSE got, ending |-> c]>>
        \o (IF i <= Len(f) THEN P[i + n]["NONE"] ELSE <<>>)
FieldsFrom(f, P, i, got) ==
    LET next == IF i < Len(f) THEN f[i + 1] ELSE NUL
    IN  IF i > Len(f) THEN Separated(f, P, i, got, "CRLF", 0)
        ELSE IF f[i] = PCT
        THEN IF got = "NONE" /\ next \in DOMAIN FieldCode
             THEN P[i + 2][FieldCode[next]] ELSE <<BadField>>
        ELSE IF f[i] = 92
        THEN IF next = 119 THEN Separated(f, P, i, got, "WSPACE", 2)
             ELSE IF next = 111 THEN P[i + 2][got] ELSE <<BadField>>
        ELSE IF f[i] = SP \/ Class(f[i]) \in Separators
        THEN Separated(f, P, i, got, Class(f[i]), 1) ELSE <<BadField>>

\* P holds the fields from each position on that is not before k.
Parsed(f, k, P) ==
    P = [i \in k .. Len(f) + 1 |-> [got \in GotFields |-> FieldsFrom(f, P, i, got)]]

\* What parse_log_format() returns are these fields, from the first position on.
LEMMA ParseLogFormatIs ==
  ASSUME NEW f, NEW s, s = (CHOOSE P : Parsed(f, 1, P))[1]["NONE"]
  PROVE  ParseLogFormat(f) = IF f = <<>> \/ BadField \in Range(s) THEN <<>> ELSE s
<1>1. ParseLogFormat(f) =
         IF f = <<>> \/ BadField \in Range((CHOOSE P : Parsed(f, 1, P))[1]["NONE"])
         THEN <<>> ELSE (CHOOSE P : Parsed(f, 1, P))[1]["NONE"]
  BY DEF ParseLogFormat, Parsed, FieldsFrom, Separated
<1> QED BY <1>1

\* A field of a format that is right.
FieldRec == [save : GotFields \cup {"SKIP"}, ending : Separators \cup {"WSPACE", "CRLF"}]
\* From any position there is a bad format, the last field, what comes further
\* on, or a field with what comes further on behind it.
LEMMA FourKinds ==
  ASSUME NEW f \in Seq(Byte), NEW n \in Nat, n = Len(f), NEW i \in 1 .. n + 1,
         NEW got \in GotFields
  PROVE  \/ \A P : FieldsFrom(f, P, i, got) = <<BadField>>
         \/ \E r \in FieldRec : r.ending = "CRLF" /\ \A P : FieldsFrom(f, P, i, got) = <<r>>
         \/ \E j \in i + 1 .. n + 1, g \in GotFields : \A P : FieldsFrom(f, P, i, got) = P[j][g]
         \/ \E j \in i + 1 .. n + 1, r \in FieldRec :
               \A P : FieldsFrom(f, P, i, got) = <<r>> \o P[j]["NONE"]
<1> DEFINE next == IF i < Len(f) THEN f[i + 1] ELSE NUL
           rec(c) == [save |-> IF got = "NONE" THEN "SKIP" ELSE got, ending |-> c]
<1>1. \A c \in Separators \cup {"WSPACE", "CRLF"} : rec(c) \in FieldRec /\ rec(c).ending = c
  BY DEF FieldRec
<1>2. next \in {119, 111} \cup DOMAIN FieldCode => i + 2 \in i + 1 .. n + 1
  <2>1. 0 \notin DOMAIN FieldCode
    BY DEF FieldCode
  <2> QED BY <2>1 DEF NUL
<1>3. next \in DOMAIN FieldCode => FieldCode[next] \in GotFields
  BY DEF GotFields, Range
<1> HIDE DEF next, rec
<1>4. CASE i > Len(f)
  <2>1. \A P : FieldsFrom(f, P, i, got) = <<rec("CRLF")>>
    <3> TAKE P
    <3>1. ~ (i <= Len(f))
      BY <1>4
    <3>2. FieldsFrom(f, P, i, got) = <<rec("CRLF")>> \o <<>>
      BY <1>4, <3>1, Zenon DEF FieldsFrom, Separated, rec
    <3> QED BY <3>2
  <2> QED BY <1>1, <2>1
<1>5. CASE ~ (i > Len(f)) /\ f[i] = PCT
  <2>1. CASE got = "NONE" /\ next \in DOMAIN FieldCode
    <3>1. \A P : FieldsFrom(f, P, i, got) = P[i + 2][FieldCode[next]]
      BY <1>5, <2>1, Zenon DEF FieldsFrom, next
    <3> QED BY <1>2, <1>3, <2>1, <3>1
  <2>2. CASE ~ (got = "NONE" /\ next \in DOMAIN FieldCode)
    BY <1>5, <2>2, Zenon DEF FieldsFrom, next
  <2> QED BY <2>1, <2>2
<1>6. CASE ~ (i > Len(f)) /\ f[i] # PCT /\ f[i] = 92
  <2>0. i <= Len(f)
    BY <1>6
  <2>1. CASE next = 119
    <3>1. \A P : FieldsFrom(f, P, i, got) = <<rec("WSPACE")>> \o P[i + 2]["NONE"]
      BY <1>6, <2>0, <2>1, Zenon DEF FieldsFrom, Separated, next, rec
    <3> QED BY <1>1, <1>2, <2>1, <3>1
  <2>2. CASE next # 119 /\ next = 111
    <3>1. \A P : FieldsFrom(f, P, i, got) = P[i + 2][got]
      BY <1>6, <2>2, Zenon DEF FieldsFrom, next
    <3> QED BY <1>2, <2>2, <3>1
  <2>3. CASE next # 119 /\ next # 111
    BY <1>6, <2>3, Zenon DEF FieldsFrom, next
  <2> QED BY <2>1, <2>2, <2>3
<1>7. CASE ~ (i > Len(f)) /\ f[i] # PCT /\ f[i] # 92
  <2>0. i <= Len(f)
    BY <1>7
  <2>1. CASE f[i] = SP \/ Class(f[i]) \in Separators
    <3>1. \A P : FieldsFrom(f, P, i, got) = <<rec(Class(f[i]))>> \o P[i + 1]["NONE"]
      BY <1>7, <2>0, <2>1, Zenon DEF FieldsFrom, Separated, rec
    <3>2. Class(f[i]) \in Separators \cup {"WSPACE", "CRLF"}
      <4>1. Class(SP) = "WSPACE"
        BY DEF Class, SP, LF, CR, IsDigit, SLASH, COLON, PLUS, QM
      <4> QED BY <2>1, <4>1
    <3>3. i + 1 \in i + 1 .. n + 1
      BY <2>0
    <3> QED BY <1>1, <3>1, <3>2, <3>3
  <2>2. CASE ~ (f[i] = SP \/ Class(f[i]) \in Separators)
    BY <1>7, <2>2, Zenon DEF FieldsFrom
  <2> QED BY <2>1, <2>2
<1> QED BY <1>4, <1>5, <1>6, <1>7

\* What is read of P is only what is behind.
LEMMA LooksAhead ==
  ASSUME NEW f \in Seq(Byte), NEW n \in Nat, n = Len(f), NEW i \in 1 .. n + 1, NEW P, NEW Q,
         \A j \in i + 1 .. n + 1 : P[j] = Q[j], NEW got \in GotFields
  PROVE  FieldsFrom(f, P, i, got) = FieldsFrom(f, Q, i, got)
<1>1. CASE \A R : FieldsFrom(f, R, i, got) = <<BadField>>
  BY <1>1, Zenon
<1>2. CASE \E r \in FieldRec : r.ending = "CRLF" /\ \A R : FieldsFrom(f, R, i, got) = <<r>>
  BY <1>2, Zenon
<1>3. CASE \E j \in i + 1 .. n + 1, g \in GotFields :
             \A R : FieldsFrom(f, R, i, got) = R[j][g]
  BY <1>3, Zenon
<1>4. CASE \E j \in i + 1 .. n + 1, r \in FieldRec :
             \A R : FieldsFrom(f, R, i, got) = <<r>> \o R[j]["NONE"]
  BY <1>4, Zenon
<1> QED BY <1>1, <1>2, <1>3, <1>4, FourKinds, Zenon

\* So there are such fields: from the end on, and with each position more.
LEMMA ParsedMore ==
  ASSUME NEW f \in Seq(Byte), NEW n \in Nat, n = Len(f), NEW k \in 1 .. n + 1, NEW P,
         k = n + 1 \/ Parsed(f, k + 1, P)
  PROVE  \E Q : Parsed(f, k, Q)
<1> DEFINE Q == [i \in k .. n + 1 |->
                    IF i = k THEN [got \in GotFields |-> FieldsFrom(f, P, k, got)] ELSE P[i]]
<1>1. \A j \in k + 1 .. n + 1 : P[j] = Q[j]
  OBVIOUS
<1>2. ASSUME NEW i \in k .. n + 1
      PROVE  Q[i] = [got \in GotFields |-> FieldsFrom(f, Q, i, got)]
  <2>1. \A j \in i + 1 .. n + 1 : P[j] = Q[j]
    BY <1>1
  <2>2. i \in 1 .. n + 1
    OBVIOUS
  <2> HIDE DEF Q
  <2>3. \A got \in GotFields : FieldsFrom(f, P, i, got) = FieldsFrom(f, Q, i, got)
    <3>1. PICK R : R = Q
      OBVIOUS
    <3>2. \A j \in i + 1 .. n + 1 : P[j] = R[j]
      BY <2>1, <3>1
    <3>3. \A got \in GotFields : FieldsFrom(f, P, i, got) = FieldsFrom(f, R, i, got)
      BY <2>2, <3>2, LooksAhead, SMTT(30)
    <3> QED BY <3>1, <3>3
  <2>4. CASE i = k
    <3>1. Q[i] = [got \in GotFields |-> FieldsFrom(f, P, i, got)]
      BY <2>4 DEF Q
    <3> QED BY <2>3, <3>1, Zenon
  <2>5. CASE i # k
    <3>1. i \in k + 1 .. n + 1 /\ k # n + 1
      BY <2>5
    <3>2. Parsed(f, k + 1, P)
      BY <3>1
    <3>3. P[i] = [got \in GotFields |-> FieldsFrom(f, P, i, got)]
      BY <3>1, <3>2 DEF Parsed
    <3>4. Q[i] = P[i]
      BY <1>1, <3>1
    <3> QED BY <2>3, <3>3, <3>4, Zenon
  <2> QED BY <2>4, <2>5
<1>3. Q = [i \in k .. n + 1 |-> [got \in GotFields |-> FieldsFrom(f, Q, i, got)]]
  <2>1. Q = [i \in k .. n + 1 |-> Q[i]]
    OBVIOUS
  <2> HIDE DEF Q
  <2> QED BY <1>2, <2>1, Zenon
<1> HIDE DEF Q
<1> QED BY <1>3, Zenon DEF Parsed

\* All of them exist,
LEMMA ParsedExists ==
  ASSUME NEW f \in Seq(Byte) PROVE Parsed(f, 1, CHOOSE P : Parsed(f, 1, P))
<1>1. PICK n \in Nat : n = Len(f)
  OBVIOUS
<1> DEFINE S == {d \in 0 .. n : ~ \E P : Parsed(f, n + 1 - d, P)}
<1>2. S = {}
  <2> SUFFICES ASSUME S # {} PROVE FALSE
    OBVIOUS
  <2>1. S \in SUBSET Nat
    OBVIOUS
  <2> HIDE DEF S
  <2>2. PICK d \in S : \A m \in S : d <= m
    BY <2>1, Least
  <2>3. PICK k \in 1 .. n + 1 : k = n + 1 - d
    BY <2>2 DEF S
  <2>4. ~ \E P : Parsed(f, k, P)
    BY <2>2, <2>3 DEF S
  <2>5. CASE d = 0
    BY <1>1, <2>3, <2>4, <2>5, ParsedMore
  <2>6. CASE d # 0
    <3>1. d - 1 \in 0 .. n /\ d - 1 \notin S /\ n + 1 - (d - 1) = k + 1
      BY <2>2, <2>3, <2>6, <2>1, SMTT(30) DEF S
    <3>2. PICK P : Parsed(f, k + 1, P)
      BY <3>1 DEF S
    <3> QED BY <1>1, <2>4, <3>2, ParsedMore
  <2> QED BY <2>5, <2>6
<1>3. \E P : Parsed(f, 1, P)
  <2>1. n \in 0 .. n /\ n + 1 - n = 1
    OBVIOUS
  <2> QED BY <1>2, <2>1
<1> QED BY <1>3

\* The fields are a list with a bad one, or one whose last ends with the line.
FieldSet == FieldRec \cup {BadField}
Complete(s) ==
    /\ s \in Seq(FieldSet) /\ s # <<>>
    /\ BadField \in Range(s) \/ s[Len(s)].ending = "CRLF"

\* A list of one field is complete,
LEMMA CompleteOne ==
  /\ Complete(<<BadField>>)
  /\ \A r \in FieldRec : r.ending = "CRLF" => Complete(<<r>>)
<1>1. Complete(<<BadField>>)
  <2>1. <<BadField>> \in Seq(FieldSet) /\ <<BadField>> # <<>>
    BY DEF FieldSet
  <2>2. BadField \in Range(<<BadField>>)
    BY DEF Range
  <2> QED BY <2>1, <2>2 DEF Complete
<1>2. ASSUME NEW r \in FieldRec, r.ending = "CRLF" PROVE Complete(<<r>>)
  <2>1. <<r>> \in Seq(FieldSet) /\ <<r>> # <<>> /\ Len(<<r>>) = 1 /\ <<r>>[1] = r
    BY DEF FieldSet
  <2> QED BY <1>2, <2>1 DEF Complete
<1> QED BY <1>1, <1>2

\* and one with a field more before it;
LEMMA CompleteMore ==
  ASSUME NEW r \in FieldRec, NEW s, Complete(s)
  PROVE  Complete(<<r>> \o s)
<1>1. r \in FieldSet /\ s \in Seq(FieldSet)
  BY DEF FieldSet, Complete
<1>2. PICK n \in Nat : n = Len(s)
  BY <1>1
<1>3. n # 0
  <2> SUFFICES ASSUME n = 0 PROVE FALSE
    OBVIOUS
  <2>1. Len(s) = 0
    BY <1>2
  <2> QED BY <1>1, <2>1, EmptyIs DEF Complete
<1>4. PICK t \in Seq(FieldSet) : /\ t = <<r>> \o s /\ Len(t) = n + 1
                                 /\ \A i \in 1 .. n : t[i + 1] = s[i]
  <2>1. /\ <<r>> \o s \in Seq(FieldSet) /\ Len(<<r>> \o s) = n + 1
        /\ \A i \in 1 .. n : (<<r>> \o s)[i + 1] = s[i]
    <3>1. Len(s) = n
      BY <1>2
    <3> QED BY <1>1, <3>1, ConsIs
  <2> QED BY <2>1, Zenon
<1>5. t # <<>>
  BY <1>2, <1>4
<1>6. CASE BadField \in Range(s)
  <2>1. PICK i \in 1 .. n : s[i] = BadField
    BY <1>1, <1>2, <1>6 DEF Range
  <2>2. i + 1 \in DOMAIN t /\ t[i + 1] = BadField
    BY <1>4, <2>1
  <2>3. BadField \in Range(t)
    BY <2>2 DEF Range
  <2> QED BY <1>4, <1>5, <2>3 DEF Complete
<1>7. CASE s[Len(s)].ending = "CRLF"
  <2>1. n \in 1 .. n
    BY <1>3
  <2>2. t[Len(t)] = s[Len(s)]
    BY <1>2, <1>4, <2>1
  <2> QED BY <1>4, <1>5, <1>7, <2>2 DEF Complete
<1> QED BY <1>6, <1>7 DEF Complete

\* so the fields of a format are complete.
LEMMA ParsedComplete ==
  ASSUME NEW f \in Seq(Byte), NEW P, Parsed(f, 1, P)
  PROVE  Complete(P[1]["NONE"])
<1>1. PICK n \in Nat : n = Len(f)
  OBVIOUS
<1>2. ASSUME NEW i \in 1 .. n + 1, NEW got \in GotFields
      PROVE  P[i][got] = FieldsFrom(f, P, i, got)
  BY <1>1 DEF Parsed
<1> DEFINE S == {d \in 0 .. n : \E got \in GotFields : ~ Complete(P[n + 1 - d][got])}
<1>3. S = {}
  <2> SUFFICES ASSUME S # {} PROVE FALSE
    OBVIOUS
  <2>1. S \in SUBSET Nat
    OBVIOUS
  <2> HIDE DEF S
  <2>2. PICK d \in S : \A m \in S : d <= m
    BY <2>1, Least
  <2>3. PICK i \in 1 .. n + 1 : i = n + 1 - d /\ d \in 0 .. n
    BY <2>2 DEF S
  <2>4. PICK got \in GotFields : ~ Complete(P[i][got])
    BY <2>2, <2>3 DEF S
  <2>5. ~ Complete(FieldsFrom(f, P, i, got))
    BY <1>2, <2>4
  <2>6. ASSUME NEW j \in i + 1 .. n + 1, NEW g \in GotFields PROVE Complete(P[j][g])
    <3>1. n + 1 - j \in 0 .. n /\ n + 1 - j < d /\ n + 1 - (n + 1 - j) = j
      BY <2>3
    <3>2. n + 1 - j \notin S
      BY <2>1, <2>2, <2>3, <3>1
    <3> QED BY <3>1, <3>2 DEF S
  <2>7. CASE \A R : FieldsFrom(f, R, i, got) = <<BadField>>
    BY <2>5, <2>7, CompleteOne
  <2>8. CASE \E r \in FieldRec : r.ending = "CRLF" /\ \A R : FieldsFrom(f, R, i, got) = <<r>>
    BY <2>5, <2>8, CompleteOne
  <2>9. CASE \E j \in i + 1 .. n + 1, g \in GotFields :
               \A R : FieldsFrom(f, R, i, got) = R[j][g]
    BY <2>5, <2>6, <2>9
  <2>10. CASE \E j \in i + 1 .. n + 1, r \in FieldRec :
                \A R : FieldsFrom(f, R, i, got) = <<r>> \o R[j]["NONE"]
    <3>1. PICK j \in i + 1 .. n + 1, r \in FieldRec :
             FieldsFrom(f, P, i, got) = <<r>> \o P[j]["NONE"]
      BY <2>10
    <3>2. Complete(P[j]["NONE"])
      BY <2>6 DEF GotFields
    <3> QED BY <2>5, <3>1, <3>2, CompleteMore
  <2> QED BY <1>1, <2>7, <2>8, <2>9, <2>10, FourKinds
<1>4. n \in 0 .. n /\ n + 1 - n = 1 /\ "NONE" \in GotFields
  BY DEF GotFields
<1> QED BY <1>3, <1>4

\* A format that is not rejected has a last field, which ends with the line.
LEMMA FormatEnds ==
  ASSUME NEW f \in Formats, Fields[f] # <<>>
  PROVE  \E n \in Nat \ {0} : DOMAIN Fields[f] = 1 .. n /\ Fields[f][n].ending = "CRLF"
<1>1. f \in Seq(Byte)
  BY UltraAssumption
<1>2. PICK P : P = CHOOSE Q : Parsed(f, 1, Q)
  OBVIOUS
<1>3. Complete(P[1]["NONE"])
  BY <1>1, <1>2, ParsedExists, ParsedComplete
<1>4. PICK s : s = P[1]["NONE"]
  OBVIOUS
<1>5. ParseLogFormat(f) = IF f = <<>> \/ BadField \in Range(s) THEN <<>> ELSE s
  BY <1>2, <1>4, ParseLogFormatIs
<1>6. Fields[f] = ParseLogFormat(f)
  BY DEF Fields
<1>7. Fields[f] = s /\ BadField \notin Range(s)
  BY <1>5, <1>6
<1>8. s \in Seq(FieldSet) /\ s # <<>> /\ s[Len(s)].ending = "CRLF"
  BY <1>3, <1>4, <1>7 DEF Complete
<1>9. PICK n \in Nat : n = Len(s) /\ DOMAIN s = 1 .. n
  BY <1>8
<1>10. n # 0
  <2> SUFFICES ASSUME n = 0 PROVE FALSE
    OBVIOUS
  <2>1. Len(s) = 0
    BY <1>9
  <2> QED BY <1>8, <2>1, EmptyIs
<1> QED BY <1>7, <1>8, <1>9, <1>10

-----------------------------------------------------------------------------
(* The steps *)

\* The parser stays inside the table of the format and the line buffer.
BufferInv ==
    /\ format \in Formats /\ log \in Seq(Byte)
    /\ offs0 \in Nat /\ pos <= offs0 /\ offs0 <= Len(log)
    /\ InBuffer(parser)
    /\ Fields[format] # <<>> => parser.state_pos \in DOMAIN Fields[format]
UltraInv == LinesInv /\ BufferInv

\* A byte that is parsed is one of the log, and the end of a line or not.
LEMMA ConsumeIs ==
  ASSUME UltraInv, Consume
  PROVE  /\ Byte1 \in Byte /\ LineEnds \in Nat
         /\ LineEnds' = LineEnds + (IF Class(Byte1) = "CRLF" THEN 1 ELSE 0)
         /\ pos' \in Nat /\ pos' <= offs0 /\ Fields[format] # <<>>
         /\ UNCHANGED <<format, log, offs0, phase>>
<1>1. /\ pos \in Nat /\ offs0 \in Nat /\ pos < offs0 /\ offs0 <= Len(log) /\ log \in Seq(Byte)
      /\ pos' = pos + 1 /\ UNCHANGED <<format, log, offs0, phase>> /\ Fields[format] # <<>>
  BY DEF UltraInv, LinesInv, BufferInv, Consume, Running
<1>2. Byte1 \in Byte
  BY <1>1 DEF Byte1
<1>3. LineEnds = Cardinality(Ends(pos)) /\ LineEnds' = Cardinality(Ends(pos + 1))
  BY <1>1 DEF LineEnds, Ends
<1>4. LineEnds \in Nat
  BY <1>1, <1>3, FiniteEnds
<1>5. LineEnds' = LineEnds + (IF Class(Byte1) = "CRLF" THEN 1 ELSE 0)
  BY <1>1, <1>3, OneMoreByte DEF Byte1
<1> QED BY <1>1, <1>2, <1>4, <1>5

\* What a step of the parser has to show.
LEMMA ParserStep ==
  ASSUME UltraInv, Consume, InBuffer(parser'),
         parser.state_pos \in DOMAIN Fields[format] =>
            parser'.state_pos \in DOMAIN Fields[format]
  PROVE  BufferInv'
<1>1. /\ pos' <= offs0 /\ Fields[format] # <<>>
      /\ UNCHANGED <<format, log, offs0, phase>>
  BY ConsumeIs
<1>2. (Fields[format])' = Fields[format]
  BY <1>1
<1>3. InBuffer(parser')
  OBVIOUS
<1> QED BY <1>1, <1>2, <1>3 DEF UltraInv, BufferInv

\* A state of the format is left for the one behind it only when the field
\* did not end with the line.
LEMMA TableIs ==
  ASSUME UltraInv, Fields[format] # <<>>
  PROVE  /\ 1 \in DOMAIN Fields[format]
         /\ parser.state_pos \in DOMAIN Fields[format]
         /\ Fields[format][parser.state_pos].ending # "CRLF" =>
               parser.state_pos + 1 \in DOMAIN Fields[format]
<1>1. PICK n \in Nat \ {0} :
         DOMAIN Fields[format] = 1 .. n /\ Fields[format][n].ending = "CRLF"
  BY FormatEnds DEF UltraInv, BufferInv
<1>2. parser.state_pos \in 1 .. n
  BY <1>1 DEF UltraInv, BufferInv
<1>3. Fields[format][parser.state_pos].ending # "CRLF" => parser.state_pos # n
  BY <1>1
<1> QED BY <1>1, <1>2, <1>3

\* A byte inside a field keeps the invariant,
LEMMA InFieldKeeps == ASSUME UltraInv, InField PROVE UltraInv'
<1>1. Consume /\ ~ parser.skipping /\ Class(Byte1) # "CRLF" /\ Counted
      /\ parser' = BufSet(parser, Byte1)
      /\ broken' = IF parser'.skipping THEN broken + 1 ELSE broken
  BY DEF InField
<1>2. PICK c \in Byte : c = Byte1
  BY <1>1, ConsumeIs
<1>3. InBuffer(parser) /\ parser.skipping = FALSE
  BY <1>1 DEF UltraInv, BufferInv, LinesInv
<1>4. InBuffer(BufSet(parser, c)) /\ BufSet(parser, c).state_pos = parser.state_pos
  BY <1>3, BufSetIs
<1>5. InBuffer(parser') /\ parser'.state_pos = parser.state_pos
  BY <1>1, <1>2, <1>4
<1>6. BufferInv'
  BY <1>1, <1>5, ParserStep
<1>7. parser'.skipping \in BOOLEAN
  BY <1>5, SkippingIs DEF InBuffer
<1>8. LineEnds \in Nat /\ LineEnds' = LineEnds /\ pos' \in Nat
  BY <1>1, ConsumeIs
<1>9. LinesInv'
  BY <1>1, <1>3, <1>7, <1>8 DEF UltraInv, LinesInv, Counted
<1> QED BY <1>6, <1>9 DEF UltraInv

\* the end of a field does,
LEMMA EndOfFieldKeeps == ASSUME UltraInv, EndOfField PROVE UltraInv'
<1>1. Consume /\ ~ parser.skipping /\ Class(Byte1) # "CRLF" /\ Counted
      /\ Fields[format][parser.state_pos].ending = Class(Byte1)
      /\ parser' \in ProcessField(parser)
      /\ broken' = IF parser'.skipping THEN broken + 1 ELSE broken
  BY DEF EndOfField
<1>3. InBuffer(parser) /\ parser.skipping = FALSE
  BY <1>1 DEF UltraInv, BufferInv, LinesInv
<1>4. /\ InBuffer(parser')
      /\ parser'.skipping => parser'.state_pos = parser.state_pos
      /\ ~ parser'.skipping => parser'.state_pos = parser.state_pos + 1
  <2>1. PICK r : r = parser'
    OBVIOUS
  <2>2. r \in ProcessField(parser)
    BY <1>1, <2>1
  <2>3. /\ InBuffer(r)
        /\ r.skipping => r.state_pos = parser.state_pos
        /\ ~ r.skipping => r.state_pos = parser.state_pos + 1
    BY <1>3, <2>2, ProcessIs
  <2> QED BY <2>1, <2>3
<1>5. parser'.state_pos \in DOMAIN Fields[format]
  <2>1. Fields[format] # <<>>
    BY <1>1, ConsumeIs
  <2> QED BY <1>1, <1>4, <2>1, TableIs
<1>6. BufferInv'
  BY <1>1, <1>4, <1>5, ParserStep
<1>7. parser'.skipping \in BOOLEAN
  BY <1>4, SkippingIs DEF InBuffer
<1>8. LineEnds \in Nat /\ LineEnds' = LineEnds /\ pos' \in Nat
  BY <1>1, ConsumeIs
<1>9. LinesInv'
  BY <1>1, <1>3, <1>7, <1>8 DEF UltraInv, LinesInv, Counted
<1> QED BY <1>6, <1>9 DEF UltraInv

\* the end of a broken line,
LEMMA BrokenAtEndKeeps == ASSUME UltraInv, BrokenAtEnd PROVE UltraInv'
<1>1. Consume /\ ~ parser.skipping /\ Class(Byte1) = "CRLF" /\ Counted
      /\ broken' = broken + 1
  BY DEF BrokenAtEnd
<1>2. PICK p \in ProcessField(parser) :
         \/ p.skipping /\ parser' = p
         \/ ~ p.skipping /\ parser' = NextLine(p)
  BY DEF BrokenAtEnd
<1>3. InBuffer(parser) /\ parser.skipping = FALSE
  BY <1>1 DEF UltraInv, BufferInv, LinesInv
<1>4. InBuffer(p) /\ (p.skipping => p.state_pos = parser.state_pos)
  BY <1>2, <1>3, ProcessIs
<1>5. Record(p)
  BY <1>4 DEF InBuffer
<1>6. InBuffer(NextLine(p)) /\ NextLine(p).state_pos = 1
  BY <1>5, NextLineIs
<1>7. InBuffer(parser') /\ (parser'.state_pos = parser.state_pos \/ parser'.state_pos = 1)
  BY <1>2, <1>4, <1>6
<1>8. 1 \in DOMAIN Fields[format]
  BY <1>1, ConsumeIs, TableIs
<1>9. BufferInv'
  BY <1>1, <1>7, <1>8, ParserStep
<1>10. parser'.skipping \in BOOLEAN
  BY <1>7, SkippingIs DEF InBuffer
<1>11. LineEnds \in Nat /\ LineEnds' = LineEnds + 1 /\ pos' \in Nat
  BY <1>1, ConsumeIs
<1>12. LinesInv'
  BY <1>1, <1>3, <1>10, <1>11 DEF UltraInv, LinesInv, Counted
<1> QED BY <1>9, <1>12 DEF UltraInv

\* the end of a line that counts,
LEMMA EndOfLineKeeps == ASSUME UltraInv, EndOfLine PROVE UltraInv'
<1>1. Consume /\ ~ parser.skipping /\ Class(Byte1) = "CRLF"
      /\ lines' = lines + 1 /\ UNCHANGED broken
  BY DEF EndOfLine
<1>2. PICK p \in ProcessField(parser) : \E n : parser' = [NextLine(p) EXCEPT !.tmpinteger = n]
  <2>1. PICK p \in ProcessField(parser) :
          parser' = [NextLine(p) EXCEPT !.tmpinteger =
                       IF p.buf_points["CODE"] \in FoundCodes \cup MovedCodes
                       THEN Len(TextOf(p, "REFER")) ELSE NextLine(p).tmpinteger]
    BY DEF EndOfLine
  <2> QED BY <2>1
<1>3. InBuffer(parser) /\ parser.skipping = FALSE
  BY <1>1 DEF UltraInv, BufferInv, LinesInv
<1>4. InBuffer(p)
  BY <1>2, <1>3, ProcessIs
<1>5. Record(p)
  BY <1>4 DEF InBuffer
<1>6. PICK n, q : q = NextLine(p) /\ parser' = [q EXCEPT !.tmpinteger = n]
  BY <1>2
<1>7. InBuffer(q) /\ q.skipping = FALSE /\ q.state_pos = 1
  BY <1>5, <1>6, NextLineIs
<1>8. InBuffer(parser') /\ parser'.skipping = FALSE /\ parser'.state_pos = 1
  BY <1>6, <1>7, NumberIs
<1>9. 1 \in DOMAIN Fields[format]
  BY <1>1, ConsumeIs, TableIs
<1>10. BufferInv'
  BY <1>1, <1>8, <1>9, ParserStep
<1>11. LineEnds \in Nat /\ LineEnds' = LineEnds + 1 /\ pos' \in Nat
  BY <1>1, ConsumeIs
<1>12. LinesInv'
  <2>1. /\ lines \in Nat /\ broken \in Nat
        /\ lines + broken <= LineEnds /\ LineEnds <= lines + 2 * broken
    BY <1>3, <1>11 DEF UltraInv, LinesInv
  <2>2. /\ lines' \in Nat /\ broken' \in Nat
        /\ lines' + broken' <= LineEnds' /\ LineEnds' <= lines' + 2 * broken'
    BY <1>1, <1>11, <2>1
  <2>3. parser'.skipping \in BOOLEAN /\ (IF parser'.skipping THEN 1 ELSE 0) = 0
    BY <1>8, Zenon
  <2>4. LineEnds' \in Nat
    BY <1>11
  <2>5. /\ lines' + broken' <= LineEnds' + (IF parser'.skipping THEN 1 ELSE 0)
        /\ LineEnds' + (IF parser'.skipping THEN 1 ELSE 0) <= lines' + 2 * broken'
    <3>1. PICK e : e = IF parser'.skipping THEN 1 ELSE 0
      OBVIOUS
    <3>2. e = 0
      BY <2>3, <3>1, Zenon
    <3>3. LineEnds' + e = LineEnds'
      <4>1. \A m \in Nat : m + 0 = m
        OBVIOUS
      <4> QED BY <2>4, <3>2, <4>1, Zenon
    <3>4. lines' + broken' <= LineEnds' + e /\ LineEnds' + e <= lines' + 2 * broken'
      BY <2>2, <3>3, Zenon
    <3> QED BY <3>1, <3>4, Zenon
  <2> QED BY <1>11, <2>2, <2>3, <2>5, Zenon DEF LinesInv
<1> QED BY <1>10, <1>12 DEF UltraInv

\* a byte that is thrown away,
LEMMA SkipKeeps == ASSUME UltraInv, Skip PROVE UltraInv'
<1>1. Consume /\ parser.skipping /\ parser' = SkipByte(parser, Byte1)
      /\ UNCHANGED broken /\ Counted
  BY DEF Skip
<1>2. InBuffer(parser) /\ parser.skipping = TRUE /\ Record(parser)
  BY <1>1 DEF UltraInv, BufferInv, LinesInv, InBuffer
<1>3. LineEnds \in Nat /\ pos' \in Nat
  BY <1>1, ConsumeIs
<1>4. CASE Class(Byte1) = "CRLF"
  <2>1. parser' = NextLine(parser)
    BY <1>1, <1>4 DEF SkipByte
  <2>2. InBuffer(parser') /\ parser'.skipping = FALSE /\ parser'.state_pos = 1
    BY <1>2, <2>1, NextLineIs
  <2>3. 1 \in DOMAIN Fields[format]
    BY <1>1, ConsumeIs, TableIs
  <2>4. BufferInv'
    BY <1>1, <2>2, <2>3, ParserStep
  <2>5. LineEnds' = LineEnds + 1
    BY <1>1, <1>4, ConsumeIs
  <2>6. LinesInv'
    <3>1. /\ lines \in Nat /\ broken \in Nat
          /\ lines + broken <= LineEnds + 1 /\ LineEnds + 1 <= lines + 2 * broken
      BY <1>2, <1>3 DEF UltraInv, LinesInv
    <3>2. /\ lines' \in Nat /\ broken' \in Nat
          /\ lines' + broken' <= LineEnds' /\ LineEnds' <= lines' + 2 * broken'
      BY <1>1, <1>3, <2>5, <3>1 DEF Counted
    <3>3. parser'.skipping \in BOOLEAN /\ (IF parser'.skipping THEN 1 ELSE 0) = 0
      BY <2>2, Zenon
    <3>4. LineEnds' \in Nat
      BY <1>3, <2>5
    <3>5. /\ lines' + broken' <= LineEnds' + (IF parser'.skipping THEN 1 ELSE 0)
          /\ LineEnds' + (IF parser'.skipping THEN 1 ELSE 0) <= lines' + 2 * broken'
      <4>1. PICK e : e = IF parser'.skipping THEN 1 ELSE 0
        OBVIOUS
      <4>2. e = 0
        BY <3>3, <4>1, Zenon
      <4>3. LineEnds' + e = LineEnds'
        <5>1. \A m \in Nat : m + 0 = m
          OBVIOUS
        <5> QED BY <3>4, <4>2, <5>1, Zenon
      <4>4. lines' + broken' <= LineEnds' + e /\ LineEnds' + e <= lines' + 2 * broken'
        BY <3>2, <4>3, Zenon
      <4> QED BY <4>1, <4>4, Zenon
    <3> QED BY <1>3, <3>2, <3>3, <3>5, Zenon DEF LinesInv
  <2> QED BY <2>4, <2>6 DEF UltraInv
<1>5. CASE Class(Byte1) # "CRLF"
  <2>1. parser' = parser
    BY <1>1, <1>5 DEF SkipByte
  <2>2. BufferInv'
    BY <1>1, <1>2, <2>1, ParserStep
  <2>3. LineEnds' = LineEnds
    BY <1>1, <1>3, <1>5, ConsumeIs
  <2>4. LinesInv'
    BY <1>1, <1>2, <1>3, <2>1, <2>3 DEF UltraInv, LinesInv, Counted
  <2> QED BY <2>2, <2>4 DEF UltraInv
<1> QED BY <1>4, <1>5

\* The lesser of two numbers.
LEMMA MinOfTwo ==
  ASSUME NEW a \in Int, NEW b \in Int
  PROVE  Min({a, b}) \in {a, b} /\ Min({a, b}) <= a /\ Min({a, b}) <= b
<1>1. \E x \in {a, b} : \A y \in {a, b} : x <= y
  <2>1. CASE a <= b
    BY <2>1
  <2>2. CASE b <= a
    BY <2>2
  <2> QED BY <2>1, <2>2
<1> QED BY <1>1 DEF Min

\* and the next block of the file.
LEMMA ReadKeeps == ASSUME UltraInv, Read PROVE UltraInv'
<1>1. /\ offs0' = Min({offs0 + ReadBlockSize, Len(log)}) /\ pos = offs0
      /\ offs0 < Len(log)
      /\ UNCHANGED <<format, log, pos, parser, lines, broken>>
  BY DEF Read
<1>2. PICK n, m : n = Len(log) /\ m = offs0 + ReadBlockSize
  OBVIOUS
<1>3. offs0 \in Nat /\ n \in Nat /\ m \in Nat /\ offs0 < n /\ offs0 <= m
  BY <1>1, <1>2, UltraAssumption DEF UltraInv, BufferInv
<1>4. Min({m, n}) \in {m, n} /\ Min({m, n}) <= n
  BY <1>3, MinOfTwo
<1>5. offs0' \in Nat /\ pos <= offs0' /\ offs0' <= Len(log)
  BY <1>1, <1>2, <1>3, <1>4
<1>6. InBuffer(parser) <=> InBuffer(parser')
  BY <1>1
<1>7. BufferInv'
  BY <1>1, <1>5, <1>6 DEF UltraInv, BufferInv
<1>8. LineEnds' = LineEnds
  BY <1>1 DEF LineEnds
<1>9. LinesInv'
  BY <1>1, <1>8 DEF UltraInv, LinesInv
<1> QED BY <1>7, <1>9 DEF UltraInv

\* The steps that leave the parser and the counts alone keep it.
LEMMA FrameKeeps ==
  ASSUME UltraInv, UNCHANGED <<format, log, offs0, pos, parser, lines, broken>>
  PROVE  UltraInv'
<1>1. InBuffer(parser) <=> InBuffer(parser')
  OBVIOUS
<1>2. BufferInv'
  BY <1>1 DEF UltraInv, BufferInv
<1>3. LineEnds' = LineEnds
  BY DEF LineEnds
<1>4. LinesInv'
  BY <1>3 DEF UltraInv, LinesInv
<1> QED BY <1>2, <1>4 DEF UltraInv

\* It holds in the beginning.
LEMMA UltraInit == Init => UltraInv
<1> SUFFICES ASSUME Init PROVE UltraInv
  OBVIOUS
<1>1. /\ format \in Formats /\ log \in Seq(Byte) /\ offs0 = 0 /\ pos = 0
      /\ parser = NewParser /\ lines = 0 /\ broken = 0
  BY UltraAssumption DEF Init
<1>2. InBuffer(parser) /\ parser.skipping = FALSE /\ parser.state_pos = 1
  BY <1>1, NewParserIs
<1>3. ASSUME Fields[format] # <<>> PROVE 1 \in DOMAIN Fields[format]
  <2>1. PICK n \in Nat \ {0} : DOMAIN Fields[format] = 1 .. n
    BY <1>1, <1>3, FormatEnds
  <2> QED BY <2>1
<1>4. BufferInv
  BY <1>1, <1>2, <1>3 DEF BufferInv
<1>5. LineEnds = 0
  <2>1. {i \in 1 .. pos : Class(log[i]) = "CRLF"} = {}
    BY <1>1
  <2> QED BY <2>1, FS_EmptySet DEF LineEnds
<1>6. LinesInv
  <2>1. (IF parser.skipping THEN 1 ELSE 0) = 0 /\ parser.skipping \in BOOLEAN
    BY <1>2, Zenon
  <2>2. PICK e : e = IF parser.skipping THEN 1 ELSE 0
    OBVIOUS
  <2>3. e = 0
    BY <2>1, <2>2, Zenon
  <2>4. /\ pos \in Nat /\ lines \in Nat /\ broken \in Nat
        /\ lines + broken <= LineEnds + e /\ LineEnds + e <= lines + 2 * broken
    BY <1>1, <1>5, <2>3
  <2> QED BY <2>1, <2>2, <2>4, Zenon DEF LinesInv
<1> QED BY <1>4, <1>6 DEF UltraInv

\* Every state has its counts of lines right and its parser inside the
\* tables.
THEOREM UltraAlways == Spec => []UltraInv
<1>1. ASSUME UltraInv, [Next]_vars PROVE UltraInv'
  <2>1. CASE BadFormat \/ Cleanup \/ UNCHANGED vars
    BY <1>1, <2>1, FrameKeeps DEF BadFormat, Cleanup, vars
  <2> QED BY <1>1, <2>1, ReadKeeps, InFieldKeeps, EndOfFieldKeeps, BrokenAtEndKeeps,
             EndOfLineKeeps, SkipKeeps DEF Next
<1> QED BY UltraInit, <1>1, PTL DEF Spec

(* The automaton stays inside the states that parse_log_format() made, and *)
(* the line buffer inside the MAX_LINE_LEN bytes that ultraparse()         *)
(* allocated, with all that points into it.                                *)
THEOREM InsideTheTablesTheorem == Spec => []InsideTheTables
<1>1. UltraInv => InsideTheTables
  BY UltraAssumption DEF UltraInv, BufferInv, InBuffer, InsideTheTables, Running
<1> QED BY UltraAlways, <1>1, PTL

(* The "Total lines, broken lines" of ultraparse() account for every end   *)
(* of a line that was read.                                                *)
THEOREM LinesAccountedTheorem == Spec => []LinesAccounted
<1>1. ASSUME UltraInv PROVE LinesAccounted
  <2>1. PICK e : e = IF parser.skipping THEN 1 ELSE 0
    OBVIOUS
  <2>2. e \in {0, 1}
    BY <2>1
  <2>3. LineEnds \in Nat
    <3>1. pos \in Nat
      BY <1>1 DEF UltraInv, LinesInv
    <3> QED BY <3>1, FiniteEnds DEF LineEnds, Ends
  <2>4. /\ lines \in Nat /\ broken \in Nat
        /\ lines + broken <= LineEnds + e /\ LineEnds + e <= lines + 2 * broken
    BY <1>1, <2>1 DEF UltraInv, LinesInv
  <2>5. lines + broken <= LineEnds + e /\ LineEnds <= lines + 2 * broken
    BY <2>2, <2>3, <2>4
  <2> QED BY <2>1, <2>5 DEF LinesAccounted
<1> QED BY UltraAlways, <1>1, PTL

-----------------------------------------------------------------------------
(* Tables *)

\* A table of numbers.
Tab(m) == IsFiniteSet(DOMAIN m) /\ Numbers(m, DOMAIN m)

LEMMA TotalIs == ASSUME NEW m, Tab(m) PROVE Total(m) = SumOf(m, DOMAIN m) /\ Total(m) \in Int
<1>1. Total(m) = SumOf(m, DOMAIN m)
  BY Zenon DEF Total, SumOf
<1> QED BY <1>1, SumTakes DEF Tab

\* An empty one,
LEMMA TotalEmpty == Tab(Empty) /\ Total(Empty) = 0
<1>1. DOMAIN Empty = {}
  BY DEF Empty
<1>2. Tab(Empty)
  BY <1>1, FS_EmptySet DEF Tab, Numbers
<1> QED BY <1>1, <1>2, TotalIs, SumTakes DEF Tab

\* and one with n more for a key.
LEMMA TotalAdd ==
  ASSUME NEW m, Tab(m), NEW k, NEW n \in Int
  PROVE  Tab(MapAdd(m, k, n)) /\ Total(MapAdd(m, k, n)) = Total(m) + n
<1>1. PICK D, a : D = DOMAIN m /\ a = MapAdd(m, k, n)
  OBVIOUS
<1>2. DOMAIN a = D \cup {k} /\ a[k] = Count(m, k) + n /\ \A x \in D \ {k} : a[x] = m[x]
  BY <1>1 DEF MapAdd, Insert
<1>3. IsFiniteSet(D) /\ Numbers(m, D) /\ Count(m, k) \in Int
  BY <1>1 DEF Tab, Numbers, Count
<1>4. Tab(a)
  <2>1. IsFiniteSet(D \cup {k})
    BY <1>3, FS_AddElement
  <2>2. Numbers(a, D \cup {k})
    BY <1>2, <1>3 DEF Numbers
  <2> QED BY <1>2, <2>1, <2>2 DEF Tab
<1>5. PICK R : R = D \ {k}
  OBVIOUS
<1>6. IsFiniteSet(R) /\ Numbers(m, R) /\ SameOn(m, a, R)
  BY <1>2, <1>3, <1>5, FS_Subset DEF Numbers, SameOn
<1>7. SumOf(m, R) = SumOf(a, R)
  BY <1>6, SumSame
<1>8. PICK x \in Int : x = SumOf(a, R)
  <2>1. SumOf(m, R) \in Int
    BY <1>6, SumTakes
  <2> QED BY <1>7, <2>1
<1>9. Total(a) = Count(m, k) + n + x
  <2>1. PICK E : E = D \cup {k}
    OBVIOUS
  <2>2. E \ {k} = R /\ k \in E /\ DOMAIN a = E
    BY <1>2, <1>5, <2>1
  <2>3. SumOf(a, E) = a[k] + SumOf(a, E \ {k})
    BY <1>4, <2>2, SumTakes DEF Tab
  <2>4. Total(a) = SumOf(a, E)
    BY <1>4, <2>2, TotalIs
  <2> QED BY <1>2, <1>8, <2>2, <2>3, <2>4
<1>10. Total(m) = Count(m, k) + x
  <2>1. Total(m) = SumOf(m, D)
    BY <1>1, TotalIs
  <2>2. CASE k \in D
    <3>1. SumOf(m, D) = m[k] + SumOf(m, R)
      BY <1>3, <1>5, <2>2, SumTakes
    <3> QED BY <1>1, <1>7, <1>8, <2>1, <2>2, <3>1 DEF Count
  <2>3. CASE k \notin D
    <3>1. R = D /\ Count(m, k) = 0
      BY <1>1, <1>5, <2>3 DEF Count
    <3> QED BY <1>7, <1>8, <2>1, <3>1
  <2> QED BY <2>2, <2>3
<1> QED BY <1>1, <1>3, <1>4, <1>8, <1>9, <1>10

-----------------------------------------------------------------------------
(* Reports *)

\* The lines that the reports of s have counted.
Made(s) == FoldLeft(LAMBDA n, r : n + Total(r.day.hits_per_hour), 0, s)
AllTabs(s) == \A i \in DOMAIN s : Tab(s[i].day.hits_per_hour)
TotalsOf(s) == [i \in DOMAIN s |-> Total(s[i].day.hits_per_hour)]

\* The greatest of some of the numbers 1 .. n.
LEMMA MaxIs ==
  ASSUME NEW n \in Nat, NEW s \in SUBSET (1 .. n), s # {}
  PROVE  Max(s) \in s
<1> DEFINE U == {m \in Nat : \A i \in s : i <= m}
<1>1. n \in U /\ U \in SUBSET Nat
  OBVIOUS
<1>2. PICK m \in U : \A j \in U : m <= j
  <2> HIDE DEF U
  <2> QED BY <1>1, Least
<1>3. m \in Nat /\ \A i \in s : i <= m
  BY <1>2
<1>4. m \in s
  <2> SUFFICES ASSUME m \notin s PROVE FALSE
    OBVIOUS
  <2>1. \A i \in s : i <= m - 1 /\ i >= 1
    BY <1>3
  <2>2. m - 1 \in U
    <3>1. PICK i \in s : TRUE
      OBVIOUS
    <3>2. m - 1 \in Nat
      BY <1>3, <2>1, <3>1
    <3> QED BY <2>1, <3>2
  <2>3. m <= m - 1
    <3> HIDE DEF U
    <3> QED BY <1>2, <2>2
  <2> QED BY <1>3, <2>3
<1>5. \E x \in s : \A y \in s : x >= y
  BY <1>3, <1>4
<1> QED BY <1>5 DEF Max

\* The reports added up are the sum of theirs.
MadeTable(P, s) ==
    P = [t \in SUBSET DOMAIN s |->
            IF t = {} THEN 0 ELSE P[t \ {Max(t)}] + Total(s[Max(t)].day.hits_per_hour)]
LEMMA MadeIs ==
  ASSUME NEW R, NEW s \in Seq(R), AllTabs(s)
  PROVE  Made(s) = SumOf(TotalsOf(s), DOMAIN s) /\ Numbers(TotalsOf(s), DOMAIN s)
         /\ IsFiniteSet(DOMAIN s)
<1>1. PICK n \in Nat : DOMAIN s = 1 .. n
  OBVIOUS
<1>2. PICK D : D = DOMAIN s /\ IsFiniteSet(D) /\ D \in SUBSET D
  BY <1>1, FS_Interval
<1>3. PICK f : f = TotalsOf(s)
  OBVIOUS
<1>4. Numbers(f, D)
  BY <1>2, <1>3, TotalIs DEF Numbers, TotalsOf, AllTabs
<1>5. PICK pick : pick = [t \in SUBSET D |-> Max(t)]
  OBVIOUS
<1>6. Picks(pick, D)
  <2>1. \A t \in SUBSET (1 .. n) : t # {} => Max(t) \in t
    BY MaxIs
  <2> QED BY <1>1, <1>2, <1>5, <2>1 DEF Picks
<1>7. PICK it : Adds(it, f, pick, SUBSET D)
  BY <1>2, <1>6, AddsExist
<1>8. ASSUME NEW t \in SUBSET D
      PROVE  /\ pick[t] = Max(t)
             /\ t # {} => pick[t] \in t /\ pick[t] \in D
             /\ t # {} => Total(s[Max(t)].day.hits_per_hour) = f[pick[t]]
  BY <1>2, <1>3, <1>5, <1>6 DEF Picks, TotalsOf
<1>9. ASSUME NEW P, \A t \in SUBSET D : P[t] \in Int
      PROVE  MadeTable(P, s) <=> Adds(P, f, pick, SUBSET D)
  <2>1. ASSUME NEW t \in SUBSET D
        PROVE (IF t = {} THEN 0 ELSE P[t \ {Max(t)}] + Total(s[Max(t)].day.hits_per_hour))
              = Adding(P, f, pick, t)
    <3>1. CASE t = {}
      BY <3>1 DEF Adding
    <3>2. CASE t # {}
      <4>1. PICK u \in SUBSET D : u = t \ {pick[t]}
        OBVIOUS
      <4>2. P[u] \in Int /\ f[pick[t]] \in Int
        BY <1>4, <1>8, <1>9, <3>2 DEF Numbers
      <4>3. /\ P[t \ {Max(t)}] = P[u]
            /\ Total(s[Max(t)].day.hits_per_hour) = f[pick[t]]
        BY <1>8, <3>2, <4>1
      <4>4. P[u] + f[pick[t]] = f[pick[t]] + P[u]
        BY <4>2
      <4>5. Adding(P, f, pick, t) = f[pick[t]] + P[u]
        BY <3>2, <4>1, Zenon DEF Adding
      <4> QED BY <3>2, <4>3, <4>4, <4>5, Zenon
    <3> QED BY <3>1, <3>2
  <2>2. [t \in SUBSET D |->
            IF t = {} THEN 0 ELSE P[t \ {Max(t)}] + Total(s[Max(t)].day.hits_per_hour)]
        = [t \in SUBSET D |-> Adding(P, f, pick, t)]
    BY <2>1, Zenon
  <2> QED BY <1>2, <2>2, Zenon DEF MadeTable, Adds
<1>10. ASSUME NEW P, MadeTable(P, s) PROVE \A t \in SUBSET D : P[t] \in Int
  <2> DEFINE B == {t \in SUBSET D : P[t] \notin Int}
  <2>1. B = {}
    <3> SUFFICES ASSUME B # {} PROVE FALSE
      OBVIOUS
    <3>1. B \in SUBSET (SUBSET D)
      OBVIOUS
    <3> HIDE DEF B
    <3>2. PICK t \in B : \A k \in t : t \ {k} \notin B
      BY <1>2, <3>1, SmallestSet
    <3>3. t \in SUBSET D /\ P[t] \notin Int
      BY <3>2 DEF B
    <3>4. P[t] = IF t = {} THEN 0 ELSE P[t \ {Max(t)}] + Total(s[Max(t)].day.hits_per_hour)
      BY <1>2, <1>10, <3>3, Zenon DEF MadeTable
    <3>5. t # {}
      BY <3>3, <3>4
    <3>6. P[t] = P[t \ {pick[t]}] + f[pick[t]]
      BY <1>8, <3>3, <3>4, <3>5, Zenon
    <3>7. PICK u \in SUBSET D : u = t \ {pick[t]} /\ u \notin B
      BY <1>8, <3>2, <3>3, <3>5
    <3>8. P[u] \in Int /\ f[pick[t]] \in Int
      BY <1>4, <1>8, <3>3, <3>5, <3>7 DEF B, Numbers
    <3> QED BY <3>3, <3>6, <3>7, <3>8
  <2> QED BY <2>1
<1>11. \E P : MadeTable(P, s)
  <2>1. TakesAny(it, f, D)
    BY <1>2, <1>4, <1>6, <1>7, AnyFirst
  <2>2. \A t \in SUBSET D : it[t] \in Int
    BY <2>1 DEF TakesAny
  <2> QED BY <1>7, <1>9, <2>2
<1>12. PICK P : P = CHOOSE Q : MadeTable(Q, s)
  OBVIOUS
<1>13. MadeTable(P, s)
  BY <1>11, <1>12, Zenon
<1>14. Adds(P, f, pick, SUBSET D)
  BY <1>9, <1>10, <1>13
<1>15. P[D] = SumOf(f, D)
  <2>1. /\ IsFiniteSet(D) /\ Numbers(f, D) /\ Picks(pick, D)
        /\ Adds(P, f, pick, SUBSET D) /\ D \in SUBSET D
    BY <1>2, <1>4, <1>6, <1>14
  <2>2. HasSums(P, f, D)
    BY <2>1, TableIsSum
  <2> QED BY <2>1, <2>2 DEF HasSums
<1>16. Made(s) = P[D]
  BY <1>2, <1>12, Zenon DEF Made, FoldLeft, MapThenFoldSet, MadeTable
<1> QED BY <1>2, <1>3, <1>4, <1>15, <1>16

\* No reports have counted nothing,
LEMMA MadeNone == Made(<<>>) = 0
<1>1. AllTabs(<<>>) /\ <<>> \in Seq({}) /\ DOMAIN <<>> = {}
  BY DEF AllTabs
<1>2. Made(<<>>) = SumOf(TotalsOf(<<>>), {}) /\ Numbers(TotalsOf(<<>>), {}) /\ IsFiniteSet({})
  BY <1>1, MadeIs
<1> QED BY <1>2, SumTakes

\* and one more has counted its own.
LEMMA MadeMore ==
  ASSUME NEW R, NEW s \in Seq(R), NEW r, AllTabs(s), Tab(r.day.hits_per_hour)
  PROVE  /\ Made(Append(s, r)) = Made(s) + Total(r.day.hits_per_hour)
         /\ Made(s) \in Int /\ AllTabs(Append(s, r))
<1>1. PICK n \in Nat : n = Len(s) /\ DOMAIN s = 1 .. n
  OBVIOUS
<1>2. PICK a \in Seq(R \cup {r}) : a = Append(s, r)
  <2>1. s \in Seq(R \cup {r}) /\ r \in R \cup {r}
    OBVIOUS
  <2>2. PICK Q : Q = R \cup {r}
    OBVIOUS
  <2>3. Append(s, r) \in Seq(Q)
    BY <2>1, <2>2
  <2> QED BY <2>2, <2>3
<1>3. DOMAIN a = 1 .. n + 1 /\ a[n + 1] = r /\ \A i \in 1 .. n : a[i] = s[i]
  BY <1>1, <1>2
<1>4. AllTabs(a)
  BY <1>1, <1>3 DEF AllTabs
<1>5. PICK f, g : f = TotalsOf(s) /\ g = TotalsOf(a)
  OBVIOUS
<1>6. Made(s) = SumOf(f, 1 .. n) /\ Numbers(f, 1 .. n) /\ IsFiniteSet(1 .. n)
  BY <1>1, <1>5, MadeIs
<1>7. Made(a) = SumOf(g, 1 .. n + 1) /\ Numbers(g, 1 .. n + 1) /\ IsFiniteSet(1 .. n + 1)
  BY <1>3, <1>4, <1>5, MadeIs
<1>8. SameOn(f, g, 1 .. n) /\ g[n + 1] = Total(r.day.hits_per_hour)
  BY <1>1, <1>3, <1>5 DEF TotalsOf, SameOn
<1>9. SumOf(f, 1 .. n) = SumOf(g, 1 .. n) /\ SumOf(f, 1 .. n) \in Int
  BY <1>6, <1>8, SumSame, SumTakes
<1>10. SumOf(g, 1 .. n + 1) = g[n + 1] + SumOf(g, 1 .. n)
  <2>1. n + 1 \in 1 .. n + 1 /\ (1 .. n + 1) \ {n + 1} = 1 .. n
    OBVIOUS
  <2>2. \A k \in 1 .. n + 1 : SumOf(g, 1 .. n + 1) = g[k] + SumOf(g, (1 .. n + 1) \ {k})
    BY <1>7, SumTakes
  <2> QED BY <2>1, <2>2
<1>11. Total(r.day.hits_per_hour) \in Int
  BY TotalIs
<1> QED BY <1>2, <1>4, <1>6, <1>7, <1>8, <1>9, <1>10, <1>11

-----------------------------------------------------------------------------
(* Days *)

\* The reports of s: their tables, of one date each, and of the date they
\* are given with unless they are final.
OfOneDay(r) ==
    /\ Cardinality(DOMAIN r.day.dates) <= 1
    /\ ~ r.final => DOMAIN r.day.dates = {r.date}
ReportsOK(s) ==
    /\ s \in Seq({s[i] : i \in DOMAIN s}) /\ AllTabs(s)
    /\ \A i \in DOMAIN s : OfOneDay(s[i])

\* The day that is open has the lines of one date, the one of the last line,
\* and with the reports, none of which is final, all the lines so far.
OpenDay(d) == {"dates", "hits_per_hour"} \subseteq DOMAIN d /\ Tab(d.hits_per_hour)
DayInv ==
    /\ lines \in Nat /\ ReportsOK(reports)
    /\ OpenDay(day) /\ DOMAIN day.dates = IF last.date = 0 THEN {} ELSE {last.date}
    /\ phase = "run" => /\ Made(reports) + Total(day.hits_per_hour) = lines
                        /\ \A i \in DOMAIN reports : ~ reports[i].final
    /\ phase = "done" /\ (\E i \in DOMAIN reports : reports[i].final) => Made(reports) = lines

\* The ends of an hour, of a day, and a line in between.
LEMMA FlushKeeps ==
  ASSUME NEW d, NEW hr, NEW h, OpenDay(d)
  PROVE  /\ FlushHour(d, hr, h).dates = d.dates
         /\ FlushHour(d, hr, h).hits_per_hour = d.hits_per_hour
         /\ OpenDay(FlushHour(d, hr, h))
<1>1. /\ FlushHour(d, hr, h).dates = d.dates
      /\ FlushHour(d, hr, h).hits_per_hour = d.hits_per_hour
      /\ DOMAIN FlushHour(d, hr, h) = DOMAIN d
  BY DEF FlushHour, OpenDay
<1> QED BY <1>1, Zenon DEF OpenDay

LEMMA CountKeeps ==
  ASSUME NEW d, NEW hr, NEW p, OpenDay(d)
  PROVE  /\ DOMAIN CountInDay(d, hr, p).dates = DOMAIN d.dates \cup {DateOf(p)}
         /\ Total(CountInDay(d, hr, p).hits_per_hour) = Total(d.hits_per_hour) + 1
         /\ OpenDay(CountInDay(d, hr, p))
<1>1. /\ CountInDay(d, hr, p).dates = MapAdd(d.dates, DateOf(p), 1)
      /\ CountInDay(d, hr, p).hits_per_hour = MapAdd(d.hits_per_hour, p.buf_points["HOUR"], 1)
      /\ DOMAIN CountInDay(d, hr, p) = DOMAIN d
  BY DEF CountInDay, OpenDay
<1>2. PICK h, k, m, t : /\ h = p.buf_points["HOUR"] /\ k = DateOf(p)
                        /\ m = d.hits_per_hour /\ t = d.dates
  OBVIOUS
<1>3. Tab(m)
  BY <1>2 DEF OpenDay
<1>4. Tab(MapAdd(m, h, 1)) /\ Total(MapAdd(m, h, 1)) = Total(m) + 1
  BY <1>3, TotalAdd
<1>5. DOMAIN MapAdd(t, k, 1) = DOMAIN t \cup {k}
  BY DEF MapAdd, Insert
<1> QED BY <1>1, <1>2, <1>4, <1>5, Zenon DEF OpenDay

LEMMA SummaryKeeps ==
  ASSUME NEW d, NEW date, NEW final, OpenDay(d)
  PROVE  /\ Summary(d, date, final).day.dates = d.dates
         /\ Summary(d, date, final).day.hits_per_hour = d.hits_per_hour
         /\ Summary(d, date, final).date = date
  BY DEF Summary, OpenDay

LEMMA NewDayIs ==
  OpenDay(NewDay) /\ DOMAIN NewDay.dates = {} /\ Total(NewDay.hits_per_hour) = 0
<1>1. NewDay.dates = Empty /\ NewDay.hits_per_hour = Empty
      /\ {"dates", "hits_per_hour"} \subseteq DOMAIN NewDay
  BY DEF NewDay
<1>2. DOMAIN Empty = {}
  BY DEF Empty
<1> QED BY <1>1, <1>2, TotalEmpty, Zenon DEF OpenDay

\* One more report.
LEMMA ReportsMore ==
  ASSUME NEW s, ReportsOK(s), NEW r, Tab(r.day.hits_per_hour), OfOneDay(r)
  PROVE  /\ ReportsOK(Append(s, r)) /\ Made(s) \in Int
         /\ Made(Append(s, r)) = Made(s) + Total(r.day.hits_per_hour)
         /\ \A i \in DOMAIN Append(s, r) :
               Append(s, r)[i] = r \/ \E j \in DOMAIN s : Append(s, r)[i] = s[j]
<1>1. PICK R : s \in Seq(R) /\ R = {s[i] : i \in DOMAIN s}
  BY DEF ReportsOK
<1>2. PICK n \in Nat : n = Len(s) /\ DOMAIN s = 1 .. n
  BY <1>1
<1>3. AllTabs(s)
  BY DEF ReportsOK
<1>4. /\ Made(Append(s, r)) = Made(s) + Total(r.day.hits_per_hour)
      /\ Made(s) \in Int /\ AllTabs(Append(s, r))
  BY <1>1, <1>3, MadeMore
<1>5. PICK Q : Q = R \cup {r}
  OBVIOUS
<1>6. s \in Seq(Q) /\ r \in Q
  BY <1>1, <1>5
<1>7. PICK a \in Seq(Q) : a = Append(s, r)
  <2>1. Append(s, r) \in Seq(Q)
    BY <1>6
  <2> QED BY <2>1
<1>8. DOMAIN a = 1 .. n + 1 /\ a[n + 1] = r /\ \A i \in 1 .. n : a[i] = s[i]
  BY <1>1, <1>2, <1>7
<1>9. {a[i] : i \in DOMAIN a} = Q
  <2>1. \A x \in Q : \E i \in 1 .. n + 1 : a[i] = x
    BY <1>1, <1>2, <1>5, <1>8
  <2>2. \A i \in 1 .. n + 1 : a[i] \in Q
    BY <1>7, <1>8
  <2> QED BY <1>8, <2>1, <2>2
<1>10. \A i \in DOMAIN a : a[i] = r \/ \E j \in DOMAIN s : a[i] = s[j]
  BY <1>2, <1>8
<1>11. \A i \in DOMAIN a : OfOneDay(a[i])
  BY <1>10, Zenon DEF ReportsOK
<1> QED BY <1>4, <1>7, <1>9, <1>10, <1>11, Zenon DEF ReportsOK
LEMMA MadeInt == ASSUME NEW s, ReportsOK(s) PROVE Made(s) \in Int
<1>1. PICK R : s \in Seq(R) /\ AllTabs(s)
  BY DEF ReportsOK
<1>2. Made(s) = SumOf(TotalsOf(s), DOMAIN s) /\ Numbers(TotalsOf(s), DOMAIN s)
      /\ IsFiniteSet(DOMAIN s)
  BY <1>1, MadeIs
<1> QED BY <1>2, SumTakes

\* A line is counted in the day that is open, or opens one.
LEMMA LineIs ==
  ASSUME EndOfLine
  PROVE  \E p, h1, h2, d1, d2 :
            /\ d1 = day \/ d1 = FlushHour(day, hour, h1)
            /\ d2 = IF last.date # 0 /\ last.date # DateOf(p) THEN NewDay ELSE d1
            /\ reports' = IF last.date # 0 /\ last.date # DateOf(p)
                          THEN Append(reports, Summary(d1, last.date, FALSE)) ELSE reports
            /\ last'.date = DateOf(p) /\ DateOf(p) # 0
            /\ day' = CountInDay(d2, h2, p)
            /\ lines' = lines + 1 /\ phase = "run" /\ phase' = phase
<1>1. Consume /\ lines' = lines + 1 /\ phase = "run" /\ phase' = phase
  BY DEF EndOfLine, Consume, Running
<1>2. PICK p \in ProcessField(parser) :
        LET first == last.date = 0
            flush == ~first /\ (last.hour # p.buf_points["HOUR"] \/ DayIsOver(p))
            d1 == IF flush THEN FlushHour(day, hour, last.hour) ELSE day
            hr == IF flush THEN AfterHour ELSE hour
            over == ~first /\ DayIsOver(p)
            d2 == IF over THEN NewDay ELSE d1
        IN  /\ DateOf(p) # 0
            /\ reports' = IF over THEN Append(reports, Summary(d1, last.date, FALSE))
                          ELSE reports
            /\ last' = [hour |-> IF first \/ flush THEN p.buf_points["HOUR"] ELSE last.hour,
                        date |-> IF first \/ over THEN DateOf(p) ELSE last.date]
            /\ day' = CountInDay(d2, hr, p)
  BY Zenon DEF EndOfLine, AfterDay
<1> DEFINE first == last.date = 0
           over == ~first /\ DayIsOver(p)
           flush == ~first /\ (last.hour # p.buf_points["HOUR"] \/ DayIsOver(p))
<1>3. PICK d1, h2, d2 : /\ d1 = IF flush THEN FlushHour(day, hour, last.hour) ELSE day
                        /\ h2 = IF flush THEN AfterHour ELSE hour
                        /\ d2 = IF over THEN NewDay ELSE d1
  OBVIOUS
<1>4. d1 = day \/ d1 = FlushHour(day, hour, last.hour)
  BY <1>3, Zenon
<1>5. over <=> last.date # 0 /\ last.date # DateOf(p)
  BY Zenon DEF DayIsOver
<1>6. /\ DateOf(p) # 0 /\ day' = CountInDay(d2, h2, p)
      /\ reports' = IF over THEN Append(reports, Summary(d1, last.date, FALSE)) ELSE reports
      /\ last' = [hour |-> IF first \/ flush THEN p.buf_points["HOUR"] ELSE last.hour,
                  date |-> IF first \/ over THEN DateOf(p) ELSE last.date]
  BY <1>2, <1>3, Zenon
<1>7. last'.date = IF first \/ over THEN DateOf(p) ELSE last.date
  BY <1>6
<1>8. last'.date = DateOf(p)
  BY <1>5, <1>7, Zenon
<1>9. /\ d2 = IF last.date # 0 /\ last.date # DateOf(p) THEN NewDay ELSE d1
      /\ reports' = IF last.date # 0 /\ last.date # DateOf(p)
                    THEN Append(reports, Summary(d1, last.date, FALSE)) ELSE reports
  BY <1>3, <1>5, <1>6, Zenon
<1> HIDE DEF first, over, flush
<1> QED BY <1>1, <1>4, <1>6, <1>8, <1>9, Zenon

LEMMA LineKeeps == ASSUME DayInv, EndOfLine PROVE DayInv'
<1>1. PICK p, h1, h2, d1, d2 :
            /\ d1 = day \/ d1 = FlushHour(day, hour, h1)
            /\ d2 = IF last.date # 0 /\ last.date # DateOf(p) THEN NewDay ELSE d1
            /\ reports' = IF last.date # 0 /\ last.date # DateOf(p)
                          THEN Append(reports, Summary(d1, last.date, FALSE)) ELSE reports
            /\ last'.date = DateOf(p) /\ DateOf(p) # 0
            /\ day' = CountInDay(d2, h2, p)
            /\ lines' = lines + 1 /\ phase = "run" /\ phase' = phase
  BY LineIs
<1>2. PICK s, d, n, t, l :
          s = reports /\ d = day /\ n = lines /\ t = DateOf(p) /\ l = last.date
  OBVIOUS
<1>3. /\ ReportsOK(s) /\ OpenDay(d) /\ DOMAIN d.dates = (IF l = 0 THEN {} ELSE {l})
      /\ n \in Nat /\ Made(s) + Total(d.hits_per_hour) = n
  BY <1>1, <1>2, Zenon DEF DayInv
<1>11. lines' = n + 1 /\ n \in Nat
  BY <1>1, <1>2, <1>3, Zenon
<1>10. \A i \in DOMAIN s : ~ s[i].final
  BY <1>1, <1>2, Zenon DEF DayInv
<1>4. /\ OpenDay(d1) /\ d1.dates = d.dates /\ d1.hits_per_hour = d.hits_per_hour
  BY <1>1, <1>2, <1>3, FlushKeeps, ZenonT(40)
<1>5. OpenDay(d2)
  BY <1>1, <1>4, NewDayIs, Zenon
<1>6. /\ DOMAIN day'.dates = DOMAIN d2.dates \cup {t} /\ OpenDay(day')
      /\ Total(day'.hits_per_hour) = Total(d2.hits_per_hour) + 1
  BY <1>1, <1>2, <1>5, CountKeeps, Zenon
<1>7. Total(d.hits_per_hour) \in Int /\ Total(d2.hits_per_hour) \in Int
  BY <1>3, <1>5, TotalIs DEF OpenDay
<1>8. CASE l # 0 /\ l # t
  <2>1. PICK r : r = Summary(d1, l, FALSE)
    OBVIOUS
  <2>2. r.day.dates = d.dates /\ r.day.hits_per_hour = d.hits_per_hour /\ r.date = l
        /\ r.final = FALSE
    <3>1. PICK f : f = FALSE
      OBVIOUS
    <3>2. r = Summary(d1, l, f)
      BY <2>1, <3>1
    <3>3. r.day.dates = d.dates /\ r.day.hits_per_hour = d.hits_per_hour /\ r.date = l
      BY <1>4, <3>2, SummaryKeeps
    <3>4. Summary(d1, l, FALSE).final = FALSE
      BY DEF Summary
    <3> QED BY <2>1, <3>3, <3>4, Zenon
  <2>3. DOMAIN d.dates = {l} /\ Cardinality({l}) <= 1
    <3>1. Cardinality({l}) = 1
      BY FS_Singleton
    <3> QED BY <1>3, <1>8, <3>1
  <2>4. OfOneDay(r)
    BY <2>2, <2>3, Zenon DEF OfOneDay
  <2>5. Tab(r.day.hits_per_hour)
    BY <1>3, <2>2, Zenon DEF OpenDay
  <2>6. reports' = Append(s, r)
    BY <1>1, <1>2, <1>8, <2>1, Zenon
  <2>7. /\ ReportsOK(reports') /\ Made(s) \in Int
        /\ Made(reports') = Made(s) + Total(d.hits_per_hour)
        /\ \A i \in DOMAIN reports' :
              reports'[i] = r \/ \E j \in DOMAIN s : reports'[i] = s[j]
    BY <1>3, <2>2, <2>4, <2>5, <2>6, ReportsMore
  <2>8. \A i \in DOMAIN reports' : ~ reports'[i].final
    BY <1>10, <2>2, <2>7, Zenon
  <2>9. d2 = NewDay /\ DOMAIN d2.dates = {} /\ Total(d2.hits_per_hour) = 0
    BY <1>1, <1>2, <1>8, NewDayIs, Zenon
  <2>10. Made(reports') + Total(day'.hits_per_hour) = lines' /\ lines' \in Nat
    <3>1. PICK a \in Int, b \in Int : a = Made(s) /\ b = Total(d.hits_per_hour)
      BY <1>7, <2>7
    <3>2. Made(reports') = a + b /\ a + b = n /\ Total(day'.hits_per_hour) = 0 + 1
      BY <1>3, <1>6, <2>7, <2>9, <3>1, Zenon
    <3> QED BY <1>11, <3>1, <3>2
  <2>11. DOMAIN day'.dates = IF last'.date = 0 THEN {} ELSE {last'.date}
    BY <1>1, <1>2, <1>6, <2>9
  <2> QED BY <1>1, <1>6, <2>7, <2>8, <2>10, <2>11, Zenon DEF DayInv
<1>9. CASE ~ (l # 0 /\ l # t)
  <2>1. reports' = s /\ d2 = d1
    BY <1>1, <1>2, <1>9, Zenon
  <2>2. Made(s) \in Int
    BY <1>3, MadeInt
  <2>3. Made(reports') + Total(day'.hits_per_hour) = lines' /\ lines' \in Nat
    <3>1. PICK a \in Int, b \in Int : a = Made(s) /\ b = Total(d.hits_per_hour)
      BY <1>7, <2>2
    <3>2. Made(reports') = a /\ a + b = n /\ Total(day'.hits_per_hour) = b + 1
      BY <1>3, <1>4, <1>6, <2>1, <3>1, Zenon
    <3> QED BY <1>11, <3>1, <3>2
  <2>4. DOMAIN day'.dates = IF last'.date = 0 THEN {} ELSE {last'.date}
    BY <1>1, <1>2, <1>3, <1>4, <1>6, <1>9, <2>1
  <2>5. ReportsOK(reports') /\ \A i \in DOMAIN reports' : ~ reports'[i].final
    BY <1>3, <1>10, <2>1, Zenon
  <2> QED BY <1>1, <1>6, <2>3, <2>4, <2>5, Zenon DEF DayInv
<1> QED BY <1>8, <1>9

\* The end of the file,
LEMMA CleanupKeeps == ASSUME DayInv, Cleanup PROVE DayInv'
<1>1. /\ phase = "run" /\ phase' = "done" /\ UNCHANGED <<lines, last, day>>
      /\ \/ reports' = reports
         \/ \E t : reports' = Append(reports, Summary(FlushHour(day, hour, last.hour), t, TRUE))
  BY DEF Cleanup, Running
<1>2. PICK s, d, n : s = reports /\ d = day /\ n = lines
  OBVIOUS
<1>3. /\ ReportsOK(s) /\ OpenDay(d) /\ n \in Nat
      /\ DOMAIN d.dates = (IF last.date = 0 THEN {} ELSE {last.date})
      /\ Made(s) + Total(d.hits_per_hour) = n
  BY <1>1, <1>2, Zenon DEF DayInv
<1>6. \A i \in DOMAIN s : ~ s[i].final
  BY <1>1, <1>2, Zenon DEF DayInv
<1>4. CASE reports' = reports
  BY <1>1, <1>2, <1>3, <1>4, <1>6, Zenon DEF DayInv
<1>5. CASE \E t : reports' = Append(reports, Summary(FlushHour(day, hour, last.hour), t, TRUE))
  <2>1. PICK t, c, r : /\ c = FlushHour(day, hour, last.hour) /\ r = Summary(c, t, TRUE)
                       /\ reports' = Append(s, r)
    BY <1>2, <1>5
  <2>2. OpenDay(c) /\ c.dates = d.dates /\ c.hits_per_hour = d.hits_per_hour
    BY <1>2, <1>3, <2>1, FlushKeeps, Zenon
  <2>3. r.day.dates = d.dates /\ r.day.hits_per_hour = d.hits_per_hour /\ r.final = TRUE
    <3>1. PICK f : f = TRUE
      OBVIOUS
    <3>2. r = Summary(c, t, f)
      BY <2>1, <3>1
    <3>3. r.day.dates = d.dates /\ r.day.hits_per_hour = d.hits_per_hour
      BY <2>2, <3>2, SummaryKeeps
    <3>4. Summary(c, t, TRUE).final = TRUE
      BY DEF Summary
    <3> QED BY <2>1, <3>3, <3>4, Zenon
  <2>4. Cardinality(DOMAIN d.dates) <= 1
    <3>1. PICK x : x = last.date
      OBVIOUS
    <3>2. Cardinality({x}) = 1 /\ Cardinality({}) = 0
      BY FS_Singleton, FS_EmptySet
    <3>3. Cardinality({x}) <= 1 /\ Cardinality({}) <= 1
      BY <3>2
    <3> QED BY <1>3, <3>1, <3>3
  <2>5. OfOneDay(r)
    BY <2>3, <2>4, Zenon DEF OfOneDay
  <2>6. Tab(r.day.hits_per_hour)
    BY <1>3, <2>3, Zenon DEF OpenDay
  <2>7. ReportsOK(reports') /\ Made(reports') = Made(s) + Total(d.hits_per_hour)
    <3>1. ReportsOK(Append(s, r)) /\ Made(Append(s, r)) = Made(s) + Total(r.day.hits_per_hour)
      BY <1>3, <2>5, <2>6, ReportsMore
    <3> QED BY <2>1, <2>3, <3>1, Zenon
  <2> QED BY <1>1, <1>2, <1>3, <2>7, Zenon DEF DayInv
<1> QED BY <1>1, <1>4, <1>5

\* and everything else.
LEMMA DayFrame ==
  ASSUME DayInv, UNCHANGED <<lines, last, day, reports>>, phase' = phase \/ phase' = "error"
  PROVE  DayInv'
BY DEF DayInv

(* A report of ultraparse() is about the lines of one date, and the lines  *)
(* counted are those of the reports made and of the day that is open: none *)
(* is in two reports, and none in no report.                               *)
THEOREM ReportsOfOneDayTheorem == Spec => []ReportsOfOneDay
<1>1. Init => DayInv
  <2> SUFFICES ASSUME Init PROVE DayInv
    OBVIOUS
  <2>1. /\ lines = 0 /\ last.date = 0 /\ day = NewDay /\ reports = <<>> /\ phase = "run"
    BY DEF Init
  <2>2. ReportsOK(<<>>) /\ DOMAIN <<>> = {}
    BY DEF ReportsOK, AllTabs
  <2>3. Made(<<>>) + Total(NewDay.hits_per_hour) = 0 /\ 0 \in Nat
    BY MadeNone, NewDayIs
  <2> QED BY <2>1, <2>2, <2>3, NewDayIs, Zenon DEF DayInv
<1>2. ASSUME DayInv, [Next]_vars PROVE DayInv'
  <2>1. CASE Read \/ InField \/ EndOfField \/ BrokenAtEnd \/ Skip \/ BadFormat \/ UNCHANGED vars
    BY <1>2, <2>1, DayFrame
       DEF Read, InField, EndOfField, BrokenAtEnd, Skip, BadFormat, vars, Counted, Consume
  <2> QED BY <1>2, <2>1, LineKeeps, CleanupKeeps DEF Next
<1>3. DayInv => ReportsOfOneDay
  <2> SUFFICES ASSUME DayInv PROVE ReportsOfOneDay
    OBVIOUS
  <2>1. \A r \in Reported : /\ Cardinality(DOMAIN r.day.dates) <= 1
                            /\ ~r.final => DOMAIN r.day.dates = {r.date}
    BY Zenon DEF DayInv, ReportsOK, OfOneDay, Reported
  <2>2. phase = "run" => Made(reports) + Total(day.hits_per_hour) = lines
    BY DEF DayInv
  <2>3. phase = "done" /\ (\E r \in Reported : r.final) => Made(reports) = lines
    BY Zenon DEF DayInv, Reported
  <2> QED BY <2>1, <2>2, <2>3, Zenon DEF ReportsOfOneDay, Made
<1> QED BY <1>1, <1>2, <1>3, PTL DEF Spec

-----------------------------------------------------------------------------
(* Tables of tables *)

\* Two tables added up,
LEMMA TotalSum ==
  ASSUME NEW a, NEW b, Tab(a), Tab(b)
  PROVE  Tab(DoMapAddition(a, b)) /\ Total(DoMapAddition(a, b)) = Total(a) + Total(b)
<1>1. PICK A, B, D, c : A = DOMAIN a /\ B = DOMAIN b /\ D = A \cup B /\ c = DoMapAddition(a, b)
  OBVIOUS
<1>2. PICK f, g : f = [k \in D |-> Count(a, k)] /\ g = [k \in D |-> Count(b, k)]
  OBVIOUS
<1>3. DOMAIN c = D /\ \A k \in D : c[k] = f[k] + g[k]
  BY <1>1, <1>2 DEF DoMapAddition
<1>4. IsFiniteSet(A) /\ IsFiniteSet(B) /\ IsFiniteSet(D)
  BY <1>1, FS_Union DEF Tab
<1>5. Numbers(f, D) /\ SumOf(f, D) = Total(a)
  <2>1. SameOn(a, f, A) /\ \A k \in D \ A : f[k] = 0
    BY <1>1, <1>2 DEF SameOn, Count
  <2>2. Numbers(a, A)
    BY <1>1 DEF Tab
  <2>3. Numbers(f, D)
    BY <2>1, <2>2 DEF Numbers, SameOn
  <2>4. A \in SUBSET D /\ IsFiniteSet(D \ A)
    BY <1>1, <1>4, FS_Subset
  <2>5. SumOf(f, D) = SumOf(f, A) + SumOf(f, D \ A)
    BY <1>4, <2>3, <2>4, SumSplit
  <2>6. SumOf(f, D \ A) = 0
    BY <2>1, <2>4, SumZero
  <2>7. SumOf(a, A) = SumOf(f, A)
    BY <1>4, <2>1, <2>2, SumSame
  <2>8. Total(a) = SumOf(a, A) /\ Total(a) \in Int
    BY <1>1, TotalIs
  <2> QED BY <2>3, <2>5, <2>6, <2>7, <2>8
<1>6. Numbers(g, D) /\ SumOf(g, D) = Total(b)
  <2>1. SameOn(b, g, B) /\ \A k \in D \ B : g[k] = 0
    BY <1>1, <1>2 DEF SameOn, Count
  <2>2. Numbers(b, B)
    BY <1>1 DEF Tab
  <2>3. Numbers(g, D)
    BY <2>1, <2>2 DEF Numbers, SameOn
  <2>4. B \in SUBSET D /\ IsFiniteSet(D \ B)
    BY <1>1, <1>4, FS_Subset
  <2>5. SumOf(g, D) = SumOf(g, B) + SumOf(g, D \ B)
    BY <1>4, <2>3, <2>4, SumSplit
  <2>6. SumOf(g, D \ B) = 0
    BY <2>1, <2>4, SumZero
  <2>7. SumOf(b, B) = SumOf(g, B)
    BY <1>4, <2>1, <2>2, SumSame
  <2>8. Total(b) = SumOf(b, B) /\ Total(b) \in Int
    BY <1>1, TotalIs
  <2> QED BY <2>3, <2>5, <2>6, <2>7, <2>8
<1>7. SumOf(c, D) = SumOf(f, D) + SumOf(g, D)
  BY <1>3, <1>4, <1>5, <1>6, SumPlus
<1>8. Tab(c)
  BY <1>3, <1>4, <1>5, <1>6 DEF Tab, Numbers
<1>9. Total(c) = SumOf(c, D)
  BY <1>3, <1>8, TotalIs
<1> QED BY <1>1, <1>5, <1>6, <1>7, <1>8, <1>9

\* a part of a table and the rest,
LEMMA TotalOnly ==
  ASSUME NEW m, Tab(m), NEW S \in SUBSET DOMAIN m
  PROVE  /\ Tab(Only(m, S)) /\ DOMAIN Only(m, S) = S
         /\ Tab(Only(m, DOMAIN m \ S))
         /\ Total(m) = Total(Only(m, S)) + Total(Only(m, DOMAIN m \ S))
<1>1. ASSUME NEW T \in SUBSET DOMAIN m
      PROVE  Tab(Only(m, T)) /\ DOMAIN Only(m, T) = T /\ Total(Only(m, T)) = SumOf(m, T)
  <2>1. PICK o : o = Only(m, T)
    OBVIOUS
  <2>2. DOMAIN o = T /\ SameOn(m, o, T)
    BY <2>1 DEF Only, SameOn
  <2>3. IsFiniteSet(T) /\ Numbers(m, T)
    BY FS_Subset DEF Tab, Numbers
  <2>4. Tab(o)
    BY <2>2, <2>3 DEF Tab, Numbers, SameOn
  <2>5. SumOf(m, T) = SumOf(o, T)
    BY <2>2, <2>3, SumSame
  <2>6. Total(o) = SumOf(o, T)
    BY <2>2, <2>4, TotalIs
  <2> QED BY <2>1, <2>2, <2>4, <2>5, <2>6
<1>2. PICK D, R : D = DOMAIN m /\ R = DOMAIN m \ S
  OBVIOUS
<1>3. SumOf(m, D) = SumOf(m, S) + SumOf(m, D \ S)
  BY <1>2, SumSplit DEF Tab
<1>4. Total(m) = SumOf(m, D)
  BY <1>2, TotalIs
<1>5. R \in SUBSET DOMAIN m
  BY <1>2
<1>6. /\ Tab(Only(m, S)) /\ DOMAIN Only(m, S) = S /\ Total(Only(m, S)) = SumOf(m, S)
      /\ Tab(Only(m, R)) /\ Total(Only(m, R)) = SumOf(m, R)
  BY <1>1, <1>5
<1> QED BY <1>2, <1>3, <1>4, <1>6

\* and one with its keys renamed.
ReKeyed(m, nm) == [y \in {nm[k] : k \in DOMAIN m} |-> SumOf(m, Fiber(nm, DOMAIN m, y))]
LEMMA TotalReKeyed ==
  ASSUME NEW m, Tab(m), NEW nm
  PROVE  Tab(ReKeyed(m, nm)) /\ Total(ReKeyed(m, nm)) = Total(m)
<1>1. PICK D, Y, g : D = DOMAIN m /\ Y = {nm[k] : k \in D} /\ g = ReKeyed(m, nm)
  OBVIOUS
<1>2. DOMAIN g = Y /\ \A y \in Y : g[y] = SumOf(m, Fiber(nm, D, y))
  BY <1>1 DEF ReKeyed
<1>3. IsFiniteSet(D) /\ Numbers(m, D)
  BY <1>1 DEF Tab
<1>4. IsFiniteSet(Y) /\ Numbers(g, Y) /\ SumOf(g, Y) = SumOf(m, D)
  <2>1. FiberSums(g, Y, m, nm, D)
    BY <1>1, <1>2 DEF FiberSums
  <2> QED BY <1>3, <2>1, SumFibers
<1>5. Tab(g)
  BY <1>2, <1>4 DEF Tab
<1>6. Total(g) = SumOf(g, Y) /\ Total(m) = SumOf(m, D)
  BY <1>1, <1>2, <1>5, TotalIs
<1> QED BY <1>1, <1>4, <1>5, <1>6

LEMMA ReKeyIs ==
  ASSUME NEW m, Tab(m)
  PROVE  /\ Tab(ReKey(m, FileOf)) /\ Total(ReKey(m, FileOf)) = Total(m)
         /\ Tab(ReKey(m, DirectoryOf)) /\ Total(ReKey(m, DirectoryOf)) = Total(m)
<1>1. PICK f : f = [k \in DOMAIN m |-> FileOf(k)]
  OBVIOUS
<1>2. PICK g : g = [k \in DOMAIN m |-> DirectoryOf(k)]
  OBVIOUS
<1>3. \A k \in DOMAIN m : f[k] = FileOf(k) /\ g[k] = DirectoryOf(k)
  BY <1>1, <1>2
<1>4. /\ {f[k] : k \in DOMAIN m} = {FileOf(k) : k \in DOMAIN m}
      /\ {g[k] : k \in DOMAIN m} = {DirectoryOf(k) : k \in DOMAIN m}
      /\ \A y : /\ Fiber(f, DOMAIN m, y) = {k \in DOMAIN m : FileOf(k) = y}
                /\ Fiber(g, DOMAIN m, y) = {k \in DOMAIN m : DirectoryOf(k) = y}
  BY <1>3 DEF Fiber
<1>5. ReKey(m, FileOf) = ReKeyed(m, f)
  BY <1>4, Zenon DEF ReKey, ReKeyed, SumOf
<1>6. ReKey(m, DirectoryOf) = ReKeyed(m, g)
  BY <1>4, Zenon DEF ReKey, ReKeyed, SumOf
<1> QED BY <1>5, <1>6, TotalReKeyed

\* compress_mapping() keeps the sum, and one key more than it was told to.
LEMMA CompressKeeps ==
  ASSUME NEW m, Tab(m), NEW n \in Nat, NEW c \in CompressMapping(m, n)
  PROVE  Total(c) = Total(m) /\ Cardinality(DOMAIN c) <= n + 1
<1>1. IsFiniteSet(DOMAIN m) /\ Cardinality(DOMAIN m) \in Nat
  BY FS_CardinalityType DEF Tab
<1>2. CASE Cardinality(DOMAIN m) < n
  <2>1. c = m
    BY <1>2 DEF CompressMapping
  <2> QED BY <1>1, <1>2, <2>1
<1>3. CASE ~ (Cardinality(DOMAIN m) < n)
  <2>1. PICK keep \in SUBSET DOMAIN m :
          /\ c = MapAdd(Only(m, keep), OtherKey, Total(Only(m, DOMAIN m \ keep)))
          /\ Cardinality(keep) = n
    BY <1>3 DEF CompressMapping
  <2>2. PICK o, r : o = Only(m, keep) /\ r = Only(m, DOMAIN m \ keep)
    OBVIOUS
  <2>3. Tab(o) /\ Tab(r) /\ DOMAIN o = keep /\ Total(m) = Total(o) + Total(r)
    BY <2>2, TotalOnly
  <2>4. Total(r) \in Int
    BY <2>3, TotalIs
  <2>5. Total(MapAdd(o, OtherKey, Total(r))) = Total(o) + Total(r)
    BY <2>3, <2>4, TotalAdd
  <2>6. DOMAIN c = keep \cup {OtherKey}
    BY <2>1, <2>2, <2>3 DEF MapAdd, Insert
  <2>7. IsFiniteSet(keep)
    BY <1>1, FS_Subset
  <2>8. Cardinality(keep \cup {OtherKey}) <= n + 1
    BY <2>1, <2>7, FS_AddElement
  <2> QED BY <2>1, <2>2, <2>3, <2>5, <2>6, <2>8
<1> QED BY <1>2, <1>3

\* The sum over codes, whether they are in the table or not.
CodesTable(P, m, S) ==
    P = [s \in SUBSET S |->
            IF s = {} THEN 0 ELSE Count(m, CHOOSE y \in s : TRUE) + P[s \ {CHOOSE y \in s : TRUE}]]
LEMMA CodesAre ==
  ASSUME NEW m, NEW S, IsFiniteSet(S), NEW f, f = [k \in S |-> Count(m, k)], Numbers(f, S)
  PROVE  InCodes(m, S) = SumOf(f, S)
<1>1. PICK pick, it : /\ Picks(pick, S) /\ Adds(it, f, pick, SUBSET S)
                      /\ pick = [s \in SUBSET S |-> CHOOSE y \in s : TRUE]
  BY AnySum
<1>2. ASSUME NEW P PROVE CodesTable(P, m, S) <=> Adds(P, f, pick, SUBSET S)
  <2>1. ASSUME NEW s \in SUBSET S
        PROVE (IF s = {} THEN 0
               ELSE Count(m, CHOOSE y \in s : TRUE) + P[s \ {CHOOSE y \in s : TRUE}])
              = Adding(P, f, pick, s)
    <3>1. pick[s] = CHOOSE y \in s : TRUE
      BY <1>1
    <3>2. s # {} => pick[s] \in S
      BY <1>1 DEF Picks
    <3>3. s # {} => f[pick[s]] = Count(m, pick[s])
      BY <3>2
    <3> QED BY <3>1, <3>3, Zenon DEF Adding
  <2>2. [s \in SUBSET S |->
            IF s = {} THEN 0
            ELSE Count(m, CHOOSE y \in s : TRUE) + P[s \ {CHOOSE y \in s : TRUE}]]
        = [s \in SUBSET S |-> Adding(P, f, pick, s)]
    BY <2>1, Zenon
  <2> QED BY <2>2, Zenon DEF CodesTable, Adds
<1>3. PICK P : P = CHOOSE Q : CodesTable(Q, m, S)
  OBVIOUS
<1>4. CodesTable(P, m, S)
  BY <1>1, <1>2, <1>3, Zenon
<1>5. Adds(P, f, pick, SUBSET S)
  BY <1>2, <1>4
<1>6. HasSums(P, f, S)
  BY <1>1, <1>5, TableIsSum
<1>7. InCodes(m, S) = P[S]
  BY <1>3, Zenon DEF InCodes, MapThenSumSet, MapThenFoldSet, CodesTable
<1> QED BY <1>6, <1>7 DEF HasSums

\* One more of a code is one more of the codes it is of.
LEMMA InCodesIs ==
  ASSUME NEW m, Tab(m), NEW codes, IsFiniteSet(codes), NEW v
  PROVE  /\ InCodes(m, codes) \in Int
         /\ InCodes(MapAdd(m, v, 1), codes) =
               InCodes(m, codes) + (IF v \in codes THEN 1 ELSE 0)
<1>1. PICK a : a = MapAdd(m, v, 1)
  OBVIOUS
<1>2. PICK f, g : f = [k \in codes |-> Count(m, k)] /\ g = [k \in codes |-> Count(a, k)]
  OBVIOUS
<1>3. /\ Numbers(f, codes) /\ \A k \in codes : f[k] = Count(m, k) /\ g[k] = Count(a, k)
  BY <1>2 DEF Numbers, Count, Tab
<1>4. \A k : Count(a, k) = Count(m, k) + (IF k = v THEN 1 ELSE 0)
  <2>1. /\ DOMAIN a = DOMAIN m \cup {v} /\ a[v] = Count(m, v) + 1
        /\ \A x \in DOMAIN m \ {v} : a[x] = m[x]
    BY <1>1 DEF MapAdd, Insert
  <2>2. \A k \in DOMAIN m : m[k] \in Int
    BY DEF Tab, Numbers
  <2> QED BY <2>1, <2>2 DEF Count
<1>5. Numbers(g, codes)
  BY <1>3, <1>4 DEF Numbers
<1>6. InCodes(m, codes) = SumOf(f, codes) /\ InCodes(a, codes) = SumOf(g, codes)
  BY <1>2, <1>3, <1>5, CodesAre
<1>7. CASE v \in codes
  <2>1. PICK R : R = codes \ {v}
    OBVIOUS
  <2>2. IsFiniteSet(R) /\ Numbers(f, R) /\ SameOn(f, g, R)
    BY <1>3, <1>4, <2>1, FS_Subset DEF Numbers, SameOn
  <2>3. SumOf(f, R) = SumOf(g, R) /\ SumOf(f, R) \in Int
    BY <2>2, SumSame, SumTakes
  <2>4. SumOf(f, codes) = f[v] + SumOf(f, R) /\ SumOf(g, codes) = g[v] + SumOf(g, R)
    BY <1>3, <1>5, <1>7, <2>1, SumTakes
  <2>5. f[v] \in Int /\ g[v] = f[v] + 1
    BY <1>3, <1>4, <1>7 DEF Numbers
  <2> QED BY <1>1, <1>6, <1>7, <2>3, <2>4, <2>5
<1>8. CASE v \notin codes
  <2>1. SameOn(f, g, codes)
    BY <1>3, <1>4, <1>8 DEF SameOn, Numbers
  <2>2. SumOf(f, codes) = SumOf(g, codes) /\ SumOf(f, codes) \in Int
    BY <1>3, <2>1, SumSame, SumTakes
  <2> QED BY <1>1, <1>6, <1>8, <2>2
<1> QED BY <1>7, <1>8

\* The pages and the other files of an hour are all of its files.
LEMMA HourlyIs ==
  ASSUME NEW u, Tab(u), NEW exts
  PROVE  /\ Tab(HourlyPages(u, exts)) /\ Tab(HourlyHits(u, exts))
         /\ Total(HourlyPages(u, exts)) + Total(HourlyHits(u, exts)) = Total(u)
<1>1. PICK S : S = PagesOf(u, exts) /\ S \in SUBSET DOMAIN u
  BY DEF PagesOf
<1>2. PICK a, b : a = Only(u, S) /\ b = Only(u, DOMAIN u \ S)
  OBVIOUS
<1>3. Tab(a) /\ Tab(b) /\ Total(u) = Total(a) + Total(b)
  BY <1>1, <1>2, TotalOnly
<1>4. HourlyPages(u, exts) = ReKey(a, FileOf) /\ HourlyHits(u, exts) = ReKey(b, FileOf)
  BY <1>1, <1>2, Zenon DEF HourlyPages, HourlyHits
<1> QED BY <1>3, <1>4, ReKeyIs

\* Every file but the one without a name has a directory.
LEMMA DirectoriesAre ==
  ASSUME NEW dirs, Tab(dirs), NEW m, Tab(m)
  PROVE  /\ Tab(SummarizeDirectories(dirs, m))
         /\ Total(SummarizeDirectories(dirs, m)) = Total(dirs) + Total(m) - Count(m, <<>>)
<1>1. PICK E, S : E = {<<>>} \cap DOMAIN m /\ S = DOMAIN m \ E /\ E \in SUBSET DOMAIN m
  OBVIOUS
<1>2. S = DOMAIN m \ {<<>>} /\ S \in SUBSET DOMAIN m
  BY <1>1
<1>3. PICK a, b : a = Only(m, S) /\ b = Only(m, E)
  OBVIOUS
<1>4. Tab(a) /\ Tab(b) /\ DOMAIN b = E /\ Total(m) = Total(b) + Total(a)
  BY <1>1, <1>3, TotalOnly
<1>5. Total(b) = Count(m, <<>>)
  <2>1. PICK z : z = <<>>
    OBVIOUS
  <2>2. CASE z \in DOMAIN m
    <3>1. E = {z}
      BY <1>1, <2>1, <2>2
    <3>2. b[z] = m[z] /\ m[z] \in Int
      BY <1>3, <2>2, <3>1 DEF Only, Tab, Numbers
    <3>3. IsFiniteSet({}) /\ Numbers(b, {}) /\ {z} \ {z} = {}
      BY FS_EmptySet DEF Numbers
    <3>4. SumOf(b, E) = b[z] + SumOf(b, E \ {z})
      BY <1>4, <3>1, SumTakes DEF Tab
    <3>5. SumOf(b, {}) = 0
      BY <3>3, SumTakes
    <3>6. Total(b) = SumOf(b, E)
      BY <1>4, TotalIs
    <3> QED BY <2>1, <2>2, <3>1, <3>2, <3>3, <3>4, <3>5, <3>6, SMTT(30) DEF Count
  <2>3. CASE z \notin DOMAIN m
    <3>1. E = {} /\ Count(m, z) = 0
      BY <1>1, <2>1, <2>3 DEF Count
    <3>2. Total(b) = SumOf(b, E) /\ SumOf(b, {}) = 0
      BY <1>4, <3>1, TotalIs, SumTakes DEF Tab
    <3> QED BY <2>1, <3>1, <3>2
  <2> QED BY <2>2, <2>3
<1>6. PICK r : r = ReKey(a, DirectoryOf)
  OBVIOUS
<1>7. Tab(r) /\ Total(r) = Total(a)
  BY <1>4, <1>6, ReKeyIs
<1>8. SummarizeDirectories(dirs, m) = DoMapAddition(dirs, r)
  BY <1>2, <1>3, <1>6, Zenon DEF SummarizeDirectories
<1>9. Tab(DoMapAddition(dirs, r)) /\ Total(DoMapAddition(dirs, r)) = Total(dirs) + Total(r)
  BY <1>7, TotalSum
<1>10. Total(dirs) \in Int /\ Total(a) \in Int /\ Total(b) \in Int
  BY <1>4, TotalIs
<1> QED BY <1>4, <1>5, <1>7, <1>8, <1>9, <1>10

-----------------------------------------------------------------------------
(* Hours *)

\* The counts of the codes that are errors, each in the table of its URLs too.
ErrorsIn(E, m) ==
    /\ DOMAIN E = ErrorCodes \cap DOMAIN m
    /\ \A v \in DOMAIN E : Tab(E[v]) /\ Total(E[v]) = m[v]
Errors(d) == ErrorsIn(d.error_urls, d.hits_per_error)

\* What agrees in a day at all times.
DayFields == {"pages", "hits", "hits302", "hits_per_error", "error_urls", "directories",
              "sessions_per_hour", "hits_per_hour", "pages_per_hour", "hosts_per_hour", "dates"}
Sums(d) ==
    /\ DayFields \subseteq DOMAIN d
    /\ Tab(d.pages) /\ Tab(d.hits) /\ Tab(d.hits302) /\ Tab(d.hits_per_error)
    /\ Tab(d.hits_per_hour) /\ Tab(d.pages_per_hour) /\ Tab(d.dates)
    /\ Tab(d.sessions_per_hour) /\ Tab(d.hosts_per_hour)
    /\ Total(d.hits_per_hour) = Total(d.dates) /\ Total(d.hits_per_error) = Total(d.dates)
    /\ Total(d.pages_per_hour) = Total(d.pages)
    /\ Total(d.hits302) = InCodes(d.hits_per_error, MovedCodes)
    /\ Errors(d) /\ d.directories = Empty

\* What agrees in a day and its open hour h: the files found, and the hosts,
\* sessions and lines of each hour, when those that are open are added.
OpenHour(d, hr, h) ==
    /\ Tab(hr.hits20x) /\ IsFiniteSet(DOMAIN hr.start)
    /\ DOMAIN hr.end = DOMAIN hr.start /\ DOMAIN hr.sites = DOMAIN hr.start
    /\ Total(d.pages) + Total(d.hits) + Total(hr.hits20x)
          = InCodes(d.hits_per_error, FoundCodes)
    /\ DOMAIN d.hosts_per_hour \subseteq DOMAIN d.sessions_per_hour
    /\ \A k : /\ Count(d.hosts_per_hour, k) <= Count(d.sessions_per_hour, k)
              /\ Count(d.sessions_per_hour, k)
                    + (IF k = h THEN Cardinality(DOMAIN hr.start) ELSE 0)
                    <= Count(d.hits_per_hour, k)

LEMMA NewHourIs ==
  /\ NewHour.hits20x = Empty /\ NewHour.start = Empty /\ NewHour.end = Empty
  /\ NewHour.sites = Empty /\ DOMAIN Empty = {}
BY DEF NewHour, Empty

LEMMA CodesFinite == IsFiniteSet(FoundCodes) /\ IsFiniteSet(MovedCodes)
<1>1. \A a, b \in Int : IsFiniteSet(a .. b)
  BY FS_Interval
<1>2. IsFiniteSet(200 .. 207) /\ IsFiniteSet(300 .. 303)
  <2>1. 200 \in Int /\ 207 \in Int /\ 300 \in Int /\ 303 \in Int
    OBVIOUS
  <2> QED BY <1>1, <2>1, ZenonT(40)
<1> QED BY <1>2, FS_AddElement, SMTT(30) DEF FoundCodes, MovedCodes

\* The end of an hour, table by table.
LEMMA FlushIs ==
  ASSUME NEW d, NEW hr, NEW h, DayFields \subseteq DOMAIN d, NEW e, e = FlushHour(d, hr, h)
  PROVE  /\ DOMAIN e = DOMAIN d
         /\ e.pages = DoMapAddition(d.pages, HourlyPages(hr.hits20x, PageExts))
         /\ e.hits = DoMapAddition(d.hits, HourlyHits(hr.hits20x, PageExts))
         /\ e.pages_per_hour =
               MapAdd(d.pages_per_hour, h, Total(HourlyPages(hr.hits20x, PageExts)))
         /\ e.sessions_per_hour =
               MapAdd(d.sessions_per_hour, h, Cardinality(DOMAIN hr.start))
         /\ e.hosts_per_hour = MapAdd(d.hosts_per_hour, h, Cardinality(DOMAIN hr.sites))
         /\ e.hits302 = d.hits302 /\ e.hits_per_error = d.hits_per_error
         /\ e.error_urls = d.error_urls /\ e.directories = d.directories
         /\ e.hits_per_hour = d.hits_per_hour /\ e.dates = d.dates
BY DEF FlushHour, DayFields

\* A line, table by table.
LEMMA CountIs ==
  ASSUME NEW d, NEW hr, NEW p, DayFields \subseteq DOMAIN d, NEW e, e = CountInDay(d, hr, p),
         NEW v, v = p.buf_points["CODE"], NEW h, h = p.buf_points["HOUR"],
         NEW url, url = TextOf(p, "URL")
  PROVE  /\ DOMAIN e = DOMAIN d
         /\ e.pages = d.pages /\ e.hits = d.hits /\ e.pages_per_hour = d.pages_per_hour
         /\ e.hosts_per_hour = d.hosts_per_hour /\ e.directories = d.directories
         /\ e.sessions_per_hour =
               IF SessionOver(hr, TextOf(p, "ADDR"), TimeOf(p))
               THEN MapAdd(d.sessions_per_hour, h, 1) ELSE d.sessions_per_hour
         /\ e.hits302 = IF v \in MovedCodes THEN MapAdd(d.hits302, url, 1) ELSE d.hits302
         /\ e.error_urls = IF v \in ErrorCodes THEN Map2Add(d.error_urls, v, url, 1)
                           ELSE d.error_urls
         /\ e.hits_per_error = MapAdd(d.hits_per_error, v, 1)
         /\ e.hits_per_hour = MapAdd(d.hits_per_hour, h, 1)
         /\ e.dates = MapAdd(d.dates, DateOf(p), 1)
BY DEF CountInDay, DayFields

\* A summary, table by table.
LEMMA SummaryIs ==
  ASSUME NEW d, NEW date, NEW final, DayFields \subseteq DOMAIN d, NEW e,
         e = Summary(d, date, final).day
  PROVE  /\ e.pages = d.pages /\ e.hits = d.hits /\ e.pages_per_hour = d.pages_per_hour
         /\ e.sessions_per_hour = d.sessions_per_hour /\ e.hosts_per_hour = d.hosts_per_hour
         /\ e.hits302 = d.hits302 /\ e.hits_per_error = d.hits_per_error
         /\ e.error_urls = d.error_urls
         /\ e.hits_per_hour = d.hits_per_hour /\ e.dates = d.dates
         /\ e.directories =
               SummarizeDirectories(SummarizeDirectories(d.directories, d.pages), d.hits)
BY DEF Summary, DayFields

-----------------------------------------------------------------------------
(* The steps of a day *)

\* How much more there is for a key.
More(m, h, n, k) ==
    /\ Count(m, k) \in Int
    /\ Count(MapAdd(m, h, n), k) = Count(m, k) + (IF k = h THEN n ELSE 0)
LEMMA CountAdd ==
  ASSUME NEW m, Tab(m), NEW h, NEW n \in Int, NEW k
  PROVE  More(m, h, n, k)
<1>1. PICK a : a = MapAdd(m, h, n)
  OBVIOUS
<1>2. /\ DOMAIN a = DOMAIN m \cup {h} /\ a[h] = Count(m, h) + n
      /\ \A x \in DOMAIN m \ {h} : a[x] = m[x]
  BY <1>1 DEF MapAdd, Insert
<1>3. \A x \in DOMAIN m : m[x] \in Int
  BY DEF Tab, Numbers
<1>4. Count(m, k) \in Int
  BY <1>3 DEF Count
<1>5. CASE k = h
  <2>1. Count(a, k) = Count(m, k) + n
    BY <1>2, <1>5 DEF Count
  <2> QED BY <1>1, <1>4, <1>5, <2>1 DEF More
<1>6. CASE k # h
  <2>1. Count(a, k) = Count(m, k)
    BY <1>2, <1>6 DEF Count
  <2> QED BY <1>1, <1>4, <1>6, <2>1 DEF More
<1> QED BY <1>5, <1>6

\* The end of an hour leaves a day without an open hour.
LEMMA FlushSums ==
  ASSUME NEW d, NEW hr, NEW h, Sums(d), OpenHour(d, hr, h), NEW e, e = FlushHour(d, hr, h)
  PROVE  Sums(e) /\ \A k : OpenHour(e, NewHour, k)
<1>1. PICK u, pg, ot, n : /\ u = hr.hits20x /\ pg = HourlyPages(u, PageExts)
                          /\ ot = HourlyHits(u, PageExts) /\ n = Cardinality(DOMAIN hr.start)
  OBVIOUS
<1>2. PICK pages, hits, pph, sess, hosts :
        /\ pages = d.pages /\ hits = d.hits /\ pph = d.pages_per_hour
        /\ sess = d.sessions_per_hour /\ hosts = d.hosts_per_hour
  OBVIOUS
<1>3. /\ Tab(pages) /\ Tab(hits) /\ Tab(pph) /\ Tab(sess) /\ Tab(hosts)
      /\ DayFields \subseteq DOMAIN d /\ Total(pph) = Total(pages)
  BY <1>2 DEF Sums
<1>4. /\ Tab(u) /\ IsFiniteSet(DOMAIN hr.start) /\ DOMAIN hr.sites = DOMAIN hr.start
      /\ Total(pages) + Total(hits) + Total(u) = InCodes(d.hits_per_error, FoundCodes)
  BY <1>1, <1>2 DEF OpenHour
<1>5. /\ DOMAIN e = DOMAIN d
      /\ e.pages = DoMapAddition(pages, pg) /\ e.hits = DoMapAddition(hits, ot)
      /\ e.pages_per_hour = MapAdd(pph, h, Total(pg))
      /\ e.sessions_per_hour = MapAdd(sess, h, n) /\ e.hosts_per_hour = MapAdd(hosts, h, n)
      /\ e.hits302 = d.hits302 /\ e.hits_per_error = d.hits_per_error
      /\ e.error_urls = d.error_urls /\ e.directories = d.directories
      /\ e.hits_per_hour = d.hits_per_hour /\ e.dates = d.dates
  BY <1>1, <1>2, <1>3, <1>4, FlushIs
<1>6. Tab(pg) /\ Tab(ot) /\ Total(pg) + Total(ot) = Total(u)
  BY <1>1, <1>4, HourlyIs
<1>7. /\ Tab(e.pages) /\ Total(e.pages) = Total(pages) + Total(pg)
      /\ Tab(e.hits) /\ Total(e.hits) = Total(hits) + Total(ot)
  BY <1>3, <1>5, <1>6, TotalSum
<1>8. /\ Total(pg) \in Int /\ Total(ot) \in Int /\ Total(pages) \in Int /\ Total(hits) \in Int
      /\ n \in Nat
  BY <1>1, <1>3, <1>4, <1>6, TotalIs, FS_CardinalityType
<1>9. /\ Tab(e.pages_per_hour) /\ Total(e.pages_per_hour) = Total(pph) + Total(pg)
      /\ Tab(e.sessions_per_hour) /\ Tab(e.hosts_per_hour)
  BY <1>3, <1>5, <1>8, TotalAdd
<1>10. Total(e.pages_per_hour) = Total(e.pages)
  BY <1>3, <1>7, <1>9
<1>11. Sums(e)
  BY <1>3, <1>5, <1>7, <1>9, <1>10 DEF Sums, Errors
<1>12. Total(e.pages) + Total(e.hits) + Total(Empty) = InCodes(e.hits_per_error, FoundCodes)
  <2>1. Total(Empty) = 0
    BY TotalEmpty
  <2> QED BY <1>4, <1>5, <1>6, <1>7, <1>8, <2>1
<1>13. DOMAIN e.hosts_per_hour \subseteq DOMAIN e.sessions_per_hour
  <2>1. DOMAIN hosts \subseteq DOMAIN sess
    BY <1>2 DEF OpenHour
  <2>2. /\ DOMAIN MapAdd(hosts, h, n) = DOMAIN hosts \cup {h}
        /\ DOMAIN MapAdd(sess, h, n) = DOMAIN sess \cup {h}
    BY DEF MapAdd, Insert
  <2> QED BY <1>5, <2>1, <2>2
<1>14. ASSUME NEW k, NEW j
       PROVE  /\ Count(e.hosts_per_hour, j) <= Count(e.sessions_per_hour, j)
              /\ Count(e.sessions_per_hour, j)
                    + (IF j = k THEN Cardinality(DOMAIN Empty) ELSE 0)
                    <= Count(e.hits_per_hour, j)
  <2>1. PICK a, b, c : /\ a = Count(hosts, j) /\ b = Count(sess, j)
                       /\ c = Count(d.hits_per_hour, j)
    OBVIOUS
  <2>2. a <= b /\ b + (IF j = h THEN n ELSE 0) <= c
    BY <1>1, <1>2, <2>1, Zenon DEF OpenHour
  <2>3. /\ a \in Int /\ Count(e.hosts_per_hour, j) = a + (IF j = h THEN n ELSE 0)
        /\ b \in Int /\ Count(e.sessions_per_hour, j) = b + (IF j = h THEN n ELSE 0)
    <3>1. n \in Int
      BY <1>8
    <3>2. More(hosts, h, n, j)
      BY <1>3, <3>1, CountAdd
    <3>3. More(sess, h, n, j)
      BY <1>3, <3>1, CountAdd
    <3> QED BY <1>5, <2>1, <3>2, <3>3 DEF More
  <2>4. Cardinality(DOMAIN Empty) = 0
    BY NewHourIs, FS_EmptySet
  <2>5. Count(e.hits_per_hour, j) = c
    BY <1>5, <2>1
  <2> QED BY <1>8, <2>2, <2>3, <2>4, <2>5
<1>15. Tab(Empty) /\ IsFiniteSet(DOMAIN Empty)
  BY TotalEmpty DEF Tab
<1>16. ASSUME NEW k PROVE OpenHour(e, NewHour, k)
  BY <1>12, <1>13, <1>14, <1>15, NewHourIs, Zenon DEF OpenHour
<1> QED BY <1>11, <1>16

\* A day and an hour without lines agree.
LEMMA NewSums == Sums(NewDay) /\ \A k : OpenHour(NewDay, NewHour, k)
<1>1. /\ NewDay.pages = Empty /\ NewDay.hits = Empty /\ NewDay.hits302 = Empty
      /\ NewDay.hits_per_error = Empty /\ NewDay.error_urls = Empty
      /\ NewDay.directories = Empty /\ NewDay.sessions_per_hour = Empty
      /\ NewDay.hits_per_hour = Empty /\ NewDay.pages_per_hour = Empty
      /\ NewDay.hosts_per_hour = Empty /\ NewDay.dates = Empty
      /\ DayFields \subseteq DOMAIN NewDay
  BY DEF NewDay, DayFields
<1>2. Tab(Empty) /\ Total(Empty) = 0 /\ DOMAIN Empty = {} /\ IsFiniteSet(DOMAIN Empty)
  BY TotalEmpty, NewHourIs DEF Tab
<1>3. \A k : Count(Empty, k) = 0
  BY <1>2 DEF Count
<1>4. ASSUME NEW codes, IsFiniteSet(codes) PROVE InCodes(Empty, codes) = 0
  <2>1. PICK f : f = [k \in codes |-> Count(Empty, k)]
    OBVIOUS
  <2>2. Numbers(f, codes) /\ \A k \in codes : f[k] = 0
    BY <1>3, <2>1 DEF Numbers
  <2>3. InCodes(Empty, codes) = SumOf(f, codes)
    BY <1>4, <2>1, <2>2, CodesAre
  <2> QED BY <1>4, <2>2, <2>3, SumZero
<1>5. InCodes(Empty, FoundCodes) = 0 /\ InCodes(Empty, MovedCodes) = 0
  BY <1>4, CodesFinite
<1>6. Errors(NewDay)
  BY <1>1, <1>2 DEF Errors, ErrorsIn
<1>7. Sums(NewDay)
  BY <1>1, <1>2, <1>5, <1>6, Zenon DEF Sums
<1>8. 0 + 0 + 0 = 0 /\ 0 <= 0 /\ Cardinality({}) = 0 /\ 0 + 0 <= 0
  BY FS_EmptySet
<1>9. \A k, j : 0 + (IF j = k THEN Cardinality(DOMAIN Empty) ELSE 0) <= 0
  BY <1>2, <1>8
<1>10. ASSUME NEW k PROVE OpenHour(NewDay, NewHour, k)
  <2>1. \A j : /\ Count(Empty, j) <= Count(Empty, j)
               /\ Count(Empty, j) + (IF j = k THEN Cardinality(DOMAIN Empty) ELSE 0)
                     <= Count(Empty, j)
    BY <1>3, <1>8, <1>9, Zenon
  <2>2. Total(Empty) + Total(Empty) + Total(Empty) = InCodes(Empty, FoundCodes)
    BY <1>2, <1>5
  <2> QED BY <1>1, <1>2, <2>1, <2>2, NewHourIs, Zenon DEF OpenHour
<1> QED BY <1>7, <1>10

\* An error is counted with its URL.
LEMMA ErrorsMore ==
  ASSUME NEW E, NEW m, Tab(m), ErrorsIn(E, m), NEW v, NEW url
  PROVE  ErrorsIn(IF v \in ErrorCodes THEN Map2Add(E, v, url, 1) ELSE E, MapAdd(m, v, 1))
<1>0. PICK F : F = IF v \in ErrorCodes THEN Map2Add(E, v, url, 1) ELSE E
  OBVIOUS
<1>1. PICK a : a = MapAdd(m, v, 1)
  OBVIOUS
<1>2. /\ DOMAIN a = DOMAIN m \cup {v} /\ a[v] = Count(m, v) + 1
      /\ \A x \in DOMAIN m \ {v} : a[x] = m[x]
  BY <1>1 DEF MapAdd, Insert
<1>3. DOMAIN E = ErrorCodes \cap DOMAIN m
      /\ \A w \in DOMAIN E : Tab(E[w]) /\ Total(E[w]) = m[w]
  BY DEF ErrorsIn
<1>4. CASE v \in ErrorCodes
  <2>1. PICK t, s : t = (IF v \in DOMAIN E THEN E[v] ELSE Empty) /\ s = MapAdd(t, url, 1)
    OBVIOUS
  <2>2. DOMAIN F = DOMAIN E \cup {v} /\ F[v] = s /\ \A x \in DOMAIN E \ {v} : F[x] = E[x]
    BY <1>0, <1>4, <2>1 DEF Map2Add, Insert
  <2>3. Tab(t) /\ Total(t) = Count(m, v)
    <3>1. CASE v \in DOMAIN E
      BY <1>3, <2>1, <3>1 DEF Count
    <3>2. CASE v \notin DOMAIN E
      BY <1>3, <1>4, <2>1, <3>2, TotalEmpty DEF Count
    <3> QED BY <3>1, <3>2
  <2>4. Tab(s) /\ Total(s) = Total(t) + 1
    BY <2>1, <2>3, TotalAdd
  <2>5. DOMAIN F = ErrorCodes \cap DOMAIN a
    BY <1>2, <1>3, <1>4, <2>2
  <2>6. ASSUME NEW w \in DOMAIN F PROVE Tab(F[w]) /\ Total(F[w]) = a[w]
    <3>1. CASE w = v
      BY <1>2, <2>2, <2>3, <2>4, <3>1
    <3>2. CASE w # v
      <4>1. w \in DOMAIN E /\ F[w] = E[w] /\ a[w] = m[w]
        BY <1>2, <1>3, <2>2, <3>2
      <4> QED BY <1>3, <4>1
    <3> QED BY <3>1, <3>2
  <2> QED BY <1>0, <1>1, <2>5, <2>6, Zenon DEF ErrorsIn
<1>5. CASE v \notin ErrorCodes
  <2>1. F = E /\ DOMAIN F = ErrorCodes \cap DOMAIN a
    BY <1>0, <1>2, <1>3, <1>5
  <2>2. \A w \in DOMAIN F : a[w] = m[w]
    BY <1>2, <1>3, <1>5, <2>1
  <2> QED BY <1>0, <1>1, <1>3, <2>1, <2>2 DEF ErrorsIn
<1> QED BY <1>4, <1>5

\* A host that is counted: it is in the tables of its hour, and when it was not
\* before, the hour has one session more.
LEMMA HourIs ==
  ASSUME NEW d, NEW hr, NEW p, NEW h, OpenHour(d, hr, h), NEW q, q = CountInHour(hr, p),
         NEW host, host = TextOf(p, "ADDR")
  PROVE  /\ DOMAIN q.start = DOMAIN hr.start \cup {host}
         /\ DOMAIN q.end = DOMAIN q.start /\ DOMAIN q.sites = DOMAIN q.start
         /\ q.hits20x = IF p.buf_points["CODE"] \in FoundCodes
                        THEN MapAdd(hr.hits20x, TextOf(p, "URL"), 1) ELSE hr.hits20x
<1>1. PICK se : se = ProcessSession(hr, host, TimeOf(p))
  OBVIOUS
<1>2. /\ q.start = se.start /\ q.end = se.end /\ q.sites = MapAdd(hr.sites, host, 1)
      /\ q.hits20x = IF p.buf_points["CODE"] \in FoundCodes
                        THEN MapAdd(hr.hits20x, TextOf(p, "URL"), 1) ELSE hr.hits20x
  BY <1>1 DEF CountInHour
<1>3. DOMAIN hr.end = DOMAIN hr.start /\ DOMAIN hr.sites = DOMAIN hr.start
  BY DEF OpenHour
<1>4. \A m, v : DOMAIN Insert(m, host, v) = DOMAIN m \cup {host}
  BY DEF Insert
<1>5. DOMAIN q.sites = DOMAIN hr.start \cup {host}
  BY <1>2, <1>3 DEF MapAdd, Insert
<1>6. /\ se.end = Insert(hr.end, host, TimeOf(p))
      /\ se.start = IF host \in DOMAIN hr.end /\ ~SessionOver(hr, host, TimeOf(p)) THEN hr.start
                    ELSE Insert(hr.start, host, TimeOf(p))
  BY <1>1 DEF ProcessSession
<1>7. DOMAIN se.end = DOMAIN hr.start \cup {host}
  BY <1>3, <1>4, <1>6, ZenonT(40)
<1>8. DOMAIN se.start = DOMAIN hr.start \cup {host}
  <2>1. CASE host \in DOMAIN hr.end /\ ~SessionOver(hr, host, TimeOf(p))
    <3>1. se.start = hr.start
      BY <1>6, <2>1, Zenon
    <3>2. host \in DOMAIN hr.start
      BY <1>3, <2>1, Zenon
    <3> QED BY <3>1, <3>2
  <2>2. CASE ~ (host \in DOMAIN hr.end /\ ~SessionOver(hr, host, TimeOf(p)))
    <3>1. se.start = Insert(hr.start, host, TimeOf(p))
      BY <1>6, <2>2, Zenon
    <3> QED BY <1>4, <3>1
  <2> QED BY <2>1, <2>2
<1> QED BY <1>2, <1>5, <1>7, <1>8

\* A line keeps the agreement of the day and the hour.
LEMMA CountSums ==
  ASSUME NEW d, NEW hr, NEW p, NEW h, Sums(d), OpenHour(d, hr, h), h = p.buf_points["HOUR"],
         NEW e, e = CountInDay(d, hr, p), NEW q, q = CountInHour(hr, p)
  PROVE  Sums(e) /\ OpenHour(e, q, h)
<1>1. PICK v, url, host, dt : /\ v = p.buf_points["CODE"] /\ url = TextOf(p, "URL")
                              /\ host = TextOf(p, "ADDR") /\ dt = DateOf(p)
  OBVIOUS
<1>2. PICK hpe, hph, dates, h302, sess, hosts, errs :
        /\ hpe = d.hits_per_error /\ hph = d.hits_per_hour /\ dates = d.dates
        /\ h302 = d.hits302 /\ sess = d.sessions_per_hour /\ hosts = d.hosts_per_hour
        /\ errs = d.error_urls
  OBVIOUS
<1>3. /\ DayFields \subseteq DOMAIN d /\ Tab(d.pages) /\ Tab(d.hits) /\ Tab(d.pages_per_hour)
      /\ Tab(hpe) /\ Tab(hph) /\ Tab(dates) /\ Tab(h302) /\ Tab(sess) /\ Tab(hosts)
      /\ Total(hph) = Total(dates) /\ Total(hpe) = Total(dates)
      /\ Total(d.pages_per_hour) = Total(d.pages)
      /\ Total(h302) = InCodes(hpe, MovedCodes) /\ d.directories = Empty /\ Errors(d)
  BY <1>2 DEF Sums
<1>4. PICK over : over = SessionOver(hr, host, TimeOf(p))
  OBVIOUS
<1>5. /\ DOMAIN e = DOMAIN d
      /\ e.pages = d.pages /\ e.hits = d.hits /\ e.pages_per_hour = d.pages_per_hour
      /\ e.hosts_per_hour = hosts /\ e.directories = d.directories
      /\ e.sessions_per_hour =
            (IF SessionOver(hr, host, TimeOf(p)) THEN MapAdd(sess, h, 1) ELSE sess)
      /\ e.hits302 = (IF v \in MovedCodes THEN MapAdd(h302, url, 1) ELSE h302)
      /\ e.error_urls = (IF v \in ErrorCodes THEN Map2Add(errs, v, url, 1) ELSE errs)
      /\ e.hits_per_error = MapAdd(hpe, v, 1)
      /\ e.hits_per_hour = MapAdd(hph, h, 1) /\ e.dates = MapAdd(dates, dt, 1)
  BY <1>1, <1>2, <1>3, CountIs
<1>6. /\ Tab(e.hits_per_error) /\ Total(e.hits_per_error) = Total(hpe) + 1
      /\ Tab(e.hits_per_hour) /\ Total(e.hits_per_hour) = Total(hph) + 1
      /\ Tab(e.dates) /\ Total(e.dates) = Total(dates) + 1
  BY <1>3, <1>5, TotalAdd
<1>7. /\ InCodes(hpe, FoundCodes) \in Int
      /\ InCodes(e.hits_per_error, FoundCodes) =
            InCodes(hpe, FoundCodes) + (IF v \in FoundCodes THEN 1 ELSE 0)
      /\ InCodes(e.hits_per_error, MovedCodes) =
            InCodes(hpe, MovedCodes) + (IF v \in MovedCodes THEN 1 ELSE 0)
  BY <1>3, <1>5, CodesFinite, InCodesIs
<1>8. Tab(e.hits302) /\ Total(e.hits302) = InCodes(e.hits_per_error, MovedCodes)
  <2>1. Tab(MapAdd(h302, url, 1)) /\ Total(MapAdd(h302, url, 1)) = Total(h302) + 1
    BY <1>3, TotalAdd
  <2>2. Total(h302) \in Int
    BY <1>3, TotalIs
  <2> QED BY <1>3, <1>5, <1>7, <2>1, <2>2
<1>9. Errors(e)
  <2>1. ErrorsIn(errs, hpe)
    BY <1>2, <1>3, Zenon DEF Errors
  <2>2. ErrorsIn(IF v \in ErrorCodes THEN Map2Add(errs, v, url, 1) ELSE errs, MapAdd(hpe, v, 1))
    BY <1>3, <2>1, ErrorsMore
  <2> QED BY <1>5, <2>2, Zenon DEF Errors
<1>10. Tab(e.sessions_per_hour)
  <2>1. Tab(MapAdd(sess, h, 1))
    BY <1>3, TotalAdd
  <2> QED BY <1>3, <1>5, <2>1, Zenon
<1>11. Sums(e)
  <2>1. Total(e.hits_per_hour) = Total(e.dates) /\ Total(e.hits_per_error) = Total(e.dates)
    BY <1>3, <1>6, Zenon
  <2> QED BY <1>3, <1>5, <1>6, <1>8, <1>9, <1>10, <2>1, Zenon DEF Sums
<1>12. PICK N : N = DOMAIN hr.start
  OBVIOUS
<1>13. /\ IsFiniteSet(N) /\ Tab(hr.hits20x)
       /\ DOMAIN hr.end = N
       /\ Total(d.pages) + Total(d.hits) + Total(hr.hits20x) = InCodes(hpe, FoundCodes)
       /\ DOMAIN hosts \subseteq DOMAIN sess
  BY <1>2, <1>12 DEF OpenHour
<1>14. /\ DOMAIN q.start = N \cup {host}
       /\ DOMAIN q.end = DOMAIN q.start /\ DOMAIN q.sites = DOMAIN q.start
       /\ q.hits20x = IF v \in FoundCodes THEN MapAdd(hr.hits20x, url, 1) ELSE hr.hits20x
  BY <1>1, <1>12, HourIs
<1>15. /\ IsFiniteSet(DOMAIN q.start) /\ Cardinality(N) \in Nat
       /\ Cardinality(DOMAIN q.start) =
             IF host \in N THEN Cardinality(N) ELSE Cardinality(N) + 1
  BY <1>13, <1>14, FS_AddElement, FS_CardinalityType
<1>16. /\ Tab(q.hits20x)
       /\ Total(e.pages) + Total(e.hits) + Total(q.hits20x) = InCodes(e.hits_per_error, FoundCodes)
  <2>1. PICK u : u = hr.hits20x
    OBVIOUS
  <2>2. Tab(MapAdd(u, url, 1)) /\ Total(MapAdd(u, url, 1)) = Total(u) + 1
    BY <1>13, <2>1, TotalAdd
  <2>3. Total(u) \in Int /\ Total(d.pages) \in Int /\ Total(d.hits) \in Int
    BY <1>3, <1>13, <2>1, TotalIs
  <2> QED BY <1>5, <1>7, <1>13, <1>14, <2>1, <2>2, <2>3
<1>17. DOMAIN e.hosts_per_hour \subseteq DOMAIN e.sessions_per_hour
  <2>1. DOMAIN MapAdd(sess, h, 1) = DOMAIN sess \cup {h}
    BY DEF MapAdd, Insert
  <2>2. e.sessions_per_hour = sess \/ e.sessions_per_hour = MapAdd(sess, h, 1)
    BY <1>5, Zenon
  <2> QED BY <1>5, <1>13, <2>1, <2>2
<1>18. SessionOver(hr, host, TimeOf(p)) => host \in N
  BY <1>13 DEF SessionOver
<1>19. ASSUME NEW k
       PROVE  /\ Count(e.hosts_per_hour, k) <= Count(e.sessions_per_hour, k)
              /\ Count(e.sessions_per_hour, k)
                    + (IF k = h THEN Cardinality(DOMAIN q.start) ELSE 0)
                    <= Count(e.hits_per_hour, k)
  <2>1. PICK a, b, c, n : /\ a = Count(hosts, k) /\ b = Count(sess, k) /\ c = Count(hph, k)
                          /\ n = Cardinality(N)
    OBVIOUS
  <2>2. a <= b /\ b + (IF k = h THEN n ELSE 0) <= c
    BY <1>2, <1>12, <2>1, Zenon DEF OpenHour
  <2>3. /\ More(sess, h, 1, k) /\ More(hph, h, 1, k) /\ More(hosts, h, 1, k)
    BY <1>3, CountAdd
  <2>4. a \in Int /\ b \in Int /\ c \in Int /\ n \in Nat
    BY <1>15, <2>1, <2>3 DEF More
  <2>5. Count(e.hosts_per_hour, k) = a /\ Count(e.hits_per_hour, k) = c + (IF k = h THEN 1 ELSE 0)
    BY <1>5, <2>1, <2>3, Zenon DEF More
  <2>6. CASE SessionOver(hr, host, TimeOf(p))
    <3>1. Count(e.sessions_per_hour, k) = b + (IF k = h THEN 1 ELSE 0)
      BY <1>5, <2>1, <2>3, <2>6, Zenon DEF More
    <3>2. Cardinality(DOMAIN q.start) = n
      BY <1>15, <1>18, <2>1, <2>6, Zenon
    <3> QED BY <2>2, <2>4, <2>5, <3>1, <3>2
  <2>7. CASE ~ SessionOver(hr, host, TimeOf(p))
    <3>1. Count(e.sessions_per_hour, k) = b
      BY <1>5, <2>1, <2>7, Zenon
    <3>2. Cardinality(DOMAIN q.start) = n \/ Cardinality(DOMAIN q.start) = n + 1
      BY <1>15, <2>1
    <3> QED BY <2>2, <2>4, <2>5, <3>1, <3>2
  <2> QED BY <2>6, <2>7
<1>20. OpenHour(e, q, h)
  BY <1>14, <1>15, <1>16, <1>17, <1>19, Zenon DEF OpenHour
<1> QED BY <1>11, <1>20

\* The tables of a report.
Agree(d) ==
    /\ Total(d.hits_per_hour) = Total(d.dates)
    /\ Total(d.hits_per_error) = Total(d.dates)
    /\ Total(d.pages) + Total(d.hits) = InCodes(d.hits_per_error, FoundCodes)
    /\ Total(d.pages_per_hour) = Total(d.pages)
    /\ Total(d.hits302) = InCodes(d.hits_per_error, MovedCodes)
    /\ \A v \in DOMAIN d.error_urls : Total(d.error_urls[v]) = d.hits_per_error[v]
    /\ Total(d.directories) = Total(d.pages) + Total(d.hits)
                                 - Count(d.pages, <<>>) - Count(d.hits, <<>>)
    /\ SessionsBetween(d) /\ CompressKeepsTotal(d)

LEMMA SummaryAgrees ==
  ASSUME NEW d, NEW date, NEW final, Sums(d), NEW k, OpenHour(d, NewHour, k), NEW e,
         e = Summary(d, date, final).day
  PROVE  Agree(e)
<1>1. PICK pages, hits, hpe, dates, dirs, one :
         /\ pages = d.pages /\ hits = d.hits /\ hpe = d.hits_per_error /\ dates = d.dates
         /\ one = SummarizeDirectories(Empty, pages)
         /\ dirs = SummarizeDirectories(one, hits)
  OBVIOUS
<1>2. /\ DayFields \subseteq DOMAIN d /\ Tab(pages) /\ Tab(hits) /\ d.directories = Empty
      /\ Total(d.hits_per_hour) = Total(dates) /\ Total(hpe) = Total(dates)
      /\ Total(d.pages_per_hour) = Total(pages)
      /\ Total(d.hits302) = InCodes(hpe, MovedCodes)
      /\ \A v \in DOMAIN d.error_urls : Total(d.error_urls[v]) = hpe[v]
  BY <1>1 DEF Sums, Errors, ErrorsIn
<1>3. /\ e.pages = pages /\ e.hits = hits /\ e.pages_per_hour = d.pages_per_hour
      /\ e.sessions_per_hour = d.sessions_per_hour /\ e.hosts_per_hour = d.hosts_per_hour
      /\ e.hits302 = d.hits302 /\ e.hits_per_error = hpe
      /\ e.error_urls = d.error_urls
      /\ e.hits_per_hour = d.hits_per_hour /\ e.dates = dates
      /\ e.directories = dirs
  <2>1. PICK f : f = final
    OBVIOUS
  <2> QED BY <1>1, <1>2, SummaryIs
<1>4. Total(pages) + Total(hits) = InCodes(hpe, FoundCodes)
  <2>1. Total(pages) + Total(hits) + Total(Empty) = InCodes(hpe, FoundCodes)
    BY <1>1, NewHourIs, Zenon DEF OpenHour
  <2>2. Total(pages) \in Int /\ Total(hits) \in Int /\ Total(Empty) = 0
    BY <1>2, TotalIs, TotalEmpty
  <2> QED BY <2>1, <2>2
<1>5. Total(dirs) = Total(pages) + Total(hits) - Count(pages, <<>>) - Count(hits, <<>>)
  <2>1. Tab(one) /\ Total(one) = Total(Empty) + Total(pages) - Count(pages, <<>>)
    BY <1>1, <1>2, TotalEmpty, DirectoriesAre
  <2>2. Total(dirs) = Total(one) + Total(hits) - Count(hits, <<>>)
    BY <1>1, <1>2, <2>1, DirectoriesAre
  <2>3. Total(pages) \in Int /\ Total(hits) \in Int /\ Total(Empty) = 0
    BY <1>2, TotalIs, TotalEmpty
  <2>4. Count(pages, <<>>) \in Int /\ Count(hits, <<>>) \in Int
    BY <1>2 DEF Count, Tab, Numbers
  <2> QED BY <2>1, <2>2, <2>3, <2>4
<1>6. SessionsBetween(e)
  <2>1. PICK sess, hosts, hph : /\ sess = d.sessions_per_hour /\ hosts = d.hosts_per_hour
                                /\ hph = d.hits_per_hour
    OBVIOUS
  <2>2. DOMAIN hosts \subseteq DOMAIN sess /\ Tab(sess)
    BY <2>1 DEF OpenHour, Sums
  <2>3. ASSUME NEW h \in DOMAIN hosts PROVE hosts[h] <= sess[h] /\ sess[h] <= Count(hph, h)
    <3>1. Count(hosts, h) <= Count(sess, h)
          /\ Count(sess, h) + (IF h = k THEN Cardinality(DOMAIN Empty) ELSE 0) <= Count(hph, h)
      BY <2>1, NewHourIs, Zenon DEF OpenHour
    <3>2. Count(hosts, h) = hosts[h] /\ Count(sess, h) = sess[h] /\ sess[h] \in Int
      BY <2>2 DEF Count, Tab, Numbers
    <3>3. Cardinality(DOMAIN Empty) = 0
      BY NewHourIs, FS_EmptySet
    <3>4. Count(sess, h) + 0 = sess[h]
      BY <3>2
    <3> QED BY <3>1, <3>2, <3>3, <3>4
  <2> QED BY <1>3, <2>1, <2>3 DEF SessionsBetween
<1>7. CompressKeepsTotal(e)
  <2>1. \A n \in 1 .. 2 : n \in Nat
    OBVIOUS
  <2>2. ASSUME NEW n \in 1 .. 2, NEW c \in CompressMapping(pages, n)
        PROVE  Total(c) = Total(pages) /\ Cardinality(DOMAIN c) <= n + 1
    BY <1>2, <2>1, CompressKeeps
  <2> QED BY <1>3, <2>2, Zenon DEF CompressKeepsTotal
<1> QED BY <1>2, <1>3, <1>4, <1>5, <1>6, <1>7, Zenon DEF Agree

\* An hour without lines may be any.
LEMMA NewHourMoves ==
  ASSUME NEW d, Sums(d), NEW l, OpenHour(d, NewHour, l), NEW h
  PROVE  OpenHour(d, NewHour, h)
<1>1. Cardinality(DOMAIN NewHour.start) = 0
  BY NewHourIs, FS_EmptySet
<1>2. ASSUME NEW k
      PROVE  Count(d.sessions_per_hour, k)
                + (IF k = h THEN Cardinality(DOMAIN NewHour.start) ELSE 0)
                <= Count(d.hits_per_hour, k)
  <2>1. PICK b, c : b = Count(d.sessions_per_hour, k) /\ c = Count(d.hits_per_hour, k)
    OBVIOUS
  <2>2. b + (IF k = l THEN Cardinality(DOMAIN NewHour.start) ELSE 0) <= c
    BY <2>1, Zenon DEF OpenHour
  <2> QED BY <1>1, <2>1, <2>2
<1> QED BY <1>2, Zenon DEF OpenHour

\* The day and the hour agree, and so do the tables of each report.
TotalsInv ==
    /\ Sums(day) /\ OpenHour(day, hour, last.hour)
    /\ last.date = 0 => hour = NewHour
    /\ \E R : reports \in Seq(R)
    /\ \A i \in DOMAIN reports : Agree(reports[i].day)

\* The day and the hour that a line is counted in are the open ones, or new
\* ones behind the end of an hour or of a day.
LEMMA LineTables ==
  ASSUME EndOfLine
  PROVE  \E p, d, hr :
            /\ \/ d = day /\ hr = hour /\ (last.date = 0 \/ last.hour = p.buf_points["HOUR"])
                  /\ reports' = reports
               \/ d = FlushHour(day, hour, last.hour) /\ hr = NewHour /\ reports' = reports
               \/ /\ d = NewDay /\ hr = NewHour
                  /\ reports' = Append(reports, Summary(FlushHour(day, hour, last.hour),
                                                        last.date, FALSE))
            /\ last'.hour = p.buf_points["HOUR"] /\ last'.date # 0
            /\ hour' = CountInHour(hr, p) /\ day' = CountInDay(d, hr, p)
<1>1. PICK p \in ProcessField(parser) :
        LET first == last.date = 0
            flush == ~first /\ (last.hour # p.buf_points["HOUR"] \/ DayIsOver(p))
            d1 == IF flush THEN FlushHour(day, hour, last.hour) ELSE day
            hr == IF flush THEN NewHour ELSE hour
            over == ~first /\ DayIsOver(p)
            d2 == IF over THEN NewDay ELSE d1
        IN  /\ DateOf(p) # 0
            /\ reports' = IF over THEN Append(reports, Summary(d1, last.date, FALSE))
                          ELSE reports
            /\ last' = [hour |-> IF first \/ flush THEN p.buf_points["HOUR"] ELSE last.hour,
                        date |-> IF first \/ over THEN DateOf(p) ELSE last.date]
            /\ hour' = CountInHour(hr, p)
            /\ day' = CountInDay(d2, hr, p)
  BY Zenon DEF EndOfLine, AfterDay, AfterHour
<1> DEFINE first == last.date = 0
           over == ~first /\ DayIsOver(p)
           flush == ~first /\ (last.hour # p.buf_points["HOUR"] \/ DayIsOver(p))
<1>2. PICK d1, hr, d2 : /\ d1 = IF flush THEN FlushHour(day, hour, last.hour) ELSE day
                        /\ hr = IF flush THEN NewHour ELSE hour
                        /\ d2 = IF over THEN NewDay ELSE d1
  OBVIOUS
<1>3. /\ DateOf(p) # 0 /\ hour' = CountInHour(hr, p) /\ day' = CountInDay(d2, hr, p)
      /\ reports' = IF over THEN Append(reports, Summary(d1, last.date, FALSE)) ELSE reports
      /\ last' = [hour |-> IF first \/ flush THEN p.buf_points["HOUR"] ELSE last.hour,
                  date |-> IF first \/ over THEN DateOf(p) ELSE last.date]
  BY <1>1, <1>2, Zenon
<1>4. /\ last'.hour = (IF first \/ flush THEN p.buf_points["HOUR"] ELSE last.hour)
      /\ last'.date = (IF first \/ over THEN DateOf(p) ELSE last.date)
  BY <1>3
<1>5. last'.hour = p.buf_points["HOUR"] /\ last'.date # 0
  BY <1>3, <1>4, Zenon
<1>6. \/ d2 = day /\ hr = hour /\ (last.date = 0 \/ last.hour = p.buf_points["HOUR"])
         /\ reports' = reports
      \/ d2 = FlushHour(day, hour, last.hour) /\ hr = NewHour /\ reports' = reports
      \/ /\ d2 = NewDay /\ hr = NewHour
         /\ reports' = Append(reports, Summary(FlushHour(day, hour, last.hour),
                                               last.date, FALSE))
  BY <1>2, <1>3, Zenon
<1> QED BY <1>3, <1>5, <1>6, Zenon

\* One more report that agrees.
LEMMA AgreeMore ==
  ASSUME NEW s, \E R : s \in Seq(R), \A i \in DOMAIN s : Agree(s[i].day), NEW r, Agree(r.day)
  PROVE  /\ \E R : Append(s, r) \in Seq(R)
         /\ \A i \in DOMAIN Append(s, r) : Agree(Append(s, r)[i].day)
<1>1. PICK R : s \in Seq(R)
  OBVIOUS
<1>2. PICK n \in Nat : n = Len(s) /\ DOMAIN s = 1 .. n
  BY <1>1
<1>3. PICK Q : Q = R \cup {r}
  OBVIOUS
<1>4. s \in Seq(Q) /\ r \in Q
  BY <1>1, <1>3
<1>5. PICK a \in Seq(Q) : a = Append(s, r)
  <2>1. Append(s, r) \in Seq(Q)
    BY <1>4
  <2> QED BY <2>1
<1>6. DOMAIN a = 1 .. n + 1 /\ a[n + 1] = r /\ \A i \in 1 .. n : a[i] = s[i]
  BY <1>1, <1>2, <1>5
<1>7. \A i \in DOMAIN a : a[i] = r \/ \E j \in DOMAIN s : a[i] = s[j]
  BY <1>2, <1>6
<1>8. \A i \in DOMAIN a : Agree(a[i].day)
  BY <1>7, Zenon
<1> QED BY <1>5, <1>8, Zenon

\* A line keeps the agreement,
LEMMA LineAgrees == ASSUME TotalsInv, EndOfLine PROVE TotalsInv'
<1>1. PICK p, d, hr :
         /\ \/ d = day /\ hr = hour /\ (last.date = 0 \/ last.hour = p.buf_points["HOUR"])
               /\ reports' = reports
            \/ d = FlushHour(day, hour, last.hour) /\ hr = NewHour /\ reports' = reports
            \/ /\ d = NewDay /\ hr = NewHour
               /\ reports' = Append(reports, Summary(FlushHour(day, hour, last.hour),
                                                     last.date, FALSE))
         /\ last'.hour = p.buf_points["HOUR"] /\ last'.date # 0
         /\ hour' = CountInHour(hr, p) /\ day' = CountInDay(d, hr, p)
  BY LineTables
<1>2. PICK h, l : h = p.buf_points["HOUR"] /\ l = last.hour
  OBVIOUS
<1>3. PICK e : e = FlushHour(day, hour, l)
  OBVIOUS
<1>4. Sums(e) /\ \A k : OpenHour(e, NewHour, k)
  <2>1. PICK dd, hh : dd = day /\ hh = hour
    OBVIOUS
  <2>2. Sums(dd) /\ OpenHour(dd, hh, l) /\ e = FlushHour(dd, hh, l)
    BY <1>2, <1>3, <2>1, Zenon DEF TotalsInv
  <2> QED BY <2>2, FlushSums
<1>5. Sums(d) /\ OpenHour(d, hr, h)
  <2>1. CASE d = day /\ hr = hour /\ last.hour = p.buf_points["HOUR"]
    BY <1>2, <2>1, Zenon DEF TotalsInv
  <2>2. CASE d = day /\ hr = hour /\ last.date = 0
    <3>1. hr = NewHour /\ Sums(d) /\ OpenHour(d, NewHour, l)
      BY <1>2, <2>2, Zenon DEF TotalsInv
    <3>2. OpenHour(d, NewHour, h)
      BY <1>4, <3>1, NewHourMoves
    <3> QED BY <3>1, <3>2
  <2>3. CASE d = e /\ hr = NewHour
    BY <1>4, <2>3
  <2>4. CASE d = NewDay /\ hr = NewHour
    BY <2>4, NewSums, Zenon
  <2> QED BY <1>1, <1>2, <1>3, <2>1, <2>2, <2>3, <2>4, Zenon
<1>6. Sums(day') /\ OpenHour(day', hour', h)
  <2>1. PICK dd, hh : dd = CountInDay(d, hr, p) /\ hh = CountInHour(hr, p)
    OBVIOUS
  <2>2. Sums(dd) /\ OpenHour(dd, hh, h)
    BY <1>2, <1>5, <2>1, CountSums
  <2> QED BY <1>1, <2>1, <2>2, Zenon
<1>7. (\E R : reports' \in Seq(R)) /\ \A i \in DOMAIN reports' : Agree(reports'[i].day)
  <2>1. (\E R : reports \in Seq(R)) /\ \A i \in DOMAIN reports : Agree(reports[i].day)
    BY DEF TotalsInv
  <2>2. CASE reports' = reports
    BY <2>1, <2>2, Zenon
  <2>3. CASE reports' = Append(reports, Summary(e, last.date, FALSE))
    <3>1. PICK s, r, t, f : /\ s = reports /\ t = last.date /\ f = FALSE
                            /\ r = Summary(e, t, f)
      OBVIOUS
    <3>2. Agree(r.day)
      BY <1>4, <3>1, SummaryAgrees
    <3>3. /\ \E R : Append(s, r) \in Seq(R)
          /\ \A i \in DOMAIN Append(s, r) : Agree(Append(s, r)[i].day)
      <4>1. (\E R : s \in Seq(R)) /\ \A i \in DOMAIN s : Agree(s[i].day)
        BY <2>1, <3>1
      <4> QED BY <3>2, <4>1, AgreeMore
    <3>4. reports' = Append(s, r)
      BY <2>3, <3>1, Zenon
    <3> QED BY <3>3, <3>4, Zenon
  <2> QED BY <1>1, <1>2, <1>3, <2>2, <2>3, Zenon
<1> QED BY <1>1, <1>2, <1>6, <1>7, Zenon DEF TotalsInv

\* and so does the end of the file.
LEMMA CleanupAgrees == ASSUME TotalsInv, Cleanup PROVE TotalsInv'
<1>1. /\ UNCHANGED <<last, day, hour>>
      /\ \/ reports' = reports
         \/ \E t : reports' = Append(reports, Summary(FlushHour(day, hour, last.hour), t, TRUE))
  BY DEF Cleanup
<1>2. PICK s, d, hr, l : s = reports /\ d = day /\ hr = hour /\ l = last.hour
  OBVIOUS
<1>3. /\ Sums(d) /\ OpenHour(d, hr, l) /\ (\E R : s \in Seq(R))
      /\ \A i \in DOMAIN s : Agree(s[i].day)
  BY <1>2, Zenon DEF TotalsInv
<1>4. (\E R : reports' \in Seq(R)) /\ \A i \in DOMAIN reports' : Agree(reports'[i].day)
  <2>1. CASE reports' = reports
    BY <1>2, <1>3, <2>1, Zenon
  <2>2. CASE \E t : reports' = Append(reports, Summary(FlushHour(day, hour, last.hour), t, TRUE))
    <3>1. PICK t, e, r, f : /\ e = FlushHour(d, hr, l) /\ f = TRUE /\ r = Summary(e, t, f)
                            /\ reports' = Append(s, r)
      BY <1>2, <2>2, Zenon
    <3>2. Sums(e) /\ \A k : OpenHour(e, NewHour, k)
      BY <1>3, <3>1, FlushSums
    <3>3. Agree(r.day)
      BY <3>1, <3>2, SummaryAgrees
    <3>4. /\ \E R : Append(s, r) \in Seq(R)
          /\ \A i \in DOMAIN Append(s, r) : Agree(Append(s, r)[i].day)
      BY <1>3, <3>3, AgreeMore
    <3> QED BY <3>1, <3>4, Zenon
  <2> QED BY <1>1, <2>1, <2>2
<1> QED BY <1>1, <1>4, Zenon DEF TotalsInv

(* The tables of a report agree with each other, although those of the hour*)
(* are moved into those of the day at each change of hour and the reports  *)
(* are made from tables that are summarised.                               *)
THEOREM DayTotalsTheorem == Spec => []DayTotals
<1>1. Init => TotalsInv
  <2> SUFFICES ASSUME Init PROVE TotalsInv
    OBVIOUS
  <2>1. hour = NewHour /\ day = NewDay /\ reports = <<>>
    BY DEF Init
  <2>2. reports \in Seq({}) /\ DOMAIN reports = {}
    BY <2>1
  <2> QED BY <2>1, <2>2, NewSums, Zenon DEF TotalsInv
<1>2. ASSUME TotalsInv, [Next]_vars PROVE TotalsInv'
  <2>1. CASE Read \/ InField \/ EndOfField \/ BrokenAtEnd \/ Skip \/ BadFormat \/ UNCHANGED vars
    <3>1. UNCHANGED <<last, hour, day, reports>>
      BY <2>1 DEF Read, InField, EndOfField, BrokenAtEnd, Skip, BadFormat, vars, Counted
    <3> QED BY <1>2, <3>1, Zenon DEF TotalsInv
  <2> QED BY <1>2, <2>1, LineAgrees, CleanupAgrees DEF Next
<1>3. TotalsInv => DayTotals
  <2>1. ASSUME TotalsInv, NEW r \in Reported PROVE Agree(r.day)
    BY <2>1, Zenon DEF TotalsInv, Reported
  <2> QED BY <2>1, Zenon DEF DayTotals, Agree
<1> QED BY <1>1, <1>2, <1>3, PTL DEF Spec
=============================================================================
