------------------------------ MODULE UltraLog ------------------------------
(***************************************************************************)
(* UltraLog.ultraparse(): a log file is read block by block, each byte     *)
(* drives the automaton built from the log format, each line that comes    *)
(* out of it is counted in the tables of its hour and its day, and a day   *)
(* that is over is handed to the daily callback.                           *)
(***************************************************************************)
EXTENDS UltraUtil, SequencesExt

CONSTANTS Formats,         \* log formats
          Logs,            \* contents of the log file
          PageExts,        \* the extensions of pages
          NotRef,          \* referrers that contain one of these are left out
          MaxLineLen,      \* MAX_LINE_LEN
          ReadBlockSize    \* READ_BLOCK_SIZE
ASSUME UltraAssumption ==
    /\ MaxLineLen \in Nat \ {0} /\ ReadBlockSize \in Nat \ {0}
    /\ Formats \subseteq Seq(Byte) /\ Logs \subseteq Seq(Byte)

VARIABLES format, log,
          offs0,     \* bytes read of the file
          pos,       \* bytes of them parsed
          parser,    \* state_pos, buf, field_position, buf_points, tmpinteger; skipping
          lines, broken,
          last,      \* last_hour and last_date
          hour, day, \* the tables of the hour and of the day
          reports,   \* the calls of the daily callback
          phase      \* "run", "done", or "error" for a bad format
vars == <<format, log, offs0, pos, parser, lines, broken, last, hour, day, reports, phase>>

-----------------------------------------------------------------------------
(* char_class *)
Class(c) ==
    CASE c \in {SP, 9} -> "WSPACE"
      [] c \in {LF, CR, 12} -> "CRLF"
      [] IsDigit(c) -> "DIGIT"
      [] c = 34 -> "QUOTE"    [] c = 91 -> "LBRACK" [] c = 93 -> "RBRACK"
      [] c = SLASH -> "SLASH" [] c = COLON -> "COLON" [] c = 45 -> "HYPHEN"
      [] c = PLUS -> "PLUS"   [] c = QM -> "QUESTION"
      [] OTHER -> "TOKEN"

(* The letters behind "%" and where what they match is saved. *)
FieldCode ==
    [c \in {72, 82, 85, 68, 77, 89, 104, 109, 115, 122, 101, 102, 117, 80, 99, 98, 106} |->
        CASE c = 72 -> "ADDR"    [] c = 82 -> "REFER"  [] c = 85 -> "AGENT"
          [] c = 68 -> "DATE"    [] c = 77 -> "MONTH"  [] c = 89 -> "YEAR"
          [] c = 104 -> "HOUR"   [] c = 109 -> "MINUTE" [] c = 115 -> "SEC"
          [] c = 101 -> "METHOD" [] c = 102 -> "URL"   [] c = 117 -> "RFC"
          [] c = 80 -> "PROTO"   [] c = 99 -> "CODE"   [] c = 98 -> "BYTES"
          [] OTHER -> "SKIP"]
NumberFields == {"DATE", "HOUR", "MINUTE", "SEC", "CODE"}
TextFields == {"ADDR", "REFER", "AGENT", "METHOD", "URL", "RFC", "PROTO"}
Separators == {"QUOTE", "LBRACK", "RBRACK", "SLASH", "COLON", "HYPHEN", "PLUS", "QUESTION"}

(* parse_log_format(): the fields with the class of byte that ends each;   *)
(* <<>> for a format it rejects. Two fields need a separator between them. *)
GotFields == Range(FieldCode) \cup {"NONE"}
BadField == [save |-> "BAD", ending |-> "BAD"]
ParseLogFormat(f) ==
    LET P[i \in 1 .. Len(f) + 1] ==
            LET Separator(got, c, n) ==
                    <<[save |-> IF got = "NONE" THEN "SKIP" ELSE got, ending |-> c]>>
                        \o (IF i <= Len(f) THEN P[i + n]["NONE"] ELSE <<>>)
                next == IF i < Len(f) THEN f[i + 1] ELSE NUL
            IN  [got \in GotFields |->
                    IF i > Len(f) THEN Separator(got, "CRLF", 0)
                    ELSE IF f[i] = PCT
                    THEN IF got = "NONE" /\ next \in DOMAIN FieldCode
                         THEN P[i + 2][FieldCode[next]] ELSE <<BadField>>
                    ELSE IF f[i] = 92
                    THEN IF next = 119 THEN Separator(got, "WSPACE", 2)
                         ELSE IF next = 111 THEN P[i + 2][got] ELSE <<BadField>>
                    ELSE IF f[i] = SP \/ Class(f[i]) \in Separators
                    THEN Separator(got, Class(f[i]), 1) ELSE <<BadField>>]
        fields == P[1]["NONE"]
    IN  IF f = <<>> \/ BadField \in Range(fields) THEN <<>> ELSE fields

(* "return required_fields || state_pos": the number of states a line must *)
(* go through is a truth value.                                            *)
NumStates == 1
Fields == [f \in Formats |-> ParseLogFormat(f)]

-----------------------------------------------------------------------------
(* The value of a field: tmpinteger behind it, and whether it was right.   *)
DigitPrefix(t) == SubSeq(t, 1, FirstOf(t, 1, Byte \ (48 .. 57)) - 1)
Number(t) == FoldLeft(LAMBDA n, c : 10 * n + c - 48, 0, t)
Digits(t) == [tmp |-> Number(DigitPrefix(t)), ok |-> DigitPrefix(t) = t]

FullYear(r) ==
    IF r.ok /\ r.tmp < 100 THEN [r EXCEPT !.tmp = @ + (IF @ < 60 THEN 2000 ELSE 1900)] ELSE r

(* The months by their letters, case left out; any other three letters     *)
(* keep the number of the field before.                                    *)
Months == <<<<106, 97, 110>>, <<102, 101, 98>>, <<109, 97, 114>>, <<97, 112, 114>>,
            <<109, 97, 121>>, <<106, 117, 110>>, <<106, 117, 108>>, <<97, 117, 103>>,
            <<115, 101, 112>>, <<111, 99, 116>>, <<110, 111, 118>>, <<100, 101, 99>>>>
WithBit5(t) == [i \in DOMAIN t |-> IF (t[i] \div 32) % 2 = 1 THEN t[i] ELSE t[i] + 32]
Month(t, tmp) ==
    LET named == {i \in 1 .. 12 : Months[i] = WithBit5(t)}
        r == IF Len(t) = 2 THEN Digits(t)
             ELSE [tmp |-> IF named = {} THEN tmp ELSE Min(named), ok |-> Len(t) = 3]
    IN  [r EXCEPT !.ok = @ /\ r.tmp \in 1 .. 12]

(* Of an empty field the first byte is read, left by an earlier line.      *)
BytesSent(t, tmp) ==
    IF t = <<>> THEN {[tmp |-> tmp, ok |-> FALSE]} \cup [tmp : 0 .. 9, ok : {TRUE}]
    ELSE IF Class(t[1]) \in {"QUESTION", "HYPHEN"}
    THEN {[tmp |-> IF Len(t) = 1 THEN 0 ELSE tmp, ok |-> Len(t) = 1]}
    ELSE IF IsDigit(t[1]) THEN {Digits(t)} ELSE {[tmp |-> tmp, ok |-> FALSE]}

FieldValue(save, t, tmp) ==
    CASE save \in NumberFields -> {Digits(t)}
      [] save = "YEAR" -> {FullYear(Digits(t))}
      [] save = "MONTH" -> {Month(t, tmp)}
      [] save = "BYTES" -> BytesSent(t, tmp)
      [] OTHER -> {[tmp |-> tmp, ok |-> TRUE]}

-----------------------------------------------------------------------------
Points == NumberFields \cup TextFields \cup {"YEAR", "MONTH", "BYTES"}
DateFields == {"DATE", "MONTH", "YEAR"}

(* "ok:" makes ready for the next line. The date stays. *)
NextLine(p) ==
    [p EXCEPT !.state_pos = 1, !.buf = <<NUL>>, !.field_position = 1, !.skipping = FALSE,
              !.buf_points = [q \in Points |-> IF q \in DateFields THEN @[q] ELSE 0]]
NewParser ==
    NextLine([state_pos |-> 1, buf |-> <<>>, field_position |-> 0, tmpinteger |-> 0,
              skipping |-> FALSE, buf_points |-> [q \in Points |-> 0]])

(* BUFSET(); no room for c means that the line is skipped. *)
HasRoomForOneMore(p) == Len(p.buf) <= MaxLineLen
HasRoom(p) == Len(p.buf) < MaxLineLen
BufSet(p, c) == IF HasRoom(p) THEN [p EXCEPT !.buf = Append(@, c)]
                ELSE [p EXCEPT !.skipping = TRUE]

(* "process_field:" up to "state_pos++". *)
ProcessField(p) ==
    LET save == Fields[format][p.state_pos].save
        text == SubSeq(p.buf, p.field_position + 1, Len(p.buf))
        Done(q, v) ==
            [q EXCEPT !.state_pos = @ + 1, !.field_position = Len(q.buf),
                      !.buf_points = IF save \in Points THEN [@ EXCEPT ![save] = v] ELSE @]
    IN  IF save \in TextFields
        THEN LET q == BufSet(p, NUL)
             IN  {IF q.skipping THEN q ELSE Done(q, p.field_position)}
        ELSE {LET q == [p EXCEPT !.tmpinteger = r.tmp]
              IN  IF r.ok THEN Done(q, r.tmp) ELSE [q EXCEPT !.skipping = TRUE] :
                 r \in FieldValue(save, text, p.tmpinteger)}

(* The string a text field starts in the buffer; the empty one for a field *)
(* that the line did not have.                                             *)
TextOf(p, q) == CString(SubSeq(p.buf, p.buf_points[q] + 1, Len(p.buf)))
DateOf(p) == 10000 * p.buf_points["YEAR"] + 100 * p.buf_points["MONTH"] + p.buf_points["DATE"]
TimeOf(p) == 3600 * p.buf_points["HOUR"] + 60 * p.buf_points["MINUTE"] + p.buf_points["SEC"]

-----------------------------------------------------------------------------
NewHour == [hits20x |-> Empty, sites |-> Empty, start |-> Empty, end |-> Empty]
NewDay == [pages |-> Empty, hits |-> Empty, hits302 |-> Empty, hits_per_error |-> Empty,
           error_urls |-> Empty, error_refs |-> Empty, referredto |-> Empty,
           refsites |-> Empty, referrers |-> Empty, directories |-> Empty,
           user_agents |-> Empty, hosts |-> Empty, sessions_per_hour |-> Empty,
           hits_per_hour |-> Empty, pages_per_hour |-> Empty, bytes_per_hour |-> Empty,
           session_length |-> Empty, hosts_per_hour |-> Empty,
           dates |-> Empty]        \* history: the lines counted, by date

(* The end of hour h: its tables go into those of the day. *)
FlushHour(d, hr, h) ==
    LET pages == HourlyPages(hr.hits20x, PageExts)
    IN  [d EXCEPT
           !.pages = DoMapAddition(@, pages),
           !.hits = DoMapAddition(@, HourlyHits(hr.hits20x, PageExts)),
           !.pages_per_hour = MapAdd(@, h, Total(pages)),
           !.sessions_per_hour = MapAdd(@, h, Cardinality(DOMAIN hr.start)),
           !.session_length = MapAdd(@, h, SessionTime(hr, DOMAIN hr.start)),
           !.hosts_per_hour = MapAdd(@, h, Cardinality(DOMAIN hr.sites)),
           !.hosts = DoMapAddition(@, hr.sites)]

(* The end of a day: its tables, summarised, for the daily callback. *)
Summary(d, date, final) ==
    [date |-> date, final |-> final,
     domains |-> Domains(d.hosts), topdomains |-> TopDomains(d.hosts),
     day |-> [d EXCEPT !.refsites = SummarizeRefsites(@, d.referrers),
                       !.referrers = NewReferrers(@),
                       !.referredto = CleanRefto(@, PageExts),
                       !.directories = SummarizeDirectories(
                                           SummarizeDirectories(@, d.pages), d.hits),
                       !.user_agents = HttpDecodeMapping(@),
                       !.hosts = NewHosts(@)]]

FoundCodes == (200 .. 207) \cup {304}
MovedCodes == (300 .. 303) \cup {305}
ErrorCodes == {400, 404, 405, 406} \cup (408 .. 416) \cup {500, 501}

(* A line, counted in its hour ... *)
CountInHour(hr, p) ==
    LET se == ProcessSession(hr, TextOf(p, "ADDR"), TimeOf(p))
        found == p.buf_points["CODE"] \in FoundCodes
    IN  [hits20x |-> IF found THEN MapAdd(hr.hits20x, TextOf(p, "URL"), 1) ELSE hr.hits20x,
         sites |-> MapAdd(hr.sites, TextOf(p, "ADDR"), 1),
         start |-> se.start, end |-> se.end]

(* ... and in its day: a session that this line shows to be over, the      *)
(* tables of its code, DO_REFERRER() or DO_ERREF(), bytes and browser.     *)
HasPart(t, part) == \E i \in 0 .. Len(t) - Len(part) : SubSeq(t, i + 1, i + Len(part)) = part
CountInDay(d, hr, p) ==
    LET v == p.buf_points["CODE"]
        h == p.buf_points["HOUR"]
        host == TextOf(p, "ADDR")
        over == SessionOver(hr, host, TimeOf(p))
        url == TextOf(p, "URL")
        ref == TextOf(p, "REFER")
        agent == TextOf(p, "AGENT")
        referred == /\ v \in FoundCodes \cup MovedCodes /\ Len(ref) > 1
                    /\ \A n \in NotRef : ~HasPart(ref, n)
    IN  [d EXCEPT
           !.sessions_per_hour = IF over THEN MapAdd(@, h, 1) ELSE @,
           !.session_length =
               IF over THEN MapAdd(@, h, SessionTime(hr, {host})) ELSE @,
           !.hits302 = IF v \in MovedCodes THEN MapAdd(@, url, 1) ELSE @,
           !.referredto = IF referred THEN Map2Add(@, url, ref, 1) ELSE @,
           !.referrers = IF referred THEN MapAdd(@, ref, 1) ELSE @,
           !.error_refs = IF v \in ErrorCodes /\ Len(ref) > 1
                          THEN Map2Add(@, url, ref, 1) ELSE @,
           !.error_urls = IF v \in ErrorCodes THEN Map2Add(@, v, url, 1) ELSE @,
           !.hits_per_error = MapAdd(@, v, 1),
           !.bytes_per_hour = MapAdd(@, h, p.buf_points["BYTES"]),
           !.hits_per_hour = MapAdd(@, h, 1),
           !.user_agents = IF Len(agent) > 1 THEN MapAdd(@, agent, 1) ELSE @,
           !.dates = MapAdd(@, DateOf(p), 1)]

-----------------------------------------------------------------------------
Init ==
    /\ format \in Formats /\ log \in Logs
    /\ offs0 = 0 /\ pos = 0 /\ parser = NewParser
    /\ lines = 0 /\ broken = 0 /\ last = [hour |-> 0, date |-> 0]
    /\ hour = NewHour /\ day = NewDay /\ reports = <<>> /\ phase = "run"

(* A format that is rejected is an error; nothing has been read. *)
BadFormat ==
    /\ phase = "run" /\ Fields[format] = <<>>
    /\ phase' = "error"
    /\ UNCHANGED <<format, log, offs0, pos, parser, lines, broken, last, hour, day, reports>>

Running == phase = "run" /\ Fields[format] # <<>>

(* The block is used up: fd_read() gives the next one. *)
Read ==
    /\ Running /\ pos = offs0 /\ offs0 < Len(log)
    /\ offs0' = Min({offs0 + ReadBlockSize, Len(log)})
    /\ UNCHANGED <<format, log, pos, parser, lines, broken, last, hour, day, reports, phase>>

(* The next byte of the block. *)
Byte1 == log[pos + 1]
Consume == Running /\ pos < offs0 /\ pos' = pos + 1 /\ UNCHANGED <<format, log, offs0, phase>>
Counted == UNCHANGED <<lines, last, hour, day, reports>>

(* A byte inside a field. *)
InField ==
    /\ Consume /\ ~parser.skipping
    /\ Class(Byte1) \notin {Fields[format][parser.state_pos].ending, "CRLF"}
    /\ parser' = BufSet(parser, Byte1)
    /\ broken' = IF parser'.skipping THEN broken + 1 ELSE broken
    /\ Counted

(* The byte that ends a field but not the line. *)
EndOfField ==
    /\ Consume /\ ~parser.skipping
    /\ Class(Byte1) = Fields[format][parser.state_pos].ending /\ Class(Byte1) # "CRLF"
    /\ parser' \in ProcessField(parser)
    /\ broken' = IF parser'.skipping THEN broken + 1 ELSE broken
    /\ Counted

(* The end of a line is the end of the field it cuts off. A field that is  *)
(* wrong at this point makes the line behind this one the skipped one.     *)
BrokenAtEnd ==
    /\ Consume /\ ~parser.skipping /\ Class(Byte1) = "CRLF"
    /\ \E p \in ProcessField(parser) :
          \/ p.skipping /\ parser' = p
          \/ /\ ~p.skipping /\ (p.state_pos - 1 < NumStates \/ DateOf(p) = 0)
             /\ parser' = NextLine(p)
    /\ broken' = broken + 1
    /\ Counted

DayIsOverByHour(p) == last.date # DateOf(p) /\ last.hour # p.buf_points["HOUR"]
DayIsOver(p) == last.date # DateOf(p)
HourKeepingHits == [NewHour EXCEPT !.hits20x = hour.hits20x]
HourKeepingSites == [NewHour EXCEPT !.sites = hour.sites]
AfterHour == NewHour
DayKeepingHits(d) == [NewDay EXCEPT !.hits_per_hour = d.hits_per_hour]
AfterDay(d) == NewDay

(* A line that counts: before it an hour that is over goes into the day,   *)
(* and a day that is over to the callback.                                 *)
EndOfLine ==
    /\ Consume /\ ~parser.skipping /\ Class(Byte1) = "CRLF"
    /\ \E p \in ProcessField(parser) :
          LET first == last.date = 0
              flush == ~first /\ (last.hour # p.buf_points["HOUR"] \/ DayIsOver(p))
              d1 == IF flush THEN FlushHour(day, hour, last.hour) ELSE day
              hr == IF flush THEN AfterHour ELSE hour
              over == ~first /\ DayIsOver(p)
              d2 == IF over THEN AfterDay(d1) ELSE d1
          IN  /\ ~p.skipping /\ p.state_pos - 1 >= NumStates /\ DateOf(p) # 0
              /\ reports' = IF over THEN Append(reports, Summary(d1, last.date, FALSE))
                            ELSE reports
              /\ last' = [hour |-> IF first \/ flush THEN p.buf_points["HOUR"] ELSE last.hour,
                          date |-> IF first \/ over THEN DateOf(p) ELSE last.date]
              /\ hour' = CountInHour(hr, p)
              /\ day' = CountInDay(d2, hr, p)
              /\ parser' =
                    [NextLine(p) EXCEPT !.tmpinteger =
                        IF p.buf_points["CODE"] \in FoundCodes \cup MovedCodes
                        THEN Len(TextOf(p, "REFER")) ELSE @]
    /\ lines' = lines + 1
    /\ UNCHANGED broken

(* "skip:" throws bytes away up to the end of a line. *)
SkipForEver(p, c) == p
SkipByte(p, c) == IF Class(c) = "CRLF" THEN NextLine(p) ELSE p
Skip ==
    /\ Consume /\ parser.skipping
    /\ parser' = SkipByte(parser, Byte1)
    /\ UNCHANGED broken /\ Counted

(* The end of the file: the day so far is reported, under the date that    *)
(* was parsed last, unless a part of that date is zero.                    *)
Cleanup ==
    /\ Running /\ pos = Len(log)
    /\ phase' = "done"
    /\ reports' = IF \A q \in DateFields : parser.buf_points[q] # 0
                  THEN Append(reports, Summary(FlushHour(day, hour, last.hour),
                                               DateOf(parser), TRUE))
                  ELSE reports
    /\ UNCHANGED <<format, log, offs0, pos, parser, lines, broken, last, hour, day>>

Next == \/ BadFormat \/ Read \/ InField \/ EndOfField \/ BrokenAtEnd \/ EndOfLine
        \/ Skip \/ Cleanup
Spec == Init /\ [][Next]_vars

-----------------------------------------------------------------------------
(* The automaton stays inside the states of the format, and the line       *)
(* buffer inside the MAX_LINE_LEN bytes that were allocated.               *)
InsideTheTables ==
    /\ Running => parser.state_pos \in DOMAIN Fields[format]
    /\ Len(parser.buf) <= MaxLineLen /\ parser.field_position <= Len(parser.buf)
    /\ \A q \in TextFields : parser.buf_points[q] < Len(parser.buf)

(* "Total lines, broken lines": every end of a line that was read is the   *)
(* end of a line counted, of a broken one, or of one that was thrown away  *)
(* with the broken one before it; nothing else is lost, and nothing is     *)
(* counted twice.                                                          *)
LineEnds == Cardinality({i \in 1 .. pos : Class(log[i]) = "CRLF"})
LinesAccounted ==
    /\ lines + broken <= LineEnds + (IF parser.skipping THEN 1 ELSE 0)
    /\ LineEnds <= lines + 2 * broken

Reported == {reports[i] : i \in DOMAIN reports}
InCodes(m, codes) == MapThenSumSet(LAMBDA v : Count(m, v), codes)

(* A report is about the lines of one date, the one it is given to the     *)
(* daily callback with (only the last one, made at the end of the file,    *)
(* may be given with another), and the lines counted are those of the      *)
(* reports made and of the day that is still open: none is in two reports, *)
(* and none in no report.                                                  *)
ReportsOfOneDay ==
    LET made == FoldLeft(LAMBDA n, r : n + Total(r.day.hits_per_hour), 0, reports)
    IN  /\ \A r \in Reported :
              /\ Cardinality(DOMAIN r.day.dates) <= 1
              /\ ~r.final => DOMAIN r.day.dates = {r.date}
        /\ phase = "run" => made + Total(day.hits_per_hour) = lines
        /\ phase = "done" /\ (\E r \in Reported : r.final) => made = lines

(* In each hour there are no more hosts than sessions and no more sessions *)
(* than lines, although a session ends in three places: by a line of its   *)
(* own host, with the hour, and at the end of the file.                    *)
SessionsBetween(d) ==
    \A h \in DOMAIN d.hosts_per_hour :
        /\ d.hosts_per_hour[h] <= d.sessions_per_hour[h]
        /\ d.sessions_per_hour[h] <= Count(d.hits_per_hour, h)

(* compress_mapping() makes a table small and keeps its sum, also when one *)
(* of its keys is "Other" already.                                         *)
CompressKeepsTotal(d) ==
    \A n \in 1 .. 2 : \A c \in CompressMapping(d.pages, n) :
        Total(c) = Total(d.pages) /\ Cardinality(DOMAIN c) <= n + 1

(* The tables of a report agree with each other, although those of the hour*)
(* are moved into those of the day at each change of hour: every line is   *)
(* in hits_per_hour and in hits_per_error, every line of a found file in   *)
(* pages or hits, every page in pages_per_hour, every line with an error   *)
(* that is logged in error_urls, every file in directories; and so do the  *)
(* counts of hosts and sessions, and the shorter tables made from them.    *)
DayTotals ==
    \A r \in Reported :
        LET d == r.day IN
        /\ Total(d.hits_per_hour) = Total(d.dates)
        /\ Total(d.hits_per_error) = Total(d.dates)
        /\ Total(d.pages) + Total(d.hits) = InCodes(d.hits_per_error, FoundCodes)
        /\ Total(d.pages_per_hour) = Total(d.pages)
        /\ Total(d.hits302) = InCodes(d.hits_per_error, MovedCodes)
        /\ \A v \in DOMAIN d.error_urls : Total(d.error_urls[v]) = d.hits_per_error[v]
        /\ Total(d.directories) = Total(d.pages) + Total(d.hits)
                                     - Count(d.pages, <<>>) - Count(d.hits, <<>>)
        /\ SessionsBetween(d) /\ CompressKeepsTotal(d)
=============================================================================
