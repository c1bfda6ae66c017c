---------------------------- MODULE MCUltraLog ----------------------------
(* The log parser on small logs, with formats that fit and that do not. *)
EXTENDS UltraLog

FoundLine ==   \* a 1/02/9:3:1 /x 200 q
    <<97, 32, 49, 47, 48, 50, 47, 57, 58, 51, 58, 49, 32, 47, 120, 32, 50, 48, 48, 32,
      113>>
PageLine ==   \* a 1/02/9:3:50 /a/b.h 200 ftp://Q/
    <<97, 32, 49, 47, 48, 50, 47, 57, 58, 51, 58, 53, 48, 32, 47, 97, 47, 98, 46, 104,
      32, 50, 48, 48, 32, 102, 116, 112, 58, 47, 47, 81, 47>>
ErrorLine ==   \* b 1/02/9:4:0 /a/b 404 qq
    <<98, 32, 49, 47, 48, 50, 47, 57, 58, 52, 58, 48, 32, 47, 97, 47, 98, 32, 52, 48,
      52, 32, 113, 113>>
NextDayLine ==   \* a 2/02/9:3:1 Other 304 -
    <<97, 32, 50, 47, 48, 50, 47, 57, 58, 51, 58, 49, 32, 79, 116, 104, 101, 114, 32,
      51, 48, 52, 32, 45>>
NoSuchMonth ==   \* b 2/Foo/9:3:1 /x 302 qq
    <<98, 32, 50, 47, 70, 111, 111, 47, 57, 58, 51, 58, 49, 32, 47, 120, 32, 51, 48,
      50, 32, 113, 113>>
BadMonth ==   \* a 1/13/9:3:1 /x 200 q
    <<97, 32, 49, 47, 49, 51, 47, 57, 58, 51, 58, 49, 32, 47, 120, 32, 50, 48, 48, 32,
      113>>
ShortLine ==   \* a
    <<97>>
BadAtEnd ==   \* a 1/02/9:3:2 /x 2x
    <<97, 32, 49, 47, 48, 50, 47, 57, 58, 51, 58, 50, 32, 47, 120, 32, 50, 120>>
DayZero ==   \* a 0/Feb/99:3:1 /%41?x 200 q
    <<97, 32, 48, 47, 70, 101, 98, 47, 57, 57, 58, 51, 58, 49, 32, 47, 37, 52, 49, 63,
      120, 32, 50, 48, 48, 32, 113>>
LongLine ==   \* aaaaaaaaaaaaaaaaaaaaaaaaaaaaaaaaaaaaaa
    <<97, 97, 97, 97, 97, 97, 97, 97, 97, 97, 97, 97, 97, 97, 97, 97, 97, 97, 97, 97,
      97, 97, 97, 97, 97, 97, 97, 97, 97, 97, 97, 97, 97, 97, 97, 97, 97, 97>>
NoBytesSent ==   \* b 1/Feb/9:3 200 -
    <<98, 32, 49, 47, 70, 101, 98, 47, 57, 58, 51, 32, 50, 48, 48, 32, 45>>
EmptyBytes ==   \* b 1/Feb/9:3 200 
    <<98, 32, 49, 47, 70, 101, 98, 47, 57, 58, 51, 32, 50, 48, 48, 32>>
AgentLine ==   \* b.x 2/Feb/9:4 200 77 zz
    <<98, 46, 120, 32, 50, 47, 70, 101, 98, 47, 57, 58, 52, 32, 50, 48, 48, 32, 55, 55,
      32, 122, 122>>
Common ==   \* %H %D/%M/%Y:%h:%m %f %c %R
    <<37, 72, 32, 37, 68, 47, 37, 77, 47, 37, 89, 58, 37, 104, 58, 37, 109, 32, 37,
      102, 32, 37, 99, 32, 37, 82>>
WithBytes ==   \* %H\w%D/%M/%Y:%h %c %b \o%U
    <<37, 72, 92, 119, 37, 68, 47, 37, 77, 47, 37, 89, 58, 37, 104, 32, 37, 99, 32, 37,
      98, 32, 92, 111, 37, 85>>

MCFormats == {Common, WithBytes, <<37>>, <<37, 72, 37, 68>>, <<92, 113>>, <<97>>, <<>>}

(* Three lines of any kind, and a log with other line ends. *)
Lines == {FoundLine, PageLine, ErrorLine, NextDayLine, NoSuchMonth, BadMonth, ShortLine,
          BadAtEnd, DayZero, LongLine, NoBytesSent, EmptyBytes, AgentLine, <<>>}
Ended(l) == l \o <<LF>>
MCLogs == {Ended(j) \o Ended(k) \o Ended(l) : j \in Lines, k \in Lines, l \in Lines}
          \cup {l \o <<CR, LF>> \o k : l \in {FoundLine, BadAtEnd, LongLine}, k \in Lines}
MCPageExts == {<<104>>}
MCNotRef == {<<122>>}
=============================================================================
