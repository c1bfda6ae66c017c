----------------------------- MODULE UltraUtil -----------------------------
(***************************************************************************)
(* The tables of the log analyser UltraLog and what it makes of them at    *)
(* the end of an hour and of a day. A table maps keys to counts.           *)
(***************************************************************************)
EXTENDS Bytes

Count(m, k) == IF k \in DOMAIN m THEN m[k] ELSE 0
Total(m) == MapThenSumSet(LAMBDA k : m[k], DOMAIN m)

(* mapaddstr(), mapaddint(), mapaddstrnum() and the like: n more for k. *)
MapAdd(m, k, n) == Insert(m, k, Count(m, k) + n)

(* do_map_addition() *)
DoMapAddition(to, from) ==
    [k \in DOMAIN to \cup DOMAIN from |-> Count(to, k) + Count(from, k)]

(* map2addstr(), map2addint(): a table of tables. *)
Map2Add(m, k1, k2, n) ==
    Insert(m, k1, MapAdd(IF k1 \in DOMAIN m THEN m[k1] ELSE Empty, k2, n))

(* A table with its keys renamed, the counts of keys that become one added. *)
ReKey(m, Name(_)) ==
    [y \in {Name(k) : k \in DOMAIN m} |->
        MapThenSumSet(LAMBDA k : m[k], {k \in DOMAIN m : Name(k) = y})]
Only(m, S) == [k \in S |-> m[k]]

-----------------------------------------------------------------------------
(* http_decode_string() *)
HttpDecodeString(s) ==
    LET D[p \in 1 .. Len(s) + 3] ==
            IF p > Len(s) THEN <<>>
            ELSE IF s[p] # PCT THEN <<s[p]>> \o D[p + 1]
            ELSE IF p + 2 <= Len(s) THEN <<Escaped(s, p)>> \o D[p + 3]
            ELSE <<NUL>>
    IN  D[1]

(* The file of a URL: up to the byte before the last one in front of "?",  *)
(* decoded.                                                                *)
FileOf(url) ==
    LET q == FirstOf(url, 1, {QM})
    IN  HttpDecodeString(IF q > Len(url) THEN url ELSE SubSeq(url, 1, q - 2))

IsPage(url, pagexts) ==
    LET dots == {i \in DOMAIN url : url[i] = DOT}
    IN  /\ url # <<>>
        /\ \/ url[Len(url)] = SLASH \/ url[1] # SLASH
           \/ dots # {} /\ SubSeq(url, Max(dots) + 1, Len(url)) \in pagexts

(* hourly_page_hits(): the pages of a table of URLs, and the other files. *)
PagesOf(urls, pagexts) == {u \in DOMAIN urls : IsPage(FileOf(u), pagexts)}
HourlyPages(urls, pagexts) == ReKey(Only(urls, PagesOf(urls, pagexts)), FileOf)
HourlyHits(urls, pagexts) == ReKey(Only(urls, DOMAIN urls \ PagesOf(urls, pagexts)), FileOf)

(* summarize_directories(): the first directory of each file. *)
Unknown8 == <<85, 110, 107, 110, 111, 119, 110, NUL>>
DirectoryOf(file) ==
    LET s == FirstOf(file, 2, {SLASH})
    IN  IF file[1] # SLASH THEN Unknown8
        ELSE IF s > Len(file) \/ s < 3 THEN <<SLASH>> ELSE SubSeq(file, 1, s)
SummarizeDirectoriesOnce(dirs, files) ==
    DoMapAddition(dirs, [d \in {DirectoryOf(f) : f \in DOMAIN files \ {<<>>}} |-> 1])
SummarizeDirectories(dirs, files) ==
    DoMapAddition(dirs, ReKey(Only(files, DOMAIN files \ {<<>>}), DirectoryOf))

-----------------------------------------------------------------------------
(* ultra_lowercase_host(): the scheme and the host of a referrer end with  *)
(* the first "/" behind "://"; 0 when there are none.                      *)
HostEnd(ref) ==
    LET kss == {i \in 1 .. Len(ref) - 2 : SubSeq(ref, i, i + 2) = <<COLON, SLASH, SLASH>>}
        s == FirstOf(ref, Min(kss) + 3, {SLASH})
    IN  IF Len(ref) < 8 \/ kss = {} THEN 0 ELSE IF s > Len(ref) THEN Len(ref) ELSE s
LowercaseHost(ref) ==
    Lowercase(SubSeq(ref, 1, HostEnd(ref))) \o SubSeq(ref, HostEnd(ref) + 1, Len(ref))

(* summarize_refsites(): referrers that are no URL are dropped. *)
WithHost(referrers) == Only(referrers, {r \in DOMAIN referrers : HostEnd(r) # 0})
NewReferrers(referrers) == ReKey(WithHost(referrers), LowercaseHost)
SummarizeRefsites(refsites, referrers) ==
    DoMapAddition(refsites,
        ReKey(WithHost(referrers), LAMBDA r : Lowercase(SubSeq(r, 1, HostEnd(r)))))

(* clean_refto(): the referrers of pages. *)
CleanRefto(refto, pagexts) ==
    LET pages == PagesOf(refto, pagexts)
    IN  [f \in {FileOf(u) : u \in pages} |->
            LET of == {u \in pages : FileOf(u) = f}
                refs == UNION {DOMAIN refto[u] : u \in of}
            IN  ReKey([r \in refs |-> MapThenSumSet(LAMBDA u : Count(refto[u], r), of)],
                      LowercaseHost)]

(* http_decode_mapping() *)
HttpDecodeMapping(m) == ReKey(m, HttpDecodeString)

-----------------------------------------------------------------------------
(* summarize_hosts(): the top and second level domain of each host. A dot  *)
(* at the end does not count; a host without a name of its own is          *)
(* "Unresolved", an IP address has neither.                                *)
Unresolved == <<85, 110, 114, 101, 115, 111, 108, 118, 101, 100>>
Dots(host) == {i \in 1 .. Len(host) - 1 : host[i] = DOT}
IsIp(host) == Dots(host) # {} /\ IsDigit(host[Max(Dots(host)) + 1])
TopDomain(host) ==
    IF Len(host) <= 1 THEN Unresolved
    ELSE IF Dots(host) = {} THEN host
    ELSE Lowercase(SubSeq(host, Max(Dots(host)) + 1, Len(host)))
Domain(host) ==
    LET before == Dots(host) \ {Max(Dots(host))}
    IN  IF Len(host) <= 1 THEN Unresolved
        ELSE IF Dots(host) = {} \/ before = {} THEN host
        ELSE Lowercase(SubSeq(host, Max(before) + 1, Len(host)))
Named(hosts) == Only(hosts, {h \in DOMAIN hosts : Len(h) <= 1 \/ ~IsIp(h)})
NewHosts(hosts) == ReKey(Only(hosts, {h \in DOMAIN hosts : Len(h) > 1}), Lowercase)
Domains(hosts) == ReKey(Named(hosts), Domain)
TopDomains(hosts) == ReKey(Named(hosts), TopDomain)

-----------------------------------------------------------------------------
(* process_session(): se is [start, end], the sessions that are open in    *)
(* this hour, by host. One that was idle for SESSION_IDLE is over.         *)
SessionIdle == 600
SessionOver(se, host, t) ==
    host \in DOMAIN se.end /\ se.end[host] + SessionIdle < t
ProcessSession(se, host, t) ==
    [start |-> IF host \in DOMAIN se.end /\ ~SessionOver(se, host, t) THEN se.start
               ELSE Insert(se.start, host, t),
     end |-> Insert(se.end, host, t)]
SessionTime(se, hosts) == MapThenSumSet(LAMBDA h : se.end[h] - se.start[h], hosts)

(* compress_mapping(): the largest maxsize counts stay, the sum of the     *)
(* others is added to "Other". Which of equal counts stay is open.         *)
OtherKey == <<79, 116, 104, 101, 114>>
CompressMappingInserting(m, maxsize) ==
    IF Cardinality(DOMAIN m) < maxsize THEN {m}
    ELSE {Insert(Only(m, keep), OtherKey, Total(Only(m, DOMAIN m \ keep))) :
             keep \in {k \in SUBSET DOMAIN m : Cardinality(k) = maxsize}}
CompressMapping(m, maxsize) ==
    IF Cardinality(DOMAIN m) < maxsize THEN {m}
    ELSE {MapAdd(Only(m, keep), OtherKey, Total(Only(m, DOMAIN m \ keep))) :
             keep \in {k \in SUBSET DOMAIN m :
                          /\ Cardinality(k) = maxsize
                          /\ \A a \in k, b \in DOMAIN m \ k : m[a] >= m[b]}}
=============================================================================
