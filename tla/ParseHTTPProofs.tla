-------------------------- MODULE ParseHTTPProofs --------------------------
(***************************************************************************)
(* What holds of ParseHTTP for any streams of bytes, cut into pieces in    *)
(* any way, and any buffer sizes, and of the text functions and EntParse   *)
(* for any text and any scopes.  EndInv, RoomInv, HeadInv, WordInv and     *)
(* QueryInv are inductive; the rest is about what one call returns.        *)
(***************************************************************************)
EXTENDS MCText, Lemmas

-----------------------------------------------------------------------------
(* The scan for the empty line *)

\* What the scan tells at position p with n line feeds counted, made from what
\* S tells of the next position.
CountOf(n, c) == CASE c = LF -> n + 1 [] c = CR -> n [] OTHER -> 0
ScanFrom(d, S, p, n) ==
    IF n = 2 \/ p > Len(d) THEN [end |-> p - 1, slash_n |-> n] ELSE S[p + 1][CountOf(n, d[p])]
Scanned(d, k, S) == S = [p \in k .. Len(d) + 1 |-> [n \in 0 .. 2 |-> ScanFrom(d, S, p, n)]]

\* The scan, as a choice of what S tells.
LEMMA ScanIs ==
    ASSUME NEW d, NEW from PROVE Scan(d, from) = (CHOOSE S : Scanned(d, from, S))[from][0]
BY DEF Scan, Scanned, ScanFrom, CountOf

\* The scan looks one position ahead.
LEMMA ScanLooksAhead ==
    ASSUME NEW d, NEW P, NEW Q, NEW p, P[p + 1] = Q[p + 1], NEW n
    PROVE  ScanFrom(d, P, p, n) = ScanFrom(d, Q, p, n)
BY DEF ScanFrom

\* What it tells exists, for one position more,
LEMMA ScannedMore ==
    ASSUME NEW d \in Seq(Byte), NEW m \in Nat, m = Len(d), NEW k \in 1 .. m + 1, NEW P,
           k = m + 1 \/ Scanned(d, k + 1, P)
    PROVE  \E Q : Scanned(d, k, Q)
<1> DEFINE Q == [p \in k .. m + 1 |->
                    IF p = k THEN [n \in 0 .. 2 |-> ScanFrom(d, P, k, n)] ELSE P[p]]
<1>1. ASSUME NEW p \in k .. m PROVE P[p + 1] = Q[p + 1]
  OBVIOUS
<1>2. ASSUME NEW p \in k .. m + 1
      PROVE  Q[p] = [n \in 0 .. 2 |-> ScanFrom(d, Q, p, n)]
  <2> HIDE DEF Q
  <2>1. \A n \in 0 .. 2 : ScanFrom(d, P, p, n) = ScanFrom(d, Q, p, n)
    <3>1. CASE p = m + 1
      BY <3>1 DEF ScanFrom
    <3>2. CASE p # m + 1
      <4>1. PICK R : R = Q
        OBVIOUS
      <4>2. P[p + 1] = R[p + 1]
        BY <1>1, <3>2, <4>1, SMTT(30)
      <4>3. \A n \in 0 .. 2 : ScanFrom(d, P, p, n) = ScanFrom(d, R, p, n)
        BY <4>2, ScanLooksAhead
      <4> QED BY <4>1, <4>3
    <3> QED BY <3>1, <3>2
  <2>2. CASE p = k
    <3>1. Q[p] = [n \in 0 .. 2 |-> ScanFrom(d, P, p, n)]
      BY <2>2 DEF Q
    <3> QED BY <2>1, <3>1, Zenon
  <2>3. CASE p # k
    <3>1. p \in k + 1 .. m + 1 /\ k # m + 1
      BY <2>3
    <3>2. Scanned(d, k + 1, P)
      BY <3>1
    <3>3. P[p] = [n \in 0 .. 2 |-> ScanFrom(d, P, p, n)]
      BY <3>1, <3>2 DEF Scanned
    <3>4. Q[p] = P[p]
      BY <3>1 DEF Q
    <3> QED BY <2>1, <3>3, <3>4, Zenon
  <2> QED BY <2>2, <2>3
<1>3. Q = [p \in k .. m + 1 |-> [n \in 0 .. 2 |-> ScanFrom(d, Q, p, n)]]
  <2>1. Q = [p \in k .. m + 1 |-> Q[p]]
    OBVIOUS
  <2> HIDE DEF Q
  <2> QED BY <1>2, <2>1, Zenon
<1> HIDE DEF Q
<1> QED BY <1>3, Zenon DEF Scanned

\* so for all of them.
LEMMA ScannedExists ==
    ASSUME NEW d \in Seq(Byte), NEW m \in Nat, m = Len(d), NEW from \in 1 .. m + 1
    PROVE  Scanned(d, from, CHOOSE S : Scanned(d, from, S))
<1> DEFINE T == {far \in 0 .. m + 1 - from : ~ \E S : Scanned(d, m + 1 - far, S)}
<1>1. T = {}
  <2> SUFFICES ASSUME T # {} PROVE FALSE
    OBVIOUS
  <2>1. T \in SUBSET Nat
    <3>1. \A far \in 0 .. m + 1 - from : far \in Nat
      OBVIOUS
    <3> QED BY <3>1
  <2> HIDE DEF T
  <2>2. PICK far \in T : \A y \in T : far <= y
    BY <2>1, Least
  <2>3. far \in 0 .. m + 1 - from /\ ~ \E S : Scanned(d, m + 1 - far, S)
    BY <2>2 DEF T
  <2>4. PICK k \in 1 .. m + 1 : k = m + 1 - far
    <3>1. far \in 0 .. m + 1 - from
      BY <2>3
    <3>2. m + 1 - far \in 1 .. m + 1
      BY <3>1
    <3> QED BY <3>2
  <2>5. ~ \E S : Scanned(d, k, S)
    BY <2>3, <2>4, Zenon
  <2>6. CASE far = 0
    BY <2>4, <2>5, <2>6, ScannedMore
  <2>7. CASE far # 0
    <3>1. far - 1 \in 0 .. m + 1 - from /\ m + 1 - (far - 1) = k + 1 /\ far - 1 < far
      BY <2>3, <2>4, <2>7
    <3>2. far - 1 \notin T
      BY <2>1, <2>2, <2>3, <3>1
    <3>3. \E S : Scanned(d, m + 1 - (far - 1), S)
      BY <3>1, <3>2 DEF T
    <3>4. PICK S : Scanned(d, k + 1, S)
      BY <3>1, <3>3, Zenon
    <3> QED BY <2>5, <3>4, ScannedMore
  <2> QED BY <2>6, <2>7
<1>2. \E S : Scanned(d, from, S)
  <2>1. PICK far \in 0 .. m + 1 - from : far = m + 1 - from /\ m + 1 - far = from
    OBVIOUS
  <2>2. far \notin T
    BY <1>1
  <2>3. \E S : Scanned(d, m + 1 - far, S)
    BY <2>2 DEF T
  <2> QED BY <2>1, <2>3, Zenon
<1> HIDE DEF T
<1> QED BY <1>2, Zenon

\* The ends of a head that begins at position p, when n line feeds have been
\* counted before it.
EndsAt(d, p, n, e) ==
    /\ d[e] = LF
    /\ \/ \E j \in p .. e - 1 : d[j] = LF /\ \A i \in j + 1 .. e - 1 : d[i] = CR
       \/ n = 1 /\ \A i \in p .. e - 1 : d[i] = CR
Ends(d, p, n) == {e \in p .. Len(d) : EndsAt(d, p, n, e)}

\* An end is one from the next position on, or the line feed at p.
LEMMA EndsAhead ==
    ASSUME NEW d \in Seq(Byte), NEW m \in Nat, m = Len(d), NEW p \in 1 .. m, NEW n \in 0 .. 1,
           NEW c, c = d[p], NEW e \in p .. m
    PROVE  /\ e = p => (EndsAt(d, p, n, e) <=> c = LF /\ n = 1)
           /\ e # p /\ c = LF /\ n = 0 => (EndsAt(d, p, n, e) <=> EndsAt(d, p + 1, 1, e))
           /\ e # p /\ c = CR => (EndsAt(d, p, n, e) <=> EndsAt(d, p + 1, n, e))
           /\ e # p /\ c # CR /\ c # LF => (EndsAt(d, p, n, e) <=> EndsAt(d, p + 1, 0, e))
<1>1. LF # CR
  BY DEF LF, CR
<1>2. CASE e = p
  <2>1. p .. e - 1 = {}
    BY <1>2
  <2> QED BY <1>2, <2>1 DEF EndsAt
<1>3. CASE e # p
  <2>1. p .. e - 1 = {p} \cup (p + 1 .. e - 1) /\ p \in p .. e - 1
    BY <1>3
  <2>2. (\A i \in p .. e - 1 : d[i] = CR) <=> c = CR /\ \A i \in p + 1 .. e - 1 : d[i] = CR
    BY <2>1
  <2>3. (\E j \in p .. e - 1 : d[j] = LF /\ \A i \in j + 1 .. e - 1 : d[i] = CR)
        <=> \/ c = LF /\ \A i \in p + 1 .. e - 1 : d[i] = CR
            \/ \E j \in p + 1 .. e - 1 : d[j] = LF /\ \A i \in j + 1 .. e - 1 : d[i] = CR
    BY <2>1
  <2> QED BY <1>1, <1>3, <2>2, <2>3 DEF EndsAt
<1> QED BY <1>2, <1>3
\* The ends of a head after p and the count of what is at p: those of a head
\* from the next position on, with what is counted then.
LEMMA EndsStep ==
    ASSUME NEW d \in Seq(Byte), NEW m \in Nat, m = Len(d), NEW p \in 1 .. m, NEW n \in 0 .. 1
    PROVE  /\ CountOf(n, d[p]) \in 0 .. 2
           /\ CountOf(n, d[p]) = 2 => p \in Ends(d, p, n) /\ \A e \in Ends(d, p, n) : p <= e
           /\ CountOf(n, d[p]) # 2 => Ends(d, p, n) = Ends(d, p + 1, CountOf(n, d[p]))
<1>1. PICK c : c = d[p]
  OBVIOUS
<1>2. LF # CR
  BY DEF LF, CR
<1>3. \A e \in p .. m : e # p => e \in p + 1 .. m
  OBVIOUS
<1>4. \A e \in p + 1 .. m : e # p /\ e \in p .. m
  OBVIOUS
<1>5. p \in p .. m
  OBVIOUS
<1>6. CASE c = LF
  <2>1. CountOf(n, c) = n + 1
    BY <1>2, <1>6 DEF CountOf
  <2>2. CASE n = 1
    <3>1. EndsAt(d, p, n, p)
      BY <1>1, <1>5, <1>6, <2>2, EndsAhead
    <3>2. p \in Ends(d, p, n)
      BY <1>5, <3>1 DEF Ends
    <3>3. \A e \in Ends(d, p, n) : p <= e
      BY DEF Ends
    <3> QED BY <1>1, <2>1, <2>2, <3>2, <3>3
  <2>3. CASE n = 0
    <3>1. ~ EndsAt(d, p, n, p)
      BY <1>1, <1>5, <2>3, EndsAhead
    <3>2. \A e \in p .. m : e # p => (EndsAt(d, p, n, e) <=> EndsAt(d, p + 1, 1, e))
      BY <1>1, <1>6, <2>3, EndsAhead, ZenonT(40)
    <3>3. Ends(d, p, n) = Ends(d, p + 1, 1)
      BY <1>3, <1>4, <3>1, <3>2 DEF Ends
    <3> QED BY <1>1, <2>1, <2>3, <3>3
  <2> QED BY <2>2, <2>3
<1>7. CASE c = CR
  <2>1. CountOf(n, c) = n
    BY <1>2, <1>7 DEF CountOf
  <2>2. ~ EndsAt(d, p, n, p)
    BY <1>1, <1>2, <1>5, <1>7, EndsAhead
  <2>3. \A e \in p .. m : e # p => (EndsAt(d, p, n, e) <=> EndsAt(d, p + 1, n, e))
    BY <1>1, <1>7, EndsAhead
  <2>4. Ends(d, p, n) = Ends(d, p + 1, n)
    BY <1>3, <1>4, <2>2, <2>3 DEF Ends
  <2> QED BY <1>1, <2>1, <2>4
<1>8. CASE c # CR /\ c # LF
  <2>1. CountOf(n, c) = 0
    BY <1>8 DEF CountOf
  <2>2. ~ EndsAt(d, p, n, p)
    BY <1>1, <1>5, <1>8, EndsAhead
  <2>3. \A e \in p .. m : e # p => (EndsAt(d, p, n, e) <=> EndsAt(d, p + 1, 0, e))
    BY <1>1, <1>8, EndsAhead
  <2>4. Ends(d, p, n) = Ends(d, p + 1, 0)
    BY <1>3, <1>4, <2>2, <2>3 DEF Ends
  <2> QED BY <1>1, <2>1, <2>4
<1> QED BY <1>6, <1>7, <1>8

\* What r says of the ends of a head: whether there is one, and the first.
Tells(r, d, p, n) ==
    /\ r.slash_n = 2 <=> Ends(d, p, n) # {}
    /\ r.slash_n = 2 => r.end \in Ends(d, p, n) /\ \A e \in Ends(d, p, n) : r.end <= e

\* The scan tells it of every position it is at.
LEMMA ScanTells ==
    ASSUME NEW d \in Seq(Byte), NEW from \in 1 .. Len(d) + 1, NEW S, Scanned(d, from, S)
    PROVE  Tells(S[from][0], d, from, 0)
<1>1. PICK m \in Nat : m = Len(d)
  OBVIOUS
<1>2. ASSUME NEW p \in from .. m + 1, NEW n \in 0 .. 2 PROVE S[p][n] = ScanFrom(d, S, p, n)
  <2>1. S = [q \in from .. m + 1 |-> [k \in 0 .. 2 |-> ScanFrom(d, S, q, k)]]
    BY <1>1, Zenon DEF Scanned
  <2>2. S[p] = [k \in 0 .. 2 |-> ScanFrom(d, S, p, k)]
    BY <2>1, Zenon
  <2> QED BY <2>2, Zenon
<1>3. from \in 1 .. m + 1
  BY <1>1
<1> DEFINE T == {far \in 0 .. m + 1 - from :
                   \E n \in 0 .. 1 : ~ Tells(S[m + 1 - far][n], d, m + 1 - far, n)}
<1>4. T = {}
  <2> SUFFICES ASSUME T # {} PROVE FALSE
    OBVIOUS
  <2>1. T \in SUBSET Nat
    <3>1. \A far \in 0 .. m + 1 - from : far \in Nat
      BY <1>3
    <3> QED BY <3>1
  <2> HIDE DEF T
  <2>2. PICK far \in T : \A y \in T : far <= y
    BY <2>1, Least
  <2>3. far \in 0 .. m + 1 - from /\ \E n \in 0 .. 1 : ~ Tells(S[m + 1 - far][n], d, m + 1 - far, n)
    BY <2>2 DEF T
  <2>4. PICK p \in from .. m + 1 : p = m + 1 - far
    <3>1. far \in 0 .. m + 1 - from
      BY <2>3
    <3>2. m + 1 - far \in from .. m + 1
      BY <1>3, <3>1
    <3> QED BY <3>2
  <2>5. PICK n \in 0 .. 1 : ~ Tells(S[p][n], d, p, n)
    BY <2>3, <2>4, Zenon
  <2>6. p \in 1 .. m + 1 /\ n \in 0 .. 2 /\ n # 2
    BY <1>3
  <2>7. S[p][n] = ScanFrom(d, S, p, n)
    BY <1>2, <2>6
  <2>8. CASE p = m + 1
    <3>1. p > Len(d)
      BY <1>1, <2>8
    <3>2. S[p][n] = [end |-> p - 1, slash_n |-> n]
      BY <2>7, <3>1 DEF ScanFrom
    <3>3. p .. Len(d) = {}
      BY <1>1, <2>8
    <3>4. Ends(d, p, n) = {}
      BY <3>3 DEF Ends
    <3> QED BY <2>5, <2>6, <3>2, <3>4 DEF Tells
  <2>9. CASE p # m + 1
    <3>1. p \in 1 .. m /\ p + 1 \in from .. m + 1 /\ ~ (p > Len(d))
      BY <1>1, <1>3, <2>6, <2>9
    <3>2. PICK k : k = CountOf(n, d[p])
      OBVIOUS
    <3>3. S[p][n] = S[p + 1][k]
      BY <2>6, <2>7, <3>1, <3>2 DEF ScanFrom
    <3>4. /\ k \in 0 .. 2
          /\ k = 2 => p \in Ends(d, p, n) /\ \A e \in Ends(d, p, n) : p <= e
          /\ k # 2 => Ends(d, p, n) = Ends(d, p + 1, k)
      BY <1>1, <3>1, <3>2, EndsStep
    <3>5. CASE k = 2
      <4>1. S[p + 1][k] = ScanFrom(d, S, p + 1, k)
        BY <1>2, <3>1, <3>4
      <4>2. S[p + 1][k] = [end |-> p, slash_n |-> 2]
        BY <3>1, <3>5, <4>1 DEF ScanFrom
      <4> QED BY <2>5, <3>3, <3>4, <3>5, <4>2 DEF Tells
    <3>6. CASE k # 2
      <4>1. k \in 0 .. 1
        BY <3>4, <3>6
      <4>2. far - 1 \in 0 .. m + 1 - from /\ m + 1 - (far - 1) = p + 1 /\ far - 1 < far
        <5>1. far \in 0 .. m + 1 - from
          BY <2>3
        <5> QED BY <1>3, <2>4, <2>9, <5>1
      <4>3. far - 1 \notin T
        <5>1. far \in Nat
          BY <2>1
        <5> QED BY <2>2, <4>2, <5>1
      <4>4. Tells(S[m + 1 - (far - 1)][k], d, m + 1 - (far - 1), k)
        BY <4>1, <4>2, <4>3 DEF T
      <4>5. Tells(S[p + 1][k], d, p + 1, k)
        BY <4>2, <4>4, Zenon
      <4> QED BY <2>5, <3>3, <3>4, <3>6, <4>5, Zenon DEF Tells
    <3> QED BY <3>5, <3>6
  <2> QED BY <2>8, <2>9
<1>5. Tells(S[from][0], d, from, 0)
  <2>1. PICK far \in 0 .. m + 1 - from : m + 1 - far = from
    <3>1. m + 1 - from \in 0 .. m + 1 - from /\ m + 1 - (m + 1 - from) = from
      BY <1>3
    <3> QED BY <3>1
  <2>2. far \notin T
    BY <1>4
  <2>3. Tells(S[m + 1 - far][0], d, m + 1 - far, 0)
    BY <2>2 DEF T
  <2> QED BY <2>1, <2>3, Zenon
<1> QED BY <1>5

\* So does the scan of one call.
LEMMA ScanFinds ==
    ASSUME NEW d \in Seq(Byte), NEW from \in 1 .. Len(d) + 1
    PROVE  Tells(Scan(d, from), d, from, 0)
<1>1. PICK S : S = CHOOSE P : Scanned(d, from, P)
  OBVIOUS
<1>2. Scanned(d, from, S)
  <2>1. PICK m \in Nat : m = Len(d)
    OBVIOUS
  <2>2. from \in 1 .. m + 1
    BY <2>1
  <2>3. Scanned(d, from, CHOOSE P : Scanned(d, from, P))
    BY <2>1, <2>2, ScannedExists
  <2> QED BY <1>1, <2>3, Zenon
<1>3. Scan(d, from) = S[from][0]
  BY <1>1, ScanIs, Zenon
<1>4. Tells(S[from][0], d, from, 0)
  BY <1>2, ScanTells
<1> QED BY <1>3, <1>4, Zenon
-----------------------------------------------------------------------------
(* The first empty line, in pieces *)

\* The antecedent of EndSeenInPieces, for any d.
NoThree(d) == \A i \in 1 .. Len(d) - 2 : SubSeq(d, i, i + 2) # <<CR, CR, CR>>

\* Three bytes of a sequence.
LEMMA ThreeOf ==
    ASSUME NEW d \in Seq(Byte), NEW i \in 1 .. Len(d) - 2
    PROVE  /\ SubSeq(d, i, i + 2) \in Seq(Byte) /\ Len(SubSeq(d, i, i + 2)) = 3
           /\ SubSeq(d, i, i + 2)[1] = d[i] /\ SubSeq(d, i, i + 2)[2] = d[i + 1]
           /\ SubSeq(d, i, i + 2)[3] = d[i + 2]
BY SMTT(30)

\* Three carriage returns one after another are what NoThree has no place for.
LEMMA NoThreeIs ==
    ASSUME NEW d \in Seq(Byte), NoThree(d), NEW i \in 1 .. Len(d) - 2
    PROVE  ~ (d[i] = CR /\ d[i + 1] = CR /\ d[i + 2] = CR)
<1>1. PICK t : t = SubSeq(d, i, i + 2)
  OBVIOUS
<1>2. t \in Seq(Byte) /\ Len(t) = 3 /\ t[1] = d[i] /\ t[2] = d[i + 1] /\ t[3] = d[i + 2]
  BY <1>1, ThreeOf
<1>3. t # <<CR, CR, CR>>
  BY <1>1, Zenon DEF NoThree
<1>4. SUFFICES ASSUME d[i] = CR, d[i + 1] = CR, d[i + 2] = CR PROVE FALSE
  OBVIOUS
<1>5. t = <<CR, CR, CR>>
  <2>1. PICK u : u = <<CR, CR, CR>>
    OBVIOUS
  <2>2. CR \in Byte
    BY DEF CR, Byte
  <2>3. u \in Seq(Byte) /\ Len(u) = 3 /\ u[1] = CR /\ u[2] = CR /\ u[3] = CR
    BY <2>1, <2>2
  <2>4. \A j \in 1 .. 3 : j = 1 \/ j = 2 \/ j = 3
    OBVIOUS
  <2>5. \A j \in 1 .. 3 : t[j] = u[j]
    BY <1>2, <1>4, <2>3, <2>4
  <2>6. t = u
    BY <1>2, <2>3, <2>5, SeqEq
  <2> QED BY <2>1, <2>6
<1> QED BY <1>3, <1>5

\* The first part of a sequence that has no three in a row has none either,
\* and an end of its head is one of the whole.
LEMMA FirstPart ==
    ASSUME NEW d \in Seq(Byte), NEW s \in Seq(Byte)
    PROVE  /\ NoThree(d \o s) => NoThree(d)
           /\ HeadEnds(d) = HeadEnds(d \o s) \cap 1 .. Len(d)
<1>1. PICK m \in Nat, n \in Nat, a \in Seq(Byte) : /\ m = Len(d) /\ n = Len(s) /\ a = d \o s
                                  /\ Len(a) = m + n /\ \A j \in 1 .. m : a[j] = d[j]
  <2>1. /\ d \o s \in Seq(Byte) /\ Len(d) \in Nat /\ Len(s) \in Nat
        /\ Len(d \o s) = Len(d) + Len(s)
        /\ \A j \in 1 .. Len(d) : (d \o s)[j] = d[j]
    OBVIOUS
  <2> QED BY <2>1, Zenon
<1>2. ASSUME NoThree(a) PROVE NoThree(d)
  <2> SUFFICES ASSUME NEW i \in 1 .. m - 2 PROVE SubSeq(d, i, i + 2) # <<CR, CR, CR>>
    BY <1>1 DEF NoThree
  <2>1. i \in 1 .. Len(a) - 2 /\ i \in 1 .. m /\ i + 1 \in 1 .. m /\ i + 2 \in 1 .. m
    BY <1>1
  <2>2. ~ (a[i] = CR /\ a[i + 1] = CR /\ a[i + 2] = CR)
    BY <1>2, <2>1, NoThreeIs
  <2>3. ~ (d[i] = CR /\ d[i + 1] = CR /\ d[i + 2] = CR)
    BY <1>1, <2>1, <2>2
  <2>4. PICK t : t = SubSeq(d, i, i + 2)
    OBVIOUS
  <2>5. t[1] = d[i] /\ t[2] = d[i + 1] /\ t[3] = d[i + 2]
    <3>1. i \in 1 .. Len(d) - 2
      BY <1>1
    <3> QED BY <2>4, <3>1, ThreeOf
  <2>6. <<CR, CR, CR>>[1] = CR /\ <<CR, CR, CR>>[2] = CR /\ <<CR, CR, CR>>[3] = CR
    OBVIOUS
  <2> QED BY <2>3, <2>4, <2>5, <2>6
<1>3. ASSUME NEW k \in 1 .. m PROVE k \in HeadEnds(d) <=> k \in HeadEnds(a)
  <2>1. k \in 1 .. m + n
    BY <1>1
  <2>2. ASSUME NEW j \in 1 .. k - 1
        PROVE  /\ d[j] = a[j]
               /\ (\A i \in j + 1 .. k - 1 : d[i] = CR) <=> (\A i \in j + 1 .. k - 1 : a[i] = CR)
    <3>1. j \in 1 .. m /\ \A i \in j + 1 .. k - 1 : i \in 1 .. m
      OBVIOUS
    <3> QED BY <1>1, <3>1
  <2>3. (\E j \in 1 .. k - 1 : d[j] = LF /\ \A i \in j + 1 .. k - 1 : d[i] = CR)
        <=> \E j \in 1 .. k - 1 : a[j] = LF /\ \A i \in j + 1 .. k - 1 : a[i] = CR
    BY <2>2, Zenon
  <2>4. d[k] = a[k]
    BY <1>1
  <2> QED BY <1>1, <2>1, <2>3, <2>4 DEF HeadEnds
<1>4. HeadEnds(d) \subseteq 1 .. m
  BY <1>1 DEF HeadEnds
<1> QED BY <1>1, <1>2, <1>3, <1>4

\* Where the scan of one call starts, it still sees both line feeds of an
\* empty line that was not complete before.
LEMMA EnoughLookback ==
    ASSUME NEW d \in Seq(Byte), NEW s \in Seq(Byte), HeadEnds(d) = {}, NoThree(d \o s)
    PROVE  /\ ScanStart(Len(d)) \in 1 .. Len(d \o s) + 1
           /\ Ends(d \o s, ScanStart(Len(d)), 0) = HeadEnds(d \o s)
<1>1. PICK m \in Nat, n \in Nat, a \in Seq(Byte) :
        m = Len(d) /\ n = Len(s) /\ a = d \o s /\ Len(a) = m + n
  <2>1. /\ d \o s \in Seq(Byte) /\ Len(d) \in Nat /\ Len(s) \in Nat
        /\ Len(d \o s) = Len(d) + Len(s)
    OBVIOUS
  <2> QED BY <2>1, Zenon
<1>2. PICK from : from = ScanStart(m)
  OBVIOUS
<1>3. from \in 1 .. m + 1 /\ (from = 1 \/ from = m - 2) /\ (m <= 3 => from = 1)
  BY <1>2 DEF ScanStart, Lookback
<1>4. ASSUME NEW e \in Ends(a, from, 0) PROVE e \in HeadEnds(a)
  <2>1. e \in from .. m + n /\ EndsAt(a, from, 0, e)
    BY <1>1 DEF Ends
  <2>2. PICK j \in from .. e - 1 : a[j] = LF /\ \A i \in j + 1 .. e - 1 : a[i] = CR
    BY <2>1 DEF EndsAt
  <2>3. j \in 1 .. e - 1 /\ e \in 1 .. m + n /\ a[e] = LF
    BY <1>3, <2>1 DEF EndsAt
  <2> QED BY <1>1, <2>2, <2>3 DEF HeadEnds
<1>5. ASSUME NEW e \in HeadEnds(a) PROVE e \in Ends(a, from, 0)
  <2>1. e \in 1 .. m + n /\ a[e] = LF
    BY <1>1 DEF HeadEnds
  <2>2. PICK j \in 1 .. e - 1 : a[j] = LF /\ \A i \in j + 1 .. e - 1 : a[i] = CR
    BY DEF HeadEnds
  <2>3. e > m
    <3>1. e \notin 1 .. m
      BY <1>1, FirstPart
    <3> QED BY <2>1, <3>1
  <2>4. j >= e - 3
    <3> SUFFICES ASSUME j < e - 3 PROVE FALSE
      BY <2>1
    <3>1. j + 1 \in 1 .. Len(a) - 2 /\ j + 1 + 1 = j + 2 /\ j + 1 + 2 = j + 3
      BY <1>1, <2>1
    <3>2. j + 1 \in j + 1 .. e - 1 /\ j + 2 \in j + 1 .. e - 1 /\ j + 3 \in j + 1 .. e - 1
      BY <2>1
    <3>3. a[j + 1] = CR /\ a[j + 2] = CR /\ a[j + 3] = CR
      BY <2>2, <3>2
    <3>4. ~ (a[j + 1] = CR /\ a[j + 1 + 1] = CR /\ a[j + 1 + 2] = CR)
      BY <1>1, <3>1, NoThreeIs
    <3> QED BY <3>1, <3>3, <3>4
  <2>5. j \in from .. e - 1 /\ e \in from .. m + n
    BY <1>3, <2>1, <2>3, <2>4
  <2>6. EndsAt(a, from, 0, e)
    BY <2>1, <2>2, <2>5 DEF EndsAt
  <2> QED BY <1>1, <2>5, <2>6 DEF Ends
<1>6. Ends(a, from, 0) = HeadEnds(a)
  BY <1>4, <1>5
<1>7. from \in 1 .. Len(a) + 1
  BY <1>1, <1>3
<1> QED BY <1>1, <1>2, <1>6, <1>7

\* While append() answers 0 or refuses, what it has kept has no empty line.
NoEndYet == ret \in {0, 413} => (NoThree(data) => HeadEnds(data) = {})
\* What an answer to a complete head leaves in the mapping.
BodyIsTheRest ==
    ret \in {1, 400} =>
        (NoThree(data) =>
            HeadEnds(data) # {} /\ other["data"] = SubSeq(data, HeadEnd(data) + 1, Len(data)))
StreamType ==
    /\ stream \in Seq(Byte) /\ data \in Seq(Byte) /\ sent \in Nat
    /\ ret \in {New, Thrown, 0, 413, 1, 400}
EndInv == StreamType /\ NoEndYet /\ BodyIsTheRest

AnswersWith(r, body) == r.ret \in {1, 400} /\ r.other["data"] = body
\* Whatever the request line is, "data" is the body.
LEMMA ParseKeepsBody ==
    ASSUME NEW head, NEW body PROVE AnswersWith(Parse(head, body), body)
<1>1. ASSUME NEW m, NEW k, NEW v, "data" \in DOMAIN m, m["data"] = body, k # "data"
      PROVE  "data" \in DOMAIN Insert(m, k, v) /\ Insert(m, k, v)["data"] = body
  BY <1>1 DEF Insert
<1>2. "data" \in DOMAIN Insert(Empty, "data", body) /\ Insert(Empty, "data", body)["data"] = body
  BY DEF Insert
<1> HIDE DEF Insert
<1> DEFINE a == FirstOf(head, 1, {SP, LF})
           b == FirstOf(head, a + 1, {SP, LF})
           c == FirstOf(head, b + 1, {SP, LF})
           raw == SubSeq(head, a + 1, b - 1)
           url == CharDecodeUrl(raw)
           cr == c > b + 1 /\ head[c - 1] = CR
           o1 == Insert(Empty, "data", body)
           o2 == Insert(o1, "method", SubSeq(head, 1, a - 1))
           o3 == Insert(Insert(o2, "raw_url", raw), "file", url.file)
           o4 == IF url.mark = 0 THEN o3
                 ELSE Insert(o3, "query", SubSeq(raw, url.mark + 1, Len(raw)))
           o5 == Insert(o4, "protocol", SubSeq(head, b + 1, IF cr THEN c - 2 ELSE c - 1))
           h == HeadersIn(SubSeq(head, c + 1, Len(head)))
           Keeps(o) == "data" \in DOMAIN o /\ o["data"] = body
<1>3. Keeps(o1)
  BY <1>2
<1>4. Keeps(o2)
  BY <1>1, <1>3
<1>5. Keeps(Insert(o2, "raw_url", raw))
  BY <1>1, <1>4
<1>6. Keeps(o3)
  BY <1>1, <1>5
<1>7. Keeps(o4)
  BY <1>1, <1>6
<1>8. Keeps(o5)
  BY <1>1, <1>7
<1>9. Parse(head, body) =
        IF head[a] = LF THEN [ret |-> 400, other |-> o1, headers |-> Empty]
        ELSE IF head[b] = LF THEN [ret |-> 400, other |-> o2, headers |-> Empty]
        ELSE IF head[c] = SP THEN [ret |-> 400, other |-> o4, headers |-> Empty]
        ELSE [ret |-> 1, other |-> o5, headers |-> h]
  BY Zenon DEF Parse
<1> HIDE DEF a, b, c, o1, o2, o4, o5, h
<1> QED BY <1>3, <1>4, <1>7, <1>8, <1>9 DEF AnswersWith

\* The step of append().
LEMMA AppendStep ==
    ASSUME EndInv, NEW n \in 1 .. Len(stream), BufAppend(n) PROVE EndInv' /\ ret' # New
<1> DEFINE str == SubSeq(stream, sent + 1, sent + n)
           found == Scan(data \o str, ScanStart(Len(data)))
           parsed == Parse(SubSeq(data \o str, 1, found.end),
                           SubSeq(data \o str, found.end + 1, Len(data \o str)))
<1>1. /\ stream \in Seq(Byte) /\ data \in Seq(Byte) /\ sent \in Nat
      /\ ret \in {0, 413} /\ n \in 1 .. Len(stream) - sent
      /\ sent' = sent + n /\ stream' = stream
  BY DEF EndInv, StreamType, BufAppend
<1>2. sent' \in Nat /\ stream' \in Seq(Byte)
  BY <1>1
<1>3. str \in Seq(Byte)
  BY <1>1
<1>4. PICK d \in Seq(Byte) : d = data
  BY <1>1
<1>5. PICK s \in Seq(Byte) : s = str
  BY <1>3
<1>6. PICK f : f = found
  OBVIOUS
<1>7. PICK r : r = parsed
  OBVIOUS
<1>8. NoThree(d) => HeadEnds(d) = {}
  BY <1>1, <1>4 DEF EndInv, NoEndYet
<1>9. CASE ~ Fits(n)
  <2>1. ret' = 413 /\ data' = data
    BY <1>9 DEF BufAppend
  <2>2. StreamType'
    BY <1>1, <1>2, <2>1 DEF StreamType
  <2>3. NoEndYet'
    BY <1>4, <1>8, <2>1 DEF NoEndYet
  <2>4. BodyIsTheRest'
    BY <2>1 DEF BodyIsTheRest
  <2> QED BY <2>1, <2>2, <2>3, <2>4 DEF EndInv, New
<1>10. CASE Fits(n)
  <2>1. /\ data' = d \o s
        /\ f.slash_n # 2 => ret' = 0
        /\ f.slash_n = 2 => ret' = r.ret /\ other' = r.other
    <3>1. /\ data' = data \o str
          /\ found.slash_n # 2 => ret' = 0
          /\ found.slash_n = 2 => ret' = parsed.ret /\ other' = parsed.other
      BY <1>10, Zenon DEF BufAppend
    <3> QED BY <1>4, <1>5, <1>6, <1>7, <3>1, Zenon
  <2>2. PICK a \in Seq(Byte) : a = d \o s
    <3>1. d \o s \in Seq(Byte)
      BY Zenon, CatIn
    <3> QED BY <3>1, Zenon
  <2>3. PICK m \in Nat : m = Len(a)
    OBVIOUS
  <2>4. f = Scan(a, ScanStart(Len(d)))
    BY <1>4, <1>5, <1>6, <2>2, Zenon
  <2>5. r.ret \in {1, 400} /\ r.other["data"] = SubSeq(a, f.end + 1, Len(a))
    <3>1. r = Parse(SubSeq(a, 1, f.end), SubSeq(a, f.end + 1, Len(a)))
      BY <1>4, <1>5, <1>6, <1>7, <2>2, Zenon
    <3>2. PICK h, b : h = SubSeq(a, 1, f.end) /\ b = SubSeq(a, f.end + 1, Len(a))
      OBVIOUS
    <3>3. AnswersWith(Parse(h, b), b)
      BY ParseKeepsBody, Zenon
    <3>4. AnswersWith(r, SubSeq(a, f.end + 1, Len(a)))
      BY <3>1, <3>2, <3>3, Zenon
    <3> QED BY <3>4, Zenon DEF AnswersWith
  <2>6. StreamType'
    BY <1>2, <2>1, <2>2, <2>5 DEF StreamType
  <2>7. ASSUME NoThree(a)
        PROVE  /\ Tells(f, a, ScanStart(Len(d)), 0)
               /\ Ends(a, ScanStart(Len(d)), 0) = HeadEnds(a)
    <3>1. NoThree(d)
      BY <2>2, <2>7, FirstPart
    <3>2. HeadEnds(d) = {}
      BY <1>8, <3>1
    <3>3. ScanStart(Len(d)) \in 1 .. Len(a) + 1 /\ Ends(a, ScanStart(Len(d)), 0) = HeadEnds(a)
      BY <2>2, <2>7, <3>2, EnoughLookback
    <3>4. PICK from \in 1 .. Len(a) + 1 : from = ScanStart(Len(d))
      BY <3>3
    <3>5. Tells(Scan(a, from), a, from, 0)
      BY <3>4, ScanFinds
    <3> QED BY <2>4, <3>3, <3>4, <3>5, Zenon
  <2>8. CASE f.slash_n # 2
    <3>1. ret' = 0
      BY <2>1, <2>8
    <3>2. NoThree(a) => HeadEnds(a) = {}
      BY <2>7, <2>8, Zenon DEF Tells
    <3>3. NoEndYet'
      BY <2>1, <2>2, <3>2 DEF NoEndYet
    <3>4. BodyIsTheRest'
      BY <3>1 DEF BodyIsTheRest
    <3> QED BY <2>6, <3>1, <3>3, <3>4 DEF EndInv, New
  <2>9. CASE f.slash_n = 2
    <3>1. ret' \in {1, 400} /\ other'["data"] = SubSeq(a, f.end + 1, Len(a))
      BY <2>1, <2>5, <2>9, Zenon
    <3>2. ASSUME NoThree(a) PROVE HeadEnds(a) # {} /\ HeadEnd(a) = f.end
      <4>1. f.end \in HeadEnds(a) /\ \A e \in HeadEnds(a) : f.end <= e
        BY <2>7, <2>9, <3>2, Zenon DEF Tells
      <4>2. HeadEnds(a) \in SUBSET Nat
        BY <2>3 DEF HeadEnds
      <4>3. PICK far : far = f.end
        OBVIOUS
      <4>4. Min(HeadEnds(a)) = far
        BY <4>1, <4>2, <4>3, MinIs
      <4> QED BY <4>1, <4>3, <4>4 DEF HeadEnd
    <3>3. NoEndYet'
      BY <3>1 DEF NoEndYet
    <3>4. BodyIsTheRest'
      BY <2>1, <2>2, <3>1, <3>2, Zenon DEF BodyIsTheRest
    <3> QED BY <2>6, <3>1, <3>3, <3>4 DEF EndInv, New
  <2> QED BY <2>8, <2>9
<1> QED BY <1>9, <1>10
\* The size of the buffer, and what it is while it exists.
RoomInv ==
    /\ size \in Nat /\ free \in Nat /\ data \in Seq(Byte)
    /\ ret \notin {New, Thrown} => Len(data) + free = size /\ free >= 1
    /\ ret = New => data = <<>>

\* Before create() nothing is kept,
LEMMA EndInit == ASSUME Init PROVE EndInv /\ RoomInv
<1>1. stream \in Seq(Byte)
  BY SizeAssumption DEF Init
<1>2. EndInv
  BY <1>1 DEF Init, EndInv, StreamType, NoEndYet, BodyIsTheRest, New, Thrown
<1>3. RoomInv
  BY DEF Init, RoomInv, New, Thrown
<1> QED BY <1>2, <1>3

\* after it an empty buffer, or none,
LEMMA CreateStep ==
    ASSUME EndInv, RoomInv, NEW n \in Sizes, Create(n) PROVE EndInv' /\ RoomInv'
<1>1. n \in Nat
  BY SizeAssumption
<1>2. /\ ret = New /\ data = <<>> /\ data' = data /\ stream' = stream /\ sent' = sent
      /\ free' = n /\ size \in Nat
      /\ \/ n \in BufsizeMin .. BufsizeMax /\ ret' = 0 /\ size' = n
         \/ ret' = Thrown /\ size' = size
  BY DEF Create, RoomInv
<1>3. StreamType'
  BY <1>2 DEF EndInv, StreamType
<1>4. HeadEnds(data') = {}
  <2>1. 1 .. Len(data') = {}
    BY <1>2
  <2> QED BY <2>1 DEF HeadEnds
<1>5. EndInv'
  <2>1. ret' \notin {1, 400}
    BY <1>2 DEF Thrown
  <2> QED BY <1>3, <1>4, <2>1 DEF EndInv, NoEndYet, BodyIsTheRest
<1>6. RoomInv'
  <2>1. Len(data') = 0 /\ data' \in Seq(Byte)
    BY <1>2
  <2>2. BufsizeMin >= 1 /\ BufsizeMin \in Nat /\ BufsizeMax \in Nat
    BY SizeAssumption
  <2>3. CASE n \in BufsizeMin .. BufsizeMax /\ ret' = 0 /\ size' = n
    BY <1>1, <1>2, <2>1, <2>2, <2>3 DEF RoomInv, New, Thrown
  <2>4. CASE ret' = Thrown /\ size' = size
    BY <1>1, <1>2, <2>1, <2>4 DEF RoomInv, New, Thrown
  <2> QED BY <1>2, <2>3, <2>4
<1> QED BY <1>5, <1>6

\* and append() leaves room for one byte more than it keeps.
LEMMA AppendRoom ==
    ASSUME EndInv, RoomInv, NEW n \in 1 .. Len(stream), BufAppend(n), EndInv' PROVE RoomInv'
<1>1. /\ stream \in Seq(Byte) /\ data \in Seq(Byte) /\ sent \in Nat
      /\ ret \in {0, 413} /\ n \in 1 .. Len(stream) - sent /\ size' = size
  BY DEF EndInv, StreamType, BufAppend
<1>2. /\ size \in Nat /\ free \in Nat /\ Len(data) + free = size /\ free >= 1
  BY <1>1 DEF RoomInv, New, Thrown
<1>3. PICK s : s = SubSeq(stream, sent + 1, sent + n)
  OBVIOUS
<1>4. s \in Seq(Byte) /\ Len(s) = n
  BY <1>1, <1>3
<1>5. ret' \in {New, Thrown, 0, 413, 1, 400} /\ data' \in Seq(Byte)
  BY DEF EndInv, StreamType
<1>6. ret' # New
  BY AppendStep
<1>7. CASE ~ Fits(n)
  <2>1. data' = data /\ free' = free
    BY <1>7 DEF BufAppend
  <2> QED BY <1>1, <1>2, <1>6, <2>1 DEF RoomInv
<1>8. CASE Fits(n)
  <2>1. data' = data \o s /\ free' = free - n
    BY <1>3, <1>8, Zenon DEF BufAppend
  <2>2. n < free
    BY <1>8 DEF Fits
  <2>3. Len(data') = Len(data) + n
    BY <1>1, <1>4, <2>1, CatIn
  <2>4. Len(data) \in Nat
    BY <1>1
  <2>5. PICK m \in Nat, k \in Nat : m = Len(data) /\ k = free
    BY <1>2, <2>4
  <2>6. free' \in Nat /\ free' >= 1 /\ Len(data') + free' = size'
    <3>1. n \in Nat
      <4>1. Len(s) \in Nat
        BY <1>4
      <4> QED BY <1>4, <4>1
    <3>2. free' = k - n /\ n < k /\ size' = m + k /\ Len(data') = m + n
      BY <1>1, <1>2, <2>1, <2>2, <2>3, <2>5, Zenon
    <3> QED BY <3>1, <3>2
  <2> QED BY <1>1, <1>2, <1>5, <1>6, <2>6 DEF RoomInv
<1> QED BY <1>7, <1>8

\* Every step keeps both.
LEMMA EndNext == ASSUME EndInv, RoomInv, [Next]_vars PROVE EndInv' /\ RoomInv'
<1>1. CASE Next
  <2>1. CASE \E n \in Sizes : Create(n)
    BY <2>1, CreateStep
  <2>2. CASE \E n \in 1 .. Len(stream) : BufAppend(n)
    <3>1. PICK n \in 1 .. Len(stream) : BufAppend(n)
      BY <2>2
    <3>2. EndInv'
      BY <3>1, AppendStep
    <3> QED BY <3>1, <3>2, AppendRoom
  <2> QED BY <1>1, <2>1, <2>2 DEF Next
<1>2. CASE UNCHANGED vars
  BY <1>2 DEF vars, EndInv, RoomInv, StreamType, NoEndYet, BodyIsTheRest
<1> QED BY <1>1, <1>2

\* The two properties follow.
LEMMA EndOK == ASSUME EndInv, RoomInv PROVE EndSeenInPieces /\ RoomForTheNul
<1>1. EndSeenInPieces
  BY Zenon DEF EndInv, NoEndYet, BodyIsTheRest, NoThree, EndSeenInPieces
<1>2. RoomForTheNul
  BY DEF RoomInv, RoomForTheNul
<1> QED BY <1>1, <1>2

\* The empty line is seen wherever the pieces are cut, and what follows the
\* first one is the body: append() answers 0 only while there is none in what it
\* was given.
THEOREM EndSeenTheorem == Spec => []EndSeenInPieces
<1>1. Init => EndInv /\ RoomInv
  BY EndInit
<1>2. EndInv /\ RoomInv /\ [Next]_vars => EndInv' /\ RoomInv'
  BY EndNext
<1>3. EndInv /\ RoomInv => EndSeenInPieces
  BY EndOK
<1> QED BY <1>1, <1>2, <1>3, PTL DEF Spec

-----------------------------------------------------------------------------
(* The buffer of the entity parser *)

Errors == {Ok, OpenEntity, EntNameLong, InvalidName, RetbufTooLong, Overrun}
EntState ==
    [tmp : Nat \ {0}, curpos : Nat, in_entity : BOOLEAN, name : Seq(Byte), parts : Seq(Byte),
     full : Seq(Byte), out : Seq(Byte), cap : Nat,
     err : Errors]

\* What has been written is inside the buffer.
Held(st) == st \in EntState /\ Len(st.out) <= st.cap

\* The fields of a held state, and the numbers made from them.
LEMMA StateFields ==
    ASSUME NEW st, Held(st)
    PROVE  /\ st.tmp \in Nat \ {0} /\ st.curpos \in Nat /\ st.in_entity \in BOOLEAN
           /\ st.name \in Seq(Byte) /\ st.parts \in Seq(Byte) /\ st.full \in Seq(Byte)
           /\ st.err \in Errors /\ st.tmp + 1 \in Nat \ {0} /\ st.tmp + 2 \in Nat \ {0}
           /\ st.curpos + 1 \in Nat /\ st.curpos + 2 \in Nat
<1>1. /\ st.tmp \in Nat \ {0} /\ st.curpos \in Nat /\ st.in_entity \in BOOLEAN
      /\ st.name \in Seq(Byte) /\ st.parts \in Seq(Byte) /\ st.full \in Seq(Byte)
      /\ st.err \in Errors
  BY DEF Held, EntState
<1> QED BY <1>1, SMTT(30)

\* A state that differs from a held one in what it reads next, in what it has
\* collected of an entity, or in its error.
LEMMA HeldPast ==
    ASSUME NEW st, Held(st), NEW tmp \in Nat \ {0} PROVE Held([st EXCEPT !.tmp = tmp])
BY DEF Held, EntState
\* (with the position counted,)
LEMMA HeldCounted ==
    ASSUME NEW st, Held(st), NEW tmp \in Nat \ {0}, NEW curpos \in Nat
    PROVE  Held([st EXCEPT !.tmp = tmp, !.curpos = curpos])
BY DEF Held, EntState
\* (with an error,)
LEMMA HeldFailed ==
    ASSUME NEW st, Held(st), NEW err \in Errors PROVE Held([st EXCEPT !.err = err])
BY DEF Held, EntState
\* (out of an entity,)
LEMMA HeldLeft ==
    ASSUME NEW st, Held(st), NEW tmp \in Nat \ {0}
    PROVE  Held([st EXCEPT !.tmp = tmp, !.in_entity = FALSE])
BY DEF Held, EntState
\* (in a new one,)
LEMMA HeldEntered ==
    ASSUME NEW st, Held(st), NEW tmp \in Nat \ {0}, NEW curpos \in Nat, NEW none \in Seq(Byte)
    PROVE  Held([st EXCEPT !.tmp = tmp, !.curpos = curpos, !.in_entity = TRUE,
                           !.name = none, !.parts = none, !.full = none])
BY DEF Held, EntState
\* (behind a dot,)
LEMMA HeldDotted ==
    ASSUME NEW st, Held(st), NEW tmp \in Nat \ {0}, NEW curpos \in Nat,
           NEW full \in Seq(Byte), NEW parts \in Seq(Byte)
    PROVE  Held([st EXCEPT !.tmp = tmp, !.curpos = curpos, !.full = full, !.parts = parts])
BY DEF Held, EntState
\* (with a byte more of its name or parts)
LEMMA HeldNamed ==
    ASSUME NEW st, Held(st), NEW tmp \in Nat \ {0}, NEW curpos \in Nat,
           NEW full \in Seq(Byte), NEW name \in Seq(Byte), NEW parts \in Seq(Byte)
    PROVE  Held([st EXCEPT !.tmp = tmp, !.curpos = curpos, !.full = full, !.name = name,
                           !.parts = parts])
BY DEF Held, EntState

\* append_data: the growing leaves room for the text and two bytes more.
LEMMA AppendHolds ==
    ASSUME NEW st, Held(st), NEW n \in Nat, NEW text \in Seq(Byte), Len(text) <= n + 2
    PROVE  Held(AppendData(st, n, text))
<1>1. PICK cap \in Nat, len \in Nat, more \in Nat :
        cap = st.cap /\ len = Len(st.out) /\ more = Len(text)
  BY DEF Held, EntState
<1>2. len <= cap /\ more <= n + 2
  BY <1>1 DEF Held
<1>3. PICK grown : grown = Grown(st, n)
  OBVIOUS
<1>4. grown = IF len + (len + n + 2) >= cap THEN cap + 2 * (len + n + 2) ELSE cap
  BY <1>1, <1>3 DEF Grown
<1>5. grown \in Nat /\ len + more <= grown /\ cap <= grown
  BY <1>2, <1>4
<1>6. CASE grown # cap /\ grown >= EntMaxRetbufsize
  <2>1. AppendData(st, n, text) = [st EXCEPT !.err = RetbufTooLong, !.cap = grown]
    BY <1>1, <1>3, <1>6 DEF AppendData
  <2>2. PICK r : r = [st EXCEPT !.err = RetbufTooLong, !.cap = grown]
    OBVIOUS
  <2>3. r \in EntState /\ r.out = st.out /\ r.cap = grown
    <3>1. RetbufTooLong \in Errors
      BY DEF Errors
    <3> QED BY <1>5, <2>2, <3>1 DEF Held, EntState
  <2> QED BY <1>1, <1>2, <1>5, <2>1, <2>2, <2>3 DEF Held
<1>7. CASE ~ (grown # cap /\ grown >= EntMaxRetbufsize)
  <2>1. AppendData(st, n, text)
          = [st EXCEPT !.out = @ \o text, !.cap = grown, !.curpos = @ + 1]
    BY <1>1, <1>3, <1>7 DEF AppendData
  <2>2. st.out \in Seq(Byte) /\ st.curpos \in Nat
    BY DEF Held, EntState
  <2>3. PICK out \in Seq(Byte) : out = st.out \o text /\ Len(out) = len + more
    BY <1>1, <2>2, CatIn
  <2>4. PICK r : r = [st EXCEPT !.out = out, !.cap = grown, !.curpos = st.curpos + 1]
    OBVIOUS
  <2>5. AppendData(st, n, text) = r
    BY <2>1, <2>3, <2>4, Zenon
  <2>6. r \in EntState /\ r.out = out /\ r.cap = grown
    <3>1. PICK curpos \in Nat : curpos = st.curpos + 1
      BY <2>2
    <3>2. r = [st EXCEPT !.out = out, !.cap = grown, !.curpos = curpos]
      BY <2>4, <3>1, Zenon
    <3>3. st \in EntState
      BY DEF Held
    <3> QED BY <1>5, <2>3, <3>1, <3>2, <3>3 DEF EntState
  <2> QED BY <1>5, <2>3, <2>5, <2>6 DEF Held
<1> QED BY <1>6, <1>7

\* A byte of the text, or the NUL behind it.
LEMMA AtIs == ASSUME NEW s \in Seq(Byte), NEW p \in Nat \ {0} PROVE At(s, p) \in Byte
<1>1. CASE p <= Len(s)
  <2>1. p \in 1 .. Len(s)
    BY <1>1
  <2>2. s[p] \in Byte
    BY <2>1
  <2> QED BY <1>1, <2>2 DEF At
<1>2. CASE ~ p <= Len(s)
  BY <1>2 DEF At, NUL, Byte
<1> QED BY <1>1, <1>2

\* One byte, or a byte more.
LEMMA OneByte ==
    ASSUME NEW c \in Byte PROVE <<c>> \in Seq(Byte) /\ Len(<<c>>) = 1
OBVIOUS

\* What a scope says is a string.
LEMMA CallbackIs ==
    ASSUME NEW name, NEW parts, EntityCallback(name, parts) # <<>>
    PROVE  EntityCallback(name, parts)[1] \in Seq(Byte)
<1>1. PICK scope, part : scope = CString(name) /\ part = CString(parts)
  OBVIOUS
<1>2. EntityCallback(name, parts) = IF scope \in DOMAIN Scopes /\ part \in DOMAIN Scopes[scope]
                                    THEN <<Scopes[scope][part]>> ELSE <<>>
  BY <1>1, Zenon DEF EntityCallback
<1>3. scope \in DOMAIN Scopes /\ part \in DOMAIN Scopes[scope]
  BY <1>2
<1>4. Scopes[scope][part] \in Seq(Byte)
  BY <1>3, EntAssumption
<1> QED BY <1>2, <1>3, <1>4

\* Each kind of byte keeps the output inside.
LEMMA PlainHolds == ASSUME NEW s \in Seq(Byte), NEW st, Held(st) PROVE Held(Plain(s, st))
<1>1. PICK r : r = [st EXCEPT !.tmp = @ + 1]
  OBVIOUS
<1>2. Held(r)
  <2>1. PICK tmp \in Nat \ {0} : tmp = st.tmp + 1
    BY StateFields
  <2>2. Held([st EXCEPT !.tmp = tmp])
    BY HeldPast
  <2> QED BY <1>1, <2>1, <2>2, Zenon
<1>3. At(s, st.tmp) \in Byte
  <2>1. st.tmp \in Nat \ {0}
    BY DEF Held, EntState
  <2> QED BY <2>1, AtIs
<1>4. PICK text \in Seq(Byte) : text = <<At(s, st.tmp)>> /\ Len(text) = 1
  BY <1>3, OneByte
<1>5. Held(AppendData(r, 0, text))
  <2>1. PICK n \in Nat : n = 0 /\ Len(text) <= n + 2
    BY <1>4
  <2>2. Held(AppendData(r, n, text))
    BY <1>2, <2>1, AppendHolds
  <2> QED BY <2>1, <2>2, Zenon
<1> QED BY <1>1, <1>4, <1>5, Zenon DEF Plain
\* An entity begins.
LEMMA AmpersandHolds == ASSUME NEW s \in Seq(Byte), NEW st, Held(st) PROVE Held(Ampersand(s, st))
<1>1. PICK tmp \in Nat \ {0}, curpos \in Nat : tmp = st.tmp + 1 /\ curpos = st.curpos + 1
  BY StateFields
<1>2. CASE At(s, st.tmp + 1) = AMP
  <2>1. PICK r : r = [st EXCEPT !.tmp = tmp, !.curpos = curpos]
    OBVIOUS
  <2>2. Held(r)
    BY <2>1, HeldCounted
  <2>3. Held(Plain(s, r))
    BY <2>2, PlainHolds
  <2> QED BY <1>1, <1>2, <2>1, <2>3, Zenon DEF Ampersand
<1>3. CASE At(s, st.tmp + 1) # AMP
  <2>1. Ampersand(s, st) = [st EXCEPT !.tmp = tmp, !.curpos = curpos, !.in_entity = TRUE,
                                      !.name = <<>>, !.parts = <<>>, !.full = <<>>]
    BY <1>1, <1>3, Zenon DEF Ampersand
  <2>2. PICK none \in Seq(Byte) : none = <<>>
    <3>1. <<>> \in Seq(Byte)
      OBVIOUS
    <3> QED BY <3>1, Zenon
  <2>3. Held([st EXCEPT !.tmp = tmp, !.curpos = curpos, !.in_entity = TRUE,
                        !.name = none, !.parts = none, !.full = none])
    BY HeldEntered
  <2> QED BY <2>1, <2>2, <2>3, Zenon
<1> QED BY <1>2, <1>3

\* An entity ends.
LEMMA SemicolonHolds == ASSUME NEW s \in Seq(Byte), NEW st, Held(st) PROVE Held(Semicolon(s, st))
<1>1. PICK tmp \in Nat \ {0}, full \in Seq(Byte), n \in Nat :
        tmp = st.tmp + 1 /\ full = st.full /\ n = Len(full)
  <2>1. PICK full \in Seq(Byte) : full = st.full
    BY StateFields
  <2>2. Len(full) \in Nat
    OBVIOUS
  <2> QED BY <2>1, <2>2, StateFields, Zenon
<1>2. PICK r : r = [st EXCEPT !.tmp = tmp, !.in_entity = FALSE]
  OBVIOUS
<1>3. Held(r)
  BY <1>2, HeldLeft
<1>4. PICK res : res = EntityCallback(st.name, st.parts)
  OBVIOUS
<1>5. Semicolon(s, st) =
        IF ~st.in_entity THEN Plain(s, st)
        ELSE IF res # <<>> THEN AppendData(r, Len(res[1]), res[1])
        ELSE IF full = <<>> THEN Plain(s, r)
        ELSE AppendData(r, n, <<AMP>> \o full \o <<SEMI>>)
  BY <1>1, <1>2, <1>4, Zenon DEF Semicolon
<1>6. Held(Plain(s, st)) /\ Held(Plain(s, r))
  BY <1>3, PlainHolds
<1>7. res # <<>> => Held(AppendData(r, Len(res[1]), res[1]))
  <2> SUFFICES ASSUME res # <<>> PROVE Held(AppendData(r, Len(res[1]), res[1]))
    OBVIOUS
  <2>1. PICK text \in Seq(Byte) : text = res[1]
    BY <1>4, CallbackIs
  <2>2. PICK k \in Nat : k = Len(text) /\ Len(text) <= k + 2
    OBVIOUS
  <2>3. Held(AppendData(r, k, text))
    BY <1>3, <2>2, AppendHolds
  <2> QED BY <2>1, <2>2, <2>3, Zenon
<1>8. Held(AppendData(r, n, <<AMP>> \o full \o <<SEMI>>))
  <2>1. AMP \in Byte /\ SEMI \in Byte
    BY DEF AMP, SEMI, Byte
  <2>2. PICK a \in Seq(Byte), b \in Seq(Byte) :
          a = <<AMP>> /\ b = <<SEMI>> /\ Len(a) = 1 /\ Len(b) = 1
    BY <2>1, OneByte
  <2>3. a \o full \in Seq(Byte) /\ Len(a \o full) = Len(a) + Len(full)
    BY CatIn
  <2>4. PICK c \in Seq(Byte) : c = a \o full /\ Len(c) = 1 + n
    BY <1>1, <2>2, <2>3, Zenon
  <2>5. c \o b \in Seq(Byte) /\ Len(c \o b) = Len(c) + Len(b)
    BY CatIn
  <2>6. PICK text \in Seq(Byte) : text = c \o b /\ Len(text) = 1 + n + 1
    BY <2>2, <2>4, <2>5, Zenon
  <2>7. Len(text) <= n + 2
    BY <2>6
  <2>8. Held(AppendData(r, n, text))
    BY <1>3, <2>7, AppendHolds
  <2> QED BY <2>2, <2>4, <2>6, <2>8, Zenon
<1> QED BY <1>5, <1>6, <1>7, <1>8

\* A dot in an entity.
LEMMA DotHolds == ASSUME NEW s \in Seq(Byte), NEW st, Held(st) PROVE Held(Dot(s, st))
<1>1. PICK tmp \in Nat \ {0}, curpos \in Nat, tmp2 \in Nat \ {0}, curpos2 \in Nat :
        /\ tmp = st.tmp + 1 /\ curpos = st.curpos + 1
        /\ tmp2 = st.tmp + 2 /\ curpos2 = st.curpos + 2
  BY StateFields
<1>2. PICK c : c = At(s, tmp)
  OBVIOUS
<1>3. c \in Byte /\ DOT \in Byte /\ NUL \in Byte
  <2>1. DOT \in Byte /\ NUL \in Byte
    BY DEF DOT, NUL, Byte
  <2>2. At(s, tmp) \in Byte
    BY AtIs
  <2> QED BY <1>2, <2>1, <2>2, Zenon
<1>4. Dot(s, st) =
        IF ~st.in_entity THEN Plain(s, st)
        ELSE IF st.name = <<>> THEN [st EXCEPT !.err = InvalidName]
        ELSE IF Len(st.full) + (IF st.parts # <<>> THEN 1 ELSE 2) > EntMaxEntsize + 1
             THEN [st EXCEPT !.err = Overrun]
        ELSE IF st.parts # <<>>
             THEN [st EXCEPT !.tmp = tmp, !.curpos = curpos,
                             !.full = Append(@, DOT), !.parts = Append(@, NUL)]
        ELSE [st EXCEPT !.tmp = tmp2, !.curpos = curpos2,
                        !.full = @ \o <<DOT, c>>, !.parts = <<c>>]
  BY <1>1, <1>2, Zenon DEF Dot
<1>5. Held(Plain(s, st))
  BY PlainHolds
<1>6. Held([st EXCEPT !.err = InvalidName]) /\ Held([st EXCEPT !.err = Overrun])
  <2>1. InvalidName \in Errors /\ Overrun \in Errors
    BY DEF Errors
  <2> QED BY <2>1, HeldFailed
<1>7. Held([st EXCEPT !.tmp = tmp, !.curpos = curpos,
                      !.full = Append(@, DOT), !.parts = Append(@, NUL)])
  <2>1. PICK full \in Seq(Byte), parts \in Seq(Byte) :
          full = Append(st.full, DOT) /\ parts = Append(st.parts, NUL)
    BY <1>3, StateFields, AppendIs
  <2>2. Held([st EXCEPT !.tmp = tmp, !.curpos = curpos, !.full = full, !.parts = parts])
    BY HeldDotted
  <2> QED BY <2>1, <2>2, Zenon
<1>8. Held([st EXCEPT !.tmp = tmp2, !.curpos = curpos2,
                      !.full = @ \o <<DOT, c>>, !.parts = <<c>>])
  <2>1. PICK two \in Seq(Byte), parts \in Seq(Byte) : two = <<DOT, c>> /\ parts = <<c>>
    <3>1. <<DOT, c>> \in Seq(Byte) /\ <<c>> \in Seq(Byte)
      BY <1>3
    <3> QED BY <3>1, Zenon
  <2>2. PICK full \in Seq(Byte) : full = st.full \o two
    BY StateFields, CatIn
  <2>3. Held([st EXCEPT !.tmp = tmp2, !.curpos = curpos2, !.full = full, !.parts = parts])
    BY HeldDotted
  <2> QED BY <2>1, <2>2, <2>3, Zenon
<1> QED BY <1>4, <1>5, <1>6, <1>7, <1>8

\* Any other byte.
LEMMA OtherHolds == ASSUME NEW s \in Seq(Byte), NEW st, Held(st) PROVE Held(Other(s, st))
<1>1. PICK tmp \in Nat \ {0}, curpos \in Nat : tmp = st.tmp + 1 /\ curpos = st.curpos + 1
  BY StateFields
<1>2. PICK c : c = At(s, st.tmp)
  OBVIOUS
<1>3. c \in Byte
  BY <1>2, StateFields, AtIs
<1>4. PICK full \in Seq(Byte), name \in Seq(Byte), parts \in Seq(Byte) :
        /\ full = Append(st.full, c)
        /\ name = IF st.parts = <<>> THEN Append(st.name, c) ELSE st.name
        /\ parts = IF st.parts = <<>> THEN st.parts ELSE Append(st.parts, c)
  BY <1>3, StateFields, AppendIs
<1>5. Other(s, st) =
        IF ~st.in_entity THEN Plain(s, st)
        ELSE IF Len(st.full) >= EntMaxEntsize THEN [st EXCEPT !.err = EntNameLong]
        ELSE [st EXCEPT !.tmp = tmp, !.curpos = curpos, !.full = full, !.name = name,
                        !.parts = parts]
  BY <1>1, <1>2, <1>4, Zenon DEF Other
<1>6. Held(Plain(s, st))
  BY PlainHolds
<1>7. Held([st EXCEPT !.err = EntNameLong])
  <2>1. PICK err \in Errors : err = EntNameLong
    BY DEF Errors
  <2>2. Held([st EXCEPT !.err = err])
    BY HeldFailed
  <2> QED BY <2>1, <2>2
<1>8. Held([st EXCEPT !.tmp = tmp, !.curpos = curpos, !.full = full, !.name = name,
                      !.parts = parts])
  BY HeldNamed
<1> QED BY <1>5, <1>6, <1>7, <1>8

\* One turn of the loop, whatever byte is next.
LEMMA TurnHolds == ASSUME NEW s \in Seq(Byte), NEW st, Held(st) PROVE Held(EntStep(s, st))
<1>1. /\ Held(Ampersand(s, st)) /\ Held(Semicolon(s, st)) /\ Held(Dot(s, st))
      /\ Held(Other(s, st))
  BY AmpersandHolds, SemicolonHolds, DotHolds, OtherHolds
<1>2. AMP # SEMI /\ AMP # DOT /\ SEMI # DOT
  BY DEF AMP, SEMI, DOT
<1> QED BY <1>1, <1>2 DEF EntStep

\* The start: room for a third more than the text.
LEMMA StartHolds == ASSUME NEW s \in Seq(Byte) PROVE Held(EntStart(s))
<1>1. PICK len \in Nat : len = Len(s)
  OBVIOUS
<1>2. len + len \div 3 \in Nat
  OBVIOUS
<1>3. PICK cap \in Nat : cap = len + len \div 3
  BY <1>2
<1>4. EntStart(s) = [tmp |-> 1, curpos |-> 0, in_entity |-> FALSE, name |-> <<>>, parts |-> <<>>,
                     full |-> <<>>, out |-> <<>>, cap |-> cap, err |-> Ok]
  BY <1>1, <1>3, Zenon DEF EntStart
<1>5. Ok \in Errors /\ <<>> \in Seq(Byte) /\ Len(<<>>) = 0
  BY DEF Errors
<1> QED BY <1>4, <1>5 DEF Held, EntState

\* The turns up to the k-th one.
Turns(s, k, T) == T = [j \in 0 .. k |-> IF j = 0 THEN EntStart(s) ELSE EntStep(s, T[j - 1])]

\* They exist, for one turn more,
LEMMA TurnsMore ==
    ASSUME NEW s, NEW k \in Nat, NEW P, k = 0 \/ Turns(s, k - 1, P)
    PROVE  \E Q : Turns(s, k, Q)
<1> DEFINE Q == [j \in 0 .. k |-> IF j = k /\ k # 0 THEN EntStep(s, P[k - 1])
                                  ELSE IF j = 0 THEN EntStart(s) ELSE P[j]]
<1>1. ASSUME NEW j \in 0 .. k
      PROVE  Q[j] = IF j = 0 THEN EntStart(s) ELSE EntStep(s, Q[j - 1])
  <2>1. CASE j = 0
    BY <2>1
  <2>2. CASE j # 0
    <3>1. k # 0 /\ j - 1 \in 0 .. k - 1 /\ j - 1 \in 0 .. k /\ j - 1 # k
      BY <2>2
    <3>2. P = [i \in 0 .. k - 1 |-> IF i = 0 THEN EntStart(s) ELSE EntStep(s, P[i - 1])]
      BY <3>1 DEF Turns
    <3>3. Q[j - 1] = P[j - 1]
      <4>1. CASE j - 1 = 0
        <5>1. Q[j - 1] = EntStart(s)
          BY <3>1, <4>1
        <5>2. P[j - 1] = EntStart(s)
          <6> HIDE DEF Q
          <6> QED BY <3>1, <3>2, <4>1
        <5> QED BY <5>1, <5>2
      <4>2. CASE j - 1 # 0
        BY <3>1, <4>2
      <4> QED BY <4>1, <4>2
    <3>4. CASE j = k
      <4>1. Q[j] = EntStep(s, P[k - 1])
        BY <3>1, <3>4
      <4> HIDE DEF Q
      <4> QED BY <2>2, <3>3, <3>4, <4>1
    <3>5. CASE j # k
      <4>1. Q[j] = P[j]
        BY <2>2, <3>5
      <4>2. j \in 0 .. k - 1
        BY <3>5
      <4> HIDE DEF Q
      <4>3. P[j] = EntStep(s, P[j - 1])
        BY <2>2, <3>2, <4>2
      <4> QED BY <2>2, <3>3, <4>1, <4>3
    <3> QED BY <3>4, <3>5
  <2> QED BY <2>1, <2>2
<1>2. Q = [j \in 0 .. k |-> Q[j]]
  OBVIOUS
<1> HIDE DEF Q
<1>3. Turns(s, k, Q)
  BY <1>1, <1>2, Zenon DEF Turns
<1> QED BY <1>3, Zenon

\* so for any number.
LEMMA TurnsExist == ASSUME NEW s, NEW n \in Nat PROVE \E T : Turns(s, n, T)
<1> DEFINE S == {k \in Nat : ~ \E T : Turns(s, k, T)}
<1>1. S = {}
  <2> SUFFICES ASSUME S # {} PROVE FALSE
    OBVIOUS
  <2>1. S \in SUBSET Nat
    OBVIOUS
  <2> HIDE DEF S
  <2>2. PICK k \in S : \A m \in S : k <= m
    BY <2>1, Least
  <2>3. k \in Nat /\ ~ \E T : Turns(s, k, T)
    BY <2>2 DEF S
  <2>4. CASE k = 0
    BY <2>3, <2>4, TurnsMore
  <2>5. CASE k # 0
    <3>1. k - 1 \in Nat /\ k - 1 < k
      BY <2>3, <2>5
    <3>2. k - 1 \notin S
      BY <2>2, <2>3, <3>1
    <3>3. PICK T : Turns(s, k - 1, T)
      BY <3>1, <3>2 DEF S
    <3> QED BY <2>3, <3>3, TurnsMore
  <2> QED BY <2>4, <2>5
<1> QED BY <1>1

\* After every turn the output is inside the buffer.
LEMMA TurnsHold ==
    ASSUME NEW s \in Seq(Byte), NEW n \in Nat, NEW T, Turns(s, n, T) PROVE Held(T[n])
<1>1. ASSUME NEW j \in 0 .. n PROVE T[j] = IF j = 0 THEN EntStart(s) ELSE EntStep(s, T[j - 1])
  BY DEF Turns
<1> DEFINE S == {k \in 0 .. n : ~ Held(T[k])}
<1>2. S = {}
  <2> SUFFICES ASSUME S # {} PROVE FALSE
    OBVIOUS
  <2>1. S \in SUBSET Nat
    OBVIOUS
  <2> HIDE DEF S
  <2>2. PICK k \in S : \A m \in S : k <= m
    BY <2>1, Least
  <2>3. k \in 0 .. n /\ ~ Held(T[k])
    BY <2>2 DEF S
  <2>4. CASE k = 0
    BY <1>1, <2>3, <2>4, StartHolds
  <2>5. CASE k # 0
    <3>1. k - 1 \in 0 .. n /\ k - 1 < k
      BY <2>3, <2>5
    <3>2. k - 1 \notin S
      BY <2>1, <2>2, <2>3, <3>1
    <3>3. Held(T[k - 1])
      BY <3>1, <3>2 DEF S
    <3>4. Held(EntStep(s, T[k - 1]))
      BY <3>3, TurnHolds
    <3> QED BY <1>1, <2>3, <2>5, <3>4
  <2> QED BY <2>4, <2>5
<1> QED BY <1>2

\* What the parser returns is that of its last turn, but for the error.
LEMMA ParserHolds == ASSUME NEW s \in Seq(Byte) PROVE Held(EntParser(s))
<1>1. PICK n \in Nat : n = Len(s)
  OBVIOUS
<1>2. PICK T : T = CHOOSE P : Turns(s, Len(s), P)
  OBVIOUS
<1>3. Turns(s, n, T)
  BY <1>1, <1>2, TurnsExist, Zenon
<1>4. Held(T[n])
  BY <1>3, TurnsHold
<1>5. EntParser(s) = IF T[n].err = Ok /\ T[n].in_entity THEN [T[n] EXCEPT !.err = OpenEntity]
                     ELSE T[n]
  <2>1. EntParser(s) = LET P == CHOOSE Q : Turns(s, Len(s), Q)
                           st == P[Len(s)]
                       IN  IF st.err = Ok /\ st.in_entity
                           THEN [st EXCEPT !.err = OpenEntity] ELSE st
    BY Zenon DEF EntParser, Turns
  <2> QED BY <1>1, <1>2, <2>1, Zenon
<1>6. Held([T[n] EXCEPT !.err = OpenEntity])
  <2>1. PICK st : st = T[n]
    OBVIOUS
  <2>2. PICK err \in Errors : err = OpenEntity
    BY DEF Errors
  <2>3. Held([st EXCEPT !.err = err])
    BY <1>4, <2>1, HeldFailed
  <2> QED BY <2>1, <2>2, <2>3, Zenon
<1> QED BY <1>4, <1>5, <1>6, Zenon

\* That is OutputFits, of any text.
LEMMA OutputFitsAll == ASSUME NEW w \in Seq(Byte) PROVE OutputFits(w)
<1> SUFFICES ASSUME NEW k \in 0 .. Len(w)
             PROVE  Len(EntParser(SubSeq(w, 1, k)).out) <= EntParser(SubSeq(w, 1, k)).cap
  BY Zenon DEF OutputFits
<1>1. PICK s \in Seq(Byte) : s = SubSeq(w, 1, k)
  BY SubSeqIs
<1>2. Held(EntParser(s))
  BY ParserHolds
<1> QED BY <1>1, <1>2, Zenon DEF Held

-----------------------------------------------------------------------------
(* The request parser and the entity parser on what the runs give them *)

\* The words are made of bytes.
WordInv == word \in Seq(Byte) /\ alphabet \in DOMAIN Alphabet \cup {"none"}

\* The tokens that words are made of.
LEMMA TokensAreBytes ==
    ASSUME NEW a \in DOMAIN Alphabet, NEW token \in Alphabet[a] PROVE token \in Seq(Byte)
<1>1. /\ x \in Byte /\ X \in Byte /\ EQ \in Byte /\ AMP \in Byte /\ SEMI \in Byte /\ PCT \in Byte
      /\ PLUS \in Byte /\ SP \in Byte /\ NUL \in Byte /\ COLON \in Byte /\ CR \in Byte
      /\ LF \in Byte /\ COMMA \in Byte /\ RPAR \in Byte /\ SLASH \in Byte /\ DOT \in Byte
      /\ QUOTE \in Byte /\ LT \in Byte /\ BACKSLASH \in Byte
  BY DEF x, X, EQ, AMP, SEMI, PCT, PLUS, SP, NUL, COLON, CR, LF, COMMA, RPAR, SLASH, DOT, QUOTE, LT,
         BACKSLASH, Byte
<1>2. 52 \in Byte /\ 49 \in Byte /\ 200 \in Byte /\ 105 \in Byte /\ 126 \in Byte /\ 48 \in Byte
  BY DEF Byte
<1>3. \A c \in Byte : <<c>> \in Seq(Byte)
  OBVIOUS
<1>4. \A b, c \in Byte : <<b, c>> \in Seq(Byte)
  OBVIOUS
<1>5. \A b, c, d \in Byte : <<b, c, d>> \in Seq(Byte)
  OBVIOUS
<1>6. CASE a = "query"
  <2>1. token \in {<<x>>, <<EQ>>, <<AMP>>, <<SEMI>>, <<PCT, 52, 49>>}
    BY <1>6 DEF Alphabet
  <2>2. <<x>> \in Seq(Byte) /\ <<EQ>> \in Seq(Byte) /\ <<AMP>> \in Seq(Byte)
    BY <1>1, <1>3, Zenon
  <2>3. <<SEMI>> \in Seq(Byte) /\ <<PCT, 52, 49>> \in Seq(Byte)
    BY <1>1, <1>2, <1>3, <1>5, Zenon
  <2> QED BY <2>1, <2>2, <2>3, Zenon
<1>7. CASE a = "code"
  <2>1. token \in {<<x>>, <<PCT>>, <<PLUS>>, <<EQ>>, <<SP>>, <<200>>, <<NUL>>}
    BY <1>7 DEF Alphabet
  <2>2. <<x>> \in Seq(Byte) /\ <<PCT>> \in Seq(Byte) /\ <<PLUS>> \in Seq(Byte)
    BY <1>1, <1>3, Zenon
  <2>3. <<EQ>> \in Seq(Byte) /\ <<SP>> \in Seq(Byte) /\ <<200>> \in Seq(Byte)
        /\ <<NUL>> \in Seq(Byte)
    BY <1>1, <1>2, <1>3, Zenon
  <2> QED BY <2>1, <2>2, <2>3, Zenon
<1>8. CASE a = "block"
  <2>1. token \in {<<x>>, <<X>>, <<COLON>>, <<SP>>, <<CR, LF>>}
    BY <1>8 DEF Alphabet
  <2> QED BY <1>1, <1>3, <1>4, <2>1, Zenon
<1>9. CASE a = "prestate"
  <2>1. token \in {<<x>>, <<105>>, <<COMMA>>, <<RPAR>>, <<SLASH>>}
    BY <1>9 DEF Alphabet
  <2> QED BY <1>1, <1>2, <1>3, <2>1, Zenon
<1>10. CASE a = "address"
  <2>1. token \in {<<x>>, <<SP>>}
    BY <1>10 DEF Alphabet
  <2> QED BY <1>1, <1>3, <2>1, Zenon
<1>11. CASE a = "file"
  <2>1. token \in {<<x>>, <<DOT>>, <<126>>}
    BY <1>11 DEF Alphabet
  <2> QED BY <1>1, <1>2, <1>3, <2>1, Zenon
<1>12. CASE a = "entity"
  <2>1. token \in {<<x>>, <<AMP>>, <<SEMI>>, <<DOT>>}
    BY <1>12 DEF Alphabet
  <2> QED BY <1>1, <1>3, <2>1, Zenon
<1>13. CASE a = "markup"
  <2>1. token \in {<<x>>, <<QUOTE>>, <<LT>>, <<AMP>>, <<SLASH>>, <<BACKSLASH>>, <<48>>}
    BY <1>13 DEF Alphabet
  <2> QED BY <1>1, <1>2, <1>3, <2>1, Zenon
<1>14. DOMAIN Alphabet =
         {"query", "code", "block", "prestate", "address", "file", "entity", "markup"}
  BY DEF Alphabet
<1> QED BY <1>6, <1>7, <1>8, <1>9, <1>10, <1>11, <1>12, <1>13, <1>14

TextInv == EndInv /\ RoomInv /\ WordInv

\* The invariant of the run, at its start
LEMMA TextInit == ASSUME MCInit PROVE TextInv
<1>1. CASE alphabet = "none"
  BY <1>1, EndInit DEF MCInit, TextInv, WordInv
<1>2. CASE alphabet # "none"
  BY <1>2, EndInit DEF MCInit, TextInv, WordInv
<1> QED BY <1>1, <1>2

\* and after each of its steps.
LEMMA TextNext == ASSUME TextInv, [MCNext]_<<vars, alphabet, word>> PROVE TextInv'
<1>1. CASE Extend
  <2>1. EndInv' /\ RoomInv'
    BY <1>1, EndNext DEF TextInv, Extend
  <2>2. PICK token \in Alphabet[alphabet] : word' = word \o token
    BY <1>1 DEF Extend
  <2>3. alphabet \in DOMAIN Alphabet /\ alphabet' = alphabet /\ word \in Seq(Byte)
    BY <1>1 DEF Extend, Words, TextInv, WordInv
  <2>4. token \in Seq(Byte)
    BY <2>3, TokensAreBytes
  <2>5. word' \in Seq(Byte)
    BY <2>2, <2>3, <2>4, CatIn
  <2> QED BY <2>1, <2>3, <2>5 DEF TextInv, WordInv
<1>2. CASE Next /\ UNCHANGED <<alphabet, word>>
  BY <1>2, EndNext DEF TextInv, WordInv
<1>3. CASE UNCHANGED <<vars, alphabet, word>>
  BY <1>3, EndNext DEF TextInv, WordInv
<1> QED BY <1>1, <1>2, <1>3 DEF MCNext

\* The two buffers that are filled by a rule of their own are never overrun: that
\* of f_buf_append() has room for the NUL behind the last byte, whatever pieces
\* come, and that of ent_parser() is as long as what was written, whatever the
\* text and whatever the scopes answer, unless the text has overrun the array
\* entfullname before.
THEOREM BuffersHoldTheorem == MCSpec => []BuffersHold
<1>1. MCInit => TextInv
  BY TextInit
<1>2. TextInv /\ [MCNext]_<<vars, alphabet, word>> => TextInv'
  BY TextNext
<1>3. TextInv => BuffersHold
  BY EndOK, OutputFitsAll DEF TextInv, WordInv, BuffersHold
<1> QED BY <1>1, <1>2, <1>3, PTL DEF MCSpec

-----------------------------------------------------------------------------
(* Addresses, extensions, encoders: any text *)

\* get_address() and get_port() divide an address with a port at the same
\* place, however long it is.
THEOREM AddressTheorem == ASSUME NEW w \in Seq(Byte) PROVE AddressAndPort(w)
<1> SUFFICES ASSUME NEW i \in DOMAIN w, w[i] = SP, Len(w) - i \in 1 .. 5, Len(w) >= 7,
                    \A j \in DOMAIN w : w[j] \in {SP, NUL} => j = i
             PROVE  GetAddress(w) \o <<SP>> \o GetPort(w) = w
  BY Zenon DEF AddressAndPort
<1>1. PICK n \in Nat : n = Len(w)
  OBVIOUS
<1>2. i \in 1 .. n /\ DOMAIN w = 1 .. n /\ n - i \in 1 .. 5 /\ n >= 7
  BY <1>1
<1>3. {j \in AddressWindow(n) : n >= 7 /\ w[j] \in {NUL, SP}} = {i}
  <2>1. \A j \in AddressWindow(n) : j \in DOMAIN w
    BY <1>2 DEF AddressWindow
  <2>2. i \in AddressWindow(n)
    BY <1>2 DEF AddressWindow
  <2> QED BY <1>2, <2>1, <2>2
<1>4. {j \in DOMAIN w : w[j] = SP} = {i}
  OBVIOUS
<1>5. Min({i}) = i /\ Max({i}) = i
  BY <1>2, MinIs, GreatestIs
<1>6. GetAddress(w) = SubSeq(w, 1, i - 1)
  <2>1. GetAddress(w) = LET at == {j \in AddressWindow(Len(w)) : Len(w) >= 7 /\ w[j] \in {NUL, SP}}
                        IN  IF at = {} THEN Unknown ELSE SubSeq(w, 1, Min(at) - 1)
    BY Zenon DEF GetAddress
  <2> QED BY <1>1, <1>3, <1>5, <2>1
<1>7. GetPort(w) = SubSeq(w, i + 1, Len(w))
  <2>1. ~ (Len(w) < 7)
    BY <1>1, <1>2
  <2>2. GetPort(w) = LET at == {j \in DOMAIN w : w[j] = SP}
                     IN  IF Len(w) < 7 \/ at = {} THEN <<48>> ELSE SubSeq(w, Max(at) + 1, Len(w))
    BY Zenon DEF GetPort
  <2> QED BY <1>4, <1>5, <2>1, <2>2
<1>8. SubSeq(w, 1, i - 1) \o <<w[i]>> \o SubSeq(w, i + 1, Len(w)) = w
  <2>1. i \in 1 .. Len(w)
    BY <1>1, <1>2, Zenon
  <2> QED BY <2>1, AroundIs, Zenon
<1> QED BY <1>6, <1>7, <1>8, Zenon

\* A backup copy of any file has the extension of the file, and no extension
\* has a dot.
THEOREM ExtensionTheorem == ASSUME NEW w \in Seq(Byte) PROVE BackupHasExtension(w)
<1> DEFINE Dots(s) == {i \in DOMAIN s : s[i] = DOT}
<1>1. ASSUME NEW s \in Seq(Byte), Dots(s) # {}
      PROVE  \E d \in Dots(s), l \in Nat :
               /\ Max(Dots(s)) = d /\ \A i \in Dots(s) : i <= d
               /\ d + l = IF s[Len(s)] \in BackupMark THEN Len(s) - 1 ELSE Len(s)
               /\ Extension(s) = SubSeq(s, d + 1, d + l)
  <2>1. PICK n \in Nat : n = Len(s)
    OBVIOUS
  <2>2. Dots(s) \in SUBSET (1 .. n)
    BY <2>1
  <2>3. PICK d \in Dots(s) : (\A i \in Dots(s) : i <= d) /\ Max(Dots(s)) = d
    <3> HIDE DEF Dots
    <3> QED BY <1>1, <2>2, LastPlace
  <2>4. PICK l : l = (IF s[n] \in BackupMark THEN n - 1 ELSE n) - d
    OBVIOUS
  <2>5. d \in 1 .. n /\ s[d] = DOT
    BY <2>1
  <2>6. l \in Nat /\ d + l = IF s[n] \in BackupMark THEN n - 1 ELSE n
    <3>1. s[n] \in BackupMark => d # n
      BY <2>5 DEF BackupMark, DOT
    <3> QED BY <2>4, <2>5, <3>1
  <2>7. Extension(s) = LET at == {i \in DOMAIN s : s[i] = DOT}
                           dot == Max(at)
                       IN  IF at = {} THEN <<>>
                           ELSE SubSeq(s, dot + 1,
                                       IF s[Len(s)] \in BackupMark THEN Len(s) - 1 ELSE Len(s))
    BY Zenon DEF Extension
  <2>8. Extension(s) = SubSeq(s, d + 1, d + l)
    BY <1>1, <2>1, <2>3, <2>6, <2>7, Zenon
  <2> QED BY <2>1, <2>3, <2>6, <2>8, Zenon
<1>2. ASSUME w # <<>>, w[Len(w)] \notin BackupMark, NEW b \in BackupMark
      PROVE  Extension(Append(w, b)) = Extension(w)
  <2>1. PICK v \in Seq(Byte), n \in Nat :
          /\ v = Append(w, b) /\ n = Len(w) /\ Len(v) = n + 1 /\ v[n + 1] = b
          /\ DOMAIN w = 1 .. n /\ DOMAIN v = 1 .. n + 1
          /\ \A i \in 1 .. n : v[i] = w[i]
    <3>1. b \in Byte
      BY DEF BackupMark, Byte
    <3>2. /\ Append(w, b) \in Seq(Byte) /\ Len(w) \in Nat
          /\ Len(Append(w, b)) = Len(w) + 1
          /\ DOMAIN w = 1 .. Len(w) /\ DOMAIN Append(w, b) = 1 .. Len(w) + 1
          /\ \A i \in 1 .. Len(w) : Append(w, b)[i] = w[i]
          /\ Append(w, b)[Len(w) + 1] = b
      BY <3>1, AppendIs, ZenonT(40)
    <3> QED BY <3>2, Zenon
  <2> HIDE <2>1
  <2>2. /\ n = Len(w) /\ Len(v) = n + 1 /\ v[n + 1] = b
        /\ DOMAIN w = 1 .. n /\ DOMAIN v = 1 .. n + 1
        /\ \A i \in 1 .. n : v[i] = w[i]
    BY <2>1, Zenon
  <2>3. Dots(v) = Dots(w)
    <3>1. v[n + 1] # DOT
      BY <2>2 DEF BackupMark, DOT
    <3> QED BY <2>2, <3>1
  <2>4. CASE Dots(w) = {}
    <3>1. Extension(v) = <<>> /\ Extension(w) = <<>>
      BY <2>3, <2>4, Zenon DEF Extension
    <3> QED BY <2>1, <3>1, Zenon
  <2>5. CASE Dots(w) # {}
    <3>1. PICK d \in Dots(w), l \in Nat :
            Max(Dots(w)) = d /\ d + l = n /\ Extension(w) = SubSeq(w, d + 1, d + l)
      BY <1>1, <1>2, <2>2, <2>5, Zenon
    <3>2. PICK e \in Dots(v), k \in Nat :
            /\ Max(Dots(v)) = e /\ e + k = (n + 1) - 1
            /\ Extension(v) = SubSeq(v, e + 1, e + k)
      <4>1. v[Len(v)] \in BackupMark /\ Len(v) = n + 1
        BY <2>2, Zenon
      <4> QED BY <1>1, <2>3, <2>5, <4>1, Zenon
    <3>3. e = d /\ d \in Nat
      <4>1. d \in DOMAIN w /\ e = d
        BY <2>3, <3>1, <3>2, Zenon
      <4> QED BY <2>2, <4>1
    <3>4. k = l
      BY <3>1, <3>2, <3>3
    <3>5. d + l <= Len(w) /\ d + l <= Len(v)
      BY <2>2, <3>1, <3>3
    <3>6. /\ SubSeq(w, d + 1, d + l) \in Seq(Byte) /\ Len(SubSeq(w, d + 1, d + l)) = l
          /\ \A j \in 1 .. l : SubSeq(w, d + 1, d + l)[j] = w[d + j]
      BY <3>3, <3>5, PartIs
    <3>7. /\ SubSeq(v, d + 1, d + l) \in Seq(Byte) /\ Len(SubSeq(v, d + 1, d + l)) = l
          /\ \A j \in 1 .. l : SubSeq(v, d + 1, d + l)[j] = v[d + j]
      BY <3>3, <3>5, PartIs
    <3>8. \A j \in 1 .. l : w[d + j] = v[d + j]
      <4>1. \A j \in 1 .. l : d + j \in 1 .. n
        BY <3>1, <3>3
      <4> QED BY <2>2, <4>1, Zenon
    <3>9. SubSeq(v, d + 1, d + l) = SubSeq(w, d + 1, d + l)
      <4>1. PICK head \in Seq(Byte), y \in Seq(Byte) :
              head = SubSeq(v, d + 1, d + l) /\ y = SubSeq(w, d + 1, d + l)
        BY <3>6, <3>7, Zenon
      <4>2. Len(head) = l /\ Len(y) = l /\ \A j \in 1 .. l : head[j] = y[j]
        BY <3>6, <3>7, <3>8, <4>1, Zenon
      <4>3. head = y
        <5> HIDE <4>1
        <5> QED BY <4>2, SeqEq
      <4> QED BY <4>1, <4>3, Zenon
    <3> QED BY <2>1, <3>1, <3>2, <3>3, <3>4, <3>9, Zenon
  <2> QED BY <2>4, <2>5
<1>3. DOT \notin Bytes(Extension(w))
  <2>1. CASE Dots(w) = {}
    <3>1. Extension(w) = <<>>
      BY <2>1, Zenon DEF Extension
    <3>2. Bytes(<<>>) = {}
      BY DEF Bytes
    <3> QED BY <3>1, <3>2, Zenon
  <2>2. CASE Dots(w) # {}
    <3>1. PICK d \in Dots(w), l \in Nat :
            /\ \A i \in Dots(w) : i <= d
            /\ d + l = IF w[Len(w)] \in BackupMark THEN Len(w) - 1 ELSE Len(w)
            /\ Extension(w) = SubSeq(w, d + 1, d + l)
      BY <1>1, <2>2, Zenon
    <3>2. PICK n \in Nat : n = Len(w) /\ DOMAIN w = 1 .. n
      OBVIOUS
    <3>3. d \in Nat /\ d + l <= n /\ d > 0
      BY <3>1, <3>2
    <3>4. /\ SubSeq(w, d + 1, d + l) \in Seq(Byte) /\ Len(SubSeq(w, d + 1, d + l)) = l
          /\ \A j \in 1 .. l : SubSeq(w, d + 1, d + l)[j] = w[d + j]
      BY <3>2, <3>3, PartIs
    <3>5. \A j \in 1 .. l : w[d + j] # DOT
      <4>1. \A j \in 1 .. l : d + j \in 1 .. n /\ ~ (d + j <= d)
        BY <3>3
      <4>2. \A i \in 1 .. n : w[i] = DOT => i <= d
        BY <3>1, <3>2, Zenon
      <4> QED BY <4>1, <4>2, Zenon
    <3>6. PICK head \in Seq(Byte) : /\ head = Extension(w) /\ Len(head) = l
                                    /\ \A j \in 1 .. l : head[j] = w[d + j]
      BY <3>1, <3>4, Zenon
    <3>7. DOMAIN head = 1 .. l
      BY <3>6
    <3> QED BY <3>5, <3>6, <3>7, Zenon DEF Bytes
  <2> QED BY <2>1, <2>2
<1> QED BY <1>2, <1>3, Zenon DEF BackupHasExtension

-----------------------------------------------------------------------------
(* Encoding and decoding *)

\* Codes laid one after another: pos[k] bytes of e are the first k of them.
Laid(e, codes, n, pos) ==
    /\ pos \in [0 .. n -> Nat] /\ pos[0] = 0 /\ pos[n] = Len(e)
    /\ \A k \in 0 .. n - 1 :
          /\ Len(codes[k + 1]) \in Nat
          /\ pos[k + 1] = pos[k] + Len(codes[k + 1]) /\ pos[k + 1] <= Len(e)
          /\ \A j \in 1 .. Len(codes[k + 1]) : e[pos[k] + j] = codes[k + 1][j]

\* One more.
LEMMA LaidMore ==
    ASSUME NEW e \in Seq(Byte), NEW codes, NEW n \in Nat, NEW pos, Laid(e, codes, n, pos),
           NEW code \in Seq(Byte), code = codes[n + 1]
    PROVE  Cat(e, code) \in Seq(Byte) /\ \E more : Laid(Cat(e, code), codes, n + 1, more)
<1>1. PICK l \in Nat, z \in Nat : l = Len(e) /\ z = Len(code)
  OBVIOUS
<1>2. PICK f \in Seq(Byte) : /\ f = Cat(e, code) /\ Len(f) = l + z
                             /\ \A j \in 1 .. l : f[j] = e[j]
                             /\ \A j \in 1 .. z : f[l + j] = code[j]
  <2>1. Len(e) = l /\ Len(code) = z
    BY <1>1, Zenon
  <2> HIDE <1>1
  <2>2. /\ Cat(e, code) \in Seq(Byte) /\ Len(Cat(e, code)) = l + z
        /\ \A j \in 1 .. l : Cat(e, code)[j] = e[j]
        /\ \A j \in 1 .. z : Cat(e, code)[l + j] = code[j]
    BY <2>1, CatAt
  <2> QED BY <2>2, Zenon
<1>3. /\ pos \in [0 .. n -> Nat] /\ pos[0] = 0 /\ pos[n] = l
      /\ \A k \in 0 .. n - 1 :
            /\ Len(codes[k + 1]) \in Nat
            /\ pos[k + 1] = pos[k] + Len(codes[k + 1]) /\ pos[k + 1] <= l
            /\ \A j \in 1 .. Len(codes[k + 1]) : e[pos[k] + j] = codes[k + 1][j]
  BY <1>1, Zenon DEF Laid
<1>4. PICK more : more = [i \in 0 .. n + 1 |-> IF i = n + 1 THEN l + z ELSE pos[i]]
  OBVIOUS
<1>5. /\ more \in [0 .. n + 1 -> Nat] /\ more[n + 1] = l + z
      /\ \A i \in 0 .. n : more[i] = pos[i]
  <2>1. \A i \in 0 .. n + 1 : i # n + 1 => i \in 0 .. n
    OBVIOUS
  <2>2. \A i \in 0 .. n : i # n + 1 /\ i \in 0 .. n + 1
    OBVIOUS
  <2> QED BY <1>3, <1>4, <2>1, <2>2
<1>6. ASSUME NEW k \in 0 .. (n + 1) - 1
      PROVE  /\ Len(codes[k + 1]) \in Nat
             /\ more[k + 1] = more[k] + Len(codes[k + 1]) /\ more[k + 1] <= l + z
             /\ \A j \in 1 .. Len(codes[k + 1]) : f[more[k] + j] = codes[k + 1][j]
  <2>1. CASE k = n
    <3>1. more[k] = l /\ more[k + 1] = l + z
      <4>1. n \in 0 .. n
        OBVIOUS
      <4> QED BY <1>3, <1>5, <2>1, <4>1, Zenon
    <3>2. Len(codes[k + 1]) = z /\ codes[k + 1] = code
      BY <1>1, <2>1, Zenon
    <3>3. l + z <= l + z
      OBVIOUS
    <3> QED BY <1>2, <3>1, <3>2, <3>3, Zenon
  <2>2. CASE k # n
    <3>1. k \in 0 .. n - 1 /\ k \in 0 .. n /\ k + 1 \in 0 .. n
      BY <2>2
    <3>2. PICK c, y : c = codes[k + 1] /\ y = Len(c)
      OBVIOUS
    <3>3. /\ y \in Nat /\ pos[k + 1] = pos[k] + y /\ pos[k + 1] <= l
          /\ \A j \in 1 .. y : e[pos[k] + j] = c[j]
      BY <1>3, <3>1, <3>2, Zenon
    <3>4. more[k] = pos[k] /\ more[k + 1] = pos[k + 1]
      BY <1>5, <3>1, Zenon
    <3>5. PICK a \in Nat, b \in Nat : a = pos[k] /\ b = pos[k + 1]
      BY <1>3, <3>1
    <3>6. y \in Nat /\ b = a + y /\ b <= l /\ \A j \in 1 .. y : e[a + j] = c[j]
      BY <3>3, <3>5, Zenon
    <3>7. \A j \in 1 .. y : f[a + j] = c[j]
      <4>1. \A j \in 1 .. y : a + j \in 1 .. l
        <5>1. PICK y1 \in Nat : y1 = y
          BY <3>6
        <5>2. b = a + y1 /\ b <= l
          BY <3>6, <5>1, Zenon
        <5>3. \A j \in 1 .. y1 : a + j \in 1 .. l
          BY <5>2
        <5> QED BY <5>1, <5>3, Zenon
      <4> QED BY <1>2, <3>6, <4>1, Zenon
    <3>8. b <= l + z
      BY <3>6
    <3> QED BY <3>2, <3>4, <3>5, <3>6, <3>7, <3>8, Zenon
  <2> QED BY <2>1, <2>2
<1>7. more[0] = 0
  <2>1. 0 \in 0 .. n
    OBVIOUS
  <2> QED BY <1>3, <1>5, <2>1, Zenon
<1>8. Laid(f, codes, n + 1, more)
  BY <1>2, <1>5, <1>6, <1>7, Zenon DEF Laid
<1> QED BY <1>2, <1>8, Zenon

\* Join, as a choice of the pieces put together so far,
Chaining(parts, sep, J) ==
    J = [k \in 0 .. Len(parts) |->
            IF k = 0 THEN <<>> ELSE J[k - 1] \o (IF k = 1 THEN <<>> ELSE sep) \o parts[k]]
LEMMA JoinIs ==
    ASSUME NEW parts, NEW sep
    PROVE  Join(parts, sep) = (CHOOSE J : Chaining(parts, sep, J))[Len(parts)]
BY DEF Join, Chaining

\* of which there is one.
LEMMA ChainingExists ==
    ASSUME NEW parts \in Seq(Seq(Byte)), NEW sep \in Seq(Byte)
    PROVE  \E J : Chaining(parts, sep, J)
<1>1. PICK n \in Nat : n = Len(parts) /\ DOMAIN parts = 1 .. n
  OBVIOUS
<1> DEFINE I == 0 .. n
           V == Seq(Byte)
           Longer(f, k) ==
               IF k = 0 THEN <<>> ELSE f[k - 1] \o (IF k = 1 THEN <<>> ELSE sep) \o parts[k]
<1>2. PICK Rule : Rule = [k \in I |-> [f \in [I -> V] |-> Longer(f, k)]]
  OBVIOUS
<1>3. ASSUME NEW k \in I, NEW f \in [I -> V] PROVE Longer(f, k) \in V
  <2>1. CASE k = 0
    BY <2>1
  <2>2. CASE k # 0
    <3>1. k - 1 \in I /\ k \in 1 .. n
      BY <2>2
    <3>2. f[k - 1] \in V /\ parts[k] \in V
      BY <1>1, <3>1, SMTT(30)
    <3>3. PICK head \in Seq(Byte), y \in Seq(Byte), z \in Seq(Byte) :
            head = f[k - 1] /\ y = (IF k = 1 THEN <<>> ELSE sep) /\ z = parts[k]
      <4>1. (IF k = 1 THEN <<>> ELSE sep) \in Seq(Byte)
        OBVIOUS
      <4> QED BY <3>2, <4>1, Zenon
    <3>4. head \o y \o z \in Seq(Byte)
      BY CatIn
    <3> QED BY <2>2, <3>3, <3>4, Zenon
  <2> QED BY <2>1, <2>2
<1>4. Rule \in [I -> [[I -> V] -> V]]
  <2> HIDE DEF Longer, I, V
  <2> QED BY <1>2, <1>3
<1>5. PICK rank : rank = [k \in I |-> k]
  OBVIOUS
<1>6. rank \in [I -> 0 .. n] /\ \A k \in I : rank[k] = k
  BY <1>5
<1>7. \A k \in I, f \in [I -> V] : Rule[k][f] = Longer(f, k)
  <2> HIDE DEF Longer, I, V
  <2> QED BY <1>2
<1>8. Follows(Rule, I, V, rank)
  <2> SUFFICES ASSUME NEW k \in I, NEW f \in [I -> V], NEW g \in [I -> V],
                      \A q \in I : rank[q] < rank[k] => f[q] = g[q]
               PROVE  Rule[k][f] = Rule[k][g]
    BY Zenon DEF Follows
  <2> SUFFICES Longer(f, k) = Longer(g, k)
    <3> HIDE DEF Longer, I, V
    <3> QED BY <1>7, Zenon
  <2>1. CASE k = 0
    BY <2>1
  <2>2. CASE k # 0
    <3>1. k - 1 \in I /\ rank[k - 1] < rank[k]
      BY <1>6, <2>2
    <3>2. f[k - 1] = g[k - 1]
      BY <3>1, Zenon
    <3> QED BY <2>2, <3>2, Zenon
  <2> QED BY <2>1, <2>2
<1>9. PICK D : D \in [I -> V] /\ \A k \in I : D[k] = Rule[k][D]
  <2>1. V # {} /\ n \in Nat /\ rank \in [I -> 0 .. n]
    BY <1>6
  <2>2. Ranked(Rule, I, V, rank, n)
    BY <1>4, <1>8, <2>1, Zenon DEF Ranked
  <2> HIDE DEF Longer, I, V
  <2>3. PICK D : Recursive(D, Rule, I, V)
    BY <2>2, RecursionIs
  <2> QED BY <2>3, Zenon DEF Recursive
<1>10. D = [k \in I |-> Longer(D, k)]
  <2>1. \A k \in I : D[k] = Longer(D, k)
    BY <1>7, <1>9, Zenon
  <2> HIDE DEF Longer, I, V
  <2> QED BY <1>9, <2>1
<1> QED BY <1>1, <1>10, Zenon DEF Chaining

\* What Join makes of codes without a separator has each of them at its place.
HasPlaces(e, codes, n) == e \in Seq(Byte) /\ \E pos : Laid(e, codes, n, pos)
LEMMA JoinLaid ==
    ASSUME NEW codes \in Seq(Seq(Byte)) PROVE HasPlaces(Join(codes, <<>>), codes, Len(codes))
<1>1. PICK n \in Nat : n = Len(codes) /\ DOMAIN codes = 1 .. n
  OBVIOUS
<1>2. PICK J : J = CHOOSE K : Chaining(codes, <<>>, K)
  OBVIOUS
<1>3. Chaining(codes, <<>>, J)
  <2>1. <<>> \in Seq(Byte)
    OBVIOUS
  <2> QED BY <1>2, <2>1, ChainingExists
<1>4. ASSUME NEW k \in 0 .. n
      PROVE  J[k] = IF k = 0 THEN <<>> ELSE J[k - 1] \o (IF k = 1 THEN <<>> ELSE <<>>) \o codes[k]
  BY <1>1, <1>3 DEF Chaining
<1>5. \A head \in Seq(Byte) : head \o <<>> = head
  OBVIOUS
<1>6. ASSUME NEW k \in 0 .. n, k # 0, J[k - 1] \in Seq(Byte)
      PROVE  J[k] = Cat(J[k - 1], codes[k])
  <2>1. J[k] = (J[k - 1] \o <<>>) \o codes[k]
    BY <1>4, <1>6
  <2> QED BY <1>5, <1>6, <2>1, Zenon DEF Cat
<1> DEFINE S == {k \in 0 .. n : ~ HasPlaces(J[k], codes, k)}
<1>7. S = {}
  <2> SUFFICES ASSUME S # {} PROVE FALSE
    OBVIOUS
  <2>1. S \in SUBSET Nat
    OBVIOUS
  <2> HIDE DEF S
  <2>2. PICK k \in S : \A m \in S : k <= m
    BY <2>1, Least
  <2>3. k \in 0 .. n /\ ~ HasPlaces(J[k], codes, k)
    BY <2>2 DEF S
  <2>4. CASE k = 0
    <3>1. J[k] = <<>>
      BY <1>4, <2>3, <2>4, Zenon
    <3>2. Laid(<<>>, codes, 0, [i \in 0 .. 0 |-> 0])
      BY DEF Laid
    <3>3. <<>> \in Seq(Byte)
      OBVIOUS
    <3> QED BY <2>3, <2>4, <3>1, <3>2, <3>3, Zenon DEF HasPlaces
  <2>5. CASE k # 0
    <3>1. PICK j \in Nat : k = j + 1 /\ k - 1 = j /\ j \in 0 .. n /\ k \in 1 .. n /\ j < k
      <4>1. k - 1 \in Nat /\ k = (k - 1) + 1 /\ k - 1 \in 0 .. n /\ k \in 1 .. n /\ k - 1 < k
        BY <2>3, <2>5
      <4> QED BY <4>1, Zenon
    <3>2. j \notin S
      BY <2>2, <2>3, <3>1
    <3>3. HasPlaces(J[j], codes, j)
      BY <3>1, <3>2 DEF S
    <3>8. PICK e \in Seq(Byte) : e = J[j] /\ \E pos : Laid(e, codes, j, pos)
      BY <3>3, Zenon DEF HasPlaces
    <3>4. PICK pos : e = J[j] /\ Laid(e, codes, j, pos)
      BY <3>8
    <3>5. PICK code \in Seq(Byte) : code = codes[j + 1]
      BY <1>1, <3>1
    <3>6. J[k] = Cat(e, code)
      BY <1>6, <2>3, <2>5, <3>1, <3>4, <3>5, Zenon
    <3>7. Cat(e, code) \in Seq(Byte) /\ \E more : Laid(Cat(e, code), codes, j + 1, more)
      BY <3>4, <3>5, LaidMore
    <3> QED BY <2>3, <3>1, <3>6, <3>7, Zenon DEF HasPlaces
  <2> QED BY <2>4, <2>5
<1>8. HasPlaces(J[n], codes, n)
  BY <1>7
<1> QED BY <1>1, <1>2, <1>8, JoinIs, Zenon

\* url_decode(), as a choice of what is behind each position,
DecodedFrom(s, simple, D, p) ==
    IF p > Len(s) THEN <<>>
    ELSE IF s[p] = PCT /\ p + 2 <= Len(s) THEN <<Escaped(s, p)>> \o D[p + 3]
    ELSE IF s[p] = PCT /\ simple = 0 THEN <<NUL>>
    ELSE IF s[p] = PLUS /\ simple # 1 THEN <<SP>> \o D[p + 1]
    ELSE <<s[p]>> \o D[p + 1]
DecodesTo(s, simple, D) == D = [p \in 1 .. Len(s) + 3 |-> DecodedFrom(s, simple, D, p)]
LEMMA UrlDecodeIs ==
    ASSUME NEW s, NEW simple
    PROVE  UrlDecode(s, simple) = (CHOOSE D : DecodesTo(s, simple, D))[1]
BY DEF UrlDecode, DecodesTo, DecodedFrom

LEMMA NibbleIs == ASSUME NEW c \in Byte PROVE Nibble(c) \in 0 .. 15
BY DEF Nibble, Byte
LEMMA EscapedIs ==
    ASSUME NEW s \in Seq(Byte), NEW p \in Nat \ {0}, p + 2 <= Len(s) PROVE Escaped(s, p) \in Byte
<1>1. s[p + 1] \in Byte /\ s[p + 2] \in Byte
  OBVIOUS
<1>2. PICK a \in 0 .. 15, b \in 0 .. 15 : a = Nibble(s[p + 1]) /\ b = Nibble(s[p + 2])
  BY <1>1, NibbleIs
<1>3. 16 * a + b \in Byte
  BY DEF Byte
<1> QED BY <1>2, <1>3, Zenon DEF Escaped

\* of which there is one.
LEMMA DecodesExists ==
    ASSUME NEW s \in Seq(Byte), NEW simple PROVE \E D : DecodesTo(s, simple, D)
<1>1. PICK n \in Nat : n = Len(s) /\ DOMAIN s = 1 .. n
  OBVIOUS
<1> DEFINE I == 1 .. n + 3
           V == Seq(Byte)
<1>2. PICK Rule : Rule = [p \in I |-> [f \in [I -> V] |-> DecodedFrom(s, simple, f, p)]]
  OBVIOUS
<1>3. ASSUME NEW p \in I, NEW f \in [I -> V] PROVE DecodedFrom(s, simple, f, p) \in V
  <2>1. CASE p > n
    BY <1>1, <2>1 DEF DecodedFrom
  <2>2. CASE p <= n
    <3>1. p \in 1 .. n /\ p + 1 \in I /\ p + 3 \in I /\ ~ (p > n) /\ p \in Nat \ {0}
      BY <2>2
    <3>2. PICK head \in Seq(Byte), y \in Seq(Byte), c \in Byte : head = f[p + 1] /\ y = f[p + 3] /\ c = s[p]
      BY <1>1, <3>1, SMTT(30)
    <3>3. p + 2 <= n => Escaped(s, p) \in Byte
      BY <1>1, <3>1, EscapedIs
    <3>4. \A h \in Byte : <<h>> \o head \in Seq(Byte) /\ <<h>> \o y \in Seq(Byte) /\ <<h>> \in Seq(Byte)
      <4> TAKE h \in Byte
      <4>1. <<h>> \in Seq(Byte)
        OBVIOUS
      <4> QED BY <4>1, CatIn
    <3>5. NUL \in Byte /\ SP \in Byte
      BY DEF NUL, SP, Byte
    <3> QED BY <1>1, <3>1, <3>2, <3>3, <3>4, <3>5, Zenon DEF DecodedFrom
  <2> QED BY <2>1, <2>2
<1>4. Rule \in [I -> [[I -> V] -> V]]
  <2> HIDE DEF I, V
  <2> QED BY <1>2, <1>3
<1>5. PICK rank : rank = [p \in I |-> n + 3 - p]
  OBVIOUS
<1>6. rank \in [I -> 0 .. n + 3] /\ \A p \in I : rank[p] = n + 3 - p
  BY <1>5
<1>7. \A p \in I, f \in [I -> V] : Rule[p][f] = DecodedFrom(s, simple, f, p)
  <2> HIDE DEF I, V
  <2> QED BY <1>2
<1>8. Follows(Rule, I, V, rank)
  <2> SUFFICES ASSUME NEW p \in I, NEW f \in [I -> V], NEW g \in [I -> V],
                      \A q \in I : rank[q] < rank[p] => f[q] = g[q]
               PROVE  Rule[p][f] = Rule[p][g]
    BY Zenon DEF Follows
  <2> SUFFICES DecodedFrom(s, simple, f, p) = DecodedFrom(s, simple, g, p)
    <3> HIDE DEF I, V
    <3> QED BY <1>7, Zenon
  <2>1. CASE p > n
    BY <1>1, <2>1 DEF DecodedFrom
  <2>2. CASE p <= n
    <3>1. p + 1 \in I /\ p + 3 \in I /\ rank[p + 1] < rank[p] /\ rank[p + 3] < rank[p]
      BY <1>6, <2>2
    <3>2. f[p + 1] = g[p + 1] /\ f[p + 3] = g[p + 3]
      BY <3>1, Zenon
    <3> QED BY <3>2, Zenon DEF DecodedFrom
  <2> QED BY <2>1, <2>2
<1>9. PICK D : D \in [I -> V] /\ \A p \in I : D[p] = Rule[p][D]
  <2>1. V # {} /\ n + 3 \in Nat /\ rank \in [I -> 0 .. n + 3]
    BY <1>6
  <2>2. Ranked(Rule, I, V, rank, n + 3)
    BY <1>4, <1>8, <2>1, Zenon DEF Ranked
  <2> HIDE DEF I, V
  <2>3. PICK D : Recursive(D, Rule, I, V)
    BY <2>2, RecursionIs
  <2> QED BY <2>3, Zenon DEF Recursive
<1>10. D = [p \in I |-> DecodedFrom(s, simple, D, p)]
  <2>1. \A p \in I : D[p] = DecodedFrom(s, simple, D, p)
    BY <1>7, <1>9, Zenon
  <2> HIDE DEF I, V
  <2> QED BY <1>9, <2>1
<1> QED BY <1>1, <1>10, Zenon DEF DecodesTo

\* The code of a byte, and what is read back from it.
Coded(b, safe) == IF b \in safe THEN <<b>> ELSE <<PCT, HexChar(b \div 16), HexChar(b % 16)>>
LEMMA HexBack ==
    ASSUME NEW b \in Byte
    PROVE  /\ HexChar(b \div 16) \in Byte /\ HexChar(b % 16) \in Byte
           /\ 16 * Nibble(HexChar(b \div 16)) + Nibble(HexChar(b % 16)) = b
<1>1. \A h \in 0 .. 15 : HexChar(h) \in Byte /\ Nibble(HexChar(h)) = h
  <2> TAKE h \in 0 .. 15
  <2>1. CASE h < 10
    BY <2>1 DEF HexChar, Nibble, Byte
  <2>2. CASE h >= 10
    BY <2>2 DEF HexChar, Nibble, Byte
  <2> QED BY <2>1, <2>2
<1>2. b \in 0 .. 255
  BY DEF Byte
<1>3. b \div 16 \in 0 .. 15
  BY <1>2
<1>4. b % 16 \in 0 .. 15
  BY <1>2
<1>5. 16 * (b \div 16) + (b % 16) = b
  BY <1>2
<1> QED BY <1>1, <1>3, <1>4, <1>5, Zenon

LEMMA CodedIs ==
    ASSUME NEW b \in Byte, NEW safe
    PROVE  /\ Coded(b, safe) \in Seq(Byte)
           /\ b \in safe => Len(Coded(b, safe)) = 1 /\ Coded(b, safe)[1] = b
           /\ b \notin safe => /\ Len(Coded(b, safe)) = 3 /\ Coded(b, safe)[1] = PCT
                               /\ Coded(b, safe)[2] = HexChar(b \div 16)
                               /\ Coded(b, safe)[3] = HexChar(b % 16)
<1>1. PICK head \in Byte, y \in Byte, z \in Byte :
        head = PCT /\ y = HexChar(b \div 16) /\ z = HexChar(b % 16)
  <2>1. PCT \in Byte
    BY DEF PCT, Byte
  <2> QED BY <2>1, HexBack
<1>2. <<head, y, z>> \in Seq(Byte) /\ Len(<<head, y, z>>) = 3
  OBVIOUS
<1>3. <<b>> \in Seq(Byte) /\ Len(<<b>>) = 1
  OBVIOUS
<1> QED BY <1>1, <1>2, <1>3 DEF Coded

\* What is laid out of codes is decoded to the bytes they are the codes of.
CodesOf(codes, w, safe) == \A k \in 1 .. Len(w) : codes[k] = Coded(w[k], safe)
LEMMA DecodeLaid ==
    ASSUME NEW w \in Seq(Byte), NEW n \in Nat, n = Len(w), NEW safe, NEW codes,
           CodesOf(codes, w, safe),
           NEW e, HasPlaces(e, codes, n), PCT \notin safe, NEW simple \in {1, 2},
           simple = 1 \/ PLUS \notin safe \/ PLUS \notin Bytes(w)
    PROVE  UrlDecode(e, simple) = w
<1>1. PICK pos : Laid(e, codes, n, pos)
  BY Zenon DEF HasPlaces
<1>2. e \in Seq(Byte)
  BY Zenon DEF HasPlaces
<1>3. PICK D : D = CHOOSE F : DecodesTo(e, simple, F)
  OBVIOUS
<1>4. DecodesTo(e, simple, D)
  BY <1>2, <1>3, DecodesExists
<1>5. PICK m \in Nat : m = Len(e) /\ DOMAIN e = 1 .. m
  BY <1>2
<1>6. \A p \in 1 .. m + 3 : D[p] = DecodedFrom(e, simple, D, p)
  BY <1>4, <1>5 DEF DecodesTo
<1>7. /\ pos \in [0 .. n -> Nat] /\ pos[0] = 0 /\ pos[n] = m
      /\ \A k \in 0 .. n - 1 :
            /\ pos[k + 1] = pos[k] + Len(codes[k + 1]) /\ pos[k + 1] <= m
            /\ \A j \in 1 .. Len(codes[k + 1]) : e[pos[k] + j] = codes[k + 1][j]
  BY <1>1, <1>5, Zenon DEF Laid
<1>8. ASSUME NEW k \in 0 .. n - 1, D[pos[k + 1] + 1] = SubSeq(w, (k + 1) + 1, n)
      PROVE  D[pos[k] + 1] = SubSeq(w, k + 1, n)
  <2>1. k \in Nat /\ k < Len(w) /\ k + 1 \in 1 .. n /\ k \in 0 .. n /\ k + 1 \in 0 .. n
    OBVIOUS
  <2>2. PICK c \in Byte : c = w[k + 1]
    BY <2>1
  <2>3. PICK a \in Nat, b \in Nat : a = pos[k] /\ b = pos[k + 1]
    BY <1>7, <2>1
  <2>4. PICK code : code = Coded(c, safe) /\ code = codes[k + 1]
    BY <2>1, <2>2, Zenon DEF CodesOf
  <2>5. b = a + Len(code) /\ b <= m /\ \A j \in 1 .. Len(code) : e[a + j] = code[j]
    <3>1. /\ pos[k + 1] = pos[k] + Len(codes[k + 1]) /\ pos[k + 1] <= m
          /\ \A j \in 1 .. Len(codes[k + 1]) : e[pos[k] + j] = codes[k + 1][j]
      BY <1>7, Zenon
    <3>2. codes[k + 1] = code
      BY <2>4, Zenon
    <3> QED BY <2>3, <3>1, <3>2, Zenon
  <2>6. <<c>> \o D[b + 1] = SubSeq(w, k + 1, n)
    BY <1>8, <2>1, <2>2, <2>3, ByteThenRest, Zenon
  <2>7. CASE c \in safe
    <3>1. Len(code) = 1 /\ code[1] = c
      <4>1. Len(Coded(c, safe)) = 1 /\ Coded(c, safe)[1] = c
        BY <2>7, CodedIs, Zenon
      <4> QED BY <2>4, <4>1, Zenon
    <3>2. b = a + 1 /\ a + 1 \in 1 .. m + 3 /\ ~ (a + 1 > m) /\ (a + 1) + 1 = b + 1 /\ 1 \in 1 .. 1
      BY <2>5, <3>1
    <3>3. e[a + 1] = c
      BY <2>5, <3>1, <3>2, Zenon
    <3>4. c # PCT
      BY <2>7
    <3>5. ~ (c = PLUS /\ simple # 1)
      <4>1. c \in Bytes(w)
        BY <2>1, <2>2 DEF Bytes
      <4> QED BY <2>7, <4>1
    <3>6. D[a + 1] = DecodedFrom(e, simple, D, a + 1)
      BY <1>6, <3>2, Zenon
    <3>7. D[a + 1] = <<c>> \o D[b + 1]
      BY <1>5, <3>2, <3>3, <3>4, <3>5, <3>6, Zenon DEF DecodedFrom
    <3> QED BY <2>3, <2>6, <3>7, Zenon
  <2>8. CASE c \notin safe
    <3>1. Len(code) = 3 /\ code[1] = PCT /\ code[2] = HexChar(c \div 16) /\ code[3] = HexChar(c % 16)
      <4>1. /\ Len(Coded(c, safe)) = 3 /\ Coded(c, safe)[1] = PCT
            /\ Coded(c, safe)[2] = HexChar(c \div 16) /\ Coded(c, safe)[3] = HexChar(c % 16)
        BY <2>8, CodedIs, Zenon
      <4> QED BY <2>4, <4>1, Zenon
    <3>2. /\ b = a + 3 /\ a + 1 \in 1 .. m + 3 /\ ~ (a + 1 > m) /\ (a + 1) + 3 = b + 1
          /\ (a + 1) + 2 <= m /\ (a + 1) + 1 = a + 2 /\ (a + 1) + 2 = a + 3
          /\ 1 \in 1 .. 3 /\ 2 \in 1 .. 3 /\ 3 \in 1 .. 3
      BY <2>5, <3>1
    <3>3. e[a + 1] = PCT /\ e[a + 2] = HexChar(c \div 16) /\ e[a + 3] = HexChar(c % 16)
      BY <2>5, <3>1, <3>2, Zenon
    <3>4. Escaped(e, a + 1) = c
      BY <3>2, <3>3, HexBack, Zenon DEF Escaped
    <3>5. D[a + 1] = DecodedFrom(e, simple, D, a + 1)
      BY <1>6, <3>2, Zenon
    <3>6. D[a + 1] = <<c>> \o D[b + 1]
      BY <1>5, <3>2, <3>3, <3>4, <3>5, Zenon DEF DecodedFrom
    <3> QED BY <2>3, <2>6, <3>6, Zenon
  <2> QED BY <2>7, <2>8
<1>9. D[pos[n] + 1] = SubSeq(w, n + 1, n)
  <2>1. m + 1 \in 1 .. m + 3 /\ m + 1 > m
    OBVIOUS
  <2>2. D[m + 1] = <<>>
    BY <1>5, <1>6, <2>1, Zenon DEF DecodedFrom
  <2>3. SubSeq(w, n + 1, n) = <<>>
    OBVIOUS
  <2> QED BY <1>7, <2>2, <2>3, Zenon
<1> DEFINE S == {j \in 0 .. n : D[pos[n - j] + 1] # SubSeq(w, (n - j) + 1, n)}
<1>10. S = {}
  <2> SUFFICES ASSUME S # {} PROVE FALSE
    OBVIOUS
  <2>1. S \in SUBSET Nat
    OBVIOUS
  <2> HIDE DEF S
  <2>2. PICK j \in S : \A i \in S : j <= i
    BY <2>1, Least
  <2>3. j \in 0 .. n /\ D[pos[n - j] + 1] # SubSeq(w, (n - j) + 1, n)
    BY <2>2 DEF S
  <2>4. CASE j = 0
    <3>1. n - j = n
      BY <2>4
    <3> QED BY <1>9, <2>3, <3>1, Zenon
  <2>5. CASE j # 0
    <3>1. PICK i \in 0 .. n, k \in 0 .. n - 1 : n - j = k /\ n - i = k + 1 /\ i < j
      <4>1. /\ j - 1 \in 0 .. n /\ n - j \in 0 .. n - 1
            /\ n - (j - 1) = (n - j) + 1 /\ j - 1 < j
        BY <2>3, <2>5
      <4> QED BY <4>1, Zenon
    <3>2. i \notin S
      BY <2>2, <2>3, <3>1
    <3>3. D[pos[k + 1] + 1] = SubSeq(w, (k + 1) + 1, n)
      BY <3>1, <3>2, Zenon DEF S
    <3> QED BY <1>8, <2>3, <3>1, <3>3, Zenon
  <2> QED BY <2>4, <2>5
<1>11. D[pos[0] + 1] = SubSeq(w, 0 + 1, n)
  <2>1. n \in 0 .. n /\ n - n = 0
    OBVIOUS
  <2> QED BY <1>10, <2>1, Zenon
<1>12. D[1] = w
  <2>1. pos[0] + 1 = 1 /\ 0 + 1 = 1
    BY <1>7
  <2> QED BY <1>11, <2>1, SubSeqAll, Zenon
<1> QED BY <1>3, <1>12, UrlDecodeIs, Zenon

\* A C string without a NUL is all of its bytes.
LEMMA CStringIs == ASSUME NEW w \in Seq(Byte), NUL \notin Bytes(w) PROVE CString(w) = w
<1>1. PICK n \in Nat : n = Len(w) /\ DOMAIN w = 1 .. n
  OBVIOUS
<1>2. {i \in 1 .. Len(w) : w[i] \in {NUL}} = {}
  BY <1>1 DEF Bytes
<1>3. FirstOf(w, 1, {NUL}) = n + 1
  BY <1>1, <1>2, Zenon DEF FirstOf
<1>4. (n + 1) - 1 = n
  OBVIOUS
<1> QED BY <1>1, <1>3, <1>4, SubSeqAll, Zenon DEF CString

\* An encoder lays out the codes of the bytes, also when it returns the string itself.
LEMMA EncodedHasPlaces ==
    ASSUME NEW w \in Seq(Byte), NUL \notin Bytes(w), NEW safe
    PROVE  HasPlaces(DoEncodeStuff(w, safe), [i \in DOMAIN w |-> Coded(w[i], safe)], Len(w))
<1>1. PICK n \in Nat : n = Len(w) /\ DOMAIN w = 1 .. n
  OBVIOUS
<1>2. PICK codes : codes = [i \in DOMAIN w |-> Coded(w[i], safe)]
  OBVIOUS
<1>3. /\ codes \in Seq(Seq(Byte)) /\ Len(codes) = n
      /\ \A i \in 1 .. n : codes[i] = Coded(w[i], safe)
  <2>1. \A i \in 1 .. n : w[i] \in Byte
    BY <1>1
  <2>2. \A i \in 1 .. n : Coded(w[i], safe) \in Seq(Byte)
    BY <2>1, CodedIs, Zenon
  <2>3. codes = [i \in 1 .. n |-> Coded(w[i], safe)]
    BY <1>1, <1>2, Zenon
  <2> QED BY <2>2, <2>3
<1>4. DoEncodeStuff(w, safe) = IF Bytes(w) \subseteq safe THEN w ELSE Join(codes, <<>>)
  <2>1. CString(w) = w
    BY CStringIs
  <2>2. DoEncodeStuff(w, safe) =
            IF Bytes(CString(w)) \subseteq safe THEN w
            ELSE Join([i \in DOMAIN CString(w) |-> Coded(CString(w)[i], safe)], <<>>)
    BY Zenon DEF DoEncodeStuff, Coded
  <2> QED BY <1>2, <2>1, <2>2, Zenon
<1>5. CASE Bytes(w) \subseteq safe
  <2>1. PICK pos : pos = [k \in 0 .. n |-> k]
    OBVIOUS
  <2>2. ASSUME NEW k \in 0 .. n - 1
        PROVE  /\ Len(codes[k + 1]) \in Nat
               /\ pos[k + 1] = pos[k] + Len(codes[k + 1]) /\ pos[k + 1] <= n
               /\ \A j \in 1 .. Len(codes[k + 1]) : w[pos[k] + j] = codes[k + 1][j]
    <3>1. k + 1 \in 1 .. n /\ k + 1 \in 0 .. n /\ k \in 0 .. n
      OBVIOUS
    <3>2. PICK c \in Byte : c = w[k + 1] /\ c \in safe
      BY <1>1, <1>5, <3>1 DEF Bytes
    <3>3. Len(Coded(c, safe)) = 1 /\ Coded(c, safe)[1] = c
      BY <3>2, CodedIs, Zenon
    <3>4. codes[k + 1] = Coded(c, safe)
      BY <1>3, <3>1, <3>2, Zenon
    <3>5. PICK code : code = codes[k + 1] /\ Len(code) = 1 /\ code[1] = w[k + 1]
      BY <3>2, <3>3, <3>4, Zenon
    <3>6. pos[k] = k /\ pos[k + 1] = k + 1
      BY <2>1, <3>1
    <3>7. \A j \in 1 .. 1 : w[k + j] = code[j]
      BY <3>5
    <3>8. 1 \in Nat /\ k + 1 <= n
      OBVIOUS
    <3> QED BY <3>5, <3>6, <3>7, <3>8, Zenon
  <2>3. pos \in [0 .. n -> Nat] /\ pos[0] = 0 /\ pos[n] = n
    BY <2>1
  <2>4. Laid(w, codes, n, pos)
    BY <1>1, <2>2, <2>3, Zenon DEF Laid
  <2> QED BY <1>1, <1>2, <1>4, <1>5, <2>4, Zenon DEF HasPlaces
<1>6. CASE ~ (Bytes(w) \subseteq safe)
  <2>1. HasPlaces(Join(codes, <<>>), codes, Len(codes))
    BY <1>3, JoinLaid, Zenon
  <2> QED BY <1>1, <1>2, <1>3, <1>4, <1>6, <2>1, Zenon
<1> QED BY <1>5, <1>6

\* so it is decoded to the string, when the "%" is encoded, and the "+" where
\* the decoder would take it for a space.
LEMMA DecodedIs ==
    ASSUME NEW w \in Seq(Byte), NUL \notin Bytes(w), NEW safe, PCT \notin safe,
           NEW simple \in {1, 2}, simple = 1 \/ PLUS \notin safe \/ PLUS \notin Bytes(w)
    PROVE  UrlDecode(DoEncodeStuff(w, safe), simple) = w
<1>1. PICK n \in Nat : n = Len(w) /\ DOMAIN w = 1 .. n
  OBVIOUS
<1>2. PICK codes : codes = [i \in DOMAIN w |-> Coded(w[i], safe)]
  OBVIOUS
<1>3. HasPlaces(DoEncodeStuff(w, safe), codes, n)
  BY <1>1, <1>2, EncodedHasPlaces, Zenon
<1>4. CodesOf(codes, w, safe)
  BY <1>1, <1>2 DEF CodesOf
<1>5. n = Len(w)
  BY <1>1
<1> QED BY <1>3, <1>4, <1>5, DecodeLaid

\* Each of the four encoders and the decoders: text comes back as it was.
THEOREM EncodingTheorem == ASSUME NEW w \in Seq(Byte) PROVE EncodingComesBack(w)
<1> SUFFICES ASSUME NUL \notin Bytes(w)
             PROVE  /\ \A e \in {HttpEncode(w), HttpEncodeString(w),
                                 HttpEncodeCookie(w), HttpEncodeUrl(w)} : HttpDecode(e) = w
                    /\ HttpDecodeUrl(HttpEncode(w)) = w
                    /\ PLUS \notin Bytes(w) => HttpDecodeUrl(HttpEncodeString(w)) = w
  BY Zenon DEF EncodingComesBack
<1>1. PCT \notin IsSafe /\ PCT \notin IsHttpSafe /\ PCT \notin IsCookieSafe /\ PCT \notin IsUrlSafe
      /\ PLUS \notin IsSafe
  BY DEF IsSafe, IsHttpSafe, IsCookieSafe, IsUrlSafe, Alnum, PCT, PLUS, IsDigit, IsUpper, IsLower
<1>2. 1 \in {1, 2} /\ 2 \in {1, 2}
  OBVIOUS
<1>3. HttpDecode(HttpEncode(w)) = w
  BY <1>1, <1>2, DecodedIs, Zenon DEF HttpDecode, HttpEncode
<1>4. HttpDecode(HttpEncodeString(w)) = w
  BY <1>1, <1>2, DecodedIs, Zenon DEF HttpDecode, HttpEncodeString
<1>5. HttpDecode(HttpEncodeCookie(w)) = w
  BY <1>1, <1>2, DecodedIs, Zenon DEF HttpDecode, HttpEncodeCookie
<1>6. HttpDecode(HttpEncodeUrl(w)) = w
  BY <1>1, <1>2, DecodedIs, Zenon DEF HttpDecode, HttpEncodeUrl
<1>7. HttpDecodeUrl(HttpEncode(w)) = w
  BY <1>1, <1>2, DecodedIs, Zenon DEF HttpDecodeUrl, HttpEncode
<1>8. PLUS \notin Bytes(w) => HttpDecodeUrl(HttpEncodeString(w)) = w
  BY <1>1, <1>2, DecodedIs, Zenon DEF HttpDecodeUrl, HttpEncodeString
<1> QED BY <1>3, <1>4, <1>5, <1>6, <1>7, <1>8, Zenon

-----------------------------------------------------------------------------
(* Pieces and prestates *)

\* The first byte of a set, from a position on: where it is known to be,
LEMMA FirstOfAtIn ==
    ASSUME NEW A, NEW s \in Seq(A), NEW n \in Nat, n = Len(s), NEW p \in 1 .. n + 1, NEW S,
           NEW e \in p .. n + 1, e <= n => s[e] \in S, \A i \in p .. e - 1 : s[i] \notin S
    PROVE  FirstOf(s, p, S) = e
<1> DEFINE at == {i \in p .. n : s[i] \in S}
<1>1. FirstOf(s, p, S) = IF at = {} THEN n + 1 ELSE Min(at)
  BY Zenon DEF FirstOf
<1>2. \A i \in at : e <= i
  <2> TAKE i \in at
  <2>1. i < e => i \in p .. e - 1
    OBVIOUS
  <2> QED BY <2>1
<1>3. CASE e <= n
  <2>1. e \in at
    BY <1>3
  <2>2. at \in SUBSET Nat
    OBVIOUS
  <2> HIDE DEF at
  <2>3. Min(at) = e
    BY <1>2, <2>1, <2>2, MinIs
  <2> QED BY <1>1, <2>1, <2>3, Zenon
<1>4. CASE e = n + 1
  <2>1. at = {}
    BY <1>2, <1>4
  <2> HIDE DEF at
  <2> QED BY <1>1, <1>4, <2>1, Zenon
<1> QED BY <1>3, <1>4

\* and for bytes:
LEMMA FirstOfAt ==
    ASSUME NEW s \in Seq(Byte), NEW n \in Nat, n = Len(s), NEW p \in 1 .. n + 1, NEW S,
           NEW e \in p .. n + 1, e <= n => s[e] \in S, \A i \in p .. e - 1 : s[i] \notin S
    PROVE  FirstOf(s, p, S) = e
BY FirstOfAtIn, Zenon

\* and that it is somewhere.
LEMMA FirstOfIn ==
    ASSUME NEW A, NEW s \in Seq(A), NEW n \in Nat, n = Len(s), NEW p \in 1 .. n + 1, NEW S
    PROVE  \E e \in p .. n + 1 : /\ e = FirstOf(s, p, S) /\ (e <= n => s[e] \in S)
                                 /\ \A i \in p .. e - 1 : s[i] \notin S
<1> DEFINE at == {i \in p .. n + 1 : i <= n => s[i] \in S}
<1>1. at \in SUBSET Nat /\ n + 1 \in at
  OBVIOUS
<1>2. PICK e \in at : \A i \in at : e <= i
  <2> HIDE DEF at
  <2>1. at # {}
    BY <1>1
  <2> QED BY <1>1, <2>1, Least
<1>3. e \in p .. n + 1 /\ (e <= n => s[e] \in S)
  OBVIOUS
<1>4. ASSUME NEW i \in p .. e - 1 PROVE s[i] \notin S
  <2>1. i \in p .. n + 1 /\ ~ (e <= i)
    BY <1>3
  <2> QED BY <1>2, <2>1
<1> HIDE DEF at
<1>5. FirstOf(s, p, S) = e
  BY <1>3, <1>4, FirstOfAtIn
<1> QED BY <1>3, <1>4, <1>5

\* and for bytes:
LEMMA FirstOfIs ==
    ASSUME NEW s \in Seq(Byte), NEW n \in Nat, n = Len(s), NEW p \in 1 .. n + 1, NEW S
    PROVE  \E e \in p .. n + 1 : /\ e = FirstOf(s, p, S) /\ (e <= n => s[e] \in S)
                                 /\ \A i \in p .. e - 1 : s[i] \notin S
BY FirstOfIn, Zenon

\* Split, as a choice of the pieces from each position on,
SplitFrom(s, S, P, p) ==
    LET e == FirstOf(s, p, S)
    IN  <<SubSeq(s, p, e - 1)>> \o (IF e > Len(s) THEN <<>> ELSE P[e + 1])
Splits(s, S, P) == P = [p \in 1 .. Len(s) + 1 |-> SplitFrom(s, S, P, p)]
LEMMA SplitIsChoice == ASSUME NEW s, NEW S PROVE Split(s, S) = (CHOOSE P : Splits(s, S, P))[1]
BY DEF Split, Splits, SplitFrom

\* A piece of bytes:
LEMMA PieceIs ==
    ASSUME NEW s \in Seq(Byte), NEW n \in Nat, n = Len(s), NEW p \in 1 .. n + 1, NEW e \in p .. n + 1
    PROVE  SubSeq(s, p, e - 1) \in Seq(Byte)
BY PieceIn, Zenon

\* and that there is one that says what they are.
LEMMA SplitsExistIn ==
    ASSUME NEW A, NEW s \in Seq(A), NEW S PROVE \E P : Splits(s, S, P)
<1>1. PICK n \in Nat : n = Len(s) /\ DOMAIN s = 1 .. n
  OBVIOUS
<1> DEFINE I == 1 .. n + 1
           V == Seq(Seq(A))
<1>2. PICK Rule : Rule = [p \in I |-> [f \in [I -> V] |-> SplitFrom(s, S, f, p)]]
  OBVIOUS
<1>3. ASSUME NEW p \in I
      PROVE  \E e \in p .. n + 1 :
                \A f : SplitFrom(s, S, f, p) =
                         <<SubSeq(s, p, e - 1)>> \o (IF e > n THEN <<>> ELSE f[e + 1])
  <2>1. PICK e \in p .. n + 1 : e = FirstOf(s, p, S)
    BY <1>1, FirstOfIn
  <2> QED BY <1>1, <2>1, Zenon DEF SplitFrom
<1>4. ASSUME NEW p \in I, NEW f \in [I -> V] PROVE SplitFrom(s, S, f, p) \in V
  <2>1. PICK e \in p .. n + 1 :
          SplitFrom(s, S, f, p) = <<SubSeq(s, p, e - 1)>> \o (IF e > n THEN <<>> ELSE f[e + 1])
    BY <1>3, Zenon
  <2>2. PICK head \in Seq(A) : head = SubSeq(s, p, e - 1)
    BY <1>1, PieceIn, Zenon
  <2>3. (IF e > n THEN <<>> ELSE f[e + 1]) \in Seq(Seq(A))
    <3>1. ~ (e > n) => e + 1 \in I
      OBVIOUS
    <3> QED BY <3>1
  <2>4. PICK y \in Seq(Seq(A)) : y = (IF e > n THEN <<>> ELSE f[e + 1])
    BY <2>3, Zenon
  <2>5. <<head>> \in Seq(Seq(A))
    OBVIOUS
  <2>6. <<head>> \o y \in Seq(Seq(A))
    BY <2>5, CatIn
  <2> QED BY <2>1, <2>2, <2>4, <2>6, Zenon
<1>5. Rule \in [I -> [[I -> V] -> V]]
  <2> HIDE DEF I, V
  <2> QED BY <1>2, <1>4
<1>6. PICK rank : rank = [p \in I |-> n + 1 - p]
  OBVIOUS
<1>7. rank \in [I -> 0 .. n + 1] /\ \A p \in I : rank[p] = n + 1 - p
  BY <1>6
<1>8. \A p \in I, f \in [I -> V] : Rule[p][f] = SplitFrom(s, S, f, p)
  <2> HIDE DEF I, V
  <2> QED BY <1>2
<1>9. Follows(Rule, I, V, rank)
  <2> SUFFICES ASSUME NEW p \in I, NEW f \in [I -> V], NEW g \in [I -> V],
                      \A q \in I : rank[q] < rank[p] => f[q] = g[q]
               PROVE  Rule[p][f] = Rule[p][g]
    BY Zenon DEF Follows
  <2> SUFFICES SplitFrom(s, S, f, p) = SplitFrom(s, S, g, p)
    <3> HIDE DEF I, V
    <3> QED BY <1>8, Zenon
  <2>1. PICK e \in p .. n + 1 :
          \A h : SplitFrom(s, S, h, p) =
                   <<SubSeq(s, p, e - 1)>> \o (IF e > n THEN <<>> ELSE h[e + 1])
    BY <1>3, Zenon
  <2>2. CASE e > n
    BY <2>1, <2>2, Zenon
  <2>3. CASE ~ (e > n)
    <3>1. e + 1 \in I /\ rank[e + 1] < rank[p]
      BY <1>7, <2>3
    <3>2. f[e + 1] = g[e + 1]
      BY <3>1, Zenon
    <3> QED BY <2>1, <3>2, Zenon
  <2> QED BY <2>2, <2>3
<1>10. PICK D : D \in [I -> V] /\ \A p \in I : D[p] = Rule[p][D]
  <2>1. V # {} /\ n + 1 \in Nat /\ rank \in [I -> 0 .. n + 1]
    <3>1. <<>> \in Seq(Seq(A)) /\ n + 1 \in Nat
      OBVIOUS
    <3> QED BY <1>7, <3>1, Zenon
  <2>2. Ranked(Rule, I, V, rank, n + 1)
    BY <1>5, <1>9, <2>1, Zenon DEF Ranked
  <2> HIDE DEF I, V
  <2>3. PICK D : Recursive(D, Rule, I, V)
    BY <2>2, RecursionIs
  <2> QED BY <2>3, Zenon DEF Recursive
<1>11. D = [p \in I |-> SplitFrom(s, S, D, p)]
  <2>1. \A p \in I : D[p] = SplitFrom(s, S, D, p)
    BY <1>8, <1>10, Zenon
  <2> HIDE DEF I, V
  <2> QED BY <1>10, <2>1
<1> QED BY <1>1, <1>11, Zenon DEF Splits

\* and for bytes:
LEMMA SplitsExists ==
    ASSUME NEW s \in Seq(Byte), NEW S PROVE \E P : Splits(s, S, P)
BY SplitsExistIn, Zenon

\* Pieces before a separator that is behind them all: one more, without bytes.
OneMore(v, w, c) ==
    Len(v) = Len(w) + 1 /\ v[Len(w) + 1] = c /\ \A i \in 1 .. Len(w) : v[i] = w[i]
LEMMA SplitMore ==
    ASSUME NEW w \in Seq(Byte), NEW S, NEW c \in Byte, c \notin Bytes(w),
           NEW v \in Seq(Byte), OneMore(v, w, c)
    PROVE  /\ Split(w, S) \in Seq(Seq(Byte)) /\ Len(Split(w, S)) > 0
           /\ Split(v, S \cup {c}) = Append(Split(w, S), <<>>)
<1>1. PICK n \in Nat : /\ n = Len(w) /\ DOMAIN w = 1 .. n /\ Len(v) = n + 1 /\ v[n + 1] = c
                       /\ \A i \in 1 .. n : v[i] = w[i]
  <2>1. Len(w) \in Nat /\ DOMAIN w = 1 .. Len(w)
    OBVIOUS
  <2> QED BY <2>1, Zenon DEF OneMore
<1> DEFINE U == S \cup {c}
<1>2. PICK P : P = CHOOSE R : Splits(w, S, R)
  OBVIOUS
<1>3. PICK Q : Q = CHOOSE R : Splits(v, U, R)
  OBVIOUS
<1>4. Splits(w, S, P) /\ Splits(v, U, Q)
  <2> HIDE DEF U
  <2> QED BY <1>2, <1>3, SplitsExists
<1>5. \A p \in 1 .. n + 1 : P[p] = SplitFrom(w, S, P, p)
  BY <1>1, <1>4 DEF Splits
<1>6. \A p \in 1 .. n + 2 : Q[p] = SplitFrom(v, U, Q, p)
  <2>1. (n + 1) + 1 = n + 2
    OBVIOUS
  <2> HIDE DEF U
  <2> QED BY <1>1, <1>4, <2>1 DEF Splits
<1> DEFINE Grows(p) == /\ P[p] \in Seq(Seq(Byte)) /\ Len(P[p]) > 0
                       /\ Q[p] = Append(P[p], <<>>)
<1>7. Q[n + 2] = <<<<>>>>
  <2>1. FirstOf(v, n + 2, U) = n + 2
    <3> DEFINE at == {i \in n + 2 .. Len(v) : v[i] \in U}
    <3>1. at = {}
      BY <1>1
    <3>2. Len(v) + 1 = n + 2
      BY <1>1
    <3> HIDE DEF U
    <3> QED BY <3>1, <3>2, Zenon DEF FirstOf
  <2>2. SubSeq(v, n + 2, (n + 2) - 1) = <<>> /\ n + 2 > Len(v) /\ n + 2 \in 1 .. n + 2
    BY <1>1
  <2>3. Q[n + 2] = <<<<>>>> \o <<>>
    <3> HIDE DEF U
    <3> QED BY <1>6, <2>1, <2>2, Zenon DEF SplitFrom
  <2> QED BY <2>3
<1>8. ASSUME NEW p \in 1 .. n + 1, \A q \in p + 1 .. n + 1 : Grows(q)
      PROVE  Grows(p)
  <2>1. PICK e \in p .. n + 1 : /\ e = FirstOf(w, p, S) /\ (e <= n => w[e] \in S)
                                /\ \A i \in p .. e - 1 : w[i] \notin S
    BY <1>1, FirstOfIs
  <2>2. FirstOf(v, p, U) = e
    <3>1. PICK m \in Nat : m = n + 1
      OBVIOUS
    <3>2. e \in p .. m + 1 /\ p \in 1 .. m + 1 /\ m = Len(v)
      BY <1>1, <3>1
    <3>3. e <= m => v[e] \in U
      <4>1. CASE e <= n
        BY <1>1, <2>1, <4>1
      <4>2. CASE e = n + 1
        BY <1>1, <4>2
      <4>3. e <= n \/ e = n + 1
        OBVIOUS
      <4> QED BY <4>1, <4>2, <4>3, Zenon
    <3>4. \A i \in p .. e - 1 : v[i] \notin U
      <4> TAKE i \in p .. e - 1
      <4>1. i \in 1 .. n
        OBVIOUS
      <4>2. w[i] # c /\ v[i] = w[i] /\ w[i] \notin S
        BY <1>1, <2>1, <4>1 DEF Bytes
      <4> QED BY <4>2
    <3> HIDE DEF U
    <3> QED BY <3>2, <3>3, <3>4, FirstOfAt
  <2>3. PICK a \in Nat, l \in Nat : p = a + 1 /\ e - 1 = a + l
    <3>1. p - 1 \in Nat /\ e - p \in Nat /\ p = (p - 1) + 1 /\ e - 1 = (p - 1) + (e - p)
      OBVIOUS
    <3> QED BY <3>1, Zenon
  <2>4. a + l <= Len(w) /\ a + l <= Len(v) /\ a + l <= n
    BY <1>1, <2>3
  <2>5. PICK head \in Seq(Byte) : /\ head = SubSeq(w, a + 1, a + l) /\ Len(head) = l
                                  /\ \A j \in 1 .. l : head[j] = w[a + j]
    <3>1. /\ SubSeq(w, a + 1, a + l) \in Seq(Byte) /\ Len(SubSeq(w, a + 1, a + l)) = l
          /\ \A j \in 1 .. l : SubSeq(w, a + 1, a + l)[j] = w[a + j]
      BY <2>4, PartIs, ZenonT(40)
    <3> QED BY <3>1, Zenon
  <2>6. PICK y \in Seq(Byte) : /\ y = SubSeq(v, a + 1, a + l) /\ Len(y) = l
                               /\ \A j \in 1 .. l : y[j] = v[a + j]
    <3>1. /\ SubSeq(v, a + 1, a + l) \in Seq(Byte) /\ Len(SubSeq(v, a + 1, a + l)) = l
          /\ \A j \in 1 .. l : SubSeq(v, a + 1, a + l)[j] = v[a + j]
      BY <2>4, PartIs, ZenonT(40)
    <3> QED BY <3>1, Zenon
  <2>7. head = y
    <3>1. \A j \in 1 .. l : a + j \in 1 .. n
      BY <2>4
    <3>2. Len(head) = l /\ Len(y) = l /\ \A j \in 1 .. l : head[j] = y[j]
      BY <1>1, <2>5, <2>6, <3>1, Zenon
    <3> HIDE <2>5, <2>6
    <3> QED BY <3>2, SeqEq
  <2>8. P[p] = <<head>> \o (IF e > n THEN <<>> ELSE P[e + 1])
    BY <1>1, <1>5, <2>1, <2>3, <2>5, Zenon DEF SplitFrom
  <2>9. Q[p] = <<head>> \o Q[e + 1]
    <3>1. p \in 1 .. n + 2 /\ ~ (e > Len(v))
      BY <1>1
    <3> HIDE DEF U
    <3> QED BY <1>6, <2>2, <2>3, <2>6, <2>7, <3>1, Zenon DEF SplitFrom
  <2>10. CASE e = n + 1
    <3>1. e > n /\ e + 1 = n + 2
      BY <2>10
    <3>2. P[p] = <<head>> \o <<>>
      BY <2>8, <3>1, Zenon
    <3>3. Q[p] = <<head>> \o <<<<>>>>
      BY <1>7, <2>9, <3>1, Zenon
    <3> QED BY <3>2, <3>3
  <2>11. CASE e # n + 1
    <3>1. e + 1 \in p + 1 .. n + 1 /\ ~ (e > n)
      BY <2>11
    <3>2. Grows(e + 1)
      BY <1>8, <3>1, Zenon
    <3>3. PICK r \in Seq(Seq(Byte)), z \in Seq(Byte) :
            r = P[e + 1] /\ z = <<>> /\ Q[e + 1] = Append(r, z)
      <4>1. <<>> \in Seq(Byte)
        OBVIOUS
      <4> QED BY <3>2, <4>1, Zenon
    <3>4. P[p] = <<head>> \o r /\ Q[p] = <<head>> \o Append(r, z)
      BY <2>8, <2>9, <3>1, <3>3, Zenon
    <3>5. <<head>> \o r \in Seq(Seq(Byte)) /\ Len(<<head>> \o r) > 0
      OBVIOUS
    <3>6. <<head>> \o Append(r, z) = Append(<<head>> \o r, z)
      <4>1. PICK B : B = Seq(Byte)
        OBVIOUS
      <4>2. head \in B /\ z \in B /\ r \in Seq(B)
        BY <4>1, Zenon
      <4>3. Behind(head, r, z)
        BY <4>2, AppendBehind
      <4> QED BY <4>3, Zenon DEF Behind
    <3> QED BY <3>3, <3>4, <3>5, <3>6, Zenon
  <2> QED BY <2>10, <2>11
<1>9. ASSUME NEW p \in 1 .. n + 1 PROVE Grows(p)
  <2> DEFINE Bad == {j \in 0 .. n : ~ Grows((n + 1) - j)}
  <2>1. Bad = {}
    <3> SUFFICES ASSUME Bad # {} PROVE FALSE
      OBVIOUS
    <3>1. Bad \in SUBSET Nat
      OBVIOUS
    <3> HIDE DEF Bad
    <3>2. PICK j \in Bad : \A i \in Bad : j <= i
      BY <3>1, Least
    <3>3. j \in 0 .. n /\ ~ Grows((n + 1) - j)
      BY <3>2 DEF Bad
    <3>4. PICK q \in 1 .. n + 1 : q = (n + 1) - j
      BY <3>3
    <3>5. ASSUME NEW r \in q + 1 .. n + 1 PROVE Grows(r)
      <4>1. PICK i \in 0 .. n : i < j /\ (n + 1) - i = r
        <5>1. (n + 1) - r \in 0 .. n /\ (n + 1) - r < j /\ (n + 1) - ((n + 1) - r) = r
          BY <3>3, <3>4
        <5> QED BY <5>1, Zenon
      <4>2. i \notin Bad
        BY <3>2, <3>3, <4>1
      <4> QED BY <4>1, <4>2, Zenon DEF Bad
    <3>6. Grows(q)
      BY <1>8, <3>5, Zenon
    <3> QED BY <3>3, <3>4, <3>6, Zenon
  <2>2. PICK j \in 0 .. n : (n + 1) - j = p
    <3>1. (n + 1) - p \in 0 .. n /\ (n + 1) - ((n + 1) - p) = p
      OBVIOUS
    <3> QED BY <3>1, Zenon
  <2> HIDE DEF Grows
  <2> QED BY <2>1, <2>2, Zenon
<1>10. 1 \in 1 .. n + 1
  OBVIOUS
<1>11. Split(w, S) = P[1] /\ Split(v, U) = Q[1]
  BY <1>2, <1>3, SplitIsChoice, Zenon
<1> QED BY <1>9, <1>10, <1>11, Zenon

\* A URL made of names between parentheses and a path.
MadeOf(url, w, path) ==
    /\ Len(url) = Len(w) + 3 + Len(path)
    /\ url[1] = SLASH /\ url[2] = LPAR /\ url[Len(w) + 3] = RPAR
    /\ \A j \in 1 .. Len(w) : url[2 + j] = w[j]
    /\ \A j \in 1 .. Len(path) : url[(Len(w) + 3) + j] = path[j]
LEMMA MadeIs ==
    ASSUME NEW w \in Seq(Byte), NEW path \in Seq(Byte)
    PROVE  /\ <<SLASH, LPAR>> \o w \o <<RPAR>> \o path \in Seq(Byte)
           /\ MadeOf(<<SLASH, LPAR>> \o w \o <<RPAR>> \o path, w, path)
<1>1. PICK n \in Nat, m \in Nat : n = Len(w) /\ m = Len(path)
  OBVIOUS
<1>2. PICK a \in Seq(Byte), r \in Seq(Byte), two \in Nat, one \in Nat :
        /\ a = <<SLASH, LPAR>> /\ Len(a) = two /\ a[1] = SLASH /\ a[2] = LPAR /\ two = 2
        /\ r = <<RPAR>> /\ Len(r) = one /\ r[1] = RPAR /\ one = 1
  <2>1. SLASH \in Byte /\ LPAR \in Byte /\ RPAR \in Byte
    BY DEF SLASH, LPAR, RPAR, Byte
  <2>2. <<SLASH, LPAR>> \in Seq(Byte) /\ Len(<<SLASH, LPAR>>) = 2
    BY <2>1
  <2>3. <<RPAR>> \in Seq(Byte) /\ Len(<<RPAR>>) = 1
    BY <2>1
  <2>4. 2 \in Nat /\ 1 \in Nat /\ <<SLASH, LPAR>>[1] = SLASH /\ <<SLASH, LPAR>>[2] = LPAR
        /\ <<RPAR>>[1] = RPAR
    OBVIOUS
  <2> QED BY <2>2, <2>3, <2>4, Zenon
<1>3. Len(w) = n /\ Len(path) = m /\ Len(a) = two /\ Len(r) = one
  BY <1>1, <1>2, Zenon
<1> HIDE <1>1, <1>2
<1>4. PICK b \in Seq(Byte), lb \in Nat :
        /\ b = Cat(a, w) /\ Len(b) = lb /\ lb = two + n
        /\ \A j \in 1 .. two : b[j] = a[j]
        /\ \A j \in 1 .. n : b[two + j] = w[j]
  <2>1. /\ Cat(a, w) \in Seq(Byte) /\ Len(Cat(a, w)) = two + n
        /\ \A j \in 1 .. two : Cat(a, w)[j] = a[j]
        /\ \A j \in 1 .. n : Cat(a, w)[two + j] = w[j]
    BY <1>3, CatAt
  <2>2. two + n \in Nat
    OBVIOUS
  <2> QED BY <2>1, <2>2, Zenon
<1>5. Len(b) = lb
  BY <1>4, Zenon
<1>6. PICK c \in Seq(Byte), lc \in Nat :
        /\ c = Cat(b, r) /\ Len(c) = lc /\ lc = lb + one
        /\ \A j \in 1 .. lb : c[j] = b[j]
        /\ \A j \in 1 .. one : c[lb + j] = r[j]
  <2> HIDE <1>4
  <2>1. /\ Cat(b, r) \in Seq(Byte) /\ Len(Cat(b, r)) = lb + one
        /\ \A j \in 1 .. lb : Cat(b, r)[j] = b[j]
        /\ \A j \in 1 .. one : Cat(b, r)[lb + j] = r[j]
    BY <1>3, <1>5, CatAt
  <2>2. lb + one \in Nat
    OBVIOUS
  <2> QED BY <2>1, <2>2, Zenon
<1>7. Len(c) = lc
  BY <1>6, Zenon
<1>8. PICK d \in Seq(Byte) :
        /\ d = Cat(c, path) /\ Len(d) = lc + m
        /\ \A j \in 1 .. lc : d[j] = c[j]
        /\ \A j \in 1 .. m : d[lc + j] = path[j]
  <2> HIDE <1>4, <1>6
  <2>1. /\ Cat(c, path) \in Seq(Byte) /\ Len(Cat(c, path)) = lc + m
        /\ \A j \in 1 .. lc : Cat(c, path)[j] = c[j]
        /\ \A j \in 1 .. m : Cat(c, path)[lc + j] = path[j]
    BY <1>3, <1>7, CatAt
  <2> QED BY <2>1, Zenon
<1>9. two = 2 /\ one = 1 /\ lb = 2 + n /\ lc = n + 3 /\ lb + 1 = n + 3
  BY <1>2, <1>4, <1>6
<1>10. d[1] = SLASH /\ d[2] = LPAR
  <2>1. \A j \in 1 .. 2 : j \in 1 .. two /\ j \in 1 .. lb /\ j \in 1 .. lc
    BY <1>9
  <2>2. 1 \in 1 .. 2 /\ 2 \in 1 .. 2
    OBVIOUS
  <2> QED BY <1>2, <1>4, <1>6, <1>8, <2>1, <2>2, ZenonT(40)
<1>11. d[n + 3] = RPAR
  <2>1. 1 \in 1 .. one /\ n + 3 \in 1 .. lc
    BY <1>9
  <2>2. c[lb + 1] = RPAR
    BY <1>2, <1>6, <2>1, Zenon
  <2> QED BY <1>8, <1>9, <2>1, <2>2, Zenon
<1>12. ASSUME NEW j \in 1 .. n PROVE d[2 + j] = w[j]
  <2>1. 2 + j \in 1 .. lb /\ 2 + j \in 1 .. lc
    BY <1>9
  <2>2. b[2 + j] = w[j]
    BY <1>4, <1>9, Zenon
  <2> QED BY <1>6, <1>8, <2>1, <2>2, Zenon
<1>13. Len(d) = n + 3 + m /\ \A j \in 1 .. m : d[(n + 3) + j] = path[j]
  BY <1>8, <1>9, Zenon
<1>14. MadeOf(d, w, path)
  BY <1>1, <1>10, <1>11, <1>12, <1>13, Zenon DEF MadeOf
<1>15. d = <<SLASH, LPAR>> \o w \o <<RPAR>> \o path
  BY <1>2, <1>4, <1>6, <1>8, Zenon DEF Cat
<1> QED BY <1>14, <1>15, Zenon

\* It is taken apart again,
GoodNames(w) ==
    /\ Bytes(w) \cap {NUL, LPAR, RPAR, SLASH} = {} /\ w # <<>>
    /\ ~ NamesInternal(Split(w, {COMMA})[1])
GoodPath(path) == NUL \notin Bytes(path) /\ Len(path) > 0 /\ path[1] = SLASH
Apart(w, path) == [rest |-> path, prestate |-> Bytes(Split(w, {COMMA})), internal |-> {}]
LEMMA TakenApart ==
    ASSUME NEW w \in Seq(Byte), GoodNames(w), NEW path \in Seq(Byte), GoodPath(path),
           NEW url \in Seq(Byte), MadeOf(url, w, path)
    PROVE  ParsePrestates(url) = Apart(w, path)
<1> PICK names : names = Split(w, {COMMA}) /\ ~ NamesInternal(names[1])
  BY Zenon DEF GoodNames
<1> USE DEF GoodPath
<1>1. PICK n \in Nat, m \in Nat : /\ n = Len(w) /\ m = Len(path) /\ n > 0 /\ m > 0
                                  /\ DOMAIN w = 1 .. n /\ DOMAIN path = 1 .. m
  <2>1. Len(w) # 0
    BY EmptyIs DEF GoodNames
  <2>2. Len(w) \in Nat /\ Len(path) \in Nat /\ DOMAIN w = 1 .. Len(w) /\ DOMAIN path = 1 .. Len(path)
    OBVIOUS
  <2>3. Len(w) > 0
    BY <2>1, <2>2
  <2> QED BY <2>2, <2>3, Zenon
<1>2. /\ Len(url) = n + 3 + m
      /\ url[1] = SLASH /\ url[2] = LPAR /\ url[n + 3] = RPAR
      /\ \A j \in 1 .. n : url[2 + j] = w[j]
      /\ \A j \in 1 .. m : url[(n + 3) + j] = path[j]
  BY <1>1, Zenon DEF MadeOf
<1>3. \A j \in 1 .. n : w[j] \notin {NUL, LPAR, RPAR, SLASH}
  BY <1>1 DEF Bytes, GoodNames
<1>4. ASSUME NEW p \in 3 .. n + 2 PROVE url[p] \notin {NUL, LPAR, RPAR, SLASH}
  <2>1. PICK j \in 1 .. n : p = 2 + j
    <3>1. p - 2 \in 1 .. n /\ p = 2 + (p - 2)
      OBVIOUS
    <3> QED BY <3>1, Zenon
  <2> QED BY <1>2, <1>3, <2>1, Zenon
<1>5. url[n + 4] = SLASH
  <2>1. 1 \in 1 .. m /\ (n + 3) + 1 = n + 4
    BY <1>1
  <2> QED BY <1>2, <2>1, Zenon
<1>6. PICK at : at = {p \in 4 .. Len(url) : /\ url[p] = SLASH /\ url[p - 1] = RPAR
                                            /\ \A i \in 4 .. p : url[i] # NUL}
  OBVIOUS
<1>7. n + 4 \in at
  <2>1. n + 4 \in 4 .. Len(url) /\ (n + 4) - 1 = n + 3
    BY <1>1, <1>2
  <2>2. ASSUME NEW i \in 4 .. n + 4 PROVE url[i] # NUL
    <3>1. i \in 3 .. n + 2 \/ i = n + 3 \/ i = n + 4
      OBVIOUS
    <3>2. RPAR # NUL /\ SLASH # NUL
      BY DEF RPAR, NUL, SLASH
    <3> QED BY <1>2, <1>4, <1>5, <3>1, <3>2
  <2> QED BY <1>2, <1>5, <1>6, <2>1, <2>2
<1>8. \A p \in at : n + 4 <= p
  <2> SUFFICES ASSUME NEW p \in at, ~ (n + 4 <= p) PROVE FALSE
    OBVIOUS
  <2>1. p \in 4 .. Len(url) /\ url[p - 1] = RPAR
    BY <1>6
  <2>2. p - 1 \in 3 .. n + 2
    BY <1>2, <2>1
  <2> QED BY <1>4, <2>1, <2>2
<1>9. PrestateEnd(url) = n + 4
  <2>1. at \in SUBSET Nat
    BY <1>6
  <2>2. Min(at) = n + 4
    <3>1. n + 4 \in at
      BY <1>7
    <3> QED BY <1>8, <2>1, <3>1, MinIs
  <2>3. at # {}
    BY <1>7
  <2>4. PrestateEnd(url) = IF at = {} THEN 0 ELSE Min(at)
    BY <1>6, Zenon DEF PrestateEnd
  <2> QED BY <2>2, <2>3, <2>4, Zenon
<1>10. PICK v \in Seq(Byte) : v = SubSeq(url, 3, (n + 4) - 1) /\ OneMore(v, w, RPAR)
  <2>1. PICK l \in Nat, two \in Nat :
          l = n + 1 /\ two = 2 /\ two + 1 = 3 /\ two + l = (n + 4) - 1 /\ two + l <= Len(url)
    <3>1. n + 1 \in Nat /\ 2 + 1 = 3 /\ 2 + (n + 1) = (n + 4) - 1 /\ 2 + (n + 1) <= Len(url) /\ 2 \in Nat
      BY <1>1, <1>2
    <3> QED BY <3>1, Zenon
  <2>2. /\ SubSeq(url, two + 1, two + l) \in Seq(Byte) /\ Len(SubSeq(url, two + 1, two + l)) = l
        /\ \A j \in 1 .. l : SubSeq(url, two + 1, two + l)[j] = url[two + j]
    BY <2>1, PartIs
  <2>3. PICK v \in Seq(Byte) : /\ v = SubSeq(url, 3, (n + 4) - 1) /\ Len(v) = n + 1
                               /\ \A j \in 1 .. n + 1 : v[j] = url[2 + j]
    BY <2>1, <2>2, Zenon
  <2>4. v[n + 1] = RPAR
    <3>1. n + 1 \in 1 .. n + 1 /\ 2 + (n + 1) = n + 3
      OBVIOUS
    <3> QED BY <1>2, <2>3, <3>1, Zenon
  <2>5. \A j \in 1 .. n : v[j] = w[j]
    <3>1. \A j \in 1 .. n : j \in 1 .. n + 1
      OBVIOUS
    <3> QED BY <1>2, <2>3, <3>1, Zenon
  <2>6. OneMore(v, w, RPAR)
    BY <1>1, <2>3, <2>4, <2>5, Zenon DEF OneMore
  <2> QED BY <2>3, <2>6, Zenon
<1>11. /\ names \in Seq(Seq(Byte)) /\ Len(names) > 0
       /\ Split(v, {COMMA, RPAR}) = Append(names, <<>>)
  <2>1. RPAR \in Byte /\ RPAR \notin Bytes(w)
    BY DEF RPAR, Byte, GoodNames
  <2>2. {COMMA} \cup {RPAR} = {COMMA, RPAR}
    OBVIOUS
  <2>3. OneMore(v, w, RPAR)
    BY <1>10, Zenon
  <2>4. PICK N : N = Split(w, {COMMA})
    OBVIOUS
  <2>5. /\ Split(w, {COMMA}) \in Seq(Seq(Byte)) /\ Len(Split(w, {COMMA})) > 0
        /\ Split(v, {COMMA} \cup {RPAR}) = Append(Split(w, {COMMA}), <<>>)
    BY <2>1, <2>3, SplitMore
  <2> QED BY <2>2, <2>5, Zenon
<1>12. SubSeq(Split(v, {COMMA, RPAR}), 1, Len(Split(v, {COMMA, RPAR})) - 1) = names
  <2>1. PICK B, e : B = Seq(Byte) /\ e = <<>> /\ e \in B
    <3>1. <<>> \in Seq(Byte)
      OBVIOUS
    <3> QED BY <3>1, Zenon
  <2>2. names \in Seq(B) /\ e \in B
    BY <1>11, <2>1, Zenon
  <2>3. SubSeq(Append(names, e), 1, Len(Append(names, e)) - 1) = names
    BY <2>2
  <2> QED BY <1>11, <2>1, <2>3, Zenon
<1>13. CString(SubSeq(url, n + 4, Len(url))) = path
  <2>1. PICK k \in Nat : k = n + 3 /\ k + 1 = n + 4 /\ Len(url) = k + m
    BY <1>2
  <2>2. k + m <= Len(url)
    BY <2>1
  <2>3. PICK head \in Seq(Byte) : /\ head = SubSeq(url, k + 1, k + m) /\ Len(head) = m
                                  /\ \A j \in 1 .. m : head[j] = url[k + j]
    <3>1. /\ SubSeq(url, k + 1, k + m) \in Seq(Byte) /\ Len(SubSeq(url, k + 1, k + m)) = m
          /\ \A j \in 1 .. m : SubSeq(url, k + 1, k + m)[j] = url[k + j]
      BY <2>2, PartIs
    <3> QED BY <3>1, Zenon
  <2>4. head = path
    <3>1. Len(head) = m /\ Len(path) = m /\ \A j \in 1 .. m : head[j] = path[j]
      BY <1>1, <1>2, <2>1, <2>3, Zenon
    <3> HIDE <2>3
    <3> QED BY <3>1, SeqEq
  <2>5. CString(path) = path
    BY CStringIs
  <2> QED BY <2>1, <2>3, <2>4, <2>5, Zenon
<1>14. ~ (Len(url) < 5) /\ n + 4 # 0
  BY <1>1, <1>2
<1>15. {names[k] : k \in DOMAIN names} = Bytes(names)
  BY DEF Bytes
<1>16. ParsePrestates(url) =
          LET end == PrestateEnd(url)
              pieces == Split(SubSeq(url, 3, end - 1), {COMMA, RPAR})
              ns == SubSeq(pieces, 1, Len(pieces) - 1)
          IN  IF Len(url) < 5 \/ url[2] # LPAR \/ end = 0
              THEN [rest |-> url, prestate |-> {}, internal |-> {}]
              ELSE [rest |-> CString(SubSeq(url, end, Len(url))),
                    prestate |-> IF NamesInternal(ns[1]) THEN {Internal}
                                 ELSE {ns[k] : k \in DOMAIN ns},
                    internal |-> IF NamesInternal(ns[1])
                                 THEN {ns[k] : k \in 2 .. Len(ns)} ELSE {}]
  BY Zenon DEF ParsePrestates
<1>17. url[2] = LPAR
  BY <1>2, Zenon
<1> QED BY <1>9, <1>10, <1>12, <1>13, <1>14, <1>15, <1>16, <1>17, Zenon DEF Apart

\* so a URL built from prestates and a path comes apart into the same.
THEOREM PrestatesTheorem == ASSUME NEW w \in Seq(Byte) PROVE PrestatesComeOff(w)
<1> SUFFICES ASSUME NEW path \in {<<SLASH>>, <<SLASH, LPAR, 97, RPAR, SLASH>>},
                    Bytes(w) \cap {NUL, LPAR, RPAR, SLASH} = {}, w # <<>>,
                    ~ NamesInternal(Split(w, {COMMA})[1])
             PROVE  LET r == ParsePrestates(<<SLASH, LPAR>> \o w \o <<RPAR>> \o path)
                    IN  /\ r.rest = path /\ r.prestate = Bytes(Split(w, {COMMA}))
                        /\ r.internal = {}
  BY Zenon DEF PrestatesComeOff
<1>1. path \in Seq(Byte) /\ NUL \notin Bytes(path) /\ Len(path) > 0 /\ path[1] = SLASH
  <2>1. SLASH \in Byte \ {NUL} /\ LPAR \in Byte \ {NUL} /\ 97 \in Byte \ {NUL} /\ RPAR \in Byte \ {NUL}
    BY DEF SLASH, LPAR, RPAR, NUL, Byte
  <2>2. path \in Seq(Byte \ {NUL}) /\ Len(path) > 0 /\ path[1] = SLASH
    <3>1. PICK a \in Byte \ {NUL}, b \in Byte \ {NUL}, c \in Byte \ {NUL}, d \in Byte \ {NUL} :
            a = SLASH /\ b = LPAR /\ c = 97 /\ d = RPAR
      BY <2>1, Zenon
    <3>2. /\ <<a>> \in Seq(Byte \ {NUL}) /\ Len(<<a>>) > 0
          /\ <<a, b, c, d, a>> \in Seq(Byte \ {NUL}) /\ Len(<<a, b, c, d, a>>) > 0
          /\ <<a>>[1] = a /\ <<a, b, c, d, a>>[1] = a
      OBVIOUS
    <3>3. path = <<a>> \/ path = <<a, b, c, d, a>>
      BY <3>1, Zenon
    <3> QED BY <3>1, <3>2, <3>3, Zenon
  <2>3. path \in Seq(Byte) /\ \A i \in DOMAIN path : path[i] # NUL
    BY <2>2
  <2> QED BY <2>2, <2>3 DEF Bytes
<1>2. PICK names : names = Split(w, {COMMA})
  OBVIOUS
<1>3. PICK url \in Seq(Byte) :
        url = <<SLASH, LPAR>> \o w \o <<RPAR>> \o path /\ MadeOf(url, w, path)
  BY <1>1, MadeIs, Zenon
<1>4. ParsePrestates(url) = Apart(w, path)
  <2>1. GoodNames(w) /\ GoodPath(path) /\ MadeOf(url, w, path)
    BY <1>1, <1>3, Zenon DEF GoodNames, GoodPath
  <2> HIDE <1>3
  <2> QED BY <1>1, <2>1, TakenApart
<1>5. PICK r : r = [rest |-> path, prestate |-> Bytes(names), internal |-> {}]
  OBVIOUS
<1>6. r.rest = path /\ r.prestate = Bytes(names) /\ r.internal = {}
  BY <1>5
<1> QED BY <1>2, <1>3, <1>4, <1>5, <1>6, Zenon DEF Apart

-----------------------------------------------------------------------------
(* Entities *)

\* What Split makes from each position on: a piece, and the pieces behind its end.
FirstPiece(s, n, S, P, p, e, head) ==
    /\ e = FirstOf(s, p, S) /\ (e <= n => s[e] \in S) /\ \A i \in p .. e - 1 : s[i] \notin S
    /\ head = SubSeq(s, p, e - 1) /\ Len(head) = e - p /\ \A j \in 1 .. e - p : head[j] = s[p - 1 + j]
    /\ e > n => P[p] = <<head>>
    /\ e <= n => e + 1 \in p + 1 .. n + 1 /\ P[p] = <<head>> \o P[e + 1]
LEMMA PieceAndRestIn ==
    ASSUME NEW A, NEW s \in Seq(A), NEW n \in Nat, n = Len(s), NEW S, NEW P, Splits(s, S, P),
           NEW p \in 1 .. n + 1
    PROVE  \E e \in p .. n + 1, head \in Seq(A) : FirstPiece(s, n, S, P, p, e, head)
<1>1. PICK e \in p .. n + 1 : /\ e = FirstOf(s, p, S) /\ (e <= n => s[e] \in S)
                              /\ \A i \in p .. e - 1 : s[i] \notin S
  BY FirstOfIn
<1>2. PICK a \in Nat, l \in Nat : p = a + 1 /\ e - 1 = a + l /\ l = e - p /\ a = p - 1
                                  /\ a + l <= Len(s)
  <2>1. p - 1 \in Nat /\ e - p \in Nat /\ p = (p - 1) + 1 /\ e - 1 = (p - 1) + (e - p)
        /\ (p - 1) + (e - p) <= Len(s)
    OBVIOUS
  <2> QED BY <2>1, Zenon
<1>3. PICK head \in Seq(A) : /\ head = SubSeq(s, a + 1, a + l) /\ Len(head) = l
                                /\ \A j \in 1 .. l : head[j] = s[a + j]
  <2>1. a + l <= Len(s)
    BY <1>2, Zenon
  <2>2. /\ SubSeq(s, a + 1, a + l) \in Seq(A) /\ Len(SubSeq(s, a + 1, a + l)) = l
        /\ \A j \in 1 .. l : SubSeq(s, a + 1, a + l)[j] = s[a + j]
    BY <2>1, PartIs
  <2> QED BY <2>2, Zenon
<1>4. P[p] = SplitFrom(s, S, P, p)
  BY DEF Splits
<1>5. P[p] = <<head>> \o (IF e > n THEN <<>> ELSE P[e + 1])
  BY <1>1, <1>2, <1>3, <1>4, Zenon DEF SplitFrom
<1>6. <<head>> \o <<>> = <<head>>
  OBVIOUS
<1>7. e <= n => e + 1 \in p + 1 .. n + 1 /\ ~ (e > n)
  OBVIOUS
<1>8. e > n => P[p] = <<head>>
  BY <1>5, <1>6, Zenon
<1>9. e <= n => e + 1 \in p + 1 .. n + 1 /\ P[p] = <<head>> \o P[e + 1]
  BY <1>5, <1>7, Zenon
<1>10. head = SubSeq(s, p, e - 1) /\ Len(head) = e - p /\ \A j \in 1 .. e - p : head[j] = s[p - 1 + j]
  BY <1>2, <1>3, Zenon
<1> QED BY <1>1, <1>8, <1>9, <1>10, Zenon DEF FirstPiece

\* and for bytes:
LEMMA PieceAndRest ==
    ASSUME NEW s \in Seq(Byte), NEW n \in Nat, n = Len(s), NEW S, NEW P, Splits(s, S, P),
           NEW p \in 1 .. n + 1
    PROVE  \E e \in p .. n + 1, head \in Seq(Byte) : FirstPiece(s, n, S, P, p, e, head)
BY PieceAndRestIn, Zenon

\* They are pieces, and every byte is in one of them or between two.
Covers(pieces, c, S) == c \in S \/ \E k \in 1 .. Len(pieces) : c \in Bytes(pieces[k])
Pieces(s, S, p, pieces) ==
    /\ pieces \in Seq(Seq(Byte)) /\ Len(pieces) > 0
    /\ \A i \in p .. Len(s) : Covers(pieces, s[i], S)
LEMMA PiecesAre ==
    ASSUME NEW s \in Seq(Byte), NEW n \in Nat, n = Len(s), NEW S, NEW P, Splits(s, S, P),
           NEW p \in 1 .. n + 1
    PROVE  Pieces(s, S, p, P[p])
<1>1. ASSUME NEW q \in 1 .. n + 1, \A r \in q + 1 .. n + 1 : Pieces(s, S, r, P[r])
      PROVE  Pieces(s, S, q, P[q])
  <2>0. PICK e \in q .. n + 1, head \in Seq(Byte) : FirstPiece(s, n, S, P, q, e, head)
    BY PieceAndRest
  <2>1. /\ (e <= n => s[e] \in S)
        /\ Len(head) = e - q /\ (\A j \in 1 .. e - q : head[j] = s[q - 1 + j])
        /\ (e > n => P[q] = <<head>>)
        /\ (e <= n => e + 1 \in q + 1 .. n + 1 /\ P[q] = <<head>> \o P[e + 1])
    BY <2>0, Zenon DEF FirstPiece
  <2>2. ASSUME NEW i \in q .. n, i < e PROVE s[i] \in Bytes(head)
    <3>1. PICK j \in 1 .. e - q : q - 1 + j = i
      <4>1. i - q + 1 \in 1 .. e - q /\ q - 1 + (i - q + 1) = i
        BY <2>2
      <4> QED BY <4>1, Zenon
    <3>2. head[j] = s[i]
      BY <2>1, <3>1, Zenon
    <3>3. j \in DOMAIN head
      BY <2>1
    <3> QED BY <3>2, <3>3 DEF Bytes
  <2>3. PICK T : T = Seq(Byte)
    OBVIOUS
  <2>4. head \in T
    BY <2>3
  <2>5. CASE e > n
    <3>1. <<head>> \in Seq(T) /\ Len(<<head>>) > 0 /\ 1 \in 1 .. Len(<<head>>) /\ <<head>>[1] = head
      BY <2>4
    <3>2. \A i \in q .. n : i < e
      BY <2>5
    <3>3. \A i \in q .. n : Covers(<<head>>, s[i], S)
      BY <2>2, <3>1, <3>2, Zenon DEF Covers
    <3>4. Pieces(s, S, q, <<head>>)
      BY <2>3, <3>1, <3>3, Zenon DEF Pieces
    <3> QED BY <2>1, <2>5, <3>4, Zenon
  <2>6. CASE e <= n
    <3>1. Pieces(s, S, e + 1, P[e + 1])
      BY <1>1, <2>1, <2>6, Zenon
    <3>2. PICK r \in Seq(T), l \in Nat : /\ r = P[e + 1] /\ l = Len(r) /\ l > 0
                                         /\ \A i \in e + 1 .. n : Covers(r, s[i], S)
      <4>1. P[e + 1] \in Seq(T) /\ Len(P[e + 1]) > 0 /\ \A i \in e + 1 .. n : Covers(P[e + 1], s[i], S)
        BY <2>3, <3>1, Zenon DEF Pieces
      <4>2. Len(P[e + 1]) \in Nat
        BY <4>1
      <4> QED BY <4>1, <4>2, Zenon
    <3>3. PICK all \in Seq(T) : /\ all = <<head>> \o r /\ Len(all) = l + 1 /\ all[1] = head
                                /\ \A k \in 1 .. l : all[k + 1] = r[k]
      <4>1. Len(r) = l
        BY <3>2, Zenon
      <4> HIDE <3>2
      <4>2. /\ <<head>> \o r \in Seq(T) /\ Len(<<head>> \o r) = l + 1 /\ (<<head>> \o r)[1] = head
            /\ \A k \in 1 .. l : (<<head>> \o r)[k + 1] = r[k]
        BY <2>4, <4>1, ConsIs
      <4> QED BY <4>2, Zenon
    <3>4. P[q] = all
      BY <2>1, <2>6, <3>2, <3>3, Zenon
    <3>5. 1 \in 1 .. l + 1 /\ l + 1 > 0 /\ \A k \in 1 .. l : k + 1 \in 1 .. l + 1
      BY <3>2
    <3>6. ASSUME NEW i \in q .. n PROVE Covers(all, s[i], S)
      <4>1. CASE i < e
        BY <2>2, <3>3, <3>5, <4>1, Zenon DEF Covers
      <4>2. CASE i = e
        BY <2>1, <2>6, <4>2, Zenon DEF Covers
      <4>3. CASE i > e
        <5>1. i \in e + 1 .. n
          BY <4>3
        <5>2. Covers(r, s[i], S)
          BY <3>2, <5>1, Zenon
        <5>3. CASE s[i] \in S
          BY <5>3, Zenon DEF Covers
        <5>4. CASE \E k \in 1 .. l : s[i] \in Bytes(r[k])
          <6>1. PICK k \in 1 .. l : s[i] \in Bytes(r[k])
            BY <5>4
          <6>2. s[i] \in Bytes(all[k + 1]) /\ k + 1 \in 1 .. Len(all)
            BY <3>3, <3>5, <6>1, Zenon
          <6> QED BY <6>2, Zenon DEF Covers
        <5> QED BY <3>2, <5>2, <5>3, <5>4, Zenon DEF Covers
      <4> QED BY <4>1, <4>2, <4>3
    <3> QED BY <2>3, <3>3, <3>4, <3>5, <3>6, Zenon DEF Pieces
  <2> QED BY <2>5, <2>6
<1> DEFINE Bad == {q \in 1 .. n + 1 : ~ Pieces(s, S, q, P[q])}
<1>2. Bad = {}
  <2> SUFFICES ASSUME Bad # {} PROVE FALSE
    OBVIOUS
  <2>1. Bad \in SUBSET (1 .. n + 1) /\ n + 1 \in Nat
    OBVIOUS
  <2> HIDE DEF Bad
  <2>2. PICK q \in Bad : \A r \in q + 1 .. n + 1 : r \notin Bad
    BY <2>1, FromTheEnd
  <2>3. q \in 1 .. n + 1 /\ ~ Pieces(s, S, q, P[q])
    BY DEF Bad
  <2>4. \A r \in q + 1 .. n + 1 : r \in 1 .. n + 1
    BY <2>3
  <2>5. \A r \in q + 1 .. n + 1 : Pieces(s, S, r, P[r])
    BY <2>2, <2>4, Zenon DEF Bad
  <2> QED BY <1>1, <2>3, <2>5, Zenon
<1> QED BY <1>2

\* An entity of the documented form of l bytes: no "&" in it, and its first
\* dot, if any, is behind a name and before a part. d is the position of that
\* dot, f of the next, or l + 1.
Shape(e, l, d, names) ==
    /\ names = Split(e, {DOT}) /\ Len(names) > 0 /\ AMP \notin Bytes(e)
    /\ names[1] \in Seq(Byte) /\ Len(names[1]) = d - 1 /\ \A j \in 1 .. d - 1 : names[1][j] = e[j]
    /\ \A i \in 1 .. d - 1 : e[i] # DOT
    /\ d > l => Len(names) = 1
Parts(e, l, d, f, names) ==
    /\ Len(names) # 1 /\ e[d] = DOT /\ (f <= l => e[f] = DOT) /\ \A i \in d + 1 .. f - 1 : e[i] # DOT
    /\ names[2] \in Seq(Byte) /\ Len(names[2]) = f - (d + 1)
    /\ \A j \in 1 .. f - (d + 1) : names[2][j] = e[d + j]
EntityOf(e, l, d) ==
    \E names : /\ Shape(e, l, d, names)
               /\ d <= l => d < l /\ \E f \in d + 2 .. l + 1 : Parts(e, l, d, f, names)

\* The first of some pieces, and the second.
LEMMA FirstNames ==
    ASSUME NEW S, NEW h \in S, NEW r \in Seq(S), NEW m \in Nat, m = Len(r), m > 0
    PROVE  /\ <<h>>[1] = h /\ Len(<<h>>) = 1 /\ (<<h>> \o r)[1] = h
           /\ Len(<<h>> \o r) > 0 /\ Len(<<h>> \o r) # 1 /\ (<<h>> \o r)[2] = r[1]
<1>1. Len(<<h>> \o r) = m + 1 /\ (<<h>> \o r)[1] = h /\ \A i \in 1 .. m : (<<h>> \o r)[i + 1] = r[i]
  BY ConsIs
<1>2. 1 \in 1 .. m /\ 1 + 1 = 2 /\ m + 1 > 0 /\ m + 1 # 1
  OBVIOUS
<1>3. (<<h>> \o r)[2] = r[1]
  BY <1>1, <1>2, Zenon
<1>4. <<h>>[1] = h /\ Len(<<h>>) = 1
  OBVIOUS
<1> QED BY <1>1, <1>2, <1>3, <1>4, Zenon

LEMMA EntityShape ==
    ASSUME NEW e \in Seq(Byte), NEW l \in Nat, l = Len(e), IsEntity(e)
    PROVE  \E d \in 2 .. l + 1 : EntityOf(e, l, d)
<1>1. PICK P : P = CHOOSE R : Splits(e, {DOT}, R)
  OBVIOUS
<1>2. Splits(e, {DOT}, P)
  BY <1>1, SplitsExists
<1>3. PICK names : names = Split(e, {DOT}) /\ names = P[1]
  BY <1>1, SplitIsChoice, Zenon
<1>4. \A k \in DOMAIN names : names[k] # <<>> /\ AMP \notin Bytes(names[k])
  BY <1>3, Zenon DEF IsEntity
<1>5. 1 \in 1 .. l + 1
  OBVIOUS
<1>6. PICK d \in 1 .. l + 1, head \in Seq(Byte) : FirstPiece(e, l, {DOT}, P, 1, d, head)
  BY <1>2, <1>5, PieceAndRest
<1>7. Pieces(e, {DOT}, 1, names)
  BY <1>2, <1>3, <1>5, PiecesAre
<1>8. PICK T : T = Seq(Byte)
  OBVIOUS
<1>9. names \in Seq(T) /\ Len(names) > 0 /\ (\A i \in 1 .. l : Covers(names, e[i], {DOT}))
  BY <1>7, <1>8, Zenon DEF Pieces
<1>10. DOMAIN names = 1 .. Len(names) /\ Len(names) \in Nat
  BY <1>9
<1>11. AMP \notin Bytes(e)
  <2> SUFFICES ASSUME AMP \in Bytes(e) PROVE FALSE
    OBVIOUS
  <2>1. DOMAIN e = 1 .. l
    OBVIOUS
  <2>2. PICK i \in 1 .. l : e[i] = AMP
    BY <2>1, Zenon DEF Bytes
  <2>3. Covers(names, AMP, {DOT})
    BY <1>9, <2>2, Zenon
  <2>4. AMP \notin {DOT}
    BY DEF AMP, DOT
  <2> QED BY <1>4, <1>10, <2>3, <2>4, Zenon DEF Covers
<1>12. /\ (d <= l => e[d] = DOT) /\ (\A i \in 1 .. d - 1 : e[i] # DOT)
       /\ Len(head) = d - 1 /\ (\A j \in 1 .. d - 1 : head[j] = e[j])
       /\ (d > l => P[1] = <<head>>)
       /\ (d <= l => d + 1 \in 1 + 1 .. l + 1 /\ P[1] = <<head>> \o P[d + 1])
  <2>1. /\ (d <= l => e[d] \in {DOT}) /\ (\A i \in 1 .. d - 1 : e[i] \notin {DOT})
        /\ Len(head) = d - 1 /\ (\A j \in 1 .. d - 1 : head[j] = e[1 - 1 + j])
        /\ (d > l => P[1] = <<head>>)
        /\ (d <= l => d + 1 \in 1 + 1 .. l + 1 /\ P[1] = <<head>> \o P[d + 1])
    BY <1>6, Zenon DEF FirstPiece
  <2>2. \A j \in 1 .. d - 1 : 1 - 1 + j = j
    OBVIOUS
  <2> QED BY <2>1, <2>2, Zenon
<1>13. head \in T
  BY <1>8
<1>14. CASE d > l
  <2>1. <<head>>[1] = head /\ Len(<<head>>) = 1 /\ 1 \in 1 .. 1
    OBVIOUS
  <2>2. names[1] = head /\ Len(names) = 1 /\ names[1] # <<>>
    BY <1>3, <1>4, <1>10, <1>12, <1>14, <2>1, Zenon
  <2>3. Len(head) # 0
    BY <2>2
  <2>4. d \in 2 .. l + 1 /\ ~ (d <= l)
    BY <1>12, <1>14, <2>3
  <2>5. Shape(e, l, d, names)
    BY <1>3, <1>9, <1>11, <1>12, <2>2, Zenon DEF Shape
  <2> QED BY <2>4, <2>5, Zenon DEF EntityOf
<1>15. CASE d <= l
  <2>1. d + 1 \in 1 .. l + 1
    BY <1>15
  <2>2. PICK r : r = P[d + 1]
    OBVIOUS
  <2>3. r \in Seq(T) /\ Len(r) > 0
    <3>1. Pieces(e, {DOT}, d + 1, P[d + 1])
      BY <1>2, <2>1, PiecesAre
    <3> QED BY <1>8, <2>2, <3>1, Zenon DEF Pieces
  <2>4. PICK m \in Nat : m = Len(r) /\ m > 0
    BY <2>3
  <2>5. names = <<head>> \o r
    BY <1>3, <1>12, <1>15, <2>2, Zenon
  <2>6. names[1] = head /\ Len(names) # 1 /\ names[2] = r[1]
    <3>1. (<<head>> \o r)[1] = head /\ Len(<<head>> \o r) # 1 /\ (<<head>> \o r)[2] = r[1]
      <4> HIDE <2>5
      <4> QED BY <1>13, <2>3, <2>4, FirstNames
    <3> QED BY <2>5, <3>1, Zenon
  <2>7. PICK f \in d + 1 .. l + 1, second \in Seq(Byte) :
          FirstPiece(e, l, {DOT}, P, d + 1, f, second)
    BY <1>2, <2>1, PieceAndRest
  <2>8. /\ (f <= l => e[f] = DOT) /\ (\A i \in d + 1 .. f - 1 : e[i] # DOT)
        /\ Len(second) = f - (d + 1) /\ (\A j \in 1 .. f - (d + 1) : second[j] = e[d + j])
        /\ (f > l => r = <<second>>)
        /\ (f <= l => f + 1 \in (d + 1) + 1 .. l + 1 /\ r = <<second>> \o P[f + 1])
    <3>1. /\ (f <= l => e[f] \in {DOT}) /\ (\A i \in d + 1 .. f - 1 : e[i] \notin {DOT})
          /\ Len(second) = f - (d + 1)
          /\ (\A j \in 1 .. f - (d + 1) : second[j] = e[(d + 1) - 1 + j])
          /\ (f > l => P[d + 1] = <<second>>)
          /\ (f <= l => f + 1 \in (d + 1) + 1 .. l + 1 /\ P[d + 1] = <<second>> \o P[f + 1])
      BY <2>7, Zenon DEF FirstPiece
    <3>2. \A j \in 1 .. f - (d + 1) : (d + 1) - 1 + j = d + j
      OBVIOUS
    <3> QED BY <2>2, <3>1, <3>2, Zenon
  <2>9. r[1] = second
    <3>1. CASE f > l
      <4>1. <<second>>[1] = second
        OBVIOUS
      <4> QED BY <2>8, <3>1, <4>1, Zenon
    <3>2. CASE f <= l
      <4>1. f + 1 \in 1 .. l + 1
        BY <3>2
      <4>2. Pieces(e, {DOT}, f + 1, P[f + 1])
        BY <1>2, <4>1, PiecesAre
      <4>3. PICK rest \in Seq(T), k \in Nat : rest = P[f + 1] /\ k = Len(rest) /\ k > 0
        <5>1. P[f + 1] \in Seq(T) /\ Len(P[f + 1]) > 0
          BY <1>8, <4>2, Zenon DEF Pieces
        <5>2. Len(P[f + 1]) \in Nat
          BY <5>1
        <5> QED BY <5>1, <5>2, Zenon
      <4>4. second \in T /\ k = Len(rest) /\ k > 0
        BY <1>8, <4>3
      <4>5. (<<second>> \o rest)[1] = second
        <5> HIDE <4>3
        <5> QED BY <4>4, FirstNames
      <4> QED BY <2>8, <3>2, <4>3, <4>5, Zenon
    <3> QED BY <3>1, <3>2
  <2>10. names[1] # <<>> /\ names[2] # <<>>
    <3>1. PICK k \in Nat : k = Len(names) /\ k # 1 /\ k > 0
      BY <1>9, <1>10, <2>6, Zenon
    <3>2. 1 \in 1 .. k /\ 2 \in 1 .. k
      BY <3>1
    <3> QED BY <1>4, <1>10, <3>1, <3>2, Zenon
  <2>11. Len(head) # 0 /\ Len(second) # 0
    <3>1. head # <<>> /\ second # <<>>
      BY <2>6, <2>9, <2>10, Zenon
    <3> QED BY <3>1
  <2>12. d \in 2 .. l + 1 /\ ~ (d > l) /\ d < l /\ f \in d + 2 .. l + 1
    BY <1>12, <1>15, <2>8, <2>11
  <2>13. Shape(e, l, d, names)
    BY <1>3, <1>9, <1>11, <1>12, <2>6, <2>12, Zenon DEF Shape
  <2>14. Parts(e, l, d, f, names)
    BY <1>12, <1>15, <2>6, <2>8, <2>9, Zenon DEF Parts
  <2> QED BY <2>12, <2>13, <2>14, Zenon DEF EntityOf
<1> QED BY <1>14, <1>15

\* What follows for the first dot, and the byte behind it.
LEMMA FirstDot ==
    ASSUME NEW e, NEW l \in Nat, NEW d \in 2 .. l + 1, EntityOf(e, l, d)
    PROVE  /\ \A i \in 1 .. d - 1 : e[i] # DOT
           /\ d <= l => d + 2 <= l + 1 /\ e[d] = DOT /\ e[d + 1] # DOT
<1>1. PICK names : /\ Shape(e, l, d, names)
                   /\ d <= l => d < l /\ \E f \in d + 2 .. l + 1 : Parts(e, l, d, f, names)
  BY Zenon DEF EntityOf
<1>2. \A i \in 1 .. d - 1 : e[i] # DOT
  BY <1>1, Zenon DEF Shape
<1>3. ASSUME d <= l PROVE d + 2 <= l + 1 /\ e[d] = DOT /\ e[d + 1] # DOT
  <2>1. PICK f \in d + 2 .. l + 1 : Parts(e, l, d, f, names)
    BY <1>1, <1>3, Zenon
  <2>2. e[d] = DOT /\ \A i \in d + 1 .. f - 1 : e[i] # DOT
    BY <2>1, Zenon DEF Parts
  <2>3. d + 1 \in d + 1 .. f - 1 /\ d + 2 <= l + 1
    OBVIOUS
  <2> QED BY <2>2, <2>3, Zenon
<1> QED BY <1>2, <1>3

\* The first of a set, in one piece.
FirstAt(s, n, p, S, e) ==
    e \in p .. n + 1 /\ (e <= n => s[e] \in S) /\ \A i \in p .. e - 1 : s[i] \notin S
LEMMA FirstIsAt ==
    ASSUME NEW s \in Seq(Byte), NEW n \in Nat, n = Len(s), NEW p \in 1 .. n + 1, NEW S, NEW e,
           FirstAt(s, n, p, S, e)
    PROVE  FirstOf(s, p, S) = e
<1>1. e \in p .. n + 1 /\ (e <= n => s[e] \in S) /\ \A i \in p .. e - 1 : s[i] \notin S
  BY Zenon DEF FirstAt
<1> QED BY <1>1, FirstOfAt

\* A C string ends at the first NUL, whatever is behind it.
LEMMA SameCString ==
    ASSUME NEW p \in Seq(Byte), NEW q \in Seq(Byte), NEW k \in Nat, k = Len(q),
           NEW n \in Nat, n = Len(p), k <= n, \A j \in 1 .. k : p[j] = q[j],
           k + 1 <= n => p[k + 1] = NUL
    PROVE  CString(p) = CString(q)
<1>1. 1 \in 1 .. k + 1 /\ 1 \in 1 .. n + 1
  OBVIOUS
<1>2. PICK e \in 1 .. k + 1 : /\ e = FirstOf(q, 1, {NUL}) /\ (e <= k => q[e] \in {NUL})
                              /\ \A i \in 1 .. e - 1 : q[i] \notin {NUL}
  BY <1>1, FirstOfIs, ZenonT(40)
<1>3. FirstOf(p, 1, {NUL}) = e
  <2>1. e \in 1 .. n + 1
    OBVIOUS
  <2>2. \A i \in 1 .. e - 1 : i \in 1 .. k
    OBVIOUS
  <2>3. \A i \in 1 .. e - 1 : p[i] \notin {NUL}
    BY <1>2, <2>2, Zenon
  <2>4. ASSUME e <= n PROVE p[e] \in {NUL}
    <3>1. CASE e <= k
      <4>1. e \in 1 .. k
        BY <3>1
      <4> QED BY <1>2, <3>1, <4>1, Zenon
    <3>2. CASE ~ e <= k
      <4>1. e = k + 1
        BY <3>2
      <4> QED BY <2>4, <4>1
    <3> QED BY <3>1, <3>2
  <2> HIDE <1>2
  <2>5. FirstAt(p, n, 1, {NUL}, e)
    BY <2>1, <2>3, <2>4, Zenon DEF FirstAt
  <2> QED BY <1>1, <2>5, FirstIsAt
<1>4. PICK h \in Nat : h = e - 1
  OBVIOUS
<1>5. h \in 0 .. Len(q) /\ h \in 0 .. Len(p) /\ h \in 0 .. k
  BY <1>4
<1>6. PICK a \in Seq(Byte), b \in Seq(Byte) :
        /\ a = SubSeq(p, 1, h) /\ b = SubSeq(q, 1, h) /\ Len(a) = h /\ Len(b) = h
        /\ \A j \in 1 .. h : a[j] = p[j] /\ b[j] = q[j]
  <2>1. /\ SubSeq(p, 1, h) \in Seq(Byte) /\ Len(SubSeq(p, 1, h)) = h
        /\ \A j \in 1 .. h : SubSeq(p, 1, h)[j] = p[j]
    BY <1>5, SubSeqIs
  <2>2. /\ SubSeq(q, 1, h) \in Seq(Byte) /\ Len(SubSeq(q, 1, h)) = h
        /\ \A j \in 1 .. h : SubSeq(q, 1, h)[j] = q[j]
    BY <1>5, SubSeqIs
  <2> QED BY <2>1, <2>2, Zenon
<1>7. a = b
  <2>1. \A j \in 1 .. h : j \in 1 .. k
    BY <1>5
  <2>2. Len(a) = h /\ Len(b) = h /\ \A j \in 1 .. h : a[j] = b[j]
    BY <1>6, <2>1, Zenon
  <2> HIDE <1>6
  <2> QED BY <2>2, SeqEq
<1> QED BY <1>2, <1>3, <1>4, <1>6, <1>7, Zenon DEF CString

\* What the parser has of an entity when it has read m bytes of it: the parts begin
\* behind the first dot, and are divided by NUL where later dots were.
Dotless(c) == IF c = DOT THEN NUL ELSE c
Reading(full, name, parts, e, d, m) ==
    /\ m # d /\ Len(full) = m /\ \A j \in 1 .. m : full[j] = e[j]
    /\ m < d => Len(name) = m /\ (\A j \in 1 .. m : name[j] = e[j]) /\ parts = <<>>
    /\ m > d => /\ Len(name) = d - 1 /\ \A j \in 1 .. d - 1 : name[j] = e[j]
                /\ Len(parts) = m - d /\ \A j \in 1 .. m - d : parts[j] = Dotless(e[d + j])

\* At its end it has the entity, and gets what the entity stands for.
StandsFor(e, v) == ValueOfEntity(e) = IF v = <<>> THEN <<AMP>> \o e \o <<SEMI>> ELSE v[1]
LEMMA WholeEntity ==
    ASSUME NEW e \in Seq(Byte), NEW l \in Nat, l = Len(e), NEW d \in 2 .. l + 1, EntityOf(e, l, d),
           NEW full \in Seq(Byte), NEW name \in Seq(Byte), NEW parts \in Seq(Byte),
           Reading(full, name, parts, e, d, l)
    PROVE  full = e /\ StandsFor(e, EntityCallback(name, parts))
<1>1. full = e
  <2>1. Len(full) = l /\ Len(e) = l /\ \A j \in 1 .. l : full[j] = e[j]
    BY Zenon DEF Reading
  <2> QED BY <2>1, SeqEq
<1>2. PICK names : /\ Shape(e, l, d, names)
                   /\ d <= l => d < l /\ \E f \in d + 2 .. l + 1 : Parts(e, l, d, f, names)
  BY Zenon DEF EntityOf
<1>3. PICK first \in Seq(Byte) : /\ first = names[1] /\ Len(first) = d - 1
                                 /\ \A j \in 1 .. d - 1 : first[j] = e[j]
  BY <1>2, Zenon DEF Shape
<1>4. PICK k \in Nat : k = d - 1
  OBVIOUS
<1>5. PICK second : second = IF Len(names) = 1 THEN <<>> ELSE names[2]
  OBVIOUS
<1>6. PICK v, u : v = EntityCallback(name, parts) /\ u = EntityCallback(first, second)
  OBVIOUS
<1>7. ValueOfEntity(e) = IF u = <<>> THEN <<AMP>> \o e \o <<SEMI>> ELSE u[1]
  <2>1. names = Split(e, {DOT})
    BY <1>2, Zenon DEF Shape
  <2> QED BY <1>3, <1>5, <1>6, <2>1, Zenon DEF ValueOfEntity
<1>8. name = first
  <2>1. l < d \/ l > d
    BY DEF Reading
  <2>2. CASE l < d
    <3>1. l = k
      BY <1>4, <2>2
    <3>2. Len(name) = k /\ Len(first) = k /\ (\A j \in 1 .. k : name[j] = e[j])
          /\ \A j \in 1 .. k : first[j] = e[j]
      BY <1>3, <1>4, <2>2, <3>1, Zenon DEF Reading
    <3>3. \A j \in 1 .. k : name[j] = first[j]
      BY <3>2, Zenon
    <3> HIDE <1>3
    <3> QED BY <3>2, <3>3, SeqEq
  <2>3. CASE l > d
    <3>2. Len(name) = k /\ Len(first) = k /\ (\A j \in 1 .. k : name[j] = e[j])
          /\ \A j \in 1 .. k : first[j] = e[j]
      BY <1>3, <1>4, <2>3, Zenon DEF Reading
    <3>3. \A j \in 1 .. k : name[j] = first[j]
      BY <3>2, Zenon
    <3> HIDE <1>3
    <3> QED BY <3>2, <3>3, SeqEq
  <2> QED BY <2>1, <2>2, <2>3
<1>9. CString(parts) = CString(second)
  <2>1. CASE d > l
    <3>1. l < d /\ Len(names) = 1
      BY <1>2, <2>1 DEF Shape
    <3>2. parts = <<>>
      BY <3>1, Zenon DEF Reading
    <3> QED BY <1>5, <3>1, <3>2, Zenon
  <2>2. CASE d <= l
    <3>1. PICK f \in d + 2 .. l + 1 : Parts(e, l, d, f, names)
      BY <1>2, <2>2, Zenon
    <3>2. l > d
      BY <1>2, <2>2
    <3>3. PICK n \in Nat, h \in Nat : n = l - d /\ h = f - (d + 1)
      <4>1. l - d \in Nat /\ f - (d + 1) \in Nat
        BY <2>2
      <4> QED BY <4>1, Zenon
    <3>4. PICK q \in Seq(Byte) : /\ q = second /\ h = Len(q)
                                 /\ \A j \in 1 .. h : q[j] = e[d + j]
      BY <1>5, <3>1, <3>3, Zenon DEF Parts
    <3>5. n = Len(parts) /\ \A j \in 1 .. n : parts[j] = Dotless(e[d + j])
      BY <3>2, <3>3, Zenon DEF Reading
    <3>6. h <= n /\ (h + 1 <= n => f <= l) /\ d + (h + 1) = f
      BY <3>3
    <3>7. \A j \in 1 .. h : d + j \in d + 1 .. f - 1 /\ j \in 1 .. n
      BY <3>3, <3>6
    <3>8. (f <= l => e[f] = DOT) /\ \A i \in d + 1 .. f - 1 : e[i] # DOT
      BY <3>1, Zenon DEF Parts
    <3>9. \A j \in 1 .. h : parts[j] = q[j]
      BY <3>4, <3>5, <3>7, <3>8, Zenon DEF Dotless
    <3>10. ASSUME h + 1 <= n PROVE parts[h + 1] = NUL
      <4>1. h + 1 \in 1 .. n
        BY <3>10
      <4> QED BY <3>5, <3>6, <3>8, <3>10, <4>1, Zenon DEF Dotless
    <3>11. CString(parts) = CString(q)
      <4>1. h = Len(q) /\ n = Len(parts)
        BY <3>4, <3>5, Zenon
      <4> HIDE <3>3, <3>4
      <4> QED BY <3>6, <3>9, <3>10, <4>1, SameCString
    <3> QED BY <3>4, <3>11, Zenon
  <2> QED BY <2>1, <2>2
<1>10. v = u
  BY <1>6, <1>8, <1>9, Zenon DEF EntityCallback
<1> QED BY <1>1, <1>6, <1>7, <1>10, Zenon DEF StandsFor

\* A byte more of a sequence that begins like e.
LEMMA OneByteMore ==
    ASSUME NEW s \in Seq(Byte), NEW c \in Byte, NEW m \in Nat, Len(s) = m, NEW e,
           \A j \in 1 .. m : s[j] = e[j], c = e[m + 1]
    PROVE  /\ Append(s, c) \in Seq(Byte) /\ Append(s, c) # <<>> /\ Len(Append(s, c)) = m + 1
           /\ \A j \in 1 .. m + 1 : Append(s, c)[j] = e[j]
<1>1. PICK t \in Seq(Byte) : /\ t = Append(s, c) /\ Len(t) = m + 1 /\ t[m + 1] = c
                             /\ \A k \in 1 .. m : t[k] = s[k]
  <2>1. /\ Append(s, c) \in Seq(Byte) /\ Len(Append(s, c)) = Len(s) + 1
        /\ (\A k \in 1 .. Len(s) : Append(s, c)[k] = s[k]) /\ Append(s, c)[Len(s) + 1] = c
    BY AppendIs
  <2> QED BY <2>1, Zenon
<1>2. \A j \in 1 .. m + 1 : j \in 1 .. m \/ j = m + 1
  OBVIOUS
<1>3. \A j \in 1 .. m + 1 : t[j] = e[j]
  BY <1>1, <1>2, Zenon
<1>4. t # <<>>
  BY <1>1
<1> QED BY <1>1, <1>3, <1>4, Zenon

\* The same one byte behind the first d of e, as it is or with NUL for a dot.
Divided(s, e, d, k) == Len(s) = k /\ \A j \in 1 .. k : s[j] = Dotless(e[d + j])
LEMMA OnePartMore ==
    ASSUME NEW s \in Seq(Byte), NEW k \in Nat, NEW e, NEW d \in Nat, Divided(s, e, d, k),
           NEW c \in Byte, c = Dotless(e[d + (k + 1)])
    PROVE  Append(s, c) \in Seq(Byte) /\ Divided(Append(s, c), e, d, k + 1)
<1>1. PICK f : f = [j \in 1 .. k + 1 |-> Dotless(e[d + j])]
  OBVIOUS
<1>2. \A j \in 1 .. k : j \in 1 .. k + 1
  OBVIOUS
<1>3. k + 1 \in 1 .. k + 1
  OBVIOUS
<1>4. \A j \in 1 .. k + 1 : f[j] = Dotless(e[d + j])
  BY <1>1
<1>5. Len(s) = k /\ (\A j \in 1 .. k : s[j] = f[j]) /\ c = f[k + 1]
  BY <1>2, <1>3, <1>4, Zenon DEF Divided
<1>6. /\ Append(s, c) \in Seq(Byte) /\ Len(Append(s, c)) = k + 1
      /\ \A j \in 1 .. k + 1 : Append(s, c)[j] = f[j]
  <2> HIDE <1>1
  <2> QED BY <1>5, OneByteMore
<1> QED BY <1>4, <1>6, Zenon DEF Divided

\* A byte of an entity that is no dot: of its name, or of its parts.
LEMMA ReadOther ==
    ASSUME NEW e \in Seq(Byte), NEW l \in Nat, l = Len(e), NEW d \in 2 .. l + 1, EntityOf(e, l, d),
           NEW full \in Seq(Byte), NEW name \in Seq(Byte), NEW parts \in Seq(Byte),
           NEW m \in Nat, m < l, Reading(full, name, parts, e, d, m),
           NEW c, c = e[m + 1], c # DOT
    PROVE  Reading(Append(full, c), IF parts = <<>> THEN Append(name, c) ELSE name,
                   IF parts = <<>> THEN parts ELSE Append(parts, c), e, d, m + 1)
<1>1. c \in Byte
  <2>1. m + 1 \in 1 .. Len(e)
    OBVIOUS
  <2> QED BY <2>1
<1>2. m + 1 # d
  <2> SUFFICES ASSUME m + 1 = d PROVE FALSE
    OBVIOUS
  <2>1. d <= l
    OBVIOUS
  <2>2. e[d] = DOT
    BY <2>1, FirstDot
  <2> QED BY <2>2
<1>3. /\ Append(full, c) \in Seq(Byte) /\ Len(Append(full, c)) = m + 1
      /\ \A j \in 1 .. m + 1 : Append(full, c)[j] = e[j]
  <2>1. Len(full) = m /\ \A j \in 1 .. m : full[j] = e[j]
    BY Zenon DEF Reading
  <2> QED BY <1>1, <2>1, OneByteMore
<1>4. CASE m < d
  <2>1. Len(name) = m /\ (\A j \in 1 .. m : name[j] = e[j]) /\ parts = <<>>
    BY <1>4, Zenon DEF Reading
  <2>2. Len(Append(name, c)) = m + 1 /\ \A j \in 1 .. m + 1 : Append(name, c)[j] = e[j]
    BY <1>1, <2>1, OneByteMore
  <2>3. ~ (m + 1 > d)
    BY <1>4
  <2>4. Reading(Append(full, c), Append(name, c), parts, e, d, m + 1)
    BY <1>2, <1>3, <2>1, <2>2, <2>3, Zenon DEF Reading
  <2> QED BY <2>1, <2>4, Zenon
<1>5. CASE m > d
  <2>1. /\ Len(name) = d - 1 /\ (\A j \in 1 .. d - 1 : name[j] = e[j])
        /\ Len(parts) = m - d /\ (\A j \in 1 .. m - d : parts[j] = Dotless(e[d + j]))
    BY <1>5, Zenon DEF Reading
  <2>2. PICK k \in Nat : k = m - d /\ k + 1 = (m + 1) - d /\ d + (k + 1) = m + 1 /\ k > 0
    <3>1. m - d \in Nat /\ (m - d) + 1 = (m + 1) - d /\ d + ((m - d) + 1) = m + 1 /\ m - d > 0
      BY <1>5
    <3> QED BY <3>1, Zenon
  <2>3. Len(parts) = k /\ Divided(parts, e, d, k) /\ c = Dotless(e[d + (k + 1)])
    BY <2>1, <2>2, Zenon DEF Dotless, Divided
  <2>4. Divided(Append(parts, c), e, d, k + 1)
    <3>1. d \in Nat
      OBVIOUS
    <3> HIDE <2>2
    <3> QED BY <1>1, <2>3, <3>1, OnePartMore
  <2>5. parts # <<>>
    BY <2>2, <2>3
  <2>6. ~ (m + 1 < d)
    BY <1>5
  <2>7. Reading(Append(full, c), name, Append(parts, c), e, d, m + 1)
    BY <1>2, <1>3, <2>1, <2>2, <2>4, <2>6, Zenon DEF Reading, Divided
  <2> QED BY <2>5, <2>7, Zenon
<1>6. m # d
  BY Zenon DEF Reading
<1> QED BY <1>4, <1>5, <1>6

\* A dot: the first, which takes the byte behind it with it, or a later one.
LEMMA ReadDot ==
    ASSUME NEW e \in Seq(Byte), NEW l \in Nat, l = Len(e), NEW d \in 2 .. l + 1, EntityOf(e, l, d),
           NEW full \in Seq(Byte), NEW name \in Seq(Byte), NEW parts \in Seq(Byte),
           NEW m \in Nat, m < l, Reading(full, name, parts, e, d, m), e[m + 1] = DOT
    PROVE  /\ name # <<>>
           /\ parts # <<>> => Reading(Append(full, DOT), name, Append(parts, NUL), e, d, m + 1)
           /\ parts = <<>> => /\ m + 2 <= l
                              /\ Reading(full \o <<DOT, e[m + 2]>>, name, <<e[m + 2]>>, e, d, m + 2)
<1>1. DOT \in Byte /\ NUL \in Byte
  BY DEF DOT, NUL, Byte
<1>2. Len(full) = m /\ \A j \in 1 .. m : full[j] = e[j]
  BY Zenon DEF Reading
<1>3. /\ Append(full, DOT) \in Seq(Byte) /\ Len(Append(full, DOT)) = m + 1
      /\ \A j \in 1 .. m + 1 : Append(full, DOT)[j] = e[j]
  BY <1>1, <1>2, OneByteMore, SMTT(30)
<1>4. CASE m < d
  <2>1. Len(name) = m /\ (\A j \in 1 .. m : name[j] = e[j]) /\ parts = <<>>
    BY <1>4, Zenon DEF Reading
  <2>2. m + 1 = d
    <3> SUFFICES ASSUME m + 1 # d PROVE FALSE
      OBVIOUS
    <3>1. m + 1 \in 1 .. d - 1
      BY <1>4
    <3>2. \A i \in 1 .. d - 1 : e[i] # DOT
      BY FirstDot
    <3> QED BY <3>1, <3>2, Zenon
  <2>3. d <= l
    BY <2>2
  <2>4. d + 2 <= l + 1 /\ e[d + 1] # DOT
    BY <2>3, FirstDot
  <2>5. PICK c : c = e[m + 2]
    OBVIOUS
  <2>6. m + 2 <= l /\ m + 2 = d + 1 /\ m + 2 = (m + 1) + 1 /\ m + 2 \in 1 .. l /\ d - 1 = m
        /\ ~ (m + 2 < d) /\ m + 2 # d /\ (m + 2) - d = 1 /\ m + 1 \in Nat
    BY <2>2, <2>4
  <2>7. c \in Byte
    BY <2>5, <2>6
  <2>8. name # <<>>
    BY <2>1, <2>2
  <2>9. /\ Len(Append(Append(full, DOT), c)) = m + 2
        /\ \A j \in 1 .. m + 2 : Append(Append(full, DOT), c)[j] = e[j]
    <3>1. PICK t \in Seq(Byte) : t = Append(full, DOT)
      BY <1>3
    <3>2. PICK n \in Nat : n = m + 1
      OBVIOUS
    <3>3. Len(t) = n /\ (\A j \in 1 .. n : t[j] = e[j]) /\ c = e[n + 1] /\ n + 1 = m + 2
      BY <1>3, <2>5, <2>6, <3>1, <3>2, Zenon
    <3>4. Len(Append(t, c)) = n + 1 /\ \A j \in 1 .. n + 1 : Append(t, c)[j] = e[j]
      <4> HIDE <3>1, <3>2
      <4> QED BY <2>7, <3>3, OneByteMore
    <3> QED BY <3>1, <3>3, <3>4, Zenon
  <2>10. full \o <<DOT, c>> = Append(Append(full, DOT), c)
    BY <1>1, <2>7
  <2>11. Len(<<c>>) = 1 /\ \A j \in 1 .. 1 : <<c>>[j] = Dotless(e[d + j])
    <3>1. <<c>>[1] = Dotless(e[d + 1])
      BY <2>4, <2>5, <2>6 DEF Dotless
    <3> QED BY <3>1
  <2>12. Reading(full \o <<DOT, c>>, name, <<c>>, e, d, m + 2)
    BY <2>1, <2>6, <2>9, <2>10, <2>11, Zenon DEF Reading
  <2> QED BY <2>1, <2>5, <2>6, <2>8, <2>12, Zenon
<1>5. CASE m > d
  <2>1. /\ Len(name) = d - 1 /\ (\A j \in 1 .. d - 1 : name[j] = e[j])
        /\ Len(parts) = m - d /\ (\A j \in 1 .. m - d : parts[j] = Dotless(e[d + j]))
    BY <1>5, Zenon DEF Reading
  <2>2. PICK k \in Nat : k = m - d /\ k + 1 = (m + 1) - d /\ d + (k + 1) = m + 1 /\ k > 0
    <3>1. m - d \in Nat /\ (m - d) + 1 = (m + 1) - d /\ d + ((m - d) + 1) = m + 1 /\ m - d > 0
      BY <1>5
    <3> QED BY <3>1, Zenon
  <2>3. Len(parts) = k /\ Divided(parts, e, d, k) /\ NUL = Dotless(e[d + (k + 1)])
    BY <2>1, <2>2, Zenon DEF Dotless, Divided
  <2>4. Divided(Append(parts, NUL), e, d, k + 1)
    <3>1. d \in Nat
      OBVIOUS
    <3> HIDE <2>2
    <3> QED BY <1>1, <2>3, <3>1, OnePartMore
  <2>5. parts # <<>> /\ name # <<>>
    BY <2>1, <2>2, <2>3
  <2>6. ~ (m + 1 < d) /\ m + 1 # d
    BY <1>5
  <2>7. Reading(Append(full, DOT), name, Append(parts, NUL), e, d, m + 1)
    BY <1>3, <2>1, <2>2, <2>4, <2>6, Zenon DEF Reading, Divided
  <2> QED BY <2>5, <2>7, Zenon
<1>6. m # d
  BY Zenon DEF Reading
<1> QED BY <1>4, <1>5, <1>6

\* The reference, as a choice of what is behind each position.
ReplacedFrom(s, R, p) ==
    IF p > Len(s) THEN <<>>
    ELSE IF s[p] # AMP THEN <<s[p]>> \o R[p + 1]
    ELSE ValueOfEntity(SubSeq(s, p + 1, EntityEnd(s, p) - 1)) \o R[EntityEnd(s, p) + 1]
Replaces(s, R) == R = [p \in 1 .. Len(s) + 1 |-> ReplacedFrom(s, R, p)]
LEMMA ReplacedIsChoice == ASSUME NEW s PROVE Replaced(s) = (CHOOSE R : Replaces(s, R))[1]
BY DEF Replaced, Replaces, ReplacedFrom

\* The entity e of l bytes that begins at position p and ends at f. d is the
\* position of its first dot, or l + 1.
EntityHere(s, p, f, e, l, d) ==
    /\ f = EntityEnd(s, p) /\ f = p + (l + 1) /\ s[f] = SEMI
    /\ e = SubSeq(s, p + 1, f - 1) /\ l = Len(e) /\ l <= EntMaxEntsize
    /\ \A i \in 1 .. l : e[i] = s[p + i] /\ s[p + i] # SEMI /\ s[p + i] # AMP
    /\ EntityOf(e, l, d)

\* Every "&" of a documented text begins one.
LEMMA EntitiesAre ==
    ASSUME NEW s \in Seq(Byte), NEW n \in Nat, n = Len(s), Documented(s), NEW p \in 1 .. n, s[p] = AMP
    PROVE  \E f \in p + 1 .. n, e \in Seq(Byte), l \in Nat :
              \E d \in 2 .. l + 1 : EntityHere(s, p, f, e, l, d)
<1>1. /\ EntityEnd(s, p) <= Len(s) /\ EntityEnd(s, p) - p - 1 <= EntMaxEntsize
      /\ IsEntity(SubSeq(s, p + 1, EntityEnd(s, p) - 1))
  <2>1. DOMAIN s = 1 .. n
    OBVIOUS
  <2> QED BY <2>1, Zenon DEF Documented
<1>2. PICK f \in p .. n + 1 : /\ f = EntityEnd(s, p) /\ (f <= n => s[f] \in {SEMI})
                              /\ \A i \in p .. f - 1 : s[i] \notin {SEMI}
  <2>1. p \in 1 .. n + 1
    OBVIOUS
  <2> QED BY <2>1, FirstOfIs DEF EntityEnd
<1>3. f <= n /\ s[f] = SEMI /\ (\A i \in p .. f - 1 : s[i] # SEMI) /\ f - p - 1 <= EntMaxEntsize
  BY <1>1, <1>2, Zenon
<1>4. f # p
  <2>1. SEMI # AMP
    BY DEF SEMI, AMP
  <2> QED BY <1>3, <2>1
<1>5. PICK l \in Nat : l = f - p - 1 /\ f = p + (l + 1) /\ f - 1 = p + l /\ p + l <= Len(s)
  <2>1. f - p - 1 \in Nat /\ f = p + ((f - p - 1) + 1) /\ f - 1 = p + (f - p - 1)
        /\ p + (f - p - 1) <= Len(s)
    BY <1>3, <1>4
  <2> QED BY <2>1, Zenon
<1>6. PICK e \in Seq(Byte) : /\ e = SubSeq(s, p + 1, f - 1) /\ l = Len(e)
                             /\ \A i \in 1 .. l : e[i] = s[p + i]
  <2>1. p + l <= Len(s) /\ p \in Nat
    BY <1>5
  <2>2. /\ SubSeq(s, p + 1, p + l) \in Seq(Byte) /\ Len(SubSeq(s, p + 1, p + l)) = l
        /\ \A j \in 1 .. l : SubSeq(s, p + 1, p + l)[j] = s[p + j]
    <3> HIDE <1>5
    <3> QED BY <2>1, PartIs
  <2> QED BY <1>5, <2>2, Zenon
<1>7. PICK d \in 2 .. l + 1 : EntityOf(e, l, d)
  <2>1. IsEntity(e) /\ l = Len(e)
    BY <1>1, <1>2, <1>6, Zenon
  <2> HIDE <1>5, <1>6
  <2> QED BY <2>1, EntityShape
<1>8. AMP \notin Bytes(e)
  BY <1>7, Zenon DEF EntityOf, Shape
<1>9. ASSUME NEW i \in 1 .. l PROVE s[p + i] # SEMI /\ s[p + i] # AMP
  <2>1. p + i \in p .. f - 1
    BY <1>5
  <2>2. i \in DOMAIN e
    BY <1>6
  <2>3. e[i] # AMP
    BY <1>8, <2>2, Zenon DEF Bytes
  <2> QED BY <1>3, <1>6, <2>1, <2>3, Zenon
<1>10. f \in p + 1 .. n /\ l <= EntMaxEntsize
  BY <1>3, <1>4, <1>5
<1>11. EntityHere(s, p, f, e, l, d)
  BY <1>2, <1>3, <1>5, <1>6, <1>7, <1>9, <1>10, Zenon DEF EntityHere
<1> QED BY <1>10, <1>11, Zenon

\* What an entity stands for is a string.
LEMMA ValueIs == ASSUME NEW e \in Seq(Byte) PROVE ValueOfEntity(e) \in Seq(Byte)
<1>1. PICK name, parts : ValueOfEntity(e) = LET v == EntityCallback(name, parts)
                                            IN  IF v = <<>> THEN <<AMP>> \o e \o <<SEMI>> ELSE v[1]
  BY Zenon DEF ValueOfEntity
<1>2. AMP \in Byte /\ SEMI \in Byte
  BY DEF AMP, SEMI, Byte
<1>3. <<AMP>> \o e \o <<SEMI>> \in Seq(Byte)
  <2>1. PICK a \in Seq(Byte), b \in Seq(Byte) : a = <<AMP>> /\ b = <<SEMI>>
    BY <1>2, OneByte
  <2>2. a \o e \in Seq(Byte)
    BY CatIn
  <2>3. PICK c \in Seq(Byte) : c = a \o e
    BY <2>2
  <2>4. c \o b \in Seq(Byte)
    BY CatIn
  <2> QED BY <2>1, <2>3, <2>4, Zenon
<1> QED BY <1>1, <1>3, CallbackIs, Zenon

\* From each position the reference goes on from a later one,
LEMMA ReplacedFromIs ==
    ASSUME NEW s \in Seq(Byte), NEW n \in Nat, n = Len(s), Documented(s), NEW p \in 1 .. n
    PROVE  \E v \in Seq(Byte), q \in p + 1 .. n + 1 : \A R : ReplacedFrom(s, R, p) = v \o R[q]
<1>1. ~ (p > Len(s))
  OBVIOUS
<1>2. CASE s[p] = AMP
  <2>1. PICK f \in p + 1 .. n, e \in Seq(Byte), l \in Nat : \E d \in 2 .. l + 1 : EntityHere(s, p, f, e, l, d)
    BY <1>2, EntitiesAre
  <2>2. f = EntityEnd(s, p) /\ e = SubSeq(s, p + 1, f - 1)
    BY <2>1, Zenon DEF EntityHere
  <2>3. PICK v \in Seq(Byte) : v = ValueOfEntity(e)
    BY ValueIs
  <2>4. f + 1 \in p + 1 .. n + 1
    OBVIOUS
  <2>5. \A R : ReplacedFrom(s, R, p) = v \o R[f + 1]
    BY <1>1, <1>2, <2>2, <2>3, Zenon DEF ReplacedFrom
  <2> QED BY <2>4, <2>5, Zenon
<1>3. CASE s[p] # AMP
  <2>1. <<s[p]>> \in Seq(Byte) /\ p + 1 \in p + 1 .. n + 1
    OBVIOUS
  <2>2. \A R : ReplacedFrom(s, R, p) = <<s[p]>> \o R[p + 1]
    BY <1>1, <1>3, Zenon DEF ReplacedFrom
  <2> QED BY <2>1, <2>2, Zenon
<1> QED BY <1>2, <1>3

\* so there is one that says what it makes of each,
LEMMA ReplacesExists ==
    ASSUME NEW s \in Seq(Byte), Documented(s) PROVE \E R : Replaces(s, R)
<1>1. PICK n \in Nat : n = Len(s) /\ DOMAIN s = 1 .. n
  OBVIOUS
<1> DEFINE I == 1 .. n + 1
           V == Seq(Byte)
<1>2. PICK Rule : Rule = [p \in I |-> [f \in [I -> V] |-> ReplacedFrom(s, f, p)]]
  OBVIOUS
<1>3. ASSUME NEW p \in I
      PROVE  \/ \A f : ReplacedFrom(s, f, p) = <<>>
             \/ \E v \in V, q \in p + 1 .. n + 1 : \A f : ReplacedFrom(s, f, p) = v \o f[q]
  <2>1. CASE p = n + 1
    <3>1. p > Len(s)
      BY <1>1, <2>1
    <3> QED BY <3>1, Zenon DEF ReplacedFrom
  <2>2. CASE p # n + 1
    <3>1. p \in 1 .. n
      BY <2>2
    <3> QED BY <1>1, <3>1, ReplacedFromIs, Zenon
  <2> QED BY <2>1, <2>2
<1>4. ASSUME NEW p \in I, NEW f \in [I -> V] PROVE ReplacedFrom(s, f, p) \in V
  <2>1. CASE \A g : ReplacedFrom(s, g, p) = <<>>
    <3>1. <<>> \in Seq(Byte)
      OBVIOUS
    <3> QED BY <2>1, <3>1, Zenon
  <2>2. CASE \E v \in V, q \in p + 1 .. n + 1 : \A g : ReplacedFrom(s, g, p) = v \o g[q]
    <3>1. PICK v \in Seq(Byte), q \in p + 1 .. n + 1 : ReplacedFrom(s, f, p) = v \o f[q]
      BY <2>2, Zenon
    <3>2. q \in I
      OBVIOUS
    <3>3. PICK y \in Seq(Byte) : y = f[q]
      BY <3>2
    <3>4. v \o y \in Seq(Byte)
      BY CatIn
    <3> QED BY <3>1, <3>3, <3>4, Zenon
  <2> QED BY <1>3, <2>1, <2>2, Zenon
<1>5. Rule \in [I -> [[I -> V] -> V]]
  <2> HIDE DEF I, V
  <2> QED BY <1>2, <1>4
<1>6. PICK rank : rank = [p \in I |-> n + 1 - p]
  OBVIOUS
<1>7. rank \in [I -> 0 .. n + 1] /\ \A p \in I : rank[p] = n + 1 - p
  BY <1>6
<1>8. \A p \in I, f \in [I -> V] : Rule[p][f] = ReplacedFrom(s, f, p)
  <2> HIDE DEF I, V
  <2> QED BY <1>2
<1>9. Follows(Rule, I, V, rank)
  <2> SUFFICES ASSUME NEW p \in I, NEW f \in [I -> V], NEW g \in [I -> V],
                      \A q \in I : rank[q] < rank[p] => f[q] = g[q]
               PROVE  Rule[p][f] = Rule[p][g]
    BY Zenon DEF Follows
  <2> SUFFICES ReplacedFrom(s, f, p) = ReplacedFrom(s, g, p)
    <3> HIDE DEF I, V
    <3> QED BY <1>8, Zenon
  <2>1. CASE \A h : ReplacedFrom(s, h, p) = <<>>
    BY <2>1, Zenon
  <2>2. CASE \E v \in V, q \in p + 1 .. n + 1 : \A h : ReplacedFrom(s, h, p) = v \o h[q]
    <3>1. PICK v \in V, q \in p + 1 .. n + 1 : \A h : ReplacedFrom(s, h, p) = v \o h[q]
      BY <2>2, Zenon
    <3>2. q \in I /\ rank[q] < rank[p]
      BY <1>7
    <3>3. f[q] = g[q]
      BY <3>2, Zenon
    <3> QED BY <3>1, <3>3, Zenon
  <2> QED BY <1>3, <2>1, <2>2, Zenon
<1>10. PICK D : D \in [I -> V] /\ \A p \in I : D[p] = Rule[p][D]
  <2>1. V # {} /\ n + 1 \in Nat /\ rank \in [I -> 0 .. n + 1]
    <3>1. <<>> \in Seq(Byte) /\ n + 1 \in Nat
      OBVIOUS
    <3> QED BY <1>7, <3>1, Zenon
  <2>2. Ranked(Rule, I, V, rank, n + 1)
    BY <1>5, <1>9, <2>1, Zenon DEF Ranked
  <2> HIDE DEF I, V
  <2>3. PICK F : Recursive(F, Rule, I, V)
    BY <2>2, RecursionIs
  <2> QED BY <2>3, Zenon DEF Recursive
<1>11. D = [p \in I |-> ReplacedFrom(s, D, p)]
  <2>1. \A p \in I : D[p] = ReplacedFrom(s, D, p)
    BY <1>8, <1>10, Zenon
  <2> HIDE DEF I, V
  <2> QED BY <1>10, <2>1
<1>12. Replaces(s, D)
  BY <1>1, <1>11, Zenon DEF Replaces
<1> QED BY <1>12, Zenon

\* a string.
LEMMA ReplacesAre ==
    ASSUME NEW s \in Seq(Byte), NEW n \in Nat, n = Len(s), Documented(s), NEW R, Replaces(s, R)
    PROVE  R[n + 1] = <<>> /\ \A p \in 1 .. n + 1 : R[p] \in Seq(Byte)
<1>1. \A p \in 1 .. n + 1 : R[p] = ReplacedFrom(s, R, p)
  BY DEF Replaces
<1>2. R[n + 1] = <<>>
  <2>1. n + 1 \in 1 .. n + 1 /\ n + 1 > Len(s)
    OBVIOUS
  <2> QED BY <1>1, <2>1, Zenon DEF ReplacedFrom
<1>3. <<>> \in Seq(Byte)
  OBVIOUS
<1> DEFINE Bad == {p \in 1 .. n + 1 : R[p] \notin Seq(Byte)}
<1>4. Bad = {}
  <2> SUFFICES ASSUME Bad # {} PROVE FALSE
    OBVIOUS
  <2>1. Bad \in SUBSET (1 .. n + 1) /\ n + 1 \in Nat
    OBVIOUS
  <2> HIDE DEF Bad
  <2>2. PICK p \in Bad : \A q \in p + 1 .. n + 1 : q \notin Bad
    BY <2>1, FromTheEnd
  <2>3. p \in 1 .. n + 1 /\ R[p] \notin Seq(Byte)
    BY DEF Bad
  <2>4. p # n + 1
    BY <1>2, <1>3, <2>3
  <2>5. p \in 1 .. n
    BY <2>3, <2>4
  <2>6. PICK v \in Seq(Byte), q \in p + 1 .. n + 1 : \A f : ReplacedFrom(s, f, p) = v \o f[q]
    BY <2>5, ReplacedFromIs, Zenon
  <2>7. q \in 1 .. n + 1
    BY <2>3
  <2>8. R[q] \in Seq(Byte)
    BY <2>2, <2>7, Zenon DEF Bad
  <2>9. PICK y \in Seq(Byte) : y = R[q]
    BY <2>8
  <2>10. v \o y \in Seq(Byte)
    BY CatIn
  <2> QED BY <1>1, <2>3, <2>6, <2>9, <2>10, Zenon
<1> QED BY <1>2, <1>4

\* append_data fails for want of memory, or puts the text behind what is there.
Put(st, text, r) ==
    \/ r.err = RetbufTooLong
    \/ /\ r.err = st.err /\ r.tmp = st.tmp /\ r.curpos = st.curpos + 1
       /\ r.in_entity = st.in_entity /\ r.out = Cat(st.out, text)
LEMMA AppendPuts ==
    ASSUME NEW st, Held(st), NEW n \in Nat, NEW text \in Seq(Byte)
    PROVE  Put(st, text, AppendData(st, n, text))
<1>1. PICK grown : grown = Grown(st, n)
  OBVIOUS
<1>2. PICK out \in Seq(Byte), curpos \in Nat : out = Cat(st.out, text) /\ curpos = st.curpos + 1
  <2>1. st.out \in Seq(Byte)
    BY DEF Held, EntState
  <2>2. st.out \o text \in Seq(Byte)
    BY <2>1, CatIn
  <2> QED BY <2>2, StateFields, Zenon DEF Cat
<1>3. CASE grown # st.cap /\ grown >= EntMaxRetbufsize
  <2>1. AppendData(st, n, text) = [st EXCEPT !.err = RetbufTooLong, !.cap = grown]
    BY <1>1, <1>3, Zenon DEF AppendData
  <2>2. PICK r : r = [st EXCEPT !.err = RetbufTooLong, !.cap = grown]
    OBVIOUS
  <2>3. r.err = RetbufTooLong
    BY <2>2 DEF Held, EntState
  <2> QED BY <2>1, <2>2, <2>3, Zenon DEF Put
<1>4. CASE ~ (grown # st.cap /\ grown >= EntMaxRetbufsize)
  <2>1. AppendData(st, n, text) = [st EXCEPT !.out = out, !.cap = grown, !.curpos = curpos]
    BY <1>1, <1>2, <1>4, Zenon DEF AppendData, Cat
  <2>2. PICK r : r = [st EXCEPT !.out = out, !.cap = grown, !.curpos = curpos]
    OBVIOUS
  <2>3. /\ r.err = st.err /\ r.tmp = st.tmp /\ r.curpos = curpos
        /\ r.in_entity = st.in_entity /\ r.out = out
    BY <2>2 DEF Held, EntState
  <2> QED BY <1>2, <2>1, <2>2, <2>3, Zenon DEF Put
<1> QED BY <1>3, <1>4

\* A byte that is put there as it is.
Passed(s, st, r) ==
    \/ r.err = RetbufTooLong
    \/ /\ r.err = st.err /\ r.tmp = st.tmp + 1 /\ r.curpos = st.curpos + 1
       /\ r.in_entity = st.in_entity /\ r.out = Cat(st.out, <<At(s, st.tmp)>>)
LEMMA PlainPasses ==
    ASSUME NEW s \in Seq(Byte), NEW st, Held(st) PROVE Passed(s, st, Plain(s, st))
<1>1. PICK tmp \in Nat \ {0} : tmp = st.tmp + 1
  BY StateFields
<1>2. PICK r : r = [st EXCEPT !.tmp = tmp]
  OBVIOUS
<1>3. Held(r)
  BY <1>2, HeldPast
<1>4. PICK text \in Seq(Byte) : text = <<At(s, st.tmp)>>
  <2>1. st.tmp \in Nat \ {0}
    BY StateFields
  <2>2. At(s, st.tmp) \in Byte
    BY <2>1, AtIs
  <2> QED BY <2>2, OneByte
<1>5. Plain(s, st) = AppendData(r, 0, text)
  BY <1>1, <1>2, <1>4, Zenon DEF Plain
<1>6. Put(r, text, AppendData(r, 0, text))
  <2>1. PICK n \in Nat : n = 0
    OBVIOUS
  <2>2. Put(r, text, AppendData(r, n, text))
    BY <1>3, AppendPuts
  <2> QED BY <2>1, <2>2
<1>7. /\ r.err = st.err /\ r.tmp = tmp /\ r.curpos = st.curpos
      /\ r.in_entity = st.in_entity /\ r.out = st.out
  BY <1>2 DEF Held, EntState
<1> QED BY <1>1, <1>4, <1>5, <1>6, <1>7, Zenon DEF Put, Passed

\* Where the parser is after some turns: it has failed for want of memory; or it is
\* outside of entities, and what it has put together is followed by what the
\* reference has for the rest; or it has read m bytes of an entity at p.
Failed(r) == Held(r) /\ r.err = RetbufTooLong
Outside(n, R, r, k) ==
    /\ Held(r) /\ r.err = Ok /\ r.tmp = r.curpos + 1 /\ r.curpos \in k .. n
    /\ r.in_entity = FALSE /\ Cat(r.out, R[r.tmp]) = R[1]
ReadingAt(s, R, r, p, f, e, l, d, m) ==
    /\ s[p] = AMP /\ EntityHere(s, p, f, e, l, d) /\ r.tmp = p + (m + 1)
    /\ Reading(r.full, r.name, r.parts, e, d, m) /\ Cat(r.out, R[p]) = R[1]
Within(s, n, R, r, k) ==
    /\ Held(r) /\ r.err = Ok /\ r.tmp = r.curpos + 1 /\ r.curpos \in k .. n
    /\ r.in_entity = TRUE
    /\ \E p \in 1 .. n, e \in Seq(Byte), l \in Nat :
          \E f \in p + 1 .. n, d \in 2 .. l + 1, m \in 0 .. l : ReadingAt(s, R, r, p, f, e, l, d, m)
Turned(s, n, R, r, k) == Failed(r) \/ Outside(n, R, r, k) \/ Within(s, n, R, r, k)

\* A byte outside of entities.
LEMMA PlainTurns ==
    ASSUME NEW s \in Seq(Byte), NEW n \in Nat, n = Len(s), Documented(s), NEW R, Replaces(s, R),
           NEW k \in Nat, NEW st, Outside(n, R, st, k), st.curpos < n, s[st.tmp] # AMP
    PROVE  Turned(s, n, R, Plain(s, st), k + 1)
<1>1. PICK t \in 1 .. n, c \in k .. n : t = st.tmp /\ c = st.curpos /\ t = c + 1 /\ c \in Nat
  BY DEF Outside
<1>2. Held(st) /\ st.err = Ok /\ st.in_entity = FALSE /\ Cat(st.out, R[t]) = R[1]
  BY <1>1, Zenon DEF Outside
<1>3. PICK r : r = Plain(s, st)
  OBVIOUS
<1>4. Held(r) /\ Passed(s, st, r)
  BY <1>2, <1>3, PlainHolds, PlainPasses
<1>5. CASE r.err = RetbufTooLong
  BY <1>3, <1>4, <1>5, Zenon DEF Turned, Failed
<1>6. CASE r.err # RetbufTooLong
  <2>1. PICK b \in Byte : b = s[t] /\ b = At(s, t)
    <3>1. s[t] \in Byte /\ t <= Len(s)
      OBVIOUS
    <3> QED BY <3>1, Zenon DEF At
  <2>2. /\ r.err = Ok /\ r.tmp = t + 1 /\ r.curpos = c + 1 /\ r.in_entity = FALSE
        /\ r.out = Cat(st.out, <<b>>)
    BY <1>1, <1>2, <1>4, <1>6, <2>1, Zenon DEF Passed
  <2>3. R[t] = Cat(<<b>>, R[t + 1])
    <3>1. t \in 1 .. n + 1 /\ ~ (t > Len(s))
      OBVIOUS
    <3>2. R[t] = ReplacedFrom(s, R, t)
      BY <3>1 DEF Replaces
    <3> QED BY <1>1, <2>1, <3>1, <3>2, Zenon DEF ReplacedFrom, Cat
  <2>4. PICK a \in Seq(Byte), h \in Seq(Byte), g \in Seq(Byte) :
          a = st.out /\ h = <<b>> /\ g = R[t + 1]
    <3>1. st.out \in Seq(Byte)
      BY <1>2 DEF Held, EntState
    <3>2. t + 1 \in 1 .. n + 1
      OBVIOUS
    <3>3. R[t + 1] \in Seq(Byte)
      BY <3>2, ReplacesAre
    <3>4. <<b>> \in Seq(Byte)
      OBVIOUS
    <3> QED BY <3>1, <3>3, <3>4, Zenon
  <2>5. Cat(Cat(a, h), g) = Cat(a, Cat(h, g))
    BY CatCat
  <2>6. Cat(r.out, R[t + 1]) = R[1]
    BY <1>2, <2>2, <2>3, <2>4, <2>5, Zenon
  <2>7. t + 1 = (c + 1) + 1 /\ c + 1 \in k + 1 .. n
    BY <1>1
  <2>8. Outside(n, R, r, k + 1)
    BY <1>4, <2>2, <2>6, <2>7, Zenon DEF Outside
  <2> QED BY <1>3, <2>8, Zenon DEF Turned
<1> QED BY <1>5, <1>6

\* The "&" that begins an entity.
LEMMA AmpersandTurns ==
    ASSUME NEW s \in Seq(Byte), NEW n \in Nat, n = Len(s), Documented(s), NEW R,
           NEW k \in Nat, NEW st, Outside(n, R, st, k), st.curpos < n, s[st.tmp] = AMP
    PROVE  Turned(s, n, R, Ampersand(s, st), k + 1)
<1>1. PICK t \in 1 .. n, c \in k .. n : t = st.tmp /\ c = st.curpos /\ t = c + 1 /\ c \in Nat
  BY DEF Outside
<1>2. Held(st) /\ st.err = Ok /\ Cat(st.out, R[t]) = R[1] /\ s[t] = AMP
  BY <1>1, Zenon DEF Outside
<1>3. PICK f \in t + 1 .. n, e \in Seq(Byte), l \in Nat :
        \E d \in 2 .. l + 1 : EntityHere(s, t, f, e, l, d)
  BY <1>2, EntitiesAre
<1>4. PICK d \in 2 .. l + 1 : EntityHere(s, t, f, e, l, d)
  BY <1>3
<1>5. f = t + (l + 1) /\ \A i \in 1 .. l : s[t + i] # AMP
  BY <1>4, Zenon DEF EntityHere
<1>6. 1 \in 1 .. l /\ 0 \in 0 .. l /\ 0 # d /\ 0 < d /\ ~ (0 > d) /\ t + 1 <= n
  BY <1>5
<1>7. At(s, t + 1) # AMP
  <2>1. s[t + 1] # AMP
    BY <1>5, <1>6, Zenon
  <2>2. t + 1 <= Len(s)
    BY <1>6
  <2> QED BY <2>1, <2>2, Zenon DEF At
<1>8. PICK tmp \in Nat \ {0}, curpos \in Nat : tmp = st.tmp + 1 /\ curpos = st.curpos + 1
  BY <1>2, StateFields
<1>9. PICK r : r = [st EXCEPT !.tmp = tmp, !.curpos = curpos, !.in_entity = TRUE,
                              !.name = <<>>, !.parts = <<>>, !.full = <<>>]
  OBVIOUS
<1>10. Ampersand(s, st) = r
  BY <1>1, <1>7, <1>8, <1>9, Zenon DEF Ampersand
<1>11. Held(r)
  <2>1. Held(Ampersand(s, st))
    BY <1>2, AmpersandHolds
  <2> QED BY <1>10, <2>1, Zenon
<1>12. /\ r.err = st.err /\ r.tmp = tmp /\ r.curpos = curpos /\ r.in_entity = TRUE
       /\ r.name = <<>> /\ r.parts = <<>> /\ r.full = <<>> /\ r.out = st.out
  BY <1>2, <1>9 DEF Held, EntState
<1>13. Reading(<<>>, <<>>, <<>>, e, d, 0)
  <2>1. Len(<<>>) = 0 /\ 1 .. 0 = {}
    OBVIOUS
  <2> QED BY <1>6, <2>1, Zenon DEF Reading
<1>14. tmp = t + (0 + 1) /\ tmp = curpos + 1 /\ curpos \in k + 1 .. n /\ t \in 1 .. n
  <2>1. tmp = t + 1 /\ curpos = c + 1 /\ t = c + 1
    BY <1>1, <1>8, Zenon
  <2> QED BY <2>1
<1>15. ReadingAt(s, R, r, t, f, e, l, d, 0)
  BY <1>2, <1>4, <1>12, <1>13, <1>14, Zenon DEF ReadingAt
<1>16. Within(s, n, R, r, k + 1)
  BY <1>2, <1>6, <1>11, <1>12, <1>14, <1>15, Zenon DEF Within
<1> QED BY <1>10, <1>16, Zenon DEF Turned

\* The parser in an entity of which it has not read all.
Begun(s, n, R, st, k, p, f, e, l, d, m, t, c) ==
    /\ Within(s, n, R, st, k) /\ ReadingAt(s, R, st, p, f, e, l, d, m)
    /\ t = st.tmp /\ t = p + (m + 1) /\ t = c + 1 /\ c = st.curpos /\ c \in k .. n

\* A byte of an entity that is no dot.
LEMMA OtherTurns ==
    ASSUME NEW s \in Seq(Byte), NEW n \in Nat, n = Len(s), NEW R, NEW k \in Nat, NEW st,
           NEW p \in 1 .. n, NEW f \in p + 1 .. n, NEW e \in Seq(Byte), NEW l \in Nat,
           NEW d \in 2 .. l + 1, NEW m \in 0 .. l, NEW t \in Nat, NEW c \in Nat,
           Begun(s, n, R, st, k, p, f, e, l, d, m, t, c), m < l, s[t] # DOT
    PROVE  Turned(s, n, R, Other(s, st), k + 1)
<1>1. /\ Held(st) /\ st.err = Ok /\ st.in_entity = TRUE
      /\ t = st.tmp /\ t = p + (m + 1) /\ t = c + 1 /\ c = st.curpos /\ c \in k .. n
      /\ s[p] = AMP /\ EntityHere(s, p, f, e, l, d)
      /\ Reading(st.full, st.name, st.parts, e, d, m) /\ Cat(st.out, R[p]) = R[1]
  BY Zenon DEF Begun, Within, ReadingAt
<1>2. f = p + (l + 1) /\ l = Len(e) /\ l <= EntMaxEntsize /\ EntityOf(e, l, d)
      /\ \A i \in 1 .. l : e[i] = s[p + i]
  BY <1>1, Zenon DEF EntityHere
<1>3. m \in Nat /\ m + 1 \in 1 .. l /\ m + 1 \in 0 .. l /\ t <= n /\ t + 1 = p + ((m + 1) + 1)
      /\ t + 1 = (c + 1) + 1 /\ c + 1 \in k + 1 .. n /\ ~ (m >= EntMaxEntsize)
  <2>1. t = p + (m + 1) /\ t = c + 1 /\ c \in k .. n /\ f = p + (l + 1) /\ l <= EntMaxEntsize
        /\ EntMaxEntsize \in Nat
    BY <1>1, <1>2, EntAssumption, Zenon
  <2> HIDE <1>1, <1>2
  <2> QED BY <2>1
<1>4. PICK b \in Byte : b = e[m + 1] /\ b = s[t] /\ b = At(s, st.tmp) /\ b # DOT
  <2>1. e[m + 1] \in Byte
    <3>1. m + 1 \in 1 .. Len(e)
      BY <1>2, <1>3, Zenon
    <3> QED BY <3>1
  <2>2. e[m + 1] = s[t]
    BY <1>1, <1>2, <1>3, Zenon
  <2>3. At(s, t) = s[t]
    BY <1>3 DEF At
  <2> QED BY <1>1, <2>1, <2>2, <2>3, Zenon
<1>5. PICK full \in Seq(Byte), name \in Seq(Byte), parts \in Seq(Byte) :
        full = st.full /\ name = st.name /\ parts = st.parts
  BY <1>1, StateFields
<1>6. PICK full2, name2, parts2, tmp, curpos :
        /\ full2 = Append(full, b)
        /\ name2 = IF parts = <<>> THEN Append(name, b) ELSE name
        /\ parts2 = IF parts = <<>> THEN parts ELSE Append(parts, b)
        /\ tmp = t + 1 /\ curpos = c + 1
  OBVIOUS
<1>7. Reading(full2, name2, parts2, e, d, m + 1)
  <2>1. Reading(full, name, parts, e, d, m) /\ l = Len(e)
    BY <1>1, <1>2, <1>5, Zenon
  <2>2. Reading(Append(full, b), IF parts = <<>> THEN Append(name, b) ELSE name,
                IF parts = <<>> THEN parts ELSE Append(parts, b), e, d, m + 1)
    <3> HIDE <1>5, <1>6
    <3> QED BY <1>2, <1>3, <1>4, <2>1, ReadOther
  <2> QED BY <1>6, <2>2, Zenon
<1>8. PICK r : r = [st EXCEPT !.tmp = tmp, !.curpos = curpos, !.full = full2, !.name = name2,
                              !.parts = parts2]
  OBVIOUS
<1>9. Len(full) = m
  BY <1>1, <1>5, Zenon DEF Reading
<1>10. Other(s, st) = r
  BY <1>1, <1>3, <1>4, <1>5, <1>6, <1>8, <1>9, Zenon DEF Other
<1>11. Held(r)
  <2>1. Held(Other(s, st))
    BY <1>1, OtherHolds
  <2> QED BY <1>10, <2>1, Zenon
<1>12. /\ r.err = st.err /\ r.tmp = tmp /\ r.curpos = curpos /\ r.in_entity = st.in_entity
       /\ r.name = name2 /\ r.parts = parts2 /\ r.full = full2 /\ r.out = st.out
  <2> HIDE <1>6
  <2> QED BY <1>1, <1>8 DEF Held, EntState
<1>13. ReadingAt(s, R, r, p, f, e, l, d, m + 1)
  BY <1>1, <1>3, <1>6, <1>7, <1>12, Zenon DEF ReadingAt
<1>14. Within(s, n, R, r, k + 1)
  BY <1>1, <1>3, <1>6, <1>11, <1>12, <1>13, Zenon DEF Within
<1> QED BY <1>10, <1>14, Zenon DEF Turned

\* A dot in an entity.
LEMMA DotTurns ==
    ASSUME NEW s \in Seq(Byte), NEW n \in Nat, n = Len(s), NEW R, NEW k \in Nat, NEW st,
           NEW p \in 1 .. n, NEW f \in p + 1 .. n, NEW e \in Seq(Byte), NEW l \in Nat,
           NEW d \in 2 .. l + 1, NEW m \in 0 .. l, NEW t \in Nat, NEW c \in Nat,
           Begun(s, n, R, st, k, p, f, e, l, d, m, t, c), m < l, s[t] = DOT
    PROVE  Turned(s, n, R, Dot(s, st), k + 1)
<1>1. /\ Held(st) /\ st.err = Ok /\ st.in_entity = TRUE
      /\ t = st.tmp /\ t = p + (m + 1) /\ t = c + 1 /\ c = st.curpos /\ c \in k .. n
      /\ s[p] = AMP /\ EntityHere(s, p, f, e, l, d)
      /\ Reading(st.full, st.name, st.parts, e, d, m) /\ Cat(st.out, R[p]) = R[1]
  BY Zenon DEF Begun, Within, ReadingAt
<1>2. f = p + (l + 1) /\ l = Len(e) /\ EntityOf(e, l, d)
      /\ \A i \in 1 .. l : e[i] = s[p + i]
  BY <1>1, Zenon DEF EntityHere
<1>3. m \in Nat /\ m + 1 \in 1 .. l /\ m + 1 \in 0 .. l /\ t <= n /\ t + 1 = p + ((m + 1) + 1)
      /\ t + 1 = (c + 1) + 1 /\ c + 1 \in k + 1 .. n
  <2>1. t = p + (m + 1) /\ t = c + 1 /\ c \in k .. n /\ f = p + (l + 1)
    BY <1>1, <1>2, Zenon
  <2> HIDE <1>1, <1>2
  <2> QED BY <2>1
<1>4. e[m + 1] = DOT
  <2>1. e[m + 1] = s[t]
    BY <1>1, <1>2, <1>3, Zenon
  <2> QED BY <2>1
<1>5. PICK full \in Seq(Byte), name \in Seq(Byte), parts \in Seq(Byte) :
        full = st.full /\ name = st.name /\ parts = st.parts
  BY <1>1, StateFields
<1>6. /\ name # <<>>
      /\ parts # <<>> => Reading(Append(full, DOT), name, Append(parts, NUL), e, d, m + 1)
      /\ parts = <<>> => /\ m + 2 <= l
                         /\ Reading(full \o <<DOT, e[m + 2]>>, name, <<e[m + 2]>>, e, d, m + 2)
  <2>1. Reading(full, name, parts, e, d, m) /\ l = Len(e)
    BY <1>1, <1>2, <1>5, Zenon
  <2> HIDE <1>5
  <2> QED BY <1>2, <1>3, <1>4, <2>1, ReadDot
<1>7. Held(Dot(s, st))
  BY <1>1, DotHolds
\* An entity of the documented size leaves room for the dot.
<1>10. PICK more \in {1, 2} :
         /\ more = IF parts # <<>> THEN 1 ELSE 2
         /\ ~ (Len(full) + more > EntMaxEntsize + 1)
  <2>1. Len(full) = m
    BY <1>1, <1>5, Zenon DEF Reading
  <2>2. l <= EntMaxEntsize
    BY <1>1, Zenon DEF EntityHere
  <2>3. PICK more \in {1, 2} : more = IF parts # <<>> THEN 1 ELSE 2
    OBVIOUS
  <2>4. m + more <= l + 1
    BY <1>6, <2>3
  <2>5. EntMaxEntsize \in Nat
    BY EntAssumption
  <2>6. ~ (Len(full) + more > EntMaxEntsize + 1)
    BY <2>1, <2>2, <2>4, <2>5
  <2> QED BY <2>3, <2>6
<1>8. CASE parts # <<>>
  <2>1. PICK full2, parts2, tmp, curpos :
          /\ full2 = Append(full, DOT) /\ parts2 = Append(parts, NUL)
          /\ tmp = t + 1 /\ curpos = c + 1
    OBVIOUS
  <2>2. PICK r : r = [st EXCEPT !.tmp = tmp, !.curpos = curpos, !.full = full2, !.parts = parts2]
    OBVIOUS
  <2>3. Dot(s, st) = r
    BY <1>1, <1>5, <1>6, <1>8, <1>10, <2>1, <2>2, Zenon DEF Dot
  <2>4. /\ r.err = st.err /\ r.tmp = tmp /\ r.curpos = curpos /\ r.in_entity = st.in_entity
        /\ r.name = st.name /\ r.parts = parts2 /\ r.full = full2 /\ r.out = st.out
    <3> HIDE <2>1
    <3> QED BY <1>1, <2>2 DEF Held, EntState
  <2>5. ReadingAt(s, R, r, p, f, e, l, d, m + 1)
    BY <1>1, <1>3, <1>5, <1>6, <1>8, <2>1, <2>4, Zenon DEF ReadingAt
  <2>6. Within(s, n, R, r, k + 1)
    BY <1>1, <1>3, <1>7, <2>1, <2>3, <2>4, <2>5, Zenon DEF Within
  <2> QED BY <2>3, <2>6, Zenon DEF Turned
<1>9. CASE parts = <<>>
  <2>1. PICK b : b = e[m + 2]
    OBVIOUS
  <2>2. m + 2 \in 1 .. l /\ m + 2 \in 0 .. l /\ t + 1 = p + (m + 2) /\ t + 1 <= n
        /\ t + 2 = p + ((m + 2) + 1) /\ t + 2 = (c + 2) + 1 /\ c + 2 \in k + 1 .. n
    <3>1. m + 2 <= l /\ f = p + (l + 1) /\ t = p + (m + 1) /\ t = c + 1 /\ c \in k .. n
      BY <1>1, <1>2, <1>6, <1>9, Zenon
    <3>2. m \in Nat
      OBVIOUS
    <3> QED BY <3>1, <3>2
  <2>3. b = At(s, st.tmp + 1)
    <3>1. b = s[t + 1]
      BY <1>2, <2>1, <2>2, Zenon
    <3>2. t + 1 <= Len(s)
      BY <2>2
    <3> QED BY <1>1, <3>1, <3>2, Zenon DEF At
  <2>4. PICK full2, parts2, tmp, curpos :
          /\ full2 = full \o <<DOT, b>> /\ parts2 = <<b>>
          /\ tmp = t + 2 /\ curpos = c + 2
    OBVIOUS
  <2>5. PICK r : r = [st EXCEPT !.tmp = tmp, !.curpos = curpos, !.full = full2, !.parts = parts2]
    OBVIOUS
  <2>6. Dot(s, st) = r
    BY <1>1, <1>5, <1>6, <1>9, <1>10, <2>3, <2>4, <2>5, Zenon DEF Dot
  <2>7. /\ r.err = st.err /\ r.tmp = tmp /\ r.curpos = curpos /\ r.in_entity = st.in_entity
        /\ r.name = st.name /\ r.parts = parts2 /\ r.full = full2 /\ r.out = st.out
    <3> HIDE <2>4
    <3> QED BY <1>1, <2>5 DEF Held, EntState
  <2>8. Reading(full2, name, parts2, e, d, m + 2)
    BY <1>6, <1>9, <2>1, <2>4, Zenon
  <2>9. ReadingAt(s, R, r, p, f, e, l, d, m + 2)
    BY <1>1, <1>5, <2>2, <2>4, <2>7, <2>8, Zenon DEF ReadingAt
  <2>10. Within(s, n, R, r, k + 1)
    BY <1>1, <1>7, <2>2, <2>4, <2>6, <2>7, <2>9, Zenon DEF Within
  <2> QED BY <2>6, <2>10, Zenon DEF Turned
<1> QED BY <1>8, <1>9

\* The end of an entity, which is replaced.
LEMMA SemicolonTurns ==
    ASSUME NEW s \in Seq(Byte), NEW n \in Nat, n = Len(s), Documented(s), NEW R, Replaces(s, R),
           NEW k \in Nat, NEW st,
           NEW p \in 1 .. n, NEW f \in p + 1 .. n, NEW e \in Seq(Byte), NEW l \in Nat,
           NEW d \in 2 .. l + 1, NEW t \in Nat, NEW c \in Nat,
           Begun(s, n, R, st, k, p, f, e, l, d, l, t, c)
    PROVE  Turned(s, n, R, Semicolon(s, st), k + 1)
<1>1. /\ Held(st) /\ st.err = Ok /\ st.in_entity = TRUE
      /\ t = st.tmp /\ t = p + (l + 1) /\ t = c + 1 /\ c = st.curpos /\ c \in k .. n
      /\ s[p] = AMP /\ EntityHere(s, p, f, e, l, d)
      /\ Reading(st.full, st.name, st.parts, e, d, l) /\ Cat(st.out, R[p]) = R[1]
  BY Zenon DEF Begun, Within, ReadingAt
<1>2. /\ f = EntityEnd(s, p) /\ f = p + (l + 1) /\ e = SubSeq(s, p + 1, f - 1) /\ l = Len(e)
      /\ EntityOf(e, l, d)
  BY <1>1, Zenon DEF EntityHere
<1>3. t = f /\ t + 1 = (c + 1) + 1 /\ c + 1 \in k + 1 .. n /\ f + 1 \in 1 .. n + 1
      /\ p \in 1 .. n + 1 /\ ~ (p > Len(s))
  <2>1. t = f
    BY <1>1, <1>2, Zenon
  <2>2. t = c + 1 /\ c \in k .. n
    BY <1>1, Zenon
  <2> QED BY <2>1, <2>2
<1>4. PICK full \in Seq(Byte), name \in Seq(Byte), parts \in Seq(Byte) :
        full = st.full /\ name = st.name /\ parts = st.parts
  BY <1>1, StateFields
<1>5. PICK v : v = EntityCallback(name, parts)
  OBVIOUS
<1>6. full = e /\ ValueOfEntity(e) = IF v = <<>> THEN <<AMP>> \o e \o <<SEMI>> ELSE v[1]
  <2>1. Reading(full, name, parts, e, d, l) /\ l = Len(e)
    BY <1>1, <1>2, <1>4, Zenon
  <2>2. full = e /\ StandsFor(e, EntityCallback(name, parts))
    <3> HIDE <1>4, <1>5
    <3> QED BY <1>2, <2>1, WholeEntity
  <2> QED BY <1>5, <2>2, Zenon DEF StandsFor
<1>7. PICK text \in Seq(Byte) : text = ValueOfEntity(e)
  BY ValueIs
<1>8. PICK tmp \in Nat \ {0} : tmp = t + 1
  OBVIOUS
<1>9. PICK next : next = [st EXCEPT !.tmp = tmp, !.in_entity = FALSE]
  OBVIOUS
<1>10. Held(next)
  BY <1>1, <1>9, HeldLeft
<1>11. /\ next.err = st.err /\ next.tmp = tmp /\ next.curpos = st.curpos
       /\ next.in_entity = FALSE /\ next.out = st.out
  <2> HIDE <1>8
  <2> QED BY <1>1, <1>9 DEF Held, EntState
<1>12. \E h \in Nat : Semicolon(s, st) = AppendData(next, h, text)
  <2>1. Semicolon(s, st) =
          IF v # <<>> THEN AppendData(next, Len(v[1]), v[1])
          ELSE IF full = <<>> THEN Plain(s, next)
          ELSE AppendData(next, Len(full), <<AMP>> \o full \o <<SEMI>>)
    BY <1>1, <1>4, <1>5, <1>8, <1>9, Zenon DEF Semicolon
  <2>2. CASE v # <<>>
    <3>1. text = v[1] /\ Len(text) \in Nat
      BY <1>6, <1>7, <2>2
    <3> QED BY <2>1, <2>2, <3>1, Zenon
  <2>3. CASE v = <<>>
    <3>1. full # <<>>
      <4>1. Len(full) = l /\ l # 0
        BY <1>2, <1>6
      <4> QED BY <4>1
    <3>2. text = <<AMP>> \o full \o <<SEMI>> /\ Len(full) \in Nat
      BY <1>6, <1>7, <2>3
    <3> QED BY <2>1, <2>3, <3>1, <3>2, Zenon
  <2> QED BY <2>2, <2>3
<1>13. PICK h \in Nat : Semicolon(s, st) = AppendData(next, h, text)
  BY <1>12
<1>14. PICK r : r = Semicolon(s, st)
  OBVIOUS
<1>15. Put(next, text, r)
  <2>1. Put(next, text, AppendData(next, h, text))
    <3> HIDE <1>7, <1>9
    <3> QED BY <1>10, AppendPuts
  <2> QED BY <1>13, <1>14, <2>1, Zenon
<1>16. Held(r)
  BY <1>1, <1>14, SemicolonHolds
<1>17. CASE r.err = RetbufTooLong
  BY <1>14, <1>16, <1>17, Zenon DEF Turned, Failed
<1>18. CASE r.err # RetbufTooLong
  <2>1. /\ r.err = Ok /\ r.tmp = t + 1 /\ r.curpos = c + 1 /\ r.in_entity = FALSE
        /\ r.out = Cat(st.out, text)
    BY <1>1, <1>8, <1>11, <1>15, <1>18, Zenon DEF Put
  <2>2. R[p] = Cat(text, R[f + 1])
    <3>1. R[p] = ReplacedFrom(s, R, p)
      BY <1>3 DEF Replaces
    <3> QED BY <1>1, <1>2, <1>3, <1>7, <3>1, Zenon DEF ReplacedFrom, Cat
  <2>3. PICK a \in Seq(Byte), g \in Seq(Byte) : a = st.out /\ g = R[f + 1]
    <3>1. st.out \in Seq(Byte)
      BY <1>1 DEF Held, EntState
    <3>2. R[f + 1] \in Seq(Byte)
      BY <1>3, ReplacesAre
    <3> QED BY <3>1, <3>2, Zenon
  <2>4. Cat(Cat(a, text), g) = Cat(a, Cat(text, g))
    BY CatCat
  <2>5. Cat(r.out, R[t + 1]) = R[1]
    BY <1>1, <1>3, <2>1, <2>2, <2>3, <2>4, Zenon
  <2>6. Outside(n, R, r, k + 1)
    BY <1>3, <1>16, <2>1, <2>5, Zenon DEF Outside
  <2> QED BY <1>14, <2>6, Zenon DEF Turned
<1> QED BY <1>17, <1>18

\* One turn of the loop.
LEMMA TurnTurns ==
    ASSUME NEW s \in Seq(Byte), NEW n \in Nat, n = Len(s), Documented(s), NEW R, Replaces(s, R),
           NEW k \in Nat, k < n, NEW st, Turned(s, n, R, st, k)
    PROVE  Turned(s, n, R, EntStep(s, st), k + 1)
<1>0. AMP # SEMI /\ AMP # DOT /\ SEMI # DOT /\ Ok # RetbufTooLong
  BY DEF AMP, SEMI, DOT, Ok, RetbufTooLong
<1>1. EntStep(s, st) =
        IF st.err # Ok \/ st.curpos >= n THEN st
        ELSE CASE At(s, st.tmp) = AMP -> Ampersand(s, st)
               [] At(s, st.tmp) = SEMI -> Semicolon(s, st)
               [] At(s, st.tmp) = DOT -> Dot(s, st)
               [] OTHER -> Other(s, st)
  BY DEF EntStep
<1>2. CASE Failed(st)
  <2>1. st.err # Ok
    BY <1>0, <1>2, Zenon DEF Failed
  <2> QED BY <1>1, <1>2, <2>1, Zenon DEF Turned
<1>3. CASE Outside(n, R, st, k) /\ st.curpos >= n
  <2>1. st.curpos \in k + 1 .. n
    BY <1>3 DEF Outside
  <2>2. Outside(n, R, st, k + 1)
    BY <1>3, <2>1, Zenon DEF Outside
  <2> QED BY <1>1, <1>3, <2>2, Zenon DEF Turned
<1>4. CASE Within(s, n, R, st, k) /\ st.curpos >= n
  <2>1. st.curpos \in k + 1 .. n
    BY <1>4 DEF Within
  <2>2. Within(s, n, R, st, k + 1)
    BY <1>4, <2>1, Zenon DEF Within
  <2> QED BY <1>1, <1>4, <2>2, Zenon DEF Turned
<1>5. CASE Outside(n, R, st, k) /\ ~ (st.curpos >= n)
  <2>1. PICK t \in 1 .. n : t = st.tmp
    BY <1>5 DEF Outside
  <2>2. st.err = Ok /\ ~ st.in_entity /\ st.curpos < n
    BY <1>5 DEF Outside
  <2>3. At(s, t) = s[t]
    BY DEF At
  <2>4. CASE s[t] = AMP
    <3>1. Turned(s, n, R, Ampersand(s, st), k + 1)
      BY <1>5, <2>1, <2>2, <2>4, AmpersandTurns
    <3>2. EntStep(s, st) = Ampersand(s, st)
      BY <1>0, <1>1, <1>5, <2>1, <2>2, <2>3, <2>4
    <3> QED BY <3>1, <3>2, Zenon
  <2>5. CASE s[t] # AMP
    <3>1. Turned(s, n, R, Plain(s, st), k + 1)
      BY <1>5, <2>1, <2>2, <2>5, PlainTurns
    <3>2. Semicolon(s, st) = Plain(s, st) /\ Dot(s, st) = Plain(s, st) /\ Other(s, st) = Plain(s, st)
      BY <2>2, Zenon DEF Semicolon, Dot, Other
    <3>3. EntStep(s, st) = Plain(s, st)
      BY <1>1, <1>5, <2>1, <2>2, <2>3, <2>5, <3>2
    <3> QED BY <3>1, <3>3, Zenon
  <2> QED BY <2>4, <2>5
<1>6. CASE Within(s, n, R, st, k) /\ ~ (st.curpos >= n)
  <2>1. PICK p \in 1 .. n, e \in Seq(Byte), l \in Nat :
          \E f \in p + 1 .. n, d \in 2 .. l + 1, m \in 0 .. l : ReadingAt(s, R, st, p, f, e, l, d, m)
    BY <1>6, Zenon DEF Within
  <2>2. PICK f \in p + 1 .. n, d \in 2 .. l + 1, m \in 0 .. l :
          ReadingAt(s, R, st, p, f, e, l, d, m)
    BY <2>1, Zenon
  <2>3. PICK c \in Nat, t \in Nat : c = st.curpos /\ t = st.tmp /\ t = c + 1 /\ c \in k .. n
    BY <1>6 DEF Within
  <2>4. /\ t = p + (m + 1) /\ f = p + (l + 1) /\ s[f] = SEMI
        /\ \A i \in 1 .. l : s[p + i] # SEMI /\ s[p + i] # AMP
    BY <2>2, <2>3, Zenon DEF ReadingAt, EntityHere
  <2>5. Begun(s, n, R, st, k, p, f, e, l, d, m, t, c)
    BY <1>6, <2>2, <2>3, <2>4, Zenon DEF Begun
  <2>6. At(s, t) = s[t]
    BY <2>4 DEF At
  <2>7. st.err = Ok
    BY <1>6, Zenon DEF Within
  <2>8. CASE m = l
    <3>1. t = f
      BY <2>4, <2>8, Zenon
    <3>2. Begun(s, n, R, st, k, p, f, e, l, d, l, t, c)
      BY <2>5, <2>8, Zenon
    <3>3. Turned(s, n, R, Semicolon(s, st), k + 1)
      BY <3>2, SemicolonTurns
    <3>4. EntStep(s, st) = Semicolon(s, st)
      BY <1>0, <1>1, <1>6, <2>3, <2>4, <2>6, <2>7, <3>1
    <3> QED BY <3>3, <3>4, Zenon
  <2>9. CASE m # l
    <3>1. m < l /\ m + 1 \in 1 .. l
      BY <2>9
    <3>2. s[t] # SEMI /\ s[t] # AMP
      BY <2>4, <3>1, Zenon
    <3>3. CASE s[t] = DOT
      <4>1. Turned(s, n, R, Dot(s, st), k + 1)
        BY <2>5, <3>1, <3>3, DotTurns
      <4>2. EntStep(s, st) = Dot(s, st)
        BY <1>0, <1>1, <1>6, <2>3, <2>6, <2>7, <3>2, <3>3
      <4> QED BY <4>1, <4>2, Zenon
    <3>4. CASE s[t] # DOT
      <4>1. Turned(s, n, R, Other(s, st), k + 1)
        BY <2>5, <3>1, <3>4, OtherTurns
      <4>2. EntStep(s, st) = Other(s, st)
        BY <1>0, <1>1, <1>6, <2>3, <2>6, <2>7, <3>2, <3>4
      <4> QED BY <4>1, <4>2, Zenon
    <3> QED BY <3>3, <3>4
  <2> QED BY <2>8, <2>9
<1> QED BY <1>2, <1>3, <1>4, <1>5, <1>6, Zenon DEF Turned

\* After k turns k bytes have been read, or all.
LEMMA TurnsTurn ==
    ASSUME NEW s \in Seq(Byte), NEW n \in Nat, n = Len(s), Documented(s), NEW R, Replaces(s, R),
           NEW T, Turns(s, n, T)
    PROVE  Turned(s, n, R, T[n], n)
<1>1. ASSUME NEW j \in 0 .. n PROVE T[j] = IF j = 0 THEN EntStart(s) ELSE EntStep(s, T[j - 1])
  BY DEF Turns
<1>2. Turned(s, n, R, EntStart(s), 0)
  <2>1. PICK r : r = EntStart(s)
    OBVIOUS
  <2>2. Held(r)
    BY <2>1, StartHolds
  <2>3. r.err = Ok /\ r.tmp = 1 /\ r.curpos = 0 /\ r.in_entity = FALSE /\ r.out = <<>>
    BY <2>1 DEF EntStart
  <2>4. 1 = 0 + 1 /\ 0 \in 0 .. n /\ 1 \in 1 .. n + 1
    OBVIOUS
  <2>5. R[1] \in Seq(Byte)
    BY <2>4, ReplacesAre
  <2>6. Cat(<<>>, R[1]) = R[1]
    BY <2>5 DEF Cat
  <2>7. Outside(n, R, r, 0)
    BY <2>2, <2>3, <2>4, <2>6, Zenon DEF Outside
  <2> QED BY <2>1, <2>7, Zenon DEF Turned
<1> DEFINE S == {k \in 0 .. n : ~ Turned(s, n, R, T[k], k)}
<1>3. S = {}
  <2> SUFFICES ASSUME S # {} PROVE FALSE
    OBVIOUS
  <2>1. S \in SUBSET Nat
    OBVIOUS
  <2> HIDE DEF S
  <2>2. PICK k \in S : \A m \in S : k <= m
    BY <2>1, Least
  <2>3. k \in 0 .. n /\ ~ Turned(s, n, R, T[k], k)
    BY <2>2 DEF S
  <2>4. CASE k = 0
    BY <1>1, <1>2, <2>3, <2>4, Zenon
  <2>5. CASE k # 0
    <3>1. PICK j \in Nat : j = k - 1 /\ k = j + 1 /\ j \in 0 .. n /\ j < n
      <4>1. k - 1 \in Nat /\ k = (k - 1) + 1 /\ k - 1 \in 0 .. n /\ k - 1 < n
        BY <2>3, <2>5
      <4> QED BY <4>1, Zenon
    <3>2. j \notin S
      BY <2>1, <2>2, <3>1
    <3>3. Turned(s, n, R, T[j], j)
      BY <3>1, <3>2, Zenon DEF S
    <3>4. Turned(s, n, R, EntStep(s, T[j]), j + 1)
      <4>1. PICK st : st = T[j]
        OBVIOUS
      <4>2. Turned(s, n, R, st, j)
        BY <3>3, <4>1, Zenon
      <4>3. Turned(s, n, R, EntStep(s, st), j + 1)
        BY <3>1, <4>2, TurnTurns
      <4> QED BY <4>1, <4>3, Zenon
    <3>5. T[k] = EntStep(s, T[j])
      BY <1>1, <2>3, <2>5, <3>1, Zenon
    <3> QED BY <2>3, <3>1, <3>4, <3>5, Zenon
  <2> QED BY <2>4, <2>5
<1>4. n \in 0 .. n
  OBVIOUS
<1>5. n \notin S
  BY <1>3
<1> HIDE <1>3
<1> QED BY <1>4, <1>5, Zenon

\* Text whose every "&" begins an entity of the documented form comes out with each
\* entity replaced and all else as it was, unless there is no memory for it, for any
\* text and whatever the scopes answer.
THEOREM EntitiesTheorem == ASSUME NEW w \in Seq(Byte) PROVE EntitiesReplaced(w)
<1> SUFFICES ASSUME Documented(w), EntParser(w).err # RetbufTooLong
             PROVE  EntParser(w).err = Ok /\ EntParser(w).out = Replaced(w)
  BY Zenon DEF EntitiesReplaced
<1>1. PICK n \in Nat : n = Len(w)
  OBVIOUS
<1>2. PICK R : R = CHOOSE Q : Replaces(w, Q)
  OBVIOUS
<1>3. Replaces(w, R) /\ Replaced(w) = R[1]
  BY <1>2, ReplacesExists, ReplacedIsChoice, Zenon
<1>4. PICK T : T = CHOOSE P : Turns(w, Len(w), P)
  OBVIOUS
<1>5. Turns(w, n, T)
  BY <1>1, <1>4, TurnsExist, Zenon
<1>6. PICK st : st = T[n]
  OBVIOUS
<1>7. Turned(w, n, R, st, n)
  <2>1. Turned(w, n, R, T[n], n)
    BY <1>1, <1>3, <1>5, TurnsTurn
  <2> QED BY <1>6, <2>1, Zenon
<1>8. EntParser(w) = IF st.err = Ok /\ st.in_entity THEN [st EXCEPT !.err = OpenEntity] ELSE st
  <2>1. EntParser(w) = LET P == CHOOSE Q : Turns(w, Len(w), Q)
                           r == P[Len(w)]
                       IN  IF r.err = Ok /\ r.in_entity
                           THEN [r EXCEPT !.err = OpenEntity] ELSE r
    BY Zenon DEF EntParser, Turns
  <2> QED BY <1>1, <1>4, <1>6, <2>1, Zenon
<1>9. CASE Failed(st)
  <2>1. st.err = RetbufTooLong /\ RetbufTooLong # Ok
    BY <1>9 DEF Failed, Ok, RetbufTooLong
  <2> QED BY <1>8, <2>1, Zenon
<1>10. CASE Outside(n, R, st, n)
  <2>1. st.err = Ok /\ ~ st.in_entity /\ Cat(st.out, R[st.tmp]) = R[1]
    BY <1>10, Zenon DEF Outside
  <2>2. st.tmp = n + 1
    BY <1>10 DEF Outside
  <2>3. R[n + 1] = <<>>
    BY <1>1, <1>3, ReplacesAre
  <2>4. Cat(st.out, <<>>) = st.out
    <3>1. st.out \in Seq(Byte)
      BY <1>10 DEF Outside, Held, EntState
    <3> QED BY <3>1 DEF Cat
  <2> QED BY <1>3, <1>8, <2>1, <2>2, <2>3, <2>4, Zenon
<1>11. CASE Within(w, n, R, st, n)
  <2>1. PICK p \in 1 .. n, e \in Seq(Byte), l \in Nat :
          \E f \in p + 1 .. n, d \in 2 .. l + 1, m \in 0 .. l : ReadingAt(w, R, st, p, f, e, l, d, m)
    BY <1>11, Zenon DEF Within
  <2>2. PICK f \in p + 1 .. n, m \in 0 .. l : st.tmp = p + (m + 1) /\ f = p + (l + 1)
    BY <2>1, Zenon DEF ReadingAt, EntityHere
  <2>3. st.tmp = n + 1
    BY <1>11 DEF Within
  <2>4. n + 1 = p + (m + 1) /\ f = p + (l + 1)
    BY <2>2, <2>3, Zenon
  <2> QED BY <2>4
<1> QED BY <1>7, <1>9, <1>10, <1>11, Zenon DEF Turned

-----------------------------------------------------------------------------
(* The attributes of a tag *)

\* Bytes and entities, but for the bytes that are never left as they are.
Clean == (-256 .. 255) \ {QUOTE, LT, GT, AMP}
Tables == {HtmlEntities, XmlEntities}
LEMMA TablesAre ==
    ASSUME NEW table \in Tables
    PROVE  /\ \A k \in DOMAIN table : table[k] \in -256 .. -1
           /\ \A c \in {QUOTE, LT, GT, AMP} : <<c>> \in DOMAIN table
<1>1. CASE table = HtmlEntities
  <2>1. \A k \in DOMAIN table : k[1] \in {QUOTE, LT, GT, AMP}
    BY <1>1 DEF HtmlEntities
  <2>2. \A k \in DOMAIN table :
          table[k] = CASE k[1] = LT -> -GT [] k[1] = GT -> -LT [] OTHER -> -k[1]
    BY <1>1 DEF HtmlEntities
  <2>3. \A k \in DOMAIN table : table[k] \in -256 .. -1
    BY <2>1, <2>2 DEF QUOTE, LT, GT, AMP
  <2>4. \A c \in {QUOTE, LT, GT, AMP} : <<c>> \in DOMAIN table
    BY <1>1 DEF HtmlEntities
  <2> QED BY <2>3, <2>4
<1>2. CASE table = XmlEntities
  <2>1. \A k \in DOMAIN table : k[1] \in {QUOTE, LT, GT, AMP, 39, BACKSLASH}
    BY <1>2 DEF XmlEntities
  <2>2. \A k \in DOMAIN table : table[k] = IF k[1] = BACKSLASH THEN -256 ELSE -k[1]
    BY <1>2 DEF XmlEntities
  <2>3. \A k \in DOMAIN table : table[k] \in -256 .. -1
    BY <2>1, <2>2 DEF QUOTE, LT, GT, AMP, BACKSLASH
  <2>4. \A c \in {QUOTE, LT, GT, AMP} : <<c>> \in DOMAIN table
    BY <1>2 DEF XmlEntities
  <2> QED BY <2>3, <2>4
<1> QED BY <1>1, <1>2 DEF Tables

\* EncodeString, as a choice of what it makes from each position on.
EncodedFrom(s, table, R, p) ==
    IF p > Len(s) THEN <<>>
    ELSE IF SubSeq(s, p, p) \in DOMAIN table
         THEN <<table[SubSeq(s, p, p)]>> \o R[p + 1]
    ELSE IF p < Len(s) /\ SubSeq(s, p, p + 1) \in DOMAIN table
         THEN <<table[SubSeq(s, p, p + 1)]>> \o R[p + 2]
    ELSE <<s[p]>> \o R[p + 1]
Encodes(s, table, R) == R = [p \in 1 .. Len(s) + 1 |-> EncodedFrom(s, table, R, p)]
LEMMA EncodeIsChoice ==
    ASSUME NEW s, NEW table
    PROVE  EncodeString(s, table) = (CHOOSE R : Encodes(s, table, R))[1]
BY DEF EncodeString, Encodes, EncodedFrom

\* At each position it is a code and what is behind, and the code is an entity or
\* the byte.
CodeAt(s, table, p, c, q) ==
    /\ \A R : EncodedFrom(s, table, R, p) = <<c>> \o R[q]
    /\ c >= 0 => c = s[p] /\ q = p + 1
LEMMA EncodedStep ==
    ASSUME NEW s \in Seq(Byte), NEW n \in Nat, n = Len(s), NEW table \in Tables, NEW p \in 1 .. n
    PROVE  \E c \in Clean, q \in p + 1 .. n + 1 : CodeAt(s, table, p, c, q)
<1>1. s[p] \in Byte /\ ~ (p > Len(s)) /\ p + 1 \in p + 1 .. n + 1
  OBVIOUS
<1>2. -256 .. -1 \subseteq Clean
  BY DEF Clean, QUOTE, LT, GT, AMP
<1>3. CASE SubSeq(s, p, p) \in DOMAIN table
  <2>1. PICK c \in -256 .. -1 : c = table[SubSeq(s, p, p)]
    BY <1>3, TablesAre
  <2>2. \A R : EncodedFrom(s, table, R, p) = <<c>> \o R[p + 1]
    BY <1>1, <1>3, <2>1, Zenon DEF EncodedFrom
  <2>3. ~ (c >= 0)
    OBVIOUS
  <2>4. CodeAt(s, table, p, c, p + 1)
    BY <2>2, <2>3, Zenon DEF CodeAt
  <2> QED BY <1>1, <1>2, <2>4, Zenon
<1>4. CASE SubSeq(s, p, p) \notin DOMAIN table /\ p < Len(s) /\ SubSeq(s, p, p + 1) \in DOMAIN table
  <2>1. PICK c \in -256 .. -1 : c = table[SubSeq(s, p, p + 1)]
    BY <1>4, TablesAre
  <2>2. \A R : EncodedFrom(s, table, R, p) = <<c>> \o R[p + 2]
    BY <1>1, <1>4, <2>1, Zenon DEF EncodedFrom
  <2>3. ~ (c >= 0) /\ p + 2 \in p + 1 .. n + 1
    BY <1>4
  <2>4. CodeAt(s, table, p, c, p + 2)
    BY <2>2, <2>3, Zenon DEF CodeAt
  <2> QED BY <1>2, <2>3, <2>4, Zenon
<1>5. CASE SubSeq(s, p, p) \notin DOMAIN table /\ ~ (p < Len(s) /\ SubSeq(s, p, p + 1) \in DOMAIN table)
  <2>1. SubSeq(s, p, p) = <<s[p]>>
    BY <1>1, OnePart
  <2>2. s[p] \notin {QUOTE, LT, GT, AMP}
    BY <1>5, <2>1, TablesAre, Zenon
  <2>3. s[p] \in Clean
    BY <1>1, <2>2 DEF Clean, Byte
  <2>4. \A R : EncodedFrom(s, table, R, p) = <<s[p]>> \o R[p + 1]
    BY <1>1, <1>5, Zenon DEF EncodedFrom
  <2>5. CodeAt(s, table, p, s[p], p + 1)
    BY <2>4, Zenon DEF CodeAt
  <2> QED BY <1>1, <2>3, <2>5, Zenon
<1> QED BY <1>3, <1>4, <1>5, Zenon

\* So what it makes is clean, one code at least for a text that is not empty, and
\* "=" is made of "=" alone.
EncodedWell(s, e) == e \in Seq(Clean) /\ (e = <<EQ>> <=> s = <<EQ>>)
LEMMA EncodedIs ==
    ASSUME NEW s \in Seq(Byte), NEW table \in Tables PROVE EncodedWell(s, EncodeString(s, table))
<1>1. PICK n \in Nat : n = Len(s) /\ DOMAIN s = 1 .. n
  OBVIOUS
<1> DEFINE Right(p, z) == z \in Clean \X (p + 1 .. n + 1) /\ CodeAt(s, table, p, z[1], z[2])
<1>2. \A p \in 1 .. n : \E z : Right(p, z)
  <2> TAKE p \in 1 .. n
  <2>1. PICK c \in Clean, q \in p + 1 .. n + 1 : CodeAt(s, table, p, c, q)
    BY <1>1, EncodedStep
  <2>2. <<c, q>> \in Clean \X (p + 1 .. n + 1) /\ <<c, q>>[1] = c /\ <<c, q>>[2] = q
    OBVIOUS
  <2>3. Right(p, <<c, q>>)
    BY <2>1, <2>2, Zenon
  <2> QED BY <2>3, Zenon
<1>3. PICK g : g = [p \in 1 .. n |-> CHOOSE z : Right(p, z)]
  OBVIOUS
<1>4. ASSUME NEW p \in 1 .. n
      PROVE  g[p][1] \in Clean /\ g[p][2] \in p + 1 .. n + 1 /\ CodeAt(s, table, p, g[p][1], g[p][2])
  <2>1. PICK z : z = g[p] /\ z = CHOOSE y : Right(p, y)
    BY <1>3
  <2>2. Right(p, z)
    BY <1>2, <2>1, Zenon
  <2>3. z \in Clean \X (p + 1 .. n + 1) /\ CodeAt(s, table, p, z[1], z[2])
    BY <2>2, Zenon
  <2>4. z[1] \in Clean /\ z[2] \in p + 1 .. n + 1
    BY <2>3
  <2> QED BY <2>1, <2>3, <2>4, Zenon
<1> HIDE DEF Right
<1>5. PICK v : v = [p \in 1 .. n |-> <<g[p][1]>>]
  OBVIOUS
<1>6. PICK q : q = [p \in 1 .. n |-> g[p][2]]
  OBVIOUS
<1>7. \A p \in 1 .. n : v[p] = <<g[p][1]>> /\ q[p] = g[p][2]
  BY <1>5, <1>6
<1>0. PICK d \in Nat, live \in SUBSET Nat : d = n + 1 /\ live = 1 .. n /\ live \subseteq 1 .. d
  <2>1. n + 1 \in Nat /\ 1 .. n \subseteq 1 .. n + 1 /\ 1 .. n \in SUBSET Nat
    OBVIOUS
  <2> QED BY <2>1, Zenon
<1>8. Links(d, live, Clean, v, q)
  <2>1. \A c \in Clean : <<c>> \in Seq(Clean)
    OBVIOUS
  <2>2. ASSUME NEW p \in 1 .. n PROVE v[p] \in Seq(Clean) /\ q[p] \in p + 1 .. d
    BY <1>0, <1>4, <1>7, <2>1, Zenon
  <2> QED BY <1>0, <2>2, Zenon DEF Links
<1>9. ASSUME NEW R, NEW p \in 1 .. n + 1
      PROVE  EncodedFrom(s, table, R, p) = LinkFrom(R, live, v, q, p)
  <2>1. CASE p > n
    <3>1. p \notin live
      BY <1>0, <2>1
    <3> QED BY <1>1, <2>1, <3>1, Zenon DEF EncodedFrom, LinkFrom
  <2>2. CASE ~ (p > n)
    <3>1. p \in 1 .. n
      BY <2>2
    <3>2. EncodedFrom(s, table, R, p) = <<g[p][1]>> \o R[g[p][2]]
      BY <1>4, <3>1, Zenon DEF CodeAt
    <3>3. LinkFrom(R, live, v, q, p) = v[p] \o R[q[p]]
      BY <1>0, <3>1, Zenon DEF LinkFrom
    <3> QED BY <1>7, <3>1, <3>2, <3>3, Zenon
  <2> QED BY <2>1, <2>2
<1>10. ASSUME NEW R PROVE Encodes(s, table, R) <=> ChainTable(R, d, live, v, q)
  <2>1. PICK F : F = [p \in 1 .. n + 1 |-> EncodedFrom(s, table, R, p)]
    OBVIOUS
  <2>2. PICK H : H = [p \in 1 .. n + 1 |-> LinkFrom(R, live, v, q, p)]
    OBVIOUS
  <2>3. F = H
    BY <1>9, <2>1, <2>2
  <2> QED BY <1>0, <1>1, <2>1, <2>2, <2>3, Zenon DEF Encodes, ChainTable
<1>11. PICK D : D = CHOOSE R : Encodes(s, table, R)
  OBVIOUS
<1>12. ChainTable(D, d, live, v, q)
  <2>1. \E R : Encodes(s, table, R)
    BY <1>8, <1>10, ChainExists, Zenon
  <2>2. Encodes(s, table, D)
    BY <1>11, <2>1, Zenon
  <2> QED BY <1>10, <2>2, Zenon
<1>13. /\ D[n + 1] = <<>>
       /\ \A p \in 1 .. n + 1 : D[p] \in Seq(Clean)
       /\ \A p \in 1 .. n : D[p] = v[p] \o D[q[p]]
  <2>1. ChainSays(D, d, live, Clean, v, q)
    BY <1>8, <1>12, ChainIs, Zenon
  <2>2. d \in 1 .. d /\ d \notin live
    BY <1>0
  <2> QED BY <1>0, <2>1, <2>2, Zenon DEF ChainSays
<1>14. EncodeString(s, table) = D[1]
  BY <1>11, EncodeIsChoice, Zenon
<1>15. ASSUME NEW p \in 1 .. n
       PROVE  \E c \in Clean, r \in Seq(Clean), z \in p + 1 .. n + 1 :
                 r = D[z] /\ D[p] = <<c>> \o r /\ (c >= 0 => c = s[p] /\ z = p + 1)
  <2>1. PICK c \in Clean, z \in p + 1 .. n + 1 : c = g[p][1] /\ z = g[p][2] /\ CodeAt(s, table, p, c, z)
    BY <1>4, Zenon
  <2>2. z \in 1 .. n + 1
    OBVIOUS
  <2>3. PICK r \in Seq(Clean) : r = D[z]
    BY <1>13, <2>2, Zenon
  <2>4. D[p] = <<c>> \o r
    BY <1>7, <1>13, <2>1, <2>3, Zenon
  <2>5. c >= 0 => c = s[p] /\ z = p + 1
    BY <2>1, Zenon DEF CodeAt
  <2> QED BY <2>3, <2>4, <2>5, Zenon
<1>16. 1 \in 1 .. n + 1 /\ n + 1 \in 1 .. n + 1
  OBVIOUS
<1>17. D[1] \in Seq(Clean)
  BY <1>13, <1>16, Zenon
<1>18. \A p \in 1 .. n : D[p] # <<>>
  <2> TAKE p \in 1 .. n
  <2>1. PICK c \in Clean, r \in Seq(Clean) : D[p] = <<c>> \o r
    BY <1>15, Zenon
  <2>2. <<c>> \o r # <<>>
    OBVIOUS
  <2> QED BY <2>1, <2>2, Zenon
<1>19. ASSUME D[1] = <<EQ>> PROVE s = <<EQ>>
  <2>1. n # 0
    <3> SUFFICES ASSUME n = 0 PROVE FALSE
      OBVIOUS
    <3>1. D[1] = <<>>
      <4>1. n + 1 = 1
        OBVIOUS
      <4> QED BY <1>13, <4>1, Zenon
    <3>2. <<EQ>> # <<>>
      OBVIOUS
    <3> QED BY <1>19, <3>1, <3>2, Zenon
  <2>2. 1 \in 1 .. n
    BY <2>1
  <2>3. PICK c \in Clean, r \in Seq(Clean), z \in 2 .. n + 1 :
          r = D[z] /\ D[1] = <<c>> \o r /\ (c >= 0 => c = s[1] /\ z = 2)
    <3>1. 1 + 1 = 2
      OBVIOUS
    <3> HIDE <1>14, <1>16, <1>17, <1>18
    <3>2. PICK c \in Clean, r \in Seq(Clean), z \in 1 + 1 .. n + 1 :
            r = D[z] /\ D[1] = <<c>> \o r /\ (c >= 0 => c = s[1] /\ z = 1 + 1)
      BY <1>15, <2>2, Zenon
    <3> QED BY <3>1, <3>2
  <2>4. c = EQ /\ r = <<>>
    <3>1. <<c>> \o r = <<EQ>>
      BY <1>19, <2>3, Zenon
    <3>2. (<<c>> \o r)[1] = c /\ Len(<<c>> \o r) = Len(r) + 1 /\ Len(<<EQ>>) = 1 /\ <<EQ>>[1] = EQ
      OBVIOUS
    <3>3. c = EQ /\ Len(r) + 1 = 1
      BY <3>1, <3>2, Zenon
    <3>4. r = <<>>
      BY <3>3
    <3> QED BY <3>3, <3>4
  <2>5. s[1] = EQ /\ z = 2
    <3>1. EQ >= 0
      BY DEF EQ
    <3> QED BY <2>3, <2>4, <3>1, Zenon
  <2>6. n = 1
    <3>1. ~ (2 \in 1 .. n)
      BY <1>18, <2>3, <2>4, <2>5, Zenon
    <3> QED BY <2>1, <3>1
  <2> QED BY <1>1, <2>5, <2>6
<1>20. ASSUME s = <<EQ>> PROVE D[1] = <<EQ>>
  <2>1. n = 1 /\ s[1] = EQ
    BY <1>1, <1>20
  <2>2. SubSeq(s, 1, 1) = <<EQ>>
    <3>1. 1 \in 1 .. Len(s)
      BY <1>1, <2>1
    <3> QED BY <2>1, <3>1, OnePart
  <2>3. <<EQ>> \notin DOMAIN table
    <3>1. CASE table = HtmlEntities
      BY <3>1 DEF HtmlEntities, EQ, QUOTE, LT, GT, AMP
    <3>2. CASE table = XmlEntities
      BY <3>2 DEF XmlEntities, EQ, QUOTE, LT, GT, AMP, BACKSLASH
    <3> QED BY <3>1, <3>2 DEF Tables
  <2>4. ~ (1 > Len(s)) /\ ~ (1 < Len(s))
    BY <1>1, <2>1
  <2>5. EncodedFrom(s, table, D, 1) = <<EQ>> \o D[2]
    <3>1. 1 + 1 = 2
      OBVIOUS
    <3>2. EncodedFrom(s, table, D, 1) = <<s[1]>> \o D[1 + 1]
      BY <2>2, <2>3, <2>4, Zenon DEF EncodedFrom
    <3> QED BY <2>1, <3>1, <3>2
  <2>6. D[2] = <<>> /\ D[1] = LinkFrom(D, live, v, q, 1)
    <3>1. n + 1 = 2 /\ 1 \in 1 .. n + 1
      BY <2>1
    <3>2. D[2] = <<>>
      BY <1>13, <3>1, Zenon
    <3>3. 1 \in 1 .. n
      BY <2>1
    <3>4. D[1] = LinkFrom(D, live, v, q, 1)
      BY <1>0, <1>13, <3>3, Zenon DEF LinkFrom
    <3> QED BY <3>2, <3>4
  <2>7. <<EQ>> \o <<>> = <<EQ>>
    OBVIOUS
  <2> QED BY <1>9, <1>16, <2>5, <2>6, <2>7, Zenon
<1> QED BY <1>14, <1>17, <1>19, <1>20, Zenon DEF EncodedWell

\* An attribute: the name, the value in quotes, a space.
Code == -256 .. 255
Attribute(k, v) == k \o <<EQ, QUOTE>> \o v \o <<QUOTE, SP>>
Quoted(a, k, v, l, z) ==
    /\ k \in Seq(Clean) /\ v \in Seq(Clean) /\ l \in Nat /\ z \in Nat
    /\ l = Len(k) /\ z = Len(v)
    /\ a \in Seq(Code) /\ Len(a) = (l + 2) + (z + 2)
    /\ \A j \in 1 .. l : a[j] = k[j]
    /\ a[l + 1] = EQ /\ a[l + 2] = QUOTE
    /\ \A j \in 1 .. z : a[(l + 2) + j] = v[j]
    /\ a[(l + 2) + (z + 1)] = QUOTE /\ a[(l + 2) + (z + 2)] = SP

LEMMA AttributeIs ==
    ASSUME NEW k \in Seq(Clean), NEW v \in Seq(Clean), NEW l \in Nat, NEW z \in Nat,
           l = Len(k), z = Len(v)
    PROVE  Quoted(Attribute(k, v), k, v, l, z)
<1>1. k \in Seq(Code) /\ v \in Seq(Code)
  <2>1. Clean \subseteq Code
    BY DEF Clean, Code
  <2> QED BY <2>1
<1>2. PICK x1 \in Seq(Code), one \in Nat :
        x1 = <<EQ, QUOTE>> /\ Len(x1) = one /\ one = 2 /\ x1[1] = EQ /\ x1[2] = QUOTE
  <2>1. /\ <<EQ, QUOTE>> \in Seq(Code) /\ Len(<<EQ, QUOTE>>) = 2 /\ 2 \in Nat
        /\ <<EQ, QUOTE>>[1] = EQ /\ <<EQ, QUOTE>>[2] = QUOTE
    BY DEF Code, EQ, QUOTE
  <2> QED BY <2>1, Zenon
<1>3. PICK x2 \in Seq(Code), two \in Nat :
        x2 = <<QUOTE, SP>> /\ Len(x2) = two /\ two = 2 /\ x2[1] = QUOTE /\ x2[2] = SP
  <2>1. /\ <<QUOTE, SP>> \in Seq(Code) /\ Len(<<QUOTE, SP>>) = 2 /\ 2 \in Nat
        /\ <<QUOTE, SP>>[1] = QUOTE /\ <<QUOTE, SP>>[2] = SP
    BY DEF Code, SP, QUOTE
  <2> QED BY <2>1, Zenon
<1>4. PICK c \in Seq(Code), lc \in Nat : c = Cat(k, x1) /\ lc = l + one /\ CatHas(c, Code, k, x1, l, one)
  <2>1. CatHas(Cat(k, x1), Code, k, x1, l, one)
    BY <1>1, <1>2, CatShape, Zenon
  <2>2. Cat(k, x1) \in Seq(Code)
    BY <2>1, Zenon DEF CatHas
  <2>3. l + one \in Nat
    OBVIOUS
  <2> QED BY <2>1, <2>2, <2>3, Zenon
<1>5. PICK d \in Seq(Code), ld \in Nat : d = Cat(c, v) /\ ld = lc + z /\ CatHas(d, Code, c, v, lc, z)
  <2>1. Len(c) = lc
    BY <1>4, Zenon DEF CatHas
  <2>2. CatHas(Cat(c, v), Code, c, v, lc, z)
    BY <1>1, <2>1, CatShape, Zenon
  <2>3. Cat(c, v) \in Seq(Code)
    BY <2>2, Zenon DEF CatHas
  <2>4. lc + z \in Nat
    OBVIOUS
  <2> QED BY <2>2, <2>3, <2>4, Zenon
<1>6. PICK a \in Seq(Code) : a = Cat(d, x2) /\ CatHas(a, Code, d, x2, ld, two)
  <2>1. Len(d) = ld
    BY <1>5, Zenon DEF CatHas
  <2>2. CatHas(Cat(d, x2), Code, d, x2, ld, two)
    BY <1>3, <2>1, CatShape, Zenon
  <2> QED BY <2>2, Zenon DEF CatHas
<1>7. a = Attribute(k, v)
  BY <1>2, <1>3, <1>4, <1>5, <1>6, Zenon DEF Attribute, Cat
<1>8. /\ \A j \in 1 .. l : c[j] = k[j]
      /\ \A j \in 1 .. one : c[l + j] = x1[j]
      /\ \A j \in 1 .. lc : d[j] = c[j]
      /\ \A j \in 1 .. z : d[lc + j] = v[j]
      /\ \A j \in 1 .. ld : a[j] = d[j]
      /\ \A j \in 1 .. two : a[ld + j] = x2[j]
      /\ Len(a) = ld + two
  BY <1>4, <1>5, <1>6, Zenon DEF CatHas
<1>9. one = 2 /\ two = 2 /\ lc = l + 2 /\ ld = (l + 2) + z
  BY <1>2, <1>3, <1>4, <1>5, Zenon
<1>10. x1[1] = EQ /\ x1[2] = QUOTE /\ x2[1] = QUOTE /\ x2[2] = SP
  BY <1>2, <1>3, Zenon
<1> HIDE <1>2, <1>3, <1>4, <1>5, <1>6, <1>7
<1>11. ASSUME NEW j \in 1 .. l PROVE a[j] = k[j]
  <2>1. j \in 1 .. lc /\ j \in 1 .. ld
    BY <1>9
  <2> QED BY <1>8, <2>1, Zenon
<1>12. ASSUME NEW j \in 1 .. 2 PROVE a[l + j] = x1[j]
  <2>1. l + j \in 1 .. lc /\ l + j \in 1 .. ld /\ j \in 1 .. one
    BY <1>9
  <2> QED BY <1>8, <2>1, Zenon
<1>13. ASSUME NEW j \in 1 .. z PROVE a[(l + 2) + j] = v[j]
  <2>1. lc + j \in 1 .. ld /\ lc + j = (l + 2) + j
    BY <1>9
  <2> QED BY <1>8, <2>1, Zenon
<1>14. ASSUME NEW j \in 1 .. 2 PROVE a[(l + 2) + (z + j)] = x2[j]
  <2>1. ld + j = (l + 2) + (z + j) /\ j \in 1 .. two
    BY <1>9
  <2> QED BY <1>8, <2>1, Zenon
<1>15. Len(a) = (l + 2) + (z + 2) /\ 1 \in 1 .. 2 /\ 2 \in 1 .. 2
  BY <1>8, <1>9
<1>16. Quoted(a, k, v, l, z)
  BY <1>10, <1>11, <1>12, <1>13, <1>14, <1>15, Zenon DEF Quoted
<1> QED BY <1>7, <1>16, Zenon

\* Nothing in a clean text is a quote or opens a tag.
LEMMA CleanIs ==
    ASSUME NEW e \in Seq(Clean), NEW j \in 1 .. Len(e) PROVE e[j] \in Code /\ e[j] \notin {QUOTE, LT, GT, AMP}
BY DEF Clean, Code

\* The first of a set, in one piece.
LEMMA FirstIsAtIn ==
    ASSUME NEW A, NEW s \in Seq(A), NEW n \in Nat, n = Len(s), NEW p \in 1 .. n + 1, NEW S, NEW e,
           FirstAt(s, n, p, S, e)
    PROVE  FirstOf(s, p, S) = e
<1>1. e \in p .. n + 1 /\ (e <= n => s[e] \in S) /\ \A i \in p .. e - 1 : s[i] \notin S
  BY Zenon DEF FirstAt
<1> QED BY <1>1, FirstOfAtIn

\* The first quote of an attribute is behind its name,
LEMMA FirstQuote ==
    ASSUME NEW a, NEW k, NEW v, NEW l, NEW z, Quoted(a, k, v, l, z)
    PROVE  FirstOf(a, 1, {QUOTE}) = l + 2
<1>0. k \in Seq(Clean) /\ l \in Nat /\ z \in Nat /\ l = Len(k)
  BY Zenon DEF Quoted
<1>1. PICK n \in Nat : n = (l + 2) + (z + 2) /\ Len(a) = n
  <2>1. (l + 2) + (z + 2) \in Nat
    BY <1>0
  <2> QED BY <2>1, Zenon DEF Quoted
<1>2. 1 \in 1 .. n + 1 /\ l + 2 \in 1 .. n + 1
  BY <1>0, <1>1
<1>3. ASSUME NEW i \in 1 .. (l + 2) - 1 PROVE a[i] \notin {QUOTE}
  <2>1. CASE i \in 1 .. l
    BY <1>0, <2>1, CleanIs, Zenon DEF Quoted
  <2>2. CASE i = l + 1
    <3>1. a[i] = EQ
      BY <2>2, Zenon DEF Quoted
    <3> QED BY <3>1 DEF EQ, QUOTE
  <2> QED BY <1>0, <2>1, <2>2
<1>4. a[l + 2] \in {QUOTE} /\ a \in Seq(Code)
  BY Zenon DEF Quoted
<1>5. FirstAt(a, n, 1, {QUOTE}, l + 2)
  BY <1>2, <1>3, <1>4, Zenon DEF FirstAt
<1> QED BY <1>1, <1>2, <1>4, <1>5, FirstIsAtIn, Zenon

\* so that attributes of different names differ.
LEMMA NamesDiffer ==
    ASSUME NEW k \in Seq(Clean), NEW v \in Seq(Clean), NEW r \in Seq(Clean), NEW u \in Seq(Clean),
           Attribute(k, v) = Attribute(r, u)
    PROVE  k = r
<1>1. PICK l \in Nat, z \in Nat : l = Len(k) /\ z = Len(v)
  OBVIOUS
<1>2. PICK m \in Nat, y \in Nat : m = Len(r) /\ y = Len(u)
  OBVIOUS
<1>3. PICK a : a = Attribute(k, v)
  OBVIOUS
<1>4. Quoted(a, k, v, l, z)
  BY <1>1, <1>3, AttributeIs, Zenon
<1>5. Quoted(a, r, u, m, y)
  BY <1>2, <1>3, AttributeIs, Zenon
<1>6. FirstOf(a, 1, {QUOTE}) = l + 2
  BY <1>1, <1>4, FirstQuote, Zenon
<1>7. FirstOf(a, 1, {QUOTE}) = m + 2
  BY <1>2, <1>5, FirstQuote, Zenon
<1>8. l = m
  BY <1>6, <1>7
<1>9. \A j \in 1 .. l : k[j] = r[j]
  BY <1>4, <1>5, <1>8, Zenon DEF Quoted
<1>10. Len(k) = l /\ Len(r) = l
  BY <1>1, <1>2, <1>8, Zenon
<1> HIDE <1>4, <1>5, <1>6, <1>7
<1> QED BY <1>9, <1>10, SeqEq

\* It has two quotes, and does not open a tag.
LEMMA TwoQuotes ==
    ASSUME NEW k \in Seq(Clean), NEW v \in Seq(Clean)
    PROVE  /\ Len(Split(Attribute(k, v), {QUOTE})) = 3
           /\ Bytes(Attribute(k, v)) \cap {LT, GT, AMP} = {}
<1>1. PICK l \in Nat, z \in Nat : l = Len(k) /\ z = Len(v)
  OBVIOUS
<1>2. PICK a \in Seq(Code), n \in Nat : a = Attribute(k, v) /\ Quoted(a, k, v, l, z) /\ n = Len(a)
                                        /\ n = (l + 2) + (z + 2)
  <2>1. Quoted(Attribute(k, v), k, v, l, z)
    BY <1>1, AttributeIs, Zenon
  <2>2. (l + 2) + (z + 2) \in Nat
    OBVIOUS
  <2> QED BY <2>1, <2>2, Zenon DEF Quoted
<1>0. n = Len(a)
  BY <1>2, Zenon
<1>3. PICK m \in Nat : m = l + 3
  OBVIOUS
<1>4. PICK h \in Nat : h = l + z + 4 /\ n = h
  BY <1>2
<1>5. FirstOf(a, 1, {QUOTE}) = l + 2
  BY <1>1, <1>2, FirstQuote, Zenon
<1>6. FirstOf(a, m, {QUOTE}) = l + z + 3
  <2>0. PICK e : e = l + z + 3
    OBVIOUS
  <2>1. m \in 1 .. n + 1 /\ e \in m .. n + 1
    BY <1>2, <1>3, <2>0
  <2>2. ASSUME NEW i \in m .. e - 1 PROVE a[i] \notin {QUOTE}
    <3>1. PICK j \in 1 .. z : i = (l + 2) + j
      <4>1. i - (l + 2) \in 1 .. z /\ i = (l + 2) + (i - (l + 2))
        BY <1>3, <2>0
      <4> QED BY <4>1, Zenon
    <3>2. a[i] = v[j]
      BY <1>2, <3>1, Zenon DEF Quoted
    <3> QED BY <1>1, <3>2, CleanIs, Zenon
  <2>3. a[e] \in {QUOTE}
    <3>1. a[(l + 2) + (z + 1)] = QUOTE
      BY <1>2, Zenon DEF Quoted
    <3>2. (l + 2) + (z + 1) = e
      BY <2>0
    <3> QED BY <3>1, <3>2
  <2>4. FirstAt(a, n, m, {QUOTE}, e)
    BY <2>1, <2>2, <2>3, Zenon DEF FirstAt
  <2>5. FirstOf(a, m, {QUOTE}) = e
    BY <1>0, <2>1, <2>4, FirstIsAtIn, Zenon
  <2> QED BY <2>0, <2>5, Zenon
<1>7. a[h] = SP
  <2>1. a[(l + 2) + (z + 2)] = SP
    BY <1>2, Zenon DEF Quoted
  <2> QED BY <1>2, <1>4, <2>1
<1>8. FirstOf(a, h, {QUOTE}) = n + 1
  <2>0. PICK e : e = n + 1
    OBVIOUS
  <2>1. h \in 1 .. n + 1 /\ e \in h .. n + 1 /\ ~ (e <= n)
    BY <1>2, <1>4, <2>0
  <2>2. ASSUME NEW i \in h .. e - 1 PROVE a[i] \notin {QUOTE}
    <3>1. i = h
      BY <1>4, <2>0
    <3>2. SP \notin {QUOTE}
      BY DEF SP, QUOTE
    <3> QED BY <1>7, <3>1, <3>2, Zenon
  <2>3. FirstAt(a, n, h, {QUOTE}, e)
    BY <2>1, <2>2, Zenon DEF FirstAt
  <2>4. FirstOf(a, h, {QUOTE}) = e
    BY <1>0, <2>1, <2>3, FirstIsAtIn, Zenon
  <2> QED BY <2>0, <2>4, Zenon
<1>9. PICK P : P = CHOOSE D : Splits(a, {QUOTE}, D)
  OBVIOUS
<1>10. Splits(a, {QUOTE}, P)
  BY <1>9, SplitsExistIn, Zenon
<1>11. PICK y \in Seq(Code) : P[h] = <<y>>
  <2>1. h \in 1 .. n + 1
    BY <1>4
  <2>2. PICK e \in h .. n + 1, y \in Seq(Code) : FirstPiece(a, n, {QUOTE}, P, h, e, y)
    BY <1>2, <1>10, <2>1, PieceAndRestIn, Zenon
  <2>3. e = n + 1
    BY <1>8, <2>2, Zenon DEF FirstPiece
  <2>4. e > n
    BY <2>3
  <2> QED BY <2>2, <2>4, Zenon DEF FirstPiece
<1>12. PICK y2 \in Seq(Code) : P[m] = <<y2>> \o P[h]
  <2>1. m \in 1 .. n + 1
    BY <1>2, <1>3
  <2>2. PICK e \in m .. n + 1, y2 \in Seq(Code) : FirstPiece(a, n, {QUOTE}, P, m, e, y2)
    BY <1>2, <1>10, <2>1, PieceAndRestIn, Zenon
  <2>3. e = l + z + 3
    BY <1>6, <2>2, Zenon DEF FirstPiece
  <2>4. e <= n /\ e + 1 = h
    BY <1>4, <2>3
  <2> QED BY <2>2, <2>4, Zenon DEF FirstPiece
<1>13. PICK y1 \in Seq(Code) : P[1] = <<y1>> \o P[m]
  <2>1. 1 \in 1 .. n + 1
    BY <1>2
  <2>2. PICK e \in 1 .. n + 1, y1 \in Seq(Code) : FirstPiece(a, n, {QUOTE}, P, 1, e, y1)
    BY <1>2, <1>10, <2>1, PieceAndRestIn, Zenon
  <2>3. e = l + 2
    BY <1>5, <2>2, Zenon DEF FirstPiece
  <2>4. e <= n /\ e + 1 = m
    BY <1>2, <1>3, <2>3
  <2> QED BY <2>2, <2>4, Zenon DEF FirstPiece
<1>14. Len(P[1]) = 3
  <2>1. Len(<<y1>> \o (<<y2>> \o <<y>>)) = 3
    OBVIOUS
  <2> QED BY <1>11, <1>12, <1>13, <2>1, Zenon
<1>15. Len(Split(a, {QUOTE})) = 3
  BY <1>9, <1>14, SplitIsChoice, Zenon
<1>16. ASSUME NEW i \in 1 .. n PROVE a[i] \notin {LT, GT, AMP}
  <2>1. CASE i \in 1 .. l
    <3>1. a[i] = k[i]
      BY <1>2, <2>1, Zenon DEF Quoted
    <3> QED BY <1>1, <2>1, <3>1, CleanIs, Zenon
  <2>2. CASE i = l + 1 \/ i = l + 2 \/ i = (l + 2) + (z + 1) \/ i = (l + 2) + (z + 2)
    <3>1. a[i] \in {EQ, QUOTE, SP}
      BY <1>2, <2>2, Zenon DEF Quoted
    <3> QED BY <3>1 DEF EQ, QUOTE, SP, LT, GT, AMP
  <2>3. CASE i \in l + 3 .. l + 2 + z
    <3>1. PICK j \in 1 .. z : i = (l + 2) + j
      <4>1. i - (l + 2) \in 1 .. z /\ i = (l + 2) + (i - (l + 2))
        BY <2>3
      <4> QED BY <4>1, Zenon
    <3>2. a[i] = v[j]
      BY <1>2, <3>1, Zenon DEF Quoted
    <3> QED BY <1>1, <3>2, CleanIs, Zenon
  <2> QED BY <1>2, <2>1, <2>2, <2>3
<1>17. Bytes(a) \cap {LT, GT, AMP} = {}
  <2>1. \A s \in Seq(Code) : DOMAIN s = 1 .. Len(s)
    OBVIOUS
  <2>2. DOMAIN a = 1 .. n
    BY <1>2, <2>1, Zenon
  <2> QED BY <1>16, <2>2, Zenon DEF Bytes
<1> QED BY <1>2, <1>15, <1>17, Zenon

\* Two that differ are two.
LEMMA TwoAre ==
    ASSUME NEW a, NEW b, a # b PROVE Cardinality({a, b}) = 2
<1>1. IsFiniteSet({a}) /\ Cardinality({a}) = 1
  BY FS_Singleton
<1>2. b \notin {a} /\ {a} \cup {b} = {a, b}
  OBVIOUS
<1>3. Cardinality({a} \cup {b}) = Cardinality({a}) + 1
  BY <1>1, <1>2, FS_AddElement
<1> QED BY <1>1, <1>2, <1>3

\* What a mapping of texts is encoded to.
Safe(m, table, safe) ==
    /\ DOMAIN safe = {EncodeString(i, table) : i \in DOMAIN m}
    /\ \A k \in DOMAIN safe : k \in Seq(Clean) /\ safe[k] \in Seq(Clean)
LEMMA SafeIs ==
    ASSUME NEW table \in Tables, NEW m, \A i \in DOMAIN m : i \in Seq(Byte) /\ m[i] \in Seq(Byte)
    PROVE  Safe(m, table, EncodeMapping(m, table))
<1>1. PICK D : D = {EncodeString(i, table) : i \in DOMAIN m}
  OBVIOUS
<1>2. PICK safe : safe = [k \in D |-> EncodeString(m[CHOOSE i \in DOMAIN m : EncodeString(i, table) = k], table)]
  OBVIOUS
<1>3. safe = EncodeMapping(m, table)
  BY <1>1, <1>2, Zenon DEF EncodeMapping
<1>4. ASSUME NEW k \in D PROVE k \in Seq(Clean) /\ safe[k] \in Seq(Clean)
  <2>1. PICK i \in DOMAIN m : EncodeString(i, table) = k
    BY <1>1
  <2>2. PICK z : z = CHOOSE y \in DOMAIN m : EncodeString(y, table) = k
    OBVIOUS
  <2>3. z \in DOMAIN m
    BY <2>1, <2>2, Zenon
  <2>4. safe[k] = EncodeString(m[z], table)
    BY <1>2, <2>2
  <2> QED BY <2>1, <2>3, <2>4, EncodedIs, Zenon DEF EncodedWell
<1>5. DOMAIN safe = D
  BY <1>2
<1> QED BY <1>1, <1>3, <1>4, <1>5, Zenon DEF Safe

\* Whatever text is put in the mapping, as a name and as a value, the attributes that
\* make_tag_attributes() writes are apart (AttributesStayApart).
THEOREM AttributesTheorem ==
    ASSUME NEW w \in Seq(Byte) PROVE AttributesStayApart(w)
<1>1. ASSUME NEW table \in Tables, NEW m,
             m = Insert(Insert(Insert(Empty, <<SLASH>>, w), <<EQ>>, w), w, <<EQ>>)
      PROVE  /\ \A a \in MakeTagAttributes(m, table) : /\ Len(Split(a, {QUOTE})) = 3
                                                       /\ Bytes(a) \cap {LT, GT, AMP} = {}
             /\ Cardinality(MakeTagAttributes(m, table)) = Cardinality(DOMAIN m \ {<<SLASH>>})
  <2>1. PICK eq, sl : eq = <<EQ>> /\ sl = <<SLASH>> /\ eq \in Seq(Byte) /\ sl # eq
    <3>1. <<EQ>> \in Seq(Byte) /\ <<SLASH>> # <<EQ>>
      BY DEF EQ, SLASH, Byte
    <3> QED BY <3>1, Zenon
  <2>2. DOMAIN m = {sl, eq, w} /\ m[eq] \in Seq(Byte) /\ m[w] \in Seq(Byte)
    <3>1. PICK m1 : m1 = Insert(Empty, sl, w)
      OBVIOUS
    <3>2. PICK m2 : m2 = Insert(m1, eq, w)
      OBVIOUS
    <3>3. m = Insert(m2, w, eq)
      BY <1>1, <2>1, <3>1, <3>2, Zenon
    <3>4. DOMAIN m1 = {sl}
      BY <3>1 DEF Insert, Empty
    <3>5. DOMAIN m2 = {sl, eq} /\ m2[eq] = w
      BY <3>2, <3>4 DEF Insert
    <3>6. DOMAIN m = {sl, eq, w} /\ m[w] = eq /\ m[eq] = IF eq = w THEN eq ELSE w
      BY <3>3, <3>5 DEF Insert
    <3> QED BY <2>1, <3>6
  <2>3. PICK mm : mm = [k \in DOMAIN m \ {sl} |-> m[k]]
    OBVIOUS
  <2>4. DOMAIN mm = DOMAIN m \ {sl} /\ \A i \in DOMAIN mm : i \in Seq(Byte) /\ mm[i] \in Seq(Byte)
    BY <2>1, <2>2, <2>3
  <2>5. PICK safe : safe = EncodeMapping(mm, table)
    OBVIOUS
  <2>6. Safe(mm, table, safe)
    BY <2>4, <2>5, SafeIs, Zenon
  <2>7. MakeTagAttributes(m, table) = {Attribute(k, safe[k]) : k \in DOMAIN safe}
    <3>1. PICK E : E = {k \o <<EQ, QUOTE>> \o safe[k] \o <<QUOTE, SP>> : k \in DOMAIN safe}
      OBVIOUS
    <3>2. MakeTagAttributes(m, table) = E
      BY <2>1, <2>3, <2>5, <3>1, Zenon DEF MakeTagAttributes
    <3>3. \A k : Attribute(k, safe[k]) = k \o <<EQ, QUOTE>> \o safe[k] \o <<QUOTE, SP>>
      BY Zenon DEF Attribute
    <3>4. E = {Attribute(k, safe[k]) : k \in DOMAIN safe}
      BY <3>1, <3>3
    <3> QED BY <3>2, <3>4
  <2>8. ASSUME NEW k \in DOMAIN safe, NEW a, a = Attribute(k, safe[k])
        PROVE  Len(Split(a, {QUOTE})) = 3 /\ Bytes(a) \cap {LT, GT, AMP} = {}
    BY <2>6, <2>8, TwoQuotes, Zenon DEF Safe
  <2>9. ASSUME NEW a \in MakeTagAttributes(m, table)
        PROVE  Len(Split(a, {QUOTE})) = 3 /\ Bytes(a) \cap {LT, GT, AMP} = {}
    <3>1. \E k \in DOMAIN safe : a = Attribute(k, safe[k])
      BY <2>7
    <3> QED BY <2>8, <3>1, Zenon
  <2>10. PICK d : d = EncodeString(eq, table) /\ d = eq
    BY <2>1, EncodedIs, Zenon DEF EncodedWell
  <2>11. PICK c : c = EncodeString(w, table) /\ (c = eq <=> w = eq)
    BY <2>1, EncodedIs, Zenon DEF EncodedWell
  <2>12. CASE w = eq \/ w = sl
    <3>1. DOMAIN mm = {eq}
      BY <2>1, <2>2, <2>4, <2>12
    <3>2. DOMAIN safe = {d}
      BY <2>6, <2>10, <3>1 DEF Safe
    <3>3. MakeTagAttributes(m, table) = {Attribute(d, safe[d])}
      BY <2>7, <3>2
    <3>4. Cardinality({Attribute(d, safe[d])}) = 1 /\ Cardinality({eq}) = 1
      BY FS_Singleton
    <3> QED BY <2>1, <2>4, <2>9, <3>1, <3>3, <3>4, Zenon
  <2>13. CASE w # eq /\ w # sl
    <3>1. DOMAIN mm = {eq, w}
      BY <2>1, <2>2, <2>4, <2>13
    <3>2. DOMAIN safe = {d, c}
      BY <2>6, <2>10, <2>11, <3>1 DEF Safe
    <3>3. PICK a1, a2 : a1 = Attribute(d, safe[d]) /\ a2 = Attribute(c, safe[c])
      OBVIOUS
    <3>4. MakeTagAttributes(m, table) = {a1, a2}
      BY <2>7, <3>2, <3>3
    <3>5. d # c
      BY <2>10, <2>11, <2>13
    <3>6. a1 # a2
      BY <2>6, <3>2, <3>3, <3>5, NamesDiffer DEF Safe
    <3>7. Cardinality({a1, a2}) = 2 /\ Cardinality({eq, w}) = 2
      BY <2>13, <3>6, TwoAre
    <3> QED BY <2>1, <2>4, <2>9, <3>1, <3>4, <3>7, Zenon
  <2> QED BY <2>12, <2>13
<1> QED BY <1>1, Zenon DEF AttributesStayApart, Tables

-----------------------------------------------------------------------------
(* The elements that are kept *)

\* Kept is such a table, at its end,
LEMMA KeptIsChoice == ASSUME NEW s, NEW at PROVE Kept(s, at) = KeptTable(s, at)[Len(s)]
BY DEF Kept, KeptTable, KeepsFrom, KeptFrom

\* The same of all.
LEMMA KeptIs ==
    ASSUME NEW A, NEW s \in Seq(A), NEW n \in Nat, n = Len(s), NEW at
    PROVE  KeptPart(A, s, at, Kept(s, at), n)
<1>1. n \in 0 .. n
  OBVIOUS
<1> QED BY <1>1, KeptParts, KeptIsChoice, Zenon

\* Of a sequence that is kept up to a position, what is kept.
LEMMA KeptStart ==
    ASSUME NEW A, NEW s \in Seq(A), NEW n \in Nat, n = Len(s), NEW m \in 0 .. n, NEW at,
           \A i \in 1 .. n : i \in at <=> i <= m
    PROVE  Kept(s, at) \in Seq(A) /\ Len(Kept(s, at)) = m /\ \A j \in 1 .. m : Kept(s, at)[j] = s[j]
<1>1. PICK K : K = KeptTable(s, at) /\ KeptSays(A, s, n, at, K)
  BY KeptTableIs, Zenon
<1>2. \A i \in 1 .. m : i \in 1 .. n /\ i <= m
  OBVIOUS
<1>3. K[m] \in Seq(A) /\ Len(K[m]) = m /\ \A j \in 1 .. m : K[m][j] = s[j]
  <2>1. KeptPart(A, s, at, K[m], m)
    BY <1>1, KeptParts, Zenon
  <2>2. \A i \in 1 .. m : i \in at
    BY <1>2, Zenon
  <2> QED BY <2>1, <2>2, Zenon DEF KeptPart
<1> DEFINE Bad == {k \in 0 .. n : k >= m /\ K[k] # K[m]}
<1>4. 0 \notin Bad
  <2>1. 0 >= m => m = 0
    OBVIOUS
  <2> QED BY <2>1
<1>5. ASSUME NEW k \in 0 .. n, k < n, k \notin Bad PROVE k + 1 \notin Bad
  <2>1. CASE k + 1 <= m
    <3>1. k + 1 >= m => k + 1 = m
      BY <2>1
    <3> QED BY <3>1
  <2>2. CASE ~ (k + 1 <= m)
    <3>1. k >= m /\ k + 1 \in 1 .. n /\ (k + 1) - 1 = k
      BY <1>5, <2>2
    <3>2. k + 1 \notin at
      BY <2>2, <3>1, Zenon
    <3>3. K[k + 1] = K[k]
      BY <1>1, <3>1, <3>2, Zenon DEF KeptSays
    <3>4. K[k] = K[m]
      BY <1>5, <3>1
    <3> QED BY <3>3, <3>4
  <2> QED BY <2>1, <2>2
<1>6. Bad = {}
  <2>1. Bad \in SUBSET (0 .. n)
    OBVIOUS
  <2> HIDE DEF Bad
  <2> QED BY <1>4, <1>5, <2>1, FromTheStart, Zenon
<1>7. K[n] = K[m]
  <2>1. n \in 0 .. n /\ n >= m
    OBVIOUS
  <2> QED BY <1>6, <2>1
<1>8. Kept(s, at) = K[m]
  BY <1>1, <1>7, KeptIsChoice, Zenon
<1> QED BY <1>3, <1>8, Zenon

-----------------------------------------------------------------------------
(* Pieces put together *)

\* The pieces put together so far.
ChainedPart(parts, sep, J, k) == J[k - 1] \o (IF k = 1 THEN <<>> ELSE sep) \o parts[k]
ChainedSo(parts, sep, n, J) ==
    /\ J[0] = <<>> /\ \A k \in 0 .. n : J[k] \in Seq(Byte)
    /\ \A k \in 1 .. n : J[k] = ChainedPart(parts, sep, J, k)
LEMMA ChainedIs ==
    ASSUME NEW parts \in Seq(Seq(Byte)), NEW sep \in Seq(Byte), NEW n \in Nat, n = Len(parts)
    PROVE  \E J : ChainedSo(parts, sep, n, J) /\ Join(parts, sep) = J[n]
<1>1. PICK J : Chaining(parts, sep, J) /\ Join(parts, sep) = J[n]
  <2>1. PICK J : J = CHOOSE K : Chaining(parts, sep, K)
    OBVIOUS
  <2>2. Chaining(parts, sep, J)
    BY <2>1, ChainingExists
  <2> QED BY <2>1, <2>2, JoinIs, Zenon
<1>2. \A k \in 0 .. n : J[k] = IF k = 0 THEN <<>> ELSE ChainedPart(parts, sep, J, k)
  BY <1>1 DEF Chaining, ChainedPart
<1>3. J[0] = <<>> /\ \A k \in 1 .. n : J[k] = ChainedPart(parts, sep, J, k)
  <2>1. 0 \in 0 .. n /\ \A k \in 1 .. n : k \in 0 .. n /\ k # 0
    OBVIOUS
  <2> QED BY <1>2, <2>1, Zenon
<1> DEFINE Bad == {k \in 0 .. n : J[k] \notin Seq(Byte)}
<1>4. 0 \notin Bad /\ Bad \in SUBSET (0 .. n)
  <2>1. <<>> \in Seq(Byte)
    OBVIOUS
  <2>2. 0 \notin Bad
    BY <1>3, <2>1
  <2> QED BY <2>2
<1>5. ASSUME NEW k \in 0 .. n, k < n, k \notin Bad PROVE k + 1 \notin Bad
  <2>1. k + 1 \in 1 .. n /\ (k + 1) - 1 = k
    BY <1>5
  <2>2. PICK a \in Seq(Byte), b \in Seq(Byte), c \in Seq(Byte) :
          a = J[k] /\ b = (IF k + 1 = 1 THEN <<>> ELSE sep) /\ c = parts[k + 1]
    <3>1. J[k] \in Seq(Byte)
      BY <1>5
    <3>2. (IF k + 1 = 1 THEN <<>> ELSE sep) \in Seq(Byte)
      OBVIOUS
    <3>3. parts[k + 1] \in Seq(Byte)
      BY <2>1
    <3> QED BY <3>1, <3>2, <3>3, Zenon
  <2>3. a \o b \o c \in Seq(Byte)
    BY CatIn
  <2>4. J[k + 1] = a \o b \o c
    BY <1>3, <2>1, <2>2, Zenon DEF ChainedPart
  <2> QED BY <2>3, <2>4
<1>6. Bad = {}
  <2> HIDE DEF Bad
  <2> QED BY <1>4, <1>5, FromTheStart, Zenon
<1>7. \A k \in 0 .. n : J[k] \in Seq(Byte)
  BY <1>6
<1>8. ChainedSo(parts, sep, n, J)
  BY <1>3, <1>7, Zenon DEF ChainedSo
<1> QED BY <1>1, <1>8

\* One more piece comes behind a separator when there was one before.
MorePut(parts, sep, v) == IF parts = <<>> THEN v ELSE Join(parts, sep) \o sep \o v
LEMMA JoinMore ==
    ASSUME NEW parts \in Seq(Seq(Byte)), NEW sep \in Seq(Byte), NEW v \in Seq(Byte)
    PROVE  Join(Append(parts, v), sep) = MorePut(parts, sep, v)
<1>1. PICK n \in Nat : n = Len(parts)
  OBVIOUS
<1>2. PICK t \in Seq(Seq(Byte)) : /\ t = Append(parts, v) /\ Len(t) = n + 1 /\ t[n + 1] = v
                                  /\ \A j \in 1 .. n : t[j] = parts[j]
  <2>1. PICK V : V = Seq(Byte)
    OBVIOUS
  <2>2. /\ Append(parts, v) \in Seq(V) /\ Len(Append(parts, v)) = Len(parts) + 1
        /\ Append(parts, v)[Len(parts) + 1] = v
        /\ \A j \in 1 .. Len(parts) : Append(parts, v)[j] = parts[j]
    BY <2>1, AppendIs
  <2> QED BY <1>1, <2>1, <2>2, Zenon
<1>3. PICK J : ChainedSo(parts, sep, n, J) /\ Join(parts, sep) = J[n]
  BY <1>1, ChainedIs, Zenon
<1>4. PICK m \in Nat : m = n + 1 /\ m = Len(t) /\ m \in 1 .. m /\ m - 1 = n
  <2>1. n + 1 \in Nat /\ n + 1 \in 1 .. n + 1 /\ (n + 1) - 1 = n
    OBVIOUS
  <2> QED BY <1>2, <2>1, Zenon
<1>5. PICK K : ChainedSo(t, sep, m, K) /\ Join(t, sep) = K[m]
  BY <1>4, ChainedIs, Zenon
<1>6. \A k \in 1 .. n : J[k - 1] = K[k - 1] => J[k] = K[k]
  <2> TAKE k \in 1 .. n
  <2>1. k \in 1 .. m /\ t[k] = parts[k]
    <3>1. k \in 1 .. m
      BY <1>4
    <3> QED BY <1>2, <3>1, Zenon
  <2>2. J[k] = ChainedPart(parts, sep, J, k) /\ K[k] = ChainedPart(t, sep, K, k)
    BY <1>3, <1>5, <2>1, Zenon DEF ChainedSo
  <2>3. J[k - 1] = K[k - 1] => ChainedPart(parts, sep, J, k) = ChainedPart(t, sep, K, k)
    BY <2>1, Zenon DEF ChainedPart
  <2> QED BY <2>2, <2>3, Zenon
<1>7. J[0] = K[0]
  BY <1>3, <1>5, Zenon DEF ChainedSo
<1>8. J[n] = K[n]
  <2>1. StayAgreed(J, K, n)
    BY <1>6, Zenon DEF StayAgreed
  <2>2. n \in 0 .. n /\ n \in Nat
    OBVIOUS
  <2>3. TablesAgree(J, K, n)
    BY <1>7, <2>1, <2>2, StepsAgree, Zenon
  <2> QED BY <2>2, <2>3, Zenon DEF TablesAgree
<1>9. K[m] = K[n] \o (IF m = 1 THEN <<>> ELSE sep) \o v
  <2>1. K[m] = ChainedPart(t, sep, K, m)
    BY <1>4, <1>5, Zenon DEF ChainedSo
  <2>2. t[m] = v
    BY <1>2, <1>4, Zenon
  <2> QED BY <1>4, <2>1, <2>2, Zenon DEF ChainedPart
<1>10. CASE n = 0
  <2>1. parts = <<>>
    <3>1. PICK V : V = Seq(Byte)
      OBVIOUS
    <3> QED BY <1>1, <1>10, <3>1, EmptyIs, Zenon
  <2>2. m = 1
    BY <1>4, <1>10
  <2>3. K[n] = <<>>
    BY <1>5, <1>10, Zenon DEF ChainedSo
  <2>4. <<>> \o <<>> \o v = v
    OBVIOUS
  <2>5. K[m] = v
    BY <1>9, <2>2, <2>3, <2>4, Zenon
  <2> QED BY <1>2, <1>5, <2>1, <2>5, Zenon DEF MorePut
<1>11. CASE n # 0
  <2>1. parts # <<>>
    BY <1>1, <1>11
  <2>2. m # 1
    BY <1>4, <1>11
  <2>3. K[m] = Join(parts, sep) \o sep \o v
    BY <1>3, <1>8, <1>9, <2>2, Zenon
  <2> QED BY <1>2, <1>5, <2>1, <2>3, Zenon DEF MorePut
<1> QED BY <1>10, <1>11

-----------------------------------------------------------------------------
(* The mapping that a loop over pairs makes *)

\* The pairs that are inserted, and vs their values.
PairsAre(pairs, n, vs) ==
    /\ n \in Nat /\ n = Len(pairs) /\ vs \in Seq(Seq(Byte)) /\ n = Len(vs)
    /\ \A k \in 1 .. n : vs[k] = pairs[k].value
NamesSo(pairs, at, k) == {pairs[j].name : j \in {i \in 1 .. k : i \in at}}
PlacesOf(pairs, n, at, r) == {j \in 1 .. n : j \in at /\ pairs[j].name = r}
ValuesSo(pairs, n, vs, at, r, k) == KeptTable(vs, PlacesOf(pairs, n, at, r))[k]

\* After k pairs each name so far has its values, put together.
JoinedSo(pairs, n, vs, at, sep, k) ==
    [r \in NamesSo(pairs, at, k) |-> Join(ValuesSo(pairs, n, vs, at, r, k), sep)]

\* The values of a name after one pair more,
ValuesGrow(pairs, at, r, k, before, f, g) ==
    /\ g = IF k \in at /\ pairs[k].name = r THEN Append(f, pairs[k].value) ELSE f
    /\ f \in Seq(Seq(Byte))
    /\ f = <<>> <=> r \notin before
LEMMA ValuesMore ==
    ASSUME NEW pairs, NEW n, NEW vs, PairsAre(pairs, n, vs), NEW at, NEW r, NEW k \in 1 .. n
    PROVE  ValuesGrow(pairs, at, r, k, NamesSo(pairs, at, k - 1),
                      ValuesSo(pairs, n, vs, at, r, k - 1), ValuesSo(pairs, n, vs, at, r, k))
<1>1. PICK V : V = Seq(Byte)
  OBVIOUS
<1>2. /\ n \in Nat /\ vs \in Seq(V) /\ n = Len(vs) /\ vs[k] = pairs[k].value
  BY <1>1, Zenon DEF PairsAre
<1>3. PICK here, K : here = PlacesOf(pairs, n, at, r) /\ K = KeptTable(vs, here)
  OBVIOUS
<1>4. KeptSays(V, vs, n, here, K)
  BY <1>2, <1>3, KeptTableIs, Zenon
<1>5. PICK m \in 0 .. n : m = k - 1 /\ m \in Nat
  <2>1. k - 1 \in 0 .. n /\ k - 1 \in Nat
    BY <1>2
  <2> QED BY <2>1, Zenon
<1>6. KeptPart(V, vs, here, K[m], m)
  BY <1>2, <1>3, KeptParts, Zenon
<1>7. \A j \in 1 .. n : j \in here <=> j \in at /\ pairs[j].name = r
  BY <1>3 DEF PlacesOf
<1>8. K[k] = IF k \in at /\ pairs[k].name = r THEN Append(K[m], pairs[k].value) ELSE K[m]
  BY <1>2, <1>4, <1>5, <1>7, Zenon DEF KeptSays
<1>9. K[m] \in Seq(V)
  BY <1>6, Zenon DEF KeptPart
<1>10. \A j \in 1 .. m : j \in 1 .. n
  BY <1>2, <1>5
<1>11. ASSUME r \in NamesSo(pairs, at, m) PROVE K[m] # <<>>
  <2>1. PICK j \in 1 .. m : j \in at /\ pairs[j].name = r
    BY <1>11 DEF NamesSo
  <2>2. j \in here
    BY <1>7, <1>10, <2>1, Zenon
  <2>3. PICK i : i \in 1 .. Len(K[m])
    BY <1>6, <2>1, <2>2, Zenon DEF KeptPart
  <2>4. Len(<<>>) = 0
    OBVIOUS
  <2>5. \A i2 : i2 \notin 1 .. 0
    OBVIOUS
  <2> QED BY <2>3, <2>4, <2>5, Zenon
<1>12. ASSUME r \notin NamesSo(pairs, at, m) PROVE K[m] = <<>>
  <2>1. \A j \in 1 .. m : ~ (j \in at /\ pairs[j].name = r)
    BY <1>12 DEF NamesSo
  <2>2. \A j \in 1 .. m : j \notin here
    BY <1>7, <1>10, <2>1, Zenon
  <2> QED BY <1>6, <2>2, Zenon DEF KeptPart
<1>13. ValuesGrow(pairs, at, r, k, NamesSo(pairs, at, m), K[m], K[k])
  BY <1>1, <1>8, <1>9, <1>11, <1>12, Zenon DEF ValuesGrow
<1> QED BY <1>3, <1>5, <1>13, Zenon DEF ValuesSo

\* and the mapping.
LEMMA JoinedStep ==
    ASSUME NEW pairs, NEW n, NEW vs, PairsAre(pairs, n, vs), NEW at, NEW sep \in Seq(Byte),
           NEW k \in 1 .. n, NEW m, m = JoinedSo(pairs, n, vs, at, sep, k - 1)
    PROVE  JoinedSo(pairs, n, vs, at, sep, k) =
               IF k \notin at THEN m ELSE Insert(m, pairs[k].name, Added(m, pairs[k], sep))
<1>1. PICK now, before : now = NamesSo(pairs, at, k) /\ before = NamesSo(pairs, at, k - 1)
  OBVIOUS
<1>0. \A r : ValuesGrow(pairs, at, r, k, before, ValuesSo(pairs, n, vs, at, r, k - 1),
                        ValuesSo(pairs, n, vs, at, r, k))
  BY <1>1, ValuesMore, Zenon
<1>2. \A j : j \in 1 .. k <=> j \in 1 .. k - 1 \/ j = k
  <2>1. n \in Nat
    BY Zenon DEF PairsAre
  <2> QED BY <2>1
<1>3. /\ DOMAIN m = before
      /\ \A r \in before : m[r] = Join(ValuesSo(pairs, n, vs, at, r, k - 1), sep)
  BY <1>1 DEF JoinedSo
<1>4. PICK v \in Seq(Byte) : v = pairs[k].value
  <2>1. pairs[k].value \in Seq(Byte)
    <3>1. PICK V : V = Seq(Byte)
      OBVIOUS
    <3>2. vs \in Seq(V) /\ n = Len(vs) /\ vs[k] = pairs[k].value
      BY <3>1, Zenon DEF PairsAre
    <3> QED BY <3>1, <3>2
  <2> QED BY <2>1, Zenon
<1>5. CASE k \notin at
  <2>1. now = before
    BY <1>1, <1>2, <1>5 DEF NamesSo
  <2>2. \A r : ValuesSo(pairs, n, vs, at, r, k) = ValuesSo(pairs, n, vs, at, r, k - 1)
    BY <1>0, <1>5, Zenon DEF ValuesGrow
  <2>3. JoinedSo(pairs, n, vs, at, sep, k) = JoinedSo(pairs, n, vs, at, sep, k - 1)
    BY <1>1, <2>1, <2>2, Zenon DEF JoinedSo
  <2> QED BY <1>5, <2>3, Zenon
<1>6. CASE k \in at
  <2>1. PICK y : y = pairs[k].name
    OBVIOUS
  <2>2. now = before \cup {y}
    BY <1>1, <1>2, <1>6, <2>1 DEF NamesSo
  <2>3. ASSUME NEW r \in now
        PROVE  Join(ValuesSo(pairs, n, vs, at, r, k), sep) =
                   IF r = y THEN Added(m, pairs[k], sep) ELSE m[r]
    <3>1. PICK f : f = ValuesSo(pairs, n, vs, at, r, k - 1)
      OBVIOUS
    <3>2. f \in Seq(Seq(Byte)) /\ (f = <<>> <=> r \notin before)
      BY <1>0, <3>1, Zenon DEF ValuesGrow
    <3>3. CASE r = y
      <4>1. ValuesSo(pairs, n, vs, at, r, k) = Append(f, v)
        BY <1>0, <1>4, <1>6, <2>1, <3>1, <3>3, Zenon DEF ValuesGrow
      <4>2. Join(Append(f, v), sep) = MorePut(f, sep, v)
        BY <3>2, JoinMore
      <4>3. CASE r \in before
        <5>1. m[r] = Join(f, sep)
          BY <1>3, <3>1, <4>3, Zenon
        <5>2. Added(m, pairs[k], sep) = m[r] \o sep \o v
          BY <1>3, <1>4, <2>1, <3>3, <4>3, Zenon DEF Added
        <5> QED BY <3>2, <3>3, <4>1, <4>2, <4>3, <5>1, <5>2, Zenon DEF MorePut
      <4>4. CASE r \notin before
        <5>1. Added(m, pairs[k], sep) = v
          BY <1>3, <1>4, <2>1, <3>3, <4>4, Zenon DEF Added
        <5> QED BY <3>2, <3>3, <4>1, <4>2, <4>4, <5>1, Zenon DEF MorePut
      <4> QED BY <4>3, <4>4
    <3>4. CASE r # y
      <4>1. ValuesSo(pairs, n, vs, at, r, k) = f
        BY <1>0, <2>1, <3>1, <3>4, Zenon DEF ValuesGrow
      <4>2. r \in before
        BY <2>2, <3>4
      <4> QED BY <1>3, <3>1, <3>4, <4>1, <4>2, Zenon
    <3> QED BY <3>3, <3>4
  <2>4. JoinedSo(pairs, n, vs, at, sep, k) =
            [r \in before \cup {y} |-> IF r = y THEN Added(m, pairs[k], sep) ELSE m[r]]
    BY <1>1, <2>2, <2>3, Zenon DEF JoinedSo
  <2>5. Insert(m, y, Added(m, pairs[k], sep)) =
            [r \in before \cup {y} |-> IF r = y THEN Added(m, pairs[k], sep) ELSE m[r]]
    BY <1>3, Zenon DEF Insert
  <2> QED BY <1>6, <2>1, <2>4, <2>5, Zenon
<1> QED BY <1>5, <1>6

\* Joined, as a choice of the mapping so far,
JoinFrom(pairs, at, sep, J, k) ==
    IF k = 0 THEN Empty
    ELSE IF k \notin at THEN J[k - 1]
    ELSE Insert(J[k - 1], pairs[k].name, Added(J[k - 1], pairs[k], sep))
Joins(pairs, at, sep, J) == J = [k \in 0 .. Len(pairs) |-> JoinFrom(pairs, at, sep, J, k)]
LEMMA JoinedIsChoice ==
    ASSUME NEW pairs, NEW at, NEW sep
    PROVE  Joined(pairs, at, sep) = (CHOOSE J : Joins(pairs, at, sep, J))[Len(pairs)]
BY DEF Joined, Joins, JoinFrom

\* is that mapping.
LEMMA JoinedIs ==
    ASSUME NEW pairs, NEW n, NEW vs, PairsAre(pairs, n, vs), NEW at, NEW sep \in Seq(Byte)
    PROVE  Joined(pairs, at, sep) =
               [r \in NamesSo(pairs, at, n) |-> Join(Kept(vs, PlacesOf(pairs, n, at, r)), sep)]
<1>1. n \in Nat /\ n = Len(pairs) /\ n = Len(vs)
  BY Zenon DEF PairsAre
<1>2. PICK C : C = [k \in 0 .. n |-> JoinedSo(pairs, n, vs, at, sep, k)]
  OBVIOUS
<1>3. \A k \in 0 .. n : C[k] = JoinedSo(pairs, n, vs, at, sep, k)
  BY <1>2
<1>4. C[0] = Empty
  <2>1. NamesSo(pairs, at, 0) = {}
    BY DEF NamesSo
  <2>2. 0 \in 0 .. n
    BY <1>1
  <2>3. JoinedSo(pairs, n, vs, at, sep, 0) = Empty
    BY <2>1 DEF JoinedSo, Empty
  <2> QED BY <1>3, <2>2, <2>3, Zenon
<1>5. \A k \in 1 .. n : C[k] = JoinFrom(pairs, at, sep, C, k)
  <2> TAKE k \in 1 .. n
  <2>1. k \in 0 .. n /\ k - 1 \in 0 .. n /\ k # 0
    BY <1>1
  <2>2. PICK m : m = JoinedSo(pairs, n, vs, at, sep, k - 1) /\ m = C[k - 1]
    BY <1>3, <2>1, Zenon
  <2>3. C[k] = IF k \notin at THEN m ELSE Insert(m, pairs[k].name, Added(m, pairs[k], sep))
    <3>1. JoinedSo(pairs, n, vs, at, sep, k) =
              IF k \notin at THEN m ELSE Insert(m, pairs[k].name, Added(m, pairs[k], sep))
      BY <2>2, JoinedStep
    <3> QED BY <1>3, <2>1, <3>1, Zenon
  <2> QED BY <2>1, <2>2, <2>3, Zenon DEF JoinFrom
<1>6. \A k \in 0 .. n : C[k] = JoinFrom(pairs, at, sep, C, k)
  <2> TAKE k \in 0 .. n
  <2>1. k = 0 \/ k \in 1 .. n
    OBVIOUS
  <2> QED BY <1>4, <1>5, <2>1, Zenon DEF JoinFrom
<1>7. Joins(pairs, at, sep, C)
  <2>1. C = [k \in 0 .. n |-> JoinFrom(pairs, at, sep, C, k)]
    BY <1>2, <1>6
  <2> QED BY <1>1, <2>1, Zenon DEF Joins
<1>8. PICK J : Joins(pairs, at, sep, J) /\ Joined(pairs, at, sep) = J[n]
  BY <1>1, <1>7, JoinedIsChoice, Zenon
<1>9. \A k \in 0 .. n : J[k] = JoinFrom(pairs, at, sep, J, k)
  <2>1. PICK F : F = [k \in 0 .. n |-> JoinFrom(pairs, at, sep, J, k)]
    OBVIOUS
  <2>2. \A k \in 0 .. n : F[k] = JoinFrom(pairs, at, sep, J, k)
    BY <2>1
  <2> QED BY <1>1, <1>8, <2>1, <2>2, Zenon DEF Joins
<1>10. J[0] = C[0]
  <2>1. 0 \in 0 .. n
    BY <1>1
  <2> QED BY <1>4, <1>9, <2>1, Zenon DEF JoinFrom
<1>11. \A k \in 1 .. n : J[k - 1] = C[k - 1] => J[k] = C[k]
  <2> TAKE k \in 1 .. n
  <2>1. k \in 0 .. n
    OBVIOUS
  <2>2. J[k] = JoinFrom(pairs, at, sep, J, k) /\ C[k] = JoinFrom(pairs, at, sep, C, k)
    BY <1>6, <1>9, <2>1, Zenon
  <2>3. J[k - 1] = C[k - 1] => JoinFrom(pairs, at, sep, J, k) = JoinFrom(pairs, at, sep, C, k)
    BY Zenon DEF JoinFrom
  <2> QED BY <2>2, <2>3, Zenon
<1>12. J[n] = C[n] /\ n \in 0 .. n
  <2>3. StayAgreed(J, C, n)
    BY <1>11, Zenon DEF StayAgreed
  <2>1. TablesAgree(J, C, n)
    BY <1>1, <1>10, <2>3, StepsAgree, Zenon
  <2>2. n \in 0 .. n
    BY <1>1
  <2> QED BY <2>1, <2>2, Zenon DEF TablesAgree
<1>13. \A r : ValuesSo(pairs, n, vs, at, r, n) = Kept(vs, PlacesOf(pairs, n, at, r))
  BY <1>1, KeptIsChoice, Zenon DEF ValuesSo
<1>14. Joined(pairs, at, sep) = JoinedSo(pairs, n, vs, at, sep, n)
  BY <1>3, <1>8, <1>12, Zenon
<1> QED BY <1>13, <1>14, Zenon DEF JoinedSo

\* The same with a name for it.
JoinedOf(pairs, n, vs, at, sep) ==
    Joined(pairs, at, sep) =
        [r \in NamesSo(pairs, at, n) |-> Join(Kept(vs, PlacesOf(pairs, n, at, r)), sep)]
LEMMA JoinedIsSo ==
    ASSUME NEW pairs, NEW n, NEW vs, PairsAre(pairs, n, vs), NEW at, NEW sep \in Seq(Byte)
    PROVE  JoinedOf(pairs, n, vs, at, sep)
BY JoinedIs DEF JoinedOf

-----------------------------------------------------------------------------
(* Query strings *)

\* What is decoded from bytes is bytes.
LEMMA DecodedBytes ==
    ASSUME NEW s \in Seq(Byte), NEW simple PROVE UrlDecode(s, simple) \in Seq(Byte)
<1>1. PICK n \in Nat : n = Len(s) /\ DOMAIN s = 1 .. n
  OBVIOUS
<1>2. PICK D : DecodesTo(s, simple, D) /\ UrlDecode(s, simple) = D[1]
  <2>1. PICK D : D = CHOOSE K : DecodesTo(s, simple, K)
    OBVIOUS
  <2>2. DecodesTo(s, simple, D)
    BY <2>1, DecodesExists
  <2> QED BY <2>1, <2>2, UrlDecodeIs, Zenon
<1>3. \A p \in 1 .. n + 3 : D[p] = DecodedFrom(s, simple, D, p)
  <2>1. PICK F : F = [p \in 1 .. n + 3 |-> DecodedFrom(s, simple, D, p)]
    OBVIOUS
  <2>2. \A p \in 1 .. n + 3 : F[p] = DecodedFrom(s, simple, D, p)
    BY <2>1
  <2> QED BY <1>1, <1>2, <2>1, <2>2, Zenon DEF DecodesTo
<1>4. ASSUME NEW p \in 1 .. n + 3, \A q \in p + 1 .. n + 3 : D[q] \in Seq(Byte)
      PROVE  D[p] \in Seq(Byte)
  <2>1. CASE p > n
    <3>1. D[p] = <<>>
      BY <1>1, <1>3, <2>1, Zenon DEF DecodedFrom
    <3>2. <<>> \in Seq(Byte)
      OBVIOUS
    <3> QED BY <3>1, <3>2
  <2>2. CASE p <= n
    <3>1. p \in 1 .. n /\ p + 1 \in p + 1 .. n + 3 /\ p + 3 \in p + 1 .. n + 3
          /\ ~ (p > n) /\ p \in Nat \ {0}
      BY <2>2
    <3>2. PICK head \in Seq(Byte), y \in Seq(Byte), c \in Byte : head = D[p + 1] /\ y = D[p + 3] /\ c = s[p]
      <4>1. s[p] \in Byte
        BY <1>1, <3>1
      <4>2. D[p + 1] \in Seq(Byte) /\ D[p + 3] \in Seq(Byte)
        BY <1>4, <3>1, Zenon
      <4> QED BY <4>1, <4>2, Zenon
    <3>3. p + 2 <= n => Escaped(s, p) \in Byte
      BY <1>1, <3>1, EscapedIs
    <3>4. \A h \in Byte : <<h>> \o head \in Seq(Byte) /\ <<h>> \o y \in Seq(Byte) /\ <<h>> \in Seq(Byte)
      <4> TAKE h \in Byte
      <4>1. <<h>> \in Seq(Byte)
        OBVIOUS
      <4> QED BY <4>1, CatIn
    <3>5. NUL \in Byte /\ SP \in Byte
      BY DEF NUL, SP, Byte
    <3>6. DecodedFrom(s, simple, D, p) \in Seq(Byte)
      BY <1>1, <3>1, <3>2, <3>3, <3>4, <3>5, Zenon DEF DecodedFrom
    <3> QED BY <1>3, <3>6, Zenon
  <2> QED BY <2>1, <2>2
<1> DEFINE Bad == {p \in 1 .. n + 3 : D[p] \notin Seq(Byte)}
<1>5. Bad = {}
  <2> SUFFICES ASSUME Bad # {} PROVE FALSE
    OBVIOUS
  <2>1. Bad \in SUBSET (1 .. n + 3) /\ n + 3 \in Nat
    OBVIOUS
  <2>2. \A p \in 1 .. n + 3 : p \notin Bad => D[p] \in Seq(Byte)
    OBVIOUS
  <2>3. \A p \in Bad : D[p] \notin Seq(Byte)
    OBVIOUS
  <2> HIDE DEF Bad
  <2>4. PICK p \in Bad : \A q \in p + 1 .. n + 3 : q \notin Bad
    BY <2>1, FromTheEnd
  <2>5. \A q \in p + 1 .. n + 3 : q \in 1 .. n + 3
    BY <2>1
  <2>6. \A q \in p + 1 .. n + 3 : D[q] \in Seq(Byte)
    BY <2>2, <2>4, <2>5, Zenon
  <2>7. p \in 1 .. n + 3
    BY <2>1
  <2> QED BY <1>4, <2>3, <2>6, <2>7, Zenon
<1>6. 1 \in 1 .. n + 3
  OBVIOUS
<1> QED BY <1>2, <1>5, <1>6

\* Parameters, as a choice of what is found from each state of the loop on,
Separators == {AMP, SEMI}
ParamEnds(q, p) == p = Len(q) + 1 \/ q[p] \in {SEMI, AMP}
StartOf(q, p) ==
    LET s == {i \in 1 .. p - 1 : q[i] \in {SEMI, AMP}} IN IF s = {} THEN 1 ELSE Max(s) + 1
ParamAt(q, ptr, name, equal) ==
    IF equal = 0 THEN [name |-> SubSeq(q, StartOf(q, ptr), ptr - 1), value |-> <<>>]
    ELSE [name |-> SubSeq(q, name, equal - 1), value |-> SubSeq(q, equal + 1, ptr - 1)]
ParamFrom(q, P, ptr, name, equal) ==
    IF ptr > Len(q) + 1 THEN <<>>
    ELSE IF ~ParamEnds(q, ptr)
         THEN P[ptr + 1][name][IF q[ptr] = EQ THEN FirstEqual(equal, ptr) ELSE equal]
    ELSE IF IgnoredAt(q, name) \/ (equal = 0 /\ ptr = 1) THEN P[ptr + 2][name][equal]
    ELSE <<ParamAt(q, ptr, name, equal)>> \o P[ptr + 1][ptr + 1][0]
Params(q, P) ==
    P = [ptr \in 1 .. Len(q) + 3 |-> [name \in 1 .. Len(q) + 2 |-> [equal \in 0 .. Len(q) |->
            ParamFrom(q, P, ptr, name, equal)]]]
LEMMA ParametersIsChoice == ASSUME NEW q PROVE Parameters(q) = (CHOOSE P : Params(q, P))[1][1][0]
BY DEF Parameters, Params, ParamFrom, ParamAt, ParamEnds, StartOf

\* of which there is one.
LEMMA ParamsExist == ASSUME NEW q \in Seq(Byte) PROVE \E P : Params(q, P)
<1>1. PICK n \in Nat, d \in Nat : n = Len(q) /\ d = n + 3
  <2>1. Len(q) \in Nat /\ Len(q) + 3 \in Nat
    OBVIOUS
  <2> QED BY <2>1, Zenon
<1>2. PICK I, N, E : I = 1 .. d /\ N = 1 .. n + 2 /\ E = 0 .. n
  OBVIOUS
<1>3. PICK A : \A i \in I, j \in N, k \in E : ParamAt(q, i, j, k) \in A
  <2> DEFINE B == {ParamAt(q, t[1], t[2], t[3]) : t \in I \X N \X E}
  <2>1. ASSUME NEW i \in I, NEW j \in N, NEW k \in E PROVE ParamAt(q, i, j, k) \in B
    <3>1. PICK t \in I \X N \X E : t[1] = i /\ t[2] = j /\ t[3] = k
      <4>1. <<i, j, k>> \in I \X N \X E /\ <<i, j, k>>[1] = i /\ <<i, j, k>>[2] = j
            /\ <<i, j, k>>[3] = k
        OBVIOUS
      <4> QED BY <4>1, Zenon
    <3> QED BY <3>1, Zenon
  <2> HIDE DEF B
  <2> QED BY <2>1, Zenon
<1>4. PICK U : U = Seq(A) /\ <<>> \in U
  <2>1. <<>> \in Seq(A)
    OBVIOUS
  <2> QED BY <2>1, Zenon
<1>5. PICK V : V = [N -> [E -> U]]
  OBVIOUS
<1>6. PICK R : R = [i \in I |-> [f \in [I -> V] |-> [j \in N |-> [k \in E |-> ParamFrom(q, f, i, j, k)]]]]
  OBVIOUS
<1>7. ASSUME NEW i \in I, ~ (i > n + 1)
      PROVE  /\ i + 1 \in I /\ i + 2 \in I /\ i + 1 \in i + 1 .. d /\ i + 2 \in i + 1 .. d
             /\ i + 1 \in N /\ 0 \in E
  BY <1>1, <1>2, <1>7
<1>8. \A f \in [I -> V], i \in I, j \in N, k \in E : f[i][j][k] \in U
  BY <1>5
<1>9. ASSUME NEW i \in I, NEW j \in N, NEW k \in E, ~ (i > n + 1), ~ ParamEnds(q, i)
      PROVE  (IF q[i] = EQ THEN FirstEqual(k, i) ELSE k) \in E
  <2>1. i \in E
    <3>1. i # n + 1
      BY <1>1, <1>9 DEF ParamEnds
    <3> QED BY <1>1, <1>2, <1>9, <3>1
  <2> QED BY <2>1 DEF FirstEqual
<1>10. ASSUME NEW i \in I, NEW f \in [I -> V], NEW j \in N, NEW k \in E PROVE ParamFrom(q, f, i, j, k) \in U
  <2>1. CASE i > n + 1
    BY <1>1, <1>4, <2>1, Zenon DEF ParamFrom
  <2>2. CASE ~ (i > n + 1) /\ ~ ParamEnds(q, i)
    <3>1. PICK e \in E : e = IF q[i] = EQ THEN FirstEqual(k, i) ELSE k
      BY <1>9, <2>2, Zenon
    <3>2. ParamFrom(q, f, i, j, k) = f[i + 1][j][e]
      BY <1>1, <2>2, <3>1, Zenon DEF ParamFrom
    <3> QED BY <1>7, <1>8, <2>2, <3>2, Zenon
  <2>3. CASE ~ (i > n + 1) /\ ParamEnds(q, i) /\ (IgnoredAt(q, j) \/ (k = 0 /\ i = 1))
    <3>1. ParamFrom(q, f, i, j, k) = f[i + 2][j][k]
      BY <1>1, <2>3, Zenon DEF ParamFrom
    <3> QED BY <1>7, <1>8, <2>3, <3>1, Zenon
  <2>4. CASE ~ (i > n + 1) /\ ParamEnds(q, i) /\ ~ (IgnoredAt(q, j) \/ (k = 0 /\ i = 1))
    <3>1. PICK b \in Seq(A) : b = f[i + 1][i + 1][0]
      BY <1>4, <1>7, <1>8, <2>4, Zenon
    <3>2. PICK a \in A : a = ParamAt(q, i, j, k)
      BY <1>3
    <3>3. ParamFrom(q, f, i, j, k) = <<a>> \o b
      BY <1>1, <2>4, <3>1, <3>2, Zenon DEF ParamFrom
    <3>4. <<a>> \in Seq(A)
      OBVIOUS
    <3>5. <<a>> \o b \in Seq(A)
      BY <3>4, CatIn
    <3> QED BY <1>4, <3>3, <3>5, Zenon
  <2> QED BY <2>1, <2>2, <2>3, <2>4, Zenon
<1>11. \A i \in I, f \in [I -> V] : R[i][f] = [j \in N |-> [k \in E |-> ParamFrom(q, f, i, j, k)]]
  BY <1>6
<1>12. \A i \in I, f \in [I -> V] : [j \in N |-> [k \in E |-> ParamFrom(q, f, i, j, k)]] \in V
  BY <1>5, <1>10
<1>13. R \in [I -> [[I -> V] -> V]]
  BY <1>6, <1>12
<1>14. LaterOnly(R, d, V)
  <2> SUFFICES ASSUME NEW i \in I, NEW f \in [I -> V], NEW g \in [I -> V],
                      \A z \in i + 1 .. d : f[z] = g[z]
               PROVE  R[i][f] = R[i][g]
    <3>1. V # {}
      <4>1. [j \in N |-> [k \in E |-> <<>>]] \in V
        BY <1>4, <1>5
      <4> QED BY <4>1
    <3>2. PICK F : F = [I -> V]
      OBVIOUS
    <3>3. ReadsBehind(R, d, I, F)
      BY <3>2, Zenon DEF ReadsBehind
    <3> QED BY <1>2, <1>13, <3>1, <3>2, <3>3, Zenon DEF LaterOnly
  <2>1. ASSUME NEW j \in N, NEW k \in E PROVE ParamFrom(q, f, i, j, k) = ParamFrom(q, g, i, j, k)
    <3>1. CASE i > n + 1
      BY <1>1, <3>1, Zenon DEF ParamFrom
    <3>2. CASE ~ (i > n + 1)
      <4>1. f[i + 1] = g[i + 1] /\ f[i + 2] = g[i + 2]
        BY <1>7, <3>2, Zenon
      <4> QED BY <4>1, Zenon DEF ParamFrom
    <3> QED BY <3>1, <3>2
  <2>2. [j \in N |-> [k \in E |-> ParamFrom(q, f, i, j, k)]] =
        [j \in N |-> [k \in E |-> ParamFrom(q, g, i, j, k)]]
    BY <2>1, Zenon
  <2>3. PICK y : y = [j \in N |-> [k \in E |-> ParamFrom(q, f, i, j, k)]]
    OBVIOUS
  <2>4. y = [j \in N |-> [k \in E |-> ParamFrom(q, g, i, j, k)]]
    BY <2>2, <2>3, Zenon
  <2>5. R[i][f] = y
    BY <1>11, <2>3, Zenon
  <2>6. R[i][g] = y
    BY <1>11, <2>4, Zenon
  <2> QED BY <2>5, <2>6, Zenon
<1>15. PICK P : P \in [I -> V] /\ \A i \in I : P[i] = R[i][P]
  <2>1. PICK P : FilledBy(P, R, d, V)
    BY <1>14, TableExists, Zenon
  <2> QED BY <1>2, <2>1, Zenon DEF FilledBy
<1>17. I = 1 .. Len(q) + 3 /\ N = 1 .. Len(q) + 2 /\ E = 0 .. Len(q)
  BY <1>1, <1>2, Zenon
<1>18. \A i \in I : P[i] = [j \in N |-> [k \in E |-> ParamFrom(q, P, i, j, k)]]
  BY <1>11, <1>15, Zenon
<1>19. \A i \in 1 .. Len(q) + 3 :
         P[i] = [j \in 1 .. Len(q) + 2 |-> [k \in 0 .. Len(q) |-> ParamFrom(q, P, i, j, k)]]
  BY <1>17, <1>18, Zenon
<1>20. P = [i \in 1 .. Len(q) + 3 |-> P[i]]
  BY <1>15, <1>17
<1>21. [i \in 1 .. Len(q) + 3 |-> P[i]] =
       [i \in 1 .. Len(q) + 3 |-> [j \in 1 .. Len(q) + 2 |-> [k \in 0 .. Len(q) |->
          ParamFrom(q, P, i, j, k)]]]
  BY <1>19, Zenon
<1> QED BY <1>20, <1>21, Zenon DEF Params

\* What the table says.
ParamsSay(q, n, P) ==
    \A i \in 1 .. n + 3, j \in 1 .. n + 2, k \in 0 .. n : P[i][j][k] = ParamFrom(q, P, i, j, k)
LEMMA ParamsAre ==
    ASSUME NEW q \in Seq(Byte), NEW n \in Nat, n = Len(q)
    PROVE  \E P : ParamsSay(q, n, P) /\ Parameters(q) = P[1][1][0]
<1>1. PICK P : Params(q, P) /\ Parameters(q) = P[1][1][0]
  <2>1. PICK P : P = CHOOSE K : Params(q, K)
    OBVIOUS
  <2>2. Params(q, P)
    BY <2>1, ParamsExist
  <2> QED BY <2>1, <2>2, ParametersIsChoice, Zenon
<1>2. PICK F : F = [i \in 1 .. n + 3 |-> [j \in 1 .. n + 2 |-> [k \in 0 .. n |->
                      ParamFrom(q, P, i, j, k)]]]
  OBVIOUS
<1>3. P = F
  BY <1>1, <1>2, Zenon DEF Params
<1>4. \A i \in 1 .. n + 3, j \in 1 .. n + 2, k \in 0 .. n : F[i][j][k] = ParamFrom(q, P, i, j, k)
  BY <1>2
<1>5. ParamsSay(q, n, P)
  <2>1. \A i \in 1 .. n + 3, j \in 1 .. n + 2, k \in 0 .. n : P[i][j][k] = ParamFrom(q, P, i, j, k)
    BY <1>3, <1>4
  <2> QED BY <2>1, Zenon DEF ParamsSay
<1> QED BY <1>1, <1>5, Zenon

\* In a parameter: where it began, and its first "=" so far.
InParam(q, n, ptr, name, equal) ==
    /\ ptr \in 1 .. n + 1 /\ name \in 1 .. ptr /\ equal \in 0 .. n
    /\ \A i \in name .. ptr - 1 : q[i] \notin Separators
    /\ name # 1 => q[name - 1] \in Separators
    /\ \/ equal = 0 /\ \A i \in name .. ptr - 1 : q[i] # EQ
       \/ equal \in name .. ptr - 1 /\ q[equal] = EQ /\ \A i \in name .. equal - 1 : q[i] # EQ

\* At its end it is the parameter that the piece of the string says.
LEMMA StartIs ==
    ASSUME NEW q \in Seq(Byte), NEW n \in Nat, n = Len(q), NEW ptr, NEW name, NEW equal,
           InParam(q, n, ptr, name, equal)
    PROVE  StartOf(q, ptr) = name
<1>1. /\ ptr \in 1 .. n + 1 /\ name \in 1 .. ptr
      /\ \A i \in name .. ptr - 1 : q[i] \notin Separators
      /\ name # 1 => q[name - 1] \in Separators
  BY Zenon DEF InParam
<1> DEFINE s == {i \in 1 .. ptr - 1 : q[i] \in {SEMI, AMP}}
<1>2. \A i \in s : i <= name - 1
  <2> TAKE i \in s
  <2>1. q[i] \in Separators /\ i \in 1 .. ptr - 1
    BY DEF Separators
  <2>2. i \notin name .. ptr - 1
    BY <1>1, <2>1, Zenon
  <2> QED BY <1>1, <2>1, <2>2
<1>3. CASE name = 1
  <2>1. s = {}
    BY <1>2, <1>3
  <2> QED BY <1>3, <2>1, Zenon DEF StartOf
<1>4. CASE name # 1
  <2>1. name - 1 \in 1 .. ptr - 1
    BY <1>1, <1>4
  <2>2. q[name - 1] \in {SEMI, AMP}
    BY <1>1, <1>4 DEF Separators
  <2>3. name - 1 \in s
    BY <2>1, <2>2
  <2>4. s \in SUBSET Nat
    OBVIOUS
  <2> HIDE DEF s
  <2>5. PICK m \in s : m = name - 1
    BY <2>3
  <2>6. Max(s) = m
    BY <1>2, <2>4, <2>5, GreatestIs
  <2>7. s # {} /\ m + 1 = name
    BY <1>1, <2>5
  <2>8. StartOf(q, ptr) = Max(s) + 1
    BY <2>7, Zenon DEF StartOf, s
  <2> QED BY <2>6, <2>7, <2>8, Zenon
<1> QED BY <1>3, <1>4

LEMMA OneParam ==
    ASSUME NEW q \in Seq(Byte), NEW n \in Nat, n = Len(q), NEW ptr, NEW name, NEW equal,
           InParam(q, n, ptr, name, equal)
    PROVE  ParamAt(q, ptr, name, equal) = QueryParameter(SubSeq(q, name, ptr - 1))
<1>1. /\ ptr \in 1 .. n + 1 /\ name \in 1 .. ptr /\ equal \in 0 .. n
      /\ \/ equal = 0 /\ \A i \in name .. ptr - 1 : q[i] # EQ
         \/ equal \in name .. ptr - 1 /\ q[equal] = EQ /\ \A i \in name .. equal - 1 : q[i] # EQ
  BY Zenon DEF InParam
<1>2. PICK a \in Nat, l \in Nat : name = a + 1 /\ ptr - 1 = a + l /\ a + l <= n
  <2>1. name - 1 \in Nat /\ ptr - name \in Nat /\ name = (name - 1) + 1
        /\ ptr - 1 = (name - 1) + (ptr - name) /\ (name - 1) + (ptr - name) <= n
    BY <1>1
  <2> QED BY <2>1, Zenon
<1>3. PICK h \in Seq(Byte) : /\ h = SubSeq(q, name, ptr - 1) /\ Len(h) = l /\ l = Len(h)
                             /\ \A j \in 1 .. l : h[j] = q[a + j]
  <2>1. /\ SubSeq(q, a + 1, a + l) \in Seq(Byte) /\ Len(SubSeq(q, a + 1, a + l)) = l
        /\ \A j \in 1 .. l : SubSeq(q, a + 1, a + l)[j] = q[a + j]
    BY <1>2, PartIs
  <2> QED BY <1>2, <2>1, Zenon
<1>4. PICK e : e = FirstOf(h, 1, {EQ})
  OBVIOUS
<1>5. QueryParameter(h) = [name |-> SubSeq(h, 1, e - 1), value |-> SubSeq(h, e + 1, l)]
  BY <1>3, <1>4, Zenon DEF QueryParameter
<1>6. 1 \in 1 .. l + 1
  BY <1>2
<1>7. CASE equal = 0 /\ \A i \in name .. ptr - 1 : q[i] # EQ
  <2>1. e = l + 1
    <3>1. PICK f \in 1 .. l + 1 : f = l + 1 /\ ~ (f <= l)
      <4>1. l + 1 \in 1 .. l + 1 /\ ~ (l + 1 <= l)
        BY <1>2
      <4> QED BY <4>1, Zenon
    <3>2. \A i \in 1 .. f - 1 : h[i] \notin {EQ}
      <4> TAKE i \in 1 .. f - 1
      <4>1. i \in 1 .. l /\ a + i \in name .. ptr - 1
        BY <1>2, <3>1
      <4>2. h[i] # EQ
        BY <1>3, <1>7, <4>1, Zenon
      <4> QED BY <4>2, Zenon
    <3>3. FirstOf(h, 1, {EQ}) = f
      BY <1>3, <1>6, <3>1, <3>2, FirstOfAt, Zenon
    <3> QED BY <1>4, <3>1, <3>3, Zenon
  <2>2. SubSeq(h, 1, e - 1) = h
    <3>1. e - 1 = Len(h)
      BY <1>2, <1>3, <2>1
    <3>2. SubSeq(h, 1, Len(h)) = h
      BY SubSeqAll
    <3> QED BY <3>1, <3>2, Zenon
  <2>3. SubSeq(h, e + 1, l) = <<>>
    BY <1>2, <1>3, <2>1
  <2>4. StartOf(q, ptr) = name
    BY StartIs
  <2>5. ParamAt(q, ptr, name, equal) = [name |-> h, value |-> <<>>]
    BY <1>3, <1>7, <2>4, Zenon DEF ParamAt
  <2> QED BY <1>3, <1>5, <2>2, <2>3, <2>5, Zenon
<1>8. CASE equal \in name .. ptr - 1 /\ q[equal] = EQ /\ \A i \in name .. equal - 1 : q[i] # EQ
  <2>1. PICK f \in 1 .. l : equal = a + f /\ f \in 1 .. l + 1 /\ f \in Nat
    <3>1. equal - a \in 1 .. l /\ equal = a + (equal - a) /\ equal - a \in 1 .. l + 1 /\ equal - a \in Nat
      BY <1>1, <1>2, <1>8
    <3> QED BY <3>1, Zenon
  <2>2. e = f
    <3>1. h[f] \in {EQ}
      BY <1>3, <1>8, <2>1, Zenon
    <3>2. \A i \in 1 .. f - 1 : h[i] \notin {EQ}
      <4> TAKE i \in 1 .. f - 1
      <4>1. i \in 1 .. l /\ a + i \in name .. equal - 1
        BY <1>2, <2>1
      <4>2. h[i] # EQ
        BY <1>3, <1>8, <4>1, Zenon
      <4> QED BY <4>2, Zenon
    <3>3. FirstOf(h, 1, {EQ}) = f
      BY <1>3, <1>6, <2>1, <3>1, <3>2, FirstOfAt
    <3> QED BY <1>4, <3>3, Zenon
  <2>3. SubSeq(q, name, equal - 1) = SubSeq(h, 1, f - 1)
    <3>1. PICK m \in Nat, z \in Nat : /\ m = f - 1 /\ z = 0 /\ a + m <= n /\ z + m <= l
                                      /\ equal - 1 = a + m /\ z + 1 = 1 /\ z + m = f - 1
      <4>1. f - 1 \in Nat /\ a + (f - 1) <= n /\ 0 + (f - 1) <= l /\ equal - 1 = a + (f - 1)
            /\ 0 + 1 = 1 /\ 0 + (f - 1) = f - 1 /\ 0 \in Nat
        BY <1>2, <2>1
      <4> QED BY <4>1, Zenon
    <3>2. \A j \in 1 .. m : q[a + j] = h[z + j]
      <4> TAKE j \in 1 .. m
      <4>1. z + j = j /\ j \in 1 .. l
        BY <1>2, <2>1, <3>1
      <4> QED BY <1>3, <4>1, Zenon
    <3>3. SubSeq(q, a + 1, a + m) = SubSeq(h, z + 1, z + m)
      <4>1. a + m <= Len(q) /\ z + m <= Len(h)
        BY <1>3, <3>1, Zenon
      <4>2. SameParts(Byte, q, a, h, z, m)
        BY <3>1, <3>2, <4>1, Zenon DEF SameParts
      <4>3. SamePart(q, a, h, z, m)
        BY <4>2, PartsAgree, Zenon
      <4> QED BY <4>3, Zenon DEF SamePart
    <3> QED BY <1>2, <3>1, <3>3, Zenon
  <2>4. SubSeq(q, equal + 1, ptr - 1) = SubSeq(h, f + 1, l)
    <3>1. PICK m \in Nat, y \in Nat : /\ y = a + f /\ y + m <= n /\ f + m <= l
                                      /\ equal + 1 = y + 1 /\ ptr - 1 = y + m /\ f + m = l
      <4>1. l - f \in Nat /\ a + f \in Nat /\ a + f + (l - f) <= n /\ f + (l - f) <= l
            /\ equal + 1 = a + f + 1 /\ ptr - 1 = a + f + (l - f) /\ f + (l - f) = l
        BY <1>2, <2>1
      <4> QED BY <4>1, Zenon
    <3>2. \A j \in 1 .. m : q[y + j] = h[f + j]
      <4> TAKE j \in 1 .. m
      <4>1. y + j = a + (f + j) /\ f + j \in 1 .. l
        BY <1>2, <2>1, <3>1
      <4> QED BY <1>3, <4>1, Zenon
    <3>3. SubSeq(q, y + 1, y + m) = SubSeq(h, f + 1, f + m)
      <4>1. y + m <= Len(q) /\ f + m <= Len(h)
        BY <1>3, <3>1, Zenon
      <4>2. SameParts(Byte, q, y, h, f, m)
        BY <2>1, <3>1, <3>2, <4>1, Zenon DEF SameParts
      <4>3. SamePart(q, y, h, f, m)
        BY <4>2, PartsAgree, Zenon
      <4> QED BY <4>3, Zenon DEF SamePart
    <3> QED BY <3>1, <3>3, Zenon
  <2>5. equal # 0
    BY <1>2, <2>1
  <2>6. ParamAt(q, ptr, name, equal) = [name |-> SubSeq(h, 1, f - 1), value |-> SubSeq(h, f + 1, l)]
    BY <2>3, <2>4, <2>5, Zenon DEF ParamAt
  <2> QED BY <1>3, <1>5, <2>2, <2>6, Zenon
<1> QED BY <1>1, <1>7, <1>8

\* The parameters that pieces of a query string say, one piece more.
ParamsOf(ps) == [k \in DOMAIN ps |-> QueryParameter(ps[k])]
ParamsMore(h, r) ==
    /\ ParamsOf(<<h>>) = <<QueryParameter(h)>>
    /\ ParamsOf(<<h>> \o r) = <<QueryParameter(h)>> \o ParamsOf(r)
LEMMA ParamsCons == ASSUME NEW A, NEW h \in A, NEW r \in Seq(A) PROVE ParamsMore(h, r)
<1>1. PICK U : U = {QueryParameter(z) : z \in A}
  OBVIOUS
<1>2. PICK y \in U : y = QueryParameter(h)
  BY <1>1
<1>3. PICK n \in Nat : n = Len(r)
  OBVIOUS
<1>4. PICK t \in Seq(U) : t = ParamsOf(r) /\ Len(t) = n /\ n = Len(t) /\ \A k \in 1 .. n : t[k] = QueryParameter(r[k])
  <2>1. DOMAIN r = 1 .. n /\ \A k \in 1 .. n : r[k] \in A
    BY <1>3
  <2>2. PICK f : f = [k \in 1 .. n |-> QueryParameter(r[k])]
    OBVIOUS
  <2>3. \A k \in 1 .. n : QueryParameter(r[k]) \in U
    BY <1>1, <2>1
  <2>4. f \in Seq(U) /\ Len(f) = n /\ \A k \in 1 .. n : f[k] = QueryParameter(r[k])
    BY <2>2, <2>3
  <2>5. f = ParamsOf(r)
    BY <2>1, <2>2, Zenon DEF ParamsOf
  <2> QED BY <2>4, <2>5, Zenon
<1>5. PICK a \in Seq(A) : /\ a = <<h>> \o r /\ DOMAIN a = 1 .. n + 1 /\ a[1] = h
                          /\ \A k \in 1 .. n : a[k + 1] = r[k]
  <2>1. /\ <<h>> \o r \in Seq(A) /\ Len(<<h>> \o r) = n + 1 /\ (<<h>> \o r)[1] = h
        /\ \A k \in 1 .. n : (<<h>> \o r)[k + 1] = r[k]
    BY <1>3, ConsIs
  <2>2. DOMAIN (<<h>> \o r) = 1 .. n + 1
    BY <2>1
  <2> QED BY <2>1, <2>2, Zenon
<1>6. PICK b \in Seq(U) : /\ b = <<y>> \o t /\ DOMAIN b = 1 .. n + 1 /\ b[1] = y
                          /\ \A k \in 1 .. n : b[k + 1] = t[k]
  <2>1. /\ <<y>> \o t \in Seq(U) /\ Len(<<y>> \o t) = n + 1 /\ (<<y>> \o t)[1] = y
        /\ \A k \in 1 .. n : (<<y>> \o t)[k + 1] = t[k]
    BY <1>4, ConsIs
  <2>2. DOMAIN (<<y>> \o t) = 1 .. n + 1
    BY <2>1
  <2> QED BY <2>1, <2>2, Zenon
<1>7. \A k \in 1 .. n + 1 : b[k] = QueryParameter(a[k])
  <2> TAKE k \in 1 .. n + 1
  <2>1. CASE k = 1
    BY <1>2, <1>5, <1>6, <2>1, Zenon
  <2>2. CASE k # 1
    <3>1. PICK j \in 1 .. n : k = j + 1
      <4>1. k - 1 \in 1 .. n /\ k = (k - 1) + 1
        BY <2>2
      <4> QED BY <4>1, Zenon
    <3> QED BY <1>4, <1>5, <1>6, <3>1, Zenon
  <2> QED BY <2>1, <2>2
<1>8. b = ParamsOf(a)
  <2>1. b = [k \in 1 .. n + 1 |-> QueryParameter(a[k])]
    BY <1>6, <1>7
  <2> QED BY <1>5, <2>1, Zenon DEF ParamsOf
<1>9. ParamsOf(<<h>>) = <<QueryParameter(h)>>
  <2>1. DOMAIN <<h>> = {1} /\ <<h>>[1] = h
    OBVIOUS
  <2>2. ParamsOf(<<h>>) = [k \in {1} |-> QueryParameter(h)]
    BY <2>1, Zenon DEF ParamsOf
  <2>3. <<y>> = [k \in {1} |-> y]
    OBVIOUS
  <2> QED BY <1>2, <2>2, <2>3, Zenon
<1> QED BY <1>2, <1>4, <1>5, <1>6, <1>8, <1>9, Zenon DEF ParamsMore

\* From each state in a parameter on, the loop finds what the pieces say that are
\* there, if none is empty.
NoneEmpty(ps) == \A k \in DOMAIN ps : ps[k] # <<>>
FindsAll(q, n, P, S, ptr) ==
    \A name, equal : InParam(q, n, ptr, name, equal) /\ NoneEmpty(S[name]) =>
        P[ptr][name][equal] = ParamsOf(S[name])

\* An empty string is no parameter.
LEMMA NoneEmptyMore ==
    ASSUME NEW A, NEW h \in A, NEW r \in Seq(A)
    PROVE  /\ NoneEmpty(<<h>>) => h # <<>>
           /\ NoneEmpty(<<h>> \o r) => h # <<>> /\ NoneEmpty(r)
<1>1. PICK n \in Nat : n = Len(r) /\ DOMAIN r = 1 .. n
  OBVIOUS
<1>2. PICK a : a = <<h>> \o r
  OBVIOUS
<1>3. DOMAIN a = 1 .. n + 1 /\ a[1] = h /\ \A k \in 1 .. n : a[k + 1] = r[k]
  <2>1. /\ <<h>> \o r \in Seq(A) /\ Len(<<h>> \o r) = n + 1 /\ (<<h>> \o r)[1] = h
        /\ \A k \in 1 .. n : (<<h>> \o r)[k + 1] = r[k]
    BY <1>1, ConsIs
  <2>2. DOMAIN (<<h>> \o r) = 1 .. n + 1
    BY <2>1
  <2> QED BY <1>2, <2>1, <2>2, Zenon
<1>4. 1 \in 1 .. n + 1 /\ \A k \in 1 .. n : k + 1 \in 1 .. n + 1
  OBVIOUS
<1>5. NoneEmpty(a) => h # <<>> /\ NoneEmpty(r)
  BY <1>1, <1>3, <1>4, Zenon DEF NoneEmpty
<1>6. 1 \in DOMAIN <<h>> /\ <<h>>[1] = h
  OBVIOUS
<1>7. NoneEmpty(<<h>>) => h # <<>>
  BY <1>6, Zenon DEF NoneEmpty
<1> QED BY <1>2, <1>5, <1>7, Zenon

LEMMA ParamsFound ==
    ASSUME NEW q \in Seq(Byte), NEW n \in Nat, n = Len(q), \A i \in 1 .. n : q[i] # NUL,
           NEW P, ParamsSay(q, n, P), NEW S, Splits(q, Separators, S),
           NEW ptr \in 1 .. n + 1, \A z \in ptr + 1 .. n + 1 : FindsAll(q, n, P, S, z)
    PROVE  FindsAll(q, n, P, S, ptr)
<1> SUFFICES ASSUME NEW name, NEW equal, InParam(q, n, ptr, name, equal), NoneEmpty(S[name])
             PROVE  P[ptr][name][equal] = ParamsOf(S[name])
  BY Zenon DEF FindsAll
<1>1. /\ name \in 1 .. ptr /\ equal \in 0 .. n
      /\ \A i \in name .. ptr - 1 : q[i] \notin Separators
      /\ name # 1 => q[name - 1] \in Separators
      /\ \/ equal = 0 /\ \A i \in name .. ptr - 1 : q[i] # EQ
         \/ equal \in name .. ptr - 1 /\ q[equal] = EQ /\ \A i \in name .. equal - 1 : q[i] # EQ
  BY Zenon DEF InParam
<1>2. name \in 1 .. n + 1 /\ ptr \in 1 .. n + 3 /\ name \in 1 .. n + 2 /\ ~ (ptr > n + 1)
  BY <1>1
<1>3. P[ptr][name][equal] = ParamFrom(q, P, ptr, name, equal)
  BY <1>1, <1>2, Zenon DEF ParamsSay
<1>4. CASE ~ ParamEnds(q, ptr)
  <2>1. ptr \in 1 .. n /\ q[ptr] \notin Separators
    <3>1. ptr # n + 1 /\ q[ptr] \notin {SEMI, AMP}
      BY <1>4, Zenon DEF ParamEnds
    <3> QED BY <3>1 DEF Separators
  <2>2. PICK next : next = IF q[ptr] = EQ THEN FirstEqual(equal, ptr) ELSE equal
    OBVIOUS
  <2>3. P[ptr][name][equal] = P[ptr + 1][name][next]
    BY <1>2, <1>3, <1>4, <2>2, Zenon DEF ParamFrom
  <2>4. /\ ptr + 1 \in 1 .. n + 1 /\ ptr + 1 \in ptr + 1 .. n + 1 /\ name \in 1 .. ptr + 1
        /\ \A i \in name .. (ptr + 1) - 1 : i \in name .. ptr - 1 \/ i = ptr
        /\ \A i \in name .. ptr - 1 : i \in name .. (ptr + 1) - 1
        /\ ptr \in name .. (ptr + 1) - 1
    BY <1>1, <2>1
  <2>5. \A i \in name .. (ptr + 1) - 1 : q[i] \notin Separators
    BY <1>1, <2>1, <2>4, Zenon
  <2>6. next \in 0 .. n /\ (\/ next = 0 /\ \A i \in name .. (ptr + 1) - 1 : q[i] # EQ
                            \/ /\ next \in name .. (ptr + 1) - 1 /\ q[next] = EQ
                               /\ \A i \in name .. next - 1 : q[i] # EQ)
    <3>1. CASE q[ptr] # EQ
      <4>1. next = equal
        BY <2>2, <3>1, Zenon
      <4>2. (\A i \in name .. ptr - 1 : q[i] # EQ) => \A i \in name .. (ptr + 1) - 1 : q[i] # EQ
        BY <2>4, <3>1, Zenon
      <4> QED BY <1>1, <2>4, <4>1, <4>2, Zenon
    <3>2. CASE q[ptr] = EQ /\ equal = 0
      <4>1. next = ptr /\ ptr \in 0 .. n
        BY <2>1, <2>2, <3>2 DEF FirstEqual
      <4>2. \A i \in name .. ptr - 1 : q[i] # EQ
        BY <1>1, <3>2
      <4> QED BY <2>4, <3>2, <4>1, <4>2, Zenon
    <3>3. CASE q[ptr] = EQ /\ equal # 0
      <4>1. next = equal
        BY <2>2, <3>3, Zenon DEF FirstEqual
      <4> QED BY <1>1, <2>4, <3>3, <4>1, Zenon
    <3> QED BY <3>1, <3>2, <3>3
  <2>7. InParam(q, n, ptr + 1, name, next)
    BY <1>1, <2>4, <2>5, <2>6, Zenon DEF InParam
  <2>8. P[ptr + 1][name][next] = ParamsOf(S[name])
    BY <2>4, <2>7, Zenon DEF FindsAll
  <2> QED BY <2>3, <2>8, Zenon
<1>5. CASE ParamEnds(q, ptr)
  <2>1. PICK e \in name .. n + 1, head \in Seq(Byte) : FirstPiece(q, n, Separators, S, name, e, head)
    BY <1>2, PieceAndRest, Zenon
  <2>2. /\ e <= n => q[e] \in Separators
        /\ \A i \in name .. e - 1 : q[i] \notin Separators
        /\ head = SubSeq(q, name, e - 1) /\ Len(head) = e - name
        /\ e > n => S[name] = <<head>>
        /\ e <= n => e + 1 \in name + 1 .. n + 1 /\ S[name] = <<head>> \o S[e + 1]
    BY <2>1, Zenon DEF FirstPiece
  <2>3. ptr <= n => q[ptr] \in Separators
    <3>1. ptr <= n => ptr # n + 1
      OBVIOUS
    <3>2. ptr <= n => q[ptr] \in {SEMI, AMP}
      BY <1>5, <3>1, Zenon DEF ParamEnds
    <3> QED BY <3>2 DEF Separators
  <2>4. e = ptr
    <3>1. e < ptr => e \in name .. ptr - 1 /\ e <= n
      OBVIOUS
    <3>2. ptr < e => ptr \in name .. e - 1 /\ ptr <= n
      BY <1>1
    <3>3. ~ (e < ptr) /\ ~ (ptr < e)
      BY <1>1, <2>2, <2>3, <3>1, <3>2, Zenon
    <3> QED BY <1>1, <3>3
  <2>5. PICK T : T = Seq(Byte) /\ head \in T
    OBVIOUS
  <2>6. PICK y : y = QueryParameter(head) /\ y = ParamAt(q, ptr, name, equal)
    <3>1. ParamAt(q, ptr, name, equal) = QueryParameter(SubSeq(q, name, ptr - 1))
      BY OneParam
    <3> QED BY <2>2, <2>4, <3>1, Zenon
  <2>7. ASSUME head # <<>> PROVE ~ (IgnoredAt(q, name) \/ (equal = 0 /\ ptr = 1))
    <3>1. Len(head) # 0
      BY <2>7, EmptyIs, Zenon
    <3>2. name # ptr /\ name \in name .. ptr - 1 /\ name \in 1 .. n /\ ptr # 1 /\ ~ (name > n)
      BY <1>1, <2>2, <2>4, <3>1, SMTT(20)
    <3>3. q[name] # NUL /\ q[name] # AMP
      <4>1. q[name] \notin Separators
        BY <1>1, <3>2, Zenon
      <4> QED BY <3>2, <4>1 DEF Separators
    <3> QED BY <3>2, <3>3 DEF IgnoredAt
  <2>8. head # <<>> => P[ptr][name][equal] = <<y>> \o P[ptr + 1][ptr + 1][0]
    BY <1>2, <1>3, <1>5, <2>6, <2>7, Zenon DEF ParamFrom
  <2>9. CASE e > n
    <3>1. S[name] = <<head>>
      BY <2>2, <2>9, Zenon
    <3>2. <<>> \in Seq(T)
      OBVIOUS
    <3>3. head # <<>> /\ ParamsOf(<<head>>) = <<QueryParameter(head)>>
      <4>1. NoneEmpty(<<head>>) => head # <<>>
        BY <2>5, <3>2, NoneEmptyMore, Zenon
      <4>2. ParamsMore(head, <<>>)
        BY <2>5, <3>2, ParamsCons, Zenon
      <4> QED BY <3>1, <4>1, <4>2, Zenon DEF ParamsMore
    <3>4. P[ptr + 1][ptr + 1][0] = <<>>
      <4>1. ptr + 1 \in 1 .. n + 3 /\ ptr + 1 \in 1 .. n + 2 /\ 0 \in 0 .. n /\ ptr + 1 > n + 1
        BY <2>4, <2>9
      <4>2. P[ptr + 1][ptr + 1][0] = ParamFrom(q, P, ptr + 1, ptr + 1, 0)
        BY <4>1, Zenon DEF ParamsSay
      <4> QED BY <4>1, <4>2, Zenon DEF ParamFrom
    <3>5. <<y>> \o <<>> = <<y>>
      OBVIOUS
    <3> QED BY <2>6, <2>8, <3>1, <3>3, <3>4, <3>5, Zenon
  <2>10. CASE e <= n
    <3>1. S[name] = <<head>> \o S[ptr + 1]
      BY <2>2, <2>4, <2>10, Zenon
    <3>2. /\ ptr + 1 \in ptr + 1 .. n + 1 /\ ptr + 1 \in 1 .. n + 1 /\ ptr + 1 \in 1 .. ptr + 1
          /\ 0 \in 0 .. n /\ \A i : i \notin ptr + 1 .. (ptr + 1) - 1
          /\ (ptr + 1) - 1 = ptr
      BY <2>4, <2>10
    <3>3. InParam(q, n, ptr + 1, ptr + 1, 0)
      <4>1. q[(ptr + 1) - 1] \in Separators
        BY <2>3, <2>4, <2>10, <3>2, Zenon
      <4> QED BY <3>2, <4>1, Zenon DEF InParam
    <3>4. S[ptr + 1] \in Seq(T)
      <4>1. Pieces(q, Separators, ptr + 1, S[ptr + 1])
        BY <3>2, PiecesAre, Zenon
      <4> QED BY <2>5, <4>1, Zenon DEF Pieces
    <3>5. head # <<>> /\ NoneEmpty(S[ptr + 1])
      <4>1. NoneEmpty(<<head>> \o S[ptr + 1]) => head # <<>> /\ NoneEmpty(S[ptr + 1])
        BY <2>5, <3>4, NoneEmptyMore, Zenon
      <4> QED BY <3>1, <4>1, Zenon
    <3>6. P[ptr + 1][ptr + 1][0] = ParamsOf(S[ptr + 1])
      BY <3>2, <3>3, <3>5, Zenon DEF FindsAll
    <3>7. ParamsMore(head, S[ptr + 1])
      BY <2>5, <3>4, ParamsCons, Zenon
    <3> QED BY <2>6, <2>8, <3>1, <3>5, <3>6, <3>7, Zenon DEF ParamsMore
  <2> QED BY <2>4, <2>9, <2>10
<1> QED BY <1>4, <1>5

\* So the loop finds the pieces of the string.
LEMMA ParametersFound ==
    ASSUME NEW q \in Seq(Byte), NUL \notin Bytes(q), NoneEmpty(Split(q, Separators))
    PROVE  Parameters(q) = ParamsOf(Split(q, Separators))
<1>1. PICK n \in Nat : n = Len(q) /\ DOMAIN q = 1 .. n
  OBVIOUS
<1>2. \A i \in 1 .. n : q[i] # NUL
  BY <1>1 DEF Bytes
<1>3. PICK P : ParamsSay(q, n, P) /\ Parameters(q) = P[1][1][0]
  BY <1>1, ParamsAre, Zenon
<1>4. PICK S : Splits(q, Separators, S) /\ Split(q, Separators) = S[1]
  <2>1. PICK S : S = CHOOSE K : Splits(q, Separators, K)
    OBVIOUS
  <2>2. Splits(q, Separators, S)
    BY <2>1, SplitsExists
  <2> QED BY <2>1, <2>2, SplitIsChoice, Zenon
<1>5. \A z \in 1 .. n + 1 : FindsAll(q, n, P, S, z)
  <2> DEFINE Bad == {z \in 1 .. n + 1 : ~ FindsAll(q, n, P, S, z)}
  <2> SUFFICES ASSUME Bad # {} PROVE FALSE
    OBVIOUS
  <2>1. Bad \in SUBSET (1 .. n + 1) /\ n + 1 \in Nat
    OBVIOUS
  <2>2. \A z \in 1 .. n + 1 : z \notin Bad => FindsAll(q, n, P, S, z)
    OBVIOUS
  <2>3. \A z \in Bad : ~ FindsAll(q, n, P, S, z)
    OBVIOUS
  <2> HIDE DEF Bad
  <2>4. PICK p \in Bad : \A z \in p + 1 .. n + 1 : z \notin Bad
    BY <2>1, FromTheEnd
  <2>5. p \in 1 .. n + 1 /\ \A z \in p + 1 .. n + 1 : z \in 1 .. n + 1
    BY <2>1
  <2>6. \A z \in p + 1 .. n + 1 : FindsAll(q, n, P, S, z)
    BY <2>2, <2>4, <2>5, Zenon
  <2>7. FindsAll(q, n, P, S, p)
    BY <1>1, <1>2, <1>3, <1>4, <2>5, <2>6, ParamsFound, Zenon
  <2> QED BY <2>3, <2>7, Zenon
<1>6. InParam(q, n, 1, 1, 0)
  <2>1. 1 \in 1 .. n + 1 /\ 1 \in 1 .. 1 /\ 0 \in 0 .. n /\ \A i : i \notin 1 .. 1 - 1
    OBVIOUS
  <2> QED BY <2>1, Zenon DEF InParam
<1>7. 1 \in 1 .. n + 1
  OBVIOUS
<1>8. FindsAll(q, n, P, S, 1)
  BY <1>5, <1>7, Zenon
<1>9. P[1][1][0] = ParamsOf(S[1])
  <2>1. NoneEmpty(S[1])
    BY <1>4, Zenon
  <2> QED BY <1>6, <1>8, <2>1, Zenon DEF FindsAll
<1> QED BY <1>3, <1>4, <1>9, Zenon

\* The value of a parameter is bytes.
LEMMA ParamValue == ASSUME NEW s \in Seq(Byte) PROVE QueryParameter(s).value \in Seq(Byte)
<1>1. PICK n \in Nat : n = Len(s)
  OBVIOUS
<1>2. 1 \in 1 .. n + 1
  OBVIOUS
<1>3. PICK e \in 1 .. n + 1 : /\ e = FirstOf(s, 1, {EQ}) /\ (e <= n => s[e] \in {EQ})
                              /\ \A i \in 1 .. e - 1 : s[i] \notin {EQ}
  BY <1>1, <1>2, FirstOfIs, Zenon
<1>4. SubSeq(s, e + 1, n) \in Seq(Byte)
  <2>1. CASE e <= n
    <3>1. PICK a \in Nat, l \in Nat : e = a /\ n = a + l /\ a + l <= Len(s)
      <4>1. e \in Nat /\ n - e \in Nat /\ n = e + (n - e) /\ e + (n - e) <= Len(s)
        BY <1>1, <2>1
      <4> QED BY <4>1, Zenon
    <3>2. SubSeq(s, a + 1, a + l) \in Seq(Byte)
      BY <3>1, PartIs
    <3> QED BY <3>1, <3>2, Zenon
  <2>2. CASE e = n + 1
    <3>1. SubSeq(s, e + 1, n) = <<>> /\ <<>> \in Seq(Byte)
      BY <1>1, <2>2
    <3> QED BY <3>1
  <2> QED BY <2>1, <2>2
<1>5. PICK r : r = [name |-> SubSeq(s, 1, e - 1), value |-> SubSeq(s, e + 1, n)]
  OBVIOUS
<1>6. r.value = SubSeq(s, e + 1, n)
  BY <1>5
<1>7. QueryParameter(s) = r
  BY <1>1, <1>3, <1>5, Zenon DEF QueryParameter
<1> QED BY <1>4, <1>6, <1>7, Zenon

\* QueryAgrees, of any pieces.
AgreesWith(q, ps) ==
    /\ QueryVariables(q) =
          [n \in {Decoded(ps[k]).name : k \in Valued(ps)} |->
              Join(Kept([k \in DOMAIN ps |-> Decoded(ps[k]).value],
                        {k \in Valued(ps) : Decoded(ps[k]).name = n}), <<NUL>>)]
    /\ EmptyVariables(q) = {ps[k].name : k \in DOMAIN ps \ Valued(ps)}
LEMMA AgreesIs == ASSUME NEW q, AgreesWith(q, SplitQuery(q)) PROVE QueryAgrees(q)
BY DEF AgreesWith, QueryAgrees

\* A query string without an empty parameter is taken apart exactly at its
\* separators, an "=" in a value stays there, and a name that occurs again keeps
\* all its values, whatever the text. A NUL ends what the loop looks at, so text
\* with one is not meant.
THEOREM QueryTheorem ==
    ASSUME NEW w \in Seq(Byte), NUL \notin Bytes(w) PROVE QueryByParameter(w)
<1> SUFFICES ASSUME NoneEmpty(Split(w, Separators)) PROVE QueryAgrees(w)
  BY Zenon DEF QueryByParameter, NoneEmpty, Separators
<1>1. PICK V : V = Seq(Byte)
  OBVIOUS
<1>2. PICK pieces \in Seq(V), m \in Nat : /\ pieces = Split(w, Separators)
                                          /\ m = Len(pieces) /\ DOMAIN pieces = 1 .. m
  <2>1. PICK n \in Nat : n = Len(w)
    OBVIOUS
  <2>2. PICK S : Splits(w, Separators, S) /\ Split(w, Separators) = S[1]
    <3>1. PICK S : S = CHOOSE K : Splits(w, Separators, K)
      OBVIOUS
    <3>2. Splits(w, Separators, S)
      BY <3>1, SplitsExists
    <3> QED BY <3>1, <3>2, SplitIsChoice, Zenon
  <2>3. 1 \in 1 .. n + 1
    OBVIOUS
  <2>4. Pieces(w, Separators, 1, S[1])
    BY <2>1, <2>2, <2>3, PiecesAre, Zenon
  <2>5. S[1] \in Seq(V)
    BY <1>1, <2>4, Zenon DEF Pieces
  <2>6. Len(S[1]) \in Nat /\ DOMAIN S[1] = 1 .. Len(S[1])
    BY <2>5
  <2> QED BY <2>2, <2>5, <2>6, Zenon
<1>3. PICK ps : ps = ParamsOf(pieces)
  OBVIOUS
<1>4. DOMAIN ps = 1 .. m /\ \A k \in 1 .. m : ps[k] = QueryParameter(pieces[k])
  BY <1>2, <1>3 DEF ParamsOf
<1>5. Parameters(w) = ps /\ SplitQuery(w) = ps
  <2>1. Parameters(w) = ps
    BY <1>2, <1>3, ParametersFound, Zenon
  <2>2. SplitQuery(w) = ps
    BY <1>2, <1>3, Zenon DEF SplitQuery, ParamsOf, Separators
  <2> QED BY <2>1, <2>2
<1>6. PICK pairs : pairs = [k \in DOMAIN ps |-> Decoded(ps[k])]
  OBVIOUS
<1>7. PICK vs : vs = [k \in DOMAIN ps |-> Decoded(ps[k]).value]
  OBVIOUS
<1>8. ASSUME NEW k \in 1 .. m PROVE Decoded(ps[k]).value \in V
  <2>1. PICK p : p = ps[k]
    OBVIOUS
  <2>2. p.value \in Seq(Byte)
    <3>1. pieces[k] \in Seq(Byte)
      BY <1>1, <1>2
    <3> QED BY <1>4, <2>1, <3>1, ParamValue, Zenon
  <2>3. UrlDecode(p.value, 0) \in V
    BY <1>1, <2>2, DecodedBytes, Zenon
  <2>4. Decoded(p).value = UrlDecode(p.value, 0)
    BY DEF Decoded
  <2> QED BY <2>1, <2>3, <2>4, Zenon
<1>9. \A k \in 1 .. m : pairs[k] = Decoded(ps[k]) /\ vs[k] = Decoded(ps[k]).value
  BY <1>4, <1>6, <1>7
<1>10. PairsAre(pairs, m, vs)
  <2>1. vs \in Seq(V) /\ m = Len(vs)
    BY <1>4, <1>7, <1>8
  <2>2. m = Len(pairs)
    BY <1>4, <1>6
  <2>3. \A k \in 1 .. m : vs[k] = pairs[k].value
    BY <1>9, Zenon
  <2> QED BY <1>1, <2>1, <2>2, <2>3, Zenon DEF PairsAre
<1>11. PICK at : at = Valued(ps)
  OBVIOUS
<1>11a. PICK sep \in Seq(Byte) : sep = <<NUL>>
  <2>1. <<NUL>> \in Seq(Byte)
    BY DEF NUL, Byte
  <2> QED BY <2>1, Zenon
<1>12. \A k : k \in at => k \in 1 .. m
  BY <1>4, <1>11 DEF Valued
<1>13. Joined(pairs, at, sep) =
         [x1 \in NamesSo(pairs, at, m) |-> Join(Kept(vs, PlacesOf(pairs, m, at, x1)), sep)]
  BY <1>10, JoinedIs
<1>14. NamesSo(pairs, at, m) = {Decoded(ps[k]).name : k \in at}
  <2>1. {i \in 1 .. m : i \in at} = at
    BY <1>12
  <2>2. NamesSo(pairs, at, m) = {pairs[k].name : k \in at}
    BY <2>1, Zenon DEF NamesSo
  <2>3. \A k \in at : pairs[k].name = Decoded(ps[k]).name
    BY <1>9, <1>12, Zenon
  <2> QED BY <2>2, <2>3
<1>15. \A x1 : PlacesOf(pairs, m, at, x1) = {k \in at : Decoded(ps[k]).name = x1}
  <2> TAKE x1
  <2>1. \A k : k \in PlacesOf(pairs, m, at, x1) <=> k \in 1 .. m /\ k \in at /\ pairs[k].name = x1
    BY DEF PlacesOf
  <2>2. \A k : k \in {j \in at : Decoded(ps[j]).name = x1} <=> k \in at /\ Decoded(ps[k]).name = x1
    OBVIOUS
  <2>3. \A k : k \in PlacesOf(pairs, m, at, x1) <=> k \in {j \in at : Decoded(ps[j]).name = x1}
    BY <1>9, <1>12, <2>1, <2>2, Zenon
  <2> QED BY <2>3
<1>16. QueryVariables(w) =
         [x1 \in {Decoded(ps[k]).name : k \in at} |->
             Join(Kept(vs, {k \in at : Decoded(ps[k]).name = x1}), sep)]
  <2>1. QueryVariables(w) = Joined(pairs, at, sep)
    BY <1>5, <1>6, <1>11, <1>11a, Zenon DEF QueryVariables
  <2> QED BY <1>13, <1>14, <1>15, <2>1, Zenon
<1>17. EmptyVariables(w) = {ps[k].name : k \in DOMAIN ps \ Valued(ps)}
  BY <1>5, Zenon DEF EmptyVariables
<1>18. QueryVariables(w) =
         [x1 \in {Decoded(ps[k]).name : k \in Valued(ps)} |->
             Join(Kept([k \in DOMAIN ps |-> Decoded(ps[k]).value],
                       {k \in Valued(ps) : Decoded(ps[k]).name = x1}), <<NUL>>)]
  BY <1>7, <1>11, <1>11a, <1>16, Zenon
<1>19. SplitQuery(w) = ps
  BY <1>5
<1>20. AgreesWith(w, ps)
  BY <1>17, <1>18, Zenon DEF AgreesWith
<1>21. AgreesWith(w, SplitQuery(w))
  BY <1>19, <1>20, Zenon
<1> QED BY <1>21, AgreesIs

\* The words that are query strings have no NUL.
QueryInv == On("query") => NUL \notin Bytes(word)
LEMMA QueryNext ==
    ASSUME TextInv, QueryInv, [MCNext]_<<vars, alphabet, word>> PROVE QueryInv'
<1> SUFFICES ASSUME alphabet' = "query" PROVE NUL \notin Bytes(word')
  BY DEF QueryInv, On
<1>1. CASE Extend
  <2>1. alphabet = "query" /\ NUL \notin Bytes(word) /\ word \in Seq(Byte)
    BY <1>1 DEF Extend, QueryInv, On, TextInv, WordInv
  <2>2. PICK token \in Alphabet[alphabet] : word' = word \o token
    BY <1>1 DEF Extend
  <2>3. token \in {<<x>>, <<EQ>>, <<AMP>>, <<SEMI>>, <<PCT, 52, 49>>}
    BY <2>1, <2>2 DEF Alphabet
  <2>4. x # NUL /\ EQ # NUL /\ AMP # NUL /\ SEMI # NUL /\ PCT # NUL /\ 52 # NUL /\ 49 # NUL
    BY DEF x, EQ, AMP, SEMI, PCT, NUL
  <2>5. \A j \in 1 .. Len(token) : token[j] # NUL
    <3>1. \A c : c # NUL => \A j \in 1 .. Len(<<c>>) : <<c>>[j] # NUL
      OBVIOUS
    <3>2. \A b, c, d : b # NUL /\ c # NUL /\ d # NUL =>
              \A j \in 1 .. Len(<<b, c, d>>) : <<b, c, d>>[j] # NUL
      OBVIOUS
    <3>3. CASE token = <<PCT, 52, 49>>
      BY <2>4, <3>2, <3>3, Zenon
    <3>4. CASE token \in {<<x>>, <<EQ>>, <<AMP>>, <<SEMI>>}
      BY <2>4, <3>1, <3>4, Zenon
    <3> QED BY <2>3, <3>3, <3>4, Zenon
  <2>6. PICK a \in Seq(Byte), b \in Seq(Byte) : a = word /\ b = token
    <3>1. alphabet \in DOMAIN Alphabet
      BY <1>1 DEF Extend, Words, TextInv, WordInv
    <3>2. token \in Seq(Byte)
      BY <2>2, <3>1, TokensAreBytes
    <3> QED BY <2>1, <3>2, Zenon
  <2>7. PICK m \in Nat, l \in Nat : m = Len(a) /\ l = Len(b)
    OBVIOUS
  <2>8. \A j \in 1 .. m : a[j] # NUL
    <3>1. DOMAIN word = 1 .. m
      BY <2>6, <2>7
    <3> QED BY <2>1, <2>6, <3>1 DEF Bytes
  <2>9. DOMAIN (a \o b) = 1 .. m + l /\ \A j \in 1 .. m : (a \o b)[j] = a[j]
    BY <2>7
  <2>10. \A j \in 1 .. l : (a \o b)[m + j] = b[j]
    BY <2>7
  <2>11. ASSUME NEW j \in 1 .. m + l PROVE (a \o b)[j] # NUL
    <3>1. CASE j \in 1 .. m
      BY <2>8, <2>9, <3>1, Zenon
    <3>2. CASE j \notin 1 .. m
      <4>1. PICK i \in 1 .. l : j = m + i
        <5>1. j - m \in 1 .. l /\ j = m + (j - m)
          BY <3>2
        <5> QED BY <5>1, Zenon
      <4> QED BY <2>5, <2>6, <2>7, <2>10, <4>1, Zenon
    <3> QED BY <3>1, <3>2
  <2>12. NUL \notin Bytes(a \o b)
    BY <2>9, <2>11, Zenon DEF Bytes
  <2> QED BY <2>2, <2>6, <2>12, Zenon
<1>2. CASE UNCHANGED <<alphabet, word>>
  BY <1>2 DEF QueryInv, On
<1> QED BY <1>1, <1>2 DEF MCNext

\* The property of the run.
THEOREM QueryByParameterTheorem == MCSpec => []QueryByParameterOK
<1>1. MCInit => TextInv /\ QueryInv
  <2>1. Bytes(<<>>) = {}
    BY DEF Bytes
  <2> QED BY <2>1, TextInit DEF MCInit, QueryInv
<1>2. TextInv /\ QueryInv /\ [MCNext]_<<vars, alphabet, word>> => TextInv' /\ QueryInv'
  BY TextNext, QueryNext
<1>3. TextInv /\ QueryInv => QueryByParameterOK
  BY QueryTheorem DEF TextInv, WordInv, QueryInv, QueryByParameterOK, On
<1> QED BY <1>1, <1>2, <1>3, PTL DEF MCSpec

-----------------------------------------------------------------------------
(* Header lines *)

\* FirstOfAtIn, with its hypotheses in one.
FoundAt(A, s, n, p, S, e) ==
    /\ s \in Seq(A) /\ n \in Nat /\ n = Len(s) /\ p \in 1 .. n + 1 /\ e \in p .. n + 1
    /\ e <= n => s[e] \in S
    /\ \A i \in p .. e - 1 : s[i] \notin S
LEMMA FoundIs ==
    ASSUME NEW A, NEW s, NEW n, NEW p, NEW S, NEW e, FoundAt(A, s, n, p, S, e)
    PROVE  FirstOf(s, p, S) = e
<1>1. /\ s \in Seq(A) /\ n \in Nat /\ n = Len(s) /\ p \in 1 .. n + 1 /\ e \in p .. n + 1
      /\ e <= n => s[e] \in S
      /\ \A i \in p .. e - 1 : s[i] \notin S
  BY Zenon DEF FoundAt
<1> QED BY <1>1, FirstOfAtIn

\* A well-formed line: its colon, and where the value begins.
LineShape(l, z, k, u) ==
    /\ l \in Seq(Byte) /\ z \in Nat /\ z = Len(l)
    /\ k = FirstOf(l, 1, {COLON}) /\ k \in 1 .. z /\ l[k] = COLON
    /\ \A j \in 1 .. k - 1 : l[j] # COLON
    /\ u = FirstOf(l, k + 1, Byte \ {SP}) /\ u \in k + 1 .. z + 1
    /\ \A j \in k + 1 .. u - 1 : l[j] = SP
    /\ u <= z => l[u] # SP
    /\ \A j \in 1 .. z : l[j] \in Byte \ {CR, LF}
LEMMA LineShapeIs ==
    ASSUME NEW l \in Seq(Byte), WellFormed(l), LF \notin Bytes(l)
    PROVE  \E z \in Nat, k \in Nat, u \in Nat : LineShape(l, z, k, u)
<1>1. PICK z \in Nat : z = Len(l) /\ DOMAIN l = 1 .. z
  OBVIOUS
<1>2. \A j \in 1 .. z : l[j] \in Byte \ {CR, LF}
  <2>1. \A j \in 1 .. z : l[j] \in Byte
    BY <1>1
  <2>2. \A j \in 1 .. z : l[j] \in Bytes(l)
    BY <1>1 DEF Bytes
  <2> QED BY <2>1, <2>2 DEF WellFormed
<1>3. PICK c \in 1 .. z : l[c] = COLON
  BY <1>1 DEF WellFormed, Bytes
<1>4. 1 \in 1 .. z + 1
  BY <1>1
<1>5. PICK k \in 1 .. z + 1 : /\ k = FirstOf(l, 1, {COLON}) /\ (k <= z => l[k] \in {COLON})
                              /\ \A j \in 1 .. k - 1 : l[j] \notin {COLON}
  BY <1>1, <1>4, FirstOfIn, Zenon
<1>6. k \in 1 .. z
  <2>1. ~(c \in 1 .. k - 1)
    BY <1>3, <1>5, Zenon
  <2>2. c \in 1 .. z /\ k \in 1 .. z + 1 /\ z \in Nat
    BY <1>1, <1>3, <1>5, Zenon
  <2> QED BY <2>1, <2>2
<1>7. k + 1 \in 1 .. z + 1
  BY <1>6
<1>8. PICK u \in k + 1 .. z + 1 : /\ u = FirstOf(l, k + 1, Byte \ {SP}) /\ (u <= z => l[u] \in Byte \ {SP})
                                  /\ \A j \in k + 1 .. u - 1 : l[j] \notin Byte \ {SP}
  BY <1>1, <1>7, FirstOfIn, Zenon
<1>9. \A j \in k + 1 .. u - 1 : l[j] = SP
  <2> TAKE j \in k + 1 .. u - 1
  <2>1. j \in 1 .. z
    BY <1>6
  <2> QED BY <1>2, <1>8, <2>1
<1>10. l[k] = COLON /\ k \in Nat /\ u \in Nat /\ (k <= z)
  BY <1>5, <1>6
<1>11. u <= z => l[u] # SP
  BY <1>8
<1>12. LineShape(l, z, k, u)
  BY <1>1, <1>2, <1>5, <1>6, <1>8, <1>9, <1>10, <1>11, Zenon DEF LineShape
<1> QED BY <1>10, <1>12

\* A text with the line in it, and the end of a line behind it, has the same colon,
\* name and value there.
Carries(s, n, o, l, z) ==
    /\ s \in Seq(Byte) /\ n \in Nat /\ n = Len(s) /\ o \in Nat /\ o + z + 1 <= n
    /\ \A j \in 1 .. z : s[o + j] = l[j]
    /\ s[o + z + 1] \in {CR, LF}
LineFound(s, o, l, z, k, u) ==
    /\ FirstOf(s, o + 1, {COLON}) = o + k
    /\ FirstOf(s, o + k + 1, Byte \ {SP}) = o + u
    /\ FirstOf(s, o + u, {CR, LF}) = o + z + 1
    /\ SubSeq(s, o + 1, o + k - 1) = SubSeq(l, 1, k - 1)
    /\ SubSeq(s, o + u, o + z) = SubSeq(l, u, z)
LEMMA LineIsFound ==
    ASSUME NEW s, NEW n, NEW o, NEW l, NEW z, NEW k, NEW u,
           Carries(s, n, o, l, z), LineShape(l, z, k, u)
    PROVE  LineFound(s, o, l, z, k, u)
<1>1. /\ s \in Seq(Byte) /\ n \in Nat /\ n = Len(s) /\ o \in Nat /\ o + z + 1 <= n
      /\ \A j \in 1 .. z : s[o + j] = l[j]
      /\ s[o + z + 1] \in {CR, LF}
  BY Zenon DEF Carries
<1>2. /\ l \in Seq(Byte) /\ z \in Nat /\ z = Len(l) /\ k \in 1 .. z /\ l[k] = COLON
      /\ \A j \in 1 .. k - 1 : l[j] # COLON
      /\ u \in k + 1 .. z + 1
      /\ \A j \in k + 1 .. u - 1 : l[j] = SP
      /\ u <= z => l[u] # SP
      /\ \A j \in 1 .. z : l[j] \in Byte \ {CR, LF}
  BY Zenon DEF LineShape
<1>0. s \in Seq(Byte) /\ n \in Nat /\ n = Len(s)
  BY <1>1
<1>3. k \in Nat /\ u \in Nat
  BY <1>2
<1>5. n \in Nat /\ o \in Nat /\ o + z + 1 <= n /\ z \in Nat /\ k \in 1 .. z /\ u \in k + 1 .. z + 1
      /\ k \in Nat /\ u \in Nat
  BY <1>1, <1>2, <1>3, Zenon
<1>4. \A i \in o + 1 .. o + z : \E j \in 1 .. z : i = o + j /\ s[i] = l[j]
  <2> TAKE i \in o + 1 .. o + z
  <2>1. i - o \in 1 .. z /\ i = o + (i - o)
    BY <1>1, <1>2
  <2> QED BY <1>1, <2>1, Zenon
<1>10. FirstOf(s, o + 1, {COLON}) = o + k
  <2>1. PICK p, e : p = o + 1 /\ e = o + k
    OBVIOUS
  <2>2. p \in 1 .. n + 1 /\ e \in p .. n + 1
    BY <1>5, <2>1
  <2>3. s[e] \in {COLON}
    BY <1>1, <1>2, <2>1
  <2>4. ASSUME NEW i \in p .. e - 1 PROVE s[i] \notin {COLON}
    <3>1. i \in o + 1 .. o + z
      BY <1>5, <2>1
    <3>2. PICK j \in 1 .. z : i = o + j /\ s[i] = l[j]
      BY <1>4, <3>1, Zenon
    <3>3. j \in 1 .. k - 1
      BY <1>5, <2>1, <3>2
    <3> QED BY <1>2, <3>2, <3>3
  <2>5. FirstOf(s, p, {COLON}) = e
    <3>1. FoundAt(Byte, s, n, p, {COLON}, e)
      BY <1>0, <2>2, <2>3, <2>4, Zenon DEF FoundAt
    <3> QED BY <3>1, FoundIs, Zenon
  <2> QED BY <2>1, <2>5, Zenon
<1>6. FirstOf(s, o + k + 1, Byte \ {SP}) = o + u
  <2>1. PICK p, e : p = o + k + 1 /\ e = o + u
    OBVIOUS
  <2>2. p \in 1 .. n + 1 /\ e \in p .. n + 1
    BY <1>5, <2>1
  <2>3. s[e] \in Byte \ {SP}
    <3>1. CASE u <= z
      <4>1. s[e] = l[u] /\ u \in 1 .. z
        BY <1>1, <1>2, <1>3, <2>1, <3>1
      <4> QED BY <1>2, <3>1, <4>1
    <3>2. CASE u = z + 1
      <4>1. e = o + z + 1
        BY <1>1, <1>2, <2>1, <3>2
      <4>2. s[e] \in {CR, LF}
        BY <1>1, <4>1, Zenon
      <4> QED BY <4>2 DEF CR, LF, SP, Byte
    <3> QED BY <1>2, <3>1, <3>2
  <2>4. ASSUME NEW i \in p .. e - 1 PROVE s[i] \notin Byte \ {SP}
    <3>1. i \in o + 1 .. o + z
      BY <1>5, <2>1
    <3>2. PICK j \in 1 .. z : i = o + j /\ s[i] = l[j]
      BY <1>4, <3>1, Zenon
    <3>3. j \in k + 1 .. u - 1
      BY <1>5, <2>1, <3>2
    <3> QED BY <1>2, <3>2, <3>3
  <2>5. FirstOf(s, p, Byte \ {SP}) = e
    <3>1. FoundAt(Byte, s, n, p, Byte \ {SP}, e)
      BY <1>0, <2>2, <2>3, <2>4, Zenon DEF FoundAt
    <3> QED BY <3>1, FoundIs, Zenon
  <2> QED BY <2>1, <2>5, Zenon
<1>7. FirstOf(s, o + u, {CR, LF}) = o + z + 1
  <2>1. PICK p, e : p = o + u /\ e = o + z + 1
    OBVIOUS
  <2>2. p \in 1 .. n + 1 /\ e \in p .. n + 1
    BY <1>5, <2>1
  <2>3. s[e] \in {CR, LF}
    BY <1>1, <2>1, Zenon
  <2>4. ASSUME NEW i \in p .. e - 1 PROVE s[i] \notin {CR, LF}
    <3>1. i \in o + 1 .. o + z
      BY <1>5, <2>1
    <3>2. PICK j \in 1 .. z : i = o + j /\ s[i] = l[j]
      BY <1>4, <3>1, Zenon
    <3> QED BY <1>2, <3>2
  <2>5. FirstOf(s, p, {CR, LF}) = e
    <3>1. FoundAt(Byte, s, n, p, {CR, LF}, e)
      BY <1>0, <2>2, <2>3, <2>4, Zenon DEF FoundAt
    <3> QED BY <3>1, FoundIs, Zenon
  <2> QED BY <2>1, <2>5, Zenon
<1>8. SubSeq(s, o + 1, o + k - 1) = SubSeq(l, 1, k - 1)
  <2>1. PICK m \in Nat : m = k - 1
    <3>1. k - 1 \in Nat
      BY <1>2
    <3> QED BY <3>1, Zenon
  <2>2. PICK y \in Nat : y = 0 /\ o + m <= n /\ y + m <= z /\ o + m = o + k - 1 /\ y + 1 = 1 /\ y + m = k - 1
    <3>1. 0 \in Nat /\ o + m <= n /\ 0 + m <= z /\ o + m = o + k - 1 /\ 0 + 1 = 1 /\ 0 + m = k - 1
      BY <1>5, <2>1
    <3> QED BY <3>1, Zenon
  <2>3. \A j \in 1 .. m : s[o + j] = l[y + j]
    <3> TAKE j \in 1 .. m
    <3>1. j \in 1 .. z /\ y + j = j
      BY <1>5, <2>1, <2>2
    <3> QED BY <1>1, <3>1, Zenon
  <2>4. SameParts(Byte, s, o, l, y, m)
    BY <1>1, <1>2, <2>1, <2>2, <2>3, Zenon DEF SameParts
  <2>5. SamePart(s, o, l, y, m)
    BY <2>4, PartsAgree, Zenon
  <2> QED BY <2>2, <2>5, Zenon DEF SamePart
<1>9. SubSeq(s, o + u, o + z) = SubSeq(l, u, z)
  <2>1. PICK m \in Nat, xx \in Nat, y \in Nat : m = z + 1 - u /\ xx = o + u - 1 /\ y = u - 1
    <3>1. z + 1 - u \in Nat /\ o + u - 1 \in Nat /\ u - 1 \in Nat
      BY <1>5
    <3> QED BY <3>1, Zenon
  <2>2. xx + m <= n /\ y + m <= z
    BY <1>5, <2>1
  <2>3. \A j \in 1 .. m : s[xx + j] = l[y + j]
    <3> TAKE j \in 1 .. m
    <3>1. y + j \in 1 .. z /\ xx + j = o + (y + j)
      BY <1>5, <2>1
    <3> QED BY <1>1, <3>1, Zenon
  <2>4. SamePart(s, xx, l, y, m)
    <3>1. SameParts(Byte, s, xx, l, y, m)
      BY <1>1, <1>2, <2>1, <2>2, <2>3, Zenon DEF SameParts
    <3> QED BY <3>1, PartsAgree, Zenon
  <2>5. xx + 1 = o + u /\ xx + m = o + z /\ y + 1 = u /\ y + m = z
    BY <1>5, <2>1
  <2> QED BY <2>4, <2>5, Zenon DEF SamePart
<1> QED BY <1>10, <1>6, <1>7, <1>8, <1>9, Zenon DEF LineFound

-----------------------------------------------------------------------------
(* The loop over a header block *)

\* One pair of the loop, what it is and where the loop goes on.
ColonAt(s, os) == FirstOf(s, os, {COLON})
ValueAt(s, os) == FirstOf(s, ColonAt(s, os) + 1, Byte \ {SP})
StopAt(s, os) == FirstOf(s, ValueAt(s, os), {CR, LF})
AfterAt(s, os) ==
    IF StopAt(s, os) < Len(s) /\ s[StopAt(s, os) + 1] = LF THEN StopAt(s, os) + 1 ELSE StopAt(s, os)
PairAt(s, os) ==
    [name |-> Lowercase(SubSeq(s, os, ColonAt(s, os) - 1)),
     value |-> SubSeq(s, ValueAt(s, os), StopAt(s, os) - 1)]
PairsFrom(s, P, os) ==
    IF ColonAt(s, os) > Len(s) THEN <<>> ELSE <<PairAt(s, os)>> \o P[AfterAt(s, os) + 1]
PairsTable(s, P) == P = [os \in 1 .. Len(s) + 1 |-> PairsFrom(s, P, os)]

\* HeaderPairs, as a choice of what the loop finds from each position on.
LEMMA HeaderPairsIsChoice ==
    ASSUME NEW s PROVE HeaderPairs(s) = (CHOOSE P : PairsTable(s, P))[1]
BY DEF HeaderPairs, PairsTable, PairsFrom, PairAt, AfterAt, StopAt, ValueAt, ColonAt

\* In a text that ends with a line feed the loop goes on behind the line.
LEMMA AfterIn ==
    ASSUME NEW s \in Seq(Byte), NEW n \in Nat, n = Len(s), n > 0, s[n] = LF,
           NEW os \in 1 .. n + 1, ColonAt(s, os) <= n
    PROVE  AfterAt(s, os) + 1 \in os + 1 .. n + 1
<1>1. PICK i \in os .. n + 1 : i = ColonAt(s, os) /\ (i <= n => s[i] \in {COLON})
  BY FirstOfIn, Zenon DEF ColonAt
<1>2. i \in os .. n /\ s[i] = COLON
  BY <1>1
<1>3. COLON # LF /\ SP # LF /\ LF \in Byte
  BY DEF COLON, LF, SP, Byte
<1>4. i # n
  BY <1>2, <1>3
<1>5. i + 1 \in 1 .. n + 1 /\ i + 1 <= n
  BY <1>2, <1>4
<1>6. PICK v \in i + 1 .. n + 1 : /\ v = ValueAt(s, os)
                                  /\ \A k \in i + 1 .. v - 1 : s[k] \notin Byte \ {SP}
  BY <1>1, <1>5, FirstOfIn, Zenon DEF ValueAt
<1>7. v <= n
  <2>1. s[n] \in Byte \ {SP}
    BY <1>3
  <2>2. n \notin i + 1 .. v - 1
    BY <1>6, <2>1, Zenon
  <2> QED BY <1>5, <1>6, <2>2
<1>8. v \in 1 .. n + 1
  BY <1>2, <1>6, <1>7
<1>9. PICK j \in v .. n + 1 : j = StopAt(s, os) /\ \A k \in v .. j - 1 : s[k] \notin {CR, LF}
  BY <1>6, <1>8, FirstOfIn, Zenon DEF StopAt
<1>10. j <= n
  <2>1. n \notin v .. j - 1
    BY <1>9
  <2> QED BY <1>7, <1>9, <2>1
<1>11. AfterAt(s, os) = j \/ (AfterAt(s, os) = j + 1 /\ j < n)
  BY <1>9, Zenon DEF AfterAt
<1> QED BY <1>2, <1>6, <1>9, <1>10, <1>11

\* What the loop finds in such a text.
PairsSay(s, n, P) ==
    \A os \in 1 .. n + 1 :
        /\ ColonAt(s, os) > n => P[os] = <<>>
        /\ ColonAt(s, os) <= n => /\ AfterAt(s, os) + 1 \in os + 1 .. n + 1
                                  /\ P[os] = <<PairAt(s, os)>> \o P[AfterAt(s, os) + 1]
LEMMA PairsAreSo ==
    ASSUME NEW s \in Seq(Byte), NEW n \in Nat, n = Len(s), n > 0, s[n] = LF
    PROVE  \E P : /\ PairsSay(s, n, P) /\ HeaderPairs(s) = P[1]
                  /\ \E A : \A os \in 1 .. n + 1 : P[os] \in Seq(A)
<1>1. PICK A : A = {PairAt(s, os) : os \in 1 .. n + 1}
  OBVIOUS
<1>2. PICK v : v = [os \in 1 .. n + 1 |-> <<PairAt(s, os)>>]
  OBVIOUS
<1>3. PICK q : q = [os \in 1 .. n + 1 |-> AfterAt(s, os) + 1]
  OBVIOUS
<1>4. \A os \in 1 .. n + 1 : v[os] = <<PairAt(s, os)>> /\ q[os] = AfterAt(s, os) + 1
  BY <1>2, <1>3
<1>5. PICK d \in Nat, live \in SUBSET (1 .. n + 1) :
        d = n + 1 /\ live = {os \in 1 .. n + 1 : ColonAt(s, os) <= n}
  <2>1. n + 1 \in Nat
    OBVIOUS
  <2> QED BY <2>1
<1>6. \A os \in 1 .. n + 1 : ColonAt(s, os) \in Nat
  <2> TAKE os \in 1 .. n + 1
  <2>1. PICK S : S = {COLON}
    OBVIOUS
  <2>2. PICK i \in os .. n + 1 : /\ i = FirstOf(s, os, S) /\ (i <= n => s[i] \in S)
                                  /\ \A j \in os .. i - 1 : s[j] \notin S
    BY FirstOfIn, Zenon
  <2>3. i = ColonAt(s, os)
    BY <2>1, <2>2, Zenon DEF ColonAt
  <2> QED BY <2>3
<1>7. \A os \in 1 .. n + 1 : os \in live <=> ~ (ColonAt(s, os) > n)
  BY <1>5, <1>6
<1>8. Links(d, live, A, v, q)
  <2>1. \A c \in A : <<c>> \in Seq(A)
    OBVIOUS
  <2>2. ASSUME NEW os \in live PROVE v[os] \in Seq(A) /\ q[os] \in os + 1 .. d
    <3>1. os \in 1 .. n + 1 /\ ColonAt(s, os) <= n
      BY <1>5
    <3>2. PairAt(s, os) \in A
      BY <1>1, <3>1
    <3>3. AfterAt(s, os) + 1 \in os + 1 .. n + 1
      BY <3>1, AfterIn
    <3>4. q[os] \in os + 1 .. d
      BY <1>4, <1>5, <3>1, <3>3
    <3>5. v[os] \in Seq(A)
      BY <1>4, <2>1, <3>1, <3>2, Zenon
    <3> QED BY <3>4, <3>5
  <2>3. live \subseteq 1 .. d
    BY <1>5
  <2> QED BY <2>2, <2>3, Zenon DEF Links
<1>9. ASSUME NEW P, NEW os \in 1 .. n + 1 PROVE PairsFrom(s, P, os) = LinkFrom(P, live, v, q, os)
  BY <1>4, <1>7, Zenon DEF PairsFrom, LinkFrom
<1>10. ASSUME NEW P PROVE PairsTable(s, P) <=> ChainTable(P, d, live, v, q)
  <2>1. PICK F : F = [os \in 1 .. n + 1 |-> PairsFrom(s, P, os)]
    OBVIOUS
  <2>2. PICK H : H = [os \in 1 .. n + 1 |-> LinkFrom(P, live, v, q, os)]
    OBVIOUS
  <2>3. F = H
    BY <1>9, <2>1, <2>2
  <2> QED BY <1>5, <2>1, <2>2, <2>3, Zenon DEF PairsTable, ChainTable
<1>11. PICK P : P = CHOOSE R : PairsTable(s, R)
  OBVIOUS
<1>12. ChainTable(P, d, live, v, q)
  <2>1. \E R : PairsTable(s, R)
    BY <1>8, <1>10, ChainExists, Zenon
  <2>2. PairsTable(s, P)
    BY <1>11, <2>1, Zenon
  <2> QED BY <1>10, <2>2, Zenon
<1>13. ChainSays(P, d, live, A, v, q)
  BY <1>8, <1>12, ChainIs, Zenon
<1>14. PairsSay(s, n, P)
  <2> SUFFICES ASSUME NEW os \in 1 .. n + 1
               PROVE  /\ ColonAt(s, os) > n => P[os] = <<>>
                      /\ ColonAt(s, os) <= n => /\ AfterAt(s, os) + 1 \in os + 1 .. n + 1
                                                /\ P[os] = <<PairAt(s, os)>> \o P[AfterAt(s, os) + 1]
    BY Zenon DEF PairsSay
  <2>1. CASE ColonAt(s, os) > n
    <3>1. P[os] = <<>>
      BY <1>5, <1>7, <1>13, <2>1, Zenon DEF ChainSays
    <3>2. ~ (ColonAt(s, os) <= n)
      BY <1>6, <2>1
    <3> QED BY <3>1, <3>2
  <2>2. CASE ~ (ColonAt(s, os) > n)
    <3>1. P[os] = v[os] \o P[q[os]]
      BY <1>5, <1>7, <1>13, <2>2, Zenon DEF ChainSays
    <3>2. ColonAt(s, os) <= n
      BY <1>6, <2>2
    <3>3. AfterAt(s, os) + 1 \in os + 1 .. n + 1
      BY <3>2, AfterIn
    <3> QED BY <1>4, <2>2, <3>1, <3>3, Zenon
  <2> QED BY <2>1, <2>2
<1>15. \A os \in 1 .. n + 1 : P[os] \in Seq(A)
  BY <1>5, <1>13, Zenon DEF ChainSays
<1> QED BY <1>11, <1>14, <1>15, HeaderPairsIsChoice, Zenon

\* A line without the CR it may end with.
StrippedSo(h, m, l, z) ==
    /\ l = Stripped(h) /\ z = Len(l) /\ (\A j \in 1 .. z : l[j] = h[j])
    /\ z = m \/ (m = z + 1 /\ h[m] = CR)
LEMMA StrippedIs ==
    ASSUME NEW h \in Seq(Byte), NEW m \in Nat, m = Len(h)
    PROVE  \E l \in Seq(Byte), z \in Nat : StrippedSo(h, m, l, z)
<1>1. CASE h # <<>> /\ h[m] = CR
  <2>1. m > 0
    BY <1>1
  <2>2. PICK z \in Nat : m = z + 1 /\ z = m - 1 /\ 0 + z <= Len(h) /\ 0 + 1 = 1 /\ 0 + z = z
    <3>1. m - 1 \in Nat
      BY <2>1
    <3> QED BY <3>1
  <2>3. PICK l \in Seq(Byte) : PartSays(h, 0, z, l)
    BY <2>2, PartHas
  <2>4. l = SubSeq(h, 1, m - 1)
    BY <2>2, <2>3, Zenon DEF PartSays
  <2>5. Stripped(h) = l
    BY <1>1, <2>4, Zenon DEF Stripped
  <2>6. \A j \in 1 .. z : 0 + j = j
    OBVIOUS
  <2>7. \A j \in 1 .. z : l[j] = h[j]
    BY <2>3, <2>6, Zenon DEF PartSays
  <2>8. StrippedSo(h, m, l, z)
    BY <1>1, <2>2, <2>3, <2>5, <2>7, Zenon DEF StrippedSo, PartSays
  <2> QED BY <2>8
<1>2. CASE ~ (h # <<>> /\ h[m] = CR)
  <2>1. Stripped(h) = h
    BY <1>2, Zenon DEF Stripped
  <2>2. StrippedSo(h, m, h, m)
    BY <2>1, Zenon DEF StrippedSo
  <2> QED BY <2>2, Zenon
<1> QED BY <1>1, <1>2

\* A line of which nothing is left has no byte but CR.
LEMMA BlankIs ==
    ASSUME NEW h \in Seq(Byte), Stripped(h) = <<>> PROVE Bytes(h) \subseteq {CR}
<1>1. PICK m \in Nat : m = Len(h) /\ DOMAIN h = 1 .. m
  OBVIOUS
<1>2. PICK l \in Seq(Byte), z \in Nat : StrippedSo(h, m, l, z)
  BY <1>1, StrippedIs, Zenon
<1>3. l = <<>> /\ z = Len(l) /\ (z = m \/ (m = z + 1 /\ h[m] = CR))
  BY <1>2, Zenon DEF StrippedSo
<1>4. z = 0
  BY <1>3
<1>5. \A j \in 1 .. m : h[j] = CR
  BY <1>3, <1>4
<1> QED BY <1>1, <1>5 DEF Bytes

\* Where only such lines are left there is no pair any more.
NoneAt(P, p) == P[p] = <<>>
LEMMA NoPairs ==
    ASSUME NEW s \in Seq(Byte), NEW n \in Nat, n = Len(s), NEW P, PairsSay(s, n, P),
           NEW S, Splits(s, {LF}, S), NEW p \in 1 .. n + 1,
           \A k \in 1 .. Len(S[p]) : Stripped(S[p][k]) = <<>>
    PROVE  NoneAt(P, p)
<1>1. Pieces(s, {LF}, p, S[p])
  BY PiecesAre, Zenon
<1>2. S[p] \in Seq(Seq(Byte)) /\ \A i \in p .. n : Covers(S[p], s[i], {LF})
  BY <1>1, Zenon DEF Pieces
<1>3. PICK T : T = Seq(Byte)
  OBVIOUS
<1>4. \A k \in 1 .. Len(S[p]) : S[p][k] \in T
  BY <1>2, <1>3
<1>5. ASSUME NEW i \in p .. n PROVE s[i] \notin {COLON}
  <2>1. CR # COLON /\ LF # COLON
    BY DEF CR, LF, COLON
  <2>2. CASE s[i] \in {LF}
    BY <2>1, <2>2
  <2>3. CASE \E k \in 1 .. Len(S[p]) : s[i] \in Bytes(S[p][k])
    <3>1. PICK k \in 1 .. Len(S[p]) : s[i] \in Bytes(S[p][k])
      BY <2>3
    <3>2. PICK h \in Seq(Byte) : h = S[p][k]
      BY <1>3, <1>4, Zenon
    <3>3. Bytes(h) \subseteq {CR}
      BY <3>2, BlankIs, Zenon
    <3> QED BY <2>1, <3>1, <3>2, <3>3, Zenon
  <2> QED BY <1>2, <2>2, <2>3, Zenon DEF Covers
<1>6. PICK e \in p .. n + 1 : e = FirstOf(s, p, {COLON}) /\ (e <= n => s[e] \in {COLON})
  BY FirstOfIn, Zenon
<1>7. e > n
  <2>1. e <= n => e \in p .. n
    OBVIOUS
  <2>2. ~ (e <= n)
    BY <1>5, <1>6, <2>1, Zenon
  <2> QED BY <2>2
<1> QED BY <1>6, <1>7, Zenon DEF PairsSay, ColonAt, NoneAt

\* The pair that a line is.
PairOf(h) == [name |-> NameOf(Stripped(h)), value |-> ValueOf(Stripped(h))]
IsPairAt(s, n, p, e, h) ==
    /\ ColonAt(s, p) <= n /\ PairAt(s, p) = PairOf(h)
    /\ AfterAt(s, p) = e \/ (AfterAt(s, p) = e + 1 /\ e < n /\ s[e + 1] = LF)
LEMMA LineIsPair ==
    ASSUME NEW s \in Seq(Byte), NEW n \in Nat, n = Len(s), NEW S, NEW p \in 1 .. n + 1,
           NEW e \in p .. n, NEW h \in Seq(Byte), FirstPiece(s, n, {LF}, S, p, e, h),
           WellFormed(Stripped(h))
    PROVE  IsPairAt(s, n, p, e, h)
<1>1. PICK o \in Nat, m \in Nat : o = p - 1 /\ p = o + 1 /\ m = e - p
  <2>1. p - 1 \in Nat /\ p = (p - 1) + 1 /\ e - p \in Nat
    OBVIOUS
  <2> QED BY <2>1, Zenon
<1>2. /\ m = Len(h) /\ e <= n /\ s[e] = LF /\ (\A j \in 1 .. m : h[j] = s[o + j])
      /\ \A i \in p .. e - 1 : s[i] # LF
  <2>1. e <= n
    OBVIOUS
  <2>2. s[e] \in {LF} /\ \A i \in p .. e - 1 : s[i] \notin {LF}
    BY <2>1, Zenon DEF FirstPiece
  <2>3. Len(h) = m /\ \A j \in 1 .. m : h[j] = s[o + j]
    BY <1>1, Zenon DEF FirstPiece
  <2> QED BY <2>1, <2>2, <2>3
<1>3. PICK l \in Seq(Byte), z \in Nat : StrippedSo(h, m, l, z)
  BY <1>2, StrippedIs, Zenon
<1>4. /\ l = Stripped(h) /\ z = Len(l) /\ (\A j \in 1 .. z : l[j] = h[j])
      /\ z = m \/ (m = z + 1 /\ h[m] = CR)
  BY <1>3, Zenon DEF StrippedSo
<1>5. z <= m /\ \A j \in 1 .. z : j \in 1 .. m /\ o + j \in p .. e - 1
  <2>1. z = m \/ m = z + 1
    BY <1>4, Zenon
  <2>2. o \in Nat /\ m \in Nat /\ z \in Nat /\ p = o + 1 /\ m = e - p /\ e \in p .. n
    BY <1>1, <1>3, Zenon
  <2> QED BY <2>1, <2>2
<1>6. \A j \in 1 .. z : s[o + j] = l[j] /\ l[j] # LF
  <2> TAKE j \in 1 .. z
  <2>1. j \in 1 .. m
    BY <1>5, Zenon
  <2>2. s[o + j] = l[j]
    BY <1>2, <1>4, <2>1, Zenon
  <2>3. PICK i \in p .. e - 1 : i = o + j
    BY <1>5, Zenon
  <2> QED BY <1>2, <2>2, <2>3, Zenon
<1>7. LF \notin Bytes(l)
  <2>1. DOMAIN l = 1 .. z
    BY <1>4
  <2> QED BY <1>6, <2>1 DEF Bytes
<1>8. PICK zz \in Nat, k \in Nat, u \in Nat : LineShape(l, zz, k, u)
  BY <1>4, <1>7, LineShapeIs, Zenon
<1>9. /\ zz = z /\ k \in 1 .. z /\ u \in k + 1 .. z + 1
      /\ k = FirstOf(l, 1, {COLON}) /\ u = FirstOf(l, k + 1, Byte \ {SP})
  BY <1>4, <1>8, Zenon DEF LineShape
<1>10. s[o + z + 1] \in {CR, LF} /\ o + z + 1 <= n
       /\ ((o + z + 1 = e) \/ (o + z + 1 = e - 1 /\ s[o + z + 1] = CR))
  <2>1. CASE z = m
    <3>1. o + z + 1 = e
      BY <1>1, <2>1
    <3> QED BY <1>2, <3>1
  <2>2. CASE m = z + 1 /\ h[m] = CR
    <3>1. o + z + 1 = e - 1 /\ m \in 1 .. m /\ o + m = o + z + 1
      BY <1>1, <2>2
    <3>2. s[o + z + 1] = CR
      BY <1>2, <2>2, <3>1, Zenon
    <3> QED BY <1>2, <3>1, <3>2
  <2> QED BY <1>4, <2>1, <2>2
<1>11. Carries(s, n, o, l, z)
  BY <1>6, <1>10, Zenon DEF Carries
<1>12. LineFound(s, o, l, z, k, u)
  BY <1>8, <1>9, <1>11, LineIsFound, Zenon
<1>13. ColonAt(s, p) = o + k /\ o + k <= n
  <2>1. ColonAt(s, p) = o + k
    BY <1>1, <1>12, Zenon DEF LineFound, ColonAt
  <2>2. o + k <= n
    BY <1>9, <1>10
  <2> QED BY <2>1, <2>2
<1>14. ValueAt(s, p) = o + u
  BY <1>12, <1>13, Zenon DEF LineFound, ValueAt
<1>15. StopAt(s, p) = o + z + 1
  BY <1>12, <1>14, Zenon DEF LineFound, StopAt
<1>16. PairAt(s, p) = PairOf(h)
  <2>1. SubSeq(s, p, ColonAt(s, p) - 1) = SubSeq(l, 1, k - 1)
    <3>1. SubSeq(s, o + 1, o + k - 1) = SubSeq(l, 1, k - 1)
      BY <1>12, Zenon DEF LineFound
    <3> QED BY <1>1, <1>13, <3>1
  <2>2. SubSeq(s, ValueAt(s, p), StopAt(s, p) - 1) = SubSeq(l, u, z)
    <3>1. o + z + 1 - 1 = o + z
      OBVIOUS
    <3>2. SubSeq(s, o + u, o + z) = SubSeq(l, u, z)
      BY <1>12, Zenon DEF LineFound
    <3> QED BY <1>14, <1>15, <3>1, <3>2
  <2>3. NameOf(l) = Lowercase(SubSeq(l, 1, k - 1))
    BY <1>9, Zenon DEF NameOf
  <2>4. ValueOf(l) = SubSeq(l, u, z)
    BY <1>4, <1>9, Zenon DEF ValueOf
  <2> QED BY <1>4, <2>1, <2>2, <2>3, <2>4, Zenon DEF PairAt, PairOf
<1>17. AfterAt(s, p) = e \/ (AfterAt(s, p) = e + 1 /\ e < n /\ s[e + 1] = LF)
  <2>1. CASE o + z + 1 = e
    BY <1>2, <1>15, <2>1, Zenon DEF AfterAt
  <2>2. CASE o + z + 1 = e - 1 /\ s[o + z + 1] = CR
    <3>1. o + z + 1 < n /\ o + z + 1 + 1 = e
      BY <1>2, <2>2
    <3> QED BY <1>2, <1>15, <3>1, Zenon DEF AfterAt
  <2> QED BY <1>10, <2>1, <2>2
<1> QED BY <1>13, <1>16, <1>17, Zenon DEF IsPairAt

\* The pieces of a block: m lines, and then nothing.
Heads(ps, m) ==
    /\ m < Len(ps)
    /\ \A k \in 1 .. m : WellFormed(Stripped(ps[k]))
    /\ \A k \in m + 1 .. Len(ps) : Stripped(ps[k]) = <<>>
Finds(pairs, ps, m) == Len(pairs) = m /\ \A k \in 1 .. m : pairs[k] = PairOf(ps[k])

\* One piece less, and one pair more.
LEMMA HeadsLess ==
    ASSUME NEW T, NEW h \in T, NEW r \in Seq(T), NEW m \in Nat, m > 0, Heads(<<h>> \o r, m)
    PROVE  \E z \in Nat : z = m - 1 /\ Heads(r, z) /\ WellFormed(Stripped(h))
<1>1. PICK z \in Nat : z = m - 1
  <2>1. m - 1 \in Nat
    OBVIOUS
  <2> QED BY <2>1, Zenon
<1>2. PICK a \in Seq(T), l \in Nat : Conses(h, r, a, l)
  BY ConsHas
<1>3. Len(a) = l + 1 /\ a[1] = h /\ (\A k \in 1 .. l : a[k + 1] = r[k]) /\ l = Len(r)
  BY <1>2, Zenon DEF Conses
<1>4. Heads(a, m)
  BY <1>2, Zenon DEF Conses
<1>5. m < l + 1 /\ (\A k \in 1 .. m : WellFormed(Stripped(a[k]))) /\ \A k \in m + 1 .. l + 1 : Stripped(a[k]) = <<>>
  BY <1>3, <1>4, Zenon DEF Heads
<1>6. z < l /\ (\A k \in 1 .. z : k + 1 \in 1 .. m /\ k \in 1 .. l) /\ 1 \in 1 .. m
      /\ \A k \in z + 1 .. l : k + 1 \in m + 1 .. l + 1 /\ k \in 1 .. l
  BY <1>1, <1>5
<1>7. \A k \in 1 .. z : WellFormed(Stripped(r[k]))
  BY <1>3, <1>5, <1>6, Zenon
<1>8. \A k \in z + 1 .. l : Stripped(r[k]) = <<>>
  BY <1>3, <1>5, <1>6, Zenon
<1>9. Heads(r, z)
  BY <1>3, <1>6, <1>7, <1>8, Zenon DEF Heads
<1> QED BY <1>1, <1>3, <1>5, <1>6, <1>9, Zenon
LEMMA FindsMore ==
    ASSUME NEW T, NEW h \in T, NEW r \in Seq(T), NEW z \in Nat, NEW m \in Nat, m = z + 1,
           NEW A, NEW pairs \in Seq(A), NEW c, c = PairOf(h), Finds(pairs, r, z), z <= Len(r)
    PROVE  Finds(<<c>> \o pairs, <<h>> \o r, m)
<1>1. PICK a \in Seq(T), l \in Nat : Conses(h, r, a, l)
  BY ConsHas
<1>2. a = <<h>> \o r /\ l = Len(r)
  BY <1>1, Zenon DEF Conses
<1>3. a[1] = h /\ \A k \in 1 .. l : a[k + 1] = r[k]
  BY <1>1, Zenon DEF Conses
<1>4. Len(pairs) = z /\ \A k \in 1 .. z : pairs[k] = PairOf(r[k])
  BY Zenon DEF Finds
<1>5. PICK B : B = A \cup {c}
  OBVIOUS
<1>6. c \in B /\ pairs \in Seq(B)
  BY <1>5
<1>7. PICK b \in Seq(B), zz \in Nat : Conses(c, pairs, b, zz)
  BY <1>6, ConsHas
<1>8. b = <<c>> \o pairs /\ Len(b) = m /\ b[1] = c /\ \A k \in 1 .. z : b[k + 1] = pairs[k]
  BY <1>4, <1>7, Zenon DEF Conses
<1>9. \A k \in 1 .. m : b[k] = PairOf(a[k])
  <2> TAKE k \in 1 .. m
  <2>1. CASE k = 1
    BY <1>3, <1>8, <2>1, Zenon
  <2>2. CASE k # 1
    <3>1. PICK j \in 1 .. z : k = j + 1 /\ j \in 1 .. l
      <4>1. k - 1 \in 1 .. z /\ k = (k - 1) + 1 /\ k - 1 \in 1 .. l
        BY <1>2, <2>2
      <4> QED BY <4>1, Zenon
    <3> QED BY <1>3, <1>4, <1>8, <3>1, Zenon
  <2> QED BY <2>1, <2>2
<1> QED BY <1>2, <1>8, <1>9, Zenon DEF Finds

\* From each position on, the loop finds the lines of such a block.
LinesAt(P, S, p) == \A m \in Nat : Heads(S[p], m) => Finds(P[p], S[p], m)
LEMMA LinesStep ==
    ASSUME NEW s \in Seq(Byte), NEW n \in Nat, n = Len(s), NEW P, PairsSay(s, n, P),
           NEW A, \A q \in 1 .. n + 1 : P[q] \in Seq(A),
           NEW S, Splits(s, {LF}, S), NEW p \in 1 .. n + 1,
           \A q \in p + 1 .. n + 1 : LinesAt(P, S, q)
    PROVE  LinesAt(P, S, p)
<1> SUFFICES ASSUME NEW m \in Nat, Heads(S[p], m) PROVE Finds(P[p], S[p], m)
  BY Zenon DEF LinesAt
<1>1. PICK T : T = Seq(Byte)
  OBVIOUS
<1>2. \A q \in 1 .. n + 1 : S[q] \in Seq(T)
  BY <1>1, PiecesAre, Zenon DEF Pieces
<1>3. CASE m = 0
  <2>1. 0 + 1 = 1 /\ Len(<<>>) = 0 /\ \A k : k \notin 1 .. 0
    OBVIOUS
  <2>2. \A k \in 1 .. Len(S[p]) : Stripped(S[p][k]) = <<>>
    BY <1>3, <2>1, Zenon DEF Heads
  <2>3. NoneAt(P, p)
    BY <2>2, NoPairs, Zenon
  <2> QED BY <1>3, <2>1, <2>3, Zenon DEF Finds, NoneAt
<1>4. CASE m > 0
  <2>1. PICK e \in p .. n + 1, h \in Seq(Byte) : FirstPiece(s, n, {LF}, S, p, e, h)
    BY PieceAndRest
  <2>2. e <= n
    <3> SUFFICES ASSUME e > n PROVE FALSE
      OBVIOUS
    <3>1. S[p] = <<h>>
      BY <2>1, Zenon DEF FirstPiece
    <3>2. Len(<<h>>) = 1
      OBVIOUS
    <3>3. m < 1
      BY <3>1, <3>2, Zenon DEF Heads
    <3> QED BY <1>4, <3>3
  <2>3. e \in p .. n /\ s[e] \in {LF} /\ e + 1 \in p + 1 .. n + 1 /\ e + 1 \in 1 .. n + 1
    <3>1. s[e] \in {LF}
      BY <2>1, <2>2, Zenon DEF FirstPiece
    <3> QED BY <2>2, <3>1
  <2>4. S[p] = <<h>> \o S[e + 1]
    BY <2>1, <2>2, Zenon DEF FirstPiece
  <2>5. PICK r \in Seq(T) : r = S[e + 1]
    BY <1>2, <2>3, Zenon
  <2>6. PICK z \in Nat : z = m - 1 /\ Heads(r, z) /\ WellFormed(Stripped(h))
    <3>1. h \in T
      BY <1>1
    <3>2. Heads(<<h>> \o r, m)
      BY <2>4, <2>5, Zenon
    <3> QED BY <1>4, <3>1, <3>2, HeadsLess, Zenon
  <2>7. IsPairAt(s, n, p, e, h)
    BY <2>1, <2>3, <2>6, LineIsPair, Zenon
  <2>8. PICK c, x1 : /\ c = PairOf(h) /\ x1 = AfterAt(s, p) + 1 /\ P[p] = <<c>> \o P[x1]
                     /\ (AfterAt(s, p) = e \/ (AfterAt(s, p) = e + 1 /\ e < n /\ s[e + 1] = LF))
    BY <2>7, Zenon DEF IsPairAt, PairsSay
  <2>9. m = z + 1 /\ z <= Len(r) /\ h \in T
    <3>1. z < Len(r)
      BY <2>6, Zenon DEF Heads
    <3> QED BY <1>1, <2>6, <3>1
  <2>10. CASE AfterAt(s, p) = e
    <3>1. P[x1] = P[e + 1]
      BY <2>8, <2>10, Zenon
    <3>2. Finds(P[e + 1], r, z)
      BY <2>3, <2>5, <2>6, Zenon DEF LinesAt
    <3>3. P[e + 1] \in Seq(A)
      BY <2>3, Zenon
    <3>4. PICK rest \in Seq(A) : rest = P[e + 1]
      BY <3>3
    <3>5. Finds(<<c>> \o rest, <<h>> \o r, m)
      BY <2>8, <2>9, <3>2, <3>4, FindsMore, Zenon
    <3> QED BY <2>4, <2>5, <2>8, <3>1, <3>4, <3>5, Zenon
  <2>11. CASE AfterAt(s, p) = e + 1 /\ e < n /\ s[e + 1] = LF
    <3>1. PICK g \in 1 .. n + 1, w \in 1 .. n + 1 : g = e + 1 /\ w = x1 /\ w = g + 1 /\ g \in p + 1 .. n
      <4>1. e + 1 \in 1 .. n + 1 /\ e + 1 + 1 \in 1 .. n + 1 /\ e + 1 \in p + 1 .. n
        BY <2>3, <2>11
      <4> QED BY <2>8, <2>11, <4>1, Zenon
    <3>2. PICK e2 \in g .. n + 1, h2 \in Seq(Byte) : FirstPiece(s, n, {LF}, S, g, e2, h2)
      BY <3>1, PieceAndRest
    <3>3. e2 = g
      <4>1. \A i \in g .. e2 - 1 : s[i] \notin {LF}
        BY <3>2, Zenon DEF FirstPiece
      <4>2. g \notin g .. e2 - 1
        BY <2>11, <3>1, <4>1
      <4> QED BY <4>2
    <3>4. h2 = <<>>
      <4>1. Len(h2) = e2 - g
        BY <3>2, Zenon DEF FirstPiece
      <4> QED BY <3>3, <4>1
    <3>5. S[g] = <<h2>> \o S[w]
      <4>1. e2 <= n
        BY <3>1, <3>3
      <4> QED BY <3>1, <3>2, <3>3, <4>1, Zenon DEF FirstPiece
    <3>6. PICK r2 \in Seq(T), a \in Seq(T), l2 \in Nat : r2 = S[w] /\ Conses(h2, r2, a, l2)
      <4>1. S[w] \in Seq(T)
        BY <1>2, Zenon
      <4>2. PICK r2 \in Seq(T) : r2 = S[w]
        BY <4>1
      <4>3. h2 \in T
        BY <1>1
      <4> QED BY <4>2, <4>3, ConsHas, Zenon
    <3>7. l2 = Len(S[w]) /\ Len(r) = l2 + 1 /\ r[1] = h2 /\ \A k \in 1 .. l2 : r[k + 1] = r2[k]
      <4>1. r = a
        BY <2>5, <3>1, <3>5, <3>6, Zenon DEF Conses
      <4> QED BY <3>6, <4>1, Zenon DEF Conses
    <3>8. z = 0
      <4> SUFFICES ASSUME z # 0 PROVE FALSE
        OBVIOUS
      <4>1. 1 \in 1 .. z
        OBVIOUS
      <4>2. WellFormed(Stripped(h2))
        BY <2>6, <3>7, <4>1, Zenon DEF Heads
      <4>3. Stripped(<<>>) = <<>>
        BY Zenon DEF Stripped
      <4>4. Bytes(<<>>) = {}
        BY DEF Bytes
      <4> QED BY <3>4, <4>2, <4>3, <4>4, Zenon DEF WellFormed
    <3>9. ASSUME NEW k \in 1 .. Len(S[w]) PROVE Stripped(S[w][k]) = <<>>
      <4>1. k \in 1 .. l2
        BY <3>7, Zenon
      <4>2. k + 1 \in z + 1 .. l2 + 1
        BY <3>8, <4>1
      <4>3. Stripped(r[k + 1]) = <<>>
        BY <2>6, <3>7, <4>2, Zenon DEF Heads
      <4> QED BY <3>6, <3>7, <4>1, <4>3, Zenon
    <3>10. NoneAt(P, w)
      BY <3>9, NoPairs, Zenon
    <3>11. PICK rest \in Seq(A) : rest = <<>> /\ Len(rest) = 0 /\ \A k : k \notin 1 .. 0
      <4>1. <<>> \in Seq(A) /\ Len(<<>>) = 0 /\ \A k : k \notin 1 .. 0
        OBVIOUS
      <4> QED BY <4>1, Zenon
    <3>12. Finds(rest, r, z)
      BY <3>8, <3>11, Zenon DEF Finds
    <3>13. Finds(<<c>> \o rest, <<h>> \o r, m)
      BY <2>8, <2>9, <3>12, FindsMore, Zenon
    <3> QED BY <2>4, <2>5, <2>8, <3>1, <3>10, <3>11, <3>13, Zenon DEF NoneAt
  <2> QED BY <2>8, <2>10, <2>11
<1> QED BY <1>3, <1>4

\* So it does from the first.
LEMMA LinesFound ==
    ASSUME NEW s \in Seq(Byte), NEW n \in Nat, n = Len(s), n > 0, s[n] = LF,
           NEW m \in Nat, Heads(Split(s, {LF}), m)
    PROVE  /\ Finds(HeaderPairs(s), Split(s, {LF}), m)
           /\ \E A : HeaderPairs(s) \in Seq(A)
<1>1. PICK P : PairsSay(s, n, P) /\ HeaderPairs(s) = P[1] /\ \E A : \A q \in 1 .. n + 1 : P[q] \in Seq(A)
  BY PairsAreSo, Zenon
<1>2. PICK A : \A q \in 1 .. n + 1 : P[q] \in Seq(A)
  BY <1>1
<1>3. PICK S : Splits(s, {LF}, S) /\ Split(s, {LF}) = S[1]
  <2>1. PICK S : S = CHOOSE K : Splits(s, {LF}, K)
    OBVIOUS
  <2>2. Splits(s, {LF}, S)
    BY <2>1, SplitsExists
  <2> QED BY <2>1, <2>2, SplitIsChoice, Zenon
<1>4. \A z \in 1 .. n + 1 : LinesAt(P, S, z)
  <2> DEFINE Bad == {z \in 1 .. n + 1 : ~ LinesAt(P, S, z)}
  <2> SUFFICES ASSUME Bad # {} PROVE FALSE
    OBVIOUS
  <2>1. Bad \in SUBSET (1 .. n + 1) /\ n + 1 \in Nat
    OBVIOUS
  <2>2. \A z \in 1 .. n + 1 : z \notin Bad => LinesAt(P, S, z)
    OBVIOUS
  <2>3. \A z \in Bad : ~ LinesAt(P, S, z)
    OBVIOUS
  <2> HIDE DEF Bad
  <2>4. PICK p \in Bad : \A z \in p + 1 .. n + 1 : z \notin Bad
    BY <2>1, FromTheEnd
  <2>5. p \in 1 .. n + 1 /\ \A z \in p + 1 .. n + 1 : z \in 1 .. n + 1
    BY <2>1
  <2>6. \A z \in p + 1 .. n + 1 : LinesAt(P, S, z)
    BY <2>2, <2>4, <2>5, Zenon
  <2>7. LinesAt(P, S, p)
    BY <1>1, <1>2, <1>3, <2>5, <2>6, LinesStep, Zenon
  <2> QED BY <2>3, <2>7, Zenon
<1>5. 1 \in 1 .. n + 1
  OBVIOUS
<1> QED BY <1>1, <1>2, <1>3, <1>4, <1>5, Zenon DEF LinesAt

\* The value of a well-formed line is bytes.
LEMMA ValueOfIs == ASSUME NEW l \in Seq(Byte), WellFormed(l) PROVE ValueOf(l) \in Seq(Byte)
<1>1. PICK z \in Nat : z = Len(l) /\ DOMAIN l = 1 .. z
  OBVIOUS
<1>2. PICK c \in 1 .. z : l[c] = COLON
  BY <1>1 DEF WellFormed, Bytes
<1>3. 1 \in 1 .. z + 1
  BY <1>1
<1>4. PICK k \in 1 .. z + 1 : /\ k = FirstOf(l, 1, {COLON}) /\ (k <= z => l[k] \in {COLON})
                              /\ \A j \in 1 .. k - 1 : l[j] \notin {COLON}
  BY <1>1, <1>3, FirstOfIn, Zenon
<1>5. k + 1 \in 1 .. z + 1
  <2>1. ~ (c \in 1 .. k - 1)
    BY <1>2, <1>4, Zenon
  <2>2. c \in 1 .. z /\ k \in 1 .. z + 1 /\ z \in Nat
    BY <1>1, <1>2, <1>4, Zenon
  <2> QED BY <2>1, <2>2
<1>6. PICK u \in k + 1 .. z + 1 : /\ u = FirstOf(l, k + 1, Byte \ {SP}) /\ (u <= z => l[u] \in Byte \ {SP})
                                  /\ \A j \in k + 1 .. u - 1 : l[j] \notin Byte \ {SP}
  BY <1>1, <1>5, FirstOfIn, Zenon
<1>7. PICK a \in Nat, m \in Nat : u = a + 1 /\ z = a + m /\ a + m <= Len(l)
  <2>1. u - 1 \in Nat /\ z + 1 - u \in Nat /\ u = (u - 1) + 1 /\ z = (u - 1) + (z + 1 - u)
        /\ (u - 1) + (z + 1 - u) <= Len(l)
    <3>1. u \in k + 1 .. z + 1 /\ k \in 1 .. z + 1 /\ z \in Nat /\ z = Len(l)
      BY <1>1, <1>4, <1>6, Zenon
    <3> QED BY <3>1
  <2> QED BY <2>1, Zenon
<1>8. SubSeq(l, a + 1, a + m) \in Seq(Byte)
  BY <1>7, PartIs
<1> QED BY <1>1, <1>4, <1>6, <1>7, <1>8, Zenon DEF ValueOf

\* The mapping that lines say.
MappingOf(lines) ==
    [n \in {NameOf(lines[k]) : k \in DOMAIN lines} |-> Join(ValuesOf(n, lines), <<COMMA>>)]
SameMapping(s, lines) == HeadersIn(s) = MappingOf(lines)

\* The lines of the first m pieces of a block.
LinesSay(lines, ps, m) ==
    /\ lines \in Seq(Seq(Byte)) /\ Len(lines) = m
    /\ \A k \in 1 .. m : lines[k] = Stripped(ps[k])

\* The pairs the loop finds in a block are those of its lines.
PairsOfLines(pairs, vs, lines, m) ==
    /\ PairsAre(pairs, m, vs) /\ DOMAIN pairs = 1 .. m /\ DOMAIN lines = 1 .. m
    /\ vs = [k \in DOMAIN lines |-> ValueOf(lines[k])]
    /\ \A k \in 1 .. m : pairs[k].name = NameOf(lines[k])
LEMMA PairsFound ==
    ASSUME NEW s \in Seq(Byte), NEW n \in Nat, n = Len(s), n > 0, s[n] = LF,
           NEW m \in Nat, NEW ps, ps = Split(s, {LF}), Heads(ps, m),
           NEW lines, LinesSay(lines, ps, m)
    PROVE  \E vs : PairsOfLines(HeaderPairs(s), vs, lines, m)
<1>1. PICK pairs : pairs = HeaderPairs(s) /\ Finds(pairs, ps, m) /\ \E A : pairs \in Seq(A)
  BY LinesFound, Zenon
<1>2. PICK T : T = Seq(Byte)
  OBVIOUS
<1>0. /\ lines \in Seq(Seq(Byte)) /\ Len(lines) = m
      /\ \A k \in 1 .. m : lines[k] = Stripped(ps[k])
  BY Zenon DEF LinesSay
<1>3. DOMAIN lines = 1 .. m /\ \A k \in 1 .. m : lines[k] \in T
  BY <1>0, <1>2
<1>4. PICK vs : vs = [k \in DOMAIN lines |-> ValueOf(lines[k])]
  OBVIOUS
<1>5. \A k \in 1 .. m : WellFormed(lines[k])
  BY <1>0, Zenon DEF Heads
<1>6. ASSUME NEW k \in 1 .. m PROVE ValueOf(lines[k]) \in T
  <2>1. PICK l \in Seq(Byte) : l = lines[k]
    BY <1>2, <1>3, Zenon
  <2>2. ValueOf(l) \in Seq(Byte)
    BY <1>5, <2>1, ValueOfIs, Zenon
  <2> QED BY <1>2, <2>1, <2>2, Zenon
<1>7. vs \in Seq(T) /\ Len(vs) = m /\ \A k \in 1 .. m : vs[k] = ValueOf(lines[k])
  BY <1>3, <1>4, <1>6
<1>8. Len(pairs) = m /\ DOMAIN pairs = 1 .. m
  <2>1. Len(pairs) = m
    BY <1>1, Zenon DEF Finds
  <2> QED BY <1>1, <2>1
<1>9. \A k \in 1 .. m : pairs[k].name = NameOf(lines[k]) /\ pairs[k].value = ValueOf(lines[k])
  <2> TAKE k \in 1 .. m
  <2>1. pairs[k] = [name |-> NameOf(lines[k]), value |-> ValueOf(lines[k])]
    BY <1>0, <1>1, Zenon DEF Finds, PairOf
  <2> QED BY <2>1
<1>10. PairsAre(pairs, m, vs)
  BY <1>2, <1>7, <1>8, <1>9, Zenon DEF PairsAre
<1>11. PairsOfLines(pairs, vs, lines, m)
  BY <1>3, <1>4, <1>8, <1>9, <1>10, Zenon DEF PairsOfLines
<1> QED BY <1>1, <1>11, Zenon

\* So what the loop makes of a block is the mapping of its lines.
LEMMA HeadersSay ==
    ASSUME NEW s \in Seq(Byte), NEW n \in Nat, n = Len(s), n > 0, s[n] = LF,
           NEW m \in Nat, NEW ps, ps = Split(s, {LF}), Heads(ps, m),
           NEW lines, LinesSay(lines, ps, m)
    PROVE  SameMapping(s, lines)
<1>1. PICK pairs, vs : pairs = HeaderPairs(s) /\ PairsOfLines(pairs, vs, lines, m)
  BY PairsFound, Zenon
<1>2. /\ PairsAre(pairs, m, vs) /\ DOMAIN pairs = 1 .. m /\ DOMAIN lines = 1 .. m
      /\ vs = [k \in DOMAIN lines |-> ValueOf(lines[k])]
      /\ \A k \in 1 .. m : pairs[k].name = NameOf(lines[k])
  BY <1>1, Zenon DEF PairsOfLines
<1>16. PICK at : at = DOMAIN pairs
  OBVIOUS
<1>11. PICK sep \in Seq(Byte) : at = DOMAIN pairs /\ sep = <<COMMA>>
  <2>1. <<COMMA>> \in Seq(Byte)
    BY DEF COMMA, Byte
  <2> QED BY <1>16, <2>1, Zenon
<1>12. Joined(pairs, at, sep) =
           [r \in NamesSo(pairs, at, m) |-> Join(Kept(vs, PlacesOf(pairs, m, at, r)), sep)]
  <2>1. JoinedOf(pairs, m, vs, at, sep)
    BY <1>2, <1>11, JoinedIsSo, Zenon
  <2> QED BY <2>1, Zenon DEF JoinedOf
<1>13. NamesSo(pairs, at, m) = {NameOf(lines[k]) : k \in DOMAIN lines}
  <2>1. {i \in 1 .. m : i \in at} = 1 .. m
    BY <1>2, <1>11
  <2>2. NamesSo(pairs, at, m) = {pairs[j].name : j \in 1 .. m}
    BY <2>1, Zenon DEF NamesSo
  <2>3. {pairs[j].name : j \in 1 .. m} = {NameOf(lines[j]) : j \in 1 .. m}
    BY <1>2
  <2> QED BY <1>2, <2>2, <2>3, Zenon
<1>14. ASSUME NEW r PROVE Kept(vs, PlacesOf(pairs, m, at, r)) = ValuesOf(r, lines)
  <2>1. PlacesOf(pairs, m, at, r) = {k \in DOMAIN lines : NameOf(lines[k]) = r}
    BY <1>2, <1>11 DEF PlacesOf
  <2> QED BY <1>2, <2>1, Zenon DEF ValuesOf
<1>15. Joined(pairs, at, sep) = MappingOf(lines)
  <2>1. PICK f : f = [r \in NamesSo(pairs, at, m) |-> Join(Kept(vs, PlacesOf(pairs, m, at, r)), sep)]
    OBVIOUS
  <2>2. PICK N : N = NamesSo(pairs, at, m)
    OBVIOUS
  <2>3. \A r \in N : Join(Kept(vs, PlacesOf(pairs, m, at, r)), sep) = Join(ValuesOf(r, lines), <<COMMA>>)
    BY <1>11, <1>14, Zenon
  <2>4. f = [r \in N |-> Join(ValuesOf(r, lines), <<COMMA>>)]
    BY <2>1, <2>2, <2>3, Zenon
  <2>5. f = MappingOf(lines)
    BY <1>13, <2>2, <2>4, Zenon DEF MappingOf
  <2> QED BY <1>12, <2>1, <2>5, Zenon
<1> QED BY <1>1, <1>11, <1>15, Zenon DEF HeadersIn, SameMapping

-----------------------------------------------------------------------------
(* The lines of a head *)

\* A block that is one empty line long at its end, and q is where that begins.
LineStart(s, p) == p = 1 \/ s[p - 1] = LF
NothingFrom(s, p, e) == s[e] = LF /\ \A i \in p .. e - 1 : s[i] = CR
OneBlank(s, n, q) ==
    /\ s \in Seq(Byte) /\ n \in Nat /\ n = Len(s) /\ q \in 1 .. n
    /\ LineStart(s, q) /\ NothingFrom(s, q, n)
    /\ \A p \in 1 .. n, e \in 1 .. n : p <= e /\ LineStart(s, p) /\ NothingFrom(s, p, e) => e = n

\* Each piece is a header, or nothing.
HeaderOrNot(h) == Stripped(h) = <<>> \/ WellFormed(Stripped(h))
HeadersOrNot(ps) == \A k \in 1 .. Len(ps) : HeaderOrNot(ps[k])
\* They are headers first, then two times nothing, and the empty line is short.
HeadersThenNot(ps, n, q) == n <= q + 1 /\ \E m \in Nat : Heads(ps, m) /\ Len(ps) = m + 2

\* One piece more.
LEMMA HeadsMore ==
    ASSUME NEW T, NEW h \in T, NEW r \in Seq(T), WellFormed(Stripped(h)), NEW n, NEW q,
           HeadersThenNot(r, n, q)
    PROVE  HeadersThenNot(<<h>> \o r, n, q)
<1>1. PICK a \in Seq(T), l \in Nat : Conses(h, r, a, l)
  BY ConsHas
<1>2. Len(a) = l + 1 /\ a[1] = h /\ (\A k \in 1 .. l : a[k + 1] = r[k]) /\ l = Len(r) /\ a = <<h>> \o r
  BY <1>1, Zenon DEF Conses
<1>3. PICK m \in Nat : Heads(r, m) /\ l = m + 2 /\ n <= q + 1
  BY <1>2, Zenon DEF HeadersThenNot
<1>4. PICK z \in Nat : z = m + 1 /\ z + 2 = l + 1 /\ z < l + 1
  BY <1>3
<1>5. \A k \in 1 .. m : WellFormed(Stripped(r[k]))
  BY <1>3, Zenon DEF Heads
<1>6. \A k \in m + 1 .. l : Stripped(r[k]) = <<>>
  BY <1>2, <1>3, Zenon DEF Heads
<1>7. \A k \in 1 .. z : k = 1 \/ \E j \in 1 .. m : j \in 1 .. l /\ k = j + 1
  <2> TAKE k \in 1 .. z
  <2>1. k # 1 => k - 1 \in 1 .. m /\ k - 1 \in 1 .. l /\ k = (k - 1) + 1
    BY <1>3, <1>4
  <2> QED BY <2>1, Zenon
<1>8. \A k \in z + 1 .. l + 1 : \E j \in m + 1 .. l : j \in 1 .. l /\ k = j + 1
  <2> TAKE k \in z + 1 .. l + 1
  <2>1. k - 1 \in m + 1 .. l /\ k - 1 \in 1 .. l /\ k = (k - 1) + 1
    BY <1>3, <1>4
  <2> QED BY <2>1, Zenon
<1>9. \A k \in 1 .. z : WellFormed(Stripped(a[k]))
  BY <1>2, <1>5, <1>7, Zenon
<1>10. \A k \in z + 1 .. l + 1 : Stripped(a[k]) = <<>>
  <2> TAKE k \in z + 1 .. l + 1
  <2>1. PICK j \in m + 1 .. l : j \in 1 .. l /\ k = j + 1
    BY <1>8, Zenon
  <2>2. a[k] = r[j]
    BY <1>2, <2>1, Zenon
  <2> QED BY <1>6, <2>1, <2>2, Zenon
<1>11. Heads(a, z)
  BY <1>2, <1>4, <1>9, <1>10, Zenon DEF Heads
<1> QED BY <1>2, <1>3, <1>4, <1>11, Zenon DEF HeadersThenNot

\* A text that is nothing but CR is no header.
LEMMA NoHeader ==
    ASSUME NEW h \in Seq(Byte), NEW m \in Nat, m = Len(h), \A j \in 1 .. m : h[j] = CR
    PROVE  ~ WellFormed(Stripped(h))
<1>1. PICK l \in Seq(Byte), z \in Nat : StrippedSo(h, m, l, z)
  BY StrippedIs, Zenon
<1>2. l = Stripped(h) /\ z = Len(l) /\ (\A j \in 1 .. z : l[j] = h[j]) /\ (z = m \/ m = z + 1)
  BY <1>1, Zenon DEF StrippedSo
<1>3. DOMAIN l = 1 .. z /\ \A j \in 1 .. z : j \in 1 .. m
  BY <1>2
<1>4. \A j \in 1 .. z : l[j] = CR
  BY <1>2, <1>3, Zenon
<1>5. COLON # CR
  BY DEF COLON, CR
<1>6. COLON \notin Bytes(l)
  BY <1>3, <1>4, <1>5 DEF Bytes
<1> QED BY <1>2, <1>6, Zenon DEF WellFormed

\* From each line of such a block on.
ThenNotAt(s, n, q, S, p) ==
    p <= q /\ LineStart(s, p) /\ HeadersOrNot(S[p]) => HeadersThenNot(S[p], n, q)
LEMMA ThenNotStep ==
    ASSUME NEW s, NEW n, NEW q, OneBlank(s, n, q), NEW S, Splits(s, {LF}, S),
           NEW p \in 1 .. n, \A z \in p + 1 .. n : ThenNotAt(s, n, q, S, z)
    PROVE  ThenNotAt(s, n, q, S, p)
<1> SUFFICES ASSUME p <= q, LineStart(s, p), HeadersOrNot(S[p]) PROVE HeadersThenNot(S[p], n, q)
  BY Zenon DEF ThenNotAt
<1>1. /\ s \in Seq(Byte) /\ n \in Nat /\ n = Len(s) /\ q \in 1 .. n /\ s[n] = LF
      /\ \A i \in q .. n - 1 : s[i] = CR
  BY Zenon DEF OneBlank, NothingFrom
<1>2. PICK T : T = Seq(Byte)
  OBVIOUS
<1>3. p \in 1 .. n + 1 /\ LF # CR
  BY <1>1 DEF LF, CR
<1>4. PICK e \in p .. n + 1, h \in Seq(Byte) : FirstPiece(s, n, {LF}, S, p, e, h)
  BY <1>1, <1>3, PieceAndRest, Zenon
<1>5. /\ e <= n => s[e] \in {LF}
      /\ \A i \in p .. e - 1 : s[i] \notin {LF}
      /\ Len(h) = e - p /\ \A j \in 1 .. e - p : h[j] = s[p - 1 + j]
      /\ e <= n => e + 1 \in p + 1 .. n + 1 /\ S[p] = <<h>> \o S[e + 1]
  BY <1>4, Zenon DEF FirstPiece
<1>6. e \in p .. n
  <2>1. n \notin p .. e - 1
    BY <1>1, <1>5
  <2> QED BY <1>1, <2>1
<1>7. s[e] = LF /\ e + 1 \in p + 1 .. n + 1 /\ e + 1 \in 1 .. n + 1 /\ S[p] = <<h>> \o S[e + 1]
  BY <1>1, <1>5, <1>6
<1>8. PICK r \in Seq(T) : r = S[e + 1]
  <2>1. Pieces(s, {LF}, e + 1, S[e + 1])
    BY <1>1, <1>7, PiecesAre, Zenon
  <2> QED BY <1>2, <2>1, Zenon DEF Pieces
<1>9. PICK a \in Seq(T), l \in Nat : /\ a = S[p] /\ Len(a) = l + 1 /\ a[1] = h /\ l = Len(r)
                                     /\ \A k \in 1 .. l : a[k + 1] = r[k]
  <2>1. h \in T
    BY <1>2
  <2>2. PICK a \in Seq(T), l \in Nat : Conses(h, r, a, l)
    BY <2>1, ConsHas
  <2> QED BY <1>7, <1>8, <2>2, Zenon DEF Conses
<1>10. HeaderOrNot(h) /\ HeadersOrNot(r)
  <2>1. 1 \in 1 .. l + 1 /\ \A k \in 1 .. l : k + 1 \in 1 .. l + 1
    OBVIOUS
  <2> QED BY <1>9, <2>1, Zenon DEF HeadersOrNot
<1>11. PICK m \in Nat : m = e - p /\ m = Len(h) /\ DOMAIN h = 1 .. m
  BY <1>5, <1>6
<1>12. CASE Stripped(h) = <<>>
  <2>1. \A j \in 1 .. m : h[j] = CR
    <3>1. Bytes(h) \subseteq {CR}
      BY <1>12, BlankIs
    <3> QED BY <1>11, <3>1 DEF Bytes
  <2>2. \A i \in p .. e - 1 : s[i] = CR
    <3> TAKE i \in p .. e - 1
    <3>1. i - (p - 1) \in 1 .. m /\ i - (p - 1) \in 1 .. e - p /\ i = p - 1 + (i - (p - 1))
      BY <1>11
    <3>2. PICK j \in 1 .. m : j \in 1 .. e - p /\ i = p - 1 + j
      BY <3>1, Zenon
    <3> QED BY <1>5, <2>1, <3>2, Zenon
  <2>3. e = n
    <3>1. NothingFrom(s, p, e)
      BY <1>7, <2>2, Zenon DEF NothingFrom
    <3>2. e \in 1 .. n /\ p <= e
      BY <1>6
    <3> QED BY <3>1, <3>2, Zenon DEF OneBlank
  <2>4. m <= 1
    <3>1. PICK l2 \in Seq(Byte), z2 \in Nat : StrippedSo(h, m, l2, z2)
      BY <1>11, StrippedIs, Zenon
    <3>2. l2 = <<>> /\ z2 = Len(l2) /\ (z2 = m \/ m = z2 + 1)
      BY <1>12, <3>1, Zenon DEF StrippedSo
    <3> QED BY <3>2
  <2>5. n <= q + 1
    BY <1>1, <1>11, <2>3, <2>4
  <2>6. r = <<<<>>>>
    <3>1. n + 1 \in 1 .. n + 1
      BY <1>1
    <3>2. PICK e2 \in n + 1 .. n + 1, h2 \in Seq(Byte) : FirstPiece(s, n, {LF}, S, n + 1, e2, h2)
      BY <1>1, <3>1, PieceAndRest, Zenon
    <3>3. e2 > n /\ e2 - (n + 1) = 0
      BY <1>1
    <3>4. S[n + 1] = <<h2>> /\ Len(h2) = 0
      BY <3>2, <3>3, Zenon DEF FirstPiece
    <3>5. h2 = <<>>
      BY <3>4
    <3> QED BY <1>8, <2>3, <3>4, <3>5, Zenon
  <2>7. l = 1 /\ r[1] = <<>>
    BY <1>9, <2>6
  <2>8. \A k \in 0 + 1 .. 2 : Stripped(a[k]) = <<>>
    <3>1. \A k \in 0 + 1 .. 2 : k = 1 \/ k = 1 + 1
      OBVIOUS
    <3>2. 1 \in 1 .. 1
      OBVIOUS
    <3>3. Stripped(<<>>) = <<>>
      BY Zenon DEF Stripped
    <3> QED BY <1>9, <1>12, <2>7, <3>1, <3>2, <3>3, Zenon
  <2>9. Len(a) = 2 /\ 0 < 2 /\ 0 + 2 = 2 /\ 0 \in Nat /\ \A k : k \notin 1 .. 0
    BY <1>9, <2>7
  <2>10. Heads(a, 0)
    BY <2>8, <2>9, Zenon DEF Heads
  <2> QED BY <1>9, <2>5, <2>9, <2>10, Zenon DEF HeadersThenNot
<1>13. CASE WellFormed(Stripped(h))
  <2>1. e < q
    <3> SUFFICES ASSUME q <= e PROVE FALSE
      BY <1>1, <1>6
    <3>1. p = q
      <4> SUFFICES ASSUME p < q PROVE FALSE
        BY <1>1
      <4>1. q # 1 /\ q - 1 \in p .. e - 1
        BY <1>1
      <4>2. s[q - 1] = LF
        BY <4>1, Zenon DEF OneBlank, LineStart
      <4> QED BY <1>5, <4>1, <4>2
    <3>2. \A j \in 1 .. m : j \in 1 .. e - p /\ p - 1 + j \in q .. n - 1
      BY <1>1, <1>6, <1>11, <3>1
    <3>3. \A j \in 1 .. m : h[j] = CR
      BY <1>1, <1>5, <3>2, Zenon
    <3> QED BY <1>11, <1>13, <3>3, NoHeader
  <2>2. PICK w \in p + 1 .. n : w = e + 1 /\ w - 1 = e /\ w <= q
    BY <1>1, <1>6, <2>1
  <2>3. LineStart(s, w)
    BY <1>7, <2>2, Zenon DEF LineStart
  <2>4. HeadersThenNot(r, n, q)
    BY <1>8, <1>10, <2>2, <2>3, Zenon DEF ThenNotAt
  <2>5. h \in T
    BY <1>2
  <2>6. HeadersThenNot(<<h>> \o r, n, q)
    BY <1>13, <2>4, <2>5, HeadsMore, Zenon
  <2> QED BY <1>7, <1>8, <2>6, Zenon
<1> QED BY <1>10, <1>12, <1>13, Zenon DEF HeaderOrNot

\* So from the first.
LEMMA ThenNot ==
    ASSUME NEW s, NEW n, NEW q, OneBlank(s, n, q), HeadersOrNot(Split(s, {LF}))
    PROVE  HeadersThenNot(Split(s, {LF}), n, q)
<1>1. s \in Seq(Byte) /\ n \in Nat /\ n = Len(s) /\ q \in 1 .. n
  BY Zenon DEF OneBlank
<1>2. PICK S : Splits(s, {LF}, S) /\ Split(s, {LF}) = S[1]
  <2>1. PICK S : S = CHOOSE K : Splits(s, {LF}, K)
    OBVIOUS
  <2>2. Splits(s, {LF}, S)
    BY <1>1, <2>1, SplitsExists
  <2> QED BY <2>1, <2>2, SplitIsChoice, Zenon
<1>3. \A z \in 1 .. n : ThenNotAt(s, n, q, S, z)
  <2> DEFINE Bad == {z \in 1 .. n : ~ ThenNotAt(s, n, q, S, z)}
  <2> SUFFICES ASSUME Bad # {} PROVE FALSE
    OBVIOUS
  <2>1. Bad \in SUBSET (1 .. n)
    OBVIOUS
  <2>2. \A z \in 1 .. n : z \notin Bad => ThenNotAt(s, n, q, S, z)
    OBVIOUS
  <2>3. \A z \in Bad : ~ ThenNotAt(s, n, q, S, z)
    OBVIOUS
  <2> HIDE DEF Bad
  <2>4. PICK p \in Bad : \A z \in p + 1 .. n : z \notin Bad
    BY <1>1, <2>1, FromTheEnd
  <2>5. p \in 1 .. n /\ \A z \in p + 1 .. n : z \in 1 .. n
    BY <1>1, <2>1
  <2>6. \A z \in p + 1 .. n : ThenNotAt(s, n, q, S, z)
    BY <2>2, <2>4, <2>5, Zenon
  <2>7. ThenNotAt(s, n, q, S, p)
    BY <1>1, <1>2, <2>5, <2>6, ThenNotStep, Zenon
  <2> QED BY <2>3, <2>7, Zenon
<1>4. 1 \in 1 .. n /\ 1 <= q
  BY <1>1
<1> QED BY <1>2, <1>3, <1>4, Zenon DEF ThenNotAt, LineStart

\* The pieces of what is behind a position are the pieces from there on.
RestOf(s, c, t, n) ==
    /\ s \in Seq(Byte) /\ t \in Seq(Byte) /\ c \in Nat /\ n \in Nat /\ n = Len(t) /\ Len(s) = c + n
    /\ \A j \in 1 .. n : t[j] = s[c + j]
SamePieces(P, x1, Q, y1) == P[x1] = Q[y1]
LEMMA PiecesBehindStep ==
    ASSUME NEW s, NEW c, NEW t, NEW n, RestOf(s, c, t, n), NEW S, NEW P, NEW Q,
           Splits(s, S, P), Splits(t, S, Q), NEW i \in 1 .. n + 1,
           \A z \in i + 1 .. n + 1 : SamePieces(P, c + z, Q, z)
    PROVE  SamePieces(P, c + i, Q, i)
<1>1. /\ s \in Seq(Byte) /\ t \in Seq(Byte) /\ c \in Nat /\ n \in Nat /\ n = Len(t) /\ Len(s) = c + n
      /\ \A j \in 1 .. n : t[j] = s[c + j]
  BY Zenon DEF RestOf
<1>0. PICK N \in Nat : N = c + n /\ N = Len(s)
  BY <1>1
<1>2. PICK p \in 1 .. N + 1 : N = c + n /\ p = c + i /\ N = Len(s)
  <2>1. c + i \in 1 .. N + 1
    BY <1>0, <1>1
  <2> QED BY <1>0, <2>1, Zenon
<1>3. PICK e \in i .. n + 1, h \in Seq(Byte) : FirstPiece(t, n, S, Q, i, e, h)
  BY <1>1, PieceAndRest, Zenon
<1>4. PICK e2 \in p .. N + 1, h2 \in Seq(Byte) : FirstPiece(s, N, S, P, p, e2, h2)
  BY <1>1, <1>2, PieceAndRest, Zenon
<1>5. /\ (e <= n => t[e] \in S) /\ (\A k \in i .. e - 1 : t[k] \notin S)
      /\ Len(h) = e - i /\ (\A j \in 1 .. e - i : h[j] = t[i - 1 + j])
      /\ (e > n => Q[i] = <<h>>)
      /\ (e <= n => e + 1 \in i + 1 .. n + 1 /\ Q[i] = <<h>> \o Q[e + 1])
  BY <1>3, Zenon DEF FirstPiece
<1>6. /\ e2 = FirstOf(s, p, S)
      /\ Len(h2) = e2 - p /\ (\A j \in 1 .. e2 - p : h2[j] = s[p - 1 + j])
      /\ (e2 > N => P[p] = <<h2>>)
      /\ (e2 <= N => P[p] = <<h2>> \o P[e2 + 1])
  BY <1>4, Zenon DEF FirstPiece
<1>7. PICK g \in p .. N + 1 : g = c + e
  <2>1. c + e \in p .. N + 1
    BY <1>1, <1>2
  <2> QED BY <2>1
<1>8. e2 = g
  <2>1. g <= N => s[g] \in S
    <3>1. g <= N => e \in 1 .. n /\ e <= n
      BY <1>1, <1>2, <1>7
    <3> QED BY <1>1, <1>5, <1>7, <3>1, Zenon
  <2>2. \A k \in p .. g - 1 : s[k] \notin S
    <3> TAKE k \in p .. g - 1
    <3>1. PICK j \in i .. e - 1 : j \in 1 .. n /\ k = c + j
      <4>1. k - c \in i .. e - 1 /\ k - c \in 1 .. n /\ k = c + (k - c)
        BY <1>1, <1>2, <1>7
      <4> QED BY <4>1, Zenon
    <3> QED BY <1>1, <1>5, <3>1, Zenon
  <2>3. FoundAt(Byte, s, N, p, S, g)
    BY <1>1, <1>2, <2>1, <2>2, Zenon DEF FoundAt
  <2> QED BY <1>6, <2>3, FoundIs, Zenon
<1>9. h2 = h
  <2>1. Len(h2) = Len(h)
    BY <1>1, <1>2, <1>5, <1>6, <1>7, <1>8
  <2>2. PICK m \in Nat : m = e - i /\ m = e2 - p
    BY <1>1, <1>2, <1>7, <1>8
  <2>3. \A j \in 1 .. m : h2[j] = h[j]
    <3> TAKE j \in 1 .. m
    <3>1. PICK k \in 1 .. n : k = i - 1 + j /\ p - 1 + j = c + k
      <4>1. i - 1 + j \in 1 .. n /\ p - 1 + j = c + (i - 1 + j)
        BY <1>1, <1>2, <2>2
      <4> QED BY <4>1, Zenon
    <3> QED BY <1>1, <1>5, <1>6, <2>2, <3>1, Zenon
  <2>4. Len(h2) = m /\ Len(h) = m
    BY <1>5, <2>1, <2>2, Zenon
  <2> QED BY <2>3, <2>4, SeqEq
<1>10. CASE e > n
  <2>1. e2 > N
    BY <1>1, <1>2, <1>7, <1>8, <1>10
  <2> QED BY <1>2, <1>5, <1>6, <1>9, <1>10, <2>1, Zenon DEF SamePieces
<1>11. CASE e <= n
  <2>1. e2 <= N /\ e2 + 1 = c + (e + 1)
    BY <1>1, <1>2, <1>7, <1>8, <1>11
  <2>2. P[e2 + 1] = Q[e + 1]
    BY <1>5, <1>11, <2>1, Zenon DEF SamePieces
  <2> QED BY <1>2, <1>5, <1>6, <1>9, <1>11, <2>1, <2>2, Zenon DEF SamePieces
<1> QED BY <1>1, <1>10, <1>11
LEMMA PiecesBehind ==
    ASSUME NEW s, NEW c, NEW t, NEW n, RestOf(s, c, t, n), NEW S, NEW P, NEW Q,
           Splits(s, S, P), Splits(t, S, Q)
    PROVE  SamePieces(P, c + 1, Q, 1)
<1>1. n \in Nat /\ n + 1 \in Nat /\ 1 \in 1 .. n + 1
  <2>1. n \in Nat
    BY Zenon DEF RestOf
  <2> QED BY <2>1
<1> DEFINE Bad == {z \in 1 .. n + 1 : ~ SamePieces(P, c + z, Q, z)}
<1> SUFFICES ASSUME Bad # {} PROVE FALSE
  BY <1>1
<1>2. Bad \in SUBSET (1 .. n + 1)
  OBVIOUS
<1>3. \A z \in 1 .. n + 1 : z \notin Bad => SamePieces(P, c + z, Q, z)
  OBVIOUS
<1>4. \A z \in Bad : ~ SamePieces(P, c + z, Q, z)
  OBVIOUS
<1> HIDE DEF Bad
<1>5. PICK p \in Bad : \A z \in p + 1 .. n + 1 : z \notin Bad
  BY <1>1, <1>2, FromTheEnd
<1>6. p \in 1 .. n + 1 /\ \A z \in p + 1 .. n + 1 : z \in 1 .. n + 1
  BY <1>1, <1>2
<1>7. \A z \in p + 1 .. n + 1 : SamePieces(P, c + z, Q, z)
  BY <1>3, <1>5, <1>6, Zenon
<1>8. SamePieces(P, c + p, Q, p)
  BY <1>6, <1>7, PiecesBehindStep, Zenon
<1> QED BY <1>4, <1>8, Zenon

\* The first line of a head and those behind it.
HeadIs(head, K, c, s, n) ==
    /\ head \in Seq(Byte) /\ K \in Nat /\ K = Len(head) /\ c \in 1 .. K
    /\ head[c] = LF /\ \A i \in 1 .. c - 1 : head[i] # LF
    /\ RestOf(head, c, s, n)
FirstThen(lines, ps) ==
    \E l \in Nat : l = Len(ps) /\ Len(lines) = l + 1 /\ \A k \in 1 .. l : lines[k + 1] = ps[k]
LEMMA HeadSplit ==
    ASSUME NEW head, NEW K, NEW c, NEW s, NEW n, HeadIs(head, K, c, s, n)
    PROVE  FirstThen(Split(head, {LF}), Split(s, {LF}))
<1>1. /\ head \in Seq(Byte) /\ K \in Nat /\ K = Len(head) /\ c \in 1 .. K
      /\ head[c] = LF /\ \A i \in 1 .. c - 1 : head[i] # LF
      /\ RestOf(head, c, s, n)
  BY Zenon DEF HeadIs
<1>2. s \in Seq(Byte) /\ n \in Nat /\ n = Len(s)
  BY <1>1, Zenon DEF RestOf
<1>3. PICK P : Splits(head, {LF}, P) /\ Split(head, {LF}) = P[1]
  <2>1. PICK P : P = CHOOSE R : Splits(head, {LF}, R)
    OBVIOUS
  <2>2. Splits(head, {LF}, P)
    BY <1>1, <2>1, SplitsExists
  <2> QED BY <2>1, <2>2, SplitIsChoice, Zenon
<1>4. PICK Q : Splits(s, {LF}, Q) /\ Split(s, {LF}) = Q[1]
  <2>1. PICK Q : Q = CHOOSE R : Splits(s, {LF}, R)
    OBVIOUS
  <2>2. Splits(s, {LF}, Q)
    BY <1>2, <2>1, SplitsExists
  <2> QED BY <2>1, <2>2, SplitIsChoice, Zenon
<1>5. 1 \in 1 .. K + 1
  BY <1>1
<1>6. PICK e \in 1 .. K + 1, h \in Seq(Byte) : FirstPiece(head, K, {LF}, P, 1, e, h)
  BY <1>1, <1>3, <1>5, PieceAndRest, Zenon
<1>7. /\ (e <= K => head[e] \in {LF}) /\ (\A i \in 1 .. e - 1 : head[i] \notin {LF})
      /\ (e <= K => P[1] = <<h>> \o P[e + 1])
  BY <1>6, Zenon DEF FirstPiece
<1>8. e = c
  <2>1. ~ (c \in 1 .. e - 1)
    BY <1>1, <1>7
  <2>2. ~ (e \in 1 .. c - 1)
    <3>1. e \in 1 .. c - 1 => e <= K
      BY <1>1
    <3> QED BY <1>1, <1>7, <3>1
  <2> QED BY <1>1, <2>1, <2>2
<1>9. P[1] = <<h>> \o Q[1]
  <2>1. SamePieces(P, c + 1, Q, 1)
    BY <1>1, <1>3, <1>4, PiecesBehind, Zenon
  <2>2. c <= K
    BY <1>1
  <2> QED BY <1>7, <1>8, <2>1, <2>2, Zenon DEF SamePieces
<1>10. PICK T : T = Seq(Byte)
  OBVIOUS
<1>11. PICK r \in Seq(T) : r = Q[1]
  <2>1. 1 \in 1 .. n + 1
    BY <1>2
  <2>2. Pieces(s, {LF}, 1, Q[1])
    BY <1>2, <1>4, <2>1, PiecesAre, Zenon
  <2> QED BY <1>10, <2>2, Zenon DEF Pieces
<1>12. h \in T
  BY <1>10
<1>13. PICK a \in Seq(T), l \in Nat : Conses(h, r, a, l)
  BY <1>12, ConsHas
<1>14. a = P[1] /\ l = Len(r) /\ Len(a) = l + 1 /\ \A k \in 1 .. l : a[k + 1] = r[k]
  BY <1>9, <1>11, <1>13, Zenon DEF Conses
<1> QED BY <1>3, <1>4, <1>11, <1>14, Zenon DEF FirstThen

\* The header lines of a head: of its pieces, those that are something.
AllOf(ps) == [k \in 1 .. Len(ps) |-> Stripped(ps[k])]
SomeOf(ps) == {k \in 1 .. Len(ps) : Stripped(ps[k]) # <<>>}
LEMMA HeaderLinesAre ==
    ASSUME NEW head, NEW ps, FirstThen(Split(head, {LF}), ps)
    PROVE  HeaderLines(head) = Kept(AllOf(ps), SomeOf(ps))
<1>1. PICK lines : lines = Split(head, {LF})
  OBVIOUS
<1>2. PICK l \in Nat : l = Len(ps) /\ Len(lines) = l + 1 /\ \A k \in 1 .. l : lines[k + 1] = ps[k]
  BY <1>1, Zenon DEF FirstThen
<1>3. Len(lines) - 1 = l
  BY <1>2
<1>4. PICK all : all = [k \in 1 .. Len(lines) - 1 |-> Stripped(lines[k + 1])]
  OBVIOUS
<1>5. \A k \in 1 .. l : Stripped(lines[k + 1]) = Stripped(ps[k])
  BY <1>2, Zenon
<1>6. all = AllOf(ps)
  <2>1. all = [k \in 1 .. l |-> Stripped(lines[k + 1])]
    BY <1>3, <1>4, Zenon
  <2>2. all = [k \in 1 .. l |-> Stripped(ps[k])]
    BY <1>5, <2>1, Zenon
  <2> QED BY <1>2, <2>2, Zenon DEF AllOf
<1>7. {k \in DOMAIN all : all[k] # <<>>} = SomeOf(ps)
  <2>1. DOMAIN all = 1 .. l /\ \A k \in 1 .. l : all[k] = Stripped(ps[k])
    BY <1>2, <1>6 DEF AllOf
  <2> QED BY <1>2, <2>1 DEF SomeOf
<1>8. HeaderLines(head) = Kept(all, {k \in DOMAIN all : all[k] # <<>>})
  BY <1>1, <1>4, Zenon DEF HeaderLines
<1> QED BY <1>6, <1>7, <1>8, Zenon

\* When these are well-formed each piece is a header or nothing,
AllWell(lines) == \A k \in DOMAIN lines : WellFormed(lines[k])
LEMMA AllIn ==
    ASSUME NEW ps \in Seq(Seq(Byte)) PROVE AllOf(ps) \in Seq(Seq(Byte)) /\ Len(AllOf(ps)) = Len(ps)
<1>0. PICK T : T = Seq(Byte)
  OBVIOUS
<1>1. PICK l \in Nat : T = Seq(Byte) /\ l = Len(ps)
  BY <1>0
<1>2. \A k \in 1 .. l : ps[k] \in T
  BY <1>1
<1>3. \A k \in 1 .. l : Stripped(ps[k]) \in T
  <2> TAKE k \in 1 .. l
  <2>1. PICK h \in Seq(Byte) : h = ps[k]
    BY <1>1, <1>2, Zenon
  <2>2. PICK y \in Seq(Byte), z \in Nat : StrippedSo(h, Len(h), y, z)
    <3>1. Len(h) \in Nat
      OBVIOUS
    <3> QED BY <3>1, StrippedIs, Zenon
  <2> QED BY <1>1, <2>1, <2>2, Zenon DEF StrippedSo
<1>4. PICK f : f = [k \in 1 .. l |-> Stripped(ps[k])]
  OBVIOUS
<1>5. f \in Seq(T) /\ Len(f) = l
  BY <1>3, <1>4
<1> QED BY <1>1, <1>4, <1>5, Zenon DEF AllOf
LEMMA WellThenNot ==
    ASSUME NEW ps \in Seq(Seq(Byte)), AllWell(Kept(AllOf(ps), SomeOf(ps))) PROVE HeadersOrNot(ps)
<1>1. PICK T : T = Seq(Byte)
  OBVIOUS
<1>2. PICK l \in Nat : l = Len(ps)
  OBVIOUS
<1>3. PICK all \in Seq(T) : all = AllOf(ps) /\ l = Len(all)
  BY <1>1, <1>2, AllIn, Zenon
<1>4. KeptPart(T, all, SomeOf(ps), Kept(all, SomeOf(ps)), l)
  BY <1>3, KeptIs, Zenon
<1>5. PICK r \in Seq(T) : r = Kept(all, SomeOf(ps)) /\ KeptPart(T, all, SomeOf(ps), r, l)
  BY <1>4, Zenon DEF KeptPart
<1>6. DOMAIN r = 1 .. Len(r) /\ \A k \in 1 .. l : all[k] = Stripped(ps[k])
  <2>1. DOMAIN r = 1 .. Len(r)
    OBVIOUS
  <2>2. \A k \in 1 .. l : all[k] = Stripped(ps[k])
    BY <1>2, <1>3 DEF AllOf
  <2> QED BY <2>1, <2>2
<1>7. ASSUME NEW k \in 1 .. l PROVE HeaderOrNot(ps[k])
  <2>1. CASE Stripped(ps[k]) = <<>>
    BY <2>1, Zenon DEF HeaderOrNot
  <2>2. CASE Stripped(ps[k]) # <<>>
    <3>1. k \in SomeOf(ps)
      BY <1>2, <2>2 DEF SomeOf
    <3>2. PICK j \in 1 .. Len(r) : r[j] = all[k]
      BY <1>5, <3>1, Zenon DEF KeptPart
    <3>3. WellFormed(r[j])
      BY <1>3, <1>5, <1>6, <3>2, Zenon DEF AllWell
    <3> QED BY <1>6, <3>2, <3>3, Zenon DEF HeaderOrNot
  <2> QED BY <2>1, <2>2
<1> QED BY <1>2, <1>7, Zenon DEF HeadersOrNot

\* and they are the first of the pieces.
LEMMA LinesOfHeads ==
    ASSUME NEW ps \in Seq(Seq(Byte)), NEW m \in Nat, Heads(ps, m),
           NEW lines, lines = Kept(AllOf(ps), SomeOf(ps))
    PROVE  LinesSay(lines, ps, m)
<1>1. PICK T : T = Seq(Byte)
  OBVIOUS
<1>2. PICK l \in Nat : l = Len(ps) /\ m \in 0 .. l
  <2>1. Len(ps) \in Nat /\ m < Len(ps)
    BY DEF Heads
  <2>2. m \in 0 .. Len(ps)
    BY <2>1
  <2> QED BY <2>1, <2>2, Zenon
<1>3. PICK all \in Seq(T) : all = AllOf(ps) /\ l = Len(all)
  BY <1>1, <1>2, AllIn, Zenon
<1>4. \A k \in 1 .. l : all[k] = Stripped(ps[k])
  BY <1>2, <1>3 DEF AllOf
<1>5. ASSUME NEW k \in 1 .. l PROVE k \in SomeOf(ps) <=> k <= m
  <2>1. CASE k <= m
    <3>1. k \in 1 .. m
      BY <2>1
    <3>2. WellFormed(Stripped(ps[k]))
      BY <3>1, Zenon DEF Heads
    <3>3. Bytes(<<>>) = {}
      BY DEF Bytes
    <3>4. Stripped(ps[k]) # <<>>
      BY <3>2, <3>3, Zenon DEF WellFormed
    <3> QED BY <1>2, <2>1, <3>4 DEF SomeOf
  <2>2. CASE ~ (k <= m)
    <3>1. k \in m + 1 .. l
      BY <2>2
    <3>2. Stripped(ps[k]) = <<>>
      BY <1>2, <3>1, Zenon DEF Heads
    <3> QED BY <2>2, <3>2 DEF SomeOf
  <2> QED BY <2>1, <2>2
<1>6. lines \in Seq(T) /\ Len(lines) = m /\ \A j \in 1 .. m : lines[j] = all[j]
  <2>1. PICK at : at = SomeOf(ps)
    OBVIOUS
  <2>2. \A k \in 1 .. l : k \in at <=> k <= m
    BY <1>5, <2>1
  <2>3. Kept(all, at) \in Seq(T) /\ Len(Kept(all, at)) = m /\ \A j \in 1 .. m : Kept(all, at)[j] = all[j]
    BY <1>2, <1>3, <2>2, KeptStart
  <2> QED BY <1>3, <2>1, <2>3, Zenon
<1>7. \A j \in 1 .. m : j \in 1 .. l
  BY <1>2
<1> QED BY <1>1, <1>4, <1>6, <1>7, Zenon DEF LinesSay

\* Of a head that ends with its first empty line, and has well-formed lines: the
\* empty line has one CR at most, and the loop finds the lines.
Short(d, k) ==
    /\ k \in 1 .. Len(d) /\ d[k] = LF
    /\ \E j \in 1 .. k - 1 : k <= j + 2 /\ d[j] = LF /\ \A i \in j + 1 .. k - 1 : d[i] = CR
LEMMA HeadSays ==
    ASSUME NEW head, NEW K, NEW c, NEW s, NEW n, HeadIs(head, K, c, s, n),
           K \in HeadEnds(head), \A k \in HeadEnds(head) : K <= k, AllWell(HeaderLines(head))
    PROVE  Short(head, K) /\ SameMapping(s, HeaderLines(head))
<1>1. /\ head \in Seq(Byte) /\ K \in Nat /\ K = Len(head) /\ c \in 1 .. K
      /\ head[c] = LF /\ \A i \in 1 .. c - 1 : head[i] # LF
      /\ RestOf(head, c, s, n)
  BY Zenon DEF HeadIs
<1>2. s \in Seq(Byte) /\ n \in Nat /\ n = Len(s) /\ K = c + n /\ \A j \in 1 .. n : s[j] = head[c + j]
  BY <1>1, Zenon DEF RestOf
<1>3. PICK ps : ps = Split(s, {LF})
  OBVIOUS
<1>4. FirstThen(Split(head, {LF}), ps)
  BY <1>3, HeadSplit, Zenon
<1>5. PICK lines : lines = HeaderLines(head) /\ lines = Kept(AllOf(ps), SomeOf(ps))
  BY <1>4, HeaderLinesAre, Zenon
<1>6. ps \in Seq(Seq(Byte))
  <2>1. PICK P : Splits(s, {LF}, P) /\ ps = P[1]
    <3>1. PICK P : P = CHOOSE R : Splits(s, {LF}, R)
      OBVIOUS
    <3>2. Splits(s, {LF}, P)
      BY <1>2, <3>1, SplitsExists
    <3> QED BY <1>3, <3>1, <3>2, SplitIsChoice, Zenon
  <2>2. 1 \in 1 .. n + 1
    BY <1>2
  <2>3. Pieces(s, {LF}, 1, P[1])
    BY <1>2, <2>1, <2>2, PiecesAre, Zenon
  <2> QED BY <2>1, <2>3, Zenon DEF Pieces
<1>7. HeadersOrNot(ps)
  BY <1>5, <1>6, WellThenNot, Zenon
<1>8. PICK j \in 1 .. K - 1 : head[j] = LF /\ \A i \in j + 1 .. K - 1 : head[i] = CR
  BY DEF HeadEnds
<1>9. head[K] = LF
  BY DEF HeadEnds
<1>10. j >= c /\ n > 0
  <2>1. ~ (j \in 1 .. c - 1)
    BY <1>1, <1>8
  <2> QED BY <1>1, <1>2, <2>1
<1>20. n \in Nat /\ n > 0 /\ K \in Nat /\ K = c + n /\ c \in Nat /\ c > 0 /\ j \in Nat /\ j < K /\ j >= c
  BY <1>1, <1>2, <1>10
<1>11. PICK q \in 1 .. n : q = j - c + 1 /\ c + (q - 1) = j
  <2>1. j - c + 1 \in 1 .. n /\ c + ((j - c + 1) - 1) = j
    BY <1>20
  <2> QED BY <2>1, Zenon
<1>12. LineStart(s, q)
  <2>1. CASE q = 1
    BY <2>1, Zenon DEF LineStart
  <2>2. CASE q # 1
    <3>1. q - 1 \in 1 .. n
      BY <1>20, <2>2
    <3>2. s[q - 1] = LF
      BY <1>2, <1>8, <1>11, <3>1, Zenon
    <3> QED BY <3>2, Zenon DEF LineStart
  <2> QED BY <2>1, <2>2
<1>13. NothingFrom(s, q, n)
  <2>1. s[n] = LF
    BY <1>2, <1>9, <1>10
  <2>2. \A i \in q .. n - 1 : s[i] = CR
    <3> TAKE i \in q .. n - 1
    <3>1. i \in 1 .. n /\ c + i \in j + 1 .. K - 1
      BY <1>11, <1>20
    <3> QED BY <1>2, <1>8, <3>1, Zenon
  <2> QED BY <2>1, <2>2, Zenon DEF NothingFrom
<1>14. ASSUME NEW p \in 1 .. n, NEW e \in 1 .. n, p <= e, LineStart(s, p), NothingFrom(s, p, e)
       PROVE  e = n
  <2>1. s[e] = LF /\ \A i \in p .. e - 1 : s[i] = CR
    BY <1>14, Zenon DEF NothingFrom
  <2>2. PICK k \in 1 .. K : k = c + e
    <3>1. c + e \in 1 .. K
      BY <1>20
    <3> QED BY <3>1, Zenon
  <2>3. PICK y \in 1 .. k - 1 : y = c + (p - 1)
    <3>1. c + (p - 1) \in 1 .. k - 1
      BY <1>14, <1>20, <2>2
    <3> QED BY <3>1, Zenon
  <2>4. head[y] = LF
    <3>1. CASE p = 1
      <4>1. y = c
        BY <1>20, <2>3, <3>1
      <4> QED BY <1>1, <4>1, Zenon
    <3>2. CASE p # 1
      <4>1. p - 1 \in 1 .. n
        BY <1>20, <3>2
      <4> QED BY <1>2, <1>14, <2>3, <3>2, <4>1, Zenon DEF LineStart
    <3> QED BY <3>1, <3>2
  <2>5. \A i \in y + 1 .. k - 1 : head[i] = CR
    <3> TAKE i \in y + 1 .. k - 1
    <3>1. PICK w \in p .. e - 1 : w \in 1 .. n /\ i = c + w
      <4>1. i - c \in p .. e - 1 /\ i - c \in 1 .. n /\ i = c + (i - c)
        BY <1>20, <2>2, <2>3
      <4> QED BY <4>1, Zenon
    <3> QED BY <1>2, <2>1, <3>1, Zenon
  <2>6. head[k] = LF
    BY <1>2, <2>1, <2>2, Zenon
  <2>7. k \in HeadEnds(head)
    BY <1>1, <2>4, <2>5, <2>6 DEF HeadEnds
  <2>8. K <= k
    BY <2>7
  <2> QED BY <1>20, <2>2, <2>8
<1>15. OneBlank(s, n, q)
  BY <1>2, <1>12, <1>13, <1>14, Zenon DEF OneBlank
<1>16. PICK m \in Nat : Heads(ps, m) /\ n <= q + 1
  BY <1>3, <1>7, <1>15, ThenNot, Zenon DEF HeadersThenNot
<1>17. LinesSay(lines, ps, m)
  BY <1>5, <1>6, <1>16, LinesOfHeads, Zenon
<1>18. SameMapping(s, lines)
  <2>1. s[n] = LF
    BY <1>13, Zenon DEF NothingFrom
  <2>2. n = Len(s) /\ n > 0 /\ s \in Seq(Byte) /\ n \in Nat
    BY <1>2, <1>10, Zenon
  <2>3. m \in Nat /\ Heads(ps, m)
    BY <1>16
  <2> QED BY <1>3, <1>17, <2>1, <2>2, <2>3, HeadersSay, Zenon
<1>19. Short(head, K)
  <2>1. K <= j + 2
    <3>1. n <= q + 1 /\ c + (q - 1) = j /\ q \in 1 .. n
      BY <1>11, <1>16, Zenon
    <3> QED BY <1>20, <3>1
  <2>2. K \in 1 .. Len(head)
    BY <1>1, <1>20
  <2> QED BY <1>8, <1>9, <2>1, <2>2, Zenon DEF Short
<1> QED BY <1>5, <1>18, <1>19, Zenon

-----------------------------------------------------------------------------
(* The headers are the lines *)

\* The first part of a sequence of bytes.
LEMMA HeadPart ==
    ASSUME NEW a \in Seq(Byte), NEW m \in Nat, m = Len(a), NEW k \in 1 .. m,
           NEW head, head = SubSeq(a, 1, k)
    PROVE  head \in Seq(Byte) /\ Len(head) = k /\ \A i \in 1 .. k : head[i] = a[i]
<1>1. PICK z \in Nat : z = k /\ 0 + z <= Len(a) /\ 0 \in Nat
  <2>1. k \in Nat /\ 0 + k <= Len(a)
    OBVIOUS
  <2> QED BY <2>1
<1>2. /\ SubSeq(a, 0 + 1, 0 + z) \in Seq(Byte) /\ Len(SubSeq(a, 0 + 1, 0 + z)) = z
      /\ \A i \in 1 .. z : SubSeq(a, 0 + 1, 0 + z)[i] = a[0 + i]
  BY <1>1, PartIs
<1>3. PICK h : h = SubSeq(a, 0 + 1, 0 + z)
  OBVIOUS
<1>4. h \in Seq(Byte) /\ Len(h) = z /\ \A i \in 1 .. z : h[i] = a[i]
  <2>1. \A i \in 1 .. z : 0 + i = i
    BY <1>1
  <2> QED BY <1>2, <1>3, <2>1, Zenon
<1>5. head = h
  <2>1. 0 + 1 = 1 /\ 0 + z = k
    BY <1>1
  <2> QED BY <1>3, <2>1, Zenon
<1> QED BY <1>1, <1>4, <1>5, Zenon

\* A short end of the first part is one of the whole, and the other way round.
BeginsIn(d, a, z) ==
    d \in Seq(Byte) /\ z = Len(d) /\ z <= Len(a) /\ \A i \in 1 .. z : d[i] = a[i]
LEMMA ShortPart ==
    ASSUME NEW a \in Seq(Byte), NEW d, NEW z \in Nat, BeginsIn(d, a, z), NEW k \in 1 .. z
    PROVE  Short(d, k) <=> Short(a, k)
<1>5. d \in Seq(Byte) /\ z = Len(d) /\ z <= Len(a) /\ \A i \in 1 .. z : d[i] = a[i]
  BY Zenon DEF BeginsIn
<1>1. k \in 1 .. Len(a)
  BY <1>5
<1>2. ASSUME NEW j \in 1 .. k - 1
      PROVE  /\ d[j] = a[j]
             /\ (\A i \in j + 1 .. k - 1 : d[i] = CR) <=> (\A i \in j + 1 .. k - 1 : a[i] = CR)
  <2>1. j \in 1 .. z /\ \A i \in j + 1 .. k - 1 : i \in 1 .. z
    OBVIOUS
  <2> QED BY <1>5, <2>1
<1>3. (\E j \in 1 .. k - 1 : k <= j + 2 /\ d[j] = LF /\ \A i \in j + 1 .. k - 1 : d[i] = CR)
      <=> \E j \in 1 .. k - 1 : k <= j + 2 /\ a[j] = LF /\ \A i \in j + 1 .. k - 1 : a[i] = CR
  BY <1>2, Zenon
<1>4. d[k] = a[k]
  BY <1>5
<1>6. k \in 1 .. Len(d)
  BY <1>5
<1> QED BY <1>1, <1>3, <1>4, <1>6, Zenon DEF Short

\* The end of a head is one of the head.
LEMMA EndOfPart ==
    ASSUME NEW a \in Seq(Byte), NEW m \in Nat, m = Len(a), NEW K \in HeadEnds(a),
           \A k \in HeadEnds(a) : K <= k, NEW head, head = SubSeq(a, 1, K)
    PROVE  K \in HeadEnds(head) /\ \A k \in HeadEnds(head) : K <= k
<1>1. K \in 1 .. m
  BY DEF HeadEnds
<1>2. head \in Seq(Byte) /\ Len(head) = K /\ \A i \in 1 .. K : head[i] = a[i]
  BY <1>1, HeadPart
<1>3. ASSUME NEW k \in 1 .. K PROVE k \in HeadEnds(head) <=> k \in HeadEnds(a)
  <2>1. k \in 1 .. m
    BY <1>1
  <2>2. ASSUME NEW j \in 1 .. k - 1
        PROVE  /\ head[j] = a[j]
               /\ (\A i \in j + 1 .. k - 1 : head[i] = CR) <=> (\A i \in j + 1 .. k - 1 : a[i] = CR)
    <3>1. j \in 1 .. K /\ \A i \in j + 1 .. k - 1 : i \in 1 .. K
      BY <1>1
    <3> QED BY <1>2, <3>1
  <2>3. (\E j \in 1 .. k - 1 : head[j] = LF /\ \A i \in j + 1 .. k - 1 : head[i] = CR)
        <=> \E j \in 1 .. k - 1 : a[j] = LF /\ \A i \in j + 1 .. k - 1 : a[i] = CR
    BY <2>2, Zenon
  <2>4. head[k] = a[k]
    BY <1>2
  <2> QED BY <1>2, <2>1, <2>3, <2>4 DEF HeadEnds
<1>4. HeadEnds(head) \subseteq 1 .. K
  BY <1>2 DEF HeadEnds
<1>5. K \in 1 .. K
  BY <1>1
<1> QED BY <1>3, <1>4, <1>5

\* What a complete head says: its first line feed ends the request line, the rest
\* of it is the block.
BlockOf(head, c, s) ==
    /\ head \in Seq(Byte) /\ c \in 1 .. Len(head) /\ head[c] = LF
    /\ \A i \in 1 .. c - 1 : head[i] # LF
    /\ s = SubSeq(head, c + 1, Len(head))
LEMMA FirstHeadSays ==
    ASSUME NEW a \in Seq(Byte), NEW m \in Nat, m = Len(a), NEW K \in HeadEnds(a),
           \A k \in HeadEnds(a) : K <= k, NEW head, head = SubSeq(a, 1, K),
           AllWell(HeaderLines(head))
    PROVE  /\ Short(a, K)
           /\ \E c, s : BlockOf(head, c, s) /\ SameMapping(s, HeaderLines(head))
<1>1. K \in 1 .. m /\ a[K] = LF
  BY DEF HeadEnds
<1>2. head \in Seq(Byte) /\ Len(head) = K /\ \A i \in 1 .. K : head[i] = a[i]
  BY <1>1, HeadPart
<1>3. PICK z \in Nat : z = K /\ z = Len(head) /\ 1 \in 1 .. z + 1 /\ z \in 1 .. z
  <2>1. K \in Nat /\ 1 \in 1 .. K + 1 /\ K \in 1 .. K
    BY <1>1
  <2> QED BY <1>2, <2>1, Zenon
<1>4. PICK c \in 1 .. z + 1 : /\ c = FirstOf(head, 1, {LF}) /\ (c <= z => head[c] \in {LF})
                              /\ \A i \in 1 .. c - 1 : head[i] \notin {LF}
  BY <1>2, <1>3, FirstOfIn, Zenon
<1>5. c \in 1 .. z /\ head[c] = LF /\ \A i \in 1 .. c - 1 : head[i] # LF
  <2>1. head[z] \in {LF}
    BY <1>1, <1>2, <1>3
  <2>2. ~ (z \in 1 .. c - 1)
    BY <1>4, <2>1, Zenon
  <2>3. c <= z
    <3>1. c \in 1 .. z + 1 /\ z \in Nat
      BY <1>3, <1>4, Zenon
    <3> QED BY <1>3, <2>2, <3>1
  <2>4. c \in 1 .. z
    BY <1>3, <1>4, <2>3
  <2> QED BY <1>4, <2>3, <2>4
<1>6. PICK n \in Nat : z = c + n /\ c \in Nat
  <2>1. z - c \in Nat /\ z = c + (z - c) /\ c \in Nat
    BY <1>5
  <2> QED BY <2>1, Zenon
<1>7. PICK s : s = SubSeq(head, c + 1, c + n)
  OBVIOUS
<1>8. s \in Seq(Byte) /\ Len(s) = n /\ \A j \in 1 .. n : s[j] = head[c + j]
  <2>1. c + n <= Len(head)
    BY <1>3, <1>6
  <2> QED BY <1>2, <1>6, <1>7, <2>1, PartIs
<1>9. RestOf(head, c, s, n)
  BY <1>2, <1>3, <1>6, <1>8, Zenon DEF RestOf
<1>10. HeadIs(head, z, c, s, n)
  BY <1>2, <1>3, <1>5, <1>9, Zenon DEF HeadIs
<1>11. z \in HeadEnds(head) /\ \A k \in HeadEnds(head) : z <= k
  BY <1>3, EndOfPart, Zenon
<1>12. Short(head, z) /\ SameMapping(s, HeaderLines(head))
  BY <1>10, <1>11, HeadSays, Zenon
<1>13. Short(a, K)
  <2>1. z <= m
    BY <1>1, <1>3
  <2>2. \A i \in 1 .. z : head[i] = a[i]
    BY <1>2, <1>3
  <2>3. BeginsIn(head, a, z)
    BY <1>2, <1>3, <2>1, <2>2, Zenon DEF BeginsIn
  <2>4. Short(a, z)
    BY <1>3, <1>12, <2>3, ShortPart, Zenon
  <2> QED BY <1>3, <2>4, Zenon
<1>14. BlockOf(head, c, s)
  BY <1>2, <1>3, <1>5, <1>6, <1>7, Zenon DEF BlockOf
<1> QED BY <1>12, <1>13, <1>14, Zenon

\* When the request line is accepted, the headers are those of the block.
LEMMA ParseSays ==
    ASSUME NEW head, NEW body, NEW c, NEW s, BlockOf(head, c, s), Parse(head, body).ret = 1
    PROVE  Parse(head, body).headers = HeadersIn(s)
<1>1. head \in Seq(Byte) /\ c \in 1 .. Len(head) /\ head[c] = LF /\ \A i \in 1 .. c - 1 : head[i] # LF
  BY Zenon DEF BlockOf
<1>2. PICK z \in Nat : z = Len(head) /\ c \in 1 .. z /\ 1 \in 1 .. z + 1
  <2>1. Len(head) \in Nat /\ 1 \in 1 .. Len(head) + 1
    BY <1>1
  <2> QED BY <1>1, <2>1, Zenon
<1>3. PICK p : p = FirstOf(head, 1, {SP, LF})
  OBVIOUS
<1>4. PICK q : q = FirstOf(head, p + 1, {SP, LF})
  OBVIOUS
<1>5. PICK e : e = FirstOf(head, q + 1, {SP, LF})
  OBVIOUS
<1>6. /\ head[p] # LF /\ head[q] # LF /\ head[e] # SP
      /\ Parse(head, body).headers = HeadersIn(SubSeq(head, e + 1, Len(head)))
  <2> HIDE DEF Insert
  <2> DEFINE raw == SubSeq(head, p + 1, q - 1)
             url == CharDecodeUrl(raw)
             cr == e > q + 1 /\ head[e - 1] = CR
             o1 == Insert(Empty, "data", body)
             o2 == Insert(o1, "method", SubSeq(head, 1, p - 1))
             o3 == Insert(Insert(o2, "raw_url", raw), "file", url.file)
             o4 == IF url.mark = 0 THEN o3
                   ELSE Insert(o3, "query", SubSeq(raw, url.mark + 1, Len(raw)))
             o5 == Insert(o4, "protocol", SubSeq(head, q + 1, IF cr THEN e - 2 ELSE e - 1))
             h == HeadersIn(SubSeq(head, e + 1, Len(head)))
  <2>1. Parse(head, body) =
          IF head[p] = LF THEN [ret |-> 400, other |-> o1, headers |-> Empty]
          ELSE IF head[q] = LF THEN [ret |-> 400, other |-> o2, headers |-> Empty]
          ELSE IF head[e] = SP THEN [ret |-> 400, other |-> o4, headers |-> Empty]
          ELSE [ret |-> 1, other |-> o5, headers |-> h]
    BY <1>3, <1>4, <1>5, ZenonT(30) DEF Parse
  <2> HIDE DEF o1, o2, o4, o5, h
  <2>2. head[p] # LF /\ head[q] # LF /\ head[e] # SP /\ Parse(head, body).headers = h
    BY <2>1
  <2> QED BY <2>2 DEF h
<1>7. ASSUME NEW y \in 1 .. z + 1, y <= c, NEW w, w = FirstOf(head, y, {SP, LF})
      PROVE  w \in y .. c /\ head[w] \in {SP, LF}
  <2>1. PICK u \in y .. z + 1 : /\ u = FirstOf(head, y, {SP, LF}) /\ (u <= z => head[u] \in {SP, LF})
                                /\ \A i \in y .. u - 1 : head[i] \notin {SP, LF}
    <3>1. PICK S : S = {SP, LF}
      OBVIOUS
    <3>2. PICK t \in Seq(Byte) : t = head
      BY <1>1
    <3>3. PICK i \in y .. z + 1 : /\ i = FirstOf(t, y, S) /\ (i <= z => t[i] \in S)
                                 /\ \A j \in y .. i - 1 : t[j] \notin S
      <4>1. z \in Nat /\ z = Len(t) /\ y \in 1 .. z + 1
        BY <1>2, <3>2
      <4> QED BY <4>1, FirstOfIn, Zenon
    <3> QED BY <3>1, <3>2, <3>3, Zenon
  <2>2. head[c] \in {SP, LF}
    BY <1>1
  <2>3. ~ (c \in y .. u - 1)
    BY <2>1, <2>2, Zenon
  <2>4. u <= c
    BY <1>2, <1>7, <2>3
  <2>5. u <= z /\ u \in y .. c
    BY <1>2, <2>4
  <2> QED BY <1>7, <2>1, <2>5, Zenon
<1>8. p \in 1 .. c /\ head[p] \in {SP, LF}
  <2>1. 1 <= c
    BY <1>2
  <2> QED BY <1>2, <1>3, <1>7, <2>1, Zenon
<1>9. p # c /\ p + 1 \in 1 .. z + 1 /\ p + 1 <= c
  <2>1. p # c
    BY <1>1, <1>6
  <2> QED BY <1>2, <1>8, <2>1
<1>10. q \in p + 1 .. c
  <2>1. PICK y \in 1 .. z + 1 : y = p + 1
    BY <1>9
  <2> QED BY <1>4, <1>7, <1>9, <2>1, Zenon
<1>11. q + 1 \in 1 .. z + 1 /\ q + 1 <= c
  <2>1. q # c
    BY <1>1, <1>6
  <2> QED BY <1>2, <1>8, <1>10, <2>1
<1>12. e \in q + 1 .. c /\ head[e] \in {SP, LF}
  <2>1. PICK y \in 1 .. z + 1 : y = q + 1
    BY <1>11
  <2> QED BY <1>5, <1>7, <1>11, <2>1, Zenon
<1>13. e = c
  <2>1. head[e] = LF
    BY <1>6, <1>12
  <2>2. ~ (e \in 1 .. c - 1)
    BY <1>1, <2>1
  <2> QED BY <1>2, <1>8, <1>10, <1>12, <2>2
<1>14. s = SubSeq(head, c + 1, Len(head))
  BY Zenon DEF BlockOf
<1> QED BY <1>6, <1>13, <1>14, Zenon

\* What the scan of one call finds are ends, and it does not miss a short one that
\* was not complete before.
LEMMA ShortSeen ==
    ASSUME NEW d \in Seq(Byte), NEW a \in Seq(Byte), NEW m \in Nat, m = Len(d), NEW l \in Nat,
           l = Len(a), m <= l, NEW from, from = ScanStart(m)
    PROVE  /\ from \in 1 .. l + 1
           /\ Ends(a, from, 0) \subseteq HeadEnds(a)
           /\ \A k \in m + 1 .. l : Short(a, k) => k \in Ends(a, from, 0)
<1>1. from \in 1 .. l + 1 /\ from >= 1 /\ (from = 1 \/ from = m - 2)
  BY DEF ScanStart, Lookback
<1>2. ASSUME NEW e \in Ends(a, from, 0) PROVE e \in HeadEnds(a)
  <2>1. e \in from .. l /\ EndsAt(a, from, 0, e)
    BY DEF Ends
  <2>2. PICK j \in from .. e - 1 : a[j] = LF /\ \A i \in j + 1 .. e - 1 : a[i] = CR
    BY <2>1 DEF EndsAt
  <2>3. j \in 1 .. e - 1 /\ e \in 1 .. l /\ a[e] = LF
    BY <1>1, <2>1 DEF EndsAt
  <2> QED BY <2>2, <2>3 DEF HeadEnds
<1>3. ASSUME NEW k \in m + 1 .. l, Short(a, k) PROVE k \in Ends(a, from, 0)
  <2>1. PICK j \in 1 .. k - 1 : k <= j + 2 /\ a[j] = LF /\ \A i \in j + 1 .. k - 1 : a[i] = CR
    BY <1>3, Zenon DEF Short
  <2>2. a[k] = LF
    BY <1>3, Zenon DEF Short
  <2>3. j \in from .. k - 1 /\ k \in from .. l
    BY <1>1, <2>1
  <2>4. EndsAt(a, from, 0, k)
    BY <2>1, <2>2, <2>3, Zenon DEF EndsAt
  <2> QED BY <2>3, <2>4 DEF Ends
<1> QED BY <1>1, <1>2, <1>3

\* Short ends are what no call that answers 0 or refuses leaves behind.
NoShort(d) == \A k \in 1 .. Len(d) : ~ Short(d, k)
NoShortYet == ret \in {0, 413} => NoShort(data)
HeadInv == NoShortYet /\ HeadersAreTheLines

\* What append() has to tell of all it was given.
HeadSaid(a, h) ==
    LET head == SubSeq(a, 1, HeadEnd(a))
    IN  AllWell(HeaderLines(head)) => h = MappingOf(HeaderLines(head))

\* One call: without an end there is no short end; with one, the end it found is
\* the first, when the lines before that are well-formed.
LEMMA FoundSays ==
    ASSUME NEW d \in Seq(Byte), NEW s \in Seq(Byte), NoShort(d), NEW a, a = d \o s,
           NEW f, f = Scan(a, ScanStart(Len(d))), NEW r, NEW body, r = Parse(SubSeq(a, 1, f.end), body)
    PROVE  /\ f.slash_n # 2 => NoShort(a)
           /\ f.slash_n = 2 /\ r.ret = 1 => HeadSaid(a, r.headers)
<1>1. PICK m \in Nat, l \in Nat : /\ m = Len(d) /\ a \in Seq(Byte) /\ l = Len(a) /\ m <= l
                                  /\ \A i \in 1 .. m : d[i] = a[i]
  <2>1. /\ d \o s \in Seq(Byte) /\ Len(d) \in Nat /\ Len(d \o s) \in Nat
        /\ Len(d) <= Len(d \o s) /\ \A j \in 1 .. Len(d) : (d \o s)[j] = d[j]
    OBVIOUS
  <2> QED BY <2>1, Zenon
<1>2. PICK from : from = ScanStart(m)
  OBVIOUS
<1>3. /\ from \in 1 .. l + 1 /\ Ends(a, from, 0) \subseteq HeadEnds(a)
      /\ \A k \in m + 1 .. l : Short(a, k) => k \in Ends(a, from, 0)
  BY <1>1, <1>2, ShortSeen, Zenon
<1>4. Tells(f, a, from, 0)
  <2>1. from \in 1 .. Len(a) + 1
    BY <1>1, <1>3
  <2> QED BY <1>1, <1>2, <2>1, ScanFinds, Zenon
<1>5. ASSUME NEW k \in 1 .. l, Short(a, k) PROVE k \in Ends(a, from, 0)
  <2>1. CASE k \in 1 .. m
    <3>2. BeginsIn(d, a, m)
      BY <1>1, Zenon DEF BeginsIn
    <3>1. Short(d, k)
      BY <1>1, <1>5, <2>1, <3>2, ShortPart, Zenon
    <3> QED BY <1>1, <2>1, <3>1, Zenon DEF NoShort
  <2>2. CASE ~ (k \in 1 .. m)
    <3>1. k \in m + 1 .. l
      BY <1>1, <2>2
    <3> QED BY <1>3, <1>5, <3>1, Zenon
  <2> QED BY <2>1, <2>2
<1>6. f.slash_n # 2 => NoShort(a)
  <2> SUFFICES ASSUME f.slash_n # 2, NEW k \in 1 .. l PROVE ~ Short(a, k)
    BY <1>1, Zenon DEF NoShort
  <2>1. Ends(a, from, 0) = {}
    BY <1>4, Zenon DEF Tells
  <2> QED BY <1>5, <2>1
<1>7. ASSUME f.slash_n = 2, r.ret = 1, NEW head, head = SubSeq(a, 1, HeadEnd(a)),
             AllWell(HeaderLines(head))
      PROVE  r.headers = MappingOf(HeaderLines(head))
  <2>1. f.end \in Ends(a, from, 0) /\ \A e \in Ends(a, from, 0) : f.end <= e
    BY <1>4, <1>7, Zenon DEF Tells
  <2>2. HeadEnds(a) # {} /\ HeadEnds(a) \in SUBSET Nat /\ HeadEnds(a) \subseteq 1 .. l
    <3>1. HeadEnds(a) \subseteq 1 .. l
      BY <1>1 DEF HeadEnds
    <3>2. f.end \in HeadEnds(a)
      BY <1>3, <2>1, Zenon
    <3> QED BY <3>1, <3>2
  <2>3. PICK K \in HeadEnds(a) : \A k \in HeadEnds(a) : K <= k
    BY <2>2, Least
  <2>4. HeadEnd(a) = K
    <3>1. Min(HeadEnds(a)) = K
      BY <2>2, <2>3, MinIs, Zenon
    <3> QED BY <3>1, Zenon DEF HeadEnd
  <2>5. PICK c, y : Short(a, K) /\ BlockOf(head, c, y) /\ SameMapping(y, HeaderLines(head))
    BY <1>1, <1>7, <2>3, <2>4, FirstHeadSays, Zenon
  <2>6. f.end = K
    <3>1. K \in Ends(a, from, 0)
      BY <1>5, <2>2, <2>5, Zenon
    <3>2. f.end <= K /\ K <= f.end
      BY <1>3, <2>1, <2>3, <3>1, Zenon
    <3>3. K \in Nat /\ f.end \in Nat
      BY <1>3, <2>1, <2>2, Zenon
    <3> QED BY <3>2, <3>3
  <2>7. r = Parse(head, body)
    BY <1>7, <2>4, <2>6, Zenon
  <2>8. Parse(head, body).ret = 1
    BY <1>7, <2>7, Zenon
  <2>9. Parse(head, body).headers = HeadersIn(y)
    BY <2>5, <2>8, ParseSays, Zenon
  <2> QED BY <2>5, <2>7, <2>9, Zenon DEF SameMapping
<1> QED BY <1>6, <1>7, Zenon DEF HeadSaid

\* The property, in these words.
LEMMA PropertyIs == HeadersAreTheLines <=> (ret = 1 => HeadSaid(data, headers))
BY Zenon DEF HeadersAreTheLines, HeadSaid, AllWell, MappingOf
LEMMA PropertyIsNext == HeadersAreTheLines' <=> (ret' = 1 => HeadSaid(data', headers'))
BY Zenon DEF HeadersAreTheLines, HeadSaid, AllWell, MappingOf

\* No step breaks it.
LEMMA HeadStep ==
    ASSUME EndInv, HeadInv, NEW n \in 1 .. Len(stream), BufAppend(n) PROVE HeadInv'
<1> DEFINE str == SubSeq(stream, sent + 1, sent + n)
           found == Scan(data \o str, ScanStart(Len(data)))
           parsed == Parse(SubSeq(data \o str, 1, found.end),
                           SubSeq(data \o str, found.end + 1, Len(data \o str)))
<1>1. /\ stream \in Seq(Byte) /\ data \in Seq(Byte) /\ sent \in Nat
      /\ ret \in {0, 413} /\ n \in 1 .. Len(stream) - sent
  BY DEF EndInv, StreamType, BufAppend
<1>2. str \in Seq(Byte)
  BY <1>1
<1>3. NoShort(data)
  BY <1>1 DEF HeadInv, NoShortYet
<1>4. CASE ~ Fits(n)
  <2>1. ret' = 413 /\ data' = data
    BY <1>4 DEF BufAppend
  <2>2. HeadersAreTheLines'
    BY <2>1, PropertyIsNext
  <2> QED BY <1>3, <2>1, <2>2 DEF HeadInv, NoShortYet
<1>5. CASE Fits(n)
  <2>1. PICK d \in Seq(Byte), s \in Seq(Byte) : d = data /\ s = str
    BY <1>1, <1>2
  <2>2. PICK a : a = d \o s
    OBVIOUS
  <2>3. PICK f : f = Scan(a, ScanStart(Len(d)))
    OBVIOUS
  <2>4. PICK body : body = SubSeq(a, f.end + 1, Len(a))
    OBVIOUS
  <2>5. PICK r : r = Parse(SubSeq(a, 1, f.end), body)
    OBVIOUS
  <2>6. f = found /\ r = parsed
    BY <2>1, <2>2, <2>3, <2>4, <2>5, Zenon
  <2>7. /\ data' = a
        /\ f.slash_n # 2 => ret' = 0
        /\ f.slash_n = 2 => ret' = r.ret /\ headers' = r.headers
    <3>1. /\ data' = data \o str
          /\ found.slash_n # 2 => ret' = 0
          /\ found.slash_n = 2 => ret' = parsed.ret /\ headers' = parsed.headers
      BY <1>5, Zenon DEF BufAppend
    <3> QED BY <2>1, <2>2, <2>6, <3>1, Zenon
  <2>8. NoShort(d)
    BY <1>3, <2>1
  <2>9. /\ f.slash_n # 2 => NoShort(a)
        /\ f.slash_n = 2 /\ r.ret = 1 => HeadSaid(a, r.headers)
    BY <2>2, <2>3, <2>5, <2>8, FoundSays, Zenon
  <2>10. f.slash_n = 2 => r.ret \in {1, 400}
    <3>1. PICK h : h = SubSeq(a, 1, f.end)
      OBVIOUS
    <3>2. AnswersWith(Parse(h, body), body)
      BY ParseKeepsBody, Zenon
    <3> QED BY <2>5, <3>1, <3>2, Zenon DEF AnswersWith
  <2>11. CASE f.slash_n = 2
    <3>1. ret' \notin {0, 413}
      BY <2>7, <2>10, <2>11
    <3>2. HeadersAreTheLines'
      BY <2>7, <2>9, <2>11, PropertyIsNext, Zenon
    <3> QED BY <3>1, <3>2 DEF HeadInv, NoShortYet
  <2>12. CASE f.slash_n # 2
    <3>1. ret' = 0
      BY <2>7, <2>12
    <3>2. HeadersAreTheLines'
      BY <3>1, PropertyIsNext
    <3> QED BY <2>7, <2>9, <2>12, <3>2 DEF HeadInv, NoShortYet
  <2> QED BY <2>11, <2>12
<1> QED BY <1>4, <1>5
LEMMA HeadCreate ==
    ASSUME RoomInv, NEW n \in Sizes, Create(n) PROVE HeadInv'
<1>1. ret = New /\ data = <<>> /\ data' = data /\ ret' \in {0, Thrown}
  BY DEF Create, RoomInv
<1>2. NoShort(data')
  <2>1. 1 .. Len(data') = {}
    BY <1>1
  <2> QED BY <2>1 DEF NoShort
<1>3. HeadersAreTheLines'
  <2>1. ret' # 1
    BY <1>1 DEF Thrown
  <2> QED BY <2>1, PropertyIsNext
<1> QED BY <1>2, <1>3 DEF HeadInv, NoShortYet
LEMMA HeadNext == ASSUME EndInv, RoomInv, HeadInv, [Next]_vars PROVE HeadInv'
<1>1. CASE \E n \in Sizes : Create(n)
  BY <1>1, HeadCreate
<1>2. CASE \E n \in 1 .. Len(stream) : BufAppend(n)
  BY <1>2, HeadStep
<1>3. CASE UNCHANGED vars
  <2>1. ret' = ret /\ data' = data /\ headers' = headers
    BY <1>3 DEF vars
  <2>2. HeadersAreTheLines'
    BY <2>1, PropertyIs, PropertyIsNext DEF HeadInv
  <2> QED BY <2>1, <2>2 DEF HeadInv, NoShortYet
<1> QED BY <1>1, <1>2, <1>3 DEF Next

\* Whatever the stream and the pieces: of a request that is accepted, the headers
\* are those its lines say, each name once in lower case with the values of all its
\* lines in their order and commas in between.
THEOREM HeadersAreTheLinesTheorem == Spec => []HeadersAreTheLines
<1>1. Init => EndInv /\ RoomInv
  BY EndInit
<1>2. EndInv /\ RoomInv /\ [Next]_vars => EndInv' /\ RoomInv'
  BY EndNext
<1>3. Init => HeadInv
  <2> SUFFICES ASSUME Init PROVE HeadInv
    OBVIOUS
  <2>1. ret = New
    BY DEF Init
  <2> QED BY <2>1, PropertyIs DEF HeadInv, NoShortYet, New
<1>4. EndInv /\ RoomInv /\ HeadInv /\ [Next]_vars => HeadInv'
  BY HeadNext
<1>5. HeadInv => HeadersAreTheLines
  BY DEF HeadInv
<1> QED BY <1>1, <1>2, <1>3, <1>4, <1>5, PTL DEF Spec

-----------------------------------------------------------------------------
(* The two header parsers *)

\* One step of get_next_header().
HeaderAt(s, c) == [name |-> Lowercase(SubSeq(s, 1, c - 1)), value |-> HeaderValue(s, c)]
OneBefore(c, r) == [parsed |-> r.parsed, pairs |-> <<c>> \o r.pairs]
EndedAt(k) == [parsed |-> k, pairs |-> <<>>]
NextFrom(s, N, p) ==
    IF p > Len(s) THEN EndedAt(p - 1)
    ELSE CASE s[p] = LF -> EndedAt(p)
           [] s[p] = COLON -> OneBefore(HeaderAt(s, p), N[FirstOf(s, p + 1, {CR}) + 1])
           [] OTHER -> N[p + 1]
NextTable(s, N) == N = [p \in 1 .. Len(s) + 2 |-> NextFrom(s, N, p)]
LEMMA NextIsChoice == ASSUME NEW s PROVE NextHeader(s) = (CHOOSE N : NextTable(s, N))[1]
BY DEF NextHeader, NextTable, NextFrom, OneBefore, EndedAt, HeaderAt

\* It ends, or has a header before what comes next, or goes on.
NextSays(s, n, N, p, r) ==
    /\ p > n => r = EndedAt(p - 1)
    /\ p <= n /\ s[p] = LF => r = EndedAt(p)
    /\ p <= n /\ s[p] = COLON => r = OneBefore(HeaderAt(s, p), N[FirstOf(s, p + 1, {CR}) + 1])
    /\ p <= n /\ s[p] # LF /\ s[p] # COLON => r = N[p + 1]
LEMMA NextStep ==
    ASSUME NEW s, NEW n \in Nat, n = Len(s), NEW p \in Nat, NEW N
    PROVE  NextSays(s, n, N, p, NextFrom(s, N, p))
<1>1. LF # COLON
  BY DEF LF, COLON
<1>2. p <= n => ~ (p > n)
  OBVIOUS
<1> QED BY <1>1, <1>2, Zenon DEF NextFrom, NextSays

\* So each entry is a count and headers,
Nexts(A) == [parsed : Nat, pairs : Seq(A)]
HeadersOf(s, n, A) == \A c \in 1 .. n : HeaderAt(s, c) \in A
BehindIn(f, p, d, V) == \A q \in p + 1 .. d : f[q] \in V
LEMMA NextMaps ==
    ASSUME NEW s \in Seq(Byte), NEW n \in Nat, n = Len(s), NEW A, HeadersOf(s, n, A),
           NEW d \in Nat, d = n + 2, NEW p \in 1 .. d, NEW f, BehindIn(f, p, d, Nexts(A))
    PROVE  NextFrom(s, f, p) \in Nexts(A)
<1> DEFINE r == NextFrom(s, f, p)
<1>7. \A q \in p + 1 .. d : f[q] \in Nexts(A)
  BY Zenon DEF BehindIn
<1>0. NextSays(s, n, f, p, r)
  <2>1. p \in Nat
    OBVIOUS
  <2> QED BY <2>1, NextStep, Zenon
<1> HIDE DEF r
<1> SUFFICES r \in Nexts(A)
  BY DEF r
<1>1. ASSUME NEW k \in Nat PROVE EndedAt(k) \in Nexts(A)
  <2>1. <<>> \in Seq(A)
    OBVIOUS
  <2> QED BY <2>1 DEF EndedAt, Nexts
<1>2. p - 1 \in Nat /\ p \in Nat
  OBVIOUS
<1>3. CASE p > n
  BY <1>1, <1>2, <1>3, <1>0, Zenon DEF NextSays
<1>4. CASE p <= n /\ s[p] = LF
  BY <1>1, <1>2, <1>4, <1>0, Zenon DEF NextSays
<1>5. CASE p <= n /\ s[p] = COLON
  <2>1. PICK g \in p + 1 .. n + 1 : g = FirstOf(s, p + 1, {CR})
    <3>1. p + 1 \in 1 .. n + 1
      BY <1>5
    <3> QED BY <3>1, FirstOfIn
  <2>2. PICK q \in p + 1 .. d : q = FirstOf(s, p + 1, {CR}) + 1
    <3>1. g + 1 \in p + 1 .. d
      OBVIOUS
    <3> QED BY <2>1, <3>1, Zenon
  <2>3. PICK e \in Nexts(A), c \in A : e = f[q] /\ c = HeaderAt(s, p)
    <3>1. p \in 1 .. n
      BY <1>5
    <3> QED BY <1>7, <3>1, Zenon DEF HeadersOf
  <2>4. r = OneBefore(c, e)
    BY <1>5, <2>2, <2>3, <1>0, Zenon DEF NextSays
  <2>5. PICK u \in Seq(A) : u = e.pairs
    BY DEF Nexts
  <2>6. <<c>> \o u \in Seq(A) /\ e.parsed \in Nat
    <3>1. PICK l \in Nat : l = Len(u)
      OBVIOUS
    <3> QED BY <3>1, ConsIs DEF Nexts
  <2> QED BY <2>4, <2>5, <2>6 DEF OneBefore, Nexts
<1>6. CASE p <= n /\ s[p] # LF /\ s[p] # COLON
  <2>1. p + 1 \in p + 1 .. d
    BY <1>6
  <2> QED BY <1>0, <1>6, <1>7, <2>1, Zenon DEF NextSays
<1> QED BY <1>3, <1>4, <1>5, <1>6

\* the same when the table is, behind.
SameNext(s, f, g, p) == NextFrom(s, f, p) = NextFrom(s, g, p)
BehindAgree(f, g, p, d) == \A q \in p + 1 .. d : f[q] = g[q]
LEMMA NextAhead ==
    ASSUME NEW s \in Seq(Byte), NEW n \in Nat, n = Len(s), NEW d \in Nat, d = n + 2,
           NEW p \in 1 .. d, NEW f, NEW g, BehindAgree(f, g, p, d)
    PROVE  SameNext(s, f, g, p)
<1>0. PICK r, t : /\ r = NextFrom(s, f, p) /\ t = NextFrom(s, g, p)
                  /\ NextSays(s, n, f, p, r) /\ NextSays(s, n, g, p, t)
  <2>1. p \in Nat
    OBVIOUS
  <2> QED BY <2>1, NextStep, Zenon
<1>1. CASE p > n
  BY <1>0, <1>1, Zenon DEF NextSays, SameNext
<1>2. CASE p <= n
  <2>1. p + 1 \in 1 .. n + 1 /\ p + 1 \in p + 1 .. d
    BY <1>2
  <2>0. PICK o \in 1 .. n + 1 : o = p + 1
    BY <2>1
  <2>2. PICK e \in o .. n + 1 : e = FirstOf(s, p + 1, {CR})
    BY <2>0, FirstOfIs
  <2>3. PICK q \in p + 1 .. d : q = FirstOf(s, p + 1, {CR}) + 1
    <3>1. e + 1 \in p + 1 .. d
      BY <2>0
    <3> QED BY <2>2, <3>1, Zenon
  <2>4. f[q] = g[q] /\ f[p + 1] = g[p + 1]
    BY <2>1, Zenon DEF BehindAgree
  <2> QED BY <1>0, <1>2, <2>3, <2>4, Zenon DEF NextSays, SameNext
<1> QED BY <1>1, <1>2

\* The table exists.
NextWell(s, n, A, N) ==
    /\ NextHeader(s) = N[1]
    /\ \A p \in 1 .. n + 2 : N[p] = NextFrom(s, N, p) /\ N[p] \in Nexts(A)
LEMMA NextExists ==
    ASSUME NEW s \in Seq(Byte), NEW n \in Nat, n = Len(s), NEW A, HeadersOf(s, n, A)
    PROVE  \E N : NextWell(s, n, A, N)
<1>0. PICK d \in Nat : d = n + 2
  <2>1. n + 2 \in Nat
    OBVIOUS
  <2> QED BY <2>1, Zenon
<1>1. PICK V, F : d = n + 2 /\ V = Nexts(A) /\ F = [1 .. d -> V]
  BY <1>0, Zenon
<1>2. PICK R : R = [p \in 1 .. d |-> [f \in F |-> NextFrom(s, f, p)]]
  OBVIOUS
<1>3. \A p \in 1 .. d, f \in F : R[p][f] = NextFrom(s, f, p)
  BY <1>2
<1>4. ASSUME NEW p \in 1 .. d, NEW f \in F PROVE NextFrom(s, f, p) \in V
  <2>1. \A q \in p + 1 .. d : q \in 1 .. d
    OBVIOUS
  <2>2. \A q \in p + 1 .. d : f[q] \in V
    BY <1>1, <2>1
  <2>3. BehindIn(f, p, d, Nexts(A))
    BY <1>1, <2>2, Zenon DEF BehindIn
  <2> QED BY <1>0, <1>1, <2>3, NextMaps, Zenon
<1>5. LaterOnly(R, d, V)
  <2>1. R \in [1 .. d -> [F -> V]]
    BY <1>2, <1>4
  <2>2. V # {}
    <3>1. 0 \in Nat /\ <<>> \in Seq(A)
      OBVIOUS
    <3>2. [parsed |-> 0, pairs |-> <<>>] \in Nexts(A)
      BY <3>1 DEF Nexts
    <3> QED BY <1>1, <3>2, Zenon
  <2>3. ReadsBehind(R, d, 1 .. d, F)
    <3> SUFFICES ASSUME NEW p \in 1 .. d, NEW f \in F, NEW g \in F, \A z \in p + 1 .. d : f[z] = g[z]
                 PROVE  R[p][f] = R[p][g]
      BY Zenon DEF ReadsBehind
    <3>1. NextFrom(s, f, p) = NextFrom(s, g, p)
      <4>1. BehindAgree(f, g, p, d)
        BY Zenon DEF BehindAgree
      <4>2. SameNext(s, f, g, p)
        BY <1>0, <4>1, NextAhead, Zenon
      <4> QED BY <4>2, Zenon DEF SameNext
    <3> QED BY <1>3, <3>1, Zenon
  <2> QED BY <1>1, <2>1, <2>2, <2>3, Zenon DEF LaterOnly
<1>6. PICK D : D \in F /\ \A p \in 1 .. d : D[p] = R[p][D]
  <2>1. PICK D : FilledBy(D, R, d, V)
    BY <1>5, TableExists, Zenon
  <2> QED BY <1>1, <2>1, Zenon DEF FilledBy
<1>7. NextTable(s, D)
  <2>1. \A p \in 1 .. d : D[p] = NextFrom(s, D, p)
    BY <1>3, <1>6, Zenon
  <2>2. D = [p \in 1 .. d |-> NextFrom(s, D, p)]
    BY <1>1, <1>6, <2>1
  <2> QED BY <1>1, <2>2, Zenon DEF NextTable
<1>8. PICK N : NextTable(s, N) /\ NextHeader(s) = N[1]
  BY <1>7, NextIsChoice, Zenon
<1>9. \A p \in 1 .. d : N[p] = NextFrom(s, N, p)
  <2>1. PICK G2 : G2 = [p \in 1 .. d |-> NextFrom(s, N, p)]
    OBVIOUS
  <2>2. \A p \in 1 .. d : G2[p] = NextFrom(s, N, p)
    BY <2>1
  <2> QED BY <1>1, <1>8, <2>1, <2>2, Zenon DEF NextTable
<1>10. \A p \in 1 .. d : N[p] \in V
  <2> DEFINE Bad == {p \in 1 .. d : N[p] \notin V}
  <2> SUFFICES ASSUME Bad # {} PROVE FALSE
    OBVIOUS
  <2>1. Bad \in SUBSET (1 .. d)
    OBVIOUS
  <2>2. \A p \in 1 .. d : p \notin Bad => N[p] \in V
    OBVIOUS
  <2>3. \A p \in Bad : N[p] \notin V
    OBVIOUS
  <2> HIDE DEF Bad
  <2>4. PICK p \in Bad : \A q \in p + 1 .. d : q \notin Bad
    BY <2>1, FromTheEnd
  <2>5. p \in 1 .. d /\ \A q \in p + 1 .. d : q \in 1 .. d
    BY <2>1
  <2>6. BehindIn(N, p, d, V)
    BY <2>2, <2>4, <2>5, Zenon DEF BehindIn
  <2>7. N[p] \in V
    BY <1>0, <1>1, <1>9, <2>5, <2>6, NextMaps, Zenon
  <2> QED BY <2>3, <2>7, Zenon
<1> QED BY <1>1, <1>8, <1>9, <1>10, Zenon DEF NextWell

\* What is read ends in the text or just behind it, and something is read.
ReadsOn(k, n, p) == k \in Nat /\ k >= p - 1 /\ k <= n + 1 /\ (p <= n => k >= p)
LEMMA NextReads ==
    ASSUME NEW s \in Seq(Byte), NEW n \in Nat, n = Len(s), NEW A, NEW N, NextWell(s, n, A, N),
           NEW p \in 1 .. n + 2
    PROVE  ReadsOn(N[p].parsed, n, p)
<1>1. \A z \in 1 .. n + 2 : N[z] = NextFrom(s, N, z) /\ N[z] \in Nexts(A)
  BY Zenon DEF NextWell
<1>2. PICK d \in Nat : d = n + 2
  <2>1. n + 2 \in Nat
    OBVIOUS
  <2> QED BY <2>1, Zenon
<1>3. PICK k : k = [z \in 1 .. d |-> N[z].parsed]
  OBVIOUS
<1>4. \A z \in 1 .. d : k[z] = N[z].parsed /\ k[z] \in Nat
  BY <1>1, <1>2, <1>3 DEF Nexts
<1>5. ASSUME NEW z \in 1 .. d, \A y \in z + 1 .. d : ReadsOn(k[y], n, y) PROVE ReadsOn(k[z], n, z)
  <2>0. NextSays(s, n, N, z, N[z])
    <3>1. z \in Nat /\ z \in 1 .. n + 2
      BY <1>2
    <3>2. NextSays(s, n, N, z, NextFrom(s, N, z))
      BY <3>1, NextStep, Zenon
    <3> QED BY <1>1, <3>1, <3>2, Zenon
  <2>1. \A y : EndedAt(y).parsed = y
    BY DEF EndedAt
  <2>2. CASE z > n
    <3>1. k[z] = z - 1
      BY <1>4, <2>0, <2>1, <2>2, Zenon DEF NextSays
    <3> QED BY <1>2, <2>2, <3>1 DEF ReadsOn
  <2>3. CASE z <= n /\ s[z] = LF
    <3>1. k[z] = z
      BY <1>4, <2>0, <2>1, <2>3, Zenon DEF NextSays
    <3> QED BY <1>2, <2>3, <3>1 DEF ReadsOn
  <2>4. CASE z <= n /\ s[z] = COLON
    <3>1. PICK g \in z + 1 .. n + 1 : g = FirstOf(s, z + 1, {CR})
      <4>1. z + 1 \in 1 .. n + 1
        BY <2>4
      <4> QED BY <4>1, FirstOfIs
    <3>2. PICK q \in z + 1 .. d : q = FirstOf(s, z + 1, {CR}) + 1 /\ q >= z + 2 /\ q \in 1 .. d
      <4>1. g + 1 \in z + 1 .. d /\ g + 1 >= z + 2 /\ g + 1 \in 1 .. d
        BY <1>2
      <4> QED BY <3>1, <4>1, Zenon
    <3>3. PICK c, r : N[z] = OneBefore(c, r) /\ r = N[q]
      BY <2>0, <2>4, <3>2, Zenon DEF NextSays
    <3>4. k[z] = k[q]
      <4>1. N[z].parsed = r.parsed
        BY <3>3 DEF OneBefore
      <4> QED BY <1>4, <3>2, <3>3, <4>1, Zenon
    <3>5. ReadsOn(k[q], n, q)
      BY <1>5
    <3> QED BY <1>2, <1>4, <3>2, <3>4, <3>5 DEF ReadsOn
  <2>5. CASE z <= n /\ s[z] # LF /\ s[z] # COLON
    <3>1. PICK q \in z + 1 .. d : q = z + 1 /\ q \in 1 .. d
      <4>1. z + 1 \in z + 1 .. d /\ z + 1 \in 1 .. d
        BY <1>2, <2>5
      <4> QED BY <4>1
    <3>2. k[z] = k[q]
      BY <1>4, <2>0, <2>5, <3>1, Zenon DEF NextSays
    <3>3. ReadsOn(k[q], n, q)
      BY <1>5
    <3> QED BY <1>2, <1>4, <3>1, <3>2, <3>3 DEF ReadsOn
  <2> QED BY <2>2, <2>3, <2>4, <2>5
<1>6. \A z \in 1 .. d : ReadsOn(k[z], n, z)
  <2> DEFINE Bad == {z \in 1 .. d : ~ ReadsOn(k[z], n, z)}
  <2> SUFFICES ASSUME Bad # {} PROVE FALSE
    OBVIOUS
  <2>1. Bad \in SUBSET (1 .. d)
    OBVIOUS
  <2>2. \A z \in 1 .. d : z \notin Bad => ReadsOn(k[z], n, z)
    OBVIOUS
  <2>3. \A z \in Bad : ~ ReadsOn(k[z], n, z)
    OBVIOUS
  <2> HIDE DEF Bad
  <2>4. PICK z \in Bad : \A y \in z + 1 .. d : y \notin Bad
    BY <2>1, FromTheEnd
  <2>5. z \in 1 .. d /\ \A y \in z + 1 .. d : y \in 1 .. d
    BY <2>1
  <2>6. \A y \in z + 1 .. d : ReadsOn(k[y], n, y)
    BY <2>2, <2>4, <2>5, Zenon
  <2>7. ReadsOn(k[z], n, z)
    BY <1>5, <2>5, <2>6, Zenon
  <2> QED BY <2>3, <2>7, Zenon
<1> QED BY <1>2, <1>4, <1>6, Zenon

\* Of a text that begins with a header, and CR LF behind it, it finds that header and
\* reads it up to the LF.
HeaderRead(s, l, z) ==
    NextHeader(s) = [parsed |-> z + 2, pairs |-> <<[name |-> NameOf(l), value |-> ValueOf(l)]>>]
LEMMA NextLine ==
    ASSUME NEW s \in Seq(Byte), NEW n \in Nat, n = Len(s), NEW l, NEW z, NEW k, NEW u,
           LineShape(l, z, k, u), Carries(s, n, 0, l, z), z + 2 <= n, s[z + 1] = CR, s[z + 2] = LF
    PROVE  HeaderRead(s, l, z)
<1>1. /\ l \in Seq(Byte) /\ z \in Nat /\ z = Len(l) /\ k \in 1 .. z /\ l[k] = COLON
      /\ k = FirstOf(l, 1, {COLON}) /\ u = FirstOf(l, k + 1, Byte \ {SP})
      /\ (\A j \in 1 .. k - 1 : l[j] # COLON) /\ u \in k + 1 .. z + 1
      /\ \A j \in 1 .. z : l[j] \in Byte \ {CR, LF}
  BY Zenon DEF LineShape
<1>2. \A j \in 1 .. z : s[j] = l[j]
  <2>1. \A j \in 1 .. z : 0 + j = j
    OBVIOUS
  <2> QED BY <2>1, Zenon DEF Carries
<1>3. LineFound(s, 0, l, z, k, u)
  BY LineIsFound, Zenon
<1>4. PICK A, N : HeadersOf(s, n, A) /\ NextWell(s, n, A, N)
  <2>1. PICK A : A = {HeaderAt(s, c) : c \in 1 .. n}
    OBVIOUS
  <2>2. HeadersOf(s, n, A)
    BY <2>1 DEF HeadersOf
  <2> QED BY <2>2, NextExists, Zenon
<1>5. \A p \in 1 .. n + 2 : NextSays(s, n, N, p, N[p])
  <2> TAKE p \in 1 .. n + 2
  <2>1. p \in Nat
    OBVIOUS
  <2>2. NextSays(s, n, N, p, NextFrom(s, N, p))
    BY <2>1, NextStep, Zenon
  <2> QED BY <1>4, <2>2, Zenon DEF NextWell
<1>6. N[1] = N[k]
  <2> DEFINE Bad == {j \in 0 .. k - 1 : N[j + 1] # N[1]}
  <2>1. 0 \notin Bad
    OBVIOUS
  <2>2. PICK m \in Nat : m = k - 1
    BY <1>1
  <2>3. ASSUME NEW j \in 0 .. m, j < m, j \notin Bad PROVE j + 1 \notin Bad
    <3>1. PICK i \in 1 .. n + 2 : i = j + 1 /\ i <= n /\ i \in 1 .. z /\ i \in 1 .. k - 1
      <4>1. j + 1 \in 1 .. n + 2 /\ j + 1 <= n /\ j + 1 \in 1 .. z /\ j + 1 \in 1 .. k - 1
        BY <1>1, <2>2, <2>3
      <4> QED BY <4>1, Zenon
    <3>2. s[i] # LF /\ s[i] # COLON
      <4>1. s[i] = l[i] /\ l[i] \in Byte \ {CR, LF} /\ l[i] # COLON
        BY <1>1, <1>2, <3>1, Zenon
      <4> QED BY <4>1
    <3>3. N[i] = N[i + 1]
      BY <1>5, <3>1, <3>2, Zenon DEF NextSays
    <3>4. N[i] = N[1]
      BY <2>2, <2>3, <3>1
    <3>5. N[(j + 1) + 1] = N[1]
      BY <3>1, <3>3, <3>4, Zenon
    <3> QED BY <3>5
  <2>4. Bad \in SUBSET (0 .. m)
    BY <2>2
  <2>5. Bad = {}
    <3> HIDE DEF Bad
    <3> QED BY <2>1, <2>3, <2>4, FromTheStart, Zenon
  <2>6. k - 1 \in 0 .. k - 1 /\ (k - 1) + 1 = k
    BY <1>1
  <2>7. N[(k - 1) + 1] = N[1]
    BY <2>5, <2>6
  <2> QED BY <2>6, <2>7, Zenon
<1>7. PICK e \in 1 .. n + 1, q \in 1 .. n + 2 : e = z + 1 /\ q = z + 2 /\ q = e + 1 /\ q <= n /\ e <= n
  <2>1. z + 1 \in 1 .. n + 1 /\ z + 2 \in 1 .. n + 2 /\ z + 2 = (z + 1) + 1 /\ z + 1 <= n
    BY <1>1
  <2> QED BY <2>1, Zenon
<1>8. FirstOf(s, k + 1, {CR}) = e
  <2>0. PICK C : C = {CR}
    OBVIOUS
  <2>1. PICK o \in 1 .. n + 1 : o = k + 1 /\ e \in o .. n + 1 /\ C = {CR}
    <3>1. k + 1 \in 1 .. n + 1 /\ e \in k + 1 .. n + 1
      BY <1>1, <1>7
    <3> QED BY <2>0, <3>1, Zenon
  <2>2. \A i \in o .. e - 1 : s[i] \notin C
    <3> TAKE i \in o .. e - 1
    <3>1. i \in 1 .. z
      BY <1>1, <1>7, <2>1
    <3>2. s[i] \in Byte \ {CR, LF}
      BY <1>1, <1>2, <3>1, Zenon
    <3> QED BY <2>1, <3>2
  <2>3. s[e] \in C
    BY <1>7, <2>1
  <2>4. FoundAt(Byte, s, n, o, C, e)
    BY <2>1, <2>2, <2>3, Zenon DEF FoundAt
  <2> QED BY <2>1, <2>4, FoundIs, Zenon
<1>9. N[q] = EndedAt(q)
  <2>1. s[q] = LF
    BY <1>7
  <2> QED BY <1>5, <1>7, <2>1, Zenon DEF NextSays
<1>10. N[k] = OneBefore(HeaderAt(s, k), EndedAt(q))
  <2>1. k \in 1 .. n + 2 /\ k <= n
    BY <1>1
  <2>2. s[k] = COLON
    BY <1>1, <1>2, Zenon
  <2>3. N[k] = OneBefore(HeaderAt(s, k), N[e + 1])
    BY <1>5, <1>8, <2>1, <2>2, Zenon DEF NextSays
  <2> QED BY <1>7, <1>9, <2>3, Zenon
<1>11. HeaderAt(s, k) = [name |-> NameOf(l), value |-> ValueOf(l)]
  <2>0. PICK o : o = 0 /\ o + 1 = 1 /\ o + k - 1 = k - 1 /\ o + k + 1 = k + 1 /\ o + u = u /\ o + z = z
    <3>1. 0 + 1 = 1 /\ 0 + k - 1 = k - 1 /\ 0 + k + 1 = k + 1 /\ 0 + u = u /\ 0 + z = z
      BY <1>1
    <3> QED BY <3>1, Zenon
  <2>1. SubSeq(s, o + 1, o + k - 1) = SubSeq(l, 1, k - 1)
    BY <1>3, <2>0, Zenon DEF LineFound
  <2>2. FirstOf(s, o + k + 1, Byte \ {SP}) = o + u
    BY <1>3, <2>0, Zenon DEF LineFound
  <2>3. SubSeq(s, o + u, o + z) = SubSeq(l, u, z)
    BY <1>3, <2>0, Zenon DEF LineFound
  <2>4. e - 1 = z
    BY <1>1, <1>7
  <2>5. HeaderValue(s, k) = SubSeq(s, u, z)
    BY <1>8, <2>0, <2>2, <2>4, Zenon DEF HeaderValue
  <2>6. HeaderValue(s, k) = ValueOf(l)
    BY <1>1, <2>0, <2>3, <2>5, Zenon DEF ValueOf
  <2>7. Lowercase(SubSeq(s, 1, k - 1)) = NameOf(l)
    BY <1>1, <2>0, <2>1, Zenon DEF NameOf
  <2> QED BY <2>6, <2>7, Zenon DEF HeaderAt
<1>12. NextHeader(s) = N[k]
  BY <1>4, <1>6, Zenon DEF NextWell
<1>13. PICK c : c = [name |-> NameOf(l), value |-> ValueOf(l)]
  OBVIOUS
<1>14. N[k] = OneBefore(c, EndedAt(q))
  BY <1>10, <1>11, <1>13, Zenon
<1>15. <<c>> \o <<>> = <<c>>
  <2>1. \E T : c \in T
    <3>1. c \in {c}
      OBVIOUS
    <3> QED BY <3>1
  <2> QED BY <2>1
<1>16. OneBefore(c, EndedAt(q)) = [parsed |-> q, pairs |-> <<c>>]
  BY <1>15 DEF OneBefore, EndedAt
<1> QED BY <1>7, <1>12, <1>13, <1>14, <1>16, Zenon DEF HeaderRead

\* parse_headers(), as a choice of what it finds from each position on.
NextAt(s, p) == NextHeader(SubSeq(s, p, Len(s)))
ParseFrom(s, H, p) ==
    IF p > Len(s) THEN <<>> ELSE NextAt(s, p).pairs \o H[p + NextAt(s, p).parsed]
ParseTable(s, H) == H = [p \in 1 .. Len(s) + 2 |-> ParseFrom(s, H, p)]
LEMMA ParseIsChoice ==
    ASSUME NEW s PROVE ParseHeaders(s) = JoinedLast((CHOOSE H : ParseTable(s, H))[1])
BY DEF ParseHeaders, ParseTable, ParseFrom, NextAt

\* The text from a position on.
RestAt(s, n, p, t, z) ==
    /\ t = SubSeq(s, p, n) /\ t \in Seq(Byte) /\ z \in Nat /\ z = Len(t) /\ p + z = n + 1
    /\ \A j \in 1 .. z : t[j] = s[p - 1 + j]
LEMMA RestAtHas ==
    ASSUME NEW s \in Seq(Byte), NEW n \in Nat, n = Len(s), NEW p \in 1 .. n
    PROVE  \E t, z : RestAt(s, n, p, t, z)
<1>1. PICK o \in Nat : o = p - 1
  <2>1. p - 1 \in Nat
    OBVIOUS
  <2> QED BY <2>1, Zenon
<1>2. PICK z \in Nat : z = n - o
  <2>1. n - o \in Nat
    BY <1>1
  <2> QED BY <2>1, Zenon
<1>3. o + z <= Len(s) /\ o + 1 = p /\ o + z = n /\ p + z = n + 1
  BY <1>1, <1>2
<1>4. PICK t \in Seq(Byte) : PartSays(s, o, z, t)
  BY <1>3, PartHas, Zenon
<1>5. RestAt(s, n, p, t, z)
  BY <1>1, <1>3, <1>4, Zenon DEF PartSays, RestAt
<1> QED BY <1>5

\* What it finds.
ParseSaysAt(s, n, H, A, p) ==
    /\ H[p] \in Seq(A)
    /\ p > n => H[p] = <<>>
    /\ p <= n => H[p] = NextAt(s, p).pairs \o H[p + NextAt(s, p).parsed]
ParseTells(s, n, H, A) == \A p \in 1 .. n + 2 : ParseSaysAt(s, n, H, A, p)
LEMMA ParseTableSays ==
    ASSUME NEW s \in Seq(Byte), NEW n \in Nat, n = Len(s)
    PROVE  \E H, A : ParseHeaders(s) = JoinedLast(H[1]) /\ ParseTells(s, n, H, A)
<1>1. PICK A : A = UNION {{HeaderAt(SubSeq(s, p, n), c) : c \in 1 .. n} : p \in 1 .. n}
  OBVIOUS
<1>2. ASSUME NEW p \in 1 .. n
      PROVE  NextAt(s, p).pairs \in Seq(A) /\ p + NextAt(s, p).parsed \in p + 1 .. n + 2
  <2>1. PICK t, z : RestAt(s, n, p, t, z)
    BY RestAtHas, Zenon
  <2>2. t = SubSeq(s, p, n) /\ t \in Seq(Byte) /\ z \in Nat /\ z = Len(t) /\ p + z = n + 1
    BY <2>1, Zenon DEF RestAt
  <2>3. HeadersOf(t, z, A)
    <3>1. \A c \in 1 .. z : c \in 1 .. n
      BY <2>2
    <3>2. \A c \in 1 .. n : HeaderAt(t, c) \in A
      BY <1>1, <2>2
    <3> QED BY <3>1, <3>2, Zenon DEF HeadersOf
  <2>4. PICK N : NextWell(t, z, A, N)
    BY <2>2, <2>3, NextExists, Zenon
  <2>5. z >= 1 /\ 1 \in 1 .. z + 2
    BY <2>2
  <2>6. PICK k : k = N[1].parsed /\ ReadsOn(k, z, 1)
    BY <2>2, <2>4, <2>5, NextReads, Zenon
  <2>7. NextAt(s, p) = N[1] /\ N[1] \in Nexts(A)
    BY <2>2, <2>4, <2>5, Zenon DEF NextWell, NextAt
  <2>8. N[1].pairs \in Seq(A)
    BY <2>7 DEF Nexts
  <2>9. k \in 1 .. z + 1
    BY <2>2, <2>5, <2>6 DEF ReadsOn
  <2>10. p + k \in p + 1 .. n + 2
    BY <2>2, <2>9
  <2> QED BY <2>6, <2>7, <2>8, <2>10, Zenon
<1>3. PICK d \in Nat : d = n + 2
  <2>1. n + 2 \in Nat
    OBVIOUS
  <2> QED BY <2>1, Zenon
<1>4. PICK live : live = 1 .. n
  OBVIOUS
<1>5. PICK v : v = [p \in live |-> NextAt(s, p).pairs]
  OBVIOUS
<1>6. PICK q : q = [p \in live |-> p + NextAt(s, p).parsed]
  OBVIOUS
<1>7. \A p \in live : v[p] = NextAt(s, p).pairs /\ q[p] = p + NextAt(s, p).parsed
  BY <1>5, <1>6
<1>8. Links(d, live, A, v, q)
  <2>1. live \subseteq 1 .. d
    BY <1>3, <1>4
  <2> QED BY <1>2, <1>3, <1>4, <1>7, <2>1, Zenon DEF Links
<1>9. \A p \in 1 .. d : p \in live <=> ~ (p > n)
  BY <1>3, <1>4
<1>10. ASSUME NEW H, NEW p \in 1 .. d PROVE ParseFrom(s, H, p) = LinkFrom(H, live, v, q, p)
  BY <1>7, <1>9, Zenon DEF ParseFrom, LinkFrom
<1>11. ASSUME NEW H PROVE ParseTable(s, H) <=> ChainTable(H, d, live, v, q)
  <2>1. PICK F : F = [p \in 1 .. d |-> ParseFrom(s, H, p)]
    OBVIOUS
  <2>2. PICK F2 : F2 = [p \in 1 .. d |-> LinkFrom(H, live, v, q, p)]
    OBVIOUS
  <2>3. F = F2
    BY <1>10, <2>1, <2>2
  <2> QED BY <1>3, <2>1, <2>2, <2>3, Zenon DEF ParseTable, ChainTable
<1>12. PICK H : H = CHOOSE R : ParseTable(s, R)
  OBVIOUS
<1>13. ChainTable(H, d, live, v, q)
  <2>1. \E R : ParseTable(s, R)
    BY <1>8, <1>11, ChainExists, Zenon
  <2>2. ParseTable(s, H)
    BY <1>12, <2>1, Zenon
  <2> QED BY <1>11, <2>2, Zenon
<1>14. ChainSays(H, d, live, A, v, q)
  BY <1>8, <1>13, ChainIs, Zenon
<1>15. ASSUME NEW p \in 1 .. d PROVE ParseSaysAt(s, n, H, A, p)
  <2>1. p \in live <=> p <= n
    BY <1>3, <1>4
  <2>2. p \in live <=> ~ (p > n)
    BY <1>9
  <2> QED BY <1>7, <1>14, <2>1, <2>2, Zenon DEF ChainSays, ParseSaysAt
<1> QED BY <1>3, <1>12, <1>15, ParseIsChoice, Zenon DEF ParseTells

\* In a block where CR and LF are found together only, each piece but the last one a
\* header, it finds them.
LineEndsOf(s, n) == \A i \in 1 .. n : s[i] = CR <=> i < n /\ s[i + 1] = LF
HeadersAt(H, S, p) == \A m \in Nat : Heads(S[p], m) /\ Len(S[p]) = m + 1 => Finds(H[p], S[p], m)
ReadsHeader(s, p, e, h) == NextAt(s, p) = [parsed |-> e - p + 1, pairs |-> <<PairOf(h)>>]
LEMMA OneHeader ==
    ASSUME NEW s \in Seq(Byte), NEW n \in Nat, n = Len(s), LineEndsOf(s, n), NEW S, NEW p \in 1 .. n,
           NEW e \in p .. n, NEW h \in Seq(Byte), FirstPiece(s, n, {LF}, S, p, e, h),
           WellFormed(Stripped(h))
    PROVE  ReadsHeader(s, p, e, h)
<1>1. PICK t, y : RestAt(s, n, p, t, y)
  BY RestAtHas, Zenon
<1>2. /\ t = SubSeq(s, p, n) /\ t \in Seq(Byte) /\ y \in Nat /\ y = Len(t) /\ p + y = n + 1
      /\ \A j \in 1 .. y : t[j] = s[p - 1 + j]
  BY <1>1, Zenon DEF RestAt
<1>3. PICK m \in Nat : m = e - p /\ e = p + m /\ m = Len(h) /\ \A j \in 1 .. m : h[j] = s[p - 1 + j]
  <2>1. e - p \in Nat /\ e = p + (e - p)
    OBVIOUS
  <2> QED BY <2>1, Zenon DEF FirstPiece
<1>4. s[e] = LF /\ \A i \in p .. e - 1 : s[i] # LF
  <2>1. e <= n
    OBVIOUS
  <2>2. s[e] \in {LF} /\ \A i \in p .. e - 1 : s[i] \notin {LF}
    BY <2>1, Zenon DEF FirstPiece
  <2> QED BY <2>2
<1>5. m > 0
  <2> SUFFICES ASSUME m = 0 PROVE FALSE
    OBVIOUS
  <2>1. h = <<>>
    BY <1>3, EmptyIs
  <2>2. Stripped(<<>>) = <<>>
    BY Zenon DEF Stripped
  <2>3. Bytes(<<>>) = {}
    BY DEF Bytes
  <2> QED BY <2>1, <2>2, <2>3, Zenon DEF WellFormed
<1>6. h[m] = CR
  <2>1. PICK i \in 1 .. n : i = e - 1 /\ i < n /\ i + 1 = e /\ i = p - 1 + m /\ m \in 1 .. m
    <3>1. e - 1 \in 1 .. n /\ e - 1 < n /\ (e - 1) + 1 = e /\ e - 1 = p - 1 + m /\ m \in 1 .. m
      BY <1>3, <1>5
    <3> QED BY <3>1, Zenon
  <2>2. s[i] = CR
    BY <1>4, <2>1, Zenon DEF LineEndsOf
  <2> QED BY <1>3, <2>1, <2>2, Zenon
<1>7. PICK l \in Seq(Byte), z \in Nat : StrippedSo(h, m, l, z)
  BY <1>3, StrippedIs, Zenon
<1>8. l = Stripped(h) /\ z = Len(l) /\ \A j \in 1 .. z : l[j] = h[j]
  BY <1>7, Zenon DEF StrippedSo
<1>9. m = z + 1
  <2>1. ASSUME z = m PROVE FALSE
    <3>1. DOMAIN l = 1 .. z /\ m \in 1 .. z
      <4>1. DOMAIN l = 1 .. Len(l)
        OBVIOUS
      <4>2. m \in 1 .. m
        BY <1>5
      <4> QED BY <1>8, <2>1, <4>1, <4>2, Zenon
    <3>2. l[m] = CR
      BY <1>6, <1>8, <3>1, Zenon
    <3>3. CR \in Bytes(l)
      BY <3>1, <3>2 DEF Bytes
    <3> QED BY <1>8, <3>3, Zenon DEF WellFormed
  <2> QED BY <1>7, <2>1, Zenon DEF StrippedSo
<1>10. \A j \in 1 .. m : t[j] = h[j] /\ h[j] # LF
  <2> TAKE j \in 1 .. m
  <2>1. PICK i \in p .. e - 1 : i = p - 1 + j /\ j \in 1 .. y
    <3>1. p - 1 + j \in p .. e - 1 /\ j \in 1 .. y
      BY <1>2, <1>3
    <3> QED BY <3>1, Zenon
  <2> QED BY <1>2, <1>3, <1>4, <2>1, Zenon
<1>11. LF \notin Bytes(l)
  <2>1. DOMAIN l = 1 .. z /\ \A j \in 1 .. z : j \in 1 .. m
    BY <1>8, <1>9
  <2>2. \A j \in 1 .. z : l[j] # LF
    BY <1>8, <1>10, <2>1, Zenon
  <2> QED BY <2>1, <2>2 DEF Bytes
<1>12. PICK zz \in Nat, k \in Nat, u \in Nat : LineShape(l, zz, k, u)
  BY <1>8, <1>11, LineShapeIs, Zenon
<1>13. zz = z
  BY <1>8, <1>12, Zenon DEF LineShape
<1>14. /\ z + 2 <= y /\ z + 1 = m /\ p - 1 + (z + 2) = e /\ z + 2 \in 1 .. y /\ z + 2 = e - p + 1
       /\ m \in 1 .. m /\ 0 + z + 1 = m /\ 0 + z + 1 <= y /\ 0 \in Nat
       /\ \A j \in 1 .. z : j \in 1 .. m /\ 0 + j = j
  BY <1>2, <1>3, <1>9
<1>15. t[m] = CR /\ t[z + 2] = LF
  BY <1>2, <1>4, <1>6, <1>10, <1>14, Zenon
<1>16. Carries(t, y, 0, l, z)
  <2>1. \A j \in 1 .. z : t[0 + j] = l[j]
    BY <1>8, <1>10, <1>14, Zenon
  <2>2. t[0 + z + 1] \in {CR, LF}
    BY <1>14, <1>15, Zenon
  <2> QED BY <1>2, <1>14, <2>1, <2>2, Zenon DEF Carries
<1>17. HeaderRead(t, l, z)
  <2>1. LineShape(l, z, k, u) /\ t[z + 1] = CR
    BY <1>12, <1>13, <1>14, <1>15, Zenon
  <2> QED BY <1>2, <1>14, <1>15, <1>16, <2>1, NextLine, Zenon
<1> QED BY <1>2, <1>8, <1>14, <1>17, Zenon DEF NextAt, PairOf, HeaderRead, ReadsHeader

\* A piece of such a text that has no LF behind it is the last.
AtTheEnd(S, p, n, h) == p = n + 1 /\ h = <<>> /\ S[p] = <<h>>
LEMMA LastPiece ==
    ASSUME NEW s \in Seq(Byte), NEW n \in Nat, n = Len(s), s[n] = LF, NEW S, Splits(s, {LF}, S),
           NEW p \in 1 .. n + 1, NEW e \in p .. n + 1, NEW h \in Seq(Byte),
           FirstPiece(s, n, {LF}, S, p, e, h), e > n
    PROVE  AtTheEnd(S, p, n, h)
<1>1. /\ (\A i \in p .. e - 1 : s[i] \notin {LF}) /\ Len(h) = e - p
      /\ S[p] = <<h>>
  BY Zenon DEF FirstPiece
<1>2. n \notin p .. e - 1
  BY <1>1
<1>3. p = n + 1 /\ e = n + 1
  BY <1>2
<1>4. Len(h) = 0
  BY <1>1, <1>3
<1>5. h = <<>>
  BY <1>4, EmptyIs
<1> QED BY <1>1, <1>3, <1>5, Zenon DEF AtTheEnd

\* The header parser, from one line to the next.
HeadersBehind(H, S, p, n) == \A q \in p + 1 .. n + 1 : HeadersAt(H, S, q)
LEMMA HeadersStep ==
    ASSUME NEW s \in Seq(Byte), NEW n \in Nat, n = Len(s), s[n] = LF, LineEndsOf(s, n),
           NEW H, NEW A, ParseTells(s, n, H, A),
           NEW S, Splits(s, {LF}, S), NEW p \in 1 .. n + 1,
           HeadersBehind(H, S, p, n)
    PROVE  HeadersAt(H, S, p)
<1> SUFFICES ASSUME NEW m \in Nat, Heads(S[p], m), Len(S[p]) = m + 1 PROVE Finds(H[p], S[p], m)
  BY Zenon DEF HeadersAt
<1>1. PICK T : T = Seq(Byte)
  OBVIOUS
<1>2. \A q \in 1 .. n + 1 : S[q] \in Seq(T)
  BY <1>1, PiecesAre, Zenon DEF Pieces
<1>3. PICK e \in p .. n + 1, h \in Seq(Byte) : FirstPiece(s, n, {LF}, S, p, e, h)
  BY PieceAndRest
<1>4. CASE e > n
  <2>9. FirstPiece(s, n, {LF}, S, p, e, h) /\ e > n
    BY <1>3, <1>4
  <2>8. AtTheEnd(S, p, n, h)
    BY <2>9, LastPiece
  <2>1. p = n + 1 /\ S[p] = <<h>>
    BY <2>8, Zenon DEF AtTheEnd
  <2>2. Len(<<h>>) = 1
    OBVIOUS
  <2>3. m = 0 /\ p > n /\ p \in 1 .. n + 2
    <3>1. m + 1 = 1
      BY <2>1, <2>2
    <3> QED BY <2>1, <3>1
  <2>4. H[p] = <<>>
    BY <2>3, Zenon DEF ParseSaysAt, ParseTells
  <2>5. Len(<<>>) = 0 /\ \A k : k \notin 1 .. 0
    OBVIOUS
  <2> QED BY <2>3, <2>4, <2>5, Zenon DEF Finds
<1>5. CASE ~ (e > n)
  <2>1. e \in p .. n /\ p \in 1 .. n /\ e <= n /\ e + 1 \in p + 1 .. n + 1 /\ e + 1 \in 1 .. n + 1
        /\ p \in 1 .. n + 2 /\ p <= n /\ e + 1 \in 1 .. n + 2 /\ p + (e - p + 1) = e + 1
    BY <1>5
  <2>2. S[p] = <<h>> \o S[e + 1]
    BY <1>3, <2>1, Zenon DEF FirstPiece
  <2>3. PICK r \in Seq(T) : r = S[e + 1]
    BY <1>2, <2>1, Zenon
  <2>4. PICK a \in Seq(T), y \in Nat : Conses(h, r, a, y)
    <3>1. h \in T
      BY <1>1
    <3> QED BY <3>1, ConsHas
  <2>5. y = Len(r) /\ y > 0 /\ m = y
    <3>1. y = Len(r) /\ Len(S[p]) = y + 1
      BY <2>2, <2>3, <2>4, Zenon DEF Conses
    <3>2. Pieces(s, {LF}, e + 1, S[e + 1])
      BY <2>1, PiecesAre, Zenon
    <3>3. Len(r) > 0
      BY <2>3, <3>2, Zenon DEF Pieces
    <3> QED BY <3>1, <3>3
  <2>6. PICK z \in Nat : z = m - 1 /\ Heads(r, z) /\ WellFormed(Stripped(h))
    <3>1. h \in T /\ m > 0
      BY <1>1, <2>5
    <3>2. Heads(<<h>> \o r, m)
      BY <2>2, <2>3, Zenon
    <3> QED BY <3>1, <3>2, HeadsLess, Zenon
  <2>7. m = z + 1 /\ z <= Len(r) /\ h \in T /\ Len(r) = z + 1
    BY <1>1, <2>5, <2>6
  <2>8. ReadsHeader(s, p, e, h)
    BY <1>3, <2>1, <2>6, OneHeader, Zenon
  <2>9. PICK c : c = PairOf(h)
    OBVIOUS
  <2>10. H[p] = <<c>> \o H[e + 1]
    <3>1. NextAt(s, p).pairs = <<c>> /\ NextAt(s, p).parsed = e - p + 1
      BY <2>8, <2>9 DEF ReadsHeader
    <3>2. H[p] = NextAt(s, p).pairs \o H[p + NextAt(s, p).parsed]
      BY <2>1, Zenon DEF ParseSaysAt, ParseTells
    <3> QED BY <2>1, <3>1, <3>2, Zenon
  <2>11. PICK rest \in Seq(A) : rest = H[e + 1]
    BY <2>1, Zenon DEF ParseSaysAt, ParseTells
  <2>12. Finds(rest, r, z)
    BY <2>1, <2>3, <2>6, <2>7, <2>11, Zenon DEF HeadersAt, HeadersBehind
  <2>13. Finds(<<c>> \o rest, <<h>> \o r, m)
    BY <2>7, <2>9, <2>12, FindsMore, Zenon
  <2> QED BY <2>2, <2>3, <2>10, <2>11, <2>13, Zenon
<1> QED BY <1>4, <1>5

\* So the two parsers find the same pairs.
LEMMA SamePairs ==
    ASSUME NEW s \in Seq(Byte), NEW n \in Nat, n = Len(s), n > 0, s[n] = LF, LineEndsOf(s, n),
           NEW m \in Nat, Heads(Split(s, {LF}), m), Len(Split(s, {LF})) = m + 1
    PROVE  ParseHeaders(s) = JoinedLast(HeaderPairs(s))
<1>1. PICK H, A : ParseHeaders(s) = JoinedLast(H[1]) /\ ParseTells(s, n, H, A)
  BY ParseTableSays, Zenon
<1>2. PICK S : Splits(s, {LF}, S) /\ Split(s, {LF}) = S[1]
  <2>1. PICK S : S = CHOOSE K : Splits(s, {LF}, K)
    OBVIOUS
  <2>2. Splits(s, {LF}, S)
    BY <2>1, SplitsExists
  <2> QED BY <2>1, <2>2, SplitIsChoice, Zenon
<1>3. \A z \in 1 .. n + 1 : HeadersAt(H, S, z)
  <2> DEFINE Bad == {z \in 1 .. n + 1 : ~ HeadersAt(H, S, z)}
  <2> SUFFICES ASSUME Bad # {} PROVE FALSE
    OBVIOUS
  <2>1. Bad \in SUBSET (1 .. n + 1) /\ n + 1 \in Nat
    OBVIOUS
  <2>2. \A z \in 1 .. n + 1 : z \notin Bad => HeadersAt(H, S, z)
    OBVIOUS
  <2>3. \A z \in Bad : ~ HeadersAt(H, S, z)
    OBVIOUS
  <2> HIDE DEF Bad
  <2>4. PICK p \in Bad : \A z \in p + 1 .. n + 1 : z \notin Bad
    BY <2>1, FromTheEnd
  <2>5. p \in 1 .. n + 1 /\ \A z \in p + 1 .. n + 1 : z \in 1 .. n + 1
    BY <2>1
  <2>6. HeadersBehind(H, S, p, n)
    BY <2>2, <2>4, <2>5, Zenon DEF HeadersBehind
  <2>7. HeadersAt(H, S, p)
    BY <1>1, <1>2, <2>5, <2>6, HeadersStep, Zenon
  <2> QED BY <2>3, <2>7, Zenon
<1>4. 1 \in 1 .. n + 1 /\ 1 \in 1 .. n + 2
  OBVIOUS
<1>5. PICK ps : ps = S[1] /\ Finds(H[1], ps, m)
  BY <1>2, <1>3, <1>4, Zenon DEF HeadersAt
<1>6. PICK B : Finds(HeaderPairs(s), ps, m) /\ HeaderPairs(s) \in Seq(B)
  BY <1>2, <1>5, LinesFound, Zenon
<1>7. PICK C : C = A \cup B
  OBVIOUS
<1>8. PICK f \in Seq(C), g \in Seq(C) : f = H[1] /\ g = HeaderPairs(s)
  <2>1. H[1] \in Seq(A)
    BY <1>1, <1>4, Zenon DEF ParseSaysAt, ParseTells
  <2>2. H[1] \in Seq(C) /\ HeaderPairs(s) \in Seq(C)
    BY <1>6, <1>7, <2>1
  <2> QED BY <2>2, Zenon
<1>9. Len(f) = m /\ Len(g) = m /\ \A k \in 1 .. m : f[k] = g[k]
  BY <1>5, <1>6, <1>8, Zenon DEF Finds
<1>10. f = g
  BY <1>9, SeqEq
<1> QED BY <1>1, <1>8, <1>10, Zenon

\* The last value of a name, as a choice of the mapping so far,
LastFrom(pairs, J, k) ==
    IF k = 0 THEN Empty ELSE Insert(J[k - 1], pairs[k].name, pairs[k].value)
Lasts(pairs, J) == J = [k \in 0 .. Len(pairs) |-> LastFrom(pairs, J, k)]
LEMMA JoinedLastIsChoice ==
    ASSUME NEW pairs
    PROVE  JoinedLast(pairs) = (CHOOSE J : Lasts(pairs, J))[Len(pairs)]
BY DEF JoinedLast, Lasts, LastFrom

\* is all its values, when each name is there once.
NamesApart(pairs, n) == \A j, k \in 1 .. n : pairs[j].name = pairs[k].name => j = k
LEMMA LastIsJoined ==
    ASSUME NEW pairs, NEW n, NEW vs, PairsAre(pairs, n, vs), NamesApart(pairs, n),
           NEW at, \A k \in 1 .. n : k \in at, NEW sep \in Seq(Byte)
    PROVE  JoinedLast(pairs) = Joined(pairs, at, sep)
<1>1. n \in Nat /\ n = Len(pairs) /\ n = Len(vs)
  BY Zenon DEF PairsAre
<1>2. PICK C : C = [k \in 0 .. n |-> JoinedSo(pairs, n, vs, at, sep, k)]
  OBVIOUS
<1>3. \A k \in 0 .. n : C[k] = JoinedSo(pairs, n, vs, at, sep, k)
  BY <1>2
<1>4. C[0] = Empty
  <2>1. NamesSo(pairs, at, 0) = {}
    BY DEF NamesSo
  <2>2. 0 \in 0 .. n
    BY <1>1
  <2>3. JoinedSo(pairs, n, vs, at, sep, 0) = Empty
    BY <2>1 DEF JoinedSo, Empty
  <2> QED BY <1>3, <2>2, <2>3, Zenon
<1>5. \A k \in 1 .. n : C[k] = LastFrom(pairs, C, k)
  <2> TAKE k \in 1 .. n
  <2>1. k \in 0 .. n /\ k - 1 \in 0 .. n /\ k # 0
    BY <1>1
  <2>2. PICK m : m = JoinedSo(pairs, n, vs, at, sep, k - 1) /\ m = C[k - 1]
    BY <1>3, <2>1, Zenon
  <2>3. C[k] = IF k \notin at THEN m ELSE Insert(m, pairs[k].name, Added(m, pairs[k], sep))
    <3>1. JoinedSo(pairs, n, vs, at, sep, k) =
              IF k \notin at THEN m ELSE Insert(m, pairs[k].name, Added(m, pairs[k], sep))
      BY <2>2, JoinedStep
    <3> QED BY <1>3, <2>1, <3>1, Zenon
  <2>4. pairs[k].name \notin NamesSo(pairs, at, k - 1)
    <3>1. \A j \in 1 .. k - 1 : j \in 1 .. n /\ j # k
      BY <1>1
    <3>2. \A j \in 1 .. k - 1 : pairs[j].name # pairs[k].name
      BY <3>1, Zenon DEF NamesApart
    <3> QED BY <3>2 DEF NamesSo
  <2>5. DOMAIN m = NamesSo(pairs, at, k - 1)
    BY <2>2 DEF JoinedSo
  <2>6. Added(m, pairs[k], sep) = pairs[k].value
    BY <2>4, <2>5, Zenon DEF Added
  <2> QED BY <2>1, <2>2, <2>3, <2>6, Zenon DEF LastFrom
<1>6. \A k \in 0 .. n : C[k] = LastFrom(pairs, C, k)
  <2> TAKE k \in 0 .. n
  <2>1. k = 0 \/ k \in 1 .. n
    OBVIOUS
  <2> QED BY <1>4, <1>5, <2>1, Zenon DEF LastFrom
<1>7. Lasts(pairs, C)
  <2>1. C = [k \in 0 .. n |-> LastFrom(pairs, C, k)]
    BY <1>2, <1>6
  <2> QED BY <1>1, <2>1, Zenon DEF Lasts
<1>8. PICK J : Lasts(pairs, J) /\ JoinedLast(pairs) = J[n]
  BY <1>1, <1>7, JoinedLastIsChoice, Zenon
<1>9. \A k \in 0 .. n : J[k] = LastFrom(pairs, J, k)
  <2>1. PICK F : F = [k \in 0 .. n |-> LastFrom(pairs, J, k)]
    OBVIOUS
  <2>2. \A k \in 0 .. n : F[k] = LastFrom(pairs, J, k)
    BY <2>1
  <2> QED BY <1>1, <1>8, <2>1, <2>2, Zenon DEF Lasts
<1>10. J[0] = C[0]
  <2>1. 0 \in 0 .. n
    BY <1>1
  <2> QED BY <1>4, <1>9, <2>1, Zenon DEF LastFrom
<1>11. \A k \in 1 .. n : J[k - 1] = C[k - 1] => J[k] = C[k]
  <2> TAKE k \in 1 .. n
  <2>1. k \in 0 .. n
    OBVIOUS
  <2>2. J[k] = LastFrom(pairs, J, k) /\ C[k] = LastFrom(pairs, C, k)
    BY <1>6, <1>9, <2>1, Zenon
  <2>3. J[k - 1] = C[k - 1] => LastFrom(pairs, J, k) = LastFrom(pairs, C, k)
    BY Zenon DEF LastFrom
  <2> QED BY <2>2, <2>3, Zenon
<1>12. J[n] = C[n] /\ n \in 0 .. n
  <2>3. StayAgreed(J, C, n)
    BY <1>11, Zenon DEF StayAgreed
  <2>1. TablesAgree(J, C, n)
    BY <1>1, <1>10, <2>3, StepsAgree, Zenon
  <2>2. n \in 0 .. n
    BY <1>1
  <2> QED BY <2>1, <2>2, Zenon DEF TablesAgree
<1>13. \A r : ValuesSo(pairs, n, vs, at, r, n) = Kept(vs, PlacesOf(pairs, n, at, r))
  BY <1>1, KeptIsChoice, Zenon DEF ValuesSo
<1>14. JoinedLast(pairs) = JoinedSo(pairs, n, vs, at, sep, n)
  BY <1>3, <1>8, <1>12, Zenon
<1>16. Joined(pairs, at, sep) =
           [r \in NamesSo(pairs, at, n) |-> Join(Kept(vs, PlacesOf(pairs, n, at, r)), sep)]
  BY JoinedIs
<1>17. JoinedSo(pairs, n, vs, at, sep, n) = Joined(pairs, at, sep)
  BY <1>13, <1>16, Zenon DEF JoinedSo
<1> QED BY <1>14, <1>17, Zenon

\* When each line has a name of its own the two parsers have the same mapping.
NamesOnce(lines) == \A j, k \in DOMAIN lines : NameOf(lines[j]) = NameOf(lines[k]) => j = k
SameHeaders(s) == ParseHeaders(s) = HeadersIn(s)
LEMMA HeadersSame ==
    ASSUME NEW s \in Seq(Byte), NEW n \in Nat, n = Len(s), n > 0, s[n] = LF, LineEndsOf(s, n),
           NEW m \in Nat, NEW ps, ps = Split(s, {LF}), Heads(ps, m), Len(ps) = m + 1,
           NEW lines, LinesSay(lines, ps, m), NamesOnce(lines)
    PROVE  SameHeaders(s)
<1>1. PICK pairs, vs : pairs = HeaderPairs(s) /\ PairsOfLines(pairs, vs, lines, m)
  BY PairsFound, Zenon
<1>2. /\ PairsAre(pairs, m, vs) /\ DOMAIN pairs = 1 .. m /\ DOMAIN lines = 1 .. m
      /\ \A k \in 1 .. m : pairs[k].name = NameOf(lines[k])
  BY <1>1, Zenon DEF PairsOfLines
<1>3. NamesApart(pairs, m)
  BY <1>2, Zenon DEF NamesApart, NamesOnce
<1>4. PICK at : at = DOMAIN pairs
  OBVIOUS
<1>5. PICK sep \in Seq(Byte) : sep = <<COMMA>>
  <2>1. <<COMMA>> \in Seq(Byte)
    BY DEF COMMA, Byte
  <2> QED BY <2>1, Zenon
<1>6. \A k \in 1 .. m : k \in at
  BY <1>2, <1>4, Zenon
<1>7. JoinedLast(pairs) = Joined(pairs, at, sep)
  BY <1>2, <1>3, <1>6, LastIsJoined
<1>8. ParseHeaders(s) = JoinedLast(HeaderPairs(s))
  BY SamePairs
<1> QED BY <1>1, <1>4, <1>5, <1>7, <1>8, Zenon DEF HeadersIn, SameHeaders

\* The last piece of a text that ends with LF is empty,
EndsBlank(ps) == ps[Len(ps)] = <<>>
LEMMA BlankStep ==
    ASSUME NEW s \in Seq(Byte), NEW n \in Nat, n = Len(s), s[n] = LF, NEW S, Splits(s, {LF}, S),
           NEW p \in 1 .. n + 1, \A q \in p + 1 .. n + 1 : EndsBlank(S[q])
    PROVE  EndsBlank(S[p])
<1>1. PICK T : T = Seq(Byte)
  OBVIOUS
<1>2. \A q \in 1 .. n + 1 : Pieces(s, {LF}, q, S[q])
  BY PiecesAre, Zenon
<1>3. PICK e \in p .. n + 1, h \in Seq(Byte) : FirstPiece(s, n, {LF}, S, p, e, h)
  BY PieceAndRest
<1>4. CASE e > n
  <2>1. h = <<>> /\ S[p] = <<h>>
    BY <1>3, <1>4, LastPiece, Zenon DEF AtTheEnd
  <2>2. Len(<<h>>) = 1 /\ <<h>>[1] = h
    OBVIOUS
  <2> QED BY <2>1, <2>2, Zenon DEF EndsBlank
<1>5. CASE ~ (e > n)
  <2>1. e <= n /\ e + 1 \in p + 1 .. n + 1 /\ e + 1 \in 1 .. n + 1
    BY <1>5
  <2>2. S[p] = <<h>> \o S[e + 1]
    BY <1>3, <2>1, Zenon DEF FirstPiece
  <2>3. S[e + 1] \in Seq(T) /\ Len(S[e + 1]) > 0
    BY <1>1, <1>2, <2>1, Zenon DEF Pieces
  <2>4. PICK r \in Seq(T) : r = S[e + 1] /\ Len(r) > 0
    BY <2>3, Zenon
  <2>5. PICK a \in Seq(T), y \in Nat : Conses(h, r, a, y)
    <3>1. h \in T
      BY <1>1
    <3> QED BY <3>1, ConsHas
  <2>6. a = S[p] /\ y = Len(r) /\ Len(a) = y + 1 /\ \A k \in 1 .. y : a[k + 1] = r[k]
    BY <2>2, <2>4, <2>5, Zenon DEF Conses
  <2>7. y \in 1 .. y
    BY <2>4, <2>6
  <2>8. r[y] = <<>>
    BY <2>1, <2>4, <2>6, Zenon DEF EndsBlank
  <2> QED BY <2>6, <2>7, <2>8, Zenon DEF EndsBlank
<1> QED BY <1>4, <1>5
LEMMA PiecesEndBlank ==
    ASSUME NEW s \in Seq(Byte), NEW n \in Nat, n = Len(s), n > 0, s[n] = LF
    PROVE  /\ EndsBlank(Split(s, {LF})) /\ Split(s, {LF}) \in Seq(Seq(Byte))
           /\ Len(Split(s, {LF})) > 0
<1>1. PICK S : Splits(s, {LF}, S) /\ Split(s, {LF}) = S[1]
  <2>1. PICK S : S = CHOOSE K : Splits(s, {LF}, K)
    OBVIOUS
  <2>2. Splits(s, {LF}, S)
    BY <2>1, SplitsExists
  <2> QED BY <2>1, <2>2, SplitIsChoice, Zenon
<1>2. 1 \in 1 .. n + 1
  OBVIOUS
<1>3. Pieces(s, {LF}, 1, S[1])
  BY <1>1, <1>2, PiecesAre, Zenon
<1>4. \A z \in 1 .. n + 1 : EndsBlank(S[z])
  <2> DEFINE Bad == {z \in 1 .. n + 1 : ~ EndsBlank(S[z])}
  <2> SUFFICES ASSUME Bad # {} PROVE FALSE
    OBVIOUS
  <2>1. Bad \in SUBSET (1 .. n + 1) /\ n + 1 \in Nat
    OBVIOUS
  <2>2. \A z \in 1 .. n + 1 : z \notin Bad => EndsBlank(S[z])
    OBVIOUS
  <2>3. \A z \in Bad : ~ EndsBlank(S[z])
    OBVIOUS
  <2> HIDE DEF Bad
  <2>4. PICK p \in Bad : \A z \in p + 1 .. n + 1 : z \notin Bad
    BY <2>1, FromTheEnd
  <2>5. p \in 1 .. n + 1 /\ \A z \in p + 1 .. n + 1 : z \in 1 .. n + 1
    BY <2>1
  <2>6. \A z \in p + 1 .. n + 1 : EndsBlank(S[z])
    BY <2>2, <2>4, <2>5, Zenon
  <2>7. EndsBlank(S[p])
    BY <1>1, <2>5, <2>6, BlankStep, Zenon
  <2> QED BY <2>3, <2>7, Zenon
<1>5. S[1] \in Seq(Seq(Byte)) /\ Len(S[1]) > 0
  BY <1>3, Zenon DEF Pieces
<1> QED BY <1>1, <1>2, <1>4, <1>5, Zenon

\* and when as many are lines as the rest are, those are the first.
LEMMA AllButLast ==
    ASSUME NEW ps \in Seq(Seq(Byte)), NEW l \in Nat, l = Len(ps), l > 0, EndsBlank(ps),
           NEW lines, lines = Kept(AllOf(ps), SomeOf(ps)), AllWell(lines), Len(lines) = l - 1
    PROVE  \E m \in Nat : Heads(ps, m) /\ l = m + 1
<1>1. PICK T : T = Seq(Byte)
  OBVIOUS
<1>2. PICK all \in Seq(T) : all = AllOf(ps) /\ l = Len(all)
  BY <1>1, AllIn, Zenon
<1>3. PICK at, K : at = SomeOf(ps) /\ K = KeptTable(all, at)
  OBVIOUS
<1>4. HeadersOrNot(ps)
  BY WellThenNot, Zenon
<1>5. PICK m \in 0 .. l : m \in Nat /\ l = m + 1 /\ m < l /\ m = l - 1 /\ l \in 1 .. l
  <2>1. /\ l - 1 \in 0 .. l /\ l - 1 \in Nat /\ l = (l - 1) + 1 /\ l - 1 < l /\ l \in 1 .. l
    OBVIOUS
  <2> QED BY <2>1, Zenon
<1>6. Stripped(ps[l]) = <<>>
  <2>1. Stripped(<<>>) = <<>>
    BY Zenon DEF Stripped
  <2> QED BY <2>1, Zenon DEF EndsBlank
<1>7. l \notin at
  BY <1>3, <1>6 DEF SomeOf
<1>8. K[l] = K[m]
  <2>1. KeptSays(T, all, l, at, K)
    BY <1>2, <1>3, KeptTableIs, Zenon
  <2> QED BY <1>5, <1>7, <2>1, Zenon DEF KeptSays
<1>9. KeptPart(T, all, at, K[m], m)
  BY <1>2, <1>3, KeptParts, Zenon
<1>10. lines = K[l]
  <2>1. Kept(all, at) = K[Len(all)]
    BY <1>3, KeptIsChoice
  <2> QED BY <1>2, <1>3, <2>1, Zenon
<1>11. \A i \in 1 .. m : i \in at
  <2> SUFFICES ASSUME \E i \in 1 .. m : i \notin at PROVE FALSE
    OBVIOUS
  <2>1. Len(K[m]) < m
    BY <1>9, Zenon DEF KeptPart
  <2>2. Len(K[m]) = m
    BY <1>5, <1>8, <1>10, Zenon
  <2> QED BY <1>5, <2>1, <2>2
<1>12. \A i \in 1 .. m : i \in 1 .. l /\ Stripped(ps[i]) # <<>>
  BY <1>3, <1>11 DEF SomeOf
<1>13. \A i \in 1 .. m : WellFormed(Stripped(ps[i]))
  BY <1>4, <1>12, Zenon DEF HeadersOrNot, HeaderOrNot
<1>14. \A i \in m + 1 .. l : i = l
  BY <1>5
<1>15. Heads(ps, m)
  BY <1>5, <1>6, <1>13, <1>14, Zenon DEF Heads
<1> QED BY <1>5, <1>15, Zenon

\* Of a block whose lines all end with CR LF, each with a name of its own, the two
\* parsers say the same.
THEOREM HeaderParsersTheorem == ASSUME NEW w \in Seq(Byte) PROVE HeaderParsersAgree(w)
<1>1. PICK k \in Nat : k = Len(w) /\ DOMAIN w = 1 .. k
  OBVIOUS
<1>2. PICK b \in Seq(Byte) : b = w \o <<CR, LF>>
  <2>1. CR \in Byte /\ LF \in Byte
    BY DEF CR, LF, Byte
  <2>2. w \o <<CR, LF>> \in Seq(Byte)
    BY <2>1
  <2> QED BY <2>2, Zenon
<1>3. PICK n \in Nat : n = k + 2
  <2>1. k + 2 \in Nat
    OBVIOUS
  <2> QED BY <2>1, Zenon
<1>4. Len(b) = n /\ (\A i \in 1 .. k : b[i] = w[i]) /\ b[k + 1] = CR /\ b[k + 2] = LF
  BY <1>1, <1>2, <1>3
<1>5. PICK head \in Seq(Byte) : head = <<LF>> \o b
  <2>1. LF \in Byte
    BY DEF LF, Byte
  <2>2. <<LF>> \o b \in Seq(Byte)
    BY <2>1
  <2> QED BY <2>2, Zenon
<1>6. PICK K \in Nat : K = n + 1 /\ K = 1 + n
  <2>1. n + 1 \in Nat /\ n + 1 = 1 + n
    OBVIOUS
  <2> QED BY <2>1, Zenon
<1>7. Len(head) = K /\ head[1] = LF /\ \A j \in 1 .. n : b[j] = head[1 + j]
  BY <1>4, <1>5, <1>6
<1>8. PICK ps, lines : ps = Split(b, {LF}) /\ lines = HeaderLines(head)
  OBVIOUS
<1> SUFFICES ASSUME \A i \in DOMAIN w : (w[i] = CR) = (i < Len(w) /\ w[i + 1] = LF),
                    AllWell(lines), Len(lines) = Len(ps) - 1, NamesOnce(lines)
             PROVE  SameHeaders(b)
  BY <1>2, <1>5, <1>8, Zenon DEF HeaderParsersAgree, AllWell, NamesOnce, SameHeaders
<1>9. HeadIs(head, K, 1, b, n)
  <2>1. RestOf(head, 1, b, n)
    BY <1>4, <1>6, <1>7, Zenon DEF RestOf
  <2>2. 1 \in 1 .. K /\ \A i \in 1 .. 1 - 1 : head[i] # LF
    BY <1>6
  <2> QED BY <1>7, <2>1, <2>2, Zenon DEF HeadIs
<1>10. lines = Kept(AllOf(ps), SomeOf(ps))
  <2>1. FirstThen(Split(head, {LF}), ps)
    BY <1>8, <1>9, HeadSplit, Zenon
  <2> QED BY <1>8, <2>1, HeaderLinesAre, Zenon
<1>11. n > 0 /\ b[n] = LF
  BY <1>3, <1>4
<1>12. EndsBlank(ps) /\ ps \in Seq(Seq(Byte)) /\ Len(ps) > 0
  BY <1>4, <1>8, <1>11, PiecesEndBlank, Zenon
<1>13. PICK l \in Nat : l = Len(ps) /\ l > 0 /\ Len(lines) = l - 1
  <2>1. Len(ps) \in Nat
    BY <1>12
  <2> QED BY <1>12, <2>1, Zenon
<1>14. PICK m \in Nat : Heads(ps, m) /\ l = m + 1
  BY <1>10, <1>12, <1>13, AllButLast, Zenon
<1>15. LinesSay(lines, ps, m)
  BY <1>10, <1>12, <1>14, LinesOfHeads, Zenon
<1>16. LineEndsOf(b, n)
  <2>1. CR # LF
    BY DEF CR, LF
  <2> SUFFICES ASSUME NEW i \in 1 .. n PROVE b[i] = CR <=> i < n /\ b[i + 1] = LF
    BY Zenon DEF LineEndsOf
  <2>2. CASE i \in 1 .. k /\ i + 1 \in 1 .. k
    <3>1. i < Len(w) /\ i < n
      BY <1>1, <1>3, <2>2
    <3> QED BY <1>1, <1>4, <2>2, <3>1, Zenon
  <2>3. CASE i = k /\ k > 0
    <3>1. i \in 1 .. k /\ ~ (i < Len(w))
      BY <1>1, <2>3
    <3> QED BY <1>1, <1>4, <2>1, <2>3, <3>1, Zenon
  <2>4. CASE i = k + 1
    <3>1. i < n /\ i + 1 = k + 2
      BY <1>3, <2>4
    <3> QED BY <1>4, <2>4, <3>1, Zenon
  <2>5. CASE i = k + 2
    <3>1. ~ (i < n)
      BY <1>3, <2>5
    <3> QED BY <1>4, <2>1, <2>5, <3>1, Zenon
  <2>6. (i \in 1 .. k /\ i + 1 \in 1 .. k) \/ (i = k /\ k > 0) \/ i = k + 1 \/ i = k + 2
    BY <1>3
  <2> QED BY <2>2, <2>3, <2>4, <2>5, <2>6, Zenon
<1>17. Len(ps) = m + 1
  BY <1>13, <1>14, Zenon
<1> QED BY <1>4, <1>8, <1>11, <1>14, <1>15, <1>16, <1>17, HeadersSame, Zenon

-----------------------------------------------------------------------------
(* What one function writes, another reads back *)

\* Whatever the word of a state is, each function gives back what another one, or the
\* documented form, was made of (TextComesBack).
THEOREM TextComesBackTheorem == MCSpec => []TextComesBack
<1>1. TextInv => TextComesBack
  <2> SUFFICES ASSUME TextInv PROVE TextComesBack
    OBVIOUS
  <2>1. word \in Seq(Byte)
    BY DEF TextInv, WordInv
  <2>2. EncodingComesBack(word) /\ HeaderParsersAgree(word) /\ PrestatesComeOff(word)
    BY <2>1, EncodingTheorem, HeaderParsersTheorem, PrestatesTheorem
  <2>3. AddressAndPort(word) /\ BackupHasExtension(word) /\ EntitiesReplaced(word)
    BY <2>1, AddressTheorem, ExtensionTheorem, EntitiesTheorem
  <2>4. AttributesStayApart(word)
    BY <2>1, AttributesTheorem
  <2> QED BY <2>2, <2>3, <2>4, Zenon DEF TextComesBack
<1> QED BY <1>1, TextInit, TextNext, PTL DEF MCSpec
=============================================================================

