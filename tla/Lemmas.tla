------------------------------- MODULE Lemmas -------------------------------
(* Facts that the proofs of several modules rest on. *)
EXTENDS Integers, Sequences, FiniteSetsExt, FiniteSetTheorems, WellFoundedInduction, TLAPS

\* A set of natural numbers that is not empty has a least element: what the
\* proofs use instead of induction.
LEMMA Least ==
  ASSUME NEW S \in SUBSET Nat, S # {}
  PROVE  \E n \in S : \A m \in S : n <= m
<1> DEFINE R == OpToRel(<, Nat)
<1>1. IsWellFoundedOn(R, Nat)
  BY NatLessThanWellFounded
<1>2. PICK n \in S : \A m \in S : ~ (<<m, n>> \in R)
  BY <1>1, WFMin
<1>3. \A m \in S : ~ (m < n)
  BY <1>2 DEF R, OpToRel
<1> QED BY <1>3

\* Append, element by element.
LEMMA AppendIs ==
  ASSUME NEW S, NEW s \in Seq(S), NEW e \in S
  PROVE  /\ Append(s, e) \in Seq(S) /\ Len(s) \in Nat
         /\ Len(Append(s, e)) = Len(s) + 1
         /\ DOMAIN s = 1 .. Len(s) /\ DOMAIN Append(s, e) = 1 .. Len(s) + 1
         /\ \A k \in 1 .. Len(s) : Append(s, e)[k] = s[k]
         /\ Append(s, e)[Len(s) + 1] = e
OBVIOUS

\* Head and Tail, element by element.
LEMMA TailIs ==
  ASSUME NEW S, NEW s \in Seq(S), s # <<>>
  PROVE  /\ Tail(s) \in Seq(S) /\ Len(s) \in Nat \ {0} /\ Len(Tail(s)) = Len(s) - 1
         /\ DOMAIN s = 1 .. Len(s) /\ DOMAIN Tail(s) = 1 .. Len(s) - 1
         /\ Head(s) = s[1] /\ s[1] \in S
         /\ \A k \in 1 .. Len(s) - 1 : k + 1 \in 1 .. Len(s) /\ Tail(s)[k] = s[k + 1]
OBVIOUS

\* A sequence of two.
LEMMA PairIs ==
  ASSUME NEW S, NEW s \in Seq(S)
  PROVE  Len(s) = 2 => s = <<s[1], s[2]>>
<1>1. DOMAIN s = 1 .. Len(s) /\ \A k \in 1 .. Len(s) : s[k] \in S
  OBVIOUS
<1>2. SUFFICES ASSUME Len(s) = 2 PROVE s = <<s[1], s[2]>>
  OBVIOUS
<1>3. DOMAIN s = 1 .. 2 /\ s[1] \in S /\ s[2] \in S
  BY <1>1, <1>2
<1>4. <<s[1], s[2]>> \in Seq(S) /\ Len(<<s[1], s[2]>>) = 2
  BY <1>3
<1> QED BY <1>3, <1>4

\* A sequence is the whole of itself.
LEMMA SubSeqAll ==
  ASSUME NEW S, NEW s \in Seq(S)
  PROVE  SubSeq(s, 1, Len(s)) = s
OBVIOUS

\* Tail again, with a name for it and for its length.
LEMMA TailPick ==
  ASSUME NEW S, NEW s \in Seq(S), s # <<>>
  PROVE  \E rest \in Seq(S), n \in Nat :
           /\ rest = Tail(s) /\ Len(rest) = n /\ Len(s) = n + 1 /\ DOMAIN s = 1 .. n + 1
           /\ \A k \in 1 .. n : rest[k] = s[k + 1]
<1>1. /\ Tail(s) \in Seq(S) /\ Len(Tail(s)) = Len(s) - 1
      /\ Len(s) \in Nat \ {0} /\ DOMAIN s = 1 .. Len(s)
      /\ \A k \in 1 .. Len(s) - 1 : Tail(s)[k] = s[k + 1]
  BY TailIs
<1>2. Len(s) - 1 \in Nat /\ Len(s) = (Len(s) - 1) + 1
  <2>1. \A l \in Nat \ {0} : l - 1 \in Nat /\ l = (l - 1) + 1
    OBVIOUS
  <2> QED BY <1>1, <2>1, Zenon
<1> QED BY <1>1, <1>2, Zenon

\* One element before a sequence.
LEMMA ConsIs ==
  ASSUME NEW S, NEW h \in S, NEW rest \in Seq(S), NEW n \in Nat, Len(rest) = n
  PROVE  /\ <<h>> \o rest \in Seq(S) /\ Len(<<h>> \o rest) = n + 1
         /\ (<<h>> \o rest)[1] = h
         /\ \A i \in 1 .. n : (<<h>> \o rest)[i + 1] = rest[i]
OBVIOUS

\* Another first element.
LEMMA FirstIs ==
  ASSUME NEW S, NEW h \in S, NEW s \in Seq(S), NEW n \in Nat, Len(s) = n, n > 0
  PROVE  /\ [s EXCEPT ![1] = h] \in Seq(S) /\ Len([s EXCEPT ![1] = h]) = n
         /\ [s EXCEPT ![1] = h][1] = h
         /\ \A i \in 2 .. n : [s EXCEPT ![1] = h][i] = s[i]
OBVIOUS

\* Two sequences with the same elements are the same.
LEMMA SeqEq ==
  ASSUME NEW S, NEW s \in Seq(S), NEW t \in Seq(S), NEW n \in Nat, Len(s) = n, Len(t) = n,
         \A j \in 1 .. n : s[j] = t[j]
  PROVE  s = t
OBVIOUS

\* A sequence without elements.
LEMMA EmptyIs == ASSUME NEW S, NEW s \in Seq(S), Len(s) = 0 PROVE s = <<>>
OBVIOUS

\* One sequence after another, named so that the provers take it as it is,
Cat(a, b) == a \o b

\* with names for the lengths.
LEMMA CatAt ==
  ASSUME NEW S, NEW a \in Seq(S), NEW b \in Seq(S), NEW m \in Nat, NEW n \in Nat,
         Len(a) = m, Len(b) = n
  PROVE  /\ Cat(a, b) \in Seq(S) /\ Len(Cat(a, b)) = m + n
         /\ \A j \in 1 .. m : Cat(a, b)[j] = a[j]
         /\ \A j \in 1 .. n : Cat(a, b)[m + j] = b[j]
<1>1. /\ a \o b \in Seq(S) /\ Len(a \o b) = Len(a) + Len(b)
      /\ \A j \in 1 .. Len(a) : (a \o b)[j] = a[j]
      /\ \A j \in 1 .. Len(b) : (a \o b)[Len(a) + j] = b[j]
  OBVIOUS
<1> QED BY <1>1, Zenon DEF Cat

\* A part of a sequence, element by element.
LEMMA SubSeqIs ==
  ASSUME NEW S, NEW s \in Seq(S), NEW n \in 0 .. Len(s)
  PROVE  /\ SubSeq(s, 1, n) \in Seq(S) /\ Len(SubSeq(s, 1, n)) = n
         /\ \A j \in 1 .. n : SubSeq(s, 1, n)[j] = s[j]
         /\ SubSeq(s, n + 1, Len(s)) \in Seq(S)
         /\ Len(SubSeq(s, n + 1, Len(s))) = Len(s) - n
         /\ \A j \in 1 .. Len(s) - n : SubSeq(s, n + 1, Len(s))[j] = s[n + j]
<1>1. Len(s) \in Nat /\ n \in Nat /\ \A j \in 1 .. Len(s) : s[j] \in S
  OBVIOUS
<1>2. /\ SubSeq(s, 1, n) \in Seq(S) /\ Len(SubSeq(s, 1, n)) = n
      /\ \A j \in 1 .. n : SubSeq(s, 1, n)[j] = s[j]
  BY <1>1
<1>3. /\ SubSeq(s, n + 1, Len(s)) \in Seq(S)
      /\ Len(SubSeq(s, n + 1, Len(s))) = Len(s) - n
  BY <1>1
<1>4. \A j \in 1 .. Len(s) - n : SubSeq(s, n + 1, Len(s))[j] = s[n + j]
  BY <1>1
<1> QED BY <1>2, <1>3, <1>4

\* An index is in the first part or in the second.
LEMMA IndexSplit ==
  ASSUME NEW k \in Nat, NEW m \in Nat, NEW j \in 1 .. k + m
  PROVE  j \in 1 .. k \/ \E i \in 1 .. m : j = k + i
<1>1. j \in 1 .. k \/ (j - k \in 1 .. m /\ j = k + (j - k))
  OBVIOUS
<1> QED BY <1>1

\* A sequence is its first part and the rest.
LEMMA SplitIs ==
  ASSUME NEW S, NEW s \in Seq(S), NEW n \in 0 .. Len(s)
  PROVE  s = Cat(SubSeq(s, 1, n), SubSeq(s, n + 1, Len(s)))
<1>1. PICK a \in Seq(S), b \in Seq(S), m \in Nat, k \in Nat :
        /\ a = SubSeq(s, 1, n) /\ b = SubSeq(s, n + 1, Len(s)) /\ m = Len(s) - n /\ k = n
        /\ Len(a) = k /\ Len(b) = m
        /\ \A j \in 1 .. k : a[j] = s[j]
        /\ \A j \in 1 .. m : b[j] = s[k + j]
  <2>1. Len(s) - n \in Nat /\ n \in Nat
    OBVIOUS
  <2>2. /\ SubSeq(s, 1, n) \in Seq(S) /\ Len(SubSeq(s, 1, n)) = n
        /\ \A j \in 1 .. n : SubSeq(s, 1, n)[j] = s[j]
        /\ SubSeq(s, n + 1, Len(s)) \in Seq(S)
        /\ Len(SubSeq(s, n + 1, Len(s))) = Len(s) - n
        /\ \A j \in 1 .. Len(s) - n : SubSeq(s, n + 1, Len(s))[j] = s[n + j]
    BY SubSeqIs, Zenon
  <2> QED BY <2>1, <2>2, Zenon
<1>2. Len(s) = k + m
  BY <1>1
<1> HIDE <1>1
<1>3. /\ \A j \in 1 .. k : a[j] = s[j]
      /\ \A j \in 1 .. m : b[j] = s[k + j]
      /\ Len(a) = k /\ Len(b) = m
  BY <1>1, Zenon
<1>4. PICK c \in Seq(S) : /\ c = Cat(a, b) /\ Len(c) = k + m
                          /\ \A j \in 1 .. k : c[j] = a[j]
                          /\ \A j \in 1 .. m : c[k + j] = b[j]
  BY <1>3, CatAt
<1>5. ASSUME NEW j \in 1 .. k + m PROVE c[j] = s[j]
  <2>1. CASE j \in 1 .. k
    BY <1>3, <1>4, <2>1, Zenon
  <2>2. ASSUME NEW i \in 1 .. m, j = k + i PROVE c[j] = s[j]
    <3>1. c[k + i] = b[i]
      BY <1>4, Zenon
    <3>2. b[i] = s[k + i]
      BY <1>3, Zenon
    <3> QED BY <2>2, <3>1, <3>2, Zenon
  <2> QED BY <2>1, <2>2, IndexSplit
<1>6. c = s
  <2>1. PICK l \in Nat : l = k + m
    OBVIOUS
  <2>2. Len(c) = l /\ Len(s) = l /\ \A j \in 1 .. l : c[j] = s[j]
    BY <1>2, <1>4, <1>5, <2>1, Zenon
  <2> HIDE <2>1
  <2> QED BY <2>2, SeqEq
<1> QED BY <1>1, <1>4, <1>6, Zenon

-----------------------------------------------------------------------------
(* Sums *)

\* Of the subsets of a finite set some have a property: one of these has it,
\* and none that has an element less.
LEMMA SmallestSet ==
  ASSUME NEW S, IsFiniteSet(S), NEW B \in SUBSET (SUBSET S), B # {}
  PROVE  \E s \in B : \A k \in s : s \ {k} \notin B
<1> DEFINE C == {Cardinality(s) : s \in B}
<1>1. \A s \in SUBSET S : IsFiniteSet(s) /\ Cardinality(s) \in Nat
  BY FS_Subset, FS_CardinalityType
<1>2. C \in SUBSET Nat /\ C # {}
  BY <1>1
<1>3. PICK n \in C : \A m \in C : n <= m
  <2> HIDE DEF C
  <2> QED BY <1>2, Least
<1>4. PICK s \in B : Cardinality(s) = n
  BY <1>3
<1>5. ASSUME NEW k \in s, s \ {k} \in B PROVE FALSE
  <2>1. IsFiniteSet(s) /\ n \in Nat
    BY <1>1, <1>4
  <2>2. Cardinality(s \ {k}) = n - 1
    BY <1>4, <2>1, FS_RemoveElement
  <2>3. Cardinality(s \ {k}) \in C
    BY <1>5
  <2>4. n <= Cardinality(s \ {k})
    BY <1>3, <2>3
  <2> QED BY <2>1, <2>2, <2>4
<1> QED BY <1>4, <1>5, Zenon

\* The values of f added up, each subset in D by the element that pick takes first.
Adding(it, f, pick, s) == IF s = {} THEN 0 ELSE f[pick[s]] + it[s \ {pick[s]}]
Adds(it, f, pick, D) == it = [s \in D |-> Adding(it, f, pick, s)]
Picks(pick, S) == \A s \in SUBSET S : s # {} => pick[s] \in s
UpTo(S, n) == {s \in SUBSET S : Cardinality(s) <= n}

\* Such a table exists for the subsets of n elements or less,
LEMMA AddsMore ==
  ASSUME NEW S, IsFiniteSet(S), NEW pick, Picks(pick, S), NEW f, NEW n \in Nat, NEW P,
         Adds(P, f, pick, UpTo(S, n))
  PROVE  \E Q : Adds(Q, f, pick, UpTo(S, n + 1))
<1> DEFINE Q == [s \in UpTo(S, n + 1) |->
                    IF Cardinality(s) <= n THEN P[s] ELSE f[pick[s]] + P[s \ {pick[s]}]]
<1>1. \A s \in SUBSET S : IsFiniteSet(s) /\ Cardinality(s) \in Nat
  BY FS_Subset, FS_CardinalityType
<1>2. ASSUME NEW s \in UpTo(S, n + 1) PROVE Q[s] = Adding(Q, f, pick, s)
  <2>1. s \in SUBSET S /\ Cardinality(s) \in Nat /\ Cardinality(s) <= n + 1 /\ IsFiniteSet(s)
    BY <1>1 DEF UpTo
  <2>2. CASE s = {}
    <3>1. Cardinality(s) = 0 /\ s \in UpTo(S, n)
      BY <2>1, <2>2, FS_EmptySet DEF UpTo
    <3>2. Q[s] = P[s]
      BY <3>1
    <3>3. P[s] = 0
      <4> HIDE DEF Q
      <4> QED BY <2>2, <3>1, Zenon DEF Adds, Adding
    <3> HIDE DEF Q
    <3> QED BY <2>2, <3>2, <3>3 DEF Adding
  <2>3. CASE s # {}
    <3>1. PICK t : t = s \ {pick[s]}
      OBVIOUS
    <3>2. pick[s] \in s
      BY <2>1, <2>3 DEF Picks
    <3>3. t \in SUBSET S /\ Cardinality(t) = Cardinality(s) - 1
      BY <2>1, <3>1, <3>2, FS_RemoveElement
    <3>4. t \in UpTo(S, n) /\ t \in UpTo(S, n + 1) /\ Cardinality(t) <= n
      BY <2>1, <3>3 DEF UpTo
    <3>5. Q[t] = P[t]
      BY <3>4
    <3>6. Q[s] = f[pick[s]] + P[t]
      <4>1. CASE Cardinality(s) <= n
        <5>1. s \in UpTo(S, n)
          BY <2>1, <4>1 DEF UpTo
        <5>2. P[s] = Adding(P, f, pick, s)
          <6> HIDE DEF Q
          <6> QED BY <5>1, Zenon DEF Adds
        <5>3. Q[s] = P[s]
          BY <4>1
        <5> HIDE DEF Q
        <5> QED BY <2>3, <3>1, <5>2, <5>3 DEF Adding
      <4>2. CASE ~ (Cardinality(s) <= n)
        BY <3>1, <4>2
      <4> QED BY <4>1, <4>2
    <3> HIDE DEF Q
    <3> QED BY <2>3, <3>1, <3>5, <3>6 DEF Adding
  <2> QED BY <2>2, <2>3
<1>3. Q = [s \in UpTo(S, n + 1) |-> Q[s]]
  OBVIOUS
<1> HIDE DEF Q
<1>4. Adds(Q, f, pick, UpTo(S, n + 1))
  BY <1>2, <1>3, Zenon DEF Adds
<1> QED BY <1>4, Zenon

\* so for all.
LEMMA AddsExist ==
  ASSUME NEW S, IsFiniteSet(S), NEW pick, Picks(pick, S), NEW f
  PROVE  \E it : Adds(it, f, pick, SUBSET S)
<1>1. \A s \in SUBSET S : IsFiniteSet(s) /\ Cardinality(s) \in Nat
  BY FS_Subset, FS_CardinalityType
<1> DEFINE N == {n \in Nat : ~ \E it : Adds(it, f, pick, UpTo(S, n))}
<1>2. N = {}
  <2> SUFFICES ASSUME N # {} PROVE FALSE
    OBVIOUS
  <2>1. N \in SUBSET Nat
    OBVIOUS
  <2> HIDE DEF N
  <2>2. PICK n \in N : \A m \in N : n <= m
    BY <2>1, Least
  <2>3. n \in Nat /\ ~ \E it : Adds(it, f, pick, UpTo(S, n))
    BY <2>2 DEF N
  <2>4. CASE n = 0
    <3>1. UpTo(S, n) = {{}}
      <4>1. \A s \in SUBSET S : Cardinality(s) <= 0 <=> s = {}
        BY <1>1, FS_EmptySet
      <4> QED BY <2>4, <4>1 DEF UpTo
    <3>2. PICK it : it = [s \in {{}} |-> 0]
      OBVIOUS
    <3>3. \A s \in {{}} : Adding(it, f, pick, s) = 0
      BY DEF Adding
    <3>4. Adds(it, f, pick, {{}})
      BY <3>2, <3>3, Zenon DEF Adds
    <3> QED BY <2>3, <3>1, <3>4
  <2>5. CASE n # 0
    <3>1. PICK m \in Nat : m = n - 1 /\ m + 1 = n /\ m < n
      <4>1. n - 1 \in Nat /\ n - 1 + 1 = n /\ n - 1 < n
        BY <2>3, <2>5
      <4> QED BY <4>1
    <3>2. m \notin N
      BY <2>2, <2>3, <3>1
    <3>3. PICK it : Adds(it, f, pick, UpTo(S, m))
      BY <3>1, <3>2 DEF N
    <3>4. \E Q : Adds(Q, f, pick, UpTo(S, m + 1))
      BY <3>3, AddsMore
    <3> QED BY <2>3, <3>1, <3>4
  <2> QED BY <2>4, <2>5
<1>3. PICK n \in Nat : n = Cardinality(S)
  BY <1>1
<1>4. UpTo(S, n) = SUBSET S
  <2>1. \A s \in SUBSET S : Cardinality(s) <= n
    BY <1>3, FS_Subset
  <2> QED BY <2>1 DEF UpTo
<1> QED BY <1>2, <1>3, <1>4, SMTT(30)

\* The numbers that f has on S.
Numbers(f, S) == \A k \in S : f[k] \in Int

\* The element taken first makes no difference.
TakesAny(it, f, S) ==
  /\ it[{}] = 0
  /\ \A s \in SUBSET S : it[s] \in Int /\ \A k \in s : it[s] = f[k] + it[s \ {k}]
LEMMA AnyFirst ==
  ASSUME NEW S, IsFiniteSet(S), NEW pick, Picks(pick, S), NEW f, Numbers(f, S), NEW it,
         Adds(it, f, pick, SUBSET S)
  PROVE  TakesAny(it, f, S)
<1>1. ASSUME NEW s \in SUBSET S PROVE it[s] = Adding(it, f, pick, s)
  BY Zenon DEF Adds
<1>2. it[{}] = 0
  BY <1>1 DEF Adding
<1> DEFINE A == {s \in SUBSET S : it[s] \notin Int}
           B == {s \in SUBSET S : \E k \in s : it[s] # f[k] + it[s \ {k}]}
<1>3. A = {}
  <2> SUFFICES ASSUME A # {} PROVE FALSE
    OBVIOUS
  <2>1. A \in SUBSET (SUBSET S)
    OBVIOUS
  <2> HIDE DEF A
  <2>2. PICK s \in A : \A k \in s : s \ {k} \notin A
    BY <2>1, SmallestSet
  <2>3. s \in SUBSET S /\ it[s] \notin Int
    BY <2>2 DEF A
  <2>4. s # {}
    <3>1. it[{}] \in Int
      BY <1>2
    <3> QED BY <2>3, <3>1
  <2>5. PICK y \in s : y = pick[s]
    BY <2>3, <2>4 DEF Picks
  <2>6. PICK t \in SUBSET S : t = s \ {y} /\ t \notin A
    BY <2>2, <2>3
  <2>7. it[s] = f[y] + it[t]
    BY <1>1, <2>3, <2>4, <2>5, <2>6 DEF Adding
  <2>8. it[t] \in Int
    BY <2>6 DEF A
  <2>9. f[y] \in Int
    BY <2>3 DEF Numbers
  <2> QED BY <2>3, <2>7, <2>8, <2>9
<1>4. \A s \in SUBSET S : it[s] \in Int
  BY <1>3
<1>5. B = {}
  <2> SUFFICES ASSUME B # {} PROVE FALSE
    OBVIOUS
  <2>1. B \in SUBSET (SUBSET S)
    OBVIOUS
  <2> HIDE DEF A, B
  <2>2. PICK s \in B : \A k \in s : s \ {k} \notin B
    BY <2>1, SmallestSet
  <2>3. PICK k \in s : s \in SUBSET S /\ it[s] # f[k] + it[s \ {k}]
    BY <2>2 DEF B
  <2>4. PICK y \in s : y = pick[s]
    BY <2>3 DEF Picks
  <2>5. it[s] = f[y] + it[s \ {y}]
    BY <1>1, <2>3, <2>4 DEF Adding
  <2>6. k # y
    BY <2>3, <2>5
  <2>7. PICK u \in SUBSET S, v \in SUBSET S, t \in SUBSET S :
          u = s \ {y} /\ v = s \ {k} /\ t = u \ {k} /\ t = v \ {y} /\ k \in u /\ y \in v
    <3>1. (s \ {y}) \ {k} = (s \ {k}) \ {y} /\ k \in s \ {y} /\ y \in s \ {k}
      BY <2>6
    <3>2. s \ {y} \in SUBSET S /\ s \ {k} \in SUBSET S /\ (s \ {k}) \ {y} \in SUBSET S
      BY <2>3
    <3> QED BY <3>1, <3>2, Zenon
  <2>8. u \notin B /\ v \notin B
    BY <2>2, <2>7
  <2>9. it[u] = f[k] + it[t] /\ it[v] = f[y] + it[t]
    BY <2>7, <2>8, ZenonT(40) DEF B
  <2>10. f[k] \in Int /\ f[y] \in Int /\ it[t] \in Int
    BY <1>4, <2>3 DEF Numbers
  <2>11. it[s] = f[y] + it[u] /\ it[s] # f[k] + it[v]
    BY <2>3, <2>5, <2>7
  <2> QED BY <2>9, <2>10, <2>11
<1> QED BY <1>2, <1>4, <1>5, Zenon DEF TakesAny

\* The sum of the values of f over S.
SumOf(f, S) == MapThenSumSet(LAMBDA k : f[k], S)

\* The table that MapThenSumSet() chooses.
AnyTable(P, f, S) ==
    P = [s \in SUBSET S |->
            IF s = {} THEN 0 ELSE f[CHOOSE y \in s : TRUE] + P[s \ {CHOOSE y \in s : TRUE}]]

LEMMA AnySum ==
  ASSUME NEW S, IsFiniteSet(S), NEW f
  PROVE  \E pick, it : /\ Picks(pick, S) /\ Adds(it, f, pick, SUBSET S) /\ SumOf(f, S) = it[S]
                       /\ pick = [s \in SUBSET S |-> CHOOSE y \in s : TRUE]
<1>1. PICK pick : pick = [s \in SUBSET S |-> CHOOSE y \in s : TRUE]
  OBVIOUS
<1>2. Picks(pick, S)
  BY <1>1 DEF Picks
<1>3. ASSUME NEW P PROVE AnyTable(P, f, S) <=> Adds(P, f, pick, SUBSET S)
  <2>1. \A s \in SUBSET S :
           (IF s = {} THEN 0 ELSE f[CHOOSE y \in s : TRUE] + P[s \ {CHOOSE y \in s : TRUE}])
           = Adding(P, f, pick, s)
    BY <1>1 DEF Adding
  <2>2. [s \in SUBSET S |->
            IF s = {} THEN 0 ELSE f[CHOOSE y \in s : TRUE] + P[s \ {CHOOSE y \in s : TRUE}]]
        = [s \in SUBSET S |-> Adding(P, f, pick, s)]
    BY <2>1, Zenon
  <2> QED BY <2>2, Zenon DEF Adds, AnyTable
<1>4. SumOf(f, S) = (CHOOSE P : AnyTable(P, f, S))[S]
  BY Zenon DEF SumOf, MapThenSumSet, MapThenFoldSet, AnyTable
<1>5. \E P : AnyTable(P, f, S)
  BY <1>2, <1>3, AddsExist, Zenon
<1>6. PICK it : it = CHOOSE P : AnyTable(P, f, S)
  OBVIOUS
<1>7. AnyTable(it, f, S)
  BY <1>5, <1>6, Zenon
<1>8. SumOf(f, S) = it[S]
  BY <1>4, <1>6, Zenon
<1> QED BY <1>1, <1>2, <1>3, <1>7, <1>8, Zenon

\* Two tables that are made with the same choice agree where both are.
SameOn(f, g, D) == \A k \in D : f[k] = g[k]
LEMMA SameTable ==
  ASSUME NEW S, IsFiniteSet(S), NEW T \in SUBSET S, NEW f, NEW it, NEW jt, NEW p, NEW q,
         Picks(p, S), Picks(q, T), SameOn(p, q, SUBSET T),
         Adds(it, f, p, SUBSET S), Adds(jt, f, q, SUBSET T)
  PROVE  it[T] = jt[T]
<1> DEFINE B == {s \in SUBSET T : it[s] # jt[s]}
<1>1. B = {}
  <2> SUFFICES ASSUME B # {} PROVE FALSE
    OBVIOUS
  <2>1. B \in SUBSET (SUBSET T) /\ IsFiniteSet(T)
    BY FS_Subset
  <2> HIDE DEF B
  <2>2. PICK s \in B : \A k \in s : s \ {k} \notin B
    BY <2>1, SmallestSet
  <2>3. s \in SUBSET T /\ it[s] # jt[s] /\ s \in SUBSET S
    BY <2>2 DEF B
  <2>4. it[s] = Adding(it, f, p, s) /\ jt[s] = Adding(jt, f, q, s)
    BY <2>3, Zenon DEF Adds
  <2>5. s # {}
    BY <2>3, <2>4 DEF Adding
  <2>6. PICK y \in s : y = p[s] /\ y = q[s]
    BY <2>3, <2>5 DEF Picks, SameOn
  <2>7. PICK t \in SUBSET T : t = s \ {y} /\ t \notin B
    BY <2>2, <2>3
  <2>8. it[t] = jt[t]
    BY <2>7 DEF B
  <2> QED BY <2>3, <2>4, <2>5, <2>6, <2>7, <2>8 DEF Adding
<1>2. T \in SUBSET T
  OBVIOUS
<1> QED BY <1>1, <1>2

\* What the sum is: nothing of nothing, a number, and the value of any element
\* and the sum of the rest.
LEMMA SumTakes ==
  ASSUME NEW S, IsFiniteSet(S), NEW f, Numbers(f, S)
  PROVE  /\ S = {} => SumOf(f, S) = 0
         /\ SumOf(f, S) \in Int
         /\ \A k \in S : SumOf(f, S) = f[k] + SumOf(f, S \ {k})
<1>1. PICK p, it : /\ Picks(p, S) /\ Adds(it, f, p, SUBSET S) /\ SumOf(f, S) = it[S]
                   /\ p = [s \in SUBSET S |-> CHOOSE y \in s : TRUE]
  BY AnySum
<1>2. /\ it[{}] = 0 /\ it[S] \in Int /\ \A k \in S : it[S] = f[k] + it[S \ {k}]
  <2>1. S \in SUBSET S
    OBVIOUS
  <2>2. TakesAny(it, f, S)
    BY <1>1, AnyFirst
  <2> QED BY <2>1, <2>2 DEF TakesAny
<1>3. ASSUME NEW k \in S PROVE it[S \ {k}] = SumOf(f, S \ {k})
  <2>1. PICK T \in SUBSET S : T = S \ {k}
    OBVIOUS
  <2>2. IsFiniteSet(T)
    BY FS_Subset
  <2>3. PICK q, jt : /\ Picks(q, T) /\ Adds(jt, f, q, SUBSET T) /\ SumOf(f, T) = jt[T]
                     /\ q = [s \in SUBSET T |-> CHOOSE y \in s : TRUE]
    BY <2>2, AnySum
  <2>4. SameOn(p, q, SUBSET T)
    BY <1>1, <2>3 DEF SameOn
  <2>5. /\ Picks(p, S) /\ Picks(q, T) /\ Adds(it, f, p, SUBSET S)
        /\ Adds(jt, f, q, SUBSET T)
    BY <1>1, <2>3
  <2>6. it[T] = jt[T]
    BY <2>4, <2>5, SameTable
  <2> QED BY <2>1, <2>3, <2>6
<1> QED BY <1>1, <1>2, <1>3

\* Any table that adds up the values of f has their sums.
HasSums(it, f, S) == \A s \in SUBSET S : it[s] = SumOf(f, s)
LEMMA TableIsSum ==
  ASSUME NEW S, IsFiniteSet(S), NEW f, Numbers(f, S), NEW pick, Picks(pick, S), NEW it,
         Adds(it, f, pick, SUBSET S)
  PROVE  HasSums(it, f, S)
<1>1. /\ it[{}] = 0
      /\ \A s \in SUBSET S : it[s] \in Int /\ \A k \in s : it[s] = f[k] + it[s \ {k}]
  <2>1. TakesAny(it, f, S)
    BY AnyFirst
  <2> QED BY <2>1, Zenon DEF TakesAny
<1> DEFINE B == {s \in SUBSET S : it[s] # SumOf(f, s)}
<1>2. B = {}
  <2> SUFFICES ASSUME B # {} PROVE FALSE
    OBVIOUS
  <2>1. B \in SUBSET (SUBSET S)
    OBVIOUS
  <2> HIDE DEF B
  <2>2. PICK s \in B : \A k \in s : s \ {k} \notin B
    BY <2>1, SmallestSet
  <2>3. s \in SUBSET S /\ it[s] # SumOf(f, s)
    BY <2>2 DEF B
  <2>4. IsFiniteSet(s) /\ Numbers(f, s)
    BY <2>3, FS_Subset DEF Numbers
  <2>5. CASE s = {}
    BY <1>1, <2>3, <2>4, <2>5, SumTakes
  <2>6. CASE s # {}
    <3>1. PICK k \in s : TRUE
      BY <2>6
    <3>2. PICK t \in SUBSET S : t = s \ {k} /\ t \notin B
      BY <2>2, <2>3, <3>1
    <3>3. it[t] = SumOf(f, t)
      BY <3>2 DEF B
    <3>4. SumOf(f, s) = f[k] + SumOf(f, s \ {k})
      BY <2>4, SumTakes
    <3> QED BY <1>1, <2>3, <3>2, <3>3, <3>4
  <2> QED BY <2>5, <2>6
<1> QED BY <1>2 DEF HasSums

\* The sum depends on the values alone.
LEMMA SumSame ==
  ASSUME NEW S, IsFiniteSet(S), NEW f, NEW g, Numbers(f, S), SameOn(f, g, S)
  PROVE  SumOf(f, S) = SumOf(g, S)
<1>1. PICK p, it : Picks(p, S) /\ Adds(it, f, p, SUBSET S) /\ SumOf(f, S) = it[S]
  BY AnySum
<1>2. Numbers(g, S)
  BY DEF Numbers, SameOn
<1>3. ASSUME NEW s \in SUBSET S PROVE Adding(it, f, p, s) = Adding(it, g, p, s)
  BY <1>1 DEF Adding, SameOn, Picks
<1>4. Adds(it, g, p, SUBSET S)
  BY <1>1, <1>3, Zenon DEF Adds
<1>5. S \in SUBSET S
  OBVIOUS
<1>6. HasSums(it, g, S)
  BY <1>1, <1>2, <1>4, TableIsSum
<1> QED BY <1>1, <1>5, <1>6 DEF HasSums

\* The sum over a set is that of a part of it and that of the rest.
LEMMA SumSplit ==
  ASSUME NEW S, IsFiniteSet(S), NEW f, Numbers(f, S), NEW T \in SUBSET S
  PROVE  SumOf(f, S) = SumOf(f, T) + SumOf(f, S \ T)
<1>1. PICK R : R = S \ T
  OBVIOUS
<1>2. \A s \in SUBSET S : IsFiniteSet(s) /\ Numbers(f, s)
  BY FS_Subset DEF Numbers
<1>3. SumOf(f, R) \in Int /\ SumOf(f, {}) = 0
  BY <1>1, <1>2, SumTakes
<1> DEFINE B == {t \in SUBSET T : SumOf(f, t \cup R) # SumOf(f, t) + SumOf(f, R)}
<1>4. B = {}
  <2> SUFFICES ASSUME B # {} PROVE FALSE
    OBVIOUS
  <2>1. B \in SUBSET (SUBSET T) /\ IsFiniteSet(T)
    BY <1>2
  <2> HIDE DEF B
  <2>2. PICK t \in B : \A k \in t : t \ {k} \notin B
    BY <2>1, SmallestSet
  <2>3. t \in SUBSET T /\ SumOf(f, t \cup R) # SumOf(f, t) + SumOf(f, R)
    BY <2>2 DEF B
  <2>4. t # {}
    <3> SUFFICES ASSUME t = {} PROVE FALSE
      OBVIOUS
    <3>1. t \cup R = R
      OBVIOUS
    <3> QED BY <1>3, <2>3, <3>1
  <2>5. PICK k \in t : TRUE
    BY <2>4
  <2>6. PICK u \in SUBSET T : u = t \ {k} /\ u \notin B
    BY <2>2, <2>3, <2>5
  <2>7. SumOf(f, u \cup R) = SumOf(f, u) + SumOf(f, R)
    BY <2>6 DEF B
  <2>8. PICK a, b : a = t \cup R /\ b = u \cup R
    OBVIOUS
  <2>9. a \in SUBSET S /\ k \in a /\ a \ {k} = b
    BY <1>1, <2>3, <2>5, <2>6, <2>8
  <2>10. SumOf(f, a) = f[k] + SumOf(f, b)
    BY <1>2, <2>9, SumTakes
  <2>11. SumOf(f, t) = f[k] + SumOf(f, u)
    BY <1>2, <2>3, <2>5, <2>6, SumTakes
  <2>12. f[k] \in Int /\ SumOf(f, u) \in Int
    <3>1. u \in SUBSET S /\ k \in S
      BY <2>3, <2>5, <2>6
    <3> QED BY <1>2, <3>1, SumTakes DEF Numbers
  <2> QED BY <1>3, <2>3, <2>7, <2>8, <2>10, <2>11, <2>12
<1>5. T \in SUBSET T /\ T \cup R = S
  BY <1>1
<1>6. SumOf(f, T \cup R) = SumOf(f, T) + SumOf(f, R)
  BY <1>4, <1>5
<1> QED BY <1>1, <1>5, <1>6

\* The sum of zeros,
LEMMA SumZero ==
  ASSUME NEW S, IsFiniteSet(S), NEW f, \A k \in S : f[k] = 0
  PROVE  SumOf(f, S) = 0
<1>1. Numbers(f, S)
  BY DEF Numbers
<1>2. \A s \in SUBSET S : IsFiniteSet(s) /\ Numbers(f, s)
  BY <1>1, FS_Subset DEF Numbers
<1> DEFINE B == {s \in SUBSET S : SumOf(f, s) # 0}
<1>3. B = {}
  <2> SUFFICES ASSUME B # {} PROVE FALSE
    OBVIOUS
  <2>1. B \in SUBSET (SUBSET S)
    OBVIOUS
  <2> HIDE DEF B
  <2>2. PICK s \in B : \A k \in s : s \ {k} \notin B
    BY <2>1, SmallestSet
  <2>3. s \in SUBSET S /\ SumOf(f, s) # 0
    BY <2>2 DEF B
  <2>4. s # {}
    BY <1>2, <2>3, SumTakes
  <2>5. PICK k \in s : TRUE
    BY <2>4
  <2>6. PICK u \in SUBSET S : u = s \ {k} /\ u \notin B
    BY <2>2, <2>3, <2>5
  <2>7. SumOf(f, s) = f[k] + SumOf(f, u)
    BY <1>2, <2>3, <2>5, <2>6, SumTakes
  <2> QED BY <2>3, <2>5, <2>6, <2>7 DEF B
<1> QED BY <1>3

\* the sum of sums,
LEMMA SumPlus ==
  ASSUME NEW S, IsFiniteSet(S), NEW f, NEW a, NEW b, Numbers(a, S), Numbers(b, S),
         \A k \in S : f[k] = a[k] + b[k]
  PROVE  SumOf(f, S) = SumOf(a, S) + SumOf(b, S)
<1>1. Numbers(f, S)
  BY DEF Numbers
<1>2. \A s \in SUBSET S : IsFiniteSet(s) /\ Numbers(f, s) /\ Numbers(a, s) /\ Numbers(b, s)
  BY <1>1, FS_Subset DEF Numbers
<1> DEFINE B == {s \in SUBSET S : SumOf(f, s) # SumOf(a, s) + SumOf(b, s)}
<1>3. B = {}
  <2> SUFFICES ASSUME B # {} PROVE FALSE
    OBVIOUS
  <2>1. B \in SUBSET (SUBSET S)
    OBVIOUS
  <2> HIDE DEF B
  <2>2. PICK s \in B : \A k \in s : s \ {k} \notin B
    BY <2>1, SmallestSet
  <2>3. s \in SUBSET S /\ SumOf(f, s) # SumOf(a, s) + SumOf(b, s)
    BY <2>2 DEF B
  <2>4. s # {}
    <3>1. SumOf(f, {}) = 0 /\ SumOf(a, {}) = 0 /\ SumOf(b, {}) = 0
      BY <1>2, SumTakes
    <3> QED BY <2>3, <3>1
  <2>5. PICK k \in s : TRUE
    BY <2>4
  <2>6. PICK u \in SUBSET S : u = s \ {k} /\ u \notin B
    BY <2>2, <2>3, <2>5
  <2>7. /\ SumOf(f, s) = f[k] + SumOf(f, u) /\ SumOf(a, s) = a[k] + SumOf(a, u)
        /\ SumOf(b, s) = b[k] + SumOf(b, u)
    BY <1>2, <2>3, <2>5, <2>6, SumTakes
  <2>8. SumOf(f, u) = SumOf(a, u) + SumOf(b, u)
    BY <2>6 DEF B
  <2>9. SumOf(a, u) \in Int /\ SumOf(b, u) \in Int
    BY <1>2, <2>6, SumTakes
  <2>10. f[k] = a[k] + b[k] /\ a[k] \in Int /\ b[k] \in Int
    BY <2>3, <2>5 DEF Numbers
  <2> QED BY <2>3, <2>7, <2>8, <2>9, <2>10
<1> QED BY <1>3

\* and the sum over the sets of elements with one name each.
Fiber(nm, D, y) == {k \in D : nm[k] = y}
FiberSums(g, Y, m, nm, D) ==
    Y = {nm[k] : k \in D} /\ \A y \in Y : g[y] = SumOf(m, Fiber(nm, D, y))
LEMMA SumFibers ==
  ASSUME NEW D, IsFiniteSet(D), NEW m, Numbers(m, D), NEW nm, NEW Y, NEW g,
         FiberSums(g, Y, m, nm, D)
  PROVE  IsFiniteSet(Y) /\ Numbers(g, Y) /\ SumOf(g, Y) = SumOf(m, D)
<1>6. Y = {nm[k] : k \in D} /\ \A y \in Y : g[y] = SumOf(m, Fiber(nm, D, y))
  BY DEF FiberSums
<1>1. \A s \in SUBSET D : IsFiniteSet(s) /\ Numbers(m, s) /\ SumOf(m, s) \in Int
  <2>1. \A s \in SUBSET D : IsFiniteSet(s) /\ Numbers(m, s)
    BY FS_Subset DEF Numbers
  <2> QED BY <2>1, SumTakes
<1>2. IsFiniteSet(Y)
  <2>1. PICK f : f = [k \in D |-> nm[k]]
    OBVIOUS
  <2>2. f \in Surjection(D, Y)
    BY <1>6, <2>1 DEF Surjection
  <2> QED BY <2>2, FS_Surjection
<1>3. Numbers(g, Y)
  <2>1. \A y \in Y : Fiber(nm, D, y) \in SUBSET D
    BY DEF Fiber
  <2> QED BY <1>1, <1>6, <2>1 DEF Numbers
<1> DEFINE Pre(z) == {k \in D : nm[k] \in z}
           B == {z \in SUBSET Y : SumOf(g, z) # SumOf(m, Pre(z))}
<1>4. B = {}
  <2> SUFFICES ASSUME B # {} PROVE FALSE
    OBVIOUS
  <2>1. B \in SUBSET (SUBSET Y)
    OBVIOUS
  <2> HIDE DEF B
  <2>2. PICK z \in B : \A y \in z : z \ {y} \notin B
    BY <1>2, <2>1, SmallestSet
  <2>3. z \in SUBSET Y /\ SumOf(g, z) # SumOf(m, Pre(z))
    BY <2>2 DEF B
  <2>4. IsFiniteSet(z) /\ Numbers(g, z)
    BY <1>2, <1>3, <2>3, FS_Subset DEF Numbers
  <2>5. z # {}
    <3> SUFFICES ASSUME z = {} PROVE FALSE
      OBVIOUS
    <3>1. Pre(z) = {}
      OBVIOUS
    <3>2. SumOf(m, {}) = 0 /\ SumOf(g, {}) = 0
      BY <1>1, <2>4, SumTakes
    <3> QED BY <2>3, <3>1, <3>2
  <2>6. PICK y \in z : TRUE
    BY <2>5
  <2>7. PICK u \in SUBSET Y : u = z \ {y} /\ u \notin B
    BY <2>2, <2>3, <2>6
  <2>8. SumOf(g, u) = SumOf(m, Pre(u))
    BY <2>7 DEF B
  <2>9. SumOf(g, z) = g[y] + SumOf(g, u)
    BY <2>4, <2>6, <2>7, SumTakes
  <2>10. PICK s, t, r : s = Pre(z) /\ t = Fiber(nm, D, y) /\ r = Pre(u)
    OBVIOUS
  <2>11. s \in SUBSET D /\ t \in SUBSET s /\ s \ t = r
    BY <2>6, <2>7, <2>10 DEF Fiber
  <2>12. SumOf(m, s) = SumOf(m, t) + SumOf(m, r)
    BY <1>1, <2>11, SumSplit
  <2>13. g[y] = SumOf(m, t)
    BY <1>6, <2>3, <2>6, <2>10
  <2> QED BY <2>3, <2>8, <2>9, <2>10, <2>12, <2>13
<1>5. Pre(Y) = D /\ Y \in SUBSET Y
  BY <1>6
<1> HIDE DEF Pre
<1> QED BY <1>2, <1>3, <1>4, <1>5

-----------------------------------------------------------------------------
(* Recursive functions *)

\* G[p][f] is the value at p of a function whose values of smaller rank are f's.
Follows(G, I, V, rank) ==
    \A p \in I : \A f, g \in [I -> V] :
        (\A q \in I : rank[q] < rank[p] => f[q] = g[q]) => G[p][f] = G[p][g]
Solves(G, I, V, rank, f, k) == f \in [I -> V] /\ \A p \in I : rank[p] < k => f[p] = G[p][f]

\* One rank more,
LEMMA SolvesMore ==
    ASSUME NEW I, NEW V, NEW rank \in [I -> Nat], NEW G \in [I -> [[I -> V] -> V]],
           Follows(G, I, V, rank), NEW k \in Nat, NEW f, Solves(G, I, V, rank, f, k)
    PROVE  \E g : Solves(G, I, V, rank, g, k + 1)
<1>1. f \in [I -> V] /\ \A p \in I : rank[p] < k => f[p] = G[p][f]
  BY DEF Solves
<1>2. PICK g : g = [p \in I |-> IF rank[p] < k + 1 THEN G[p][f] ELSE f[p]]
  OBVIOUS
<1>3. g \in [I -> V]
  <2>1. \A p \in I : G[p][f] \in V /\ f[p] \in V
    <3>1. \A p \in I : G[p] \in [[I -> V] -> V]
      OBVIOUS
    <3> QED BY <1>1, <3>1
  <2> QED BY <1>2, <2>1
<1>4. \A p \in I : rank[p] < k => g[p] = f[p]
  BY <1>1, <1>2
<1>5. ASSUME NEW p \in I, rank[p] < k + 1 PROVE g[p] = G[p][g]
  <2>1. \A q \in I : rank[q] < rank[p] => rank[q] < k
    BY <1>5
  <2>2. \A q \in I : rank[q] < rank[p] => f[q] = g[q]
    BY <1>4, <2>1, Zenon
  <2>3. G[p][f] = G[p][g]
    BY <1>1, <1>3, <2>2, Zenon DEF Follows
  <2>4. g[p] = G[p][f]
    BY <1>2, <1>5, Zenon
  <2> QED BY <2>3, <2>4, Zenon
<1> QED BY <1>3, <1>5, Zenon DEF Solves

\* so a function that follows G exists.
Ranked(G, I, V, rank, m) ==
    /\ V # {} /\ m \in Nat /\ rank \in [I -> 0 .. m]
    /\ G \in [I -> [[I -> V] -> V]] /\ Follows(G, I, V, rank)
Recursive(D, G, I, V) == D \in [I -> V] /\ \A p \in I : D[p] = G[p][D]
LEMMA RecursionIs ==
    ASSUME NEW I, NEW V, NEW m, NEW rank, NEW G, Ranked(G, I, V, rank, m)
    PROVE  \E D : Recursive(D, G, I, V)
<1>0. /\ V # {} /\ m \in Nat /\ rank \in [I -> 0 .. m]
      /\ G \in [I -> [[I -> V] -> V]] /\ Follows(G, I, V, rank)
  BY DEF Ranked
<1> DEFINE S == {k \in Nat : ~ \E f : Solves(G, I, V, rank, f, k)}
<1>1. rank \in [I -> Nat] /\ \A p \in I : rank[p] \in Nat /\ rank[p] < m + 1
  BY <1>0
<1>2. S = {}
  <2> SUFFICES ASSUME S # {} PROVE FALSE
    OBVIOUS
  <2>1. S \in SUBSET Nat
    OBVIOUS
  <2> HIDE DEF S
  <2>2. PICK k \in S : \A j \in S : k <= j
    BY <2>1, Least
  <2>3. k \in Nat /\ ~ \E f : Solves(G, I, V, rank, f, k)
    BY <2>2 DEF S
  <2>4. CASE k = 0
    <3>1. PICK v \in V : TRUE
      BY <1>0
    <3>2. [p \in I |-> v] \in [I -> V] /\ \A p \in I : ~ (rank[p] < 0)
      BY <1>1
    <3>3. Solves(G, I, V, rank, [p \in I |-> v], k)
      BY <2>4, <3>2 DEF Solves
    <3> QED BY <2>3, <3>3, Zenon
  <2>5. CASE k # 0
    <3>1. PICK j \in Nat : k = j + 1
      <4>1. k - 1 \in Nat /\ k = (k - 1) + 1
        BY <2>3, <2>5
      <4> QED BY <4>1, Zenon
    <3>2. j \notin S
      BY <2>2, <3>1
    <3>3. PICK f : Solves(G, I, V, rank, f, j)
      BY <3>2 DEF S
    <3>4. \E g : Solves(G, I, V, rank, g, j + 1)
      BY <1>0, <1>1, <3>3, SolvesMore
    <3> QED BY <2>3, <3>1, <3>4
  <2> QED BY <2>4, <2>5
<1>3. PICK k \in Nat : k = m + 1
  BY <1>0
<1>4. PICK D : Solves(G, I, V, rank, D, k)
  BY <1>2
<1>5. D \in [I -> V] /\ \A p \in I : D[p] = G[p][D]
  BY <1>1, <1>3, <1>4, Zenon DEF Solves
<1> QED BY <1>5, Zenon DEF Recursive

-----------------------------------------------------------------------------
(* Parts of sequences *)

\* A sequence after another.
LEMMA CatIn ==
    ASSUME NEW S, NEW a \in Seq(S), NEW b \in Seq(S)
    PROVE  a \o b \in Seq(S) /\ Len(a \o b) = Len(a) + Len(b)
OBVIOUS

\* What two sequences make, in one piece.
CatHas(c, S, a, b, m, n) ==
    /\ c \in Seq(S) /\ Len(c) = m + n
    /\ \A j \in 1 .. m : c[j] = a[j]
    /\ \A j \in 1 .. n : c[m + j] = b[j]
LEMMA CatShape ==
    ASSUME NEW S, NEW a \in Seq(S), NEW b \in Seq(S), NEW m \in Nat, NEW n \in Nat,
           Len(a) = m, Len(b) = n
    PROVE  CatHas(Cat(a, b), S, a, b, m, n)
BY CatAt DEF CatHas

\* A part from the middle to the end, one byte shorter than the rest.
LEMMA AroundIs ==
    ASSUME NEW S, NEW s \in Seq(S), NEW i \in 1 .. Len(s)
    PROVE  SubSeq(s, 1, i - 1) \o <<s[i]>> \o SubSeq(s, i + 1, Len(s)) = s
<1>1. PICK k \in Nat, m \in Nat : i = k + 1 /\ Len(s) = k + 1 + m
  <2>1. i - 1 \in Nat /\ Len(s) - i \in Nat /\ i = (i - 1) + 1 /\ Len(s) = (i - 1) + 1 + (Len(s) - i)
    OBVIOUS
  <2> QED BY <2>1, Zenon
<1>2. k \in 0 .. Len(s) /\ k + 1 \in 0 .. Len(s) /\ i - 1 = k /\ Len(s) - (k + 1) = m
      /\ s[i] \in S /\ k + 1 \in 1 .. k + 1
  BY <1>1
<1>3. PICK a \in Seq(S) : /\ a = SubSeq(s, 1, k) /\ Len(a) = k
                          /\ \A j \in 1 .. k : a[j] = s[j]
  <2>1. k \in 0 .. Len(s)
    BY <1>2
  <2>2. /\ SubSeq(s, 1, k) \in Seq(S) /\ Len(SubSeq(s, 1, k)) = k
        /\ \A j \in 1 .. k : SubSeq(s, 1, k)[j] = s[j]
    BY <2>1, SubSeqIs, Zenon
  <2> QED BY <2>2, Zenon
<1>4. PICK b \in Seq(S) : /\ b = SubSeq(s, (k + 1) + 1, Len(s)) /\ Len(b) = m
                          /\ \A j \in 1 .. m : b[j] = s[(k + 1) + j]
  <2>1. PICK l \in 0 .. Len(s) : l = k + 1
    BY <1>2
  <2>2. /\ SubSeq(s, l + 1, Len(s)) \in Seq(S) /\ Len(SubSeq(s, l + 1, Len(s))) = Len(s) - l
        /\ \A j \in 1 .. Len(s) - l : SubSeq(s, l + 1, Len(s))[j] = s[l + j]
    BY SubSeqIs, Zenon
  <2> QED BY <1>2, <2>1, <2>2, Zenon
<1>5. PICK h \in S : h = s[i]
  BY <1>2
<1>6. PICK c \in Seq(S) : /\ c = Cat(a, <<h>>) /\ Len(c) = k + 1
                          /\ \A j \in 1 .. k : c[j] = a[j]
                          /\ c[k + 1] = h
  <2>1. <<h>> \in Seq(S) /\ Len(<<h>>) = 1 /\ <<h>>[1] = h /\ 1 \in 1 .. 1 /\ 1 \in Nat
    OBVIOUS
  <2>2. PICK l \in Seq(S), z \in Nat : l = <<h>> /\ z = 1 /\ Len(l) = z /\ l[1] = h /\ 1 \in 1 .. z
    BY <2>1, Zenon
  <2>3. /\ Cat(a, l) \in Seq(S) /\ Len(Cat(a, l)) = k + z
        /\ \A j \in 1 .. k : Cat(a, l)[j] = a[j]
        /\ \A j \in 1 .. z : Cat(a, l)[k + j] = l[j]
    <3>1. Len(a) = k /\ Len(l) = z
      BY <1>3, <2>2, Zenon
    <3> HIDE <2>2
    <3>2. CatHas(Cat(a, l), S, a, l, k, z)
      BY <3>1, CatShape, Zenon
    <3> QED BY <3>2, Zenon DEF CatHas
  <2> QED BY <2>2, <2>3, Zenon
<1>7. PICK d \in Seq(S) : /\ d = Cat(c, b) /\ Len(d) = (k + 1) + m
                          /\ \A j \in 1 .. k + 1 : d[j] = c[j]
                          /\ \A j \in 1 .. m : d[(k + 1) + j] = b[j]
  <2>1. PICK l \in Nat : l = k + 1
    OBVIOUS
  <2>2. /\ Cat(c, b) \in Seq(S) /\ Len(Cat(c, b)) = l + m
        /\ \A j \in 1 .. l : Cat(c, b)[j] = c[j]
        /\ \A j \in 1 .. m : Cat(c, b)[l + j] = b[j]
    <3>1. Len(c) = l /\ Len(b) = m
      BY <1>4, <1>6, <2>1, Zenon
    <3> HIDE <2>1
    <3>2. CatHas(Cat(c, b), S, c, b, l, m)
      BY <3>1, CatShape, Zenon
    <3> QED BY <3>2, Zenon DEF CatHas
  <2> QED BY <2>1, <2>2, Zenon
<1>8. ASSUME NEW j \in 1 .. (k + 1) + m PROVE d[j] = s[j]
  <2>1. CASE j \in 1 .. k
    <3>1. j \in 1 .. k + 1
      BY <2>1
    <3> QED BY <1>3, <1>6, <1>7, <2>1, <3>1, Zenon
  <2>2. CASE j = k + 1
    BY <1>1, <1>2, <1>5, <1>6, <1>7, <2>2, Zenon
  <2>3. ASSUME NEW l \in 1 .. m, j = (k + 1) + l PROVE d[j] = s[j]
    BY <1>4, <1>7, <2>3, Zenon
  <2>4. j \in 1 .. k \/ j = k + 1 \/ \E l \in 1 .. m : j = (k + 1) + l
    <3>1. j \in 1 .. k \/ j = k + 1 \/ (j - (k + 1) \in 1 .. m /\ j = (k + 1) + (j - (k + 1)))
      OBVIOUS
    <3> QED BY <3>1, Zenon
  <2> QED BY <2>1, <2>2, <2>3, <2>4, Zenon
<1>9. d = s
  <2>1. PICK l \in Nat : l = (k + 1) + m
    OBVIOUS
  <2>2. Len(d) = l /\ Len(s) = l /\ \A j \in 1 .. l : d[j] = s[j]
    BY <1>1, <1>7, <1>8, <2>1, Zenon
  <2> HIDE <2>1
  <2> QED BY <2>2, SeqEq
<1>10. SubSeq(s, i + 1, Len(s)) = b /\ SubSeq(s, 1, i - 1) = a
  BY <1>1, <1>2, <1>3, <1>4, Zenon
<1> QED BY <1>5, <1>6, <1>7, <1>9, <1>10, Zenon DEF Cat

\* A part from the middle, element by element.
LEMMA PartIs ==
    ASSUME NEW S, NEW s \in Seq(S), NEW from \in Nat, NEW l \in Nat, from + l <= Len(s)
    PROVE  /\ SubSeq(s, from + 1, from + l) \in Seq(S) /\ Len(SubSeq(s, from + 1, from + l)) = l
           /\ \A j \in 1 .. l : SubSeq(s, from + 1, from + l)[j] = s[from + j]
<1>1. Len(s) \in Nat /\ \A j \in 1 .. Len(s) : s[j] \in S
  OBVIOUS
<1>2. SubSeq(s, from + 1, from + l) \in Seq(S) /\ Len(SubSeq(s, from + 1, from + l)) = l
  BY <1>1
<1>3. \A j \in 1 .. l : SubSeq(s, from + 1, from + l)[j] = s[from + j]
  BY <1>1
<1> QED BY <1>2, <1>3

\* A byte before a rest.
LEMMA ByteThenRest ==
    ASSUME NEW S, NEW w \in Seq(S), NEW k \in Nat, k < Len(w)
    PROVE  <<w[k + 1]>> \o SubSeq(w, (k + 1) + 1, Len(w)) = SubSeq(w, k + 1, Len(w))
<1>1. PICK l \in Nat : Len(w) = (k + 1) + l /\ Len(w) = k + (l + 1)
  <2>1. Len(w) - (k + 1) \in Nat
    OBVIOUS
  <2>2. PICK l \in Nat : l = Len(w) - (k + 1)
    BY <2>1
  <2> QED BY <2>2
<1>2. PICK h \in S : h = w[k + 1]
  OBVIOUS
<1>3. PICK m \in Nat, u \in Nat : m = k + 1 /\ u = l + 1
  OBVIOUS
<1>4. PICK r \in Seq(S) : /\ r = SubSeq(w, m + 1, m + l) /\ Len(r) = l
                          /\ \A j \in 1 .. l : r[j] = w[m + j]
  <2>1. m + l <= Len(w)
    BY <1>1, <1>3
  <2>2. /\ SubSeq(w, m + 1, m + l) \in Seq(S) /\ Len(SubSeq(w, m + 1, m + l)) = l
        /\ \A j \in 1 .. l : SubSeq(w, m + 1, m + l)[j] = w[m + j]
    BY <2>1, PartIs
  <2> QED BY <2>2, Zenon
<1>5. PICK q \in Seq(S) : /\ q = SubSeq(w, k + 1, k + u) /\ Len(q) = u
                          /\ \A j \in 1 .. u : q[j] = w[k + j]
  <2>1. k + u <= Len(w)
    BY <1>1, <1>3
  <2>2. /\ SubSeq(w, k + 1, k + u) \in Seq(S) /\ Len(SubSeq(w, k + 1, k + u)) = u
        /\ \A j \in 1 .. u : SubSeq(w, k + 1, k + u)[j] = w[k + j]
    BY <2>1, PartIs
  <2> QED BY <2>2, Zenon
<1>6. PICK c \in Seq(S) : /\ c = <<h>> \o r /\ Len(c) = u /\ c[1] = h
                          /\ \A i \in 1 .. l : c[i + 1] = r[i]
  <2>1. Len(r) = l
    BY <1>4, Zenon
  <2> HIDE <1>4
  <2>2. /\ <<h>> \o r \in Seq(S) /\ Len(<<h>> \o r) = l + 1 /\ (<<h>> \o r)[1] = h
        /\ \A i \in 1 .. l : (<<h>> \o r)[i + 1] = r[i]
    BY <2>1, ConsIs
  <2> QED BY <1>3, <2>2, Zenon
<1>7. ASSUME NEW j \in 1 .. u PROVE c[j] = q[j]
  <2>1. CASE j = 1
    <3>1. q[1] = w[k + 1]
      BY <1>5, <2>1, Zenon
    <3> QED BY <1>2, <1>6, <2>1, <3>1, Zenon
  <2>2. CASE j # 1
    <3>1. PICK i \in 1 .. l : j = i + 1 /\ m + i = k + j
      <4>1. j - 1 \in 1 .. l /\ j = (j - 1) + 1 /\ m + (j - 1) = k + j
        BY <1>3, <2>2
      <4> QED BY <4>1, Zenon
    <3>2. c[j] = r[i] /\ r[i] = w[m + i] /\ q[j] = w[k + j]
      BY <1>4, <1>5, <1>6, <3>1, Zenon
    <3> QED BY <3>1, <3>2, Zenon
  <2> QED BY <2>1, <2>2
<1>8. c = q
  <2>1. Len(c) = u /\ Len(q) = u /\ \A j \in 1 .. u : c[j] = q[j]
    BY <1>5, <1>6, <1>7, Zenon
  <2> HIDE <1>5, <1>6
  <2> QED BY <2>1, SeqEq
<1>9. Len(w) = m + l /\ Len(w) = k + u
  BY <1>1, <1>3
<1> QED BY <1>2, <1>3, <1>4, <1>5, <1>6, <1>8, <1>9, Zenon

\* A piece, from one position to before another.
LEMMA PieceIn ==
    ASSUME NEW A, NEW s \in Seq(A), NEW n \in Nat, n = Len(s), NEW p \in 1 .. n + 1, NEW e \in p .. n + 1
    PROVE  SubSeq(s, p, e - 1) \in Seq(A)
<1>1. PICK a \in Nat, l \in Nat : p = a + 1 /\ e - 1 = a + l
  <2>1. p - 1 \in Nat /\ e - p \in Nat /\ p = (p - 1) + 1 /\ e - 1 = (p - 1) + (e - p)
    OBVIOUS
  <2> QED BY <2>1, Zenon
<1>2. a + l <= Len(s)
  BY <1>1
<1>3. SubSeq(s, a + 1, a + l) \in Seq(A)
  BY <1>2, PartIs, Zenon
<1> QED BY <1>1, <1>3, Zenon

\* Appending to what is behind a first element.
Behind(head, r, z) == <<head>> \o Append(r, z) = Append(<<head>> \o r, z)
LEMMA AppendBehind == ASSUME NEW S, NEW head \in S, NEW r \in Seq(S), NEW z \in S PROVE Behind(head, r, z)
<1>1. PICK n \in Nat, m \in Nat : n = Len(r) /\ m = n + 1
  OBVIOUS
<1>2. PICK u \in Seq(S) : /\ u = Append(r, z) /\ Len(u) = m /\ u[m] = z
                          /\ \A i \in 1 .. n : u[i] = r[i]
  <2>1. /\ Append(r, z) \in Seq(S) /\ Len(r) \in Nat /\ Len(Append(r, z)) = Len(r) + 1
        /\ \A k \in 1 .. Len(r) : Append(r, z)[k] = r[k]
        /\ Append(r, z)[Len(r) + 1] = z
    BY AppendIs
  <2> QED BY <1>1, <2>1, Zenon
<1>3. PICK a \in Seq(S) : /\ a = <<head>> \o u /\ Len(a) = m + 1 /\ a[1] = head
                          /\ \A i \in 1 .. m : a[i + 1] = u[i]
  <2>1. Len(u) = m
    BY <1>2, Zenon
  <2> HIDE <1>2
  <2>2. /\ <<head>> \o u \in Seq(S) /\ Len(<<head>> \o u) = m + 1 /\ (<<head>> \o u)[1] = head
        /\ \A i \in 1 .. m : (<<head>> \o u)[i + 1] = u[i]
    BY <2>1, ConsIs
  <2> QED BY <2>2, Zenon
<1>4. PICK c \in Seq(S) : /\ c = <<head>> \o r /\ Len(c) = n + 1 /\ c[1] = head
                          /\ \A i \in 1 .. n : c[i + 1] = r[i]
  <2>1. Len(r) = n
    BY <1>1, Zenon
  <2> HIDE <1>1
  <2>2. /\ <<head>> \o r \in Seq(S) /\ Len(<<head>> \o r) = n + 1 /\ (<<head>> \o r)[1] = head
        /\ \A i \in 1 .. n : (<<head>> \o r)[i + 1] = r[i]
    BY <2>1, ConsIs
  <2> QED BY <2>2, Zenon
<1>5. PICK b \in Seq(S) : /\ b = Append(c, z) /\ Len(b) = m + 1 /\ b[m + 1] = z
                          /\ \A i \in 1 .. m : b[i] = c[i]
  <2>1. /\ Append(c, z) \in Seq(S) /\ Len(c) \in Nat /\ Len(Append(c, z)) = Len(c) + 1
        /\ \A k \in 1 .. Len(c) : Append(c, z)[k] = c[k]
        /\ Append(c, z)[Len(c) + 1] = z
    BY AppendIs
  <2>2. Len(c) = m
    BY <1>1, <1>4, Zenon
  <2> QED BY <2>1, <2>2, Zenon
<1>6. ASSUME NEW i \in 1 .. m + 1 PROVE a[i] = b[i]
  <2>1. CASE i = 1
    <3>1. 1 \in 1 .. m
      BY <1>1
    <3> QED BY <1>3, <1>4, <1>5, <2>1, <3>1, Zenon
  <2>2. CASE i = m + 1
    <3>1. m \in 1 .. m
      BY <1>1
    <3> QED BY <1>2, <1>3, <1>5, <2>2, <3>1, Zenon
  <2>3. ASSUME NEW j \in 1 .. n, i = j + 1, j \in 1 .. m, i \in 1 .. m PROVE a[i] = b[i]
    BY <1>2, <1>3, <1>4, <1>5, <2>3, ZenonT(40)
  <2>4. i = 1 \/ i = m + 1 \/ \E j \in 1 .. n : i = j + 1 /\ j \in 1 .. m /\ i \in 1 .. m
    <3>1. i = 1 \/ i = m + 1
            \/ (i - 1 \in 1 .. n /\ i = (i - 1) + 1 /\ i - 1 \in 1 .. m /\ i \in 1 .. m)
      BY <1>1
    <3> QED BY <3>1, Zenon
  <2> QED BY <2>1, <2>2, <2>3, <2>4, Zenon
<1>7. a = b
  <2>1. PICK k \in Nat : k = m + 1
    OBVIOUS
  <2>2. Len(a) = k /\ Len(b) = k /\ \A i \in 1 .. k : a[i] = b[i]
    BY <1>3, <1>5, <1>6, <2>1, Zenon
  <2> HIDE <1>3, <1>5, <2>1
  <2> QED BY <2>2, SeqEq
<1> QED BY <1>2, <1>3, <1>4, <1>5, <1>7, Zenon DEF Behind

\* Three sequences, one after another.
LEMMA CatCat ==
    ASSUME NEW S, NEW a \in Seq(S), NEW b \in Seq(S), NEW c \in Seq(S)
    PROVE  Cat(Cat(a, b), c) = Cat(a, Cat(b, c))
<1>1. (a \o b) \o c = a \o (b \o c)
  OBVIOUS
<1> QED BY <1>1, Zenon DEF Cat

\* A part of one element.
LEMMA OnePart ==
    ASSUME NEW A, NEW s \in Seq(A), NEW p \in 1 .. Len(s) PROVE SubSeq(s, p, p) = <<s[p]>>
<1>1. PICK k \in Nat : p = k + 1 /\ k + 1 <= Len(s)
  <2>1. p - 1 \in Nat /\ p = (p - 1) + 1 /\ (p - 1) + 1 <= Len(s)
    OBVIOUS
  <2> QED BY <2>1, Zenon
<1>2. PICK e \in Seq(A) : e = SubSeq(s, k + 1, k + 1) /\ Len(e) = 1 /\ e[1] = s[k + 1]
  <2>1. PICK l \in Nat : l = 1 /\ k + l <= Len(s) /\ 1 \in 1 .. l
    BY <1>1
  <2>2. /\ SubSeq(s, k + 1, k + l) \in Seq(A) /\ Len(SubSeq(s, k + 1, k + l)) = l
        /\ \A j \in 1 .. l : SubSeq(s, k + 1, k + l)[j] = s[k + j]
    <3>1. l \in Nat /\ k + l <= Len(s)
      BY <2>1
    <3> QED BY <3>1, PartIs, SMT
  <2> QED BY <2>1, <2>2, Zenon
<1>3. PICK h \in A : h = s[p]
  OBVIOUS
<1>4. e = <<h>>
  <2>1. PICK d \in Seq(A), l \in Nat : d = <<h>> /\ l = 1 /\ Len(d) = l /\ d[1] = h
    <3>1. <<h>> \in Seq(A) /\ Len(<<h>>) = 1 /\ <<h>>[1] = h /\ 1 \in Nat
      OBVIOUS
    <3> QED BY <3>1, Zenon
  <2>2. \A j \in 1 .. l : e[j] = d[j]
    BY <1>1, <1>2, <1>3, <2>1
  <2> QED BY <1>2, <2>1, <2>2, SeqEq, Zenon
<1> QED BY <1>1, <1>2, <1>3, <1>4, Zenon

\* A part from the middle, with a name for it.
PartSays(s, from, l, c) ==
    c = SubSeq(s, from + 1, from + l) /\ Len(c) = l /\ \A j \in 1 .. l : c[j] = s[from + j]
LEMMA PartHas ==
    ASSUME NEW S, NEW s \in Seq(S), NEW from \in Nat, NEW l \in Nat, from + l <= Len(s)
    PROVE  \E c \in Seq(S) : PartSays(s, from, l, c)
<1>1. /\ SubSeq(s, from + 1, from + l) \in Seq(S) /\ Len(SubSeq(s, from + 1, from + l)) = l
      /\ \A j \in 1 .. l : SubSeq(s, from + 1, from + l)[j] = s[from + j]
  BY PartIs
<1> QED BY <1>1, Zenon DEF PartSays

\* Two parts that have the same elements are the same.
SameParts(A, a, x1, b, y1, l) ==
    /\ a \in Seq(A) /\ b \in Seq(A) /\ x1 \in Nat /\ y1 \in Nat /\ l \in Nat
    /\ x1 + l <= Len(a) /\ y1 + l <= Len(b) /\ \A j \in 1 .. l : a[x1 + j] = b[y1 + j]
SamePart(a, x1, b, y1, l) == SubSeq(a, x1 + 1, x1 + l) = SubSeq(b, y1 + 1, y1 + l)
LEMMA PartsAgree ==
    ASSUME NEW A, NEW a, NEW b, NEW x1, NEW y1, NEW l, SameParts(A, a, x1, b, y1, l)
    PROVE  SamePart(a, x1, b, y1, l)
<1>0. /\ a \in Seq(A) /\ b \in Seq(A) /\ x1 \in Nat /\ y1 \in Nat /\ l \in Nat
      /\ x1 + l <= Len(a) /\ y1 + l <= Len(b) /\ \A j \in 1 .. l : a[x1 + j] = b[y1 + j]
  BY Zenon DEF SameParts
<1>1. PICK c \in Seq(A) : PartSays(a, x1, l, c)
  BY <1>0, PartHas, Zenon
<1>2. PICK d \in Seq(A) : PartSays(b, y1, l, d)
  BY <1>0, PartHas, Zenon
<1>3. \A j \in 1 .. l : c[j] = d[j]
  BY <1>0, <1>1, <1>2, Zenon DEF PartSays
<1>4. c = d
  <2>1. Len(c) = l /\ Len(d) = l
    BY <1>1, <1>2, Zenon DEF PartSays
  <2> QED BY <1>0, <1>3, <2>1, SeqEq, Zenon
<1> QED BY <1>1, <1>2, <1>4, Zenon DEF PartSays, SamePart

\* A sequence behind a first element.
Conses(h, r, a, l) ==
    /\ a = <<h>> \o r /\ l = Len(r) /\ Len(a) = l + 1 /\ a[1] = h
    /\ \A k \in 1 .. l : a[k + 1] = r[k]
LEMMA ConsHas ==
    ASSUME NEW S, NEW h \in S, NEW r \in Seq(S) PROVE \E a \in Seq(S), l \in Nat : Conses(h, r, a, l)
<1>1. PICK l \in Nat : l = Len(r)
  OBVIOUS
<1>2. /\ <<h>> \o r \in Seq(S) /\ Len(<<h>> \o r) = l + 1 /\ (<<h>> \o r)[1] = h
      /\ \A k \in 1 .. l : (<<h>> \o r)[k + 1] = r[k]
  BY <1>1, ConsIs
<1> QED BY <1>1, <1>2, Zenon DEF Conses

-----------------------------------------------------------------------------
(* Positions *)

\* The least element is the one Min chooses.
LEMMA MinIs ==
    ASSUME NEW S \in SUBSET Nat, NEW least \in S, \A y \in S : least <= y PROVE Min(S) = least
<1>1. \A y \in S : y \in Nat
  OBVIOUS
<1>2. \E y \in S : \A z \in S : y =< z
  OBVIOUS
<1>3. PICK y : y = CHOOSE w \in S : \A z \in S : w =< z
  OBVIOUS
<1>4. y \in S /\ \A z \in S : y =< z
  BY <1>2, <1>3, Zenon
<1>5. y = least
  BY <1>1, <1>4
<1> QED BY <1>3, <1>5 DEF Min

\* The greatest element is the one Max chooses.
LEMMA GreatestIs ==
    ASSUME NEW S \in SUBSET Nat, NEW most \in S, \A y \in S : y <= most PROVE Max(S) = most
<1>1. \A y \in S : y \in Nat
  OBVIOUS
<1>2. \E y \in S : \A z \in S : y >= z
  BY <1>1
<1>3. PICK y : y = CHOOSE w \in S : \A z \in S : w >= z
  OBVIOUS
<1>4. y \in S /\ \A z \in S : y >= z
  BY <1>2, <1>3, Zenon
<1>5. y = most
  BY <1>1, <1>4
<1> QED BY <1>3, <1>5 DEF Max

\* A set of positions that is not empty has a last one.
LEMMA LastPlace ==
    ASSUME NEW n \in Nat, NEW S \in SUBSET (1 .. n), S # {}
    PROVE  \E m \in S : (\A y \in S : y <= m) /\ Max(S) = m
<1> DEFINE T == {n - y : y \in S}
<1>1. T \in SUBSET Nat /\ T # {}
  <2>1. \A y \in S : n - y \in Nat
    OBVIOUS
  <2> QED BY <2>1, Zenon
<1> HIDE DEF T
<1>2. PICK t \in T : \A u \in T : t <= u
  BY <1>1, Least
<1>3. PICK m \in S : t = n - m
  BY DEF T
<1>4. \A y \in S : n - y \in T
  BY DEF T
<1>5. \A y \in S : y <= m
  BY <1>2, <1>3, <1>4
<1>6. S \in SUBSET Nat
  OBVIOUS
<1>7. Max(S) = m
  BY <1>5, <1>6, GreatestIs
<1> QED BY <1>5, <1>7

\* Whatever holds of a position when it holds of all behind it, holds of each.
LEMMA FromTheEnd ==
    ASSUME NEW n \in Nat, NEW Bad \in SUBSET (1 .. n), Bad # {}
    PROVE  \E p \in Bad : \A q \in p + 1 .. n : q \notin Bad
<1>1. PICK m \in Bad : \A y \in Bad : y <= m
  BY LastPlace
<1>2. \A q \in m + 1 .. n : ~ (q <= m)
  OBVIOUS
<1> QED BY <1>1, <1>2, Zenon

\* What holds of 0, and of k + 1 when it holds of k, holds of each.
LEMMA FromTheStart ==
    ASSUME NEW n \in Nat, NEW Bad \in SUBSET (0 .. n), 0 \notin Bad,
           \A k \in 0 .. n : k < n /\ k \notin Bad => k + 1 \notin Bad
    PROVE  Bad = {}
<1> SUFFICES ASSUME Bad # {} PROVE FALSE
  OBVIOUS
<1>1. Bad \in SUBSET Nat
  OBVIOUS
<1>2. PICK k \in Bad : \A m \in Bad : k <= m
  BY <1>1, Least
<1>3. PICK j \in 0 .. n : k = j + 1 /\ j < n /\ ~ (k <= j)
  <2>1. k - 1 \in 0 .. n /\ k = (k - 1) + 1 /\ k - 1 < n /\ ~ (k <= k - 1)
    OBVIOUS
  <2> QED BY <2>1, Zenon
<1> QED BY <1>2, <1>3, Zenon

-----------------------------------------------------------------------------
(* Tables *)

\* A table whose entries follow from those behind them exists,
ReadsBehind(R, d, I, F) ==
    \A p \in I : \A f, g \in F : (\A z \in p + 1 .. d : f[z] = g[z]) => R[p][f] = R[p][g]
LaterOnly(R, d, V) ==
    /\ V # {} /\ R \in [1 .. d -> [[1 .. d -> V] -> V]]
    /\ ReadsBehind(R, d, 1 .. d, [1 .. d -> V])
FilledBy(D, R, d, V) == D \in [1 .. d -> V] /\ \A p \in 1 .. d : D[p] = R[p][D]
LEMMA TableExists ==
    ASSUME NEW d \in Nat, NEW V, NEW R, LaterOnly(R, d, V) PROVE \E D : FilledBy(D, R, d, V)
<1>1. PICK I : I = 1 .. d
  OBVIOUS
<1>2. PICK rank : rank = [p \in I |-> d - p]
  OBVIOUS
<1>3. rank \in [I -> 0 .. d] /\ \A p \in I : rank[p] = d - p
  BY <1>1, <1>2
<1>4. Follows(R, I, V, rank)
  <2> SUFFICES ASSUME NEW p \in I, NEW f \in [I -> V], NEW g \in [I -> V],
                      \A z \in I : rank[z] < rank[p] => f[z] = g[z]
               PROVE  R[p][f] = R[p][g]
    BY Zenon DEF Follows
  <2>1. ASSUME NEW z \in p + 1 .. d PROVE f[z] = g[z]
    <3>1. z \in I /\ rank[z] < rank[p]
      BY <1>1, <1>3
    <3> QED BY <3>1, Zenon
  <2>2. ReadsBehind(R, d, I, [I -> V])
    BY <1>1, Zenon DEF LaterOnly
  <2> QED BY <2>1, <2>2, Zenon DEF ReadsBehind
<1>5. Ranked(R, I, V, rank, d)
  BY <1>1, <1>3, <1>4, Zenon DEF Ranked, LaterOnly
<1>6. PICK D : Recursive(D, R, I, V)
  BY <1>5, RecursionIs
<1> QED BY <1>1, <1>6, Zenon DEF Recursive, FilledBy

\* one where each entry is a part and what is behind that is one.
LinkFrom(P, live, v, q, p) == IF p \in live THEN v[p] \o P[q[p]] ELSE <<>>
ChainTable(P, d, live, v, q) == P = [p \in 1 .. d |-> LinkFrom(P, live, v, q, p)]
Links(d, live, A, v, q) ==
    /\ live \subseteq 1 .. d
    /\ \A p \in live : v[p] \in Seq(A) /\ q[p] \in p + 1 .. d
LEMMA ChainExists ==
    ASSUME NEW A, NEW d \in Nat, NEW live, NEW v, NEW q, Links(d, live, A, v, q)
    PROVE  \E P : ChainTable(P, d, live, v, q)
<1>1. PICK I, V : I = 1 .. d /\ V = Seq(A) /\ <<>> \in V
  <2>1. <<>> \in Seq(A)
    OBVIOUS
  <2> QED BY <2>1, Zenon
<1>2. PICK R : R = [p \in I |-> [f \in [I -> V] |-> LinkFrom(f, live, v, q, p)]]
  OBVIOUS
<1>3. ASSUME NEW p \in live
      PROVE  v[p] \in V /\ q[p] \in p + 1 .. d /\ \A f : LinkFrom(f, live, v, q, p) = v[p] \o f[q[p]]
  BY <1>1, <1>3 DEF Links, LinkFrom
<1>4. \A p, f : p \notin live => LinkFrom(f, live, v, q, p) = <<>>
  BY Zenon DEF LinkFrom
<1>5. ASSUME NEW p \in I, NEW f \in [I -> V] PROVE LinkFrom(f, live, v, q, p) \in V
  <2>1. CASE p \notin live
    BY <1>1, <1>4, <2>1, Zenon
  <2>2. CASE p \in live
    <3>1. PICK z \in p + 1 .. d, y \in V : z = q[p] /\ y = v[p] /\ LinkFrom(f, live, v, q, p) = y \o f[z]
      BY <1>3, <2>2, Zenon
    <3>2. z \in I
      BY <1>1
    <3>3. PICK x2 \in Seq(A) : x2 = f[z]
      BY <1>1, <3>2
    <3>4. y \o x2 \in Seq(A)
      BY <1>1, CatIn
    <3> QED BY <1>1, <3>1, <3>3, <3>4, Zenon
  <2> QED BY <2>1, <2>2
<1>6. \A p \in I, f \in [I -> V] : R[p][f] = LinkFrom(f, live, v, q, p)
  BY <1>2
<1>7. R \in [I -> [[I -> V] -> V]]
  BY <1>2, <1>5
<1>8. LaterOnly(R, d, V)
  <2> SUFFICES ASSUME NEW p \in I, NEW f \in [I -> V], NEW g \in [I -> V],
                      \A z \in p + 1 .. d : f[z] = g[z]
               PROVE  R[p][f] = R[p][g]
    <3>1. V # {}
      BY <1>1
    <3>2. PICK F : F = [I -> V]
      OBVIOUS
    <3>3. ReadsBehind(R, d, I, F)
      BY <3>2, Zenon DEF ReadsBehind
    <3> QED BY <1>1, <1>7, <3>1, <3>2, <3>3, Zenon DEF LaterOnly
  <2>1. CASE p \notin live
    <3>1. LinkFrom(f, live, v, q, p) = LinkFrom(g, live, v, q, p)
      BY <1>4, <2>1, Zenon
    <3> QED BY <1>6, <3>1
  <2>2. CASE p \in live
    <3>1. PICK z \in p + 1 .. d : z = q[p] /\ \A h : LinkFrom(h, live, v, q, p) = v[p] \o h[z]
      BY <1>3, <2>2, Zenon
    <3>2. f[z] = g[z]
      BY Zenon
    <3>3. LinkFrom(f, live, v, q, p) = LinkFrom(g, live, v, q, p)
      BY <3>1, <3>2, Zenon
    <3> QED BY <1>6, <3>3
  <2> QED BY <2>1, <2>2
<1>9. PICK D : D \in [I -> V] /\ \A p \in I : D[p] = R[p][D]
  <2>1. PICK D : FilledBy(D, R, d, V)
    BY <1>8, TableExists, Zenon
  <2> QED BY <1>1, <2>1, Zenon DEF FilledBy
<1>10. D = [p \in I |-> LinkFrom(D, live, v, q, p)]
  <2>1. \A p \in I : D[p] = LinkFrom(D, live, v, q, p)
    BY <1>6, <1>9, Zenon
  <2> QED BY <1>9, <2>1
<1> QED BY <1>1, <1>10, Zenon DEF ChainTable

\* and what it says.
ChainSays(P, d, live, A, v, q) ==
    \A p \in 1 .. d : /\ P[p] \in Seq(A)
                      /\ p \notin live => P[p] = <<>>
                      /\ p \in live => P[p] = v[p] \o P[q[p]]
LEMMA ChainIs ==
    ASSUME NEW A, NEW d \in Nat, NEW live, NEW v, NEW q, Links(d, live, A, v, q),
           NEW P, ChainTable(P, d, live, v, q)
    PROVE  ChainSays(P, d, live, A, v, q)
<1>1. \A p \in 1 .. d : P[p] = LinkFrom(P, live, v, q, p)
  <2>1. PICK F : F = [p \in 1 .. d |-> LinkFrom(P, live, v, q, p)]
    OBVIOUS
  <2>2. \A p \in 1 .. d : F[p] = LinkFrom(P, live, v, q, p)
    BY <2>1
  <2> QED BY <2>1, <2>2, Zenon DEF ChainTable
<1>2. \A p \in 1 .. d : p \notin live => P[p] = <<>>
  BY <1>1, Zenon DEF LinkFrom
<1>3. \A p \in 1 .. d : p \in live => P[p] = v[p] \o P[q[p]]
  BY <1>1, Zenon DEF LinkFrom
<1> DEFINE Bad == {p \in 1 .. d : P[p] \notin Seq(A)}
<1>4. Bad = {}
  <2> SUFFICES ASSUME Bad # {} PROVE FALSE
    OBVIOUS
  <2>1. Bad \in SUBSET (1 .. d)
    OBVIOUS
  <2> HIDE DEF Bad
  <2>2. PICK p \in Bad : \A z \in p + 1 .. d : z \notin Bad
    BY <2>1, FromTheEnd
  <2>3. p \in 1 .. d /\ P[p] \notin Seq(A)
    BY DEF Bad
  <2>4. p \in live
    <3>1. <<>> \in Seq(A)
      OBVIOUS
    <3> QED BY <1>2, <2>3, <3>1, Zenon
  <2>5. PICK z \in p + 1 .. d, y \in Seq(A) : z = q[p] /\ y = v[p] /\ P[p] = y \o P[z]
    BY <1>3, <2>3, <2>4, Zenon DEF Links
  <2>6. z \in 1 .. d
    BY <2>3
  <2>7. P[z] \in Seq(A)
    BY <2>2, <2>6, Zenon DEF Bad
  <2>8. PICK x2 \in Seq(A) : x2 = P[z]
    BY <2>7
  <2>9. y \o x2 \in Seq(A)
    BY CatIn
  <2> QED BY <2>3, <2>5, <2>8, <2>9, Zenon
<1>5. \A p \in 1 .. d : P[p] \in Seq(A)
  BY <1>4
<1> QED BY <1>2, <1>3, <1>5, Zenon DEF ChainSays

\* A table whose entries follow each from the one before exists.
Steps(n, V, base, step) == base \in V /\ step \in [1 .. n -> [V -> V]]
Stepped(J, n, V, base, step) ==
    J \in [0 .. n -> V] /\ J[0] = base /\ \A k \in 1 .. n : J[k] = step[k][J[k - 1]]
LEMMA StepsExist ==
    ASSUME NEW n \in Nat, NEW V, NEW base, NEW step, Steps(n, V, base, step)
    PROVE  \E J : Stepped(J, n, V, base, step)
<1>0. base \in V /\ step \in [1 .. n -> [V -> V]]
  BY Zenon DEF Steps
<1> DEFINE Bad == {m \in 0 .. n : ~ \E J : Stepped(J, m, V, base, step)}
<1>1. 0 \notin Bad
  <2>1. PICK J : J = [k \in 0 .. 0 |-> base]
    OBVIOUS
  <2>2. J \in [0 .. 0 -> V] /\ J[0] = base /\ \A k : k \notin 1 .. 0
    BY <1>0, <2>1
  <2>3. Stepped(J, 0, V, base, step)
    BY <2>2, Zenon DEF Stepped
  <2> QED BY <2>3
<1>2. ASSUME NEW m \in 0 .. n, m < n, m \notin Bad PROVE m + 1 \notin Bad
  <2>1. PICK J : Stepped(J, m, V, base, step)
    BY <1>2
  <2>2. J \in [0 .. m -> V] /\ J[0] = base /\ \A k \in 1 .. m : J[k] = step[k][J[k - 1]]
    BY <2>1, Zenon DEF Stepped
  <2>3. PICK f \in [V -> V] : f = step[m + 1]
    <3>1. m + 1 \in 1 .. n
      BY <1>2
    <3> QED BY <1>0, <3>1
  <2>4. PICK L : L = [k \in 0 .. m + 1 |-> IF k = m + 1 THEN f[J[m]] ELSE J[k]]
    OBVIOUS
  <2>5. m \in 0 .. m /\ J[m] \in V
    BY <2>2
  <2>6. L \in [0 .. m + 1 -> V]
    <3>1. f[J[m]] \in V
      BY <2>5
    <3>2. \A k \in 0 .. m + 1 : k # m + 1 => k \in 0 .. m
      OBVIOUS
    <3>3. \A k \in 0 .. m + 1 : (IF k = m + 1 THEN f[J[m]] ELSE J[k]) \in V
      BY <2>2, <3>1, <3>2
    <3> QED BY <2>4, <3>3
  <2>7. L[m + 1] = f[J[m]] /\ \A k \in 0 .. m : L[k] = J[k]
    <3>1. m + 1 \in 0 .. m + 1 /\ \A k \in 0 .. m : k \in 0 .. m + 1 /\ k # m + 1
      OBVIOUS
    <3> QED BY <2>4, <3>1
  <2>8. L[0] = base
    BY <2>2, <2>7
  <2>9. ASSUME NEW k \in 1 .. m + 1 PROVE L[k] = step[k][L[k - 1]]
    <3>1. CASE k = m + 1
      <4>1. k - 1 = m
        BY <3>1
      <4> QED BY <2>3, <2>5, <2>7, <3>1, <4>1, Zenon
    <3>2. CASE k # m + 1
      <4>1. k \in 1 .. m /\ k \in 0 .. m /\ k - 1 \in 0 .. m
        BY <3>2
      <4> QED BY <2>2, <2>7, <4>1, Zenon
    <3> QED BY <3>1, <3>2
  <2>10. Stepped(L, m + 1, V, base, step)
    BY <2>6, <2>8, <2>9, Zenon DEF Stepped
  <2> QED BY <2>10
<1>3. Bad = {}
  <2>1. Bad \in SUBSET (0 .. n)
    OBVIOUS
  <2> HIDE DEF Bad
  <2> QED BY <1>1, <1>2, <2>1, FromTheStart, Zenon
<1> QED BY <1>3

\* Tables that start alike, and whose entries follow alike each from the one before, agree.
TablesAgree(J, K, n) == \A k \in 0 .. n : J[k] = K[k]
StayAgreed(J, K, n) == \A k \in 1 .. n : J[k - 1] = K[k - 1] => J[k] = K[k]
LEMMA StepsAgree ==
    ASSUME NEW n \in Nat, NEW J, NEW K, J[0] = K[0], StayAgreed(J, K, n) PROVE TablesAgree(J, K, n)
<1> DEFINE Bad == {k \in 0 .. n : J[k] # K[k]}
<1>1. 0 \notin Bad /\ Bad \in SUBSET (0 .. n)
  OBVIOUS
<1>2. ASSUME NEW k \in 0 .. n, k < n, k \notin Bad PROVE k + 1 \notin Bad
  <2>1. k + 1 \in 1 .. n /\ (k + 1) - 1 = k
    BY <1>2
  <2>2. J[k] = K[k]
    BY <1>2
  <2>3. J[k + 1] = K[k + 1]
    BY <2>1, <2>2 DEF StayAgreed
  <2> QED BY <2>3
<1>3. Bad = {}
  <2> HIDE DEF Bad
  <2> QED BY <1>1, <1>2, FromTheStart, Zenon
<1> QED BY <1>3 DEF TablesAgree

\* The elements at some positions, as a table of what is kept of the first ones,
KeptFrom(s, at, K, k) ==
    IF k = 0 THEN <<>> ELSE IF k \in at THEN Append(K[k - 1], s[k]) ELSE K[k - 1]
KeepsFrom(s, at, K) == K = [k \in 0 .. Len(s) |-> KeptFrom(s, at, K, k)]
KeptTable(s, at) == CHOOSE K : KeepsFrom(s, at, K)
\* and what these are.
KeptSays(A, s, n, at, K) ==
    /\ K[0] = <<>> /\ \A k \in 0 .. n : K[k] \in Seq(A)
    /\ \A k \in 1 .. n : K[k] = IF k \in at THEN Append(K[k - 1], s[k]) ELSE K[k - 1]
LEMMA KeptTableIs ==
    ASSUME NEW A, NEW s \in Seq(A), NEW n \in Nat, n = Len(s), NEW at
    PROVE  KeptSays(A, s, n, at, KeptTable(s, at))
<1> DEFINE V == Seq(A)
<1>1. PICK step : step = [k \in 1 .. n |-> [y \in V |-> IF k \in at THEN Append(y, s[k]) ELSE y]]
  OBVIOUS
<1>2. \A k \in 1 .. n, y \in V : (IF k \in at THEN Append(y, s[k]) ELSE y) \in V
  OBVIOUS
<1>3. <<>> \in V
  OBVIOUS
<1>4. Steps(n, V, <<>>, step)
  <2> HIDE DEF V
  <2>1. step \in [1 .. n -> [V -> V]]
    BY <1>1, <1>2
  <2> QED BY <1>3, <2>1, Zenon DEF Steps
<1>5. \A k \in 1 .. n, y \in V : step[k][y] = IF k \in at THEN Append(y, s[k]) ELSE y
  <2> HIDE DEF V
  <2> QED BY <1>1
<1>6. PICK J : Stepped(J, n, V, <<>>, step)
  <2> HIDE DEF V
  <2> QED BY <1>4, StepsExist, Zenon
<1>7. J \in [0 .. n -> V] /\ J[0] = <<>> /\ \A k \in 1 .. n : J[k] = step[k][J[k - 1]]
  BY <1>6, Zenon DEF Stepped
<1> HIDE DEF V
<1>8. \A k \in 0 .. n : J[k] = KeptFrom(s, at, J, k)
  <2> TAKE k \in 0 .. n
  <2>1. CASE k = 0
    BY <1>7, <2>1, Zenon DEF KeptFrom
  <2>2. CASE k # 0
    <3>1. k \in 1 .. n /\ k - 1 \in 0 .. n
      BY <2>2
    <3>2. J[k - 1] \in V
      BY <1>7, <3>1
    <3>3. J[k] = IF k \in at THEN Append(J[k - 1], s[k]) ELSE J[k - 1]
      BY <1>5, <1>7, <3>1, <3>2, Zenon
    <3> QED BY <2>2, <3>3, Zenon DEF KeptFrom
  <2> QED BY <2>1, <2>2
<1>9. KeepsFrom(s, at, J)
  <2>1. J = [k \in 0 .. n |-> KeptFrom(s, at, J, k)]
    BY <1>7, <1>8
  <2> QED BY <2>1, Zenon DEF KeepsFrom
<1>10. PICK K : K = KeptTable(s, at) /\ KeepsFrom(s, at, K)
  BY <1>9, Zenon DEF KeptTable
<1>11. \A k \in 0 .. n : K[k] = KeptFrom(s, at, K, k)
  <2>1. PICK F : F = [k \in 0 .. n |-> KeptFrom(s, at, K, k)]
    OBVIOUS
  <2>2. \A k \in 0 .. n : F[k] = KeptFrom(s, at, K, k)
    BY <2>1
  <2> QED BY <1>10, <2>1, <2>2, Zenon DEF KeepsFrom
<1>12. K[0] = <<>>
  <2>1. 0 \in 0 .. n
    OBVIOUS
  <2> QED BY <1>11, <2>1, Zenon DEF KeptFrom
<1>13. \A k \in 1 .. n : K[k] = IF k \in at THEN Append(K[k - 1], s[k]) ELSE K[k - 1]
  <2> TAKE k \in 1 .. n
  <2>1. k \in 0 .. n /\ k # 0
    OBVIOUS
  <2> QED BY <1>11, <2>1, Zenon DEF KeptFrom
<1> DEFINE Bad == {k \in 0 .. n : K[k] \notin V}
<1>14. Bad = {}
  <2>1. Bad \in SUBSET (0 .. n) /\ 0 \notin Bad
    BY <1>3, <1>12
  <2>2. ASSUME NEW k \in 0 .. n, k < n, k \notin Bad PROVE k + 1 \notin Bad
    <3>1. k + 1 \in 1 .. n /\ (k + 1) - 1 = k
      BY <2>2
    <3>2. K[k] \in V
      BY <2>2
    <3>3. K[k + 1] = IF k + 1 \in at THEN Append(K[k], s[k + 1]) ELSE K[k]
      BY <1>13, <3>1
    <3>4. K[k + 1] \in V
      BY <1>2, <3>1, <3>2, <3>3, Zenon
    <3> QED BY <3>4
  <2> HIDE DEF Bad
  <2> QED BY <2>1, <2>2, FromTheStart, Zenon
<1>15. \A k \in 0 .. n : K[k] \in Seq(A)
  BY <1>14 DEF V
<1> QED BY <1>10, <1>12, <1>13, <1>15, Zenon DEF KeptSays

\* What is kept of the first k elements.
KeptPart(A, s, at, r, k) ==
    /\ r \in Seq(A) /\ Len(r) <= k
    /\ (\E i \in 1 .. k : i \notin at) => Len(r) < k
    /\ \A i \in 1 .. k : i \in at => \E j \in 1 .. Len(r) : r[j] = s[i]
    /\ (\A i \in 1 .. k : i \notin at) => r = <<>>
    /\ (\A i \in 1 .. k : i \in at) => Len(r) = k /\ \A j \in 1 .. k : r[j] = s[j]
LEMMA KeptMore ==
    ASSUME NEW A, NEW s \in Seq(A), NEW at, NEW k \in Nat, k < Len(s), NEW r, KeptPart(A, s, at, r, k)
    PROVE  KeptPart(A, s, at, IF k + 1 \in at THEN Append(r, s[k + 1]) ELSE r, k + 1)
<1>1. /\ r \in Seq(A) /\ Len(r) <= k /\ Len(r) \in Nat
      /\ (\E i \in 1 .. k : i \notin at) => Len(r) < k
      /\ \A i \in 1 .. k : i \in at => \E j \in 1 .. Len(r) : r[j] = s[i]
      /\ (\A i \in 1 .. k : i \notin at) => r = <<>>
      /\ (\A i \in 1 .. k : i \in at) => Len(r) = k /\ \A j \in 1 .. k : r[j] = s[j]
  <2>1. r \in Seq(A)
    BY Zenon DEF KeptPart
  <2>2. Len(r) \in Nat
    BY <2>1
  <2> QED BY <2>1, <2>2, Zenon DEF KeptPart
<1>2. \A i \in 1 .. k + 1 : i \in 1 .. k \/ i = k + 1
  OBVIOUS
<1>3. k + 1 \in 1 .. k + 1 /\ \A i \in 1 .. k : i \in 1 .. k + 1
  OBVIOUS
<1>4. CASE k + 1 \notin at
  <2>1. Len(r) <= k + 1 /\ Len(r) < k + 1
    BY <1>1
  <2>2. \A i \in 1 .. k + 1 : i \in at => \E j \in 1 .. Len(r) : r[j] = s[i]
    BY <1>1, <1>2, <1>4, Zenon
  <2>3. (\A i \in 1 .. k + 1 : i \notin at) => r = <<>>
    BY <1>1, <1>3, Zenon
  <2>4. ~ \A i \in 1 .. k + 1 : i \in at
    BY <1>3, <1>4, Zenon
  <2>5. KeptPart(A, s, at, r, k + 1)
    BY <1>1, <2>1, <2>2, <2>3, <2>4, Zenon DEF KeptPart
  <2> QED BY <1>4, <2>5, Zenon
<1>5. CASE k + 1 \in at
  <2>1. PICK e \in A : e = s[k + 1]
    OBVIOUS
  <2>2. PICK l \in Nat : l = Len(r)
    BY <1>1
  <2>3. PICK t \in Seq(A) : /\ t = Append(r, e) /\ Len(t) = l + 1 /\ t[l + 1] = e
                            /\ \A j \in 1 .. l : t[j] = r[j]
    <3>1. /\ Append(r, e) \in Seq(A) /\ Len(Append(r, e)) = l + 1
          /\ \A j \in 1 .. l : Append(r, e)[j] = r[j]
          /\ Append(r, e)[l + 1] = e
      <4>1. Len(Append(r, e)) = Len(r) + 1 /\ Append(r, e)[Len(r) + 1] = e
            /\ Append(r, e) \in Seq(A) /\ \A j \in 1 .. Len(r) : Append(r, e)[j] = r[j]
        BY <1>1, AppendIs
      <4> QED BY <2>2, <4>1, Zenon
    <3> QED BY <3>1, Zenon
  <2>4. Len(t) <= k + 1
    BY <1>1, <2>2, <2>3
  <2>5. ASSUME \E i \in 1 .. k + 1 : i \notin at PROVE Len(t) < k + 1
    <3>1. \E i \in 1 .. k : i \notin at
      BY <1>2, <1>5, <2>5, Zenon
    <3>2. l < k
      BY <1>1, <2>2, <3>1, Zenon
    <3> QED BY <2>3, <3>2
  <2>6. ASSUME NEW i \in 1 .. k + 1, i \in at PROVE \E j \in 1 .. Len(t) : t[j] = s[i]
    <3>1. CASE i = k + 1
      <4>1. l + 1 \in 1 .. Len(t)
        BY <2>3
      <4> QED BY <2>1, <2>3, <3>1, <4>1, Zenon
    <3>2. CASE i \in 1 .. k
      <4>1. PICK j \in 1 .. l : r[j] = s[i]
        BY <1>1, <2>2, <2>6, <3>2, Zenon
      <4>2. j \in 1 .. Len(t)
        BY <2>3
      <4> QED BY <2>3, <4>1, <4>2, Zenon
    <3> QED BY <1>2, <3>1, <3>2
  <2>7. ~ \A i \in 1 .. k + 1 : i \notin at
    BY <1>3, <1>5, Zenon
  <2>8. ASSUME \A i \in 1 .. k + 1 : i \in at PROVE Len(t) = k + 1 /\ \A j \in 1 .. k + 1 : t[j] = s[j]
    <3>1. l = k /\ \A j \in 1 .. k : r[j] = s[j]
      BY <1>1, <1>3, <2>2, <2>8, Zenon
    <3> QED BY <1>2, <2>1, <2>3, <3>1, Zenon
  <2>9. KeptPart(A, s, at, t, k + 1)
    BY <2>3, <2>4, <2>5, <2>6, <2>7, <2>8, Zenon DEF KeptPart
  <2> QED BY <1>5, <2>1, <2>3, <2>9, Zenon
<1> QED BY <1>4, <1>5

LEMMA KeptParts ==
    ASSUME NEW A, NEW s \in Seq(A), NEW n \in Nat, n = Len(s), NEW at, NEW k \in 0 .. n
    PROVE  KeptPart(A, s, at, KeptTable(s, at)[k], k)
<1>1. PICK K : K = KeptTable(s, at)
  OBVIOUS
<1>2. KeptSays(A, s, n, at, K)
  BY <1>1, KeptTableIs, Zenon
<1> DEFINE Bad == {m \in 0 .. n : ~ KeptPart(A, s, at, K[m], m)}
<1>3. 0 \notin Bad
  <2>1. <<>> \in Seq(A) /\ Len(<<>>) = 0 /\ \A i : i \notin 1 .. 0
    OBVIOUS
  <2>2. K[0] = <<>>
    BY <1>2, Zenon DEF KeptSays
  <2>3. Len(<<>>) <= 0
    BY <2>1
  <2>4. KeptPart(A, s, at, <<>>, 0)
    BY <2>1, <2>3, Zenon DEF KeptPart
  <2> QED BY <2>2, <2>4
<1>4. ASSUME NEW m \in 0 .. n, m < n, m \notin Bad PROVE m + 1 \notin Bad
  <2>1. m \in Nat /\ m + 1 \in 1 .. n /\ (m + 1) - 1 = m
    BY <1>4
  <2>2. KeptPart(A, s, at, K[m], m)
    BY <1>4
  <2>3. KeptPart(A, s, at, IF m + 1 \in at THEN Append(K[m], s[m + 1]) ELSE K[m], m + 1)
    BY <1>4, <2>1, <2>2, KeptMore, Zenon
  <2>4. K[m + 1] = IF m + 1 \in at THEN Append(K[m], s[m + 1]) ELSE K[m]
    BY <1>2, <2>1, Zenon DEF KeptSays
  <2>5. KeptPart(A, s, at, K[m + 1], m + 1)
    BY <2>3, <2>4, Zenon
  <2> QED BY <2>5
<1>5. Bad = {}
  <2>1. Bad \in SUBSET (0 .. n)
    OBVIOUS
  <2> HIDE DEF Bad
  <2> QED BY <1>3, <1>4, <2>1, FromTheStart, Zenon
<1>6. KeptPart(A, s, at, K[k], k)
  BY <1>5
<1> QED BY <1>1, <1>6, Zenon
=============================================================================
