----------------------------- MODULE NBIOProofs -----------------------------
(***************************************************************************)
(* What holds of the output pump for any inputs and sizes.                 *)
(***************************************************************************)
EXTENDS NBIO, FiniteSetTheorems, Lemmas

-----------------------------------------------------------------------------
(* The list of inputs                                                      *)

\* The list without its head, which is what free_input() leaves but for the
\* mode of the new head.
Frees ==
  /\ inputs # <<>> /\ inputs' \in Seq(InputType) /\ Len(inputs') = Len(inputs) - 1
  /\ \A i \in 1 .. Len(inputs) - 1 :
       /\ inputs'[i].id = inputs[i + 1].id /\ inputs'[i].kind = inputs[i + 1].kind
       /\ inputs'[i].base = inputs[i + 1].base /\ inputs'[i].len = inputs[i + 1].len
       /\ inputs'[i].pos = inputs[i + 1].pos /\ inputs'[i].off = inputs[i + 1].off
       /\ inputs'[i].mend = inputs[i + 1].mend
  /\ Len(inputs) > 1 /\ inputs[2].kind = "obj" => inputs'[1].mode = "READING"

\* The list with another head.
Heads(h) ==
  /\ inputs # <<>> /\ inputs' \in Seq(InputType) /\ Len(inputs') = Len(inputs)
  /\ inputs'[1] = h
  /\ \A i \in 2 .. Len(inputs) : inputs'[i] = inputs[i]

\* free_input().
LEMMA FreeDoes ==
  ASSUME inputs \in Seq(InputType), inputs # <<>>, inputs' = FreeHead
  PROVE  Frees /\ (inputs' = <<>> <=> Len(inputs) = 1)
<1>1. PICK rest \in Seq(InputType), n \in Nat :
        /\ Len(rest) = n /\ Len(inputs) = n + 1
        /\ \A k \in 1 .. n : rest[k] = inputs[k + 1]
        /\ inputs' = IF rest # <<>> /\ rest[1].kind = "obj"
                     THEN [rest EXCEPT ![1].mode = "READING"] ELSE rest
  <2>1. PICK rest \in Seq(InputType), n \in Nat :
        /\ rest = Tail(inputs) /\ Len(rest) = n /\ Len(inputs) = n + 1
        /\ \A k \in 1 .. n : rest[k] = inputs[k + 1]
    BY TailPick
  <2>2. inputs' = IF rest # <<>> /\ rest[1].kind = "obj"
                  THEN [rest EXCEPT ![1].mode = "READING"] ELSE rest
    BY <2>1, Zenon DEF FreeHead
  <2> QED BY <2>1, <2>2, Zenon
<1>2. /\ \A i \in 1 .. n : rest[i] \in InputType
      /\ rest = <<>> <=> n = 0
  BY <1>1
<1>3. CASE rest # <<>> /\ rest[1].kind = "obj"
  <2>1. inputs' = [rest EXCEPT ![1].mode = "READING"]
    BY <1>1, <1>3
  <2>2. 1 \in 1 .. n /\ rest[1] \in InputType
    BY <1>2, <1>3
  <2>3. PICK r \in InputType : /\ r = [rest[1] EXCEPT !.mode = "READING"]
                               /\ r.id = rest[1].id /\ r.kind = rest[1].kind
                               /\ r.base = rest[1].base /\ r.len = rest[1].len
                               /\ r.pos = rest[1].pos /\ r.off = rest[1].off
                               /\ r.mend = rest[1].mend /\ r.mode = "READING"
    <3>1. [rest[1] EXCEPT !.mode = "READING"] \in InputType
      BY <2>2 DEF InputType
    <3> QED BY <2>2, <3>1 DEF InputType
  <2>4. inputs' = [rest EXCEPT ![1] = r]
    BY <2>1, <2>3
  <2>5. /\ inputs' \in Seq(InputType) /\ Len(inputs') = n /\ inputs'[1] = r
        /\ \A i \in 2 .. n : inputs'[i] = rest[i]
    <3>1. n > 0
      BY <2>2
    <3>2. Len(rest) = n
      BY <1>1
    <3> QED BY <2>4, <3>1, <3>2, FirstIs
  <2>6. \A i \in 1 .. n : i = 1 \/ i \in 2 .. n
    OBVIOUS
  <2>7. Len(inputs) - 1 = n /\ inputs[2] = rest[1] /\ n # 0
    BY <1>1, <2>2
  <2>8. \A i \in 1 .. n :
          /\ inputs'[i].id = inputs[i + 1].id /\ inputs'[i].kind = inputs[i + 1].kind
          /\ inputs'[i].base = inputs[i + 1].base /\ inputs'[i].len = inputs[i + 1].len
          /\ inputs'[i].pos = inputs[i + 1].pos /\ inputs'[i].off = inputs[i + 1].off
          /\ inputs'[i].mend = inputs[i + 1].mend
    <3>1. \A i \in 1 .. n : rest[i] = inputs[i + 1]
      BY <1>1
    <3> QED BY <2>3, <2>5, <2>6, <3>1, ZenonT(40)
  <2>9. inputs' # <<>> /\ Len(inputs) # 1
    BY <1>1, <2>5, <2>7
  <2> QED BY <2>3, <2>5, <2>7, <2>8, <2>9 DEF Frees
<1>4. CASE ~ (rest # <<>> /\ rest[1].kind = "obj")
  <2>1. inputs' = rest
    BY <1>1, <1>4
  <2>2. n > 0 => inputs[2] = rest[1] /\ rest[1].kind # "obj"
    BY <1>1, <1>2, <1>4
  <2> QED BY <1>1, <1>2, <2>1, <2>2 DEF Frees
<1> QED BY <1>3, <1>4

\* A new head.
LEMMA HeadDoes ==
  ASSUME inputs \in Seq(InputType), inputs # <<>>, NEW h \in InputType, inputs' = SetHead(h)
  PROVE  Heads(h)
<1>2. PICK rest \in Seq(InputType), n \in Nat :
        /\ rest = Tail(inputs) /\ Len(rest) = n /\ Len(inputs) = n + 1
        /\ \A k \in 1 .. n : rest[k] = inputs[k + 1]
  BY TailPick
<1>3. inputs' = <<h>> \o rest
  BY <1>2 DEF SetHead
<1>4. /\ inputs' \in Seq(InputType) /\ Len(inputs') = n + 1 /\ inputs'[1] = h
      /\ \A i \in 1 .. n : inputs'[i + 1] = rest[i]
  BY <1>2, <1>3, ConsIs
<1>5. \A i \in 2 .. n + 1 : inputs'[i] = inputs[i]
  <2>1. \A i \in 2 .. n + 1 : i - 1 \in 1 .. n /\ (i - 1) + 1 = i
    OBVIOUS
  <2>2. \A i \in 2 .. n + 1 :
          inputs'[(i - 1) + 1] = rest[i - 1] /\ rest[i - 1] = inputs[(i - 1) + 1]
    BY <1>2, <1>4, <2>1
  <2> QED BY <2>1, <2>2
<1> QED BY <1>2, <1>4, <1>5 DEF Heads

\* The list by itself.
ListOK ==
  /\ inputs \in Seq(InputType)
  /\ \A i \in DOMAIN inputs : inputs[i].id \in DOMAIN given /\ InputOK(inputs[i])

\* The positions do not depend on the mode.
LEMMA FreesOK ==
  ASSUME ListOK, Frees, UNCHANGED given PROVE ListOK'
<1>1. /\ DOMAIN inputs = 1 .. Len(inputs) /\ DOMAIN inputs' = 1 .. Len(inputs) - 1
      /\ Len(inputs) \in Nat \ {0}
  BY DEF ListOK, Frees
<1>2. ASSUME NEW i \in 1 .. Len(inputs) - 1
      PROVE  inputs'[i].id \in DOMAIN given /\ InputOK(inputs[i])'
  <2>1. /\ i + 1 \in DOMAIN inputs
        /\ inputs'[i].id = inputs[i + 1].id /\ inputs'[i].kind = inputs[i + 1].kind
        /\ inputs'[i].base = inputs[i + 1].base /\ inputs'[i].len = inputs[i + 1].len
        /\ inputs'[i].pos = inputs[i + 1].pos /\ inputs'[i].off = inputs[i + 1].off
        /\ inputs'[i].mend = inputs[i + 1].mend
    BY <1>1 DEF Frees
  <2>2. inputs[i + 1].id \in DOMAIN given /\ InputOK(inputs[i + 1])
    BY <2>1 DEF ListOK
  <2> QED BY <2>1, <2>2 DEF InputOK, Source
<1> QED BY <1>1, <1>2 DEF ListOK, Frees

\* A new head must be sound itself.
LEMMA HeadsOK ==
  ASSUME ListOK, NEW h \in InputType, Heads(h), h.id \in DOMAIN given, InputOK(h),
         UNCHANGED given
  PROVE  ListOK'
<1>1. /\ DOMAIN inputs = 1 .. Len(inputs) /\ DOMAIN inputs' = 1 .. Len(inputs)
      /\ Len(inputs) \in Nat \ {0} /\ inputs'[1] = h
  BY DEF ListOK, Heads
<1>2. InputOK(h)'
  BY DEF InputOK, Source
<1>3. ASSUME NEW i \in 2 .. Len(inputs)
      PROVE  inputs'[i].id \in DOMAIN given /\ InputOK(inputs[i])'
  <2>1. i \in DOMAIN inputs /\ inputs'[i] = inputs[i]
    BY <1>1 DEF Heads
  <2>2. inputs[i].id \in DOMAIN given /\ InputOK(inputs[i])
    BY <2>1 DEF ListOK
  <2> QED BY <2>1, <2>2 DEF InputOK, Source
<1>4. \A i \in 1 .. Len(inputs) : i = 1 \/ i \in 2 .. Len(inputs)
  BY <1>1
<1>5. ASSUME NEW i \in 1 .. Len(inputs)
      PROVE  inputs'[i].id \in DOMAIN given /\ InputOK(inputs[i])'
  <2>1. CASE i = 1
    BY <1>1, <1>2, <2>1 DEF InputOK, Source
  <2> QED BY <1>3, <1>4, <2>1
<1> QED BY <1>1, <1>5 DEF ListOK, Heads

\* The order of the list.
LEMMA FreesAscending ==
  ASSUME ListOK, Ascending, Frees PROVE Ascending'
<1>1. /\ DOMAIN inputs = 1 .. Len(inputs) /\ DOMAIN inputs' = 1 .. Len(inputs) - 1
      /\ Len(inputs) \in Nat \ {0}
  BY DEF ListOK, Frees
<1>2. ASSUME NEW i \in 1 .. Len(inputs) - 1, NEW j \in 1 .. Len(inputs) - 1, i < j
      PROVE  \/ inputs'[i].id < inputs'[j].id
             \/ inputs'[i].id = inputs'[j].id /\ inputs'[i].kind = "str"
  <2>1. /\ i + 1 \in DOMAIN inputs /\ j + 1 \in DOMAIN inputs /\ i + 1 < j + 1
        /\ inputs'[i].id = inputs[i + 1].id /\ inputs'[i].kind = inputs[i + 1].kind
        /\ inputs'[j].id = inputs[j + 1].id
    BY <1>1, <1>2 DEF Frees
  <2> QED BY <2>1 DEF Ascending
<1> QED BY <1>1, <1>2 DEF Ascending

\* A new head that stands where the old one stood keeps the order.
LEMMA HeadsAscending ==
  ASSUME ListOK, Ascending, NEW h \in InputType, Heads(h), h.id = inputs[1].id,
         inputs[1].kind = "str" => h.kind = "str"
  PROVE  Ascending'
<1>1. /\ DOMAIN inputs = 1 .. Len(inputs) /\ DOMAIN inputs' = 1 .. Len(inputs)
      /\ Len(inputs) \in Nat \ {0} /\ inputs'[1] = h
      /\ \A i \in 2 .. Len(inputs) : inputs'[i] = inputs[i]
  BY DEF ListOK, Heads
<1>2. ASSUME NEW i \in 1 .. Len(inputs), NEW j \in 1 .. Len(inputs), i < j
      PROVE  \/ inputs'[i].id < inputs'[j].id
             \/ inputs'[i].id = inputs'[j].id /\ inputs'[i].kind = "str"
  <2>1. \/ inputs[i].id < inputs[j].id
        \/ inputs[i].id = inputs[j].id /\ inputs[i].kind = "str"
    BY <1>1, <1>2 DEF Ascending
  <2>2. j \in 2 .. Len(inputs)
    BY <1>1, <1>2
  <2>3. CASE i = 1
    BY <1>1, <2>1, <2>2, <2>3
  <2>4. CASE i # 1
    <3>1. i \in 2 .. Len(inputs)
      BY <1>1, <2>4
    <3> QED BY <1>1, <2>1, <2>2, <3>1
  <2> QED BY <2>3, <2>4
<1> QED BY <1>1, <1>2 DEF Ascending

-----------------------------------------------------------------------------
(* What the actions do                                                     *)

\* The head of a sound list.
LEMMA HeadIn ==
  ASSUME ListOK, inputs # <<>>
  PROVE  /\ inputs[1] \in InputType /\ inputs[1].id \in DOMAIN given /\ InputOK(inputs[1])
         /\ Len(inputs) \in Nat \ {0} /\ DOMAIN inputs = 1 .. Len(inputs)
<1>1. inputs \in Seq(InputType) /\ 1 \in DOMAIN inputs
  BY DEF ListOK
<1> QED BY <1>1 DEF ListOK

\* What was given.
LEMMA GivenIn ==
  ASSUME TypeOK, NEW i \in DOMAIN given
  PROVE  /\ given[i] \in Offers /\ given[i].kind \in Kinds /\ given[i].size \in Nat
         /\ given[i].limit \in Nat \cup {-1}
         /\ given[i].kind \in {"str", "mmap"} => given[i].size > 0
         /\ i \in Nat \ {0} /\ DOMAIN given = 1 .. Len(given) /\ i <= Len(given)
<1>1. given \in Seq(Offers)
  BY DEF TypeOK
<1>2. given[i] \in Offers /\ i \in 1 .. Len(given) /\ DOMAIN given = 1 .. Len(given)
  BY <1>1
<1> QED BY <1>2, OffersAssumption

\* After a write from the head: it was the last, or is unlinked, or goes on.
LEMMA AdvanceDoes ==
  ASSUME ListOK, inputs # <<>>, NEW h \in InputType, NEW n \in Nat, Advance(h, n)
  PROVE  \/ h.pos + n = h.len /\ Len(inputs) = 1 /\ Finish
         \/ /\ h.pos + n = h.len /\ Len(inputs) > 1 /\ Frees
            /\ Rearm /\ UNCHANGED <<outp, called, finished>>
         \/ /\ h.pos + n # h.len
            /\ \E g \in InputType :
                 g = [h EXCEPT !.pos = h.pos + n] /\ Heads(g)
            /\ Rearm /\ UNCHANGED <<outp, called, finished>>
<1>1. inputs \in Seq(InputType) /\ Len(inputs) \in Nat \ {0}
  BY DEF ListOK
<1>2. CASE h.pos + n = h.len
  <2>1. CASE FreeHead = <<>>
    <3>1. Finish
      BY <1>2, <2>1 DEF Advance
    <3>2. inputs' = FreeHead
      BY <2>1, <3>1 DEF Finish
    <3>3. Len(inputs) = 1
      BY <1>1, <2>1, <3>2, FreeDoes
    <3> QED BY <1>2, <3>1, <3>3
  <2>2. CASE FreeHead # <<>>
    <3>1. inputs' = FreeHead /\ Rearm /\ UNCHANGED <<outp, called, finished>>
      BY <1>2, <2>2 DEF Advance
    <3>2. Frees /\ Len(inputs) # 1
      BY <1>1, <2>2, <3>1, FreeDoes
    <3>3. Len(inputs) > 1
      <4>1. \A l \in Nat \ {0} : l # 1 => l > 1
        OBVIOUS
      <4> QED BY <1>1, <3>2, <4>1, Zenon
    <3> QED BY <1>2, <3>1, <3>2, <3>3
  <2> QED BY <2>1, <2>2
<1>3. CASE h.pos + n # h.len
  <2>1. PICK g \in InputType : g = [h EXCEPT !.pos = h.pos + n]
    <3>1. [h EXCEPT !.pos = h.pos + n] \in InputType
      BY DEF InputType
    <3> QED BY <3>1
  <2>2. CASE SetHead(g) = <<>>
    <3>1. Finish
      BY <1>3, <2>1, <2>2 DEF Advance
    <3>2. inputs' = SetHead(g)
      BY <2>2, <3>1 DEF Finish
    <3>3. Len(inputs') = Len(inputs) /\ inputs' = <<>>
      BY <1>1, <2>2, <3>2, HeadDoes DEF Heads
    <3> QED BY <1>1, <3>3
  <2>3. CASE SetHead(g) # <<>>
    <3>1. inputs' = SetHead(g) /\ Rearm /\ UNCHANGED <<outp, called, finished>>
      BY <1>3, <2>1, <2>3 DEF Advance
    <3>2. Heads(g)
      BY <1>1, <3>1, HeadDoes
    <3> QED BY <1>3, <2>1, <3>1, <3>2
  <2> QED BY <2>2, <2>3
<1> QED BY <1>2, <1>3

\* Some of the bytes of an input are bytes of it.
LEMMA BytesIs ==
  ASSUME NEW d \in Nat, NEW k \in Nat, NEW m \in Nat
  PROVE  /\ Bytes(d, k, m) \in Seq(Byte) /\ Len(Bytes(d, k, m)) = m
         /\ \A j \in 1 .. m : Bytes(d, k, m)[j] = <<d, k + j>>
<1>1. \A j \in 1 .. m : <<d, k + j>> \in Byte
  BY DEF Byte
<1>2. [j \in 1 .. m |-> <<d, k + j>>] \in Seq(Byte)
  BY <1>1
<1> QED BY <1>2 DEF Bytes

\* The first of them,
LEMMA BytesSub ==
  ASSUME NEW d \in Nat, NEW k \in Nat, NEW m \in Nat, NEW n \in 0 .. m
  PROVE  SubSeq(Bytes(d, k, m), 1, n) = Bytes(d, k, n)
<1>1. /\ Bytes(d, k, m) \in Seq(Byte) /\ Len(Bytes(d, k, m)) = m
      /\ \A j \in 1 .. m : Bytes(d, k, m)[j] = <<d, k + j>>
  BY BytesIs
<1>2. n \in Nat
  OBVIOUS
<1>3. /\ Bytes(d, k, n) \in Seq(Byte) /\ Len(Bytes(d, k, n)) = n
      /\ \A j \in 1 .. n : Bytes(d, k, n)[j] = <<d, k + j>>
  BY <1>2, BytesIs
<1>4. PICK s \in Seq(Byte), a \in Seq(Byte) :
        /\ s = Bytes(d, k, m) /\ a = Bytes(d, k, n) /\ Len(s) = m /\ Len(a) = n
        /\ \A j \in 1 .. m : s[j] = <<d, k + j>>
        /\ \A j \in 1 .. n : a[j] = <<d, k + j>>
  BY <1>1, <1>3, Zenon
<1>5. PICK b \in Seq(Byte) : /\ b = SubSeq(s, 1, n) /\ Len(b) = n
                             /\ \A j \in 1 .. n : b[j] = s[j]
  <2>1. n \in 0 .. Len(s)
    BY <1>4
  <2>2. /\ SubSeq(s, 1, n) \in Seq(Byte) /\ Len(SubSeq(s, 1, n)) = n
        /\ \A j \in 1 .. n : SubSeq(s, 1, n)[j] = s[j]
    BY <2>1, SubSeqIs, Zenon
  <2> QED BY <2>2, Zenon
<1>6. \A j \in 1 .. n : b[j] = a[j]
  <2>1. \A j \in 1 .. n : j \in 1 .. m
    OBVIOUS
  <2> QED BY <1>4, <1>5, <2>1
<1>7. a = b
  BY <1>2, <1>4, <1>5, <1>6, SeqEq
<1> QED BY <1>4, <1>5, <1>7, Zenon

\* and the others.
LEMMA BytesSplit ==
  ASSUME NEW d \in Nat, NEW k \in Nat, NEW m \in Nat, NEW n \in 0 .. m
  PROVE  Bytes(d, k, m) = Cat(Bytes(d, k, n), Bytes(d, k + n, m - n))
<1>1. n \in Nat /\ m - n \in Nat /\ k + n \in Nat
  OBVIOUS
<1>2. PICK s \in Seq(Byte), a \in Seq(Byte), b \in Seq(Byte), l \in Nat :
        /\ s = Bytes(d, k, m) /\ a = Bytes(d, k, n) /\ b = Bytes(d, k + n, m - n)
        /\ Len(s) = m /\ Len(a) = n /\ Len(b) = l /\ l = m - n
        /\ \A j \in 1 .. m : s[j] = <<d, k + j>>
        /\ \A j \in 1 .. n : a[j] = <<d, k + j>>
        /\ \A j \in 1 .. l : b[j] = <<d, (k + n) + j>>
  <2>1. /\ Bytes(d, k, m) \in Seq(Byte) /\ Len(Bytes(d, k, m)) = m
        /\ \A j \in 1 .. m : Bytes(d, k, m)[j] = <<d, k + j>>
    BY BytesIs
  <2>2. /\ Bytes(d, k, n) \in Seq(Byte) /\ Len(Bytes(d, k, n)) = n
        /\ \A j \in 1 .. n : Bytes(d, k, n)[j] = <<d, k + j>>
    BY <1>1, BytesIs
  <2>3. /\ Bytes(d, k + n, m - n) \in Seq(Byte) /\ Len(Bytes(d, k + n, m - n)) = m - n
        /\ \A j \in 1 .. m - n : Bytes(d, k + n, m - n)[j] = <<d, (k + n) + j>>
    <3>1. PICK e \in Nat, l \in Nat : e = k + n /\ l = m - n
      BY <1>1
    <3>3. /\ Bytes(d, e, l) \in Seq(Byte) /\ Len(Bytes(d, e, l)) = l
          /\ \A j \in 1 .. l : Bytes(d, e, l)[j] = <<d, e + j>>
      BY BytesIs
    <3> QED BY <3>1, <3>3, Zenon
  <2> QED BY <1>1, <2>1, <2>2, <2>3, ZenonT(40)
<1>3. PICK c \in Seq(Byte) : /\ c = Cat(a, b) /\ Len(c) = n + l
                             /\ \A j \in 1 .. n : c[j] = a[j]
                             /\ \A j \in 1 .. l : c[n + j] = b[j]
  <2>1. Len(a) = n /\ Len(b) = l
    BY <1>2, Zenon
  <2> QED BY <1>1, <2>1, CatAt
<1>4. m = n + l
  BY <1>1, <1>2
<1>5. ASSUME NEW j \in 1 .. m PROVE c[j] = s[j]
  <2>1. s[j] = <<d, k + j>>
    BY <1>2, Zenon
  <2>2. CASE j \in 1 .. n
    BY <1>2, <1>3, <2>1, <2>2, Zenon
  <2>3. ASSUME NEW i \in 1 .. l, j = n + i PROVE c[j] = s[j]
    <3>1. (k + n) + i = k + j
      BY <1>1, <2>3
    <3>2. c[n + i] = b[i]
      BY <1>3, Zenon
    <3>3. b[i] = <<d, (k + n) + i>>
      BY <1>2, Zenon
    <3> QED BY <2>1, <2>3, <3>1, <3>2, <3>3, Zenon
  <2> QED BY <1>1, <1>4, <2>2, <2>3, IndexSplit
<1>6. s = c
  BY <1>2, <1>3, <1>4, <1>5, SeqEq
<1> QED BY <1>2, <1>3, <1>6, Zenon

-----------------------------------------------------------------------------
(* FlattenSeq                                                              *)

\* The sequences joined one after the other, the first k of them.
Joined(seqs, f) == f = [i \in 1 .. Len(seqs) |-> IF i = 1 THEN seqs[i] ELSE f[i-1] \o seqs[i]]

\* FlattenSeq picks such a function.
LEMMA FlatIs == ASSUME NEW seqs, Len(seqs) # 0
  PROVE FlattenSeq(seqs) = (CHOOSE f : Joined(seqs, f))[Len(seqs)]
BY DEF FlattenSeq, Joined

\* There is one.
LEMMA JoinedExists ==
  ASSUME NEW B, NEW seqs \in Seq(Seq(B))
  PROVE \E f : Joined(seqs, f)
<1> DEFINE G(n, f) == /\ f \in [1 .. n -> Seq(B)]
                     /\ \A i \in 1 .. n : f[i] = IF i = 1 THEN seqs[i] ELSE f[i-1] \o seqs[i]
<1> DEFINE S == {n \in 0 .. Len(seqs) : ~ \E f : G(n, f)}
<1>1. Len(seqs) \in Nat /\ \A i \in 1 .. Len(seqs) : seqs[i] \in Seq(B)
  OBVIOUS
<1>2. S = {}
  <2> SUFFICES ASSUME S # {} PROVE FALSE
    OBVIOUS
  <2>1. S \in SUBSET Nat
    OBVIOUS
  <2> HIDE DEF S
  <2>2. PICK n \in S : \A m \in S : n <= m
    BY <2>1, Least
  <2> USE DEF S
  <2>3. n \in 0 .. Len(seqs) /\ ~ \E f : G(n, f)
    BY <2>2
  <2>4. n # 0
    <3>1. G(0, [i \in 1 .. 0 |-> <<>>])
      OBVIOUS
    <3> QED BY <2>3, <3>1
  <2>5. n - 1 \in 0 .. Len(seqs) /\ n - 1 \notin S
    <3> HIDE DEF S, G
    <3>1. n \in Nat /\ n - 1 \in 0 .. Len(seqs)
      BY <1>1, <2>3, <2>4
    <3> QED BY <2>2, <3>1
  <2>6. PICK f : G(n - 1, f)
    BY <2>5
  <2>7. G(n, [i \in 1 .. n |->
               IF i = n THEN (IF n = 1 THEN seqs[n] ELSE f[n - 1] \o seqs[n]) ELSE f[i]])
    <3> DEFINE g == [i \in 1 .. n |->
          IF i = n THEN (IF n = 1 THEN seqs[n] ELSE f[n - 1] \o seqs[n]) ELSE f[i]]
    <3>1. n \in Nat /\ n \in 1 .. Len(seqs) /\ seqs[n] \in Seq(B)
      BY <1>1, <2>3, <2>4
    <3>2. n # 1 => f[n - 1] \in Seq(B) /\ f[n - 1] \o seqs[n] \in Seq(B)
      BY <2>6, <3>1
    <3>3. \A i \in 1 .. n : i # n => i \in 1 .. n - 1 /\ f[i] \in Seq(B)
      BY <2>6, <3>1
    <3>4. g \in [1 .. n -> Seq(B)]
      BY <3>1, <3>2, <3>3
    <3>5. \A i \in 1 .. n : i # n => g[i] = (IF i = 1 THEN seqs[i] ELSE f[i-1] \o seqs[i])
      BY <2>6, <3>1, <3>3
    <3>6. \A i \in 1 .. n : i # 1 => i - 1 \in 1 .. n /\ i - 1 # n /\ g[i - 1] = f[i - 1]
      BY <3>1
    <3>7. g[n] = IF n = 1 THEN seqs[n] ELSE f[n - 1] \o seqs[n]
      BY <3>1
    <3> HIDE DEF g
    <3>8. \A i \in 1 .. n : g[i] = IF i = 1 THEN seqs[i] ELSE g[i-1] \o seqs[i]
      BY <3>5, <3>6, <3>7
    <3>9. G(n, g)
      BY <3>4, <3>8
    <3> QED BY <3>9 DEF g
  <2> QED BY <2>3, <2>7
<1>3. PICK f : G(Len(seqs), f)
  <2>1. Len(seqs) \in 0 .. Len(seqs)
    BY <1>1
  <2> QED BY <1>2, <2>1
<1> QED BY <1>3 DEF Joined

\* What FlattenSeq computes: the joined sequences, k at a time.
LEMMA FlatSteps ==
  ASSUME NEW B, NEW seqs \in Seq(Seq(B)), seqs # <<>>
  PROVE  \E f \in [1 .. Len(seqs) -> Seq(B)] :
           /\ FlattenSeq(seqs) = f[Len(seqs)] /\ f[1] = seqs[1]
           /\ \A i \in 1 .. Len(seqs) - 1 : f[i + 1] = f[i] \o seqs[i + 1]
<1>1. Len(seqs) \in Nat \ {0} /\ \A i \in 1 .. Len(seqs) : seqs[i] \in Seq(B)
  OBVIOUS
<1>2. PICK f : /\ Joined(seqs, f) /\ FlattenSeq(seqs) = f[Len(seqs)]
  <2>1. Joined(seqs, CHOOSE f : Joined(seqs, f))
    BY JoinedExists
  <2> QED BY <1>1, <2>1, FlatIs
<1>3. /\ f[1] = seqs[1] /\ DOMAIN f = 1 .. Len(seqs)
      /\ \A i \in 1 .. Len(seqs) - 1 : f[i + 1] = f[i] \o seqs[i + 1]
  <2>1. DOMAIN f = 1 .. Len(seqs)
    BY <1>2 DEF Joined
  <2>2. \A i \in 1 .. Len(seqs) : f[i] = IF i = 1 THEN seqs[i] ELSE f[i-1] \o seqs[i]
    BY <1>2 DEF Joined
  <2>3. f[1] = seqs[1]
    BY <1>1, <2>2
  <2>4. \A i \in 1 .. Len(seqs) - 1 : i + 1 \in 1 .. Len(seqs) /\ i + 1 # 1 /\ (i + 1) - 1 = i
    BY <1>1
  <2>5. \A i \in 1 .. Len(seqs) - 1 : f[i + 1] = f[i] \o seqs[i + 1]
    BY <2>2, <2>4
  <2> QED BY <2>1, <2>3, <2>5
<1>4. \A i \in 1 .. Len(seqs) : f[i] \in Seq(B)
  <2> DEFINE S == {i \in 1 .. Len(seqs) : f[i] \notin Seq(B)}
  <2> SUFFICES ASSUME S # {} PROVE FALSE
    OBVIOUS
  <2>1. S \in SUBSET Nat
    OBVIOUS
  <2> HIDE DEF S
  <2>2. PICK n \in S : \A m \in S : n <= m
    BY <2>1, Least
  <2>3. n \in 1 .. Len(seqs) /\ f[n] \notin Seq(B)
    BY <2>2 DEF S
  <2>4. n # 1
    BY <1>1, <1>3, <2>3
  <2>5. n - 1 \in 1 .. Len(seqs) - 1 /\ n - 1 \notin S /\ (n - 1) + 1 = n
    BY <1>1, <2>1, <2>2, <2>3, <2>4
  <2>6. f[n - 1] \in Seq(B)
    BY <1>1, <2>5 DEF S
  <2>7. f[n] = f[n - 1] \o seqs[n] /\ seqs[n] \in Seq(B)
    BY <1>1, <1>3, <2>3, <2>5
  <2> QED BY <2>3, <2>6, <2>7
<1>5. f \in [1 .. Len(seqs) -> Seq(B)]
  BY <1>2, <1>3, <1>4 DEF Joined
<1> QED BY <1>2, <1>3, <1>5

\* No sequences join to none.
LEMMA FlatNone == FlattenSeq(<<>>) = <<>>
BY DEF FlattenSeq

\* The sequences of some elements.
SeqSet(T) == \E B : T = Seq(B)

\* The laws of Cat.
LEMMA CatIs ==
  ASSUME NEW T, SeqSet(T)
  PROVE  /\ \A a, b \in T : Cat(a, b) \in T
         /\ \A a, b, c \in T : Cat(Cat(a, b), c) = Cat(a, Cat(b, c))
         /\ <<>> \in T
         /\ \A a \in T : Cat(a, <<>>) = a /\ Cat(<<>>, a) = a
<1>0. PICK B : T = Seq(B)
  BY DEF SeqSet
<1>1. \A a, b \in T : Cat(a, b) \in T
  BY <1>0 DEF Cat
<1>2. \A a, b, c \in T : Cat(Cat(a, b), c) = Cat(a, Cat(b, c))
  BY <1>0 DEF Cat
<1>3. <<>> \in T /\ \A a \in T : Cat(a, <<>>) = a /\ Cat(<<>>, a) = a
  BY <1>0 DEF Cat
<1> QED BY <1>1, <1>2, <1>3

\* What FlattenSeq computes: the sequences joined one after the other.
LEMMA FlatCat ==
  ASSUME NEW T, SeqSet(T), NEW seqs \in Seq(T), NEW n \in Nat \ {0}, n = Len(seqs)
  PROVE  \E f \in [1 .. n -> T] :
           /\ FlattenSeq(seqs) = f[n] /\ f[1] = seqs[1]
           /\ \A i \in 1 .. n - 1 : f[i + 1] = Cat(f[i], seqs[i + 1])
<1>1. seqs # <<>>
  OBVIOUS
<1>2. PICK B : T = Seq(B)
  BY DEF SeqSet
<1>3. PICK f \in [1 .. Len(seqs) -> Seq(B)] :
           /\ FlattenSeq(seqs) = f[Len(seqs)] /\ f[1] = seqs[1]
           /\ \A i \in 1 .. Len(seqs) - 1 : f[i + 1] = f[i] \o seqs[i + 1]
  BY <1>1, <1>2, FlatSteps
<1> QED BY <1>2, <1>3, Zenon DEF Cat

\* and nothing else.
LEMMA FlatUnique ==
  ASSUME NEW T, SeqSet(T), NEW seqs \in Seq(T), NEW n \in Nat \ {0}, n = Len(seqs),
         NEW g, g[1] = seqs[1],
         \A i \in 1 .. n - 1 : g[i + 1] = Cat(g[i], seqs[i + 1])
  PROVE  FlattenSeq(seqs) = g[n]
<1>1. PICK f \in [1 .. n -> T] :
           /\ FlattenSeq(seqs) = f[n] /\ f[1] = seqs[1]
           /\ \A i \in 1 .. n - 1 : f[i + 1] = Cat(f[i], seqs[i + 1])
  BY FlatCat
<1> DEFINE S == {i \in 1 .. n : f[i] # g[i]}
<1>3. S = {}
  <2> SUFFICES ASSUME S # {} PROVE FALSE
    OBVIOUS
  <2>1. S \in SUBSET Nat
    OBVIOUS
  <2> HIDE DEF S
  <2>2. PICK k \in S : \A m \in S : k <= m
    BY <2>1, Least
  <2>3. k \in 1 .. n /\ f[k] # g[k]
    BY <2>2 DEF S
  <2>4. k # 1
    BY <1>1, <2>3
  <2>5. k - 1 \in 1 .. n - 1 /\ k - 1 \notin S /\ (k - 1) + 1 = k
    BY <2>1, <2>2, <2>3, <2>4
  <2>6. f[k - 1] = g[k - 1]
    BY <2>5 DEF S
  <2>7. f[k] = Cat(f[k - 1], seqs[k]) /\ g[k] = Cat(g[k - 1], seqs[k])
    BY <1>1, <2>5
  <2> QED BY <2>3, <2>6, <2>7
<1> QED BY <1>1, <1>3

\* The joined sequence is one of the same elements.
LEMMA FlatType ==
  ASSUME NEW T, SeqSet(T), NEW seqs \in Seq(T) PROVE FlattenSeq(seqs) \in T
<1>1. CASE seqs = <<>>
  BY <1>1, FlatNone, CatIs
<1>2. CASE seqs # <<>>
  <2>1. PICK n \in Nat \ {0} : n = Len(seqs)
    BY <1>2
  <2>2. PICK f \in [1 .. n -> T] : FlattenSeq(seqs) = f[n]
    BY <2>1, FlatCat
  <2> QED BY <2>2
<1> QED BY <1>1, <1>2

\* Of one sequence more, it is the last.
LEMMA FlatMore ==
  ASSUME NEW T, SeqSet(T), NEW seqs \in Seq(T), NEW more \in Seq(T), NEW s \in T,
         NEW n \in Nat, n = Len(seqs), Len(more) = n + 1,
         \A k \in 1 .. n : more[k] = seqs[k], more[n + 1] = s
  PROVE  FlattenSeq(more) = Cat(FlattenSeq(seqs), s)
<1>2. CASE n = 0
  <2> DEFINE g == [i \in 1 .. 1 |-> s]
  <2>1. /\ g[1] = more[1] /\ \A i \in 1 .. 1 - 1 : g[i + 1] = Cat(g[i], more[i + 1])
        /\ Len(more) = 1 /\ seqs = <<>> /\ g[1] = s
    <3>1. seqs = <<>>
      <4>1. Len(seqs) = 0
        BY <1>2
      <4> QED BY <4>1, EmptyIs, Zenon
    <3>2. more[1] = s /\ Len(more) = 1
      BY <1>2
    <3> QED BY <3>1, <3>2
  <2> HIDE DEF g
  <2>2. FlattenSeq(more) = g[1]
    <3>1. 1 \in Nat \ {0} /\ 1 = Len(more)
      BY <2>1
    <3> QED BY <2>1, <3>1, FlatUnique
  <2> QED BY <2>1, <2>2, FlatNone, CatIs
<1>3. CASE n # 0
  <2>1. PICK f \in [1 .. n -> T] :
           /\ FlattenSeq(seqs) = f[n] /\ f[1] = seqs[1]
           /\ \A i \in 1 .. n - 1 : f[i + 1] = Cat(f[i], seqs[i + 1])
    <3>1. n \in Nat \ {0} /\ n = Len(seqs)
      BY <1>3
    <3> QED BY <3>1, FlatCat, SMTT(30)
  <2> DEFINE g == [i \in 1 .. n + 1 |-> IF i = n + 1 THEN Cat(f[n], s) ELSE f[i]]
  <2>2. g[1] = more[1] /\ g[n + 1] = Cat(f[n], s)
    BY <1>3, <2>1
  <2>3. ASSUME NEW i \in 1 .. n PROVE g[i + 1] = Cat(g[i], more[i + 1])
    <3>1. g[i] = f[i]
      OBVIOUS
    <3>2. CASE i = n
      BY <2>2, <3>1, <3>2
    <3>3. CASE i # n
      <4>1. i \in 1 .. n - 1 /\ i + 1 \in 1 .. n /\ i + 1 # n + 1
        BY <3>3
      <4>2. g[i + 1] = f[i + 1] /\ f[i + 1] = Cat(f[i], seqs[i + 1])
        BY <2>1, <4>1
      <4> QED BY <3>1, <4>1, <4>2
    <3> QED BY <3>2, <3>3
  <2>4. (n + 1) - 1 = n /\ n + 1 \in Nat \ {0}
    OBVIOUS
  <2> HIDE DEF g
  <2>5. FlattenSeq(more) = g[n + 1]
    <3>1. PICK m \in Nat \ {0} : m = n + 1
      BY <2>4
    <3>2. \A i \in 1 .. m - 1 : g[i + 1] = Cat(g[i], more[i + 1])
      BY <2>3, <2>4, <3>1
    <3> QED BY <2>2, <3>1, <3>2, FlatUnique
  <2> QED BY <2>1, <2>2, <2>5
<1> QED BY <1>2, <1>3

\* Of one sequence less, the first comes first.
LEMMA FlatHead ==
  ASSUME NEW T, SeqSet(T), NEW seqs \in Seq(T), NEW rest \in Seq(T), NEW s \in T,
         NEW n \in Nat, Len(rest) = n, Len(seqs) = n + 1,
         seqs[1] = s, \A k \in 1 .. n : rest[k] = seqs[k + 1]
  PROVE  FlattenSeq(seqs) = Cat(s, FlattenSeq(rest))
<1>1. \A a, b, c \in T : Cat(Cat(a, b), c) = Cat(a, Cat(b, c))
  BY CatIs
<1>2. CASE n = 0
  <2> DEFINE g == [i \in 1 .. 1 |-> s]
  <2>1. /\ g[1] = seqs[1] /\ \A i \in 1 .. 1 - 1 : g[i + 1] = Cat(g[i], seqs[i + 1])
        /\ Len(seqs) = 1 /\ rest = <<>> /\ g[1] = s
    BY <1>2
  <2> HIDE DEF g
  <2>2. FlattenSeq(seqs) = g[1]
    <3>1. 1 \in Nat \ {0} /\ 1 = Len(seqs)
      BY <2>1
    <3> QED BY <2>1, <3>1, FlatUnique
  <2> QED BY <2>1, <2>2, FlatNone, CatIs
<1>3. CASE n # 0
  <2>1. PICK h \in [1 .. n -> T] :
           /\ FlattenSeq(rest) = h[n] /\ h[1] = rest[1]
           /\ \A i \in 1 .. n - 1 : h[i + 1] = Cat(h[i], rest[i + 1])
    <3>1. n \in Nat \ {0} /\ n = Len(rest)
      BY <1>3
    <3> QED BY <3>1, FlatCat
  <2> DEFINE g == [i \in 1 .. n + 1 |-> IF i = 1 THEN s ELSE Cat(s, h[i - 1])]
  <2>2. g[1] = seqs[1] /\ g[n + 1] = Cat(s, h[n])
    BY <1>3
  <2>3. ASSUME NEW i \in 1 .. n PROVE g[i + 1] = Cat(g[i], seqs[i + 1])
    <3>1. g[i + 1] = Cat(s, h[i]) /\ rest[i] = seqs[i + 1]
      OBVIOUS
    <3>2. CASE i = 1
      BY <2>1, <2>2, <3>1, <3>2
    <3>3. CASE i # 1
      <4>1. i - 1 \in 1 .. n - 1 /\ (i - 1) + 1 = i /\ i - 1 \in 1 .. n
        BY <3>3
      <4>2. g[i] = Cat(s, h[i - 1]) /\ h[i] = Cat(h[i - 1], rest[i])
        BY <2>1, <3>3, <4>1
      <4>3. h[i - 1] \in T /\ rest[i] \in T
        BY <2>1, <4>1
      <4>4. Cat(s, Cat(h[i - 1], rest[i])) = Cat(Cat(s, h[i - 1]), rest[i])
        BY <1>1, <4>3
      <4> QED BY <3>1, <4>2, <4>4
    <3> QED BY <3>2, <3>3
  <2>4. (n + 1) - 1 = n /\ n + 1 \in Nat \ {0}
    OBVIOUS
  <2> HIDE DEF g
  <2>5. FlattenSeq(seqs) = g[n + 1]
    BY <2>2, <2>3, <2>4, FlatUnique
  <2> QED BY <2>1, <2>2, <2>5
<1> QED BY <1>2, <1>3

-----------------------------------------------------------------------------
(* PumpInv is inductive                                                    *)

\* The variables other than the list.
Scalars ==
  /\ given \in Seq(Offers)
  /\ outp \in {"none", "IDLE", "ACTIVE"} /\ armed \in BOOLEAN
  /\ buf \in Seq(Byte) /\ sent \in Seq(Byte) /\ buf_pos \in Nat /\ called \in Nat
  /\ pc \in {"event", "wcb", "head", "read"}
  /\ cb \in BOOLEAN /\ finished \in BOOLEAN /\ failed \in BOOLEAN

\* PumpInv in the parts that the actions disturb.
LEMMA PumpIs == PumpInv <=> Scalars /\ Control /\ ListOK
<1>1. TypeOK /\ (\A i \in DOMAIN inputs : InputOK(inputs[i])) <=> Scalars /\ ListOK
  BY DEF TypeOK, Scalars, ListOK
<1> QED BY <1>1 DEF PumpInv

\* In a callback the pump is neither finished nor without an output.
LEMMA BusyIs ==
  ASSUME PumpInv, pc # "event"
  PROVE  outp # "none" /\ ~ finished /\ ~ failed /\ called = 0
<1>1. Scalars /\ Control
  BY PumpIs
<1>2. outp # "none"
  BY <1>1 DEF Control
<1>3. ~ finished
  BY <1>1, <1>2 DEF Control, Scalars
<1> QED BY <1>1, <1>2, <1>3 DEF Control

\* Where the callback looks at the head.
LEMMA AtHeadIs ==
  ASSUME PumpInv, AtHead
  PROVE  /\ buf = <<>> /\ buf_pos <= ReadBuffer /\ buf_pos \in Nat
         /\ outp # "none" /\ pc # "event"
         /\ ~ finished /\ ~ failed /\ called = 0
<1>1. Scalars /\ Control
  BY PumpIs
<1>2. buf = <<>> /\ pc # "event"
  BY <1>1 DEF AtHead, Control
<1>3. buf_pos <= ReadBuffer /\ buf_pos \in Nat
  BY <1>1, <1>2 DEF Control, Scalars
<1> QED BY <1>2, <1>3, BusyIs

\* do_write() adds bytes to what is sent.
LEMMA WroteIs ==
  ASSUME sent \in Seq(Byte), NEW data \in Seq(Byte), NEW n, Wrote(data, n)
  PROVE  sent' \in Seq(Byte) /\ n \in 0 .. Len(data) /\ n \in Nat /\ Len(data) \in Nat
<1>1. n \in 0 .. Len(data) /\ sent' = sent \o SubSeq(data, 1, n) /\ Len(data) \in Nat
  BY DEF Wrote
<1>2. SubSeq(data, 1, n) \in Seq(Byte)
  BY <1>1, SubSeqIs
<1> QED BY <1>1, <1>2

\* An empty list is sound.
LEMMA NoInputs == ASSUME inputs = <<>> PROVE ListOK
BY DEF ListOK

\* finished() leaves a finished pump.
LEMMA FinishOK ==
  ASSUME PumpInv, ~ finished, Finish, UNCHANGED <<given, cb>>, failed' \in BOOLEAN,
         sent' \in Seq(Byte), buf' \in Seq(Byte), buf_pos' \in Nat,
         buf' = <<>> => buf_pos' <= ReadBuffer
  PROVE  PumpInv'
<1>1. Scalars /\ Control
  BY PumpIs
<1>2. called = 0
  BY <1>1 DEF Control
<1>3. called' = (IF cb THEN 1 ELSE 0) /\ called' \in Nat /\ called' <= 1
  BY <1>1, <1>2 DEF Finish, Scalars
<1>4. Scalars'
  BY <1>1, <1>3 DEF Scalars, Finish
<1>5. Control'
  <2>1. /\ inputs' = <<>> /\ outp' = "none" /\ ~ armed' /\ finished' /\ pc' = "event"
        /\ cb' = cb
    BY DEF Finish
  <2>2. cb => called' = 1
    BY <1>3
  <2> QED BY <1>3, <2>1, <2>2 DEF Control
<1>6. ListOK'
  <2>1. inputs' = <<>>
    BY DEF Finish
  <2> QED BY <2>1 DEF ListOK
<1>7. (Scalars /\ Control /\ ListOK)'
  BY <1>4, <1>5, <1>6
<1> QED BY <1>7, PumpIs, PTL

\* The callback goes back to the backend with its callback set.
LEMMA RearmOK ==
  ASSUME PumpInv, pc # "event", Rearm, ListOK', sent' \in Seq(Byte), buf' \in Seq(Byte),
         buf_pos' \in Nat, buf' = <<>> => buf_pos' <= ReadBuffer,
         UNCHANGED <<given, outp, called, finished, cb, failed>>
  PROVE  PumpInv'
<1>1. Scalars /\ Control
  BY PumpIs
<1>2. outp # "none" /\ ~ finished /\ ~ failed /\ called = 0
  BY BusyIs
<1>3. Scalars'
  BY <1>1 DEF Scalars, Rearm
<1>4. Control'
  BY <1>2 DEF Control, Rearm
<1>5. (Scalars /\ Control /\ ListOK)'
  BY <1>3, <1>4
<1> QED BY <1>5, PumpIs, PTL

\* The caller: the list grows at its end.
LEMMA AddInputOK == ASSUME PumpInv, NEW o \in Offers, AddInput(o) PROVE PumpInv'
<1>1. Scalars /\ Control /\ ListOK
  BY PumpIs
<1>2. /\ o.kind \in Kinds /\ o.size \in Nat /\ o.limit \in Nat \cup {-1}
      /\ given \in Seq(Offers) /\ inputs \in Seq(InputType)
  BY <1>1, OffersAssumption DEF Scalars, ListOK
<1>3. PICK n \in Nat, m \in Nat :
        /\ n = Len(given) /\ m = Len(inputs)
        /\ DOMAIN given = 1 .. n /\ DOMAIN inputs = 1 .. m
  BY <1>2
<1>4. NewInput(o) \in InputType
  <2>1. MinOf(o.size, MaxMmap) \in Nat
    BY <1>2, BoundsAssumption DEF MinOf
  <2> QED BY <1>2, <1>3, <2>1 DEF NewInput, InputType, Kinds
<1>5. PICK h \in InputType : h = NewInput(o)
  BY <1>4
<1>6. given' = Append(given, o) /\ inputs' = Append(inputs, h)
  BY <1>5 DEF AddInput
<1>7. /\ given' \in Seq(Offers) /\ DOMAIN given' = 1 .. n + 1
      /\ \A k \in 1 .. n : given'[k] = given[k]
      /\ given'[n + 1] = o
  BY <1>2, <1>3, <1>6, AppendIs
<1>8. /\ inputs' \in Seq(InputType) /\ DOMAIN inputs' = 1 .. m + 1
      /\ \A k \in 1 .. m : inputs'[k] = inputs[k]
      /\ inputs'[m + 1] = h
  BY <1>2, <1>3, <1>6, AppendIs
<1>9. ASSUME NEW i \in 1 .. m
      PROVE  inputs'[i].id \in DOMAIN given' /\ InputOK(inputs[i])'
  <2>1. inputs[i].id \in 1 .. n /\ InputOK(inputs[i]) /\ inputs'[i] = inputs[i]
    BY <1>1, <1>3, <1>8 DEF ListOK
  <2>2. given'[inputs[i].id] = given[inputs[i].id] /\ inputs[i].id \in 1 .. n + 1
    BY <1>7, <2>1
  <2> QED BY <1>7, <2>1, <2>2 DEF InputOK, Source
<1>10. h.id \in DOMAIN given' /\ InputOK(h)'
  <2>1. h.id = n + 1 /\ given'[h.id] = o /\ h.id \in 1 .. n + 1
    BY <1>3, <1>5, <1>7 DEF NewInput
  <2>2. /\ h.kind = o.kind /\ h.base = 0 /\ h.pos = 0 /\ h.off = 0
        /\ h.len = (IF o.kind \in {"str", "mmap"} THEN o.size ELSE o.limit)
        /\ h.mend = (IF o.kind = "mmap" THEN MinOf(o.size, MaxMmap) ELSE 0)
    BY <1>5 DEF NewInput
  <2>3. MinOf(o.size, MaxMmap) \in Nat /\ MinOf(o.size, MaxMmap) <= o.size
    BY <1>2, BoundsAssumption DEF MinOf
  <2>4. h.len = -1 \/ 0 <= h.len
    BY <1>2, <2>2
  <2> QED BY <1>2, <1>7, <2>1, <2>2, <2>3, <2>4 DEF InputOK, Source
<1>11. ListOK'
  <2>1. \A i \in 1 .. m + 1 : i \in 1 .. m \/ i = m + 1
    OBVIOUS
  <2>2. inputs'[m + 1].id \in DOMAIN given' /\ InputOK(inputs[m + 1])'
    BY <1>8, <1>10 DEF InputOK, Source
  <2> QED BY <1>8, <1>9, <2>1, <2>2 DEF ListOK
<1>12. Scalars'
  BY <1>1, <1>7 DEF Scalars, AddInput, bufVars, endVars
<1>13. Control'
  BY <1>1 DEF Control, AddInput, Setup, bufVars, endVars
<1>14. (Scalars /\ Control /\ ListOK)'
  BY <1>11, <1>12, <1>13
<1> QED BY <1>14, PumpIs, PTL

\* A list that does not change.
LEMMA SameList == ASSUME ListOK, UNCHANGED <<given, inputs>> PROVE ListOK'
BY DEF ListOK, InputOK, Source

\* set_done_callback() keeps the invariant.
LEMMA SetDoneCallbackOK == ASSUME PumpInv, SetDoneCallback PROVE PumpInv'
<1>1. Scalars /\ Control /\ ListOK
  BY PumpIs
<1>2. Scalars'
  BY <1>1 DEF Scalars, SetDoneCallback, bufVars
<1>3. Control'
  BY <1>1 DEF Control, SetDoneCallback, Setup, bufVars
<1>4. ListOK'
  BY <1>1, SameList DEF SetDoneCallback
<1>5. (Scalars /\ Control /\ ListOK)'
  BY <1>2, <1>3, <1>4
<1> QED BY <1>5, PumpIs, PTL

\* output() keeps the invariant.
LEMMA OutputOK == ASSUME PumpInv, Output PROVE PumpInv'
<1>1. Scalars /\ Control /\ ListOK
  BY PumpIs
<1>2. Scalars'
  BY <1>1 DEF Scalars, Output, bufVars, endVars
<1>3. Control'
  BY <1>1 DEF Control, Output, Setup, bufVars, endVars
<1>4. ListOK'
  BY <1>1, SameList DEF Output
<1>5. (Scalars /\ Control /\ ListOK)'
  BY <1>2, <1>3, <1>4
<1> QED BY <1>5, PumpIs, PTL

\* The backend's call of _output_write_cb keeps the invariant.
LEMMA OutputReadyOK == ASSUME PumpInv, OutputReady PROVE PumpInv'
<1>1. Scalars /\ Control /\ ListOK
  BY PumpIs
<1>2. Scalars'
  BY <1>1 DEF Scalars, OutputReady, bufVars, endVars
<1>3. Control'
  BY <1>1 DEF Control, Scalars, OutputReady, bufVars, endVars
<1>4. ListOK'
  BY <1>1, SameList DEF OutputReady
<1>5. (Scalars /\ Control /\ ListOK)'
  BY <1>2, <1>3, <1>4
<1> QED BY <1>5, PumpIs, PTL

\* The write callback: the buffer shrinks from the front.
LEMMA WriteBufferOK == ASSUME PumpInv, NEW n, WriteBuffer(n) PROVE PumpInv'
<1>1. Scalars /\ Control /\ ListOK
  BY PumpIs
<1>2. /\ sent' \in Seq(Byte) /\ n \in 0 .. Len(buf) /\ n \in Nat /\ Len(buf) \in Nat
  BY <1>1, WroteIs DEF Scalars, WriteBuffer
<1>3. PICK b \in Seq(Byte) : b = SubSeq(buf, n + 1, Len(buf)) /\ Len(b) = Len(buf) - n
  BY <1>1, <1>2, SubSeqIs DEF Scalars
<1>4. buf' = b
  BY <1>3 DEF WriteBuffer
<1>5. outp # "none" /\ ~ finished /\ called = 0 /\ ~ failed /\ pc # "event"
  BY BusyIs DEF WriteBuffer
<1>6. /\ UNCHANGED <<given, inputs, outp, cb, called, finished, failed>>
  BY DEF WriteBuffer, endVars
<1>7. CASE n = Len(buf)
  <2>1. b = <<>>
    BY <1>2, <1>3, <1>7
  <2>2. buf_pos' = 0 /\ pc' = "head" /\ armed' = armed
    BY <1>7 DEF WriteBuffer
  <2>3. Scalars'
    BY <1>1, <1>2, <1>4, <1>6, <2>2 DEF Scalars
  <2>4. Control'
    BY <1>4, <1>5, <1>6, <2>1, <2>2, BoundsAssumption DEF Control
  <2>5. ListOK'
    BY <1>1, <1>6, SameList
  <2>6. (Scalars /\ Control /\ ListOK)'
    BY <2>3, <2>4, <2>5
  <2> QED BY <2>6, PumpIs, PTL
<1>8. CASE n # Len(buf)
  <2>1. b # <<>>
    <3>1. Len(b) = Len(buf) - n
      BY <1>3, Zenon
    <3>2. Len(b) # 0
      BY <1>2, <1>8, <3>1
    <3> QED BY <3>2
  <2>2. buf_pos' = buf_pos + n /\ Rearm
    BY <1>8 DEF WriteBuffer
  <2>3. buf_pos' \in Nat
    BY <1>1, <1>2, <2>2 DEF Scalars
  <2>4. ListOK'
    BY <1>1, <1>6, SameList
  <2> QED BY <1>2, <1>4, <1>5, <1>6, <2>1, <2>2, <2>3, <2>4, RearmOK
<1> QED BY <1>7, <1>8

\* The end of the list keeps the invariant.
LEMMA NothingLeftOK == ASSUME PumpInv, NothingLeft PROVE PumpInv'
<1>1. Scalars /\ ~ finished /\ buf_pos <= ReadBuffer
  BY PumpIs, AtHeadIs DEF NothingLeft
<1>2. Finish /\ UNCHANGED <<given, cb, buf, buf_pos, sent, failed>>
  BY DEF NothingLeft, bufVars
<1> QED BY <1>1, <1>2, FinishOK DEF Scalars

\* A failed write keeps the invariant.
LEMMA WriteFailsOK == ASSUME PumpInv, WriteFails PROVE PumpInv'
<1>1. Scalars /\ Control
  BY PumpIs
<1>2. ~ finished /\ (buf = <<>> => buf_pos <= ReadBuffer)
  BY <1>1, AtHeadIs, BusyIs DEF WriteFails, Control
<1>3. Finish /\ failed' = TRUE /\ UNCHANGED <<given, cb, buf, buf_pos, sent>>
  BY DEF WriteFails, bufVars
<1> QED BY <1>1, <1>2, <1>3, FinishOK DEF Scalars

\* Dropping the object keeps the invariant.
LEMMA DestroyOK == ASSUME PumpInv, Destroy PROVE PumpInv'
<1>1. Scalars /\ Control
  BY PumpIs
<1>2. called = 0
  <2>1. ~ finished
    BY <1>1 DEF Control, Destroy
  <2> QED BY <1>1, <2>1 DEF Control
<1>3. Scalars'
  <2>1. buf' \in Seq(Byte) /\ buf_pos' \in Nat
    BY DEF Destroy
  <2> QED BY <1>1, <2>1, Zenon DEF Scalars, Destroy
<1>4. Control'
  BY <1>2, BoundsAssumption DEF Control, Destroy
<1>5. ListOK'
  BY DEF ListOK, Destroy
<1>6. (Scalars /\ Control /\ ListOK)'
  BY <1>3, <1>4, <1>5
<1> QED BY <1>6, PumpIs, PTL

\* The write callback idles.
LEMMA IdleOK ==
  ASSUME PumpInv, AtHead, outp' = "IDLE", pc' = "event", ListOK',
         UNCHANGED <<given, armed, bufVars, sent, endVars>>
  PROVE  PumpInv'
<1>1. Scalars /\ Control
  BY PumpIs
<1>2. /\ buf = <<>> /\ buf_pos <= ReadBuffer /\ ~ finished /\ ~ failed /\ called = 0
  BY AtHeadIs
<1>3. Scalars'
  BY <1>1 DEF Scalars, bufVars, endVars
<1>4. Control'
  BY <1>2 DEF Control, bufVars, endVars
<1>5. (Scalars /\ Control /\ ListOK)'
  BY <1>3, <1>4
<1> QED BY <1>5, PumpIs, PTL

\* Waiting for a non-blocking head keeps the invariant.
LEMMA WaitForInputOK == ASSUME PumpInv, WaitForInput PROVE PumpInv'
<1>1. ListOK /\ inputs # <<>> /\ AtHead
  BY PumpIs DEF WaitForInput, HeadIs
<1>2. inputs[1] \in InputType /\ inputs[1].id \in DOMAIN given /\ InputOK(inputs[1])
  BY <1>1, HeadIn
<1>3. PICK h \in InputType : h = [inputs[1] EXCEPT !.mode = "READING"]
  BY <1>2 DEF InputType
<1>4. /\ h.id = inputs[1].id /\ h.kind = inputs[1].kind /\ h.base = inputs[1].base
      /\ h.len = inputs[1].len /\ h.pos = inputs[1].pos /\ h.off = inputs[1].off
      /\ h.mend = inputs[1].mend
  BY <1>2, <1>3 DEF InputType
<1>5. InputOK(h)
  BY <1>2, <1>4 DEF InputOK, Source
<1>6. Heads(h)
  <2>1. inputs' = SetHead(h)
    BY <1>3 DEF WaitForInput, Head1
  <2> QED BY <1>1, <2>1, HeadDoes DEF ListOK
<1>7. ListOK'
  BY <1>1, <1>2, <1>4, <1>5, <1>6, HeadsOK DEF WaitForInput
<1> QED BY <1>1, <1>7, IdleOK DEF WaitForInput

\* A failed mapping keeps the invariant.
LEMMA RemapFailsOK == ASSUME PumpInv, RemapFails PROVE PumpInv'
<1>1. ListOK /\ inputs # <<>> /\ AtHead /\ TypeOK /\ Scalars
  BY PumpIs DEF RemapFails, HeadIs, PumpInv
<1>2. inputs[1] \in InputType /\ inputs[1].id \in DOMAIN given /\ InputOK(inputs[1])
  BY <1>1, HeadIn
<1>3. PICK h \in InputType : h = [inputs[1] EXCEPT !.kind = "block"]
  BY <1>2 DEF InputType, Kinds
<1>4. /\ h.id = inputs[1].id /\ h.kind = "block" /\ h.base = inputs[1].base
      /\ h.len = inputs[1].len /\ h.pos = inputs[1].pos /\ h.off = inputs[1].off
  BY <1>2, <1>3 DEF InputType
<1>5. InputOK(h)
  <2>1. inputs[1].kind = "mmap"
    BY <1>1 DEF RemapFails, HeadIs, Head1
  <2>2. Source(inputs[1]).size \in Nat
    BY <1>1, <1>2, GivenIn DEF Source
  <2> QED BY <1>2, <1>4, <2>1, <2>2 DEF InputOK, Source, InputType
<1>6. Heads(h)
  <2>1. inputs' = SetHead(h)
    BY <1>3 DEF RemapFails, Head1
  <2> QED BY <1>1, <2>1, HeadDoes DEF ListOK
<1>7. ListOK'
  BY <1>1, <1>2, <1>4, <1>5, <1>6, HeadsOK DEF RemapFails
<1>8. /\ buf = <<>> /\ buf_pos <= ReadBuffer /\ ~ finished /\ ~ failed /\ called = 0
  BY <1>1, AtHeadIs
<1>9. /\ outp' = "IDLE" /\ pc' = "head"
      /\ UNCHANGED <<given, armed, buf, buf_pos, sent, cb, called, finished, failed>>
  BY DEF RemapFails, bufVars, endVars
<1>10. Scalars'
  BY <1>1, <1>9 DEF Scalars
<1>11. Control'
  BY <1>8, <1>9 DEF Control
<1>12. (Scalars /\ Control /\ ListOK)'
  BY <1>7, <1>10, <1>11
<1> QED BY <1>12, PumpIs, PTL

\* A write from the head.
LEMMA PumpWrite ==
  ASSUME PumpInv, AtHead, inputs # <<>>, NEW h \in InputType, NEW n \in Nat, Advance(h, n),
         h.id \in DOMAIN given, sent' \in Seq(Byte),
         \A g \in InputType : g = [h EXCEPT !.pos = h.pos + n] => g.id = h.id /\ InputOK(g),
         UNCHANGED <<given, bufVars, cb, failed>>
  PROVE  PumpInv'
<1>1. ListOK /\ Scalars /\ ~ finished /\ buf_pos <= ReadBuffer /\ pc # "event"
  BY PumpIs, AtHeadIs
<1>2. CASE Finish
  BY <1>1, <1>2, FinishOK DEF bufVars, Scalars
<1>3. CASE Frees /\ Rearm /\ UNCHANGED <<outp, called, finished>>
  <2>1. ListOK'
    BY <1>1, <1>3, FreesOK
  <2> QED BY <1>1, <1>3, <2>1, RearmOK DEF bufVars, Scalars
<1>4. ASSUME NEW g \in InputType, g = [h EXCEPT !.pos = h.pos + n], Heads(g), Rearm,
             UNCHANGED <<outp, called, finished>>
      PROVE  PumpInv'
  <2>1. g.id \in DOMAIN given /\ InputOK(g)
    BY <1>4
  <2>2. ListOK'
    BY <1>1, <1>4, <2>1, HeadsOK
  <2> QED BY <1>1, <1>4, <2>2, RearmOK DEF bufVars, Scalars
<1> QED BY <1>1, <1>2, <1>3, <1>4, AdvanceDoes

\* A string is written from where it is.
LEMMA StringWrites ==
  ASSUME PumpInv, NEW n, WriteString(n)
  PROVE  /\ inputs # <<>> /\ AtHead /\ Head1 \in InputType /\ Head1.kind = "str"
         /\ n \in Nat /\ Head1.len \in Nat /\ Head1.pos + n <= Head1.len
         /\ Bytes(Head1.id, Head1.base + Head1.pos, Head1.len - Head1.pos) \in Seq(Byte)
         /\ n \in 0 .. (Head1.len - Head1.pos) /\ Head1.len - Head1.pos \in Nat
         /\ sent' \in Seq(Byte)
<1>1. ListOK /\ Scalars /\ inputs # <<>> /\ AtHead /\ Head1.kind = "str"
  BY PumpIs DEF WriteString, HeadIs
<1>2. Head1 \in InputType /\ InputOK(Head1)
  BY <1>1, HeadIn DEF Head1
<1>3. PICK d \in Nat, k \in Nat, m \in Nat :
        /\ d = Head1.id /\ k = Head1.base + Head1.pos /\ m = Head1.len - Head1.pos
        /\ Head1.len \in Nat /\ Head1.pos \in Nat
  BY <1>1, <1>2 DEF InputType, InputOK
<1>4. Bytes(d, k, m) \in Seq(Byte) /\ Len(Bytes(d, k, m)) = m
  BY BytesIs
<1>5. PICK data \in Seq(Byte) : data = Bytes(d, k, m) /\ Len(data) = m
  BY <1>4
<1>6. Wrote(data, n)
  BY <1>3, <1>5, Zenon DEF WriteString
<1>7. n \in 0 .. m /\ sent' \in Seq(Byte)
  BY <1>1, <1>5, <1>6, WroteIs DEF Scalars
<1>8. n \in Nat /\ Head1.pos + n <= Head1.len
  BY <1>3, <1>7
<1> QED BY <1>1, <1>2, <1>3, <1>4, <1>7, <1>8, Zenon

\* Writing a string keeps the invariant.
LEMMA WriteStringOK == ASSUME PumpInv, NEW n, WriteString(n) PROVE PumpInv'
<1>1. /\ inputs # <<>> /\ AtHead /\ Head1 \in InputType /\ Head1.kind = "str"
      /\ n \in Nat /\ Head1.len \in Nat /\ Head1.pos + n <= Head1.len /\ sent' \in Seq(Byte)
  BY StringWrites
<1>2. PICK h \in InputType : h = Head1 /\ h.id \in DOMAIN given
  BY <1>1, PumpIs, HeadIn DEF Head1
<1>3. ASSUME NEW g \in InputType, g = [h EXCEPT !.pos = h.pos + n]
      PROVE  g.id = h.id /\ InputOK(g)
  <2>1. g.id = h.id /\ g.kind = h.kind /\ g.len = h.len /\ g.pos = h.pos + n
    BY <1>3 DEF InputType
  <2> QED BY <1>1, <1>2, <2>1 DEF InputOK
<1>4. Advance(h, n) /\ UNCHANGED <<given, bufVars, cb, failed>>
  BY <1>2 DEF WriteString
<1> QED BY <1>1, <1>2, <1>3, <1>4, PumpWrite

\* A mapped file is written from where it is, as far as it is mapped.
LEMMA MmapWrites ==
  ASSUME PumpInv, NEW n, WriteMmap(n)
  PROVE  /\ inputs # <<>> /\ AtHead /\ Head1 \in InputType /\ Head1.kind = "mmap"
         /\ Head1.len \in Nat /\ InputOK(Head1) /\ sent' \in Seq(Byte)
         /\ \E mend \in Nat :
              /\ mend <= Head1.len /\ Head1.pos <= mend
              /\ n \in 0 .. (mend - Head1.pos) /\ n \in Nat /\ Head1.pos + n <= mend
              /\ Wrote(Bytes(Head1.id, Head1.pos, mend - Head1.pos), n)
              /\ Advance([Head1 EXCEPT !.mend = mend], n)
<1>1. ListOK /\ Scalars /\ inputs # <<>> /\ AtHead /\ Head1.kind = "mmap" /\ TypeOK
  BY PumpIs DEF WriteMmap, HeadIs, PumpInv
<1>2. Head1 \in InputType /\ InputOK(Head1) /\ Source(Head1).size \in Nat
  BY <1>1, HeadIn, GivenIn DEF Head1, Source
<1>3. PICK d \in Nat, p \in Nat, l \in Nat, e \in Nat :
        /\ d = Head1.id /\ p = Head1.pos /\ l = Head1.len /\ e = Head1.mend
        /\ p <= e /\ e <= l
  BY <1>1, <1>2 DEF InputType, InputOK
<1>4. PICK mend \in Nat :
        /\ mend = (IF e = p THEN p + MinOf(l - p, MaxMmap) ELSE e)
        /\ mend <= l /\ p <= mend
  <2>1. l - p \in Nat /\ MinOf(l - p, MaxMmap) \in Nat /\ MinOf(l - p, MaxMmap) <= l - p
    BY <1>3, BoundsAssumption DEF MinOf
  <2>2. PICK x \in Nat : x = MinOf(l - p, MaxMmap) /\ x <= l - p
    BY <2>1
  <2> QED BY <1>3, <2>2
<1>5. Wrote(Bytes(d, p, mend - p), n) /\ Advance([Head1 EXCEPT !.mend = mend], n)
  BY <1>3, <1>4, Zenon DEF WriteMmap
<1>6. PICK m \in Nat : m = mend - p
  BY <1>4
<1>7. Bytes(d, p, m) \in Seq(Byte) /\ Len(Bytes(d, p, m)) = m
  BY BytesIs
<1>8. n \in 0 .. m /\ sent' \in Seq(Byte)
  <2>1. PICK data \in Seq(Byte) : data = Bytes(d, p, m) /\ Len(data) = m
    BY <1>7
  <2>2. Wrote(data, n)
    BY <1>5, <1>6, <2>1, Zenon
  <2> QED BY <1>1, <2>1, <2>2, WroteIs DEF Scalars
<1>9. n \in Nat /\ p + n <= mend
  BY <1>6, <1>8
<1> QED BY <1>1, <1>2, <1>3, <1>4, <1>5, <1>6, <1>8, <1>9, Zenon

\* Writing a mapped file keeps the invariant.
LEMMA WriteMmapOK == ASSUME PumpInv, NEW n, WriteMmap(n) PROVE PumpInv'
<1>1. /\ inputs # <<>> /\ AtHead /\ Head1 \in InputType /\ Head1.kind = "mmap"
      /\ Head1.len \in Nat /\ InputOK(Head1) /\ sent' \in Seq(Byte)
  BY MmapWrites
<1>2. PICK mend \in Nat : /\ mend <= Head1.len /\ Head1.pos <= mend
                          /\ n \in Nat /\ Head1.pos + n <= mend
                          /\ Advance([Head1 EXCEPT !.mend = mend], n)
  BY MmapWrites
<1>3. PICK h \in InputType : h = [Head1 EXCEPT !.mend = mend]
  BY <1>1 DEF InputType
<1>4. /\ h.id = Head1.id /\ h.kind = "mmap" /\ h.base = Head1.base /\ h.off = Head1.off
      /\ h.len = Head1.len /\ h.pos = Head1.pos /\ h.mend = mend
  BY <1>1, <1>3 DEF InputType
<1>5. ASSUME NEW g \in InputType, g = [h EXCEPT !.pos = h.pos + n]
      PROVE  g.id = h.id /\ InputOK(g)
  <2>1. /\ g.id = h.id /\ g.kind = h.kind /\ g.base = h.base /\ g.len = h.len
        /\ g.off = h.off /\ g.mend = h.mend /\ g.pos = h.pos + n
    BY <1>5 DEF InputType
  <2> QED BY <1>1, <1>2, <1>4, <2>1 DEF InputOK, Source
<1>6. Advance(h, n) /\ UNCHANGED <<given, bufVars, cb, failed>>
  BY <1>2, <1>3 DEF WriteMmap
<1>7. h.id \in DOMAIN given
  BY <1>1, <1>4, PumpIs, HeadIn DEF Head1
<1> QED BY <1>1, <1>2, <1>5, <1>6, <1>7, PumpWrite

\* The write callback starts over.
LEMMA AgainOK ==
  ASSUME PumpInv, AtHead, pc' = "wcb", buf_pos' = 0, ListOK',
         UNCHANGED <<given, outp, armed, buf, sent, endVars>>
  PROVE  PumpInv'
<1>1. Scalars /\ Control
  BY PumpIs
<1>2. /\ buf = <<>> /\ outp # "none" /\ ~ finished /\ ~ failed /\ called = 0
  BY AtHeadIs
<1>3. Scalars'
  BY <1>1 DEF Scalars, endVars
<1>4. Control'
  BY <1>2, BoundsAssumption DEF Control, endVars
<1>5. (Scalars /\ Control /\ ListOK)'
  BY <1>3, <1>4
<1> QED BY <1>5, PumpIs, PTL

\* The end of a blocking read keeps the invariant.
LEMMA BlockingDoneOK == ASSUME PumpInv, BlockingDone PROVE PumpInv'
<1>1. ListOK /\ inputs # <<>> /\ AtHead
  BY PumpIs DEF BlockingDone, HeadIs
<1>2. Frees
  BY <1>1, FreeDoes DEF ListOK, BlockingDone
<1>3. ListOK'
  BY <1>1, <1>2, FreesOK DEF BlockingDone
<1> QED BY <1>1, <1>3, AgainOK DEF BlockingDone

\* The end of a blocking file keeps the invariant.
LEMMA BlockingEofOK == ASSUME PumpInv, BlockingEof PROVE PumpInv'
<1>1. ListOK /\ inputs # <<>> /\ AtHead /\ Scalars /\ ~ finished /\ pc # "event"
  BY PumpIs, AtHeadIs DEF BlockingEof, BlockingAtEof, HeadIs
<1>2. CASE Finish
  BY <1>1, <1>2, FinishOK, BoundsAssumption DEF Scalars, BlockingEof
<1>3. CASE inputs' = FreeHead /\ Rearm /\ UNCHANGED <<outp, called, finished>>
  <2>1. Frees
    BY <1>1, <1>3, FreeDoes DEF ListOK
  <2>2. ListOK'
    BY <1>1, <2>1, FreesOK DEF BlockingEof
  <2> QED BY <1>1, <1>3, <2>2, RearmOK, BoundsAssumption DEF BlockingEof, Scalars
<1> QED BY <1>2, <1>3 DEF BlockingEof

\* The list with a string before another head.
Pushes(s, h) ==
  /\ inputs # <<>> /\ inputs' \in Seq(InputType) /\ Len(inputs') = Len(inputs) + 1
  /\ inputs'[1] = s /\ inputs'[2] = h
  /\ \A i \in 2 .. Len(inputs) : inputs'[i + 1] = inputs[i]

\* What a blocking object returns.
LEMMA ReadBlockingDoes ==
  ASSUME PumpInv, NEW n, ReadBlocking(n)
  PROVE  /\ inputs # <<>> /\ AtHead /\ Head1 \in InputType /\ Head1.kind = "block"
         /\ InputOK(Head1) /\ Head1.id \in DOMAIN given
         /\ n \in Nat \ {0} /\ Head1.pos + n <= Source(Head1).size
         /\ Source(Head1).size \in Nat /\ Source(Head1).kind = "block"
         /\ \E s \in InputType, h \in InputType :
              /\ Pushes(s, h)
              /\ s.id = Head1.id /\ s.kind = "str" /\ s.base = Head1.pos /\ s.len = n
              /\ s.pos = 0
              /\ h.id = Head1.id /\ h.kind = "block" /\ h.base = Head1.base
              /\ h.len = Head1.len /\ h.pos = Head1.pos + n
<1>1. ListOK /\ inputs # <<>> /\ AtHead /\ TypeOK /\ Head1.kind = "block"
  BY PumpIs DEF ReadBlocking, HeadIs, PumpInv
<1>2. /\ Head1 \in InputType /\ InputOK(Head1) /\ Head1.id \in DOMAIN given
      /\ Source(Head1).size \in Nat /\ Len(given) \in Nat
  BY <1>1, HeadIn, GivenIn DEF Head1, Source, TypeOK
<1>3. n \in Nat \ {0} /\ Head1.pos + n <= Source(Head1).size
  <2>1. n \in 1 .. MinOf(ReadBuffer, Source(Head1).size - Head1.pos) /\ Head1.pos \in Nat
    BY <1>2 DEF ReadBlocking, InputType
  <2> QED BY <1>2, <2>1, BoundsAssumption DEF MinOf
<1>4. PICK s \in InputType :
        /\ s = [NewInput([kind |-> "str", size |-> n, limit |-> 0])
                  EXCEPT !.id = Head1.id, !.base = Head1.pos]
        /\ s.id = Head1.id /\ s.kind = "str" /\ s.base = Head1.pos /\ s.len = n
        /\ s.pos = 0
  <2>1. PICK d \in Nat, p \in Nat, l \in Nat :
          d = Head1.id /\ p = Head1.pos /\ l = Len(given) + 1
    BY <1>2 DEF InputType
  <2>2. PICK s : s = [id |-> d, kind |-> "str", base |-> p, len |-> n, pos |-> 0,
                      off |-> 0, mend |-> 0, mode |-> "SLEEPING"]
    OBVIOUS
  <2>3. /\ s \in InputType /\ s.id = d /\ s.kind = "str" /\ s.base = p /\ s.len = n
        /\ s.pos = 0
    BY <1>3, <2>2 DEF InputType, Kinds
  <2>4. NewInput([kind |-> "str", size |-> n, limit |-> 0]) =
          [id |-> l, kind |-> "str", base |-> 0, len |-> n, pos |-> 0,
           off |-> 0, mend |-> 0, mode |-> "SLEEPING"]
    BY <2>1 DEF NewInput
  <2>5. [[id |-> l, kind |-> "str", base |-> 0, len |-> n, pos |-> 0,
           off |-> 0, mend |-> 0, mode |-> "SLEEPING"]
          EXCEPT !.id = d, !.base = p] = s
    <3>1. [[id |-> l, kind |-> "str", base |-> 0, len |-> n, pos |-> 0,
            off |-> 0, mend |-> 0, mode |-> "SLEEPING"] EXCEPT !.id = d] =
          [id |-> d, kind |-> "str", base |-> 0, len |-> n, pos |-> 0,
           off |-> 0, mend |-> 0, mode |-> "SLEEPING"]
      OBVIOUS
    <3>2. [[id |-> d, kind |-> "str", base |-> 0, len |-> n, pos |-> 0,
            off |-> 0, mend |-> 0, mode |-> "SLEEPING"] EXCEPT !.base = p] =
          [id |-> d, kind |-> "str", base |-> p, len |-> n, pos |-> 0,
           off |-> 0, mend |-> 0, mode |-> "SLEEPING"]
      OBVIOUS
    <3> QED BY <2>2, <3>1, <3>2, Zenon
  <2> QED BY <2>1, <2>3, <2>4, <2>5, Zenon
<1>5. PICK h \in InputType :
        /\ h = [Head1 EXCEPT !.pos = Head1.pos + n]
        /\ h.id = Head1.id /\ h.kind = "block" /\ h.base = Head1.base
        /\ h.len = Head1.len /\ h.pos = Head1.pos + n
  <2>1. PICK g \in InputType : g = Head1
    BY <1>2
  <2>2. PICK p \in Nat : p = g.pos + n
    BY <1>3 DEF InputType
  <2>3. PICK h : h = [g EXCEPT !.pos = p]
    OBVIOUS
  <2>4. /\ h \in InputType /\ h.id = g.id /\ h.kind = g.kind /\ h.base = g.base
        /\ h.len = g.len /\ h.pos = p
    BY <2>3 DEF InputType
  <2> QED BY <1>1, <2>1, <2>2, <2>3, <2>4, Zenon
<1>6. PICK rest \in Seq(InputType), m \in Nat :
        /\ rest = Tail(inputs) /\ Len(rest) = m /\ Len(inputs) = m + 1
        /\ \A k \in 1 .. m : rest[k] = inputs[k + 1]
  BY <1>1, TailPick DEF ListOK
<1>7. PICK t \in Seq(InputType) :
        /\ t = <<h>> \o rest /\ Len(t) = m + 1 /\ t[1] = h
        /\ \A i \in 1 .. m : t[i + 1] = rest[i]
  <2>1. /\ <<h>> \o rest \in Seq(InputType) /\ Len(<<h>> \o rest) = m + 1
        /\ (<<h>> \o rest)[1] = h
        /\ \A i \in 1 .. m : (<<h>> \o rest)[i + 1] = rest[i]
    <3>1. Len(rest) = m
      BY <1>6
    <3> QED BY <3>1, ConsIs
  <2> QED BY <2>1, Zenon
<1>8. PICK u \in Seq(InputType) :
        /\ u = <<s>> \o t /\ Len(u) = m + 1 + 1 /\ u[1] = s
        /\ \A i \in 1 .. m + 1 : u[i + 1] = t[i]
  <2>1. /\ <<s>> \o t \in Seq(InputType) /\ Len(<<s>> \o t) = m + 1 + 1
        /\ (<<s>> \o t)[1] = s
        /\ \A i \in 1 .. m + 1 : (<<s>> \o t)[i + 1] = t[i]
    <3>1. PICK k \in Nat : k = m + 1
      OBVIOUS
    <3>2. Len(t) = k
      BY <1>7, <3>1, Zenon
    <3>3. /\ <<s>> \o t \in Seq(InputType) /\ Len(<<s>> \o t) = k + 1
          /\ (<<s>> \o t)[1] = s
          /\ \A i \in 1 .. k : (<<s>> \o t)[i + 1] = t[i]
      BY <3>2, ConsIs
    <3> QED BY <3>1, <3>3, Zenon
  <2> QED BY <2>1, Zenon
<1>9. inputs' = u
  BY <1>4, <1>5, <1>6, <1>7, <1>8, Zenon DEF ReadBlocking, SetHead
<1>10. \A i \in 2 .. m + 1 : u[i + 1] = inputs[i]
  <2>1. \A i \in 2 .. m + 1 : i \in 1 .. m + 1 /\ i - 1 \in 1 .. m /\ (i - 1) + 1 = i
    OBVIOUS
  <2>2. \A i \in 1 .. m : t[i + 1] = rest[i] /\ rest[i] = inputs[i + 1]
    BY <1>6, <1>7, Zenon
  <2>3. \A i \in 1 .. m + 1 : u[i + 1] = t[i]
    BY <1>8, Zenon
  <2> QED BY <2>1, <2>2, <2>3, ZenonT(40)
<1>11. u[2] = h /\ Len(u) = Len(inputs) + 1
  <2>1. \A i \in 1 .. m + 1 : u[i + 1] = t[i]
    BY <1>8, Zenon
  <2>2. 1 \in 1 .. m + 1 /\ 1 + 1 = 2
    OBVIOUS
  <2>3. u[2] = t[1] /\ t[1] = h
    BY <1>7, <2>1, <2>2
  <2>4. Len(u) = m + 1 + 1 /\ Len(inputs) = m + 1
    BY <1>6, <1>8, Zenon
  <2> QED BY <2>3, <2>4
<1>12. Pushes(s, h)
  <2>1. Len(inputs) = m + 1 /\ u[1] = s
    BY <1>6, <1>8, Zenon
  <2> QED BY <1>1, <1>9, <1>10, <1>11, <2>1, Zenon DEF Pushes
<1>13. /\ s.id = Head1.id /\ s.kind = "str" /\ s.base = Head1.pos /\ s.len = n /\ s.pos = 0
       /\ h.id = Head1.id /\ h.kind = "block" /\ h.base = Head1.base
       /\ h.len = Head1.len /\ h.pos = Head1.pos + n
  BY <1>4, <1>5, Zenon
<1>14. Source(Head1).kind = "block"
  BY <1>1, <1>2 DEF InputOK, ReadBlocking, HasFd
<1> QED BY <1>1, <1>2, <1>3, <1>12, <1>13, <1>14, Zenon

\* A blocking read keeps the invariant.
LEMMA ReadBlockingOK == ASSUME PumpInv, NEW n, ReadBlocking(n) PROVE PumpInv'
<1>1. /\ inputs # <<>> /\ AtHead /\ Head1 \in InputType /\ Head1.kind = "block"
      /\ InputOK(Head1) /\ Head1.id \in DOMAIN given
      /\ n \in Nat \ {0} /\ Head1.pos + n <= Source(Head1).size
      /\ Source(Head1).kind = "block"
  BY ReadBlockingDoes
<1>2. PICK s \in InputType, h \in InputType :
         /\ Pushes(s, h)
         /\ s.id = Head1.id /\ s.kind = "str" /\ s.base = Head1.pos /\ s.len = n
         /\ s.pos = 0
         /\ h.id = Head1.id /\ h.kind = "block" /\ h.base = Head1.base
         /\ h.len = Head1.len /\ h.pos = Head1.pos + n
  BY ReadBlockingDoes
<1>3. given' = given /\ ListOK /\ inputs \in Seq(InputType)
  BY PumpIs DEF ReadBlocking, ListOK
<1>4. s.id \in DOMAIN given /\ InputOK(s)'
  BY <1>1, <1>2, <1>3 DEF InputOK
<1>5. h.id \in DOMAIN given /\ InputOK(h)'
  BY <1>1, <1>2, <1>3 DEF InputOK, Source
<1>6. PICK m \in Nat : m = Len(inputs) /\ DOMAIN inputs = 1 .. m
  BY <1>3
<1>7. /\ inputs' \in Seq(InputType) /\ DOMAIN inputs' = 1 .. m + 1
      /\ inputs'[1] = s /\ inputs'[2] = h
      /\ \A i \in 2 .. m : inputs'[i + 1] = inputs[i]
  BY <1>2, <1>6 DEF Pushes
<1>8. ASSUME NEW i \in 1 .. m + 1
      PROVE  inputs'[i].id \in DOMAIN given /\ InputOK(inputs[i])'
  <2>1. i = 1 \/ i = 2 \/ (i - 1 \in 2 .. m /\ (i - 1) + 1 = i)
    OBVIOUS
  <2>2. CASE i = 1
    BY <1>4, <1>7, <2>2 DEF InputOK, Source
  <2>3. CASE i = 2
    BY <1>5, <1>7, <2>3 DEF InputOK, Source
  <2>4. CASE i - 1 \in 2 .. m /\ (i - 1) + 1 = i
    <3>1. PICK k \in 2 .. m : k + 1 = i
      BY <2>4
    <3>2. k \in DOMAIN inputs /\ inputs'[i] = inputs[k]
      BY <1>6, <1>7, <3>1
    <3>3. inputs[k].id \in DOMAIN given /\ InputOK(inputs[k])
      BY <1>3, <3>2 DEF ListOK
    <3> QED BY <1>3, <3>2, <3>3 DEF InputOK, Source
  <2> QED BY <2>1, <2>2, <2>3, <2>4
<1>9. ListOK'
  BY <1>3, <1>7, <1>8 DEF ListOK
<1> QED BY <1>1, <1>9, AgainOK DEF ReadBlocking

\* What is read from a descriptor goes into the empty buffer.
LEMMA ReadFdDoes ==
  ASSUME PumpInv, ReadFd
  PROVE  /\ inputs # <<>> /\ AtHead /\ Head1 \in InputType /\ Head1.kind = "block"
         /\ Source(Head1).kind = "mmap" /\ buf' \in Seq(Byte) /\ Len(buf') <= ReadBuffer
         /\ \/ Frees
            \/ \E h \in InputType :
                 /\ Heads(h) /\ h.id = Head1.id /\ h.kind = "block" /\ h.base = Head1.base
                 /\ h.len = Head1.len /\ h.pos <= Head1.len
<1>1. ListOK /\ inputs # <<>> /\ AtHead /\ TypeOK /\ Head1.kind = "block"
  BY PumpIs DEF ReadFd, HeadIs, PumpInv
<1>2. /\ Head1 \in InputType /\ InputOK(Head1) /\ Source(Head1).size \in Nat
      /\ Source(Head1).kind = "mmap"
  BY <1>1, HeadIn, GivenIn DEF Head1, Source, ReadFd, HasFd
<1>3. PICK d \in Nat, p \in Nat, f \in Nat, l \in Nat :
        /\ d = Head1.id /\ p = Head1.pos /\ f = Head1.off /\ l = Head1.len /\ p <= l
  BY <1>1, <1>2 DEF InputType, InputOK
<1>4. PICK n \in Nat : n = MinOf(ReadBuffer, l - p) /\ n <= ReadBuffer /\ p + n <= l
  <2>1. MinOf(ReadBuffer, l - p) \in Nat /\ MinOf(ReadBuffer, l - p) <= ReadBuffer
        /\ p + MinOf(ReadBuffer, l - p) <= l
    BY <1>3, BoundsAssumption DEF MinOf
  <2> QED BY <2>1
<1>5. /\ buf' = Bytes(d, f, n)
      /\ inputs' = IF p + n = l THEN FreeHead
                   ELSE SetHead([Head1 EXCEPT !.pos = p + n, !.off = f + n])
  BY <1>3, <1>4, Zenon DEF ReadFd
<1>6. buf' \in Seq(Byte) /\ Len(buf') <= ReadBuffer
  <2>1. Bytes(d, f, n) \in Seq(Byte) /\ Len(Bytes(d, f, n)) = n
    BY BytesIs
  <2> QED BY <1>4, <1>5, <2>1
<1>7. CASE inputs' = FreeHead
  <2>1. Frees
    BY <1>1, <1>7, FreeDoes DEF ListOK
  <2> QED BY <1>1, <1>2, <1>6, <2>1
<1>8. CASE inputs' = SetHead([Head1 EXCEPT !.pos = p + n, !.off = f + n])
  <2>1. PICK g \in InputType : g = Head1
    BY <1>2
  <2>2. PICK q \in Nat, o \in Nat : q = p + n /\ o = f + n
    OBVIOUS
  <2>3. PICK h \in InputType :
           /\ h = [g EXCEPT !.pos = q, !.off = o]
           /\ h.id = g.id /\ h.kind = g.kind /\ h.base = g.base /\ h.len = g.len
           /\ h.pos = q
    <3>1. [g EXCEPT !.pos = q, !.off = o] \in InputType
      BY DEF InputType
    <3> QED BY <3>1 DEF InputType
  <2>4. inputs' = SetHead(h)
    BY <1>8, <2>1, <2>2, <2>3, Zenon
  <2>5. Heads(h)
    BY <1>1, <2>4, HeadDoes DEF ListOK
  <2>6. h.pos <= Head1.len
    BY <1>3, <1>4, <2>2, <2>3
  <2> QED BY <1>1, <1>2, <1>6, <2>1, <2>3, <2>5, <2>6, Zenon
<1> QED BY <1>5, <1>7, <1>8

\* A read from a descriptor keeps the invariant.
LEMMA ReadFdOK == ASSUME PumpInv, ReadFd PROVE PumpInv'
<1>1. /\ inputs # <<>> /\ AtHead /\ Head1 \in InputType /\ Head1.kind = "block"
      /\ Source(Head1).kind = "mmap" /\ buf' \in Seq(Byte) /\ Len(buf') <= ReadBuffer
  BY ReadFdDoes
<1>2. Scalars /\ Control /\ ListOK
  BY PumpIs
<1>3. /\ buf_pos' = 0 /\ pc' = "read"
      /\ UNCHANGED <<given, outp, armed, sent, cb, called, finished, failed>>
  BY DEF ReadFd, endVars
<1>4. outp # "none" /\ ~ finished /\ ~ failed /\ called = 0
  BY <1>1, AtHeadIs
<1>5. ListOK'
  <2>1. CASE Frees
    BY <1>2, <1>3, <2>1, FreesOK
  <2>2. ASSUME NEW h \in InputType, Heads(h), h.id = Head1.id, h.kind = "block",
               h.base = Head1.base, h.len = Head1.len, h.pos <= Head1.len
        PROVE  ListOK'
    <3>1. Head1.id \in DOMAIN given /\ InputOK(Head1)
      BY <1>1, <1>2, HeadIn DEF Head1
    <3>2. InputOK(h)
      BY <1>1, <2>2, <3>1 DEF InputOK, Source
    <3> QED BY <1>2, <1>3, <2>2, <3>1, <3>2, HeadsOK
  <2> QED BY <2>1, <2>2, ReadFdDoes
<1>6. Scalars'
  BY <1>1, <1>2, <1>3 DEF Scalars
<1>7. Control'
  <2>1. buf_pos' + Len(buf') <= ReadBuffer /\ buf_pos' <= ReadBuffer
    BY <1>1, <1>3, BoundsAssumption
  <2> QED BY <1>3, <1>4, <2>1 DEF Control
<1>8. (Scalars /\ Control /\ ListOK)'
  BY <1>5, <1>6, <1>7
<1> QED BY <1>8, PumpIs, PTL

\* A read from a descriptor that fails keeps the invariant.
LEMMA ReadFdFailsOK == ASSUME PumpInv, ReadFdFails PROVE PumpInv'
<1>1. ListOK /\ inputs # <<>> /\ AtHead
  BY PumpIs DEF ReadFdFails, HeadIs
<1>2. Frees
  BY <1>1, FreeDoes DEF ListOK, ReadFdFails
<1>3. ListOK'
  BY <1>1, <1>2, FreesOK DEF ReadFdFails
<1> QED BY <1>1, <1>3, AgainOK DEF ReadFdFails

\* The write that follows it shortens the buffer and moves buf_pos on.
LEMMA WriteReadDoes ==
  ASSUME PumpInv, NEW n, WriteRead(n)
  PROVE  /\ sent' \in Seq(Byte) /\ buf' \in Seq(Byte) /\ buf_pos' \in Nat
         /\ n \in Nat /\ buf_pos' + Len(buf') = buf_pos + Len(buf)
         /\ buf_pos + Len(buf) <= ReadBuffer
<1>1. Scalars /\ Control
  BY PumpIs
<1>2. /\ sent' \in Seq(Byte) /\ n \in 0 .. Len(buf) /\ n \in Nat /\ Len(buf) \in Nat
  BY <1>1, WroteIs DEF Scalars, WriteRead
<1>3. PICK b \in Seq(Byte) : b = SubSeq(buf, n + 1, Len(buf)) /\ Len(b) = Len(buf) - n
  BY <1>1, <1>2, SubSeqIs DEF Scalars
<1>4. buf' = b /\ buf_pos' = buf_pos + n /\ buf_pos \in Nat
  <2>1. buf' = SubSeq(buf, n + 1, Len(buf)) /\ buf_pos' = buf_pos + n
    BY DEF WriteRead
  <2> QED BY <1>1, <1>3, <2>1 DEF Scalars
<1>5. buf_pos + Len(buf) <= ReadBuffer
  BY <1>1 DEF Control, WriteRead
<1>6. buf' \in Seq(Byte) /\ Len(buf') = Len(buf) - n
  BY <1>3, <1>4
<1>7. buf_pos' \in Nat /\ buf_pos' + Len(buf') = buf_pos + Len(buf)
  BY <1>2, <1>4, <1>6
<1> QED BY <1>2, <1>5, <1>6, <1>7

\* It keeps the invariant.
LEMMA WriteReadOK == ASSUME PumpInv, NEW n, WriteRead(n) PROVE PumpInv'
<1>1. /\ sent' \in Seq(Byte) /\ buf' \in Seq(Byte) /\ buf_pos' \in Nat
      /\ buf_pos' + Len(buf') <= ReadBuffer
  BY WriteReadDoes
<1>2. buf' = <<>> => buf_pos' <= ReadBuffer
  BY <1>1
<1>3. Scalars /\ ListOK /\ ~ finished /\ pc # "event"
  BY PumpIs, BusyIs DEF WriteRead
<1>4. UNCHANGED <<given, cb, failed>>
  BY DEF WriteRead
<1>5. CASE Finish
  BY <1>1, <1>2, <1>3, <1>4, <1>5, FinishOK DEF Scalars
<1>6. CASE Rearm /\ UNCHANGED <<inputs, outp, called, finished>>
  <2>1. ListOK'
    BY <1>3, <1>4, <1>6, SameList
  <2> QED BY <1>1, <1>2, <1>3, <1>4, <1>6, <2>1, RearmOK
<1> QED BY <1>5, <1>6 DEF WriteRead

\* The input callbacks: what is read goes to the end of the buffer.
LEMMA InputReadDoes ==
  ASSUME PumpInv, NEW n, InputRead(n)
  PROVE  /\ inputs # <<>> /\ Head1 \in InputType /\ Head1.kind = "obj"
         /\ Head1.mode = "READING" /\ InputOK(Head1) /\ Head1.id \in DOMAIN given
         /\ n \in Nat \ {0} /\ n <= MaxChunk /\ Head1.off + n <= Source(Head1).size
         /\ Source(Head1).size \in Nat /\ pc = "event"
         /\ \E u \in 0 .. n :
              /\ buf' = buf \o Bytes(Head1.id, Head1.off, u)
              /\ \/ /\ Head1.len # -1 /\ Head1.pos + n >= Head1.len
                    /\ u = Head1.len - Head1.pos /\ Frees
                 \/ /\ ~ (Head1.len # -1 /\ Head1.pos + n >= Head1.len) /\ u = n
                    /\ \E h \in InputType :
                         /\ Heads(h)
                         /\ h.id = Head1.id /\ h.kind = "obj" /\ h.base = Head1.base
                         /\ h.len = Head1.len /\ h.pos = Head1.pos + n
                         /\ h.off = Head1.off + n
                         /\ h.mode = IF buf_pos + Len(buf) + n > ReadBuffer
                                     THEN "SLEEPING" ELSE "READING"
<1>1. /\ ListOK /\ inputs # <<>> /\ TypeOK /\ Head1.kind = "obj" /\ pc = "event"
      /\ Head1.mode = "READING"
  BY PumpIs DEF InputRead, InputReadInto, Reading, HeadIs, PumpInv
<1>2. /\ Head1 \in InputType /\ InputOK(Head1) /\ Head1.id \in DOMAIN given
      /\ Source(Head1).size \in Nat
  BY <1>1, HeadIn, GivenIn DEF Head1, Source
<1>3. PICK p \in Nat, f \in Nat, l \in Nat \cup {-1} :
        /\ p = Head1.pos /\ f = Head1.off /\ l = Head1.len
        /\ l = -1 \/ p <= l
  BY <1>1, <1>2 DEF InputType, InputOK
<1>4. n \in Nat \ {0} /\ n <= MaxChunk /\ f + n <= Source(Head1).size
  <2>1. n \in 1 .. MinOf(MaxChunk, Source(Head1).size - f)
    BY <1>3 DEF InputRead, InputReadInto
  <2> QED BY <1>2, <2>1, BoundsAssumption DEF MinOf
<1>5. CASE l # -1 /\ p + n >= l
  <2>1. PICK u \in 0 .. n : u = n - ((p + n) - l) /\ u = l - p
    BY <1>3, <1>4, <1>5
  <2>2. buf' = buf \o Bytes(Head1.id, f, u) /\ inputs' = FreeHead
    BY <1>3, <1>5, <2>1, Zenon DEF InputRead, InputReadInto
  <2>3. Frees
    BY <1>1, <2>2, FreeDoes DEF ListOK
  <2> QED BY <1>1, <1>2, <1>3, <1>4, <1>5, <2>1, <2>2, <2>3, Zenon
<1>6. CASE ~ (l # -1 /\ p + n >= l)
  <2>1. n \in 0 .. n
    BY <1>4
  <2>2. PICK md \in {"SLEEPING", "READING"} :
          md = IF buf_pos + Len(buf) + n > ReadBuffer THEN "SLEEPING" ELSE "READING"
    OBVIOUS
  <2>3. PICK g \in InputType : g = Head1
    BY <1>2
  <2>4. PICK q \in Nat, o \in Nat : q = p + n /\ o = f + n
    BY <1>4
  <2>5. PICK h \in InputType :
           /\ h = [g EXCEPT !.pos = q, !.off = o, !.mode = md]
           /\ h.id = g.id /\ h.kind = g.kind /\ h.base = g.base /\ h.len = g.len
           /\ h.pos = q /\ h.off = o /\ h.mend = g.mend /\ h.mode = md
    <3>1. [g EXCEPT !.pos = q, !.off = o, !.mode = md] \in InputType
      BY DEF InputType
    <3> QED BY <3>1 DEF InputType
  <2>6. buf' = buf \o Bytes(Head1.id, f, n) /\ inputs' = SetHead(h)
    <3>1. /\ buf' = buf \o Bytes(Head1.id, f, n)
          /\ inputs' = SetHead([Head1 EXCEPT !.pos = p + n, !.off = f + n,
                  !.mode = IF buf_pos + Len(buf) + n > ReadBuffer THEN "SLEEPING"
                           ELSE "READING"])
      BY <1>3, <1>6, Zenon DEF InputRead, InputReadInto
    <3> QED BY <2>2, <2>3, <2>4, <2>5, <3>1, Zenon
  <2>7. Heads(h)
    BY <1>1, <2>6, HeadDoes DEF ListOK
  <2>8. /\ h.id = Head1.id /\ h.kind = "obj" /\ h.base = Head1.base /\ h.len = Head1.len
        /\ h.pos = Head1.pos + n /\ h.off = Head1.off + n /\ h.mode = md
    BY <1>1, <1>3, <2>3, <2>4, <2>5, Zenon
  <2> QED BY <1>1, <1>2, <1>3, <1>4, <1>6, <2>1, <2>2, <2>6, <2>7, <2>8, Zenon
<1> QED BY <1>5, <1>6

\* _input_read_cb keeps the invariant.
LEMMA InputReadOK == ASSUME PumpInv, NEW n, InputRead(n) PROVE PumpInv'
<1>1. /\ inputs # <<>> /\ Head1 \in InputType /\ Head1.kind = "obj" /\ InputOK(Head1)
      /\ Head1.id \in DOMAIN given /\ n \in Nat \ {0} /\ Head1.off + n <= Source(Head1).size
      /\ pc = "event"
  BY InputReadDoes
<1>2. PICK u \in 0 .. n :
              /\ buf' = buf \o Bytes(Head1.id, Head1.off, u)
              /\ \/ Frees
                 \/ /\ ~ (Head1.len # -1 /\ Head1.pos + n >= Head1.len)
                    /\ \E h \in InputType :
                         /\ Heads(h)
                         /\ h.id = Head1.id /\ h.kind = "obj" /\ h.base = Head1.base
                         /\ h.len = Head1.len /\ h.pos = Head1.pos + n
                         /\ h.off = Head1.off + n
  BY InputReadDoes, Zenon
<1>3. /\ given' = given /\ armed' = armed /\ buf_pos' = buf_pos /\ sent' = sent
      /\ cb' = cb /\ called' = called /\ finished' = finished /\ failed' = failed
      /\ IF outp = "IDLE" THEN outp' = "ACTIVE" /\ pc' = "wcb" ELSE outp' = outp /\ pc' = pc
  BY DEF InputRead, InputReadInto, endVars
<1>4. Scalars /\ Control /\ ListOK
  BY PumpIs
<1>5. ListOK'
  <2>1. CASE Frees
    BY <1>3, <1>4, <2>1, FreesOK
  <2>2. ASSUME NEW h \in InputType, Heads(h), h.id = Head1.id, h.kind = "obj",
               h.base = Head1.base, h.len = Head1.len, h.pos = Head1.pos + n,
               h.off = Head1.off + n, ~ (Head1.len # -1 /\ Head1.pos + n >= Head1.len)
        PROVE  ListOK'
    <3>1. h.len = -1 \/ h.pos <= h.len
      BY <1>1, <2>2 DEF InputType
    <3>2. InputOK(h)
      BY <1>1, <2>2, <3>1 DEF InputOK, Source
    <3> QED BY <1>1, <1>3, <1>4, <2>2, <3>2, HeadsOK
  <2> QED BY <1>2, <2>1, <2>2
<1>6. PICK data \in Seq(Byte) : buf' = buf \o data
  <2>1. PICK d \in Nat, f \in Nat : d = Head1.id /\ f = Head1.off
    BY <1>1 DEF InputType
  <2>2. u \in Nat
    BY <1>1
  <2>3. Bytes(d, f, u) \in Seq(Byte)
    BY <2>2, BytesIs
  <2> QED BY <1>2, <2>1, <2>3, Zenon
<1>7. buf' \in Seq(Byte) /\ (buf' = <<>> => buf = <<>>)
  BY <1>4, <1>6 DEF Scalars
<1>8. Scalars'
  BY <1>3, <1>4, <1>7, Zenon DEF Scalars
<1>9. Control'
  <2>1. ~ finished
    BY <1>1, <1>4 DEF Control
  <2>2. called = 0 /\ ~ failed
    BY <1>4, <2>1 DEF Control
  <2>3. outp # "none" \/ (outp' = "none" /\ pc' = "event" /\ ~ armed')
    BY <1>1, <1>3, <1>4 DEF Control
  <2>4. pc' = "event" \/ (pc' = "wcb" /\ outp' = "ACTIVE")
    BY <1>1, <1>3
  <2>5. pc' = "event" /\ outp' = "ACTIVE" => armed'
    BY <1>1, <1>3, <1>4 DEF Control
  <2>6. buf' = <<>> => buf_pos' <= ReadBuffer
    BY <1>3, <1>4, <1>7 DEF Control
  <2>7. outp' = "none" => outp = "none"
    BY <1>3
  <2> QED BY <1>3, <2>1, <2>2, <2>3, <2>4, <2>5, <2>6, <2>7 DEF Control
<1>10. (Scalars /\ Control /\ ListOK)'
  BY <1>5, <1>8, <1>9
<1> QED BY <1>10, PumpIs, PTL

\* _input_close_cb keeps the invariant.
LEMMA InputCloseOK == ASSUME PumpInv, InputClose PROVE PumpInv'
<1>1. Scalars /\ Control /\ ListOK /\ inputs # <<>> /\ pc = "event"
  BY PumpIs DEF InputClose, Reading, HeadIs
<1>2. ~ finished
  BY <1>1 DEF Control
<1>3. UNCHANGED <<given, buf, buf_pos, sent, cb, failed>>
  BY DEF InputClose, bufVars
<1>4. CASE Finish
  <2>1. buf' = <<>> => buf_pos' <= ReadBuffer
    BY <1>1, <1>3 DEF Control
  <2> QED BY <1>1, <1>2, <1>3, <1>4, <2>1, FinishOK DEF Scalars
<1>5. CASE inputs' = FreeHead /\ UNCHANGED <<outp, armed, called, finished, pc>>
  <2>1. Frees
    BY <1>1, <1>5, FreeDoes DEF ListOK
  <2>2. ListOK'
    BY <1>1, <1>3, <2>1, FreesOK
  <2>3. Scalars'
    BY <1>1, <1>3, <1>5 DEF Scalars
  <2>4. Control'
    BY <1>1, <1>2, <1>3, <1>5 DEF Control
  <2>5. (Scalars /\ Control /\ ListOK)'
    BY <2>2, <2>3, <2>4
  <2> QED BY <2>5, PumpIs, PTL
<1> QED BY <1>4, <1>5 DEF InputClose

\* A step that changes nothing.
LEMMA PumpSame == ASSUME PumpInv, UNCHANGED vars PROVE PumpInv'
<1>1. Scalars /\ Control /\ ListOK
  BY PumpIs
<1>2. Scalars'
  BY <1>1 DEF Scalars, vars
<1>3. Control'
  BY <1>1 DEF Control, vars
<1>4. ListOK'
  BY <1>1, SameList DEF vars
<1>5. (Scalars /\ Control /\ ListOK)'
  BY <1>2, <1>3, <1>4
<1> QED BY <1>5, PumpIs, PTL

\* Every step of the pump keeps it.
LEMMA PumpStep == ASSUME PumpInv, [Next]_vars PROVE PumpInv'
<1>1. CASE \E o \in Offers : AddInput(o)
  BY <1>1, AddInputOK
<1>2. CASE \E n : WriteBuffer(n) \/ WriteString(n) \/ WriteMmap(n) \/ ReadBlocking(n)
                    \/ InputRead(n) \/ WriteRead(n)
  BY <1>2, WriteReadOK, WriteBufferOK, WriteStringOK, WriteMmapOK, ReadBlockingOK, InputReadOK
<1>3. CASE SetDoneCallback \/ Output \/ OutputReady \/ WriteFails \/ Destroy
  BY <1>3, SetDoneCallbackOK, OutputOK, OutputReadyOK, WriteFailsOK, DestroyOK
<1>4. CASE NothingLeft \/ WaitForInput \/ RemapFails \/ BlockingDone \/ BlockingEof
             \/ InputClose \/ ReadFd \/ ReadFdFails
  BY <1>4, ReadFdOK, ReadFdFailsOK, NothingLeftOK, WaitForInputOK, RemapFailsOK, BlockingDoneOK, BlockingEofOK,
     InputCloseOK
<1>5. CASE UNCHANGED vars
  BY <1>5, PumpSame
<1> QED
  BY <1>1, <1>2, <1>3, <1>4, <1>5 DEF Next, WriteCallback, InputCallback

\* The invariant holds of a new object.
LEMMA PumpInit == Init => PumpInv
<1>1. Init => Scalars /\ Control /\ ListOK
  <2> SUFFICES ASSUME Init PROVE Scalars /\ Control /\ ListOK
    OBVIOUS
  <2>1. Scalars
    <3>1. <<>> \in Seq(Offers) /\ <<>> \in Seq(Byte) /\ 0 \in Nat
      OBVIOUS
    <3> QED BY <3>1, Zenon DEF Init, Scalars
  <2>2. Control
    BY BoundsAssumption DEF Init, Control
  <2>3. ListOK
    BY NoInputs DEF Init
  <2> QED BY <2>1, <2>2, <2>3
<1> QED BY <1>1, PumpIs

\* The pump is always in a sound state: nb_send.c's fields agree with each
\* other between any two steps of its callbacks.
THEOREM PumpAlways == Spec => []PumpInv
BY PumpInit, PumpStep, PTL DEF Spec

\* Every variable keeps its type, for any inputs, sizes and orders.
THEOREM NBIOTypes == Spec => []TypeOK
<1>1. PumpInv => TypeOK
  BY DEF PumpInv
<1> QED BY <1>1, PumpAlways, PTL

\* The done callback is called once, and a finished object holds nothing that
\* could call it again: finished() of nb_send.c, for any inputs.
THEOREM DoneOnceTheorem == Spec => []DoneOnce
<1>1. PumpInv => DoneOnce
  <2> SUFFICES ASSUME PumpInv PROVE DoneOnce
    OBVIOUS
  <2>1. Scalars /\ Control
    BY PumpIs
  <2>2. CASE finished
    BY <2>1, <2>2 DEF Control, DoneOnce, Scalars
  <2>3. CASE ~ finished
    BY <2>1, <2>3 DEF Control, DoneOnce, Scalars
  <2> QED BY <2>2, <2>3
<1> QED BY <1>1, PumpAlways, PTL

-----------------------------------------------------------------------------
(* The output sleeps only on an input that will wake it                    *)

\* The order of kinds when the list shrinks, or gets another head.
LEMMA StringsFrees == ASSUME ListOK, StringsFirst, Frees PROVE StringsFirst'
<1>1. PICK n \in Nat : n = Len(inputs) - 1 /\ Len(inputs) = n + 1 /\ DOMAIN inputs = 1 .. n + 1
  BY DEF ListOK, Frees
<1>2. /\ DOMAIN inputs' = 1 .. n /\ Len(inputs') = n
      /\ \A i \in 1 .. n : inputs'[i].kind = inputs[i + 1].kind
  BY <1>1 DEF Frees
<1>3. ASSUME NEW i \in 1 .. n, i < n PROVE inputs'[i].kind = "str"
  <2>1. i + 1 \in 1 .. n + 1 /\ i + 1 < n + 1
    BY <1>3
  <2> QED BY <1>1, <1>2, <2>1 DEF StringsFirst
<1> QED BY <1>2, <1>3 DEF StringsFirst

\* A new head of any kind keeps the strings before the last input.
LEMMA StringsHeads ==
  ASSUME ListOK, StringsFirst, NEW h, Heads(h), h.kind = Head1.kind \/ Len(inputs) = 1
  PROVE  StringsFirst'
<1>1. PICK n \in Nat : n = Len(inputs) /\ DOMAIN inputs = 1 .. n /\ n > 0
  BY DEF ListOK, Heads
<1>2. /\ DOMAIN inputs' = 1 .. n /\ Len(inputs') = n /\ inputs'[1] = h
      /\ \A i \in 2 .. n : inputs'[i] = inputs[i]
  BY <1>1 DEF Heads
<1>3. ASSUME NEW i \in 1 .. n, i < n PROVE inputs'[i].kind = "str"
  <2>1. inputs[i].kind = "str" /\ n # 1
    BY <1>1, <1>3 DEF StringsFirst
  <2>2. CASE i = 1
    BY <1>1, <1>2, <2>1, <2>2 DEF Head1
  <2>3. CASE i # 1
    <3>1. i \in 2 .. n
      BY <2>3
    <3> QED BY <1>2, <2>1, <3>1
  <2> QED BY <2>2, <2>3
<1> QED BY <1>2, <1>3 DEF StringsFirst

\* Only the last input is no string.
LEMMA LoneHead ==
  ASSUME ListOK, StringsFirst, inputs # <<>>, Head1.kind # "str"
  PROVE  Len(inputs) = 1
<1>1. Len(inputs) \in Nat \ {0} /\ DOMAIN inputs = 1 .. Len(inputs)
  BY HeadIn
<1>2. ~ (1 < Len(inputs))
  BY <1>1 DEF StringsFirst, Head1
<1> QED BY <1>1, <1>2

\* A callback that runs, or will be called, waits for nothing.
LEMMA AwakeWaits ==
  ASSUME StringsFirst', outp' # "none", pc' # "event" \/ armed' PROVE LastWaits'
BY DEF LastWaits

\* finished() waits for nothing.
LEMMA FinishWaits == ASSUME Finish PROVE LastWaits'
<1>1. inputs' = <<>> /\ outp' = "none" /\ finished'
  BY DEF Finish
<1> QED BY <1>1 DEF LastWaits, StringsFirst

\* A write from the head leaves nothing waiting with data.
LEMMA AdvanceWaits ==
  ASSUME PumpInv, AtHead, LastWaits, inputs # <<>>, NEW h \in InputType, h.kind = Head1.kind,
         NEW n \in Nat, Advance(h, n)
  PROVE  LastWaits'
<1>1. ListOK /\ StringsFirst /\ outp # "none"
  BY PumpIs, AtHeadIs DEF LastWaits
<1>2. CASE Finish
  BY <1>2, FinishWaits
<1>3. CASE Frees /\ Rearm /\ UNCHANGED outp
  BY <1>1, <1>3, StringsFrees, AwakeWaits DEF Rearm
<1>4. ASSUME NEW g \in InputType, g = [h EXCEPT !.pos = h.pos + n], Heads(g), Rearm,
             UNCHANGED outp
      PROVE  LastWaits'
  <2>1. g.kind = h.kind
    BY <1>4 DEF InputType
  <2>2. StringsFirst'
    BY <1>1, <1>4, <2>1, StringsHeads
  <2> QED BY <1>1, <1>4, <2>2, AwakeWaits DEF Rearm
<1> QED BY <1>1, <1>2, <1>3, <1>4, AdvanceDoes

\* The caller's inputs keep their order and sleep.
LEMMA AddInputWaits ==
  ASSUME ~ AnyOrder, PumpInv, LastWaits, NEW o \in Offers, AddInput(o)
  PROVE  LastWaits'
<1>1. Scalars /\ ListOK /\ outp = "none" /\ ~ finished /\ outp' = outp /\ finished' = finished
  BY PumpIs DEF AddInput, Setup, endVars
<1>2. /\ given \in Seq(Offers) /\ inputs \in Seq(InputType) /\ Len(inputs) = Len(given)
      /\ \A i \in DOMAIN inputs :
           inputs[i].kind = given[i].kind /\ inputs[i].mode = "SLEEPING"
  BY <1>1 DEF Scalars, ListOK, LastWaits
<1>3. PICK n \in Nat :
        n = Len(given) /\ n = Len(inputs) /\ DOMAIN given = 1 .. n /\ DOMAIN inputs = 1 .. n
  BY <1>2
<1>4. PICK h \in InputType : h = NewInput(o) /\ h.kind = o.kind /\ h.mode = "SLEEPING"
  <2>1. o.kind \in Kinds /\ o.size \in Nat /\ o.limit \in Nat \cup {-1}
    BY OffersAssumption
  <2>2. MinOf(o.size, MaxMmap) \in Nat
    BY <2>1, BoundsAssumption DEF MinOf
  <2>3. NewInput(o) \in InputType /\ NewInput(o).kind = o.kind
        /\ NewInput(o).mode = "SLEEPING"
    BY <1>3, <2>1, <2>2 DEF NewInput, InputType, Kinds
  <2> QED BY <2>3
<1>5. given' = Append(given, o) /\ inputs' = Append(inputs, h)
  BY <1>4 DEF AddInput
<1>6. /\ given' \in Seq(Offers) /\ Len(given') = n + 1
      /\ \A k \in 1 .. n : given'[k] = given[k]
      /\ given'[n + 1] = o
  BY <1>2, <1>3, <1>5, AppendIs
<1>7. /\ inputs' \in Seq(InputType) /\ DOMAIN inputs' = 1 .. n + 1 /\ Len(inputs') = n + 1
      /\ \A k \in 1 .. n : inputs'[k] = inputs[k]
      /\ inputs'[n + 1] = h
  BY <1>2, <1>3, <1>5, AppendIs
<1>8. \A i \in 1 .. n : inputs'[i].kind = "str"
  <2>1. \A i \in 1 .. n : given[i].kind = "str"
    BY <1>3 DEF AddInput
  <2> QED BY <1>2, <1>3, <1>7, <2>1
<1>9. StringsFirst'
  <2>1. \A i \in 1 .. n + 1 : i < n + 1 => i \in 1 .. n
    OBVIOUS
  <2> QED BY <1>7, <1>8, <2>1 DEF StringsFirst
<1>10. ASSUME NEW i \in 1 .. n + 1 
       PROVE  inputs'[i].kind = given'[i].kind /\ inputs'[i].mode = "SLEEPING"
  <2>1. i \in 1 .. n \/ i = n + 1
    OBVIOUS
  <2> QED BY <1>2, <1>3, <1>4, <1>6, <1>7, <2>1
<1> QED BY <1>1, <1>6, <1>7, <1>9, <1>10 DEF LastWaits

\* A blocking read puts a string before the last input.
LEMMA ReadBlockingWaits ==
  ASSUME PumpInv, LastWaits, NEW n, ReadBlocking(n) PROVE LastWaits'
<1>1. ListOK /\ StringsFirst /\ inputs # <<>> /\ AtHead /\ Head1.kind = "block"
  BY PumpIs, ReadBlockingDoes DEF LastWaits
<1>2. outp' # "none" /\ pc' # "event"
  BY <1>1, AtHeadIs DEF ReadBlocking
<1>3. Len(inputs) = 1
  BY <1>1, LoneHead
<1>4. PICK s \in InputType, h \in InputType : Pushes(s, h) /\ s.kind = "str"
  BY ReadBlockingDoes
<1>5. inputs' \in Seq(InputType) /\ Len(inputs') = 2 /\ inputs'[1].kind = "str"
  BY <1>3, <1>4 DEF Pushes
<1>6. StringsFirst'
  BY <1>5 DEF StringsFirst
<1> QED BY <1>2, <1>6, AwakeWaits

\* The read callback of an input wakes an idle output.
LEMMA InputReadWakes ==
  ASSUME NEW n, InputRead(n)
  PROVE  /\ pc = "event" /\ armed' = armed
         /\ outp = "IDLE" => outp' = "ACTIVE" /\ pc' = "wcb"
         /\ outp # "IDLE" => outp' = outp /\ pc' = pc
<1>1. pc = "event"
  BY DEF InputRead, InputReadInto, Reading
<1>2. /\ IF outp = "IDLE" THEN outp' = "ACTIVE" /\ pc' = "wcb" ELSE UNCHANGED <<outp, pc>>
      /\ UNCHANGED armed
  BY DEF InputRead, InputReadInto
<1> QED BY <1>1, <1>2

\* The callbacks of an input wake the output or leave it waiting.
LEMMA InputCallbackWaits ==
  ASSUME PumpInv, LastWaits, (\E n : InputRead(n)) \/ InputClose PROVE LastWaits'
<1>1. ListOK /\ Control /\ Scalars /\ StringsFirst
  BY PumpIs DEF LastWaits
<1>2. ASSUME NEW n, InputRead(n) PROVE LastWaits'
  <2>1. inputs # <<>> /\ Head1.kind = "obj"
    BY <1>2, InputReadDoes
  <2>2. Len(inputs) = 1
    BY <1>1, <2>1, LoneHead
  <2>3. StringsFirst'
    <3>1. CASE Frees
      BY <1>1, <3>1, StringsFrees
    <3>2. ASSUME NEW h \in InputType, Heads(h) PROVE StringsFirst'
      BY <1>1, <2>2, <3>2, StringsHeads, SMTT(30)
    <3> QED BY <1>2, <3>1, <3>2, InputReadDoes
  <2>4. ~ finished /\ outp # "none"
    <3>1. ~ finished
      BY <1>1, <2>1 DEF Control
    <3>2. Head1.mode = "READING" /\ 1 \in DOMAIN inputs
      BY <1>1, <1>2, <2>1, InputReadDoes, HeadIn
    <3> QED BY <3>1, <3>2 DEF LastWaits, Head1
  <2>5. outp' # "none" /\ (pc' # "event" \/ armed')
    <3>1. CASE outp = "IDLE"
      BY <1>2, <3>1, InputReadWakes
    <3>2. CASE outp = "ACTIVE"
      <4>1. armed
        BY <1>1, <1>2, <3>2, InputReadWakes DEF Control
      <4> QED BY <1>2, <3>2, <4>1, InputReadWakes
    <3> QED BY <1>1, <2>4, <3>1, <3>2 DEF Scalars
  <2> QED BY <2>3, <2>5, AwakeWaits
<1>3. CASE InputClose
  <2>1. inputs # <<>> /\ inputs \in Seq(InputType) /\ Head1.mode = "READING"
    BY <1>1, <1>3 DEF InputClose, Reading, HeadIs, ListOK
  <2>2. CASE Finish
    BY <2>2, FinishWaits
  <2>3. CASE ~ (buf = <<>> /\ FreeHead = <<>>)
    <3>1. inputs' = FreeHead /\ outp' = outp /\ armed' = armed /\ pc = "event"
      BY <1>3, <2>3 DEF InputClose, Reading
    <3>2. Frees /\ (inputs' = <<>> <=> Len(inputs) = 1)
      BY <2>1, <3>1, FreeDoes
    <3>3. StringsFirst'
      BY <1>1, <3>2, StringsFrees
    <3>4. outp # "none"
      <4>1. ~ finished
        BY <1>1, <2>1 DEF Control
      <4>2. 1 \in DOMAIN inputs
        BY <1>1, <2>1, HeadIn
      <4> QED BY <2>1, <4>1, <4>2 DEF LastWaits, Head1
    <3>5. armed
      BY <2>3, <3>1, <3>2, <3>4 DEF LastWaits
    <3> QED BY <3>1, <3>3, <3>4, <3>5, AwakeWaits
  <2> QED BY <1>3, <2>2, <2>3 DEF InputClose
<1> QED BY <1>2, <1>3

\* The head of the list makes the output idle: it is the last input.
LEMMA IdleWaits ==
  ASSUME PumpInv, LastWaits, WaitForInput PROVE LastWaits'
<1>1. ListOK /\ StringsFirst /\ AtHead /\ inputs # <<>> /\ Head1.kind = "obj"
  BY PumpIs DEF LastWaits, WaitForInput, HeadIs
<1>2. buf = <<>> /\ buf' = buf /\ outp' = "IDLE"
  BY <1>1, AtHeadIs DEF WaitForInput, bufVars
<1>3. Len(inputs) = 1
  BY <1>1, LoneHead
<1>4. Head1 \in InputType
  BY <1>1, HeadIn DEF Head1
<1>5. PICK h \in InputType : inputs' = SetHead(h) /\ h.kind = "obj" /\ h.mode = "READING"
  <2>1. PICK h : h = [Head1 EXCEPT !.mode = "READING"]
    OBVIOUS
  <2>2. h \in InputType /\ h.kind = Head1.kind /\ h.mode = "READING"
    BY <1>4, <2>1 DEF InputType
  <2> QED BY <1>1, <2>1, <2>2 DEF WaitForInput
<1>6. Heads(h)
  BY <1>1, <1>5, HeadDoes DEF ListOK
<1>7. StringsFirst'
  BY <1>1, <1>3, <1>6, StringsHeads
<1> QED BY <1>2, <1>3, <1>5, <1>6, <1>7 DEF LastWaits, Heads, Head1

\* A failed mapping, and what is read from the descriptor then.
LEMMA DescriptorWaits ==
  ASSUME PumpInv, LastWaits,
         RemapFails \/ ReadFd \/ ReadFdFails \/ \E n : WriteRead(n)
  PROVE  LastWaits'
<1>1. ListOK /\ StringsFirst
  BY PumpIs DEF LastWaits
<1>2. CASE RemapFails
  <2>1. AtHead /\ inputs # <<>> /\ Head1.kind # "str"
    BY <1>2 DEF RemapFails, HeadIs
  <2>2. Len(inputs) = 1
    BY <1>1, <2>1, LoneHead
  <2>3. PICK h : h = [Head1 EXCEPT !.kind = "block"]
    OBVIOUS
  <2>4. h \in InputType /\ inputs' = SetHead(h)
    <3>1. Head1 \in InputType
      BY <1>1, <2>1, HeadIn DEF Head1
    <3> QED BY <1>2, <2>3, <3>1 DEF RemapFails, InputType, Kinds
  <2>5. Heads(h)
    BY <1>1, <2>1, <2>4, HeadDoes DEF ListOK
  <2>6. StringsFirst'
    BY <1>1, <2>2, <2>5, StringsHeads
  <2>7. outp' # "none" /\ pc' # "event"
    BY <1>2 DEF RemapFails
  <2> QED BY <2>6, <2>7, AwakeWaits
<1>3. CASE ReadFd
  <2>1. AtHead /\ inputs # <<>> /\ Head1.kind = "block"
    BY <1>3, ReadFdDoes
  <2>2. Len(inputs) = 1
    BY <1>1, <2>1, LoneHead
  <2>3. StringsFirst'
    <3>1. CASE Frees
      BY <1>1, <3>1, StringsFrees
    <3>2. ASSUME NEW h \in InputType, Heads(h) PROVE StringsFirst'
      BY <1>1, <2>2, <3>2, StringsHeads, SMTT(30)
    <3> QED BY <1>3, <3>1, <3>2, ReadFdDoes
  <2>4. outp' # "none" /\ pc' # "event"
    BY <1>3, <2>1, AtHeadIs DEF ReadFd
  <2> QED BY <2>3, <2>4, AwakeWaits
<1>4. CASE ReadFdFails
  <2>1. AtHead /\ inputs # <<>> /\ inputs \in Seq(InputType) /\ inputs' = FreeHead
    BY <1>1, <1>4 DEF ReadFdFails, HeadIs, ListOK
  <2>2. StringsFirst'
    BY <1>1, <2>1, FreeDoes, StringsFrees
  <2>3. outp' # "none" /\ pc' # "event"
    BY <1>4, <2>1, AtHeadIs DEF ReadFdFails
  <2> QED BY <2>2, <2>3, AwakeWaits
<1>5. ASSUME NEW n, WriteRead(n) PROVE LastWaits'
  <2>1. CASE Finish
    BY <2>1, FinishWaits
  <2>2. CASE Rearm /\ UNCHANGED <<inputs, outp>>
    <3>1. StringsFirst'
      BY <1>1, <2>2 DEF StringsFirst
    <3>2. outp # "none"
      BY <1>5, BusyIs DEF WriteRead
    <3> QED BY <2>2, <3>1, <3>2, AwakeWaits DEF Rearm
  <2> QED BY <1>5, <2>1, <2>2 DEF WriteRead
<1> QED BY <1>2, <1>3, <1>4, <1>5

\* Every step keeps it.
LEMMA WaitsStep ==
  ASSUME ~ AnyOrder, PumpInv, LastWaits, [Next]_vars PROVE LastWaits'
<1>1. ListOK /\ Control /\ Scalars /\ StringsFirst
  BY PumpIs DEF LastWaits
<1>2. CASE \E o \in Offers : AddInput(o)
  BY <1>2, AddInputWaits
<1>3. CASE SetDoneCallback \/ UNCHANGED vars
  BY <1>3 DEF LastWaits, StringsFirst, Head1, SetDoneCallback, bufVars, vars
<1>4. CASE Output \/ OutputReady \/ \E n : WriteBuffer(n)
  <2>1. inputs' = inputs /\ outp' # "none" /\ (pc' # "event" \/ armed')
    BY <1>1, <1>4 DEF Control, Output, OutputReady, WriteBuffer, Rearm
  <2>2. StringsFirst'
    BY <1>1, <2>1 DEF StringsFirst
  <2> QED BY <2>1, <2>2, AwakeWaits
<1>5. CASE WriteFails \/ NothingLeft
  BY <1>5, FinishWaits DEF WriteFails, NothingLeft
<1>6. CASE Destroy
  <2>1. inputs' = <<>> /\ outp' = "none" /\ finished'
    BY <1>6 DEF Destroy
  <2> QED BY <2>1 DEF LastWaits, StringsFirst
<1>7. CASE WaitForInput \/ RemapFails \/ ReadFd \/ ReadFdFails \/ \E n : WriteRead(n)
  BY <1>7, IdleWaits, DescriptorWaits
<1>8. ASSUME NEW n, WriteString(n) PROVE LastWaits'
  <2>1. inputs # <<>> /\ AtHead /\ Head1 \in InputType /\ n \in Nat
    BY <1>8, StringWrites
  <2> QED BY <1>8, <2>1, AdvanceWaits DEF WriteString
<1>9. ASSUME NEW n, WriteMmap(n) PROVE LastWaits'
  <2>1. inputs # <<>> /\ AtHead /\ Head1 \in InputType
    BY <1>9, MmapWrites
  <2>2. PICK mend \in Nat : n \in Nat /\ Advance([Head1 EXCEPT !.mend = mend], n)
    BY <1>9, MmapWrites
  <2>3. PICK h : h = [Head1 EXCEPT !.mend = mend]
    OBVIOUS
  <2>4. h \in InputType /\ h.kind = Head1.kind
    BY <2>1, <2>3 DEF InputType
  <2> QED BY <2>1, <2>2, <2>3, <2>4, AdvanceWaits
<1>10. CASE \E n : ReadBlocking(n)
  BY <1>10, ReadBlockingWaits
<1>11. CASE BlockingDone \/ BlockingEof
  <2>1. AtHead /\ inputs # <<>> /\ inputs \in Seq(InputType)
    BY <1>1, <1>11 DEF BlockingDone, BlockingEof, BlockingAtEof, HeadIs, ListOK
  <2>2. outp # "none"
    BY <2>1, AtHeadIs
  <2>3. CASE Finish
    BY <2>3, FinishWaits
  <2>4. CASE inputs' = FreeHead /\ outp' = outp /\ (pc' # "event" \/ armed')
    <3>1. StringsFirst'
      BY <1>1, <2>1, <2>4, FreeDoes, StringsFrees
    <3> QED BY <2>2, <2>4, <3>1, AwakeWaits
  <2> QED BY <1>11, <2>3, <2>4 DEF BlockingDone, BlockingEof, Rearm
<1>12. CASE (\E n : InputRead(n)) \/ InputClose
  BY <1>12, InputCallbackWaits
<1> QED
  BY <1>2, <1>3, <1>4, <1>5, <1>6, <1>7, <1>8, <1>9, <1>10, <1>11, <1>12
  DEF Next, WriteCallback, InputCallback

\* With the file object queued last, as http.pike, cgi.pike and socket.pike do,
\* the output waits only for that object, which has its callbacks.
THEOREM WaitsAlways ==
  ASSUME ~ AnyOrder PROVE Spec => [](PumpInv /\ LastWaits)
<1>1. Init => LastWaits
  BY DEF Init, LastWaits, StringsFirst
<1>2. PumpInv /\ LastWaits /\ [Next]_vars => (PumpInv /\ LastWaits)'
  BY PumpStep, WaitsStep
<1> QED BY <1>1, <1>2, PumpInit, PTL DEF Spec

\* The comment in _output_write_cb is true of the callers of this repository:
\* an output that nothing will call back has no bytes in hand, and its head
\* will call.  (A run shows that it fails for a file object that is not last.)
THEOREM NoSleepOnDataTheorem ==
  ASSUME ~ AnyOrder PROVE Spec => []NoSleepOnData
<1>1. PumpInv /\ LastWaits => NoSleepOnData
  <2> SUFFICES ASSUME PumpInv, LastWaits, pc = "event", outp # "none", ~ armed
               PROVE  buf = <<>> /\ HeadIs("obj") /\ Head1.mode = "READING"
    BY DEF NoSleepOnData
  <2>1. buf = <<>> /\ Len(inputs) = 1 /\ Head1.kind = "obj" /\ Head1.mode = "READING"
    BY DEF LastWaits
  <2>2. inputs # <<>>
    BY <2>1
  <2> QED BY <2>1, <2>2 DEF HeadIs
<1> QED BY <1>1, WaitsAlways, PTL

-----------------------------------------------------------------------------
(* The buffer is bounded                                                   *)

\* Products of natural numbers.
LEMMA Times ==
  ASSUME NEW a \in Nat, NEW c \in Nat, NEW d \in Nat
  PROVE  a * c \in Nat /\ a * (c + 1) = a * c + a /\ (c <= d => a * c <= a * d)
<1>1. a * c \in Nat
  OBVIOUS
<1>2. a * (c + 1) = a * c + a
  OBVIOUS
<1>3. ASSUME c <= d PROVE a * c <= a * d
  <2>1. PICK e \in Nat : d = c + e
    <3>1. d - c \in Nat /\ d = c + (d - c)
      BY <1>3
    <3> QED BY <3>1
  <2>2. a * d = a * c + a * e /\ a * e \in Nat /\ a * c \in Nat
    BY <2>1
  <2> QED BY <2>2
<1> QED BY <1>1, <1>2, <1>3

\* The inputs that the buffer is filled from, up to the k-th.
LEMMA PulledIs ==
  ASSUME NEW k \in Nat
  PROVE  IsFiniteSet(Pulled(k)) /\ Cardinality(Pulled(k)) \in Nat
<1>1. IsFiniteSet(1 .. k)
  BY FS_Interval
<1>2. Pulled(k) \subseteq 1 .. k
  BY DEF Pulled
<1>3. IsFiniteSet(Pulled(k))
  BY <1>1, <1>2, FS_Subset
<1> QED BY <1>3, FS_CardinalityType

\* The bound is a number,
LEMMA OvershootNat == ASSUME NEW k \in Nat PROVE Overshoot(k) \in Nat /\ ReadBuffer <= Overshoot(k)
<1>1. PICK c \in Nat : c = Cardinality(Pulled(k))
  BY PulledIs
<1>2. PICK p \in Nat : p = MaxChunk * c
  BY Times, BoundsAssumption
<1>3. Overshoot(k) = ReadBuffer + p
  BY <1>1, <1>2 DEF Overshoot
<1> QED BY <1>3, BoundsAssumption

\* grows with the inputs,
LEMMA OvershootGrows ==
  ASSUME NEW j \in Nat, NEW k \in Nat, j <= k PROVE Overshoot(j) <= Overshoot(k)
<1>1. Pulled(j) \subseteq Pulled(k)
  BY DEF Pulled
<1>2. PICK c \in Nat, d \in Nat :
        c = Cardinality(Pulled(j)) /\ d = Cardinality(Pulled(k)) /\ c <= d
  BY <1>1, PulledIs, FS_Subset
<1>3. PICK p \in Nat, q \in Nat : p = MaxChunk * c /\ q = MaxChunk * d /\ p <= q
  BY <1>2, Times, BoundsAssumption
<1>4. Overshoot(j) = ReadBuffer + p /\ Overshoot(k) = ReadBuffer + q
  BY <1>2, <1>3 DEF Overshoot
<1> QED BY <1>3, <1>4, BoundsAssumption

\* and by one read for each that is pulled.
LEMMA OvershootMore ==
  ASSUME NEW k \in Nat, given[k + 1].kind = "obj"
  PROVE  Overshoot(k + 1) = Overshoot(k) + MaxChunk
<1>1. Pulled(k + 1) = Pulled(k) \cup {k + 1} /\ k + 1 \notin Pulled(k)
  BY DEF Pulled
<1>2. PICK c \in Nat : c = Cardinality(Pulled(k)) /\ IsFiniteSet(Pulled(k))
  BY PulledIs
<1>3. Cardinality(Pulled(k + 1)) = c + 1
  BY <1>1, <1>2, FS_AddElement
<1>4. PICK p \in Nat, q \in Nat : p = MaxChunk * c /\ q = MaxChunk * (c + 1) /\ q = p + MaxChunk
  BY Times, BoundsAssumption
<1>5. Overshoot(k) = ReadBuffer + p /\ Overshoot(k + 1) = ReadBuffer + q
  BY <1>2, <1>3, <1>4 DEF Overshoot
<1> QED BY <1>4, <1>5, BoundsAssumption

\* The same for any state.
BoundGrows ==
  \A j, k \in Nat : /\ Overshoot(j) \in Nat /\ Overshoot(k) \in Nat
                    /\ j <= k => Overshoot(j) <= Overshoot(k)

\* The bound grows with the number of inputs that have been read.
LEMMA GrowsAlways == BoundGrows
BY OvershootNat, OvershootGrows DEF BoundGrows

\* Later inputs do not change it.
LEMMA OvershootSame ==
  ASSUME NEW k \in Nat, \A i \in 1 .. k : given'[i] = given[i]
  PROVE  Overshoot(k)' = Overshoot(k)
<1>1. Pulled(k)' = Pulled(k)
  BY DEF Pulled
<1> QED BY <1>1 DEF Overshoot

\* The inputs that may have overshot are some of those given.
LEMMA SpentIs == PumpInv => Spent \in Nat /\ Spent <= Len(given) /\ Len(given) \in Nat
<1> SUFFICES ASSUME PumpInv PROVE Spent \in Nat /\ Spent <= Len(given) /\ Len(given) \in Nat
  OBVIOUS
<1>1. given \in Seq(Offers) /\ ListOK
  BY PumpIs DEF Scalars
<1>2. Len(given) \in Nat /\ DOMAIN given = 1 .. Len(given)
  BY <1>1
<1>3. CASE inputs = <<>>
  BY <1>2, <1>3 DEF Spent
<1>4. CASE inputs # <<>>
  <2>1. PICK d \in Nat : d = Head1.id /\ 1 <= d /\ d <= Len(given)
    BY <1>1, <1>2, <1>4, HeadIn DEF Head1
  <2> QED BY <1>2, <1>4, <2>1 DEF Spent
<1> QED BY <1>3, <1>4

\* The level of the buffer, by the number of inputs that may have overshot.
FilledTo(k) == buf_pos + Len(buf) <= Overshoot(k)

FilledSome == \E k \in Nat : k = Spent /\ FilledTo(k)

\* The level is within the bound of a number of inputs that are read.
LEMMA FilledIs == PumpInv => (Filled <=> FilledSome)
<1>1. PumpInv => Spent \in Nat
  BY SpentIs
<1> QED BY <1>1 DEF Filled, FilledTo, FilledSome

\* A buffer within READ_BUFFER_SIZE is not over any bound.
LEMMA LowFilled == PumpInv /\ buf_pos + Len(buf) <= ReadBuffer => Filled
<1> SUFFICES ASSUME PumpInv, buf_pos + Len(buf) <= ReadBuffer PROVE Filled
  OBVIOUS
<1>1. PICK k \in Nat : k = Spent
  BY SpentIs
<1>2. Overshoot(k) \in Nat /\ ReadBuffer <= Overshoot(k)
  BY OvershootNat
<1>3. PICK l \in Nat : l = buf_pos + Len(buf)
  <2>1. buf \in Seq(Byte) /\ buf_pos \in Nat
    BY DEF PumpInv, TypeOK
  <2> QED BY <2>1
<1>4. FilledTo(k)
  BY <1>2, <1>3, BoundsAssumption DEF FilledTo
<1> QED BY <1>1, <1>4, FilledIs DEF FilledSome

\* A level under one bound is under any later one.
LEMMA FilledFrom ==
  ASSUME PumpInv', given' = given, NEW j \in Nat, j <= Spent',
         buf_pos' + Len(buf') <= Overshoot(j)
  PROVE  Filled'
<1>1. Spent' \in Nat /\ Len(buf') \in Nat /\ buf_pos' \in Nat
  <2>1. (Spent \in Nat /\ Spent <= Len(given) /\ Len(given) \in Nat)'
    BY SpentIs, PTL
  <2>2. buf' \in Seq(Byte) /\ buf_pos' \in Nat
    BY DEF PumpInv, TypeOK
  <2> QED BY <2>1, <2>2
<1>2. PICK k \in Nat : k = Spent' /\ j <= k
  BY <1>1
<1>3. Overshoot(j) <= Overshoot(k) /\ Overshoot(j) \in Nat /\ Overshoot(k) \in Nat
  BY <1>2, OvershootGrows, OvershootNat
<1>4. Overshoot(k)' = Overshoot(k)
  BY OvershootSame
<1>5. FilledTo(k)'
  <2>1. PICK l \in Nat : l = buf_pos' + Len(buf')
    BY <1>1
  <2>2. l <= Overshoot(k)
    BY <1>3, <2>1
  <2> QED BY <1>4, <2>1, <2>2 DEF FilledTo
<1>6. FilledSome'
  BY <1>2, <1>5 DEF FilledSome
<1> QED BY <1>6, FilledIs, PTL

\* What Filled says of the next state.
LEMMA FilledUse ==
  ASSUME PumpInv, Filled
  PROVE  \E j \in Nat : j = Spent /\ buf_pos + Len(buf) <= Overshoot(j)
BY FilledIs DEF FilledTo, FilledSome

\* The head that is no string leaves, and its successor was given later.
LEMMA FreesSpent ==
  ASSUME PumpInv, PumpInv', Ascending, Frees, given' = given, Head1.kind # "str"
  PROVE  Head1.id <= Spent' /\ Head1.id \in Nat \ {0}
<1>1. ListOK /\ inputs # <<>> /\ TypeOK
  BY PumpIs, SMTT(30) DEF Frees, PumpInv
<1>2. PICK d \in Nat \ {0}, n \in Nat :
        /\ d = Head1.id /\ d <= Len(given) /\ n = Len(inputs) /\ DOMAIN inputs = 1 .. n
        /\ n > 0 /\ Len(given) \in Nat
  <2>1. Head1.id \in DOMAIN given /\ Len(inputs) \in Nat \ {0} /\ DOMAIN inputs = 1 .. Len(inputs)
    BY <1>1, HeadIn DEF Head1
  <2>2. given \in Seq(Offers)
    BY <1>1 DEF TypeOK
  <2>3. Len(given) \in Nat /\ Head1.id \in 1 .. Len(given)
    BY <2>1, <2>2
  <2>4. Head1.id \in Nat \ {0} /\ Head1.id <= Len(given) /\ Len(inputs) > 0
    BY <2>1, <2>3
  <2> QED BY <2>1, <2>3, <2>4
<1>3. CASE n = 1
  <2>1. inputs' = <<>>
    <3>1. inputs' \in Seq(InputType) /\ Len(inputs') = 0
      BY <1>2, <1>3 DEF Frees
    <3> QED BY <3>1, EmptyIs, Zenon
  <2>2. Spent' = Len(given)
    BY <2>1 DEF Spent
  <2> QED BY <1>2, <2>2
<1>4. CASE n # 1
  <2>1. 1 \in DOMAIN inputs /\ 2 \in DOMAIN inputs /\ 1 < 2
    BY <1>2, <1>4
  <2>2. d < inputs[2].id /\ inputs[2].id \in Nat
    <3>1. inputs[2].id \in Nat
      <4>1. inputs[2] \in InputType
        BY <1>1, <2>1 DEF ListOK
      <4> QED BY <4>1 DEF InputType
    <3> QED BY <1>2, <2>1, <3>1 DEF Ascending, Head1
  <2>3. inputs'[1].id = inputs[2].id /\ inputs' # <<>>
    BY <1>2, <1>4 DEF Frees
  <2>4. Spent' = inputs'[1].id \/ Spent' = inputs'[1].id - 1
    BY <2>3 DEF Spent, Head1
  <2> QED BY <1>2, <2>2, <2>3, <2>4
<1> QED BY <1>3, <1>4

\* Where the callback looks at the head the buffer is empty, and stays so.
LEMMA HeadFilled ==
  ASSUME PumpInv, PumpInv', AtHead, buf' = buf, buf_pos' = buf_pos \/ buf_pos' = 0
  PROVE  Filled'
<1>1. buf = <<>> /\ buf_pos <= ReadBuffer /\ buf_pos \in Nat
  BY AtHeadIs
<1>2. (PumpInv /\ buf_pos + Len(buf) <= ReadBuffer)'
  BY <1>1, BoundsAssumption
<1> QED BY <1>2, LowFilled, PTL

\* finished() leaves the buffer as it is.
LEMMA FinishFilled ==
  ASSUME PumpInv, PumpInv', Filled, Finish, UNCHANGED <<given, bufVars>>
  PROVE  Filled'
<1>1. PICK j \in Nat : j = Spent /\ buf_pos + Len(buf) <= Overshoot(j)
  BY FilledUse
<1>2. Spent' = Len(given) /\ j <= Len(given)
  BY <1>1, SpentIs DEF Finish, Spent
<1> QED BY <1>1, <1>2, FilledFrom DEF bufVars

\* One more input raises the bound or leaves it.
LEMMA AddInputFilled ==
  ASSUME PumpInv, PumpInv', Filled, NEW o \in Offers, AddInput(o) PROVE Filled'
<1>1. PICK j \in Nat : j = Spent /\ buf_pos + Len(buf) <= Overshoot(j) /\ j <= Len(given)
  BY FilledUse, SpentIs
<1>2. ListOK /\ Scalars
  BY PumpIs
<1>3. PICK n \in Nat : n = Len(given)
  BY <1>2 DEF Scalars
<1>4. \A i \in 1 .. n : given'[i] = given[i]
  BY <1>2, <1>3, AppendIs DEF AddInput, Scalars
<1>5. Overshoot(j)' = Overshoot(j)
  <2>1. \A i \in 1 .. j : given'[i] = given[i]
    BY <1>1, <1>3, <1>4
  <2> QED BY <2>1, OvershootSame
<1>6. PICK k \in Nat : k = Spent' /\ j <= k
  <2>1. (Spent \in Nat /\ Spent <= Len(given) /\ Len(given) \in Nat)'
    BY SpentIs, PTL
  <2>2. CASE inputs = <<>>
    <3>1. j = n
      BY <1>1, <1>3, <2>2 DEF Spent
    <3>2. inputs' # <<>> /\ inputs'[1] = NewInput(o)
      BY <2>2 DEF AddInput
    <3>3. NewInput(o).id = n + 1
      BY <1>3 DEF NewInput
    <3>4. Spent' = inputs'[1].id \/ Spent' = inputs'[1].id - 1
      BY <3>2 DEF Spent, Head1
    <3> QED BY <2>1, <3>1, <3>2, <3>3, <3>4
  <2>3. CASE inputs # <<>>
    <3>1. inputs' # <<>> /\ inputs'[1] = inputs[1]
      BY <1>2, <2>3 DEF AddInput, ListOK
    <3>2. Spent' = Spent
      BY <2>3, <3>1 DEF Spent, Head1
    <3> QED BY <1>1, <2>1, <3>2
  <2> QED BY <2>2, <2>3
<1>7. FilledTo(k)'
  <2>1. buf' = buf /\ buf_pos' = buf_pos
    BY DEF AddInput, bufVars
  <2>2. FilledTo(j)'
    BY <1>1, <1>5, <2>1 DEF FilledTo
  <2>3. Overshoot(j)' <= Overshoot(k)' /\ Overshoot(j)' \in Nat /\ Overshoot(k)' \in Nat
    <3>1. BoundGrows'
      BY GrowsAlways, PTL
    <3> QED BY <1>6, <3>1 DEF BoundGrows
  <2>4. buf_pos' + Len(buf') \in Nat
    BY <1>2, <2>1 DEF Scalars
  <2> QED BY <2>2, <2>3, <2>4 DEF FilledTo
<1>8. FilledSome'
  BY <1>6, <1>7 DEF FilledSome
<1> QED BY <1>8, FilledIs, PTL

\* A write from the buffer keeps its bytes or lowers their number.
LEMMA WriteBufferFilled ==
  ASSUME PumpInv, PumpInv', Filled, NEW n, WriteBuffer(n) PROVE Filled'
<1>1. PICK j \in Nat : j = Spent /\ buf_pos + Len(buf) <= Overshoot(j)
  BY FilledUse
<1>2. Scalars /\ given' = given /\ inputs' = inputs
  BY PumpIs DEF WriteBuffer
<1>3. n \in 0 .. Len(buf) /\ buf \in Seq(Byte) /\ Len(buf) \in Nat /\ buf_pos \in Nat
  BY <1>2 DEF WriteBuffer, Wrote, Scalars
<1>4. Len(buf') = Len(buf) - n
  BY <1>3, SubSeqIs DEF WriteBuffer
<1>5. buf_pos' + Len(buf') <= buf_pos + Len(buf) /\ buf_pos' + Len(buf') \in Nat
  <2>1. buf_pos' = 0 \/ buf_pos' = buf_pos + n
    BY DEF WriteBuffer
  <2> QED BY <1>3, <1>4, <2>1
<1>6. Overshoot(j) \in Nat
  BY OvershootNat
<1>7. buf_pos' + Len(buf') <= Overshoot(j)
  <2>1. \A a, b, c \in Nat : a <= b /\ b <= c => a <= c
    OBVIOUS
  <2>2. buf_pos + Len(buf) \in Nat
    BY <1>3
  <2> QED BY <1>1, <1>5, <1>6, <2>1, <2>2
<1>8. j <= Spent'
  BY <1>1, <1>2 DEF Spent, Head1
<1> QED BY <1>2, <1>7, <1>8, FilledFrom

\* What is read from a descriptor, and what is left of it, fits READ_BUFFER_SIZE.
LEMMA DescriptorFilled ==
  ASSUME PumpInv, PumpInv', ReadFd \/ \E n : WriteRead(n) PROVE Filled'
<1>1. CASE ReadFd
  <2>1. buf' \in Seq(Byte) /\ Len(buf') <= ReadBuffer /\ buf_pos' = 0
    BY <1>1, ReadFdDoes DEF ReadFd
  <2>2. (PumpInv /\ buf_pos + Len(buf) <= ReadBuffer)'
    BY <2>1
  <2> QED BY <2>2, LowFilled, PTL
<1>2. ASSUME NEW n, WriteRead(n) PROVE Filled'
  <2>1. (PumpInv /\ buf_pos + Len(buf) <= ReadBuffer)'
    BY <1>2, WriteReadDoes
  <2> QED BY <2>1, LowFilled, PTL
<1> QED BY <1>1, <1>2

\* A read starts under READ_BUFFER_SIZE or is the one of its input.
LEMMA InputReadFilled ==
  ASSUME PumpInv, PumpInv', Ascending, Filled, NEW n, InputRead(n) PROVE Filled'
<1>1. /\ inputs # <<>> /\ Head1 \in InputType /\ Head1.kind = "obj"
      /\ Head1.mode = "READING" /\ InputOK(Head1) /\ Head1.id \in DOMAIN given
      /\ n \in Nat \ {0} /\ n <= MaxChunk
  BY InputReadDoes
<1>2. PICK u \in 0 .. n :
              /\ buf' = buf \o Bytes(Head1.id, Head1.off, u)
              /\ \/ Frees
                 \/ /\ u = n
                    /\ \E h \in InputType :
                         /\ Heads(h) /\ h.id = Head1.id /\ h.kind = "obj"
                         /\ h.mode = IF buf_pos + Len(buf) + n > ReadBuffer
                                     THEN "SLEEPING" ELSE "READING"
  BY InputReadDoes, Zenon
<1>3. given' = given /\ buf_pos' = buf_pos /\ Scalars
  BY PumpIs DEF InputRead, InputReadInto
<1>4. PICK j \in Nat : j = Spent /\ buf_pos + Len(buf) <= Overshoot(j)
  BY FilledUse
<1>5. Head1.id = j + 1
  <2>1. Spent = Head1.id - 1
    BY <1>1 DEF Spent
  <2> QED BY <1>1, <1>4, <2>1 DEF InputType
<1>6. PICK l \in Nat, m \in Nat :
        l = buf_pos + Len(buf) /\ m = buf_pos' + Len(buf') /\ m = l + u
  <2>1. PICK d \in Nat, f \in Nat : d = Head1.id /\ f = Head1.off
    BY <1>1 DEF InputType
  <2>2. u \in Nat
    BY <1>1
  <2>3. Bytes(d, f, u) \in Seq(Byte) /\ Len(Bytes(d, f, u)) = u
    BY <2>2, BytesIs
  <2>4. PICK data \in Seq(Byte) : data = Bytes(d, f, u) /\ Len(data) = u
    BY <2>3
  <2>5. buf' = buf \o data /\ buf \in Seq(Byte) /\ buf_pos \in Nat
    BY <1>2, <1>3, <2>1, <2>4, Zenon DEF Scalars
  <2>6. Len(data) = u
    BY <2>4, Zenon
  <2>7. Len(buf') = Len(buf) + Len(data) /\ Len(buf) \in Nat
    BY <2>5
  <2> QED BY <1>3, <2>2, <2>5, <2>6, <2>7
<1>7. /\ Overshoot(j + 1) = Overshoot(j) + MaxChunk
      /\ Overshoot(j) \in Nat /\ ReadBuffer <= Overshoot(j)
  BY <1>1, <1>5, OvershootMore, OvershootNat DEF InputOK, Source
<1>8. m <= Overshoot(j + 1)
  BY <1>1, <1>4, <1>6, <1>7, BoundsAssumption, SMTT(30)
<1>9. CASE Frees
  <2>1. j + 1 <= Spent' /\ j + 1 \in Nat
    BY <1>1, <1>3, <1>5, <1>9, FreesSpent
  <2> QED BY <1>3, <1>6, <1>8, <2>1, FilledFrom
<1>10. ASSUME NEW h \in InputType, Heads(h), h.id = Head1.id, h.kind = "obj", u = n,
              h.mode = IF buf_pos + Len(buf) + n > ReadBuffer THEN "SLEEPING" ELSE "READING"
       PROVE  Filled'
  <2>1. inputs' # <<>> /\ inputs'[1] = h
    BY <1>1, <1>10 DEF Heads
  <2>2. CASE m > ReadBuffer
    <3>1. h.mode = "SLEEPING"
      <4>1. buf_pos + Len(buf) + n > ReadBuffer
        BY <1>6, <1>10, <2>2
      <4> QED BY <1>10, <4>1
    <3>2. Spent' = j + 1
      BY <1>5, <1>10, <2>1, <3>1 DEF Spent, Head1
    <3>3. j + 1 \in Nat /\ j + 1 <= Spent'
      BY <3>2
    <3> QED BY <1>3, <1>6, <1>8, <3>3, FilledFrom
  <2>3. CASE ~ (m > ReadBuffer)
    <3>1. m <= Overshoot(j)
      BY <1>6, <1>7, <2>3, BoundsAssumption
    <3>2. Spent' = h.id \/ Spent' = h.id - 1
      BY <2>1 DEF Spent, Head1
    <3>3. j <= Spent'
      BY <1>5, <1>10, <3>2
    <3> QED BY <1>3, <1>6, <3>1, <3>3, FilledFrom
  <2> QED BY <2>2, <2>3
<1> QED BY <1>2, <1>9, <1>10

\* An input that closes counts as read.
LEMMA InputCloseFilled ==
  ASSUME PumpInv, PumpInv', Ascending, Filled, InputClose PROVE Filled'
<1>1. /\ ListOK /\ inputs # <<>> /\ Head1.kind = "obj" /\ Head1.mode = "READING"
      /\ UNCHANGED <<given, bufVars>>
  BY PumpIs DEF InputClose, Reading, HeadIs
<1>2. CASE Finish
  BY <1>1, <1>2, FinishFilled
<1>3. CASE inputs' = FreeHead
  <2>1. Frees
    BY <1>1, <1>3, FreeDoes DEF ListOK
  <2>2. PICK j \in Nat : j = Spent /\ buf_pos + Len(buf) <= Overshoot(j)
    BY FilledUse
  <2>3. PICK d \in Nat \ {0} : d = Head1.id /\ d <= Spent'
    BY <1>1, <2>1, FreesSpent
  <2>4. j = d - 1
    BY <1>1, <2>2, <2>3 DEF Spent
  <2>5. Spent' \in Nat
    <3>1. (Spent \in Nat /\ Spent <= Len(given) /\ Len(given) \in Nat)'
      BY SpentIs, PTL
    <3> QED BY <3>1
  <2>6. j <= Spent'
    BY <2>3, <2>4, <2>5
  <2> QED BY <1>1, <2>2, <2>6, FilledFrom DEF bufVars
<1> QED BY <1>2, <1>3 DEF InputClose

-----------------------------------------------------------------------------
(* The list is in order                                                    *)

\* The caller's inputs are numbered in order.
LEMMA AddInputAscending ==
  ASSUME PumpInv, Ascending, NEW o \in Offers, AddInput(o) PROVE Ascending'
<1>1. ListOK /\ Scalars
  BY PumpIs
<1>2. PICK n \in Nat, m \in Nat :
        n = Len(given) /\ DOMAIN given = 1 .. n /\ m = Len(inputs) /\ DOMAIN inputs = 1 .. m
  BY <1>1 DEF ListOK, Scalars
<1>3. /\ DOMAIN inputs' = 1 .. m + 1 /\ \A k \in 1 .. m : inputs'[k] = inputs[k]
      /\ inputs'[m + 1] = NewInput(o)
  BY <1>1, <1>2 DEF AddInput, ListOK
<1>4. NewInput(o).id = n + 1
  BY <1>2 DEF NewInput
<1>5. \A i \in 1 .. m : inputs[i].id \in Nat /\ inputs[i].id < n + 1
  BY <1>1, <1>2 DEF ListOK
<1>6. ASSUME NEW i \in 1 .. m + 1, NEW j \in 1 .. m + 1, i < j
      PROVE  \/ inputs'[i].id < inputs'[j].id
             \/ inputs'[i].id = inputs'[j].id /\ inputs'[i].kind = "str"
  <2>1. i \in 1 .. m /\ (j \in 1 .. m \/ j = m + 1)
    BY <1>6
  <2>2. CASE j = m + 1
    BY <1>3, <1>4, <1>5, <2>1, <2>2
  <2>3. CASE j \in 1 .. m
    BY <1>2, <1>3, <1>6, <2>1, <2>3 DEF Ascending
  <2> QED BY <2>1, <2>2, <2>3
<1> QED BY <1>3, <1>6 DEF Ascending

\* What a blocking object returns stands before the object.
LEMMA ReadBlockingAscending ==
  ASSUME PumpInv, Ascending, NEW n, ReadBlocking(n) PROVE Ascending'
<1>1. ListOK /\ inputs # <<>> /\ Head1.kind = "block"
  BY PumpIs, ReadBlockingDoes
<1>2. PICK s \in InputType, h \in InputType :
        Pushes(s, h) /\ s.id = Head1.id /\ s.kind = "str" /\ h.id = Head1.id
  BY ReadBlockingDoes
<1>3. PICK m \in Nat \ {0} : m = Len(inputs) /\ DOMAIN inputs = 1 .. m
  <2>1. Len(inputs) \in Nat \ {0} /\ DOMAIN inputs = 1 .. Len(inputs)
    BY <1>1, HeadIn
  <2> QED BY <2>1, Zenon
<1>4. /\ DOMAIN inputs' = 1 .. m + 1 /\ inputs'[1] = s /\ inputs'[2] = h
      /\ \A i \in 2 .. m : inputs'[i + 1] = inputs[i]
  BY <1>2, <1>3 DEF Pushes
<1>5. \A i \in 2 .. m : Head1.id < inputs[i].id
  BY <1>1, <1>3 DEF Ascending, Head1
<1>6. \A i \in 3 .. m + 1 : i - 1 \in 2 .. m /\ inputs'[i] = inputs[i - 1]
  <2>1. \A i \in 3 .. m + 1 : i - 1 \in 2 .. m /\ (i - 1) + 1 = i
    OBVIOUS
  <2> QED BY <1>4, <2>1
<1>7. ASSUME NEW i \in 1 .. m + 1, NEW j \in 1 .. m + 1, i < j
      PROVE  \/ inputs'[i].id < inputs'[j].id
             \/ inputs'[i].id = inputs'[j].id /\ inputs'[i].kind = "str"
  <2>1. CASE i = 1 /\ j = 2
    BY <1>2, <1>4, <2>1
  <2>2. CASE i \in 1 .. 2 /\ j \in 3 .. m + 1
    <3>1. inputs'[i].id = Head1.id
      BY <1>2, <1>4, <2>2
    <3> QED BY <1>5, <1>6, <2>2, <3>1
  <2>3. CASE i \in 3 .. m + 1 /\ j \in 3 .. m + 1
    <3>1. i - 1 \in 1 .. m /\ j - 1 \in 1 .. m /\ i - 1 < j - 1
      BY <1>7, <2>3
    <3> QED BY <1>3, <1>6, <2>3, <3>1 DEF Ascending
  <2>4. \/ i = 1 /\ j = 2
        \/ i \in 1 .. 2 /\ j \in 3 .. m + 1
        \/ i \in 3 .. m + 1 /\ j \in 3 .. m + 1
    BY <1>7
  <2> QED BY <2>1, <2>2, <2>3, <2>4
<1> QED BY <1>4, <1>7 DEF Ascending

\* An empty list is in order.
LEMMA NoneAscending == ASSUME inputs' = <<>> PROVE Ascending'
BY DEF Ascending

\* A write from the head keeps the order.
LEMMA AdvanceAscending ==
  ASSUME PumpInv, Ascending, inputs # <<>>, NEW h \in InputType, NEW n \in Nat, Advance(h, n),
         h.id = inputs[1].id, h.kind = inputs[1].kind
  PROVE  Ascending'
<1>1. ListOK
  BY PumpIs
<1>2. CASE Finish
  BY <1>2, NoneAscending DEF Finish
<1>3. CASE Frees
  BY <1>1, <1>3, FreesAscending
<1>4. ASSUME NEW g \in InputType, g = [h EXCEPT !.pos = h.pos + n], Heads(g)
      PROVE  Ascending'
  <2>1. g.id = h.id /\ g.kind = h.kind
    BY <1>4 DEF InputType
  <2> QED BY <1>1, <1>4, <2>1, HeadsAscending
<1> QED BY <1>1, <1>2, <1>3, <1>4, AdvanceDoes

\* The head gets another mode, or becomes a blocking object.
LEMMA IdleAscending ==
  ASSUME PumpInv, Ascending, WaitForInput \/ RemapFails PROVE Ascending'
<1>1. ListOK /\ inputs # <<>> /\ Head1.kind # "str"
  BY PumpIs DEF WaitForInput, RemapFails, HeadIs
<1>2. Head1 \in InputType
  BY <1>1, HeadIn DEF Head1
<1>3. PICK h \in InputType : inputs' = SetHead(h) /\ h.id = Head1.id
  <2>1. CASE WaitForInput
    <3>1. PICK h : h = [Head1 EXCEPT !.mode = "READING"]
      OBVIOUS
    <3>2. h \in InputType /\ h.id = Head1.id
      BY <1>2, <3>1 DEF InputType
    <3> QED BY <2>1, <3>1, <3>2 DEF WaitForInput
  <2>2. CASE RemapFails
    <3>1. PICK h : h = [Head1 EXCEPT !.kind = "block"]
      OBVIOUS
    <3>2. h \in InputType /\ h.id = Head1.id
      BY <1>2, <3>1 DEF InputType, Kinds
    <3> QED BY <2>2, <3>1, <3>2 DEF RemapFails
  <2> QED BY <2>1, <2>2
<1>4. Heads(h)
  BY <1>1, <1>3, HeadDoes DEF ListOK
<1> QED BY <1>1, <1>3, <1>4, HeadsAscending DEF Head1

\* Every step keeps the order.
LEMMA AscendingStep ==
  ASSUME PumpInv, Ascending, [Next]_vars PROVE Ascending'
<1>1. ListOK /\ inputs \in Seq(InputType)
  BY PumpIs DEF ListOK
<1>2. CASE \E o \in Offers : AddInput(o)
  BY <1>2, AddInputAscending
<1>3. CASE UNCHANGED inputs
  BY <1>3 DEF Ascending
<1>4. CASE inputs' = <<>>
  BY <1>4, NoneAscending
<1>5. CASE WaitForInput \/ RemapFails
  BY <1>5, IdleAscending
<1>6. ASSUME NEW n, WriteString(n) PROVE Ascending'
  <2>1. inputs # <<>> /\ Head1 \in InputType /\ n \in Nat
    BY <1>6, StringWrites
  <2> QED BY <1>6, <2>1, AdvanceAscending DEF WriteString, Head1
<1>7. ASSUME NEW n, WriteMmap(n) PROVE Ascending'
  <2>1. inputs # <<>> /\ Head1 \in InputType
    BY <1>7, MmapWrites
  <2>2. PICK mend \in Nat : n \in Nat /\ Advance([Head1 EXCEPT !.mend = mend], n)
    BY <1>7, MmapWrites
  <2>3. PICK h : h = [Head1 EXCEPT !.mend = mend]
    OBVIOUS
  <2>4. h \in InputType /\ h.kind = Head1.kind /\ h.id = Head1.id
    BY <2>1, <2>3 DEF InputType
  <2>5. Advance(h, n) /\ n \in Nat
    BY <2>2, <2>3
  <2> QED BY <2>1, <2>4, <2>5, AdvanceAscending DEF Head1
<1>8. CASE \E n : ReadBlocking(n)
  BY <1>8, ReadBlockingAscending
<1>9. CASE inputs # <<>> /\ inputs' = FreeHead
  BY <1>1, <1>9, FreeDoes, FreesAscending
<1>10. CASE BlockingDone \/ BlockingEof \/ InputClose \/ ReadFdFails
  BY <1>4, <1>9, <1>10
  DEF BlockingDone, BlockingEof, BlockingAtEof, ReadFdFails, InputClose, Reading, HeadIs,
      Finish
<1>11. ASSUME NEW n, InputRead(n) PROVE Ascending'
  <2>1. inputs # <<>> /\ Head1.kind = "obj"
    BY <1>11, InputReadDoes
  <2>2. CASE Frees
    BY <1>1, <2>2, FreesAscending
  <2>3. ASSUME NEW h \in InputType, Heads(h), h.id = Head1.id PROVE Ascending'
    BY <1>1, <2>1, <2>3, HeadsAscending DEF Head1
  <2> QED BY <1>11, <2>2, <2>3, InputReadDoes
<1>14. CASE ReadFd
  <2>1. inputs # <<>> /\ Head1.kind = "block"
    BY <1>14, ReadFdDoes
  <2>2. CASE Frees
    BY <1>1, <2>2, FreesAscending
  <2>3. ASSUME NEW h \in InputType, Heads(h), h.id = Head1.id, h.kind = "block"
        PROVE  Ascending'
    BY <1>1, <2>1, <2>3, HeadsAscending DEF Head1
  <2> QED BY <1>14, <2>2, <2>3, ReadFdDoes
<1>15. CASE \E n : WriteRead(n)
  BY <1>3, <1>4, <1>15 DEF WriteRead, Finish
<1>12. CASE \/ SetDoneCallback \/ Output \/ OutputReady \/ \E n : WriteBuffer(n)
            \/ UNCHANGED vars
  BY <1>3, <1>12 DEF SetDoneCallback, Output, OutputReady, WriteBuffer, vars
<1>13. CASE WriteFails \/ NothingLeft \/ Destroy
  BY <1>4, <1>13 DEF WriteFails, NothingLeft, Destroy, Finish
<1> QED
  BY <1>2, <1>5, <1>6, <1>7, <1>8, <1>10, <1>11, <1>12, <1>13, <1>14, <1>15
  DEF Next, WriteCallback, InputCallback

\* Every step keeps the level of the buffer under its bound.
LEMMA FilledStep ==
  ASSUME PumpInv, PumpInv', Ascending, Filled, [Next]_vars PROVE Filled'
<1>1. CASE \E o \in Offers : AddInput(o)
  BY <1>1, AddInputFilled
<1>2. CASE SetDoneCallback \/ Output \/ OutputReady \/ UNCHANGED vars
  <2>1. UNCHANGED <<given, inputs, bufVars>>
    BY <1>2 DEF SetDoneCallback, Output, OutputReady, vars, bufVars
  <2>2. PICK j \in Nat : j = Spent /\ buf_pos + Len(buf) <= Overshoot(j)
    BY FilledUse
  <2>3. j <= Spent'
    BY <2>1, <2>2 DEF Spent, Head1
  <2> QED BY <2>1, <2>2, <2>3, FilledFrom DEF bufVars
<1>3. CASE \E n : WriteBuffer(n)
  BY <1>3, WriteBufferFilled
<1>4. CASE WriteFails
  BY <1>4, FinishFilled DEF WriteFails
<1>5. CASE Destroy
  <2>1. (PumpInv /\ buf_pos + Len(buf) <= ReadBuffer)'
    BY <1>5, BoundsAssumption DEF Destroy
  <2> QED BY <2>1, LowFilled, PTL
<1>6. CASE (\E n : InputRead(n)) \/ InputClose
  BY <1>6, InputReadFilled, InputCloseFilled
<1>7. CASE \/ NothingLeft \/ WaitForInput \/ RemapFails \/ ReadFdFails
           \/ BlockingDone \/ BlockingEof \/ \E n : WriteString(n) \/ WriteMmap(n) \/ ReadBlocking(n)
  <2>1. AtHead /\ buf' = buf /\ (buf_pos' = buf_pos \/ buf_pos' = 0)
    BY <1>7 DEF NothingLeft, WaitForInput, RemapFails, ReadFdFails, BlockingDone,
                BlockingEof, WriteString, WriteMmap, ReadBlocking, bufVars
  <2> QED BY <2>1, HeadFilled
<1>8. CASE ReadFd \/ \E n : WriteRead(n)
  BY <1>8, DescriptorFilled
<1> QED
  BY <1>1, <1>2, <1>3, <1>4, <1>5, <1>6, <1>7, <1>8 DEF Next, WriteCallback, InputCallback

\* The list keeps the caller's order, and the buffer fills by one read for each
\* input that has ended in it.
THEOREM FilledAlways == Spec => [](PumpInv /\ Ascending /\ Filled)
<1>1. Init => Ascending /\ Filled
  <2> SUFFICES ASSUME Init PROVE Ascending /\ Filled
    OBVIOUS
  <2>1. Ascending
    BY DEF Init, Ascending
  <2>2. PumpInv /\ buf_pos + Len(buf) <= ReadBuffer
    BY PumpInit, BoundsAssumption DEF Init
  <2> QED BY <2>1, <2>2, LowFilled
<1>2. PumpInv /\ Ascending /\ Filled /\ [Next]_vars => (PumpInv /\ Ascending /\ Filled)'
  BY PumpStep, AscendingStep, FilledStep
<1> QED BY <1>1, <1>2, PumpInit, PTL DEF Spec

\* The buffer of the pump stays within READ_BUFFER_SIZE and one read for each
\* input that is read by callbacks, for any inputs, sizes and orders.
THEOREM BufferBoundedTheorem == Spec => []BufferBounded
<1>1. PumpInv /\ Filled => BufferBounded
  <2> SUFFICES ASSUME PumpInv, Filled PROVE BufferBounded
    OBVIOUS
  <2>1. PICK j \in Nat : j = Spent /\ buf_pos + Len(buf) <= Overshoot(j)
    BY FilledUse
  <2>2. PICK k \in Nat : k = Len(given) /\ j <= k
    BY <2>1, SpentIs
  <2>3. Overshoot(j) <= Overshoot(k) /\ Overshoot(j) \in Nat /\ Overshoot(k) \in Nat
    BY <2>2, OvershootGrows, OvershootNat
  <2>4. buf_pos + Len(buf) \in Nat
    BY PumpIs DEF Scalars
  <2>5. buf_pos + Len(buf) <= Overshoot(k)
    BY <2>1, <2>3, <2>4
  <2> QED BY <2>2, <2>5 DEF BufferBounded
<1> QED BY <1>1, FilledAlways, PTL

-----------------------------------------------------------------------------
(* No byte is lost, duplicated or out of order                             *)

\* The sequences of bytes, named so that the provers do not look inside.
Stream == Seq(Byte)

\* The laws of Cat hold of streams of bytes.
LEMMA StreamIs == SeqSet(Stream)
BY DEF Stream, SeqSet

\* An input's source.
LEMMA SourceIs ==
  ASSUME PumpInv, NEW i \in DOMAIN inputs
  PROVE  /\ inputs[i] \in InputType /\ InputOK(inputs[i]) /\ inputs[i].id \in DOMAIN given
         /\ Source(inputs[i]) \in Offers /\ Source(inputs[i]).size \in Nat
         /\ Source(inputs[i]).limit \in Nat \cup {-1}
<1>1. TypeOK /\ ListOK
  BY PumpIs DEF PumpInv
<1>2. inputs[i] \in InputType /\ InputOK(inputs[i]) /\ inputs[i].id \in DOMAIN given
  BY <1>1 DEF ListOK
<1> QED BY <1>1, <1>2, GivenIn DEF Source

\* What is to come from an input: the bytes up to its end.
LEMMA ToComeIs ==
  ASSUME PumpInv, ReadInPlace, KeptLengths, NEW i \in DOMAIN inputs
  PROVE  \E d \in Nat, k \in Nat, m \in Nat :
           /\ ToCome(inputs[i]) = Bytes(d, k, m)
           /\ d = inputs[i].id /\ k = inputs[i].base + inputs[i].pos
           /\ inputs[i].kind \in {"str", "mmap"} => m = inputs[i].len - inputs[i].pos
           /\ inputs[i].kind = "block" => m = Source(inputs[i]).size - inputs[i].pos
           /\ inputs[i].kind = "obj" => m = Wanted(Source(inputs[i])) - inputs[i].pos
<1>1. PICK h \in InputType : h = inputs[i] /\ InputOK(h) /\ h.id \in DOMAIN given
  BY SourceIs
<1>2. PICK o : /\ o = Source(h) /\ o \in Offers /\ o.size \in Nat /\ o.limit \in Nat \cup {-1}
  BY <1>1, SourceIs
<1>3. h.id \in Nat /\ h.base \in Nat /\ h.pos \in Nat /\ h.len \in Nat \cup {-1} /\ h.off \in Nat
  BY DEF InputType
<1>4. PICK e \in Nat :
        /\ h.pos <= e
        /\ e = (IF h.kind \in {"str", "mmap"} THEN h.len ELSE Wanted(o))
        /\ h.kind = "block" => e = o.size
  <2>1. h.kind \in {"str", "mmap", "block", "obj"}
    BY DEF InputType, Kinds
  <2>2. CASE h.kind \in {"str", "mmap"}
    <3>1. h.len \in Nat /\ h.pos <= h.len
      BY <1>1, <1>2, <1>3, <2>2 DEF InputOK, InputType
    <3> QED BY <2>2, <3>1
  <2>3. CASE h.kind = "block"
    <3>1. o.kind = "block" /\ h.pos <= o.size
      BY <1>1, <1>2, <2>3 DEF InputOK, ReadInPlace
    <3>2. o.limit = -1 \/ o.limit >= o.size
      BY <1>2, <3>1 DEF KeptLengths
    <3>3. Wanted(o) = o.size
      BY <1>2, <3>1, <3>2 DEF Wanted, MinOf
    <3> QED BY <1>2, <2>3, <3>1, <3>3
  <2>4. CASE h.kind = "obj"
    <3>1. o.kind = "obj" /\ h.off = h.pos /\ h.len = o.limit
      BY <1>1, <1>2, <2>4 DEF ReadInPlace, InputOK
    <3>2. h.off <= o.size /\ (h.len = -1 \/ h.pos <= h.len)
      BY <1>1, <1>2, <2>4 DEF InputOK
    <3>3. Wanted(o) \in Nat /\ h.pos <= Wanted(o)
      BY <1>2, <1>3, <3>1, <3>2 DEF Wanted, MinOf
    <3> QED BY <2>4, <3>3
  <2> QED BY <2>1, <2>2, <2>3, <2>4
<1>5. ToCome(h) = Bytes(h.id, h.base + h.pos, e - h.pos)
  BY <1>2, <1>4 DEF ToCome
<1>6. e - h.pos \in Nat /\ h.base + h.pos \in Nat
  BY <1>3, <1>4
<1> QED BY <1>1, <1>2, <1>3, <1>4, <1>5, <1>6, ZenonT(40)

\* What is to come from an input is a stream.
LEMMA ToComeType ==
  ASSUME PumpInv, ReadInPlace, KeptLengths, NEW i \in DOMAIN inputs
  PROVE  ToCome(inputs[i]) \in Stream
<1>1. PICK d \in Nat, k \in Nat, m \in Nat : ToCome(inputs[i]) = Bytes(d, k, m)
  BY ToComeIs, Zenon
<1>2. Bytes(d, k, m) \in Seq(Byte)
  BY BytesIs
<1> QED BY <1>1, <1>2, Zenon DEF Stream

\* What is to come from each input of the list.
ToComes == [i \in DOMAIN inputs |-> ToCome(inputs[i])]

\* What remains is what is to come from all of them,
LEMMA RemainingIs == Remaining = FlattenSeq(ToComes)
BY DEF Remaining, ToComes

\* A function on the first numbers is a sequence.
LEMMA FunIsSeq ==
  ASSUME NEW T, NEW n \in Nat, NEW f, f = [i \in 1 .. n |-> f[i]], \A i \in 1 .. n : f[i] \in T
  PROVE  f \in Seq(T) /\ Len(f) = n
<1>1. [i \in 1 .. n |-> f[i]] \in Seq(T) /\ Len([i \in 1 .. n |-> f[i]]) = n
  OBVIOUS
<1> QED BY <1>1, Zenon

\* input by input.
LEMMA ToComesIs ==
  ASSUME PumpInv, ReadInPlace, KeptLengths, NEW n \in Nat, Len(inputs) = n
  PROVE  /\ ToComes \in Seq(Stream) /\ Len(ToComes) = n /\ DOMAIN inputs = 1 .. n
         /\ \A i \in 1 .. n : ToComes[i] = ToCome(inputs[i])
<1>1. DOMAIN inputs = 1 .. n
  BY DEF PumpInv, TypeOK
<1>2. \A i \in 1 .. n : ToComes[i] = ToCome(inputs[i]) /\ ToCome(inputs[i]) \in Stream
  BY <1>1, ToComeType DEF ToComes
<1>3. ToComes = [i \in 1 .. n |-> ToComes[i]]
  BY <1>1, <1>2 DEF ToComes
<1>4. ToComes \in Seq(Stream) /\ Len(ToComes) = n
  BY <1>2, <1>3, FunIsSeq
<1> QED BY <1>1, <1>2, <1>4

\* What remains is a stream.
LEMMA RemainingType ==
  PumpInv /\ ReadInPlace /\ KeptLengths => Remaining \in Stream
<1> SUFFICES ASSUME PumpInv, ReadInPlace, KeptLengths PROVE Remaining \in Stream
  OBVIOUS
<1>1. PICK n \in Nat : Len(inputs) = n
  BY DEF PumpInv, TypeOK
<1>2. ToComes \in Seq(Stream)
  BY <1>1, ToComesIs
<1> QED BY <1>2, StreamIs, FlatType, RemainingIs

\* What is to come after the head.
Rest(r, n) ==
  /\ r \in Seq(Stream) /\ Len(inputs) = n + 1 /\ Len(r) = n
  /\ \A k \in 1 .. n : r[k] = ToCome(inputs[k + 1])

\* What remains is what is to come from the head, and the rest.
LEMMA RestIs ==
  ASSUME PumpInv, ReadInPlace, KeptLengths, inputs # <<>>
  PROVE  \E n \in Nat, r \in Seq(Stream) :
           /\ Rest(r, n) /\ FlattenSeq(r) \in Stream /\ ToCome(Head1) \in Stream
           /\ Remaining = Cat(ToCome(Head1), FlattenSeq(r))
<1>1. inputs \in Seq(InputType)
  BY SMTT(30) DEF PumpInv, TypeOK
<1>2. PICK n \in Nat : Len(inputs) = n + 1
  <2>1. Len(inputs) \in Nat /\ Len(inputs) # 0
    BY <1>1
  <2>2. Len(inputs) - 1 \in Nat /\ Len(inputs) = (Len(inputs) - 1) + 1
    BY <2>1
  <2> QED BY <2>2
<1>3. /\ ToComes \in Seq(Stream) /\ Len(ToComes) = n + 1
      /\ \A i \in 1 .. n + 1 : ToComes[i] = ToCome(inputs[i]) /\ ToCome(inputs[i]) \in Stream
  <2>1. PICK l \in Nat : l = n + 1
    OBVIOUS
  <2>2. /\ ToComes \in Seq(Stream) /\ Len(ToComes) = l /\ DOMAIN inputs = 1 .. l
        /\ \A i \in 1 .. l : ToComes[i] = ToCome(inputs[i])
    BY <1>2, <2>1, ToComesIs
  <2>3. \A i \in 1 .. l : ToCome(inputs[i]) \in Stream
    BY <2>2, ToComeType
  <2> QED BY <2>1, <2>2, <2>3, Zenon
<1>4. PICK r : r = [k \in 1 .. n |-> ToCome(inputs[k + 1])]
  OBVIOUS
<1>5. \A k \in 1 .. n : k + 1 \in 1 .. n + 1 /\ r[k] = ToCome(inputs[k + 1])
  BY <1>4
<1>6. r \in Seq(Stream) /\ Len(r) = n
  <2>1. r = [k \in 1 .. n |-> r[k]]
    BY <1>4
  <2>2. \A k \in 1 .. n : r[k] \in Stream
    BY <1>3, <1>5
  <2> QED BY <2>1, <2>2, FunIsSeq
<1>7. Rest(r, n)
  BY <1>2, <1>5, <1>6 DEF Rest
<1>8. FlattenSeq(ToComes) = Cat(ToCome(Head1), FlattenSeq(r)) /\ ToCome(Head1) \in Stream
  <2>1. PICK c : c = ToComes /\ c \in Seq(Stream) /\ Len(c) = n + 1
    BY <1>3
  <2>2. PICK s \in Stream : s = ToCome(Head1) /\ c[1] = s
    BY <1>3, <2>1 DEF Head1
  <2>3. \A k \in 1 .. n : r[k] = c[k + 1]
    BY <1>3, <1>5, <2>1
  <2>4. FlattenSeq(c) = Cat(s, FlattenSeq(r))
    BY <1>6, <2>1, <2>2, <2>3, StreamIs, FlatHead
  <2> QED BY <2>1, <2>2, <2>4
<1>9. FlattenSeq(r) \in Stream
  BY <1>6, StreamIs, FlatType
<1> QED BY <1>6, <1>7, <1>8, <1>9, RemainingIs

\* The list of the next state, input by input.
LEMMA NextRemaining ==
  ASSUME NEW n \in Nat, NEW r \in Seq(Stream), Len(r) = n, DOMAIN inputs' = 1 .. n,
         \A i \in 1 .. n : ToCome(inputs[i])' = r[i]
  PROVE  Remaining' = FlattenSeq(r)
<1>1. ToComes' = [i \in 1 .. n |-> r[i]]
  BY DEF ToComes
<1>2. [i \in 1 .. n |-> r[i]] = r
  OBVIOUS
<1>3. ToComes' = r
  BY <1>1, <1>2
<1>4. Remaining' = FlattenSeq(ToComes')
  BY DEF Remaining, ToComes
<1> QED BY <1>3, <1>4

\* What is to come does not depend on the mode, nor on the mapping.
LEMMA SameToCome ==
  ASSUME NEW i, NEW j, given' = given,
         inputs'[i].id = inputs[j].id, inputs'[i].kind = inputs[j].kind,
         inputs'[i].base = inputs[j].base, inputs'[i].len = inputs[j].len,
         inputs'[i].pos = inputs[j].pos
  PROVE  ToCome(inputs[i])' = ToCome(inputs[j])
BY DEF ToCome, Source

\* free_input() leaves the rest.
LEMMA RestFrees ==
  ASSUME NEW n \in Nat, NEW r \in Seq(Stream), Rest(r, n), Frees, given' = given
  PROVE  Remaining' = FlattenSeq(r)
<1>1. /\ Len(r) = n /\ Len(inputs) - 1 = n /\ DOMAIN inputs' = 1 .. n
      /\ \A k \in 1 .. n : r[k] = ToCome(inputs[k + 1])
  BY DEF Rest, Frees
<1>2. ASSUME NEW i \in 1 .. n PROVE ToCome(inputs[i])' = r[i]
  <2>1. ToCome(inputs[i])' = ToCome(inputs[i + 1])
    <3>1. PICK j : j = i + 1
      OBVIOUS
    <3>2. /\ inputs'[i].id = inputs[j].id /\ inputs'[i].kind = inputs[j].kind
          /\ inputs'[i].base = inputs[j].base /\ inputs'[i].len = inputs[j].len
          /\ inputs'[i].pos = inputs[j].pos
      BY <1>1, <3>1 DEF Frees
    <3>3. ToCome(inputs[i])' = ToCome(inputs[j])
      BY <3>2, SameToCome
    <3> QED BY <3>1, <3>3
  <2> QED BY <1>1, <2>1
<1> QED BY <1>1, <1>2, NextRemaining

\* A list with another first element.
LEMMA ConsRemaining ==
  ASSUME NEW n \in Nat, NEW r \in Seq(Stream), Len(r) = n, NEW s \in Stream,
         DOMAIN inputs' = 1 .. n + 1, ToCome(inputs[1])' = s,
         \A k \in 1 .. n : ToCome(inputs[k + 1])' = r[k]
  PROVE  Remaining' = Cat(s, FlattenSeq(r))
<1>1. PICK q \in Seq(Stream), l \in Nat :
        /\ l = n + 1 /\ Len(q) = n + 1 /\ q[1] = s /\ \A k \in 1 .. n : q[k + 1] = r[k]
  <2>1. /\ <<s>> \o r \in Seq(Stream) /\ Len(<<s>> \o r) = n + 1
        /\ (<<s>> \o r)[1] = s
        /\ \A i \in 1 .. n : (<<s>> \o r)[i + 1] = r[i]
    BY ConsIs
  <2>2. n + 1 \in Nat
    OBVIOUS
  <2> QED BY <2>1, <2>2, Zenon
<1>2. ASSUME NEW i \in 1 .. l PROVE ToCome(inputs[i])' = q[i]
  <2>1. CASE i = 1
    BY <1>1, <2>1
  <2>2. CASE i # 1
    <3>1. PICK k \in 1 .. n : i = k + 1
      <4>1. i - 1 \in 1 .. n /\ i = (i - 1) + 1
        BY <1>1, <2>2
      <4> QED BY <4>1
    <3> QED BY <1>1, <3>1
  <2> QED BY <2>1, <2>2
<1>3. Remaining' = FlattenSeq(q)
  BY <1>1, <1>2, NextRemaining
<1>4. FlattenSeq(q) = Cat(s, FlattenSeq(r))
  <2>1. \A k \in 1 .. n : r[k] = q[k + 1]
    BY <1>1
  <2> QED BY <1>1, <2>1, StreamIs, FlatHead
<1> QED BY <1>3, <1>4

\* Another head comes before the rest.
LEMMA RestHeads ==
  ASSUME NEW n \in Nat, NEW r \in Seq(Stream), Rest(r, n), NEW h, Heads(h), given' = given,
         NEW s \in Stream, ToCome(h) = s
  PROVE  Remaining' = Cat(s, FlattenSeq(r))
<1>1. /\ Len(r) = n /\ Len(inputs) = n + 1 /\ DOMAIN inputs' = 1 .. n + 1 /\ inputs'[1] = h
      /\ \A k \in 1 .. n : r[k] = ToCome(inputs[k + 1])
      /\ \A i \in 2 .. n + 1 : inputs'[i] = inputs[i]
  BY DEF Rest, Heads
<1>2. ToCome(inputs[1])' = s
  BY <1>1 DEF ToCome, Source
<1>3. ASSUME NEW k \in 1 .. n PROVE ToCome(inputs[k + 1])' = r[k]
  <2>1. inputs'[k + 1] = inputs[k + 1]
    BY <1>1
  <2>2. ToCome(inputs[k + 1])' = ToCome(inputs[k + 1])
    BY <2>1, SameToCome
  <2> QED BY <1>1, <2>2
<1> QED BY <1>1, <1>2, <1>3, ConsRemaining

\* So do a string and the head after it.
LEMMA RestPushes ==
  ASSUME NEW n \in Nat, NEW r \in Seq(Stream), Rest(r, n), NEW a, NEW h, Pushes(a, h),
         given' = given, NEW p \in Stream, ToCome(a) = p, NEW q \in Stream, ToCome(h) = q
  PROVE  Remaining' = Cat(p, Cat(q, FlattenSeq(r)))
<1>1. /\ Len(r) = n /\ Len(inputs) = n + 1 /\ DOMAIN inputs' = 1 .. (n + 1) + 1
      /\ inputs'[1] = a /\ inputs'[2] = h
      /\ \A k \in 1 .. n : r[k] = ToCome(inputs[k + 1])
      /\ \A i \in 2 .. n + 1 : inputs'[i + 1] = inputs[i]
  BY DEF Rest, Pushes
<1>2. PICK u \in Seq(Stream), l \in Nat :
        /\ l = n + 1 /\ Len(u) = n + 1 /\ u[1] = q /\ \A k \in 1 .. n : u[k + 1] = r[k]
  <2>1. /\ <<q>> \o r \in Seq(Stream) /\ Len(<<q>> \o r) = n + 1
        /\ (<<q>> \o r)[1] = q
        /\ \A i \in 1 .. n : (<<q>> \o r)[i + 1] = r[i]
    BY <1>1, ConsIs
  <2>2. n + 1 \in Nat
    OBVIOUS
  <2> QED BY <2>1, <2>2, Zenon
<1>3. ToCome(inputs[1])' = p /\ ToCome(inputs[2])' = q
  BY <1>1 DEF ToCome, Source
<1>4. ASSUME NEW k \in 1 .. l PROVE ToCome(inputs[k + 1])' = u[k]
  <2>1. CASE k = 1
    BY <1>2, <1>3, <2>1
  <2>2. CASE k # 1
    <3>1. PICK j \in 1 .. n : k = j + 1
      <4>1. k - 1 \in 1 .. n /\ k = (k - 1) + 1
        BY <1>2, <2>2
      <4> QED BY <4>1
    <3>2. inputs'[k + 1] = inputs[k]
      BY <1>1, <1>2, <2>2
    <3>3. ToCome(inputs[k + 1])' = ToCome(inputs[k])
      BY <3>2, SameToCome
    <3> QED BY <1>1, <1>2, <3>1, <3>3
  <2> QED BY <2>1, <2>2
<1>5. Remaining' = Cat(p, FlattenSeq(u))
  BY <1>1, <1>2, <1>3, <1>4, ConsRemaining
<1>6. FlattenSeq(u) = Cat(q, FlattenSeq(r))
  <2>1. \A k \in 1 .. n : r[k] = u[k + 1]
    BY <1>2
  <2> QED BY <1>1, <1>2, <2>1, StreamIs, FlatHead
<1> QED BY <1>5, <1>6

\* One more sequence of bytes comes last.
LEMMA StreamMore ==
  ASSUME NEW c \in Seq(Stream), NEW f \in Seq(Stream), NEW s \in Stream, NEW m \in Nat,
         Len(c) = m, Len(f) = m + 1, \A i \in 1 .. m : f[i] = c[i], f[m + 1] = s
  PROVE  FlattenSeq(f) = Cat(FlattenSeq(c), s)
BY StreamIs, FlatMore

\* What is wanted of an input that was given.
LEMMA GivenBytes ==
  ASSUME TypeOK, NEW i \in DOMAIN given PROVE Bytes(i, 0, Wanted(given[i])) \in Stream
<1>1. given[i].size \in Nat /\ given[i].limit \in Nat \cup {-1} /\ i \in Nat /\ 0 \in Nat
  BY GivenIn
<1>2. PICK w \in Nat : w = Wanted(given[i])
  BY <1>1 DEF Wanted, MinOf
<1>3. Bytes(i, 0, w) \in Seq(Byte)
  BY <1>1, BytesIs, Zenon
<1> QED BY <1>2, <1>3, Zenon DEF Stream

\* What the caller expects is a stream.
LEMMA ExpectedType == PumpInv => Expected \in Stream
<1> SUFFICES ASSUME PumpInv PROVE Expected \in Stream
  OBVIOUS
<1>1. given \in Seq(Offers)
  BY DEF PumpInv, TypeOK
<1>2. PICK n \in Nat : n = Len(given) /\ DOMAIN given = 1 .. n
  BY <1>1
<1>3. \A i \in 1 .. n : Bytes(i, 0, Wanted(given[i])) \in Stream
  BY <1>2, GivenBytes DEF PumpInv
<1>4. PICK f : f = [i \in 1 .. n |-> Bytes(i, 0, Wanted(given[i]))]
  OBVIOUS
<1>5. f \in Seq(Stream)
  <2>1. f = [i \in 1 .. n |-> f[i]] /\ \A i \in 1 .. n : f[i] \in Stream
    BY <1>3, <1>4
  <2> QED BY <2>1, FunIsSeq
<1>6. Expected = FlattenSeq(f)
  BY <1>2, <1>4 DEF Expected
<1> QED BY <1>5, <1>6, StreamIs, FlatType

\* The input added comes last, in the list and in what is expected.
LEMMA AddInputGives ==
  ASSUME PumpInv, ReadInPlace, KeptLengths, NEW o \in Offers, AddInput(o)
  PROVE  \E s \in Stream :
           Remaining' = Cat(Remaining, s) /\ Expected' = Cat(Expected, s)
<1>1. given \in Seq(Offers) /\ inputs \in Seq(InputType)
  BY DEF PumpInv, TypeOK
<1>2. PICK n \in Nat, m \in Nat :
        n = Len(given) /\ m = Len(inputs) /\ DOMAIN given = 1 .. n /\ DOMAIN inputs = 1 .. m
  BY <1>1
<1>3. /\ o.size \in Nat /\ o.limit \in Nat \cup {-1} /\ o.kind \in Kinds
  BY OffersAssumption
<1>4. PICK w \in Nat : w = Wanted(o)
  BY <1>3 DEF Wanted, MinOf
<1>5. PICK d \in Nat : d = n + 1
  BY <1>2
<1>6. PICK s \in Stream : s = Bytes(d, 0, w)
  <2>1. Bytes(d, 0, w) \in Seq(Byte)
    BY BytesIs
  <2> QED BY <2>1, Zenon DEF Stream
<1>7. PICK h \in InputType : h = NewInput(o) /\ h.id = d /\ h.kind = o.kind /\ h.base = 0
        /\ h.pos = 0 /\ h.len = (IF o.kind \in {"str", "mmap"} THEN o.size ELSE o.limit)
  <2>1. MinOf(o.size, MaxMmap) \in Nat
    BY <1>3, BoundsAssumption DEF MinOf
  <2>2. PICK h : h = NewInput(o)
    OBVIOUS
  <2>3. /\ h \in InputType /\ h.id = d /\ h.kind = o.kind /\ h.base = 0 /\ h.pos = 0
        /\ h.len = (IF o.kind \in {"str", "mmap"} THEN o.size ELSE o.limit)
    BY <1>2, <1>3, <1>5, <2>1, <2>2 DEF NewInput, InputType, Kinds
  <2> QED BY <2>2, <2>3
<1>8. given' = Append(given, o) /\ inputs' = Append(inputs, h)
  BY <1>7 DEF AddInput
<1>9. /\ DOMAIN given' = 1 .. n + 1 /\ \A k \in 1 .. n : given'[k] = given[k]
      /\ given'[d] = o
  BY <1>1, <1>2, <1>5, <1>8, AppendIs
<1>10. /\ DOMAIN inputs' = 1 .. m + 1 /\ \A k \in 1 .. m : inputs'[k] = inputs[k]
       /\ inputs'[m + 1] = h
  BY <1>1, <1>2, <1>8, AppendIs
<1>11. ToCome(inputs[m + 1])' = s
  <2>1. ToCome(h)' = Bytes(d, 0, (IF h.kind \in {"str", "mmap"} THEN h.len ELSE w))
    <3>1. given'[h.id] = o /\ h.base + h.pos = 0
      BY <1>7, <1>9
    <3>2. \A x \in Nat : x - 0 = x
      OBVIOUS
    <3>3. CASE h.kind \in {"str", "mmap"}
      <4>1. h.len \in Nat
        BY <1>3, <1>7, <3>3
      <4> QED BY <1>7, <3>1, <3>3, <4>1 DEF ToCome, Source
    <3>4. CASE h.kind \notin {"str", "mmap"}
      BY <1>4, <1>7, <3>1, <3>4 DEF ToCome, Source
    <3> QED BY <3>3, <3>4
  <2>2. h.kind \in {"str", "mmap"} => h.len = w
    <3>1. o.kind \in {"str", "mmap"} => Wanted(o) = o.size
      BY <1>3 DEF Wanted, MinOf, KeptLengths
    <3> QED BY <1>4, <1>7, <3>1
  <2>3. ToCome(inputs[m + 1])' = ToCome(h)'
    BY <1>10 DEF ToCome, Source
  <2> QED BY <1>6, <2>1, <2>2, <2>3
<1>12. Remaining' = Cat(Remaining, s)
  <2>1. PICK c : /\ c = ToComes /\ c \in Seq(Stream) /\ Len(c) = m
                 /\ \A i \in 1 .. m : c[i] = ToCome(inputs[i])
    BY <1>2, ToComesIs
  <2>2. PICK f : f = [i \in 1 .. m + 1 |-> IF i = m + 1 THEN s ELSE c[i]]
    OBVIOUS
  <2>3. \A i \in 1 .. m + 1 : f[i] \in Stream
    <3>1. \A i \in 1 .. m : c[i] \in Stream
      BY <2>1
    <3>2. \A i \in 1 .. m + 1 : i = m + 1 \/ i \in 1 .. m
      OBVIOUS
    <3> QED BY <2>2, <3>1, <3>2
  <2>4. PICK l \in Nat : l = m + 1
    OBVIOUS
  <2>5. f \in Seq(Stream) /\ Len(f) = l
    <3>1. f = [i \in 1 .. l |-> f[i]]
      BY <2>2, <2>4
    <3> QED BY <2>3, <2>4, <3>1, FunIsSeq
  <2>6. f[m + 1] = s /\ \A i \in 1 .. m : f[i] = c[i]
    BY <2>2
  <2>7. ASSUME NEW i \in 1 .. l PROVE ToCome(inputs[i])' = f[i]
    <3>1. CASE i = m + 1
      BY <1>11, <2>6, <3>1
    <3>2. CASE i \in 1 .. m
      <4>1. PICK g : g = inputs[i] /\ inputs'[i] = g
        BY <1>10, <3>2
      <4>2. g.id \in 1 .. n
        BY <1>2, <3>2, <4>1 DEF PumpInv, TypeOK
      <4>3. given'[g.id] = given[g.id]
        BY <1>9, <4>2
      <4>4. ToCome(g)' = ToCome(g)
        BY <4>3 DEF ToCome, Source
      <4>5. ToCome(inputs[i])' = ToCome(g)'
        BY <4>1 DEF ToCome, Source
      <4> QED BY <2>1, <2>6, <3>2, <4>1, <4>4, <4>5
    <3> QED BY <2>4, <3>1, <3>2
  <2>8. Remaining' = FlattenSeq(f)
    BY <1>10, <2>4, <2>5, <2>7, NextRemaining
  <2>9. FlattenSeq(f) = Cat(FlattenSeq(c), s)
    <3>1. c \in Seq(Stream) /\ Len(c) = m
      BY <2>1
    <3> QED BY <2>4, <2>5, <2>6, <3>1, StreamMore
  <2> QED BY <2>1, <2>8, <2>9, RemainingIs
<1>13. Expected' = Cat(Expected, s)
  <2>1. PICK c : c = [i \in 1 .. n |-> Bytes(i, 0, Wanted(given[i]))]
    OBVIOUS
  <2>2. PICK f : f = [i \in 1 .. n + 1 |-> Bytes(i, 0, Wanted(given'[i]))]
    OBVIOUS
  <2>3. f[n + 1] = s /\ \A i \in 1 .. n : f[i] = c[i]
    <3>1. f[n + 1] = Bytes(n + 1, 0, Wanted(given'[n + 1]))
      BY <2>2
    <3> QED BY <1>4, <1>5, <1>6, <1>9, <2>1, <2>2, <3>1
  <2>4. \A i \in 1 .. n : c[i] \in Stream
    <3>1. \A i \in 1 .. n : Bytes(i, 0, Wanted(given[i])) \in Stream
      BY <1>2, GivenBytes DEF PumpInv
    <3> QED BY <2>1, <3>1
  <2>5. c \in Seq(Stream) /\ Len(c) = n
    <3>1. c = [i \in 1 .. n |-> c[i]]
      BY <2>1
    <3> QED BY <2>4, <3>1, FunIsSeq
  <2>6. PICK l \in Nat : l = n + 1
    OBVIOUS
  <2>7. f \in Seq(Stream) /\ Len(f) = l
    <3>1. f = [i \in 1 .. l |-> f[i]]
      BY <2>2, <2>6
    <3>2. \A i \in 1 .. l : i = n + 1 \/ i \in 1 .. n
      BY <2>6
    <3>3. \A i \in 1 .. l : f[i] \in Stream
      BY <2>3, <2>4, <3>2
    <3> QED BY <3>1, <3>3, FunIsSeq
  <2>8. FlattenSeq(f) = Cat(FlattenSeq(c), s)
    BY <2>3, <2>5, <2>6, <2>7, StreamMore
  <2>9. Expected' = FlattenSeq(f)
    BY <1>9, <2>2 DEF Expected
  <2>10. Expected = FlattenSeq(c)
    BY <1>2, <2>1 DEF Expected
  <2> QED BY <2>8, <2>9, <2>10
<1> QED BY <1>12, <1>13

\* An input that is read in place.
Placed(h) ==
  /\ h.kind = "obj" => h.off = h.pos /\ h.len = Source(h).limit
  /\ h.kind = "block" => Source(h).kind = "block"
AllPlaced == \A i \in DOMAIN inputs : Placed(inputs[i])

LEMMA InPlaceIs == ReadInPlace <=> pc # "read" /\ AllPlaced
BY DEF ReadInPlace, AllPlaced, Placed

\* free_input() keeps the positions of the inputs that follow.
LEMMA FreesPlaced ==
  ASSUME ListOK, AllPlaced, Frees, UNCHANGED given PROVE AllPlaced'
<1>1. /\ DOMAIN inputs = 1 .. Len(inputs) /\ DOMAIN inputs' = 1 .. Len(inputs) - 1
      /\ Len(inputs) \in Nat \ {0}
  BY DEF ListOK, Frees
<1>2. ASSUME NEW i \in 1 .. Len(inputs) - 1 PROVE Placed(inputs[i])'
  <2>1. PICK j \in DOMAIN inputs :
          /\ inputs'[i].id = inputs[j].id /\ inputs'[i].kind = inputs[j].kind
          /\ inputs'[i].len = inputs[j].len
          /\ inputs'[i].pos = inputs[j].pos /\ inputs'[i].off = inputs[j].off
    <3>1. i + 1 \in DOMAIN inputs
      BY <1>1
    <3> QED BY <1>1, <3>1 DEF Frees
  <2>2. Placed(inputs[j])
    BY DEF AllPlaced
  <2> QED BY <2>1, <2>2 DEF Placed, Source
<1> QED BY <1>1, <1>2 DEF AllPlaced

\* Another head in place of the first input.
LEMMA HeadsPlaced ==
  ASSUME ListOK, AllPlaced, NEW h \in InputType, Heads(h), UNCHANGED given, Placed(h)
  PROVE  AllPlaced'
<1>1. /\ DOMAIN inputs = 1 .. Len(inputs) /\ DOMAIN inputs' = 1 .. Len(inputs)
      /\ Len(inputs) \in Nat \ {0}
  BY DEF ListOK, Heads
<1>2. ASSUME NEW i \in 1 .. Len(inputs) PROVE Placed(inputs[i])'
  <2>1. CASE i = 1
    <3>1. inputs'[i] = h
      BY <2>1 DEF Heads
    <3> QED BY <3>1 DEF Placed, Source
  <2>2. CASE i # 1
    <3>1. i \in DOMAIN inputs /\ inputs'[i] = inputs[i]
      BY <1>1, <2>2 DEF Heads
    <3>2. Placed(inputs[i])
      BY <3>1 DEF AllPlaced
    <3> QED BY <3>1, <3>2 DEF Placed, Source
  <2> QED BY <2>1, <2>2
<1> QED BY <1>1, <1>2 DEF AllPlaced

\* A string and a blocking object in front.
LEMMA PushesPlaced ==
  ASSUME ListOK, AllPlaced, NEW s, NEW h, Pushes(s, h), UNCHANGED given,
         s.kind = "str", h.kind = "block", Source(h).kind = "block"
  PROVE  AllPlaced'
<1>1. /\ DOMAIN inputs = 1 .. Len(inputs) /\ DOMAIN inputs' = 1 .. Len(inputs) + 1
      /\ Len(inputs) \in Nat \ {0}
  BY DEF ListOK, Pushes
<1>2. ASSUME NEW i \in 1 .. Len(inputs) + 1 PROVE Placed(inputs[i])'
  <2>1. CASE i = 1 \/ i = 2
    <3>1. inputs'[i] \in {s, h}
      BY <2>1 DEF Pushes
    <3> QED BY <3>1 DEF Placed, Source
  <2>2. CASE i # 1 /\ i # 2
    <3>1. PICK j \in DOMAIN inputs : inputs'[i] = inputs[j]
      <4>1. i - 1 \in 2 .. Len(inputs) /\ i = (i - 1) + 1 /\ i - 1 \in DOMAIN inputs
        BY <1>1, <2>2
      <4>2. inputs'[(i - 1) + 1] = inputs[i - 1]
        BY <4>1 DEF Pushes
      <4> QED BY <4>1, <4>2
    <3>2. Placed(inputs[j])
      BY DEF AllPlaced
    <3> QED BY <3>1, <3>2 DEF Placed, Source
  <2> QED BY <2>1, <2>2
<1> QED BY <1>1, <1>2 DEF AllPlaced

\* A new object starts at its beginning.
LEMMA AddInputPlaced ==
  ASSUME PumpInv, AllPlaced, NEW o \in Offers, AddInput(o) PROVE AllPlaced'
<1>1. given \in Seq(Offers) /\ inputs \in Seq(InputType)
  BY DEF PumpInv, TypeOK
<1>2. PICK n \in Nat, m \in Nat :
        n = Len(given) /\ m = Len(inputs) /\ DOMAIN given = 1 .. n /\ DOMAIN inputs = 1 .. m
  BY <1>1
<1>3. PICK d \in Nat : d = n + 1
  BY <1>2
<1>4. PICK h : h = NewInput(o)
  OBVIOUS
<1>5. /\ h.id = d /\ h.kind = o.kind /\ h.pos = 0 /\ h.off = 0
      /\ h.kind = "obj" => h.len = o.limit
  BY <1>2, <1>3, <1>4 DEF NewInput
<1>6. given' = Append(given, o) /\ inputs' = Append(inputs, h)
  BY <1>4 DEF AddInput
<1>7. /\ DOMAIN given' = 1 .. n + 1 /\ \A k \in 1 .. n : given'[k] = given[k]
      /\ given'[d] = o
  BY <1>1, <1>2, <1>3, <1>6, AppendIs
<1>8. /\ DOMAIN inputs' = 1 .. m + 1 /\ \A k \in 1 .. m : inputs'[k] = inputs[k]
      /\ inputs'[m + 1] = h
  <2>1. h \in InputType
    <3>1. MinOf(o.size, MaxMmap) \in Nat /\ o.size \in Nat /\ o.limit \in Nat \cup {-1}
          /\ o.kind \in Kinds
      BY OffersAssumption, BoundsAssumption DEF MinOf
    <3> QED BY <1>2, <1>4, <3>1 DEF NewInput, InputType, Kinds
  <2> QED BY <1>1, <1>2, <1>6, <2>1, AppendIs
<1>9. ASSUME NEW i \in 1 .. m + 1 PROVE Placed(inputs[i])'
  <2>1. CASE i = m + 1
    BY <1>5, <1>7, <1>8, <2>1 DEF Placed, Source
  <2>2. CASE i \in 1 .. m
    <3>1. inputs'[i] = inputs[i] /\ inputs[i].id \in 1 .. n
      BY <1>2, <1>8, <2>2 DEF PumpInv, TypeOK
    <3>2. Placed(inputs[i])
      BY <1>2, <2>2 DEF AllPlaced
    <3> QED BY <1>7, <3>1, <3>2 DEF Placed, Source
  <2> QED BY <2>1, <2>2
<1> QED BY <1>8, <1>9 DEF AllPlaced

\* An empty list reads nothing.
LEMMA NonePlaced == ASSUME inputs' = <<>> PROVE AllPlaced'
BY DEF AllPlaced

\* A write from the head leaves the objects alone.
LEMMA AdvancePlaced ==
  ASSUME ListOK, AllPlaced, inputs # <<>>, NEW h \in InputType, NEW n \in Nat,
         Advance(h, n), h.kind \in {"str", "mmap"}, UNCHANGED given
  PROVE  AllPlaced'
<1>1. CASE Finish
  BY <1>1, NonePlaced DEF Finish
<1>2. CASE Frees
  BY <1>2, FreesPlaced
<1>3. ASSUME NEW g \in InputType, g = [h EXCEPT !.pos = h.pos + n], Heads(g)
      PROVE  AllPlaced'
  <2>1. g.kind \in {"str", "mmap"}
    BY <1>3 DEF InputType
  <2>2. Placed(g)
    BY <2>1 DEF Placed
  <2> QED BY <1>3, <2>2, HeadsPlaced
<1> QED BY <1>1, <1>2, <1>3, AdvanceDoes

\* The callbacks of an input leave it read in place.
LEMMA InputReadPlaced ==
  ASSUME PumpInv, AllPlaced, NEW n, InputRead(n) PROVE AllPlaced'
<1>1. ListOK /\ given' = given
  BY PumpIs DEF InputRead, InputReadInto
<1>2. CASE Frees
  BY <1>1, <1>2, FreesPlaced
<1>3. ASSUME NEW h \in InputType, Heads(h), inputs # <<>>, Head1.kind = "obj",
             h.id = Head1.id, h.kind = "obj", h.len = Head1.len, h.pos = Head1.pos + n,
             h.off = Head1.off + n
      PROVE  AllPlaced'
  <2>1. PICK g : g = Head1 /\ g = inputs[1] /\ 1 \in DOMAIN inputs
    BY <1>1, <1>3, HeadIn DEF Head1
  <2>2. g.off = g.pos /\ g.len = Source(g).limit
    BY <1>3, <2>1 DEF AllPlaced, Placed
  <2>3. Placed(h)
    BY <1>3, <2>1, <2>2 DEF Placed, Source
  <2> QED BY <1>1, <1>3, <2>3, HeadsPlaced
<1> QED BY <1>2, <1>3, InputReadDoes

\* As long as no mapping fails, nothing is read from a descriptor.
LEMMA NoFd ==
  ASSUME PumpInv, ReadInPlace, ~ RemapMayFail
  PROVE  ~ RemapFails /\ ~ ReadFd /\ ~ ReadFdFails /\ \A n : ~ WriteRead(n)
<1>1. ~ RemapFails /\ \A n : ~ WriteRead(n)
  BY DEF RemapFails, WriteRead, ReadInPlace
<1>2. ASSUME HeadIs("block") PROVE ~ HasFd
  <2>1. inputs # <<>> /\ Head1.kind = "block"
    BY <1>2 DEF HeadIs
  <2>2. 1 \in DOMAIN inputs /\ Head1 = inputs[1]
    BY <2>1, PumpIs, HeadIn DEF Head1
  <2> QED BY <2>1, <2>2 DEF ReadInPlace, HasFd
<1> QED BY <1>1, <1>2 DEF ReadFd, ReadFdFails

\* Every step leaves the inputs read in place, unless a mapping fails.
LEMMA PlacedStep ==
  ASSUME PumpInv, ReadInPlace, ~ RemapMayFail, [Next]_vars PROVE AllPlaced'
<1>1. ListOK /\ AllPlaced
  BY PumpIs, InPlaceIs
<1>2. CASE \E o \in Offers : AddInput(o)
  BY <1>1, <1>2, AddInputPlaced
<1>3. CASE \/ SetDoneCallback \/ Output \/ OutputReady \/ UNCHANGED vars
           \/ \E n : WriteBuffer(n)
  <2>1. UNCHANGED <<given, inputs>>
    BY <1>3 DEF SetDoneCallback, Output, OutputReady, vars, WriteBuffer
  <2> QED BY <1>1, <2>1 DEF AllPlaced, Placed, Source
<1>4. CASE NothingLeft \/ WriteFails \/ Destroy
  <2>1. inputs' = <<>>
    BY <1>4 DEF NothingLeft, WriteFails, Destroy, Finish
  <2> QED BY <2>1, NonePlaced
<1>5. CASE WaitForInput
  <2>1. inputs # <<>> /\ Head1.kind = "obj" /\ given' = given
    BY <1>5 DEF WaitForInput, HeadIs
  <2>2. PICK g \in InputType : g = Head1 /\ g = inputs[1] /\ 1 \in DOMAIN inputs
    BY <1>1, <2>1, HeadIn DEF Head1
  <2>3. PICK h \in InputType :
          /\ h = [g EXCEPT !.mode = "READING"]
          /\ h.id = g.id /\ h.kind = g.kind /\ h.len = g.len /\ h.pos = g.pos /\ h.off = g.off
    <3>1. [g EXCEPT !.mode = "READING"] \in InputType
      BY DEF InputType
    <3> QED BY <3>1 DEF InputType
  <2>4. Heads(h)
    <3>1. inputs' = SetHead(h)
      BY <1>5, <2>2, <2>3 DEF WaitForInput
    <3> QED BY <1>1, <2>1, <3>1, HeadDoes DEF ListOK
  <2>5. Placed(g)
    BY <1>1, <2>2 DEF AllPlaced
  <2>6. Placed(h)
    BY <2>3, <2>5 DEF Placed, Source
  <2> QED BY <1>1, <2>1, <2>4, <2>6, HeadsPlaced
<1>6. CASE \E n : WriteString(n)
  <2>1. PICK n : WriteString(n)
    BY <1>6
  <2>2. inputs # <<>> /\ Head1 \in InputType /\ Head1.kind = "str" /\ n \in Nat
    BY <2>1, StringWrites
  <2>3. Advance(Head1, n) /\ given' = given
    BY <2>1 DEF WriteString
  <2>4. Head1.kind \in {"str", "mmap"}
    BY <2>2
  <2> QED BY <1>1, <2>2, <2>3, <2>4, AdvancePlaced
<1>7. CASE \E n : WriteMmap(n)
  <2>1. PICK n : WriteMmap(n)
    BY <1>7
  <2>2. /\ inputs # <<>> /\ Head1 \in InputType /\ Head1.kind = "mmap"
        /\ \E mend \in Nat : n \in Nat /\ Advance([Head1 EXCEPT !.mend = mend], n)
    BY <2>1, MmapWrites
  <2>3. PICK mend \in Nat : n \in Nat /\ Advance([Head1 EXCEPT !.mend = mend], n)
    BY <2>2
  <2>4. PICK h \in InputType : h = [Head1 EXCEPT !.mend = mend] /\ h.kind = "mmap"
    <3>1. [Head1 EXCEPT !.mend = mend] \in InputType
      BY <2>2 DEF InputType
    <3> QED BY <2>2, <3>1 DEF InputType
  <2>5. given' = given /\ h.kind \in {"str", "mmap"}
    BY <2>1, <2>4 DEF WriteMmap
  <2>6. Advance(h, n)
    BY <2>3, <2>4
  <2> QED BY <1>1, <2>2, <2>3, <2>5, <2>6, AdvancePlaced
<1>8. CASE \E n : ReadBlocking(n)
  <2>1. PICK n : ReadBlocking(n)
    BY <1>8
  <2>2. PICK s \in InputType, h \in InputType :
          /\ Pushes(s, h) /\ s.kind = "str" /\ h.kind = "block"
          /\ h.id = Head1.id /\ Source(Head1).kind = "block"
    BY <2>1, ReadBlockingDoes
  <2>3. given' = given /\ Source(h).kind = "block"
    BY <2>1, <2>2 DEF ReadBlocking, Source
  <2> QED BY <1>1, <2>2, <2>3, PushesPlaced
<1>9. CASE BlockingDone \/ BlockingEof \/ InputClose
  <2>1. inputs # <<>> /\ given' = given
    BY <1>9 DEF BlockingDone, BlockingEof, BlockingAtEof, InputClose, Reading, HeadIs
  <2>2. inputs' = <<>> \/ inputs' = FreeHead
    BY <1>9 DEF BlockingDone, BlockingEof, InputClose, Finish
  <2>3. inputs' = FreeHead => Frees
    BY <1>1, <2>1, FreeDoes DEF ListOK
  <2> QED BY <1>1, <2>1, <2>2, <2>3, FreesPlaced, NonePlaced
<1>10. CASE \E n : InputRead(n)
  BY <1>1, <1>10, InputReadPlaced
<1> QED
  BY <1>2, <1>3, <1>4, <1>5, <1>6, <1>7, <1>8, <1>9, <1>10, NoFd
  DEF Next, WriteCallback, InputCallback

\* And no step reads from a descriptor.
LEMMA InPlaceStep ==
  ASSUME PumpInv, ReadInPlace, ~ RemapMayFail, [Next]_vars PROVE ReadInPlace'
<1>1. pc' # "read"
  <2>1. pc # "read"
    BY DEF ReadInPlace
  <2>2. pc' = pc \/ pc' \in {"event", "wcb", "head"}
    BY NoFd DEF Next, WriteCallback, InputCallback, WriteBuffer, NothingLeft,
       WaitForInput, WriteString, WriteMmap, ReadBlocking, BlockingDone, BlockingEof,
       InputRead, InputReadInto, InputClose, AddInput, SetDoneCallback, Output,
       OutputReady, Destroy, WriteFails, Finish, Rearm, Advance, vars
  <2> QED BY <2>1, <2>2
<1>2. AllPlaced'
  BY PlacedStep
<1> QED BY <1>1, <1>2 DEF ReadInPlace, AllPlaced, Placed

\* What is sent, buffered and still to come is what the caller queued.
Balance == Cat(Cat(sent, buf), Remaining) = Expected

\* No byte is lost: the balance holds until the pump finishes.
LEMMA ConservedIs == Conserved <=> (~ finished => Balance)
BY DEF Conserved, Balance, Cat

\* The three parts are sequences of bytes.
LEMMA PartsAre ==
  PumpInv /\ ReadInPlace /\ KeptLengths =>
    sent \in Stream /\ buf \in Stream /\ Remaining \in Stream
BY RemainingType DEF PumpInv, TypeOK, Stream

\* The same, for the steps to cite.
LEMMA PartsIn ==
  ASSUME PumpInv, ReadInPlace, KeptLengths
  PROVE  sent \in Stream /\ buf \in Stream /\ Remaining \in Stream
BY PartsAre

\* Nothing moves.
LEMMA SameBalance ==
  ASSUME Balance, UNCHANGED <<given, inputs, sent, buf>> PROVE Balance'
<1>1. Remaining' = Remaining
  BY DEF Remaining, ToCome, Source
<1>2. Expected' = Expected
  BY DEF Expected
<1> QED BY <1>1, <1>2 DEF Balance

\* What the caller expects depends on what it queued alone.
LEMMA SameExpected == ASSUME given' = given PROVE Expected' = Expected
BY DEF Expected

\* The caller queues one more input.
LEMMA AddInputBalance ==
  ASSUME PumpInv, ReadInPlace, KeptLengths, Balance, NEW o \in Offers, AddInput(o)
  PROVE  Balance'
<1>1. PICK s \in Stream : Remaining' = Cat(Remaining, s) /\ Expected' = Cat(Expected, s)
  BY AddInputGives
<1>2. sent' = sent /\ buf' = buf
  BY DEF AddInput, bufVars
<1>3. PICK a \in Stream, b \in Stream, c \in Stream : a = sent /\ b = buf /\ c = Remaining
  BY PartsIn
<1>4. Cat(Cat(a, b), Cat(c, s)) = Cat(Cat(Cat(a, b), c), s)
  BY StreamIs, CatIs
<1> QED BY <1>1, <1>2, <1>3, <1>4 DEF Balance

\* Bytes go from the front of the buffer to the output.
LEMMA WriteBufferBalance ==
  ASSUME PumpInv, ReadInPlace, KeptLengths, Balance, NEW n, WriteBuffer(n)
  PROVE  Balance'
<1>1. buf \in Seq(Byte) /\ n \in 0 .. Len(buf)
  BY DEF PumpInv, TypeOK, WriteBuffer, Wrote
<1>2. PICK p \in Stream, q \in Stream :
        p = SubSeq(buf, 1, n) /\ q = SubSeq(buf, n + 1, Len(buf)) /\ buf = Cat(p, q)
  <2>1. /\ SubSeq(buf, 1, n) \in Seq(Byte) /\ SubSeq(buf, n + 1, Len(buf)) \in Seq(Byte)
        /\ buf = Cat(SubSeq(buf, 1, n), SubSeq(buf, n + 1, Len(buf)))
    BY <1>1, SubSeqIs, SplitIs
  <2> QED BY <2>1, Zenon DEF Stream
<1>3. /\ sent' = Cat(sent, p) /\ buf' = q /\ Remaining' = Remaining /\ Expected' = Expected
  <2>1. sent' = Cat(sent, p) /\ buf' = q
    BY <1>2, Zenon DEF WriteBuffer, Wrote, Cat
  <2>2. UNCHANGED <<given, inputs>>
    BY DEF WriteBuffer
  <2> QED BY <2>1, <2>2, SameExpected DEF Remaining, ToCome, Source
<1>4. PICK a \in Stream, c \in Stream : a = sent /\ c = Remaining
  BY PartsIn
<1>5. Cat(Cat(a, p), q) = Cat(a, Cat(p, q))
  BY StreamIs, CatIs
<1> QED BY <1>2, <1>3, <1>4, <1>5 DEF Balance

\* The first bytes of the head go to the output, or to the end of the buffer.
LEMMA Moves ==
  ASSUME PumpInv, ReadInPlace, KeptLengths, Balance, inputs # <<>>, given' = given,
         NEW d \in Nat, NEW k \in Nat, NEW m \in Nat, ToCome(Head1) = Bytes(d, k, m),
         NEW n \in 0 .. m,
         \/ n = m /\ Frees
         \/ \E h : Heads(h) /\ ToCome(h) = Bytes(d, k + n, m - n),
         \/ buf = <<>> /\ buf' = buf /\ sent' = Cat(sent, Bytes(d, k, n))
         \/ buf' = Cat(buf, Bytes(d, k, n)) /\ sent' = sent
  PROVE  Balance'
<1>1. PICK p \in Stream, q \in Stream :
        /\ p = Bytes(d, k, n) /\ q = Bytes(d, k + n, m - n) /\ ToCome(Head1) = Cat(p, q)
        /\ n = m => q = <<>>
  <2>1. n \in Nat /\ k + n \in Nat /\ m - n \in Nat
    OBVIOUS
  <2>2. Bytes(d, k, n) \in Seq(Byte)
    BY <2>1, BytesIs
  <2>3. Bytes(d, k + n, m - n) \in Seq(Byte) /\ Len(Bytes(d, k + n, m - n)) = m - n
    BY <2>1, BytesIs
  <2>4. n = m => Bytes(d, k + n, m - n) = <<>>
    BY <2>1, <2>3
  <2>5. Bytes(d, k, m) = Cat(Bytes(d, k, n), Bytes(d, k + n, m - n))
    BY BytesSplit
  <2> QED BY <2>2, <2>3, <2>4, <2>5, Zenon DEF Stream
<1>2. PICK l \in Nat, r \in Seq(Stream), f \in Stream :
        /\ Rest(r, l) /\ f = FlattenSeq(r) /\ Remaining = Cat(ToCome(Head1), f)
  BY RestIs
<1>3. Remaining' = Cat(q, f)
  <2>1. CASE n = m /\ Frees
    <3>1. Remaining' = f
      BY <1>2, <2>1, RestFrees
    <3>2. Cat(<<>>, f) = f
      BY StreamIs, CatIs
    <3> QED BY <1>1, <2>1, <3>1, <3>2
  <2>2. ASSUME NEW h, Heads(h), ToCome(h) = q PROVE Remaining' = Cat(q, f)
    BY <1>2, <2>2, RestHeads
  <2> QED BY <1>1, <2>1, <2>2
<1>4. PICK a \in Stream, b \in Stream : a = sent /\ b = buf
  BY PartsIn
<1>5. Cat(Cat(a, b), Cat(Cat(p, q), f)) = Expected /\ Expected' = Expected
  BY <1>1, <1>2, <1>4, SameExpected DEF Balance
<1>6. CASE buf = <<>> /\ buf' = buf /\ sent' = Cat(sent, Bytes(d, k, n))
  <2>1. Cat(Cat(Cat(a, p), <<>>), Cat(q, f)) = Cat(Cat(a, <<>>), Cat(Cat(p, q), f))
    <3>1. Cat(Cat(a, p), <<>>) = Cat(a, p) /\ Cat(a, <<>>) = a /\ Cat(q, f) \in Stream
      BY StreamIs, CatIs
    <3>2. Cat(Cat(a, p), Cat(q, f)) = Cat(a, Cat(p, Cat(q, f)))
      BY <3>1, StreamIs, CatIs
    <3>3. Cat(p, Cat(q, f)) = Cat(Cat(p, q), f)
      BY StreamIs, CatIs
    <3> QED BY <3>1, <3>2, <3>3
  <2> QED BY <1>1, <1>3, <1>4, <1>5, <1>6, <2>1 DEF Balance
<1>7. CASE buf' = Cat(buf, Bytes(d, k, n)) /\ sent' = sent
  <2>1. Cat(Cat(a, Cat(b, p)), Cat(q, f)) = Cat(Cat(a, b), Cat(Cat(p, q), f))
    <3>1. Cat(a, Cat(b, p)) = Cat(Cat(a, b), p) /\ Cat(q, f) \in Stream /\ Cat(a, b) \in Stream
      BY StreamIs, CatIs
    <3>2. Cat(Cat(Cat(a, b), p), Cat(q, f)) = Cat(Cat(a, b), Cat(p, Cat(q, f)))
      BY <3>1, StreamIs, CatIs
    <3>3. Cat(p, Cat(q, f)) = Cat(Cat(p, q), f)
      BY StreamIs, CatIs
    <3> QED BY <3>1, <3>2, <3>3
  <2> QED BY <1>1, <1>3, <1>4, <1>5, <1>7, <2>1 DEF Balance
<1> QED BY <1>6, <1>7

\* A head from which nothing more comes is freed.
LEMMA SpentBalance ==
  ASSUME PumpInv, ReadInPlace, KeptLengths, Balance, inputs # <<>>, Frees,
         UNCHANGED <<given, sent, buf>>,
         NEW d \in Nat, NEW k \in Nat, ToCome(Head1) = Bytes(d, k, 0)
  PROVE  Balance'
<1>1. PICK m \in Nat : m = 0 /\ m \in 0 .. m
  OBVIOUS
<1>2. buf' = Cat(buf, Bytes(d, k, m)) /\ sent' = sent
  <2>1. Bytes(d, k, m) \in Seq(Byte) /\ Len(Bytes(d, k, m)) = 0
    BY <1>1, BytesIs
  <2>2. Bytes(d, k, m) = <<>>
    BY <2>1
  <2>3. Cat(buf, <<>>) = buf
    BY PartsIn, StreamIs, CatIs
  <2> QED BY <2>2, <2>3
<1>3. ToCome(Head1) = Bytes(d, k, m)
  BY <1>1
<1> QED BY <1>1, <1>2, <1>3, Moves

\* The non-blocking head gets its callbacks.
LEMMA WaitForInputBalance ==
  ASSUME PumpInv, ReadInPlace, KeptLengths, Balance, WaitForInput PROVE Balance'
<1>1. inputs # <<>> /\ UNCHANGED <<given, sent, buf>> /\ ListOK
  BY PumpIs DEF WaitForInput, HeadIs, bufVars
<1>2. PICK g \in InputType : g = Head1 /\ g = inputs[1] /\ 1 \in DOMAIN inputs
  BY <1>1, HeadIn DEF Head1
<1>3. PICK h \in InputType :
        /\ h = [g EXCEPT !.mode = "READING"]
        /\ h.id = g.id /\ h.len = g.len /\ h.pos = g.pos /\ h.base = g.base
        /\ h.kind = g.kind
  <2>1. [g EXCEPT !.mode = "READING"] \in InputType
    BY DEF InputType
  <2> QED BY <2>1 DEF InputType
<1>4. Heads(h)
  <2>1. inputs' = SetHead(h)
    BY <1>2, <1>3 DEF WaitForInput
  <2> QED BY <1>1, <2>1, HeadDoes DEF ListOK
<1>5. ToCome(h) = ToCome(Head1)
  BY <1>2, <1>3 DEF ToCome, Source
<1>6. PICK l \in Nat, r \in Seq(Stream), s \in Stream :
        /\ Rest(r, l) /\ s = ToCome(Head1) /\ Remaining = Cat(s, FlattenSeq(r))
  BY <1>1, RestIs
<1>7. Remaining' = Cat(s, FlattenSeq(r))
  BY <1>1, <1>4, <1>5, <1>6, RestHeads
<1> QED BY <1>1, <1>6, <1>7, SameExpected DEF Balance

\* finished() frees the last input, too.
LEMMA LastFrees ==
  ASSUME inputs \in Seq(InputType), Len(inputs) = 1, Finish PROVE Frees
<1>1. inputs' = <<>> /\ Len(<<>>) = 0 /\ <<>> \in Seq(InputType)
  BY DEF Finish
<1>2. Len(inputs) - 1 = 0 /\ ~ (Len(inputs) > 1) /\ inputs # <<>>
  OBVIOUS
<1>3. \A i \in 1 .. 0 : FALSE
  OBVIOUS
<1> QED BY <1>1, <1>2, <1>3 DEF Frees

\* A write of bytes from the head.
LEMMA AdvanceBalance ==
  ASSUME PumpInv, ReadInPlace, KeptLengths, Balance, inputs # <<>>, AtHead,
         UNCHANGED <<given, buf>>,
         NEW h \in InputType, NEW n \in Nat, Advance(h, n),
         h.kind \in {"str", "mmap"}, h.kind = Head1.kind, h.id = Head1.id,
         h.base = Head1.base, h.pos = Head1.pos, h.len = Head1.len, h.pos + n <= h.len,
         sent' = Cat(sent, Bytes(h.id, h.base + h.pos, n))
  PROVE  Balance'
<1>1. ListOK /\ buf = <<>> /\ 1 \in DOMAIN inputs
  BY PumpIs, AtHeadIs, HeadIn
<1>2. PICK d \in Nat, k \in Nat, m \in Nat :
        /\ ToCome(Head1) = Bytes(d, k, m) /\ d = h.id /\ k = h.base + h.pos
        /\ m = h.len - h.pos
  <2>1. PICK d \in Nat, k \in Nat, m \in Nat :
           /\ ToCome(inputs[1]) = Bytes(d, k, m)
           /\ d = inputs[1].id /\ k = inputs[1].base + inputs[1].pos
           /\ inputs[1].kind \in {"str", "mmap"} => m = inputs[1].len - inputs[1].pos
    BY <1>1, ToComeIs
  <2> QED BY <2>1 DEF Head1
<1>3. h.len \in Nat /\ h.pos \in Nat /\ h.base \in Nat
  BY DEF InputType
<1>4. n \in 0 .. m
  BY <1>2, <1>3
<1>5. sent' = Cat(sent, Bytes(d, k, n))
  BY <1>2
<1>6. CASE h.pos + n = h.len /\ (Frees \/ (Len(inputs) = 1 /\ Finish))
  <2>1. n = m
    BY <1>2, <1>3, <1>6
  <2>2. Frees
    BY <1>1, <1>6, LastFrees DEF ListOK
  <2> QED BY <1>1, <1>2, <1>4, <1>5, <2>1, <2>2, Moves
<1>7. ASSUME NEW g \in InputType, g = [h EXCEPT !.pos = h.pos + n], Heads(g)
      PROVE  Balance'
  <2>1. /\ g.id = h.id /\ g.kind = h.kind /\ g.base = h.base /\ g.len = h.len
        /\ g.pos = h.pos + n
    BY <1>7 DEF InputType
  <2>2. ToCome(g) = Bytes(d, k + n, m - n)
    <3>1. ToCome(g) = Bytes(d, h.base + (h.pos + n), h.len - (h.pos + n))
      BY <1>2, <2>1 DEF ToCome
    <3>2. h.base + (h.pos + n) = k + n /\ h.len - (h.pos + n) = m - n
      BY <1>2, <1>3, SMTT(30)
    <3> QED BY <3>1, <3>2
  <2> QED BY <1>1, <1>2, <1>4, <1>5, <1>7, <2>2, Moves
<1> QED BY <1>1, <1>6, <1>7, AdvanceDoes

\* Writing a string keeps the balance.
LEMMA WriteStringBalance ==
  ASSUME PumpInv, ReadInPlace, KeptLengths, Balance, NEW n, WriteString(n)
  PROVE  Balance'
<1>1. /\ inputs # <<>> /\ AtHead /\ Head1 \in InputType /\ Head1.kind = "str"
      /\ n \in Nat /\ Head1.len \in Nat /\ Head1.pos + n <= Head1.len
      /\ n \in 0 .. (Head1.len - Head1.pos) /\ Head1.len - Head1.pos \in Nat
  BY StringWrites
<1>2. PICK d \in Nat, k \in Nat, m \in Nat :
        d = Head1.id /\ k = Head1.base + Head1.pos /\ m = Head1.len - Head1.pos
  BY <1>1 DEF InputType
<1>3. sent' = Cat(sent, Bytes(d, k, n))
  <2>0. n \in 0 .. m
    BY <1>1, <1>2
  <2>1. SubSeq(Bytes(d, k, m), 1, n) = Bytes(d, k, n)
    BY <2>0, BytesSub
  <2>2. Wrote(Bytes(d, k, m), n)
    BY <1>2, Zenon DEF WriteString
  <2> QED BY <2>1, <2>2, Zenon DEF Wrote, Cat
<1>4. Advance(Head1, n) /\ UNCHANGED <<given, buf>>
  BY DEF WriteString, bufVars
<1>5. Head1.kind \in {"str", "mmap"}
  BY <1>1
<1> QED BY <1>1, <1>2, <1>3, <1>4, <1>5, AdvanceBalance

\* Writing a mapped file keeps the balance.
LEMMA WriteMmapBalance ==
  ASSUME PumpInv, ReadInPlace, KeptLengths, Balance, NEW n, WriteMmap(n)
  PROVE  Balance'
<1>1. /\ inputs # <<>> /\ AtHead /\ Head1 \in InputType /\ Head1.kind = "mmap"
      /\ Head1.len \in Nat /\ InputOK(Head1)
  BY MmapWrites
<1>2. PICK mend \in Nat :
        /\ mend <= Head1.len /\ Head1.pos <= mend
        /\ n \in 0 .. (mend - Head1.pos) /\ n \in Nat /\ Head1.pos + n <= mend
        /\ Wrote(Bytes(Head1.id, Head1.pos, mend - Head1.pos), n)
        /\ Advance([Head1 EXCEPT !.mend = mend], n)
  BY MmapWrites
<1>3. PICK h \in InputType : h = [Head1 EXCEPT !.mend = mend]
  BY <1>1 DEF InputType
<1>4. /\ h.id = Head1.id /\ h.kind = "mmap" /\ h.kind = Head1.kind /\ h.base = Head1.base
      /\ h.len = Head1.len /\ h.pos = Head1.pos /\ h.base = 0
  BY <1>1, <1>3 DEF InputType, InputOK
<1>5. PICK d \in Nat, k \in Nat, m \in Nat :
        d = h.id /\ k = h.pos /\ m = mend - h.pos /\ h.base + h.pos = k
  BY <1>2, <1>4 DEF InputType
<1>6. sent' = Cat(sent, Bytes(d, k, n))
  <2>1. SubSeq(Bytes(d, k, m), 1, n) = Bytes(d, k, n)
    BY <1>2, <1>4, <1>5, BytesSub
  <2>2. Wrote(Bytes(d, k, m), n)
    BY <1>2, <1>4, <1>5
  <2> QED BY <2>1, <2>2, Zenon DEF Wrote, Cat
<1>7. Advance(h, n) /\ UNCHANGED <<given, buf>>
  BY <1>2, <1>3 DEF WriteMmap, bufVars
<1>8. h.pos + n <= h.len /\ h.kind \in {"str", "mmap"}
  <2>1. h.pos \in Nat /\ h.len \in Nat
    BY <1>1, <1>4 DEF InputType
  <2> QED BY <1>2, <1>4, <2>1
<1>9. sent' = Cat(sent, Bytes(h.id, h.base + h.pos, n))
  BY <1>5, <1>6
<1> QED BY <1>1, <1>2, <1>4, <1>7, <1>8, <1>9, AdvanceBalance

\* What a blocking object returns stands before what it still has.
LEMMA ReadBlockingBalance ==
  ASSUME PumpInv, ReadInPlace, KeptLengths, Balance, NEW n, ReadBlocking(n)
  PROVE  Balance'
<1>1. /\ inputs # <<>> /\ Head1 \in InputType /\ Head1.kind = "block"
      /\ InputOK(Head1) /\ n \in Nat \ {0} /\ Head1.pos + n <= Source(Head1).size
      /\ Source(Head1).size \in Nat /\ Source(Head1).kind = "block"
  BY ReadBlockingDoes
<1>2. PICK s \in InputType, h \in InputType :
        /\ Pushes(s, h)
        /\ s.id = Head1.id /\ s.kind = "str" /\ s.base = Head1.pos /\ s.len = n
        /\ s.pos = 0
        /\ h.id = Head1.id /\ h.kind = "block" /\ h.base = Head1.base
        /\ h.len = Head1.len /\ h.pos = Head1.pos + n
  BY ReadBlockingDoes
<1>3. ListOK /\ 1 \in DOMAIN inputs /\ UNCHANGED <<given, sent, buf>>
  BY <1>1, PumpIs, HeadIn DEF ReadBlocking
<1>4. PICK d \in Nat, k \in Nat, m \in Nat :
        /\ ToCome(Head1) = Bytes(d, k, m) /\ d = Head1.id /\ k = Head1.base + Head1.pos
        /\ m = Source(Head1).size - Head1.pos
  <2>1. PICK d \in Nat, k \in Nat, m \in Nat :
           /\ ToCome(inputs[1]) = Bytes(d, k, m)
           /\ d = inputs[1].id /\ k = inputs[1].base + inputs[1].pos
           /\ inputs[1].kind = "block" => m = Source(inputs[1]).size - inputs[1].pos
    BY <1>3, ToComeIs
  <2> QED BY <1>1, <2>1 DEF Head1
<1>5. Head1.base = 0 /\ Head1.pos \in Nat
  BY <1>1 DEF InputOK, InputType
<1>6. n \in 0 .. m /\ n \in Nat
  BY <1>1, <1>4, <1>5
<1>7. PICK w \in Nat : w = Wanted(Source(Head1)) /\ w = Source(Head1).size
  <2>1. Source(Head1) \in Offers /\ Source(Head1).limit \in Nat \cup {-1}
    BY <1>3, SourceIs DEF Head1
  <2>2. Source(Head1).kind = "block"
    BY <1>1
  <2>3. Source(Head1).limit = -1 \/ Source(Head1).limit >= Source(Head1).size
    BY <2>1, <2>2 DEF KeptLengths
  <2>4. Wanted(Source(Head1)) = Source(Head1).size
    BY <1>1, <2>1, <2>2, <2>3 DEF Wanted, MinOf
  <2> QED BY <1>1, <2>4
<1>8. ToCome(s) = Bytes(d, k, n)
  <2>1. ToCome(s) = Bytes(s.id, s.base + s.pos, s.len - s.pos)
    BY <1>2 DEF ToCome
  <2>2. s.base + s.pos = k /\ s.len - s.pos = n /\ s.id = d
    BY <1>2, <1>4, <1>5, <1>6
  <2> QED BY <2>1, <2>2
<1>9. ToCome(h) = Bytes(d, k + n, m - n)
  <2>1. Source(h) = Source(Head1)
    BY <1>2 DEF Source
  <2>2. ToCome(h) = Bytes(h.id, h.base + h.pos, w - h.pos)
    BY <1>2, <1>7, <2>1 DEF ToCome
  <2>3. h.base + h.pos = k + n /\ w - h.pos = m - n /\ h.id = d
    BY <1>2, <1>4, <1>5, <1>6, <1>7
  <2> QED BY <2>2, <2>3
<1>10. PICK p \in Stream, q \in Stream :
        p = Bytes(d, k, n) /\ q = Bytes(d, k + n, m - n) /\ ToCome(Head1) = Cat(p, q)
  <2>1. k + n \in Nat /\ m - n \in Nat
    BY <1>6
  <2>2. Bytes(d, k, n) \in Seq(Byte) /\ Bytes(d, k + n, m - n) \in Seq(Byte)
    BY <1>6, <2>1, BytesIs
  <2>3. Bytes(d, k, m) = Cat(Bytes(d, k, n), Bytes(d, k + n, m - n))
    BY <1>6, BytesSplit
  <2> QED BY <1>4, <2>2, <2>3, Zenon DEF Stream
<1>11. PICK l \in Nat, r \in Seq(Stream), f \in Stream :
        /\ Rest(r, l) /\ f = FlattenSeq(r) /\ Remaining = Cat(ToCome(Head1), f)
  BY <1>1, RestIs
<1>12. Remaining' = Cat(p, Cat(q, f))
  BY <1>2, <1>3, <1>8, <1>9, <1>10, <1>11, RestPushes
<1>13. Cat(p, Cat(q, f)) = Cat(Cat(p, q), f)
  BY StreamIs, CatIs
<1> QED BY <1>3, <1>10, <1>11, <1>12, <1>13, SameExpected DEF Balance

\* A blocking object at its end has nothing to come.
LEMMA BlockingEndBalance ==
  ASSUME PumpInv, ReadInPlace, KeptLengths, Balance, BlockingDone \/ BlockingEof
  PROVE  Balance'
<1>1. inputs # <<>> /\ Head1.kind = "block" /\ ListOK
  BY PumpIs DEF BlockingDone, BlockingEof, BlockingAtEof, HeadIs
<1>2. UNCHANGED <<given, sent, buf>> /\ inputs' = FreeHead
  BY DEF BlockingDone, BlockingEof, Finish
<1>3. Frees
  BY <1>1, <1>2, FreeDoes DEF ListOK
<1>4. PICK g \in InputType :
        /\ g = Head1 /\ g = inputs[1] /\ 1 \in DOMAIN inputs /\ InputOK(g)
  BY <1>1, HeadIn DEF Head1
<1>5. PICK o : /\ o = Source(g) /\ o \in Offers /\ o.size \in Nat
               /\ o.limit \in Nat \cup {-1}
  BY <1>4, SourceIs
<1>6. g.pos = o.size
  <2>1. /\ o.kind = "block" /\ g.len = o.limit /\ g.pos <= o.size /\ g.pos \in Nat
    BY <1>1, <1>4, <1>5 DEF InputOK, InputType, ReadInPlace
  <2>2. CASE BlockingEof
    BY <1>4, <1>5, <2>2 DEF BlockingEof, BlockingAtEof
  <2>3. CASE BlockingDone
    <3>1. g.len # -1 /\ g.pos >= g.len
      BY <1>4, <2>3 DEF BlockingDone
    <3>2. o.limit = -1 \/ o.limit >= o.size
      BY <1>5, <2>1 DEF KeptLengths
    <3> QED BY <1>5, <2>1, <3>1, <3>2
  <2> QED BY <2>2, <2>3
<1>7. PICK d \in Nat, k \in Nat : ToCome(Head1) = Bytes(d, k, 0)
  <2>1. PICK d \in Nat, k \in Nat, m \in Nat :
           /\ ToCome(inputs[1]) = Bytes(d, k, m)
           /\ inputs[1].kind = "block" => m = Source(inputs[1]).size - inputs[1].pos
    BY <1>4, ToComeIs
  <2>2. m = 0
    BY <1>1, <1>4, <1>5, <1>6, <2>1
  <2> QED BY <1>4, <2>1, <2>2
<1> QED BY <1>1, <1>2, <1>3, <1>7, SpentBalance

\* What is to come from a non-blocking head.
LEMMA ObjectComes ==
  ASSUME PumpInv, ReadInPlace, KeptLengths, inputs # <<>>, Head1.kind = "obj"
  PROVE  \E g \in InputType, o \in Offers, m \in Nat :
           /\ g = Head1 /\ o = Source(g) /\ g.off = g.pos /\ g.base = 0
           /\ o.size \in Nat /\ g.off <= o.size /\ o.kind = "obj" /\ g.len = o.limit
           /\ o.limit \in Nat \cup {-1} /\ (g.len = -1 \/ g.pos <= g.len)
           /\ g.pos \in Nat /\ g.id \in Nat
           /\ ToCome(Head1) = Bytes(g.id, g.off, m)
           /\ m = (IF g.len = -1 THEN o.size ELSE MinOf(g.len, o.size)) - g.pos
<1>1. PICK g \in InputType :
        /\ g = Head1 /\ g = inputs[1] /\ 1 \in DOMAIN inputs /\ InputOK(g)
        /\ g.kind = "obj"
  BY PumpIs, HeadIn DEF Head1
<1>2. PICK o \in Offers : /\ o = Source(g) /\ o.size \in Nat
                          /\ o.limit \in Nat \cup {-1}
  BY <1>1, SourceIs
<1>3. /\ g.off = g.pos /\ o.kind = "obj" /\ g.len = o.limit
  BY <1>1, <1>2 DEF ReadInPlace, InputOK
<1>4. /\ g.base = 0 /\ g.off <= o.size /\ (g.len = -1 \/ g.pos <= g.len) /\ g.pos \in Nat
      /\ g.id \in Nat
  BY <1>1, <1>2 DEF InputOK, InputType
<1>5. PICK d \in Nat, k \in Nat, m \in Nat :
        /\ ToCome(g) = Bytes(d, k, m) /\ d = g.id /\ k = g.base + g.pos
        /\ m = Wanted(o) - g.pos
  <2>1. PICK d \in Nat, k \in Nat, m \in Nat :
           /\ ToCome(inputs[1]) = Bytes(d, k, m)
           /\ d = inputs[1].id /\ k = inputs[1].base + inputs[1].pos
           /\ inputs[1].kind = "obj" => m = Wanted(Source(inputs[1])) - inputs[1].pos
    BY <1>1, ToComeIs
  <2> QED BY <1>1, <1>2, <2>1
<1>6. k = g.off
  BY <1>3, <1>4, <1>5
<1>7. m = (IF g.len = -1 THEN o.size ELSE MinOf(g.len, o.size)) - g.pos
  BY <1>3, <1>5 DEF Wanted
<1>8. ToCome(Head1) = Bytes(g.id, g.off, m)
  BY <1>1, <1>5, <1>6
<1> QED BY <1>1, <1>2, <1>3, <1>4, <1>7, <1>8

\* What is read goes to the end of the buffer.
LEMMA InputReadBalance ==
  ASSUME PumpInv, ReadInPlace, KeptLengths, Balance, NEW n, InputRead(n)
  PROVE  Balance'
<1>1. /\ inputs # <<>> /\ Head1.kind = "obj" /\ n \in Nat \ {0}
      /\ Head1.off + n <= Source(Head1).size
  BY InputReadDoes
<1>2. PICK g \in InputType, o \in Offers, m \in Nat :
           /\ g = Head1 /\ o = Source(g) /\ g.off = g.pos /\ g.base = 0
           /\ o.size \in Nat /\ g.off <= o.size /\ o.kind = "obj" /\ g.len = o.limit
           /\ o.limit \in Nat \cup {-1} /\ (g.len = -1 \/ g.pos <= g.len)
           /\ g.pos \in Nat /\ g.id \in Nat
           /\ ToCome(Head1) = Bytes(g.id, g.off, m)
           /\ m = (IF g.len = -1 THEN o.size ELSE MinOf(g.len, o.size)) - g.pos
  BY <1>1, ObjectComes
<1>3. UNCHANGED <<given, sent>>
  BY DEF InputRead, InputReadInto
<1>4. PICK d \in Nat, k \in Nat : d = g.id /\ k = g.off
  BY <1>2
<1>5. PICK u \in 0 .. n :
        /\ buf' = buf \o Bytes(d, k, u)
        /\ \/ /\ g.len # -1 /\ g.pos + n >= g.len
              /\ u = g.len - g.pos /\ Frees
           \/ /\ ~ (g.len # -1 /\ g.pos + n >= g.len) /\ u = n
              /\ \E h \in InputType :
                   /\ Heads(h)
                   /\ h.id = g.id /\ h.kind = "obj" /\ h.base = g.base
                   /\ h.len = g.len /\ h.pos = g.pos + n
  <2>1. PICK u \in 0 .. n :
              /\ buf' = buf \o Bytes(Head1.id, Head1.off, u)
              /\ \/ /\ Head1.len # -1 /\ Head1.pos + n >= Head1.len
                    /\ u = Head1.len - Head1.pos /\ Frees
                 \/ /\ ~ (Head1.len # -1 /\ Head1.pos + n >= Head1.len) /\ u = n
                    /\ \E h \in InputType :
                         /\ Heads(h)
                         /\ h.id = Head1.id /\ h.kind = "obj" /\ h.base = Head1.base
                         /\ h.len = Head1.len /\ h.pos = Head1.pos + n
    BY InputReadDoes
  <2> QED BY <1>2, <1>4, <2>1
<1>6. u \in 0 .. m /\ u \in Nat
  BY <1>1, <1>2, <1>4, <1>5, SMTT(30) DEF MinOf
<1>7. buf' = Cat(buf, Bytes(d, k, u)) /\ sent' = sent /\ given' = given
  BY <1>3, <1>5, Zenon DEF Cat
<1>8. ToCome(Head1) = Bytes(d, k, m)
  BY <1>2, <1>4
<1>9. CASE g.len # -1 /\ g.pos + n >= g.len
  <2>1. Frees /\ u = m
    BY <1>1, <1>2, <1>5, <1>9, SMTT(30) DEF MinOf
  <2> QED BY <1>1, <1>6, <1>7, <1>8, <2>1, Moves
<1>10. CASE ~ (g.len # -1 /\ g.pos + n >= g.len)
  <2>1. PICK h \in InputType :
              /\ Heads(h) /\ u = n
              /\ h.id = g.id /\ h.kind = "obj" /\ h.base = g.base
              /\ h.len = g.len /\ h.pos = g.pos + n
    BY <1>5, <1>10
  <2>2. ToCome(h) = Bytes(d, k + u, m - u)
    <3>1. Source(h) = o
      BY <1>2, <2>1 DEF Source
    <3>2. PICK w \in Nat : w = Wanted(o) /\ m = w - g.pos
      BY <1>2 DEF Wanted, MinOf
    <3>3. ToCome(h) = Bytes(h.id, h.base + h.pos, w - h.pos)
      BY <2>1, <3>1, <3>2 DEF ToCome
    <3>4. h.id = d /\ h.base + h.pos = k + u /\ w - h.pos = m - u
      BY <1>2, <1>4, <1>6, <2>1, <3>2
    <3> QED BY <3>3, <3>4
  <2> QED BY <1>1, <1>6, <1>7, <1>8, <2>1, <2>2, Moves
<1> QED BY <1>9, <1>10

\* An input that closes has nothing to come.
LEMMA InputCloseBalance ==
  ASSUME PumpInv, ReadInPlace, KeptLengths, Balance, InputClose
  PROVE  Balance'
<1>1. /\ inputs # <<>> /\ Head1.kind = "obj" /\ ListOK
      /\ Head1.off = Source(Head1).size
  BY PumpIs DEF InputClose, Reading, HeadIs
<1>2. UNCHANGED <<given, sent, buf>> /\ inputs' = FreeHead
  BY DEF InputClose, bufVars, Finish
<1>3. Frees
  BY <1>1, <1>2, FreeDoes DEF ListOK
<1>4. PICK g \in InputType, o \in Offers, m \in Nat :
           /\ g = Head1 /\ o = Source(g) /\ g.off = g.pos
           /\ o.size \in Nat /\ g.len = o.limit
           /\ o.limit \in Nat \cup {-1} /\ (g.len = -1 \/ g.pos <= g.len)
           /\ g.pos \in Nat /\ g.id \in Nat
           /\ ToCome(Head1) = Bytes(g.id, g.off, m)
           /\ m = (IF g.len = -1 THEN o.size ELSE MinOf(g.len, o.size)) - g.pos
  BY <1>1, ObjectComes
<1>5. m = 0
  <2>1. g.pos = o.size
    BY <1>1, <1>4
  <2> QED BY <1>4, <2>1 DEF MinOf
<1>6. PICK d \in Nat, k \in Nat : ToCome(Head1) = Bytes(d, k, 0)
  BY <1>4, <1>5
<1> QED BY <1>1, <1>2, <1>3, <1>6, SpentBalance

\* Every step that does not give up keeps the balance.
LEMMA BalanceStep ==
  ASSUME PumpInv, ReadInPlace, KeptLengths, ~ RemapMayFail, Balance, [Next]_vars, ~ failed'
  PROVE  Balance'
<1>2. CASE \E o \in Offers : AddInput(o)
  BY <1>2, AddInputBalance
<1>3. CASE SetDoneCallback \/ Output \/ OutputReady \/ NothingLeft \/ UNCHANGED vars
  <2>1. UNCHANGED <<given, inputs, sent, buf>>
    BY <1>3 DEF SetDoneCallback, Output, OutputReady, NothingLeft, Finish, vars, bufVars
  <2> QED BY <2>1, SameBalance
<1>4. CASE \E n : WriteBuffer(n)
  BY <1>4, WriteBufferBalance
<1>5. CASE WriteFails \/ Destroy
  BY <1>5 DEF WriteFails, Destroy
<1>6. CASE WaitForInput
  BY <1>6, WaitForInputBalance
<1>7. CASE \E n : WriteString(n) \/ WriteMmap(n)
  BY <1>7, WriteStringBalance, WriteMmapBalance
<1>8. CASE BlockingDone \/ BlockingEof \/ \E n : ReadBlocking(n)
  BY <1>8, BlockingEndBalance, ReadBlockingBalance
<1>9. CASE InputClose \/ \E n : InputRead(n)
  BY <1>9, InputCloseBalance, InputReadBalance
<1> QED
  BY <1>2, <1>3, <1>4, <1>5, <1>6, <1>7, <1>8, <1>9, NoFd
  DEF Next, WriteCallback, InputCallback

\* The pump in its three respects: the bytes balance until it gives up, it
\* finishes with an empty buffer, and nothing is read before output().
DeliveryInv ==
  /\ PumpInv /\ ReadInPlace
  /\ ~ failed => Balance
  /\ finished /\ ~ failed => buf = <<>>
  /\ outp = "none" => \A i \in DOMAIN inputs : inputs[i].mode = "SLEEPING"

\* What has failed is not forgotten.
LEMMA StaysFailed == ASSUME PumpInv, failed, [Next]_vars PROVE failed'
<1>1. failed = TRUE /\ failed' \in {failed, TRUE}
  <2>1. failed = TRUE
    BY PumpIs, SMTT(30) DEF Scalars
  <2>2. failed' = failed \/ failed' = TRUE
    BY DEF Next, WriteCallback, InputCallback, WriteBuffer, NothingLeft, WaitForInput,
       WriteString, WriteMmap, RemapFails, ReadFd, ReadFdFails, WriteRead,
       ReadBlocking, BlockingDone, BlockingEof,
       InputRead, InputReadInto, InputClose, AddInput, SetDoneCallback, Output,
       OutputReady, Destroy, WriteFails, endVars, vars
  <2> QED BY <2>1, <2>2
<1> QED BY <1>1

\* Before output() there is nothing but the caller: no callback runs.
LEMMA SetupSteps ==
  ASSUME DeliveryInv, outp = "none", [Next]_vars
  PROVE  \/ \E o \in Offers : AddInput(o)
         \/ SetDoneCallback \/ Output \/ UNCHANGED vars
<1>1. pc = "event" /\ PumpInv
  BY PumpIs DEF DeliveryInv, Control
<1>2. ~ Reading
  <2> SUFFICES ASSUME Reading PROVE FALSE
    OBVIOUS
  <2>1. inputs # <<>> /\ Head1.mode = "READING"
    BY DEF Reading, HeadIs
  <2>2. 1 \in DOMAIN inputs
    BY <1>1, <2>1, PumpIs, HeadIn, SMTT(30)
  <2> QED BY <2>1, <2>2 DEF DeliveryInv, Head1
<1>3. ~ InputCallback
  BY <1>2 DEF InputCallback, InputRead, InputReadInto, InputClose
<1>4. ~ WriteCallback /\ ~ WriteFails /\ ~ OutputReady /\ ~ Destroy
  BY <1>1 DEF WriteCallback, WriteBuffer, NothingLeft, WaitForInput,
       WriteString, WriteMmap, RemapFails, ReadFd, ReadFdFails, WriteRead,
       ReadBlocking, BlockingDone, BlockingEof,
       AtHead, WriteFails, OutputReady, Destroy
<1> QED BY <1>3, <1>4 DEF Next

\* After output() the caller is gone: bytes are added to what is sent, and the
\* output stays until the pump finishes.
LEMMA SendingSteps ==
  ASSUME PumpInv, outp # "none", [Next]_vars
  PROVE  /\ given' = given
         /\ outp' # "none" \/ finished'
         /\ \E p \in Stream : sent' = Cat(sent, p)
         /\ ~ finished' \/ failed' \/ (inputs' = <<>> /\ buf' = <<>> /\ sent' \in Stream)
<1>1. sent \in Stream /\ buf \in Seq(Byte) /\ Scalars /\ ~ finished
  BY PumpIs DEF Scalars, Stream, Control
<1>2. sent' = sent => \E p \in Stream : sent' = Cat(sent, p)
  <2>1. <<>> \in Stream /\ Cat(sent, <<>>) = sent
    BY <1>1, StreamIs, CatIs
  <2> QED BY <2>1
<1>3. ASSUME NEW data \in Seq(Byte), NEW n, Wrote(data, n)
      PROVE  (\E p \in Stream : sent' = Cat(sent, p)) /\ sent' \in Stream
  <2>1. n \in 0 .. Len(data) /\ sent' = Cat(sent, SubSeq(data, 1, n))
    BY <1>3, Zenon DEF Wrote, Cat
  <2>2. SubSeq(data, 1, n) \in Seq(Byte)
    BY <2>1, SubSeqIs
  <2>3. PICK p \in Stream : p = SubSeq(data, 1, n)
    BY <2>2, Zenon DEF Stream
  <2>4. Cat(sent, p) \in Stream
    BY <1>1, StreamIs, CatIs
  <2> QED BY <2>1, <2>3, <2>4, Zenon
<1>4. CASE \/ \E o \in Offers : AddInput(o)
           \/ SetDoneCallback \/ Output
  BY <1>4 DEF AddInput, SetDoneCallback, Output, Setup
<1>5. CASE OutputReady \/ WaitForInput \/ RemapFails \/ ReadFd \/ ReadFdFails
           \/ UNCHANGED vars
  BY <1>1, <1>2, <1>5
  DEF OutputReady, WaitForInput, RemapFails, ReadFd, ReadFdFails, endVars, vars
<1>6. CASE WriteFails \/ Destroy
  BY <1>1, <1>2, <1>6 DEF WriteFails, Destroy, Finish
<1>7. CASE NothingLeft \/ BlockingDone \/ BlockingEof \/ \E n : ReadBlocking(n)
  <2>1. AtHead /\ given' = given /\ sent' = sent /\ buf' = buf
    BY <1>7 DEF NothingLeft, BlockingDone, BlockingEof, ReadBlocking, bufVars
  <2>2. buf' = <<>>
    BY <2>1, AtHeadIs
  <2>3. (outp' = outp /\ finished' = finished) \/ Finish
    BY <1>7 DEF NothingLeft, BlockingDone, BlockingEof, ReadBlocking, endVars
  <2> QED BY <1>1, <1>2, <2>1, <2>2, <2>3 DEF Finish
<1>8. CASE (\E n : InputRead(n)) \/ InputClose
  <2>1. given' = given /\ sent' = sent
    BY <1>8, ZenonT(40) DEF InputRead, InputReadInto, InputClose
  <2>2. \/ (outp' = outp \/ outp' = "ACTIVE") /\ finished' = finished
        \/ Finish /\ buf = <<>> /\ buf' = buf
    BY <1>8 DEF InputRead, InputReadInto, InputClose, endVars, bufVars
  <2> QED BY <1>1, <1>2, <2>1, <2>2, SMTT(30) DEF Finish
<1>9. CASE \E n : WriteBuffer(n)
  <2>1. PICK n : Wrote(buf, n) /\ given' = given /\ outp' = outp /\ finished' = finished
    BY <1>9 DEF WriteBuffer, endVars
  <2> QED BY <1>1, <1>3, <2>1
<1>10. CASE \E n : WriteString(n) \/ WriteMmap(n)
  <2>1. AtHead /\ given' = given /\ buf' = buf
    BY <1>10 DEF WriteString, WriteMmap, bufVars
  <2>2. buf' = <<>>
    BY <2>1, AtHeadIs
  <2>3. (outp' = outp /\ finished' = finished) \/ Finish
    BY <1>10 DEF WriteString, WriteMmap, Advance
  <2>4. (\E p \in Stream : sent' = Cat(sent, p)) /\ sent' \in Stream
    <3>1. ASSUME NEW n, WriteString(n)
          PROVE  (\E p \in Stream : sent' = Cat(sent, p)) /\ sent' \in Stream
      <4>1. PICK data \in Seq(Byte) : Wrote(data, n)
        BY <3>1, StringWrites, Zenon DEF WriteString
      <4> QED BY <1>3, <4>1
    <3>2. ASSUME NEW n, WriteMmap(n)
          PROVE  (\E p \in Stream : sent' = Cat(sent, p)) /\ sent' \in Stream
      <4>1. PICK mend \in Nat :
               /\ Head1.pos <= mend /\ Head1 \in InputType
               /\ Wrote(Bytes(Head1.id, Head1.pos, mend - Head1.pos), n)
        BY <3>2, MmapWrites
      <4>2. PICK d \in Nat, k \in Nat, m \in Nat :
               d = Head1.id /\ k = Head1.pos /\ m = mend - Head1.pos
        BY <4>1 DEF InputType
      <4>3. PICK data \in Seq(Byte) : data = Bytes(d, k, m)
        BY BytesIs
      <4> QED BY <1>3, <4>1, <4>2, <4>3
    <3> QED BY <1>10, <3>1, <3>2
  <2> QED BY <1>1, <2>1, <2>2, <2>3, <2>4 DEF Finish
<1>11. CASE \E n : WriteRead(n)
  <2>1. PICK n : WriteRead(n)
    BY <1>11
  <2>2. Wrote(buf, n) /\ given' = given
    BY <2>1 DEF WriteRead
  <2>3. (outp' = outp /\ finished' = finished) \/ Finish
    BY <2>1 DEF WriteRead
  <2>4. (\E p \in Stream : sent' = Cat(sent, p)) /\ sent' \in Stream
    BY <1>1, <1>3, <2>2
  <2>5. Finish => buf' = <<>>
    <3> SUFFICES ASSUME Finish PROVE buf' = <<>>
      OBVIOUS
    <3>1. n = Len(buf) /\ buf' = SubSeq(buf, n + 1, Len(buf))
      BY <1>1, <2>1 DEF WriteRead, Finish
    <3> QED BY <1>1, <3>1, SubSeqIs
  <2> QED BY <1>1, <2>2, <2>3, <2>4, <2>5 DEF Finish
<1> QED
  BY <1>4, <1>5, <1>6, <1>7, <1>8, <1>9, <1>10, <1>11
  DEF Next, WriteCallback, InputCallback

\* An input added before output() sleeps.
LEMMA AddInputSleeps ==
  ASSUME PumpInv, \A i \in DOMAIN inputs : inputs[i].mode = "SLEEPING",
         NEW o \in Offers, AddInput(o)
  PROVE  \A i \in DOMAIN inputs' : inputs'[i].mode = "SLEEPING"
<1>1. inputs \in Seq(InputType)
  BY DEF PumpInv, TypeOK
<1>2. PICK m \in Nat : m = Len(inputs) /\ DOMAIN inputs = 1 .. m
  BY <1>1
<1>3. PICK h \in InputType : h = NewInput(o) /\ h.mode = "SLEEPING"
  <2>1. PICK h : h = NewInput(o)
    OBVIOUS
  <2>2. MinOf(o.size, MaxMmap) \in Nat /\ o.size \in Nat /\ o.limit \in Nat \cup {-1}
        /\ o.kind \in Kinds /\ Len(given) \in Nat
    BY OffersAssumption, BoundsAssumption DEF MinOf, PumpInv, TypeOK
  <2>3. h \in InputType /\ h.mode = "SLEEPING"
    BY <2>1, <2>2 DEF NewInput, InputType, Kinds
  <2> QED BY <2>1, <2>3
<1>4. inputs' = Append(inputs, h)
  BY <1>3 DEF AddInput
<1>5. /\ DOMAIN inputs' = 1 .. m + 1 /\ \A k \in 1 .. m : inputs'[k] = inputs[k]
      /\ inputs'[m + 1] = h
  BY <1>1, <1>2, <1>4, AppendIs
<1>6. \A i \in 1 .. m + 1 : i = m + 1 \/ i \in 1 .. m
  OBVIOUS
<1> QED BY <1>2, <1>3, <1>5, <1>6

\* Every step keeps the invariant.
LEMMA DeliveryStep ==
  ASSUME ~ RemapMayFail, KeptLengths, DeliveryInv, [Next]_vars PROVE DeliveryInv'
<1>1. PumpInv /\ ReadInPlace
  BY DEF DeliveryInv
<1>2. PumpInv' /\ ReadInPlace'
  BY <1>1, PumpStep, InPlaceStep
<1>3. ~ failed' => Balance'
  <2> SUFFICES ASSUME ~ failed' PROVE Balance'
    OBVIOUS
  <2>1. ~ failed
    BY <1>1, StaysFailed
  <2>2. Balance
    BY <2>1 DEF DeliveryInv
  <2> QED BY <1>1, <2>2, BalanceStep
<1>4. CASE outp # "none"
  <2>1. outp' # "none" \/ finished'
    BY <1>1, <1>4, SendingSteps
  <2>2. finished' /\ ~ failed' => buf' = <<>>
    BY <1>1, <1>4, SendingSteps
  <2>3. finished' => inputs' = <<>>
    BY <1>2 DEF PumpInv, Control
  <2>4. outp' = "none" => \A i \in DOMAIN inputs' : inputs'[i].mode = "SLEEPING"
    BY <2>1, <2>3
  <2> QED BY <1>2, <1>3, <2>2, <2>4 DEF DeliveryInv
<1>5. CASE outp = "none"
  <2>1. \/ \E o \in Offers : AddInput(o)
        \/ SetDoneCallback \/ Output \/ UNCHANGED vars
    BY <1>5, SetupSteps
  <2>2. UNCHANGED <<buf, finished, failed>>
    BY <2>1 DEF AddInput, SetDoneCallback, Output, vars, bufVars, endVars
  <2>3. \A i \in DOMAIN inputs : inputs[i].mode = "SLEEPING"
    BY <1>5 DEF DeliveryInv
  <2>4. outp' = "none" => \A i \in DOMAIN inputs' : inputs'[i].mode = "SLEEPING"
    <3>1. CASE \E o \in Offers : AddInput(o)
      BY <1>1, <2>3, <3>1, AddInputSleeps
    <3>2. CASE SetDoneCallback \/ UNCHANGED vars
      BY <2>3, <3>2 DEF SetDoneCallback, vars
    <3>3. CASE Output
      BY <3>3 DEF Output
    <3> QED BY <2>1, <3>1, <3>2, <3>3
  <2>5. finished' /\ ~ failed' => buf' = <<>>
    BY <2>2 DEF DeliveryInv
  <2> QED BY <1>2, <1>3, <2>4, <2>5 DEF DeliveryInv
<1> QED BY <1>4, <1>5

\* With no failed mapping the objects are read in place, and no byte moves but
\* from the list to the buffer and from both to the output.
THEOREM DeliveryAlways ==
  ASSUME ~ RemapMayFail, KeptLengths PROVE Spec => []DeliveryInv
<1>1. Init => DeliveryInv
  <2> SUFFICES ASSUME Init PROVE DeliveryInv
    OBVIOUS
  <2>1. given = <<>> /\ inputs = <<>> /\ sent = <<>> /\ buf = <<>>
    BY DEF Init
  <2>2. Remaining = <<>> /\ Expected = <<>>
    <3>1. [i \in DOMAIN inputs |-> ToCome(inputs[i])] = <<>>
      BY <2>1
    <3>2. [i \in DOMAIN given |-> Bytes(i, 0, Wanted(given[i]))] = <<>>
      BY <2>1
    <3> QED BY <3>1, <3>2, FlatNone DEF Remaining, Expected
  <2>3. Balance
    BY <2>1, <2>2 DEF Balance, Cat
  <2>4. ReadInPlace /\ \A i \in DOMAIN inputs : inputs[i].mode = "SLEEPING"
    BY <2>1 DEF ReadInPlace, Init
  <2> QED BY <2>1, <2>3, <2>4, PumpInit DEF DeliveryInv
<1> QED BY <1>1, DeliveryStep, PTL DEF Spec

\* No byte is lost, duplicated or out of order between the inputs and the
\* socket, for any inputs, sizes and orders, as long as no mapping fails and the
\* length asked of a blocking or mapped file is not below its size.
THEOREM ConservedTheorem ==
  ASSUME ~ RemapMayFail, KeptLengths PROVE Spec => []Conserved
<1>1. DeliveryInv => Conserved
  <2>1. DeliveryInv => (~ finished => ~ failed)
    BY DEF DeliveryInv, PumpInv, Control
  <2>2. DeliveryInv => (~ failed => Balance)
    BY DEF DeliveryInv
  <2> QED BY <2>1, <2>2, ConservedIs
<1> QED BY <1>1, DeliveryAlways, PTL

-----------------------------------------------------------------------------
(* The pump is a delivery                                                  *)

\* A sequence is a prefix of itself with more behind it.
LEMMA PrefixIs ==
  ASSUME NEW a \in Stream, NEW b \in Stream PROVE Promise!IsPrefix(a, Cat(a, b))
<1>1. PICK m \in Nat, n \in Nat, l \in Nat : m = Len(a) /\ n = Len(b) /\ l = m + n
  BY DEF Stream
<1>2. PICK c \in Seq(Byte) :
        c = Cat(a, b) /\ Len(c) = l /\ \A j \in 1 .. m : c[j] = a[j]
  BY <1>1, CatAt DEF Stream
<1>3. m \in 0 .. Len(c) /\ m \in 0 .. Len(a) /\ m <= l
  BY <1>1, <1>2
<1>4. PICK p \in Seq(Byte) :
        p = SubSeq(c, 1, m) /\ Len(p) = m /\ \A j \in 1 .. m : p[j] = c[j]
  <2>1. /\ SubSeq(c, 1, m) \in Seq(Byte) /\ Len(SubSeq(c, 1, m)) = m
        /\ \A j \in 1 .. m : SubSeq(c, 1, m)[j] = c[j]
    BY <1>3, SubSeqIs, Zenon
  <2> QED BY <2>1, Zenon
<1>5. PICK q \in Seq(Byte) :
        q = SubSeq(a, 1, m) /\ Len(q) = m /\ \A j \in 1 .. m : q[j] = a[j]
  <2>1. a \in Seq(Byte)
    BY DEF Stream
  <2>2. /\ SubSeq(a, 1, m) \in Seq(Byte) /\ Len(SubSeq(a, 1, m)) = m
        /\ \A j \in 1 .. m : SubSeq(a, 1, m)[j] = a[j]
    BY <1>3, <2>1, SubSeqIs, Zenon
  <2> QED BY <2>2, Zenon
<1>6. p = q
  <2>1. \A j \in 1 .. m : p[j] = q[j]
    BY <1>2, <1>4, <1>5
  <2> QED BY <1>4, <1>5, <2>1, SeqEq
<1> QED BY <1>1, <1>2, <1>3, <1>4, <1>5, <1>6 DEF Promise!IsPrefix

\* How far the delivery is.
Stage == IF finished THEN (IF failed THEN "aborted" ELSE "complete")
         ELSE IF outp = "none" THEN "open" ELSE "sending"

\* The caller's steps hand bytes over, start, or are not seen.
LEMMA SetupDelivers ==
  ASSUME KeptLengths, DeliveryInv, outp = "none", [Next]_vars
  PROVE  [Promise!Next]_Promise!vars
<1>1. \/ \E o \in Offers : AddInput(o)
      \/ SetDoneCallback \/ Output \/ UNCHANGED vars
  BY SetupSteps
<1>2. PumpInv /\ ReadInPlace
  BY DEF DeliveryInv
<1>3. ASSUME NEW o \in Offers, AddInput(o) PROVE Promise!Hand
  <2>1. PICK s \in Stream : Expected' = Cat(Expected, s)
    BY <1>2, <1>3, AddInputGives
  <2>2. PICK e \in Stream : e = Expected
    BY <1>2, ExpectedType
  <2>3. Promise!IsPrefix(Expected, Expected')
    BY <2>1, <2>2, PrefixIs
  <2>4. Stage = "open" /\ Stage' = "open" /\ sent' = sent
    BY <1>3 DEF AddInput, Setup, Stage, endVars
  <2> QED BY <2>3, <2>4 DEF Promise!Hand, Stage
<1>4. CASE Output
  <2>1. Stage = "open" /\ Stage' = "sending" /\ sent' = sent /\ given' = given
    BY <1>4 DEF Output, Setup, Stage, endVars
  <2>2. Promise!Start
    BY <2>1, SameExpected DEF Promise!Start, Stage
  <2> QED BY <2>2 DEF Promise!Next
<1>5. CASE SetDoneCallback \/ UNCHANGED vars
  <2>1. Stage' = Stage /\ sent' = sent /\ given' = given
    BY <1>5 DEF SetDoneCallback, vars, Stage
  <2> QED BY <2>1, SameExpected DEF Promise!vars, Stage
<1> QED BY <1>1, <1>3, <1>4, <1>5 DEF Promise!Next

\* To give up writes nothing.
LEMMA GivesUp ==
  ASSUME ~ failed, failed', [Next]_vars PROVE sent' = sent /\ given' = given /\ finished'
<1>1. failed' # failed
  OBVIOUS
<1>2. WriteFails \/ Destroy
  BY <1>1 DEF Next, WriteCallback, InputCallback, WriteBuffer, NothingLeft, WaitForInput,
       WriteString, WriteMmap, RemapFails, ReadFd, ReadFdFails, WriteRead,
       ReadBlocking, BlockingDone, BlockingEof,
       InputRead, InputReadInto, InputClose, AddInput, SetDoneCallback, Output,
       OutputReady, endVars, vars
<1> QED BY <1>2 DEF WriteFails, Destroy, Finish

\* The pump's steps deliver the next bytes, complete, or abort.
LEMMA SendingDelivers ==
  ASSUME KeptLengths, DeliveryInv, DeliveryInv', outp # "none", [Next]_vars
  PROVE  [Promise!Next]_Promise!vars
<1>1. PumpInv /\ ~ finished /\ ~ failed /\ Stage = "sending"
  BY DEF DeliveryInv, PumpInv, Control, Stage
<1>2. PICK p \in Stream : sent' = Cat(sent, p)
  BY <1>1, SendingSteps
<1>3. given' = given /\ Expected' = Expected
  BY <1>1, SendingSteps, SameExpected
<1>4. CASE ~ failed'
  <2>1. Balance'
    BY <1>4 DEF DeliveryInv
  <2>2. PICK a \in Stream : a = sent
    BY <1>1 DEF PumpInv, TypeOK, Stream
  <2>3. PICK b \in Stream : b = sent' /\ b = Cat(a, p)
    BY <1>2, <2>2, StreamIs, CatIs
  <2>4. PICK c \in Stream, r \in Stream : c = buf' /\ r = Remaining'
    <3>1. (PumpInv /\ ReadInPlace /\ KeptLengths)'
      BY DEF DeliveryInv, KeptLengths
    <3>2. (sent \in Stream /\ buf \in Stream /\ Remaining \in Stream)'
      BY <3>1, PartsAre, PTL
    <3> QED BY <3>2 DEF Stream, Byte
  <2>5. Cat(Cat(b, c), r) = Expected
    BY <1>3, <2>1, <2>3, <2>4 DEF Balance
  <2>6. Promise!IsPrefix(sent, sent')
    BY <2>2, <2>3, PrefixIs
  <2>7. Promise!IsPrefix(sent', Expected)
    <3>1. Cat(Cat(b, c), r) = Cat(b, Cat(c, r)) /\ Cat(c, r) \in Stream
      BY StreamIs, CatIs
    <3>2. Promise!IsPrefix(b, Cat(b, Cat(c, r)))
      BY <3>1, PrefixIs
    <3> QED BY <2>3, <2>5, <3>1, <3>2
  <2>8. Stage' = "sending" \/ (Stage' = "complete" /\ sent' = Expected)
    <3>1. CASE ~ finished'
      <4>1. outp' # "none"
        BY <1>1, <3>1, SendingSteps
      <4> QED BY <3>1, <4>1 DEF Stage
    <3>2. CASE finished'
      <4>1. inputs' = <<>> /\ buf' = <<>>
        BY <1>1, <1>4, <3>2, SendingSteps
      <4>2. Remaining' = <<>>
        <5>1. [i \in DOMAIN inputs' |-> ToCome(inputs[i])'] = <<>>
          BY <4>1
        <5> QED BY <5>1, FlatNone DEF Remaining
      <4>3. Cat(Cat(b, <<>>), <<>>) = b
        BY StreamIs, CatIs
      <4>4. sent' = Expected
        BY <2>3, <2>4, <2>5, <4>1, <4>2, <4>3
      <4> QED BY <1>4, <3>2, <4>4 DEF Stage
    <3> QED BY <3>1, <3>2
  <2>9. Promise!Deliver
    BY <1>1, <1>3, <2>6, <2>7, <2>8 DEF Promise!Deliver, Stage
  <2> QED BY <2>9 DEF Promise!Next
<1>5. CASE failed'
  <2>1. sent' = sent /\ Stage' = "aborted"
    BY <1>1, <1>5, GivesUp DEF Stage
  <2>2. Promise!Abort
    BY <1>1, <1>3, <2>1 DEF Promise!Abort, Stage
  <2> QED BY <2>2 DEF Promise!Next
<1> QED BY <1>4, <1>5

\* The pump implements the delivery: with no failed mapping and no length below
\* the size of a blocking or mapped file, the caller's bytes reach the socket in
\* order and without gaps, and it finishes unaborted only when all of them have.
THEOREM DeliversTheorem == ASSUME ~ RemapMayFail, KeptLengths PROVE Spec => Delivers
<1>1. Init => Promise!Init
  <2> SUFFICES ASSUME Init PROVE Promise!Init
    OBVIOUS
  <2>1. Expected = <<>>
    <3>1. given = <<>>
      BY DEF Init
    <3>2. [i \in DOMAIN given |-> Bytes(i, 0, Wanted(given[i]))] = <<>>
      BY <3>1
    <3> QED BY <3>2, FlatNone DEF Expected
  <2> QED BY <2>1 DEF Init, Promise!Init
<1>2. DeliveryInv /\ DeliveryInv' /\ [Next]_vars => [Promise!Next]_Promise!vars
  BY SetupDelivers, SendingDelivers
<1> QED BY <1>1, <1>2, DeliveryAlways, PTL DEF Spec, Delivers, Promise!Spec

=============================================================================
