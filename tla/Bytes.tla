------------------------------- MODULE Bytes -------------------------------
(***************************************************************************)
(* Strings of the C modules: sequences of bytes, and the two conversions   *)
(* that several files of _Caudium spell out in place, lower case by        *)
(* setting one bit and the decoding of "%XX".                              *)
(***************************************************************************)
EXTENDS Integers, Sequences, FiniteSetsExt

Byte == 0 .. 255
NUL == 0
LF == 10
CR == 13
SP == 32
PCT == 37    \* %
AMP == 38    \* &
PLUS == 43   \* +
COMMA == 44
DOT == 46
SLASH == 47
COLON == 58
SEMI == 59
EQ == 61     \* =
QM == 63     \* ?

IsDigit(c) == c \in 48 .. 57
IsUpper(c) == c \in 65 .. 90
IsLower(c) == c \in 97 .. 122

(* "*p |= 32" on a capital letter, every other byte as it is. *)
ToLower(c) == IF IsUpper(c) THEN c + 32 ELSE c
Lowercase(s) == [i \in DOMAIN s |-> ToLower(s[i])]

(* The four bits of a hex digit; any other byte gives four bits too. *)
Nibble(c) == (IF c < 65 THEN c ELSE c + 9) % 16
Escaped(s, p) == 16 * Nibble(s[p + 1]) + Nibble(s[p + 2])

(* The first position of s, from p on, that holds a byte of S; Len(s) + 1  *)
(* when there is none.                                                     *)
FirstOf(s, p, S) ==
    LET at == {i \in p .. Len(s) : s[i] \in S}
    IN  IF at = {} THEN Len(s) + 1 ELSE Min(at)

(* What a C function reads of s: the bytes before the first NUL. *)
CString(s) == SubSeq(s, 1, FirstOf(s, 1, {NUL}) - 1)

(* The pieces of s between the bytes of S, and pieces put together again. *)
Split(s, S) ==
    LET P[p \in 1 .. Len(s) + 1] ==
            LET e == FirstOf(s, p, S)
            IN  <<SubSeq(s, p, e - 1)>> \o (IF e > Len(s) THEN <<>> ELSE P[e + 1])
    IN  P[1]
Join(parts, sep) ==
    LET J[k \in 0 .. Len(parts)] ==
            IF k = 0 THEN <<>>
            ELSE J[k - 1] \o (IF k = 1 THEN <<>> ELSE sep) \o parts[k]
    IN  J[Len(parts)]
Bytes(s) == {s[i] : i \in DOMAIN s}

(* The elements of s at the positions in at, in their order. *)
Kept(s, at) ==
    LET K[k \in 0 .. Len(s)] ==
            IF k = 0 THEN <<>> ELSE IF k \in at THEN Append(K[k - 1], s[k]) ELSE K[k - 1]
    IN  K[Len(s)]

(* A Pike mapping from strings, and the insertion of one pair. *)
Empty == [k \in {} |-> <<>>]
Insert(m, k, v) == [x \in DOMAIN m \cup {k} |-> IF x = k THEN v ELSE m[x]]
=============================================================================
