----------------------------- MODULE StrProofs -----------------------------
(***************************************************************************)
(* Theorems about the functions of Str, for any strings, arguments and     *)
(* sizes and in any order: each leaves the string its documentation says,  *)
(* and those that compare agree with the texts.                            *)
(***************************************************************************)
EXTENDS StringsProofs

-----------------------------------------------------------------------------
(* The functions of Str: what each makes of an array that holds a text. *)

\* What a byte that was written can hold.
Letter == Char \cup {NUL}

\* The array r of len bytes holds the text t, and a NUL behind it.
HoldsText(r, len, t) ==
  /\ len \in Nat /\ r \in [0 .. len-1 -> Letter]
  /\ t \in Seq(Char) /\ Len(t) < len
  /\ \A k \in 1 .. Len(t) : r[k-1] = t[k]
  /\ r[Len(t)] = NUL

\* An array that is a C string.
IsString(r) == \E len \in Nat : \E t \in Seq(Char) : HoldsText(r, len, t)

LEMMA TextHeld ==
  ASSUME NEW len, NEW t, NEW r, HoldsText(r, len, t)
  PROVE  /\ len \in Nat \ {0} /\ Len(t) \in 0 .. len-1 /\ Size(r) = len /\ DOMAIN r = 0 .. len-1
         /\ Strlen(r) = Len(t) /\ CString(r) = t
         /\ Holds(r, len, Len(t))
         /\ \A k \in 0 .. Len(t)-1 : r[k] = t[k+1] /\ r[k] \in Char
         /\ NUL \in {r[k] : k \in DOMAIN r}
         /\ t \in Seq(Char) /\ r \in [0 .. len-1 -> Letter] /\ r[Len(t)] = NUL
<1>1. Len(t) \in Nat /\ \A k \in 1 .. Len(t) : t[k] \in Char
  BY LenProperties, ElementOfSeq DEF HoldsText
<1>2. len \in Nat \ {0} /\ Len(t) \in 0 .. len-1 /\ DOMAIN r = 0 .. len-1
  BY <1>1 DEF HoldsText
<1>3. Size(r) = len
  <2>1. 0 <= len-1 /\ 0 \in Int /\ len-1 \in Int
    BY <1>2
  <2>2. Cardinality(0 .. len-1) = IF 0 > len-1 THEN 0 ELSE len-1 - 0 + 1
    BY <2>1, FS_Interval
  <2> QED BY <1>2, <2>1, <2>2 DEF Size
<1>4. \A k \in 0 .. Len(t)-1 : r[k] = t[k+1] /\ r[k] \in Char
  <2> SUFFICES ASSUME NEW k \in 0 .. Len(t)-1 PROVE r[k] = t[k+1] /\ r[k] \in Char
    OBVIOUS
  <2>1. k+1 \in 1 .. Len(t) /\ (k+1)-1 = k
    BY <1>1
  <2>2. r[(k+1)-1] = t[k+1]
    BY <2>1 DEF HoldsText
  <2> QED BY <1>1, <2>1, <2>2
<1>5. Holds(r, len, Len(t)) /\ r[Len(t)] = NUL
  <2>1. r \in Array(len)
    BY DEF HoldsText, Array, Byte, Letter
  <2> QED BY <1>1, <1>2, <1>4, <2>1 DEF Holds, HoldsText
<1>6. Strlen(r) = Len(t)
  BY <1>2, <1>5, StrlenIs
<1>7. CString(r) = t
  <2>1. /\ Bytes(r, 0, Len(t)) \in Seq(Char) /\ Len(Bytes(r, 0, Len(t))) = Len(t)
        /\ \A k \in 1 .. Len(t) : Bytes(r, 0, Len(t))[k] = r[k-1]
    BY <1>5, BytesText
  <2>2. t \in Seq(Char) /\ \A k \in 1 .. Len(t) : r[k-1] = t[k]
    BY DEF HoldsText
  <2>3. Bytes(r, 0, Len(t)) = t
    BY <2>1, <2>2, SeqEqual
  <2> QED BY <1>6, <2>3 DEF CString
<1>8. t \in Seq(Char) /\ r \in [0 .. len-1 -> Letter] /\ r[Len(t)] = NUL
  BY DEF HoldsText
<1> QED BY <1>2, <1>3, <1>4, <1>5, <1>6, <1>7, <1>8

\* An array of written bytes with a NUL in it is a C string.
LEMMA Terminates ==
  ASSUME NEW len \in Nat, NEW r \in [0 .. len-1 -> Letter], NEW e \in 0 .. len-1, r[e] = NUL
  PROVE  IsString(r) /\ HoldsText(r, len, CString(r))
<1> DEFINE S == {k \in DOMAIN r : r[k] = NUL}
           u == Least(S)
<1>1. DOMAIN r = 0 .. len-1 /\ S \in SUBSET Nat /\ e \in S
  OBVIOUS
<1>2. u \in S /\ \A y \in S : u <= y
  <2> HIDE DEF S
  <2> QED BY <1>1, LeastExists
<1>3. u \in 0 .. len-1 /\ r[u] = NUL
  BY <1>1, <1>2
<1>4. \A k \in 0 .. u-1 : r[k] \in Char
  <2> SUFFICES ASSUME NEW k \in 0 .. u-1 PROVE r[k] \in Char
    OBVIOUS
  <2>1. k \in 0 .. len-1 /\ k < u
    <3> HIDE DEF u
    <3> QED BY <1>3
  <2>2. k \notin S
    <3> HIDE DEF S, u
    <3> QED BY <1>2, <1>3, <2>1
  <2> QED BY <1>1, <2>1, <2>2 DEF Letter
<1> HIDE DEF u, S
<1>5. Holds(r, len, u)
  BY <1>3, <1>4 DEF Holds, Array, Byte, Letter
<1>6. Strlen(r) = u
  BY <1>3, <1>5, StrlenIs
<1>7. /\ CString(r) \in Seq(Char) /\ Len(CString(r)) = u
      /\ \A k \in 1 .. u : CString(r)[k] = r[k-1]
  BY <1>5, <1>6, BytesText DEF CString
<1>8. HoldsText(r, len, CString(r))
  BY <1>3, <1>7 DEF HoldsText
<1> QED BY <1>7, <1>8 DEF IsString

\* The first characters of a text.
LEMMA FirstIs ==
  ASSUME NEW t \in Seq(Char), NEW k \in 0 .. Len(t)
  PROVE  /\ SubSeq(t, 1, k) \in Seq(Char) /\ Len(SubSeq(t, 1, k)) = k
         /\ \A j \in 1 .. k : SubSeq(t, 1, k)[j] = t[j]
<1>1. Len(t) \in Nat /\ \A j \in 1 .. k : t[j] \in Char
  BY LenProperties, ElementOfSeq
<1>2. /\ SubSeq(t, 1, k) \in Seq(Char)
      /\ Len(SubSeq(t, 1, k)) = IF 1 <= k THEN k - 1 + 1 ELSE 0
      /\ \A j \in 1 .. k - 1 + 1 : SubSeq(t, 1, k)[j] = t[1 + j - 1]
  BY <1>1, SubSeqProperties
<1> QED BY <1>1, <1>2

\* memset() of written bytes, inside the array.
LEMMA ZeroedWritten ==
  ASSUME NEW len \in Nat, NEW r \in [0 .. len-1 -> Letter], NEW at \in Nat, NEW l \in Nat,
         at + l <= len
  PROVE  /\ Zeroed(r, at, l) \in [0 .. len-1 -> Letter]
         /\ \A k \in 0 .. len-1 : Zeroed(r, at, l)[k] = IF k \in at .. at+l-1 THEN NUL ELSE r[k]
<1>1. DOMAIN r \cup at .. at+l-1 = 0 .. len-1
  OBVIOUS
<1> QED BY <1>1 DEF Zeroed, Letter

\* A NUL in a text cuts it there.
LEMMA CutHeld ==
  ASSUME NEW len, NEW t, NEW r, HoldsText(r, len, t), NEW k \in 0 .. Len(t), NEW l \in Nat \ {0},
         k + l <= len
  PROVE  HoldsText(Zeroed(r, k, l), len, SubSeq(t, 1, k))
<1>1. len \in Nat /\ Len(t) \in 0 .. len-1 /\ DOMAIN r = 0 .. len-1 /\ t \in Seq(Char)
  BY TextHeld
<1>2. /\ Zeroed(r, k, l) \in [0 .. len-1 -> Letter]
      /\ \A j \in 0 .. len-1 : Zeroed(r, k, l)[j] = IF j \in k .. k+l-1 THEN NUL ELSE r[j]
  <2>1. r \in [0 .. len-1 -> Letter] /\ k \in Nat /\ l \in Nat
    BY <1>1 DEF HoldsText
  <2> QED BY <1>1, <2>1, ZeroedWritten
<1>3. /\ SubSeq(t, 1, k) \in Seq(Char) /\ Len(SubSeq(t, 1, k)) = k
      /\ \A j \in 1 .. k : SubSeq(t, 1, k)[j] = t[j]
  BY <1>1, FirstIs
<1>4. \A j \in 1 .. k : Zeroed(r, k, l)[j-1] = t[j]
  BY <1>1, <1>2 DEF HoldsText
<1>5. Zeroed(r, k, l)[k] = NUL
  BY <1>1, <1>2
<1> QED BY <1>1, <1>2, <1>3, <1>4, <1>5 DEF HoldsText

\* Str_dup and Str_ndup.
LEMMA DupHeld ==
  ASSUME NEW t \in Seq(Char)
  PROVE  HoldsText(Str_dup(t), Len(t) + 1, t)
<1>1. Len(t) \in Nat /\ Malloc(Len(t) + 1) \in Array(Len(t) + 1)
  <2>1. Len(t) \in Nat
    BY LenProperties
  <2> QED BY <2>1 DEF Malloc, Array, Byte
<1>2. /\ t \o <<NUL>> \in Seq(Byte) /\ Len(t \o <<NUL>>) = Len(t) + 1
      /\ \A k \in 1 .. Len(t) : (t \o <<NUL>>)[k] = t[k] /\ t[k] \in Char
      /\ (t \o <<NUL>>)[Len(t) + 1] = NUL
  BY TextNul
<1> DEFINE z == t \o <<NUL>>
<1> HIDE DEF z
<1>3. /\ Str_dup(t) \in Array(Len(t) + 1)
      /\ \A k \in 0 .. Len(t) : Str_dup(t)[k] = z[k+1]
  <2>1. Str_dup(t) = Memcpy(Malloc(Len(t) + 1), 0, z)
    BY DEF Str_dup, z
  <2>2. /\ Memcpy(Malloc(Len(t) + 1), 0, z) \in Array(Len(t) + 1)
        /\ \A k \in 0 .. (Len(t) + 1) - 1 :
             Memcpy(Malloc(Len(t) + 1), 0, z)[k]
               = IF k \in 0 .. 0 + Len(z) - 1 THEN z[k-0+1] ELSE Malloc(Len(t) + 1)[k]
    <3>1. z \in Seq(Byte) /\ Len(t) + 1 \in Nat /\ 0 \in Nat /\ 0 + Len(z) <= Len(t) + 1
      BY <1>1, <1>2 DEF z
    <3> QED BY <1>1, <3>1, MemcpyIs
  <2>3. \A k \in 0 .. Len(t) : k \in 0 .. 0 + Len(z) - 1 /\ k-0+1 = k+1 /\ k \in 0 .. (Len(t) + 1) - 1
    BY <1>1, <1>2 DEF z
  <2> QED BY <2>1, <2>2, <2>3
<1>4. \A k \in 1 .. Len(t) : Str_dup(t)[k-1] = t[k] /\ t[k] \in Char
  <2> SUFFICES ASSUME NEW k \in 1 .. Len(t) PROVE Str_dup(t)[k-1] = t[k] /\ t[k] \in Char
    OBVIOUS
  <2>1. k-1 \in 0 .. Len(t) /\ (k-1)+1 = k
    BY <1>1
  <2>2. Str_dup(t)[k-1] = z[(k-1)+1]
    BY <1>3, <2>1
  <2> QED BY <1>2, <2>1, <2>2 DEF z
<1>5. Str_dup(t)[Len(t)] = NUL
  BY <1>1, <1>2, <1>3 DEF z
<1>6. Str_dup(t) \in [0 .. Len(t) -> Letter]
  <2>1. \A k \in 0 .. Len(t) : Str_dup(t)[k] \in Letter
    <3> SUFFICES ASSUME NEW k \in 0 .. Len(t) PROVE Str_dup(t)[k] \in Letter
      OBVIOUS
    <3>1. CASE k = Len(t)
      BY <1>5, <3>1 DEF Letter
    <3>2. CASE k # Len(t)
      <4>1. k+1 \in 1 .. Len(t) /\ (k+1)-1 = k
        BY <1>1, <3>2
      <4>2. Str_dup(t)[(k+1)-1] = t[k+1] /\ t[k+1] \in Char
        BY <1>4, <4>1
      <4> QED BY <4>1, <4>2 DEF Letter
    <3> QED BY <3>1, <3>2
  <2>2. Str_dup(t) \in [0 .. Len(t) -> Byte] 
    BY <1>1, <1>3 DEF Array
  <2> QED BY <2>1, <2>2
<1>7. 0 .. (Len(t) + 1) - 1 = 0 .. Len(t)
  BY <1>1
<1> QED BY <1>1, <1>4, <1>5, <1>6, <1>7 DEF HoldsText

LEMMA NdupHeld ==
  ASSUME NEW t \in Seq(Char), NEW k \in Nat
  PROVE  HoldsText(Str_ndup(t, k), Len(FirstN(t, k)) + 1, FirstN(t, k))
<1>1. Len(t) \in Nat /\ Smaller(Len(t), k) \in 0 .. Len(t)
  <2>1. Len(t) \in Nat
    BY LenProperties
  <2> QED BY <2>1 DEF Smaller
<1>2. FirstN(t, k) = SubSeq(t, 1, Smaller(Len(t), k))
  BY <1>1 DEF FirstN, Smaller
<1>3. FirstN(t, k) \in Seq(Char) /\ Len(FirstN(t, k)) = Smaller(Len(t), k)
  BY <1>1, <1>2, FirstIs
<1>4. Str_ndup(t, k) = Str_dup(FirstN(t, k))
  BY <1>2, <1>3 DEF Str_ndup, Str_dup
<1> QED BY <1>3, <1>4, DupHeld

\* Letters of another case, or another letter: a letter each.
LEMMA LettersStay ==
  ASSUME NEW c \in Char
  PROVE  ToUpper(c) \in Char /\ ToLower(c) \in Char
BY LettersAssumption DEF ToUpper, ToLower

\* A function that replaces each character by one.
LEMMA MappedHeld ==
  ASSUME NEW len, NEW t, NEW r, HoldsText(r, len, t), NEW g \in [DOMAIN t -> Char],
         NEW q, q = [k \in DOMAIN r |-> IF k < Strlen(r) THEN g[k+1] ELSE r[k]]
  PROVE  HoldsText(q, len, g)
<1>1. /\ len \in Nat /\ Len(t) \in 0 .. len-1 /\ DOMAIN r = 0 .. len-1 /\ Strlen(r) = Len(t)
      /\ t \in Seq(Char) /\ r \in [0 .. len-1 -> Letter] /\ r[Len(t)] = NUL
  BY TextHeld
<1>2. DOMAIN t = 1 .. Len(t)
  BY <1>1, LenProperties
<1>3. g \in Seq(Char) /\ Len(g) = Len(t)
  <2>1. g \in [1 .. Len(t) -> Char] /\ Len(t) \in Nat
    BY <1>1, <1>2
  <2> QED BY <2>1
<1>4. \A k \in 0 .. len-1 : q[k] \in Letter
  <2> SUFFICES ASSUME NEW k \in 0 .. len-1 PROVE q[k] \in Letter
    OBVIOUS
  <2>1. q[k] = IF k < Len(t) THEN g[k+1] ELSE r[k]
    BY <1>1
  <2>2. CASE k < Len(t)
    <3>1. k+1 \in DOMAIN t
      BY <1>1, <1>2, <2>2
    <3> QED BY <2>1, <2>2, <3>1 DEF Letter
  <2>3. CASE ~(k < Len(t))
    BY <1>1, <2>1, <2>3
  <2> QED BY <2>2, <2>3
<1>5. \A k \in 1 .. Len(g) : q[k-1] = g[k]
  BY <1>1, <1>3
<1>6. q[Len(g)] = NUL
  BY <1>1, <1>3
<1> QED BY <1>1, <1>3, <1>4, <1>5, <1>6 DEF HoldsText

LEMMA CaseHeld ==
  ASSUME NEW len, NEW t, NEW r, HoldsText(r, len, t)
  PROVE  /\ HoldsText(Str_toLower(r), len, [k \in DOMAIN t |-> ToLower(t[k])])
         /\ HoldsText(Str_toUpper(r), len, Uppercase(t))
<1>1. /\ len \in Nat /\ Len(t) \in 0 .. len-1 /\ DOMAIN r = 0 .. len-1 /\ Strlen(r) = Len(t)
      /\ t \in Seq(Char) /\ \A k \in 0 .. Len(t)-1 : r[k] = t[k+1]
  BY TextHeld
<1>2. DOMAIN t = 1 .. Len(t) /\ \A k \in DOMAIN t : t[k] \in Char
  BY <1>1, LenProperties, ElementOfSeq
<1>3. HoldsText(Str_toLower(r), len, [k \in DOMAIN t |-> ToLower(t[k])])
  <2> DEFINE g == [k \in DOMAIN t |-> ToLower(t[k])]
  <2>1. g \in [DOMAIN t -> Char]
    BY <1>2, LettersStay
  <2>2. Str_toLower(r) = [k \in DOMAIN r |-> IF k < Strlen(r) THEN ToLower(r[k]) ELSE r[k]]
    BY DEF Str_toLower, Mapped
  <2>3. \A k \in DOMAIN r : k < Strlen(r) => ToLower(r[k]) = g[k+1]
    BY <1>1, <1>2
  <2> HIDE DEF g
  <2>4. Str_toLower(r) = [k \in DOMAIN r |-> IF k < Strlen(r) THEN g[k+1] ELSE r[k]]
    BY <2>2, <2>3
  <2>5. HoldsText(Str_toLower(r), len, g)
    BY <2>1, <2>4, MappedHeld
  <2> QED BY <2>5 DEF g
<1>4. HoldsText(Str_toUpper(r), len, Uppercase(t))
  <2> DEFINE g == Uppercase(t)
  <2>1. g \in [DOMAIN t -> Char]
    BY <1>2, LettersStay DEF Uppercase
  <2>2. Str_toUpper(r) = [k \in DOMAIN r |-> IF k < Strlen(r) THEN ToUpper(r[k]) ELSE r[k]]
    BY DEF Str_toUpper, Mapped
  <2>3. \A k \in DOMAIN r : k < Strlen(r) => ToUpper(r[k]) = g[k+1]
    BY <1>1, <1>2 DEF Uppercase
  <2> HIDE DEF g
  <2>4. Str_toUpper(r) = [k \in DOMAIN r |-> IF k < Strlen(r) THEN g[k+1] ELSE r[k]]
    BY <2>2, <2>3
  <2>5. HoldsText(Str_toUpper(r), len, g)
    BY <2>1, <2>4, MappedHeld
  <2> QED BY <2>5 DEF g
<1> QED BY <1>3, <1>4

CharReplaced(t, o, c) == [k \in DOMAIN t |-> IF t[k] = o THEN c ELSE t[k]]

LEMMA ReplaceCharHeld ==
  ASSUME NEW len, NEW t, NEW r, HoldsText(r, len, t), NEW o, NEW c \in Char
  PROVE  HoldsText(Str_replaceChar(r, o, c), len, CharReplaced(t, o, c))
<1>1. /\ len \in Nat /\ Len(t) \in 0 .. len-1 /\ DOMAIN r = 0 .. len-1 /\ Strlen(r) = Len(t)
      /\ t \in Seq(Char) /\ \A k \in 0 .. Len(t)-1 : r[k] = t[k+1]
  BY TextHeld
<1>2. DOMAIN t = 1 .. Len(t) /\ \A k \in DOMAIN t : t[k] \in Char
  BY <1>1, LenProperties, ElementOfSeq
<1> DEFINE g == CharReplaced(t, o, c)
<1>3. g \in [DOMAIN t -> Char]
  BY <1>2 DEF CharReplaced
<1>4. Str_replaceChar(r, o, c)
        = [k \in DOMAIN r |-> IF k < Strlen(r) THEN IF r[k] = o THEN c ELSE r[k] ELSE r[k]]
  BY DEF Str_replaceChar, Mapped
<1>5. \A k \in DOMAIN r : k < Strlen(r) => (IF r[k] = o THEN c ELSE r[k]) = g[k+1]
  BY <1>1, <1>2 DEF CharReplaced
<1> HIDE DEF g
<1>6. Str_replaceChar(r, o, c) = [k \in DOMAIN r |-> IF k < Strlen(r) THEN g[k+1] ELSE r[k]]
  BY <1>4, <1>5
<1>7. HoldsText(Str_replaceChar(r, o, c), len, g)
  BY <1>3, <1>6, MappedHeld
<1> QED BY <1>7 DEF g

\* A part of a text.
LEMMA PartOf ==
  ASSUME NEW t \in Seq(Char), NEW e \in 0 .. Len(t), NEW l \in 0 .. e
  PROVE  /\ SubSeq(t, l + 1, e) \in Seq(Char) /\ Len(SubSeq(t, l + 1, e)) = e - l
         /\ \A j \in 1 .. e - l : SubSeq(t, l + 1, e)[j] = t[l+j]
<1>1. Len(t) \in Nat /\ \A j \in l + 1 .. e : t[j] \in Char
  BY LenProperties, ElementOfSeq
<1>2. /\ SubSeq(t, l + 1, e) \in Seq(Char)
      /\ Len(SubSeq(t, l + 1, e)) = IF l + 1 <= e THEN e - (l + 1) + 1 ELSE 0
      /\ \A j \in 1 .. e - (l + 1) + 1 : SubSeq(t, l + 1, e)[j] = t[l + 1 + j - 1]
  BY <1>1, SubSeqProperties
<1>3. \A j \in 1 .. e - l : j \in 1 .. e - (l + 1) + 1 /\ l + 1 + j - 1 = l+j
  BY <1>1
<1>4. Len(SubSeq(t, l + 1, e)) = e - l
  BY <1>1, <1>2
<1>5. \A j \in 1 .. e - l : SubSeq(t, l + 1, e)[j] = t[l+j]
  BY <1>2, <1>3
<1> QED BY <1>2, <1>4, <1>5

\* An array to whose front a part of a text was moved.
LEMMA WindowHeld ==
  ASSUME NEW len, NEW t, NEW r, HoldsText(r, len, t), NEW e \in 0 .. Len(t), NEW l \in 0 .. e,
         NEW q \in [0 .. len-1 -> Letter], \A k \in 0 .. (e-l)-1 : q[k] = r[l+k], q[e-l] = NUL
  PROVE  HoldsText(q, len, SubSeq(t, l + 1, e))
<1>1. /\ len \in Nat /\ Len(t) \in 0 .. len-1 /\ t \in Seq(Char)
      /\ \A k \in 0 .. Len(t)-1 : r[k] = t[k+1]
  BY TextHeld
<1> DEFINE w == SubSeq(t, l + 1, e)
<1>2. w \in Seq(Char) /\ Len(w) = e-l /\ \A j \in 1 .. e-l : w[j] = t[l+j]
  BY <1>1, PartOf
<1> HIDE DEF w
<1>3. ASSUME NEW j \in 1 .. e-l PROVE q[j-1] = w[j]
  <2>1. j-1 \in 0 .. (e-l)-1 /\ l+(j-1) \in 0 .. Len(t)-1 /\ (l+(j-1))+1 = l+j
    BY <1>1
  <2>2. q[j-1] = r[l+(j-1)] /\ r[l+(j-1)] = t[(l+(j-1))+1]
    BY <1>1, <2>1
  <2> QED BY <1>2, <2>1, <2>2
<1>4. HoldsText(q, len, w)
  BY <1>1, <1>2, <1>3 DEF HoldsText
<1> QED BY <1>4 DEF w

LEMMA SmallestIs ==
  ASSUME NEW S \in SUBSET Int, NEW x \in S, \A y \in S : x <= y
  PROVE  Smallest(S) = x
<1>1. Smallest(S) = Least(S)
  BY DEF Smallest, Least
<1> QED BY <1>1, LeastIs

LEMMA WholeText ==
  ASSUME NEW t \in Seq(Char)
  PROVE  SubSeq(t, 1, Len(t)) = t
<1>1. Len(t) \in Nat /\ Len(t) \in 0 .. Len(t)
  <2>1. Len(t) \in Nat
    BY LenProperties
  <2> QED BY <2>1
<1> DEFINE w == SubSeq(t, 1, Len(t))
<1>2. w \in Seq(Char) /\ Len(w) = Len(t) /\ \A j \in 1 .. Len(t) : w[j] = t[j]
  BY <1>1, FirstIs
<1> HIDE DEF w
<1>3. w = t
  BY <1>2, SeqEqual
<1> QED BY <1>3 DEF w

\* Str_chomp: the text before the first end of line.
LEMMA ChompHeld ==
  ASSUME NEW len, NEW t, NEW r, HoldsText(r, len, t)
  PROVE  HoldsText(Str_chomp(r), len, Before(t, {"\r", "\n"}))
<1> DEFINE S == {j \in 0 .. Strlen(r) : r[j] \in {"\r", "\n", NUL}}
           k == Least(S)
           at == {j \in DOMAIN t : t[j] \in {"\r", "\n"}}
<1>1. /\ Len(t) \in Nat /\ Strlen(r) = Len(t) /\ t \in Seq(Char) /\ r[Len(t)] = NUL
      /\ \A j \in 0 .. Len(t)-1 : r[j] = t[j+1] /\ r[j] \in Char
  BY TextHeld
<1>2. DOMAIN t = 1 .. Len(t)
  BY <1>1, LenProperties
<1>3. k \in S /\ \A y \in S : k <= y
  <2>1. S \in SUBSET Nat /\ Len(t) \in S
    BY <1>1
  <2> HIDE DEF S
  <2> QED BY <2>1, LeastExists
<1>4. k \in 0 .. Len(t) /\ r[k] \in {"\r", "\n", NUL}
  <2> HIDE DEF k
  <2> QED BY <1>1, <1>3
<1>5. ASSUME NEW j \in at PROVE j-1 \in S /\ k <= j-1 /\ j-1 < Len(t)
  <2>1. j \in 1 .. Len(t) /\ t[j] \in {"\r", "\n"} /\ (j-1)+1 = j /\ j-1 \in 0 .. Len(t)-1
    BY <1>1, <1>2
  <2>2. r[j-1] = t[(j-1)+1]
    BY <1>1, <2>1
  <2>3. j-1 \in S
    BY <1>1, <2>1, <2>2
  <2> HIDE DEF k, S
  <2> QED BY <1>3, <2>1, <2>3
<1>6. ASSUME k < Len(t) PROVE k+1 \in at
  <2> HIDE DEF k
  <2>1. k \in 0 .. Len(t)-1 /\ k+1 \in 1 .. Len(t)
    BY <1>1, <1>4, <1>6
  <2>2. r[k] = t[k+1] /\ r[k] # NUL
    BY <1>1, <2>1, Characters
  <2> QED BY <1>2, <1>4, <2>1, <2>2
<1> HIDE DEF k
<1>7. SubSeq(t, 1, k) = Before(t, {"\r", "\n"})
  <2>1. CASE at = {}
    <3>1. k = Len(t)
      BY <1>1, <1>4, <1>6, <2>1
    <3>2. Before(t, {"\r", "\n"}) = t
      BY <2>1 DEF Before
    <3> QED BY <1>1, <3>1, <3>2, WholeText
  <2>2. CASE at # {}
    <3>1. k < Len(t)
      <4>1. PICK j \in at : TRUE
        BY <2>2
      <4>2. j \in Int
        BY <1>1, <1>2
      <4> QED BY <1>1, <1>4, <1>5, <4>1, <4>2
    <3>2. k+1 \in at
      BY <1>6, <3>1
    <3>3. at \in SUBSET Int /\ \A y \in at : k+1 <= y
      <4>1. at \in SUBSET Int
        BY <1>1, <1>2
      <4>2. \A y \in at : k <= y-1
        BY <1>5
      <4> HIDE DEF at
      <4> QED BY <1>4, <4>1, <4>2
    <3>4. Smallest(at) = k+1
      <4> HIDE DEF at
      <4> QED BY <3>2, <3>3, SmallestIs
    <3>5. Before(t, {"\r", "\n"}) = SubSeq(t, 1, Smallest(at) - 1)
      BY <2>2 DEF Before
    <3>6. (k+1) - 1 = k
      BY <1>4
    <3> QED BY <3>4, <3>5, <3>6
  <2> QED BY <2>1, <2>2
<1>8. Str_chomp(r) = Zeroed(r, k, 1)
  BY DEF Str_chomp, k, S
<1>9. HoldsText(Zeroed(r, k, 1), len, SubSeq(t, 1, k))
  <2>1. k + 1 <= len
    BY <1>4, TextHeld
  <2> QED BY <1>4, <2>1, CutHeld
<1> QED BY <1>7, <1>8, <1>9

\* memcpy() and memmove() of written bytes.
LEMMA MemcpyWritten ==
  ASSUME NEW len \in Nat, NEW r \in [0 .. len-1 -> Letter], NEW at \in Nat, NEW w \in Seq(Letter),
         at + Len(w) <= len
  PROVE  /\ Memcpy(r, at, w) \in [0 .. len-1 -> Letter]
         /\ \A k \in 0 .. len-1 :
              Memcpy(r, at, w)[k] = IF k \in at .. at + Len(w) - 1 THEN w[k-at+1] ELSE r[k]
<1>1. Len(w) \in Nat /\ \A j \in 1 .. Len(w) : w[j] \in Letter
  BY LenProperties, ElementOfSeq
<1>2. \A k \in 0 .. len-1 : k \in at .. at + Len(w) - 1 => k-at+1 \in 1 .. Len(w)
  BY <1>1
<1>3. DOMAIN r \cup at .. at + Len(w) - 1 = 0 .. len-1
  BY <1>1
<1> QED BY <1>1, <1>2, <1>3 DEF Memcpy

LEMMA TextWritten ==
  ASSUME NEW w \in Seq(Char)
  PROVE  w \in Seq(Letter) /\ w \o <<NUL>> \in Seq(Letter)
<1>1. w \in Seq(Letter)
  BY SeqMonotonic DEF Letter
<1>2. <<NUL>> \in Seq(Letter)
  <2>1. NUL \in Letter
    BY DEF Letter
  <2> QED BY <2>1
<1> QED BY <1>1, <1>2, ConcatProperties

\* Str_copy: a text at the front of an array that has room for it.
LEMMA CopyHeld ==
  ASSUME NEW len \in Nat, NEW r \in [0 .. len-1 -> Letter], NEW t \in Seq(Char), NEW k \in 0 .. len-1
  PROVE  HoldsText(Str_copy(r, t, k), len, FirstN(t, k))
<1> DEFINE w == FirstN(t, k)
<1>1. Len(t) \in Nat /\ Smaller(Len(t), k) \in 0 .. Len(t) /\ Smaller(Len(t), k) <= k
  <2>1. Len(t) \in Nat
    BY LenProperties
  <2> QED BY <2>1 DEF Smaller
<1>2. w = SubSeq(t, 1, Smaller(Len(t), k))
  BY <1>1 DEF FirstN, Smaller
<1>3. w \in Seq(Char) /\ Len(w) = Smaller(Len(t), k)
  BY <1>1, <1>2, FirstIs
<1>4. Str_copy(r, t, k) = Memcpy(r, 0, w \o <<NUL>>)
  BY <1>2 DEF Str_copy
<1> HIDE DEF w
<1> DEFINE z == w \o <<NUL>>
<1>5. /\ z \in Seq(Letter) /\ Len(z) = Len(w) + 1 /\ z[Len(w) + 1] = NUL
      /\ \A j \in 1 .. Len(w) : z[j] = w[j]
  BY <1>3, TextNul, TextWritten
<1> HIDE DEF z
<1>6. Len(w) \in Nat /\ Len(w) < len
  BY <1>1, <1>3
<1>7. /\ Memcpy(r, 0, z) \in [0 .. len-1 -> Letter]
      /\ \A j \in 0 .. len-1 : Memcpy(r, 0, z)[j] = IF j \in 0 .. 0 + Len(z) - 1 THEN z[j-0+1] ELSE r[j]
  <2>1. 0 \in Nat /\ 0 + Len(z) <= len
    BY <1>5, <1>6
  <2> QED BY <1>5, <2>1, MemcpyWritten
<1>8. \A j \in 0 .. Len(w) : j \in 0 .. len-1 /\ j \in 0 .. 0 + Len(z) - 1 /\ j-0+1 = j+1
  BY <1>5, <1>6
<1>9. \A j \in 0 .. Len(w) : Memcpy(r, 0, z)[j] = z[j+1]
  BY <1>7, <1>8
<1>10. ASSUME NEW j \in 1 .. Len(w) PROVE Memcpy(r, 0, z)[j-1] = w[j]
  <2>1. j-1 \in 0 .. Len(w) /\ (j-1)+1 = j
    BY <1>6
  <2>2. Memcpy(r, 0, z)[j-1] = z[(j-1)+1]
    BY <1>9, <2>1
  <2> QED BY <1>5, <2>1, <2>2
<1>11. Memcpy(r, 0, z)[Len(w)] = NUL
  BY <1>5, <1>6, <1>9
<1>12. HoldsText(Memcpy(r, 0, z), len, w)
  BY <1>3, <1>6, <1>7, <1>10, <1>11 DEF HoldsText
<1> QED BY <1>4, <1>12 DEF w, z

LEMMA ThreeOf ==
  ASSUME NEW c \in Char
  PROVE  <<c, c, c>> \in Seq(Char) /\ Len(<<c, c, c>>) = 3 /\ \A j \in 1 .. 3 : <<c, c, c>>[j] = c
OBVIOUS

\* Str_trunc: the first characters, or, where there is room, some of them and three dots.
LEMMA TruncHeld ==
  ASSUME NEW len, NEW t, NEW r, HoldsText(r, len, t), NEW c \in Nat
  PROVE  HoldsText(Str_trunc(r, c), len, Truncated(t, c))
<1>1. /\ len \in Nat /\ Len(t) \in Nat /\ Len(t) < len /\ Strlen(r) = Len(t) /\ t \in Seq(Char)
      /\ r \in [0 .. len-1 -> Letter] /\ \A k \in 0 .. Len(t)-1 : r[k] = t[k+1]
  BY TextHeld
<1>2. CASE Len(t) <= c
  BY <1>1, <1>2 DEF Str_trunc, Truncated
<1>3. CASE c < Len(t) /\ c < 3
  <2>1. Str_trunc(r, c) = Zeroed(r, c, 1) /\ Truncated(t, c) = SubSeq(t, 1, c)
    BY <1>1, <1>3 DEF Str_trunc, Truncated, FirstN
  <2>2. HoldsText(Zeroed(r, c, 1), len, SubSeq(t, 1, c))
    <3>1. c + 1 <= len
      BY <1>1, <1>3
    <3> QED BY <1>1, <1>3, <3>1, CutHeld
  <2> QED BY <2>1, <2>2
<1>4. CASE c < Len(t) /\ 3 <= c
  <2> DEFINE dots == <<".", ".", ".">>
             head == SubSeq(t, 1, c-3)
             w == head \o dots
             q == Memcpy(r, c-3, dots)
             p == Zeroed(q, c, 1)
  <2>1. /\ dots \in Seq(Char) /\ Len(dots) = 3 /\ \A j \in 1 .. 3 : dots[j] = "."
    <3>1. "." \in Char
      BY LettersAssumption
    <3> QED BY <3>1, ThreeOf
  <2>2. Str_trunc(r, c) = p
    BY <1>1, <1>4 DEF Str_trunc
  <2>3. Truncated(t, c) = w
    <3>1. c-3 < Len(t)
      BY <1>1, <1>4
    <3> QED BY <1>1, <1>4, <3>1 DEF Truncated, FirstN
  <2> HIDE DEF dots
  <2>4. head \in Seq(Char) /\ Len(head) = c-3 /\ \A j \in 1 .. c-3 : head[j] = t[j]
    <3>1. c-3 \in 0 .. Len(t)
      BY <1>1, <1>4
    <3> QED BY <1>1, <3>1, FirstIs
  <2> HIDE DEF head
  <2>5. /\ w \in Seq(Char) /\ Len(w) = c
        /\ \A j \in 1 .. c : w[j] = IF j <= c-3 THEN t[j] ELSE "."
    <3>1. /\ w \in Seq(Char) /\ Len(w) = Len(head) + Len(dots)
          /\ \A j \in 1 .. Len(head) + Len(dots) :
               w[j] = IF j <= Len(head) THEN head[j] ELSE dots[j - Len(head)]
      BY <2>1, <2>4, ConcatProperties
    <3>2. (c-3) + 3 = c /\ \A j \in 1 .. c : (j <= c-3 => j \in 1 .. c-3)
                                          /\ (~(j <= c-3) => j - (c-3) \in 1 .. 3)
      BY <1>4
    <3> HIDE DEF w
    <3> QED BY <2>1, <2>4, <3>1, <3>2
  <2> HIDE DEF w
  <2>6. /\ q \in [0 .. len-1 -> Letter]
        /\ \A k \in 0 .. len-1 : q[k] = IF k \in c-3 .. (c-3) + 3 - 1 THEN dots[k-(c-3)+1] ELSE r[k]
    <3>1. c-3 \in Nat /\ dots \in Seq(Letter) /\ c-3 + Len(dots) <= len
      BY <1>1, <1>4, <2>1, TextWritten
    <3>2. /\ Memcpy(r, c-3, dots) \in [0 .. len-1 -> Letter]
          /\ \A k \in 0 .. len-1 :
               Memcpy(r, c-3, dots)[k]
                 = IF k \in c-3 .. (c-3) + Len(dots) - 1 THEN dots[k-(c-3)+1] ELSE r[k]
      BY <1>1, <3>1, MemcpyWritten
    <3> QED BY <2>1, <3>2
  <2> HIDE DEF q
  <2>7. /\ p \in [0 .. len-1 -> Letter]
        /\ \A k \in 0 .. len-1 : p[k] = IF k = c THEN NUL ELSE q[k]
    <3>1. c \in Nat /\ c + 1 <= len
      BY <1>1, <1>4
    <3>2. /\ p \in [0 .. len-1 -> Letter]
          /\ \A k \in 0 .. len-1 : p[k] = IF k \in c .. c+1-1 THEN NUL ELSE q[k]
      BY <1>1, <2>6, <3>1, ZeroedWritten
    <3>3. \A k \in 0 .. len-1 : k \in c .. c+1-1 <=> k = c
      BY <3>1
    <3> QED BY <3>2, <3>3
  <2> HIDE DEF p
  <2>8. ASSUME NEW k \in 0 .. c-1 PROVE p[k] = w[k+1]
    <3>1. k \in 0 .. len-1 /\ k # c /\ k+1 \in 1 .. c
      BY <1>1, <1>4
    <3>2. CASE k < c-3
      <4>1. k+1 <= c-3 /\ k \notin c-3 .. (c-3) + 3 - 1 /\ k \in 0 .. Len(t)-1
        BY <1>1, <1>4, <3>2
      <4> QED BY <1>1, <2>5, <2>6, <2>7, <3>1, <4>1
    <3>3. CASE ~(k < c-3)
      <4>1. ~(k+1 <= c-3) /\ k \in c-3 .. (c-3) + 3 - 1 /\ k-(c-3)+1 \in 1 .. 3
        BY <1>1, <1>4, <3>3
      <4> QED BY <2>1, <2>5, <2>6, <2>7, <3>1, <4>1
    <3> QED BY <3>2, <3>3
  <2>9. p[c] = NUL /\ c < len
    <3>1. c \in 0 .. len-1
      BY <1>1, <1>4
    <3> QED BY <1>1, <1>4, <2>7, <3>1
  <2>10. ASSUME NEW k \in 1 .. c PROVE p[k-1] = w[k]
    <3>1. k-1 \in 0 .. c-1 /\ (k-1)+1 = k
      BY <1>4
    <3>2. p[k-1] = w[(k-1)+1]
      BY <2>8, <3>1
    <3> QED BY <3>1, <3>2
  <2>11. HoldsText(p, len, w)
    BY <1>1, <2>5, <2>7, <2>9, <2>10 DEF HoldsText
  <2> QED BY <2>2, <2>3, <2>11
<1> QED BY <1>1, <1>2, <1>3, <1>4

LEMMA UppercaseIs ==
  ASSUME NEW t \in Seq(Char)
  PROVE  /\ Uppercase(t) \in Seq(Char) /\ Len(Uppercase(t)) = Len(t)
         /\ \A k \in 1 .. Len(t) : Uppercase(t)[k] = ToUpper(t[k])
<1>1. Len(t) \in Nat /\ DOMAIN t = 1 .. Len(t) /\ \A k \in 1 .. Len(t) : ToUpper(t[k]) \in Char
  BY LenProperties, ElementOfSeq, LettersStay
<1>2. Uppercase(t) \in [1 .. Len(t) -> Char]
  BY <1>1 DEF Uppercase
<1>3. Uppercase(t) \in Seq(Char)
  BY <1>1, <1>2
<1>4. Len(Uppercase(t)) = Len(t)
  <2>1. DOMAIN Uppercase(t) = 1 .. Len(t)
    BY <1>2
  <2> QED BY <1>1, <1>3, <2>1, LenProperties
<1> QED BY <1>1, <1>3, <1>4 DEF Uppercase

\* Str_sub: where the other text first is, in whatever case.
LEMMA SubIs ==
  ASSUME NEW len, NEW t, NEW r, HoldsText(r, len, t), NEW b \in Seq(Char)
  PROVE  /\ Str_sub(r, b) = IF Positions(t, b) = {} THEN -1 ELSE Smallest(Positions(t, b))
         /\ Positions(t, b) # {} => Smallest(Positions(t, b)) \in 0 .. Len(t) - 1
<1> DEFINE up == Str_toUpper(r)
           ut == Uppercase(t)
           ub == Uppercase(b)
           at == {k \in 0 .. Strlen(r) - 1 : SameAt(up, k, ub)}
<1>1. HoldsText(up, len, ut) /\ t \in Seq(Char) /\ Strlen(r) = Len(t) /\ Len(t) \in Nat
  <2>1. HoldsText(up, len, ut)
    BY CaseHeld
  <2> QED BY <2>1, TextHeld
<1>2. ut \in Seq(Char) /\ ub \in Seq(Char) /\ Len(ut) = Len(t)
  BY <1>1, UppercaseIs
<1> HIDE DEF up, ut, ub
<1>3. /\ Holds(up, len, Len(ut)) /\ Len(ut) < len /\ up[Len(ut)] = NUL /\ Bytes(up, 0, Len(ut)) = ut
  BY <1>1, TextHeld DEF CString
<1>4. ASSUME NEW k \in 0 .. Len(t) PROVE SameAt(up, k, ub) <=> StartsWith(Suffix(ut, k), ub)
  <2>1. SameAt(up, k, ub) <=> k + Len(ub) <= Len(ut) /\ \A j \in 1 .. Len(ub) : ut[k+j] = ub[j]
    BY <1>2, <1>3, SameAtIs
  <2>2. StartsWith(Suffix(ut, k), ub) <=> At(ut, k, ub)
    BY <1>2, StartsWithIs
  <2> QED BY <2>1, <2>2 DEF At
<1>5. CASE b = <<>>
  <2>1. Positions(t, b) = {}
    BY <1>5 DEF Positions
  <2>2. Str_sub(r, b) = -1
    BY <1>5 DEF Str_sub
  <2> QED BY <2>1, <2>2
<1>6. CASE b # <<>>
  <2>1. Positions(t, b) = {k \in 0 .. Len(t) - 1 : StartsWith(Suffix(ut, k), ub)}
    BY <1>6 DEF Positions, ut, ub
  <2>2. at = Positions(t, b)
    <3>1. \A k \in 0 .. Len(t) - 1 : k \in 0 .. Len(t)
      BY <1>1
    <3> QED BY <1>1, <1>4, <2>1, <3>1
  <2>3. Str_sub(r, b) = IF at = {} THEN -1 ELSE Least(at)
    BY <1>6 DEF Str_sub, up, ub
  <2>4. Smallest(at) = Least(at)
    BY DEF Smallest, Least
  <2>5. at # {} => Least(at) \in at
    <3>1. at \in SUBSET Nat
      BY <1>1
    <3> HIDE DEF at
    <3> QED BY <3>1, LeastExists
  <2>6. at \subseteq 0 .. Len(t) - 1
    BY <1>1
  <2> HIDE DEF at
  <2> QED BY <2>2, <2>3, <2>4, <2>5, <2>6
<1> QED BY <1>5, <1>6

LEMMA CurtailHeld ==
  ASSUME NEW len, NEW t, NEW r, HoldsText(r, len, t), NEW b \in Seq(Char)
  PROVE  HoldsText(Str_curtail(r, b), len, Curtailed(t, b))
<1> DEFINE k == Smallest(Positions(t, b))
<1>1. Len(t) \in Nat /\ t \in Seq(Char)
  BY TextHeld
<1>2. /\ Str_sub(r, b) = IF Positions(t, b) = {} THEN -1 ELSE k
      /\ Positions(t, b) # {} => k \in 0 .. Len(t) - 1
  BY SubIs
<1>3. CASE Positions(t, b) = {}
  BY <1>2, <1>3 DEF Str_curtail, Curtailed
<1>4. CASE Positions(t, b) # {}
  <2>1. Curtailed(t, b) = FirstN(t, k)
    BY <1>4 DEF Curtailed
  <2> HIDE DEF k
  <2>2. /\ k \in 0 .. Len(t) - 1 /\ Str_sub(r, b) = k /\ k # -1 /\ k \in 0 .. Len(t) /\ k < Len(t)
        /\ len \in Nat /\ Len(t) \in 0 .. len-1 /\ 1 \in Nat \ {0} /\ k + 1 <= len
    <3>1. len \in Nat /\ Len(t) \in 0 .. len-1
      BY TextHeld
    <3> QED BY <1>1, <1>2, <1>4, <3>1
  <2>3. Str_curtail(r, b) = Zeroed(r, k, 1)
    BY <2>2 DEF Str_curtail
  <2>4. FirstN(t, k) = SubSeq(t, 1, k)
    BY <2>2 DEF FirstN
  <2>5. HoldsText(Zeroed(r, k, 1), len, SubSeq(t, 1, k))
    BY <2>2, CutHeld
  <2> QED BY <2>1, <2>3, <2>4, <2>5
<1> QED BY <1>3, <1>4

LEMMA MovedToFront ==
  ASSUME NEW len \in Nat, NEW r \in [0 .. len-1 -> Letter], NEW from \in Nat, NEW l \in Nat,
         from + l <= len
  PROVE  /\ Memmove(r, 0, from, l) \in [0 .. len-1 -> Letter]
         /\ \A k \in 0 .. len-1 :
              Memmove(r, 0, from, l)[k] = IF k \in 0 .. l-1 THEN r[from+k] ELSE r[k]
<1>1. 0 \in Nat /\ 0 + l <= len
  OBVIOUS
<1>2. /\ Memmove(r, 0, from, l) \in [0 .. len-1 -> Letter]
      /\ \A k \in 0 .. len-1 :
           Memmove(r, 0, from, l)[k] = IF k \in 0 .. 0 + l - 1 THEN r[from + k - 0] ELSE r[k]
  <2>1. ASSUME NEW z \in Nat, z + l <= len
        PROVE  /\ Memmove(r, z, from, l) \in [0 .. len-1 -> Letter]
               /\ \A k \in 0 .. len-1 :
                    Memmove(r, z, from, l)[k] = IF k \in z .. z + l - 1 THEN r[from + k - z] ELSE r[k]
    <3>1. \A k \in 0 .. len-1 : k \in z .. z + l - 1 => from + k - z \in 0 .. len-1
      BY <2>1
    <3>2. DOMAIN r \cup z .. z + l - 1 = 0 .. len-1
      BY <2>1
    <3> QED BY <3>1, <3>2 DEF Memmove
  <2> QED BY <1>1, <2>1
<1>3. \A k \in 0 .. len-1 : (k \in 0 .. l-1 <=> k \in 0 .. 0 + l - 1) /\ from + k - 0 = from+k
  OBVIOUS
<1> QED BY <1>2, <1>3

\* Str_rtrim: the text without the white space at its end.
LEMMA RtrimHeld ==
  ASSUME NEW len, NEW t, NEW r, HoldsText(r, len, t)
  PROVE  \E e \in 0 .. Len(t) :
           /\ HoldsText(Str_rtrim(r), len, SubSeq(t, 1, e))
           /\ \A k \in e+1 .. Len(t) : IsSpace(t[k])
           /\ 0 < e => ~IsSpace(t[e])
<1> DEFINE S == {j \in 0 .. Strlen(r) : \A k \in j .. Strlen(r) - 1 : IsSpace(r[k])}
           e == Least(S)
<1>1. /\ Len(t) \in Nat /\ Strlen(r) = Len(t) /\ t \in Seq(Char) /\ DOMAIN r = 0 .. len-1
      /\ \A j \in 0 .. Len(t)-1 : r[j] = t[j+1]
  BY TextHeld
<1>2. e \in S /\ \A y \in S : e <= y
  <2>1. S \in SUBSET Nat /\ Len(t) \in S
    BY <1>1
  <2> HIDE DEF S
  <2> QED BY <2>1, LeastExists
<1>3. Str_rtrim(r) = Zeroed(r, e, Strlen(r) - e)
  BY DEF Str_rtrim
<1> HIDE DEF e
<1>4. e \in 0 .. Len(t) /\ \A k \in e .. Len(t) - 1 : IsSpace(r[k])
  BY <1>1, <1>2
<1>5. ASSUME NEW k \in e+1 .. Len(t) PROVE IsSpace(t[k])
  <2>1. k-1 \in e .. Len(t) - 1 /\ k-1 \in 0 .. Len(t) - 1 /\ (k-1)+1 = k
    BY <1>1, <1>4
  <2>2. r[k-1] = t[(k-1)+1] /\ IsSpace(r[k-1])
    BY <1>1, <1>4, <2>1
  <2> QED BY <2>1, <2>2
<1>6. ASSUME 0 < e PROVE ~IsSpace(t[e])
  <2> SUFFICES ASSUME IsSpace(t[e]) PROVE FALSE
    OBVIOUS
  <2>1. e-1 \in 0 .. Len(t) - 1 /\ (e-1)+1 = e
    BY <1>1, <1>4, <1>6
  <2>2. IsSpace(r[e-1])
    BY <1>1, <2>1
  <2>3. \A k \in e-1 .. Len(t) - 1 : IsSpace(r[k])
    <3>1. \A k \in e-1 .. Len(t) - 1 : k = e-1 \/ k \in e .. Len(t) - 1
      BY <1>1, <1>4
    <3> QED BY <1>4, <2>2, <3>1
  <2>4. e-1 \in S
    BY <1>1, <2>1, <2>3
  <2> HIDE DEF S
  <2>5. e <= e-1
    BY <1>2, <2>4
  <2> QED BY <1>1, <1>4, <2>5
<1>7. HoldsText(Zeroed(r, e, Len(t) - e), len, SubSeq(t, 1, e))
  <2>1. CASE e = Len(t)
    <3>1. Zeroed(r, e, Len(t) - e) = r
      <4>1. \A k \in DOMAIN r : k \notin e .. e + (Len(t) - e) - 1
        BY <1>1, <2>1
      <4>2. r = [k \in DOMAIN r |-> r[k]]
        BY TextHeld
      <4>3. DOMAIN r \cup e .. e + (Len(t) - e) - 1 = DOMAIN r
        BY <1>1, <2>1
      <4> QED BY <4>1, <4>2, <4>3 DEF Zeroed
    <3> QED BY <1>1, <2>1, <3>1, WholeText
  <2>2. CASE e # Len(t)
    <3>1. Len(t) - e \in Nat \ {0} /\ e + (Len(t) - e) <= len
      BY <1>1, <1>4, <2>2, TextHeld
    <3> QED BY <1>4, <3>1, CutHeld
  <2> QED BY <2>1, <2>2
<1> QED BY <1>1, <1>3, <1>4, <1>5, <1>6, <1>7

\* Str_ltrim: the text without the white space at its start.
LEMMA LtrimHeld ==
  ASSUME NEW len, NEW t, NEW r, HoldsText(r, len, t)
  PROVE  \E l \in 0 .. Len(t) :
           /\ HoldsText(Str_ltrim(r), len, SubSeq(t, l + 1, Len(t)))
           /\ \A k \in 1 .. l : IsSpace(t[k])
           /\ l < Len(t) => ~IsSpace(t[l+1])
<1>1. /\ Len(t) \in Nat /\ Len(t) < len /\ len \in Nat /\ Strlen(r) = Len(t) /\ t \in Seq(Char)
      /\ r \in [0 .. len-1 -> Letter] /\ r[Len(t)] = NUL
      /\ \A j \in 0 .. Len(t)-1 : r[j] = t[j+1]
  BY TextHeld
<1>2. CASE ~IsSpace(r[0])
  <2>1. Str_ltrim(r) = r
    BY <1>2 DEF Str_ltrim
  <2>2. SubSeq(t, 0 + 1, Len(t)) = t
    BY <1>1, WholeText
  <2>3. 0 < Len(t) => ~IsSpace(t[0+1])
    BY <1>1, <1>2
  <2>4. 0 \in 0 .. Len(t) /\ \A k \in 1 .. 0 : IsSpace(t[k])
    BY <1>1
  <2> QED BY <2>1, <2>2, <2>3, <2>4
<1>3. CASE IsSpace(r[0])
  <2> DEFINE u == Len(t)
             S == {k \in 0 .. u : ~IsSpace(r[k])}
             l == Least(S)
             v == Memmove(r, 0, l, u - l)
             q == Zeroed(v, u - l, 1)
  <2>1. l \in S /\ \A y \in S : l <= y
    <3>1. S \in SUBSET Nat /\ u \in S
      BY <1>1, Characters
    <3> HIDE DEF S
    <3> QED BY <3>1, LeastExists
  <2>2. Str_ltrim(r) = q
    BY <1>1, <1>3 DEF Str_ltrim
  <2> HIDE DEF l
  <2>3. l \in 0 .. u /\ ~IsSpace(r[l])
    BY <1>1, <2>1
  <2>4. ASSUME NEW k \in 1 .. l PROVE IsSpace(t[k])
    <3>1. k-1 \in 0 .. u - 1 /\ k-1 \in 0 .. u /\ (k-1)+1 = k /\ ~(l <= k-1)
      BY <1>1, <2>3
    <3>2. k-1 \notin S
      <4> HIDE DEF S
      <4> QED BY <2>1, <3>1
    <3> QED BY <1>1, <3>1, <3>2
  <2>5. l < u => ~IsSpace(t[l+1])
    BY <1>1, <2>3
  <2>6. /\ v \in [0 .. len-1 -> Letter]
        /\ \A k \in 0 .. len-1 : v[k] = IF k \in 0 .. (u-l)-1 THEN r[l+k] ELSE r[k]
    <3> DEFINE d == u - l
    <3>1. l \in Nat /\ d \in Nat /\ l + d <= len
      BY <1>1, <2>3
    <3> HIDE DEF d
    <3>2. /\ Memmove(r, 0, l, d) \in [0 .. len-1 -> Letter]
          /\ \A k \in 0 .. len-1 : Memmove(r, 0, l, d)[k] = IF k \in 0 .. d-1 THEN r[l+k] ELSE r[k]
      <4>1. len \in Nat /\ r \in [0 .. len-1 -> Letter]
        BY <1>1
      <4>2. \A a, b \in Nat : a + b <= len =>
              /\ Memmove(r, 0, a, b) \in [0 .. len-1 -> Letter]
              /\ \A k \in 0 .. len-1 : Memmove(r, 0, a, b)[k] = IF k \in 0 .. b-1 THEN r[a+k] ELSE r[k]
        BY <4>1, MovedToFront
      <4> QED BY <3>1, <4>2
    <3> QED BY <3>2 DEF d
  <2> HIDE DEF v
  <2>7. /\ q \in [0 .. len-1 -> Letter]
        /\ \A k \in 0 .. len-1 : q[k] = IF k = u-l THEN NUL ELSE v[k]
    <3> DEFINE d == u - l
    <3>1. d \in Nat /\ d + 1 <= len
      BY <1>1, <2>3
    <3>2. q = Zeroed(v, d, 1)
      OBVIOUS
    <3> HIDE DEF d, q
    <3>3. /\ q \in [0 .. len-1 -> Letter]
          /\ \A k \in 0 .. len-1 : q[k] = IF k \in d .. d+1-1 THEN NUL ELSE v[k]
      <4>1. len \in Nat /\ v \in [0 .. len-1 -> Letter]
        BY <1>1, <2>6
      <4>2. ASSUME NEW a \in Nat, NEW c \in Nat, a + c <= len
            PROVE  /\ Zeroed(v, a, c) \in [0 .. len-1 -> Letter]
                   /\ \A k \in 0 .. len-1 : Zeroed(v, a, c)[k] = IF k \in a .. a+c-1 THEN NUL ELSE v[k]
        BY <4>1, <4>2, ZeroedWritten
      <4>3. /\ Zeroed(v, d, 1) \in [0 .. len-1 -> Letter]
            /\ \A k \in 0 .. len-1 : Zeroed(v, d, 1)[k] = IF k \in d .. d+1-1 THEN NUL ELSE v[k]
        BY <3>1, <4>2
      <4> QED BY <3>2, <4>3
    <3>4. \A k \in 0 .. len-1 : k \in d .. d+1-1 <=> k = d
      BY <3>1
    <3> QED BY <3>3, <3>4 DEF d
  <2> HIDE DEF q
  <2>8. ASSUME NEW k \in 0 .. (u-l)-1 PROVE q[k] = r[l+k]
    <3>1. k \in 0 .. len-1 /\ k # u-l
      BY <1>1, <2>3
    <3> QED BY <2>6, <2>7, <3>1
  <2>9. q[u-l] = NUL
    <3>1. u-l \in 0 .. len-1
      BY <1>1, <2>3
    <3> QED BY <2>7, <3>1
  <2>10. HoldsText(q, len, SubSeq(t, l + 1, u))
    <3>1. u \in 0 .. Len(t)
      BY <1>1
    <3> QED BY <2>3, <2>7, <2>8, <2>9, <3>1, WindowHeld
  <2> QED BY <2>2, <2>3, <2>4, <2>5, <2>10
<1> QED BY <1>2, <1>3

\* Str_trim takes the white space at both ends.
LEMMA TrimHeld ==
  ASSUME NEW len, NEW t, NEW r, HoldsText(r, len, t)
  PROVE  HoldsText(Str_trim(r), len, Trimmed(t))
<1>1. PICK e \in 0 .. Len(t) :
        /\ HoldsText(Str_rtrim(r), len, SubSeq(t, 1, e))
        /\ \A k \in e+1 .. Len(t) : IsSpace(t[k])
        /\ 0 < e => ~IsSpace(t[e])
  BY RtrimHeld
<1> DEFINE w == SubSeq(t, 1, e)
<1>2. t \in Seq(Char) /\ Len(t) \in Nat
  BY TextHeld
<1>3. w \in Seq(Char) /\ Len(w) = e /\ \A j \in 1 .. e : w[j] = t[j]
  BY <1>2, FirstIs
<1>4. PICK l \in 0 .. Len(w) :
        /\ HoldsText(Str_ltrim(Str_rtrim(r)), len, SubSeq(w, l + 1, Len(w)))
        /\ \A k \in 1 .. l : IsSpace(w[k])
        /\ l < Len(w) => ~IsSpace(w[l+1])
  <2> HIDE DEF w
  <2>1. HoldsText(Str_rtrim(r), len, w)
    BY <1>1 DEF w
  <2> QED BY <2>1, LtrimHeld
<1> HIDE DEF w
<1>5. l \in 0 .. e /\ \A k \in 1 .. l : IsSpace(t[k])
  <2>1. l \in 0 .. e
    BY <1>3, <1>4
  <2>2. \A k \in 1 .. l : k \in 1 .. e
    BY <2>1
  <2> QED BY <1>3, <1>4, <2>1, <2>2
<1>6. ASSUME l < e PROVE ~IsSpace(t[l+1]) /\ ~IsSpace(t[e])
  <2>1. l+1 \in 1 .. e /\ 0 < e
    BY <1>5, <1>6
  <2> QED BY <1>1, <1>3, <1>4, <1>6, <2>1
<1>7. SubSeq(w, l + 1, Len(w)) = SubSeq(t, l + 1, e)
  <2> DEFINE x == SubSeq(w, l + 1, e)
             y == SubSeq(t, l + 1, e)
  <2>1. x \in Seq(Char) /\ Len(x) = e-l /\ \A j \in 1 .. e-l : x[j] = w[l+j]
    <3>1. e \in 0 .. Len(w)
      BY <1>3
    <3> QED BY <1>3, <1>5, <3>1, PartOf
  <2>2. y \in Seq(Char) /\ Len(y) = e-l /\ \A j \in 1 .. e-l : y[j] = t[l+j]
    BY <1>2, <1>5, PartOf
  <2>3. \A j \in 1 .. e-l : l+j \in 1 .. e
    BY <1>5
  <2> HIDE DEF x, y
  <2>4. x = y
    <3>1. Len(x) = Len(y) /\ \A j \in 1 .. Len(x) : x[j] = y[j]
      BY <1>3, <2>1, <2>2, <2>3
    <3> QED BY <2>1, <2>2, <3>1, SeqEqual
  <2> QED BY <1>3, <2>4 DEF x, y
<1>8. Trimmed(t) = SubSeq(t, l + 1, e)
  <2>1. l \in Nat /\ e \in Nat /\ l <= e /\ e <= Len(t)
    BY <1>2, <1>5
  <2> QED BY <1>1, <1>2, <1>5, <1>6, <2>1, TrimmedIs
<1>9. Str_trim(r) = Str_ltrim(Str_rtrim(r))
  BY DEF Str_trim
<1> QED BY <1>4, <1>7, <1>8, <1>9

\* What Str_unquote takes from both ends.
Strip(c) == IsQuote(c) \/ IsSpace(c)

LEMMA NulStays == ~Strip(NUL)
BY DEF Strip, IsQuote, IsSpace, NUL

LEMMA UnquotedIs ==
  ASSUME NEW t \in Seq(Char), NEW y \in Nat, NEW e \in Nat, y <= e, e <= Len(t),
         \A k \in 1 .. y : Strip(t[k]), \A k \in e+1 .. Len(t) : Strip(t[k]),
         y < e => ~Strip(t[y+1]) /\ ~Strip(t[e])
  PROVE  Unquoted(t) = IF y = e THEN <<>> ELSE SubSeq(t, y + 1, e)
<1> DEFINE kept == {k \in DOMAIN t : ~IsSpace(t[k]) /\ ~IsQuote(t[k])}
<1>1. Len(t) \in Nat /\ DOMAIN t = 1 .. Len(t)
  BY LenProperties
<1>2. kept \subseteq y+1 .. e
  <2> SUFFICES ASSUME NEW k \in 1 .. Len(t), k \notin y+1 .. e PROVE Strip(t[k])
    BY <1>1 DEF Strip
  <2> QED BY <1>1
<1>3. CASE y = e
  <2>1. kept = {}
    BY <1>2, <1>3
  <2>2. Unquoted(t) = <<>>
    BY <2>1, Zenon DEF Unquoted
  <2> QED BY <1>3, <2>2
<1>4. CASE y < e
  <2>1. y + 1 \in kept /\ e \in kept
    BY <1>1, <1>4 DEF Strip
  <2> HIDE DEF kept
  <2>2. \A k \in kept : k \in Int /\ y + 1 <= k /\ k <= e
    BY <1>2
  <2>3. Smallest(kept) = y + 1
    <3>1. kept \in SUBSET Int /\ \A k \in kept : y + 1 <= k
      BY <2>2
    <3> QED BY <2>1, <3>1, SmallestIs
  <2>4. (CHOOSE k \in kept : \A j \in kept : k >= j) = e
    <3> DEFINE last == CHOOSE k \in kept : \A j \in kept : k >= j
    <3>1. last \in kept /\ \A j \in kept : last >= j
      BY <2>1, <2>2
    <3> HIDE DEF last
    <3>2. last = e
      BY <2>1, <2>2, <3>1
    <3> QED BY <3>2 DEF last
  <2>5. Unquoted(t) = IF kept = {} THEN <<>>
                      ELSE SubSeq(t, Smallest(kept), CHOOSE k \in kept : \A j \in kept : k >= j)
    BY Zenon DEF Unquoted, kept
  <2>6. Unquoted(t) = SubSeq(t, y + 1, e)
    BY <2>1, <2>3, <2>4, <2>5
  <2>7. y # e
    BY <1>4
  <2> QED BY <2>6, <2>7
<1> QED BY <1>3, <1>4

\* Str_unquote: the text without quotes and white space at both ends.
LEMMA UnquoteHeld ==
  ASSUME NEW len, NEW t, NEW r, HoldsText(r, len, t)
  PROVE  HoldsText(Str_unquote(r), len, Unquoted(t))
<1> DEFINE u == Len(t)
<1>1. /\ u \in Nat /\ u < len /\ len \in Nat /\ Strlen(r) = u /\ t \in Seq(Char)
      /\ r \in [0 .. len-1 -> Letter] /\ r[u] = NUL
      /\ \A j \in 0 .. u-1 : r[j] = t[j+1] /\ r[j] \in Char
  BY TextHeld
<1>2. CASE r[0] = NUL
  <2>1. u = 0
    BY <1>1, <1>2, Characters
  <2>2. Unquoted(t) = <<>>
    <3>1. /\ 0 \in Nat /\ 0 <= 0 /\ 0 <= Len(t) /\ \A k \in 1 .. 0 : Strip(t[k])
          /\ \A k \in 0+1 .. Len(t) : Strip(t[k])
      BY <2>1
    <3> QED BY <1>1, <3>1, UnquotedIs
  <2>3. t = <<>>
    BY <1>1, <2>1, EmptySeq, LenProperties
  <2> QED BY <1>2, <2>2, <2>3 DEF Str_unquote
<1>3. CASE r[0] # NUL
  <2> DEFINE S == {k \in 0 .. u : ~Strip(r[k])}
             l == Least(S)
             e == u - l
             v == Memmove(r, 0, l, e)
             T == {j \in 0 .. e : \A k \in j + 1 .. e - 1 : Strip(v[k])}
             h == Least(T)
  <2>1. l \in S /\ \A y \in S : l <= y
    <3>1. S \in SUBSET Nat /\ u \in S
      BY <1>1, NulStays
    <3> HIDE DEF S
    <3> QED BY <3>1, LeastExists
  <2>2. Str_unquote(r) = IF e = 0 THEN Zeroed(v, 0, 1) ELSE Zeroed(v, h + 1, e - h)
    BY <1>1, <1>3 DEF Str_unquote, Strip
  <2> HIDE DEF h
  <2> HIDE DEF l
  <2>3. l \in 0 .. u /\ ~Strip(r[l]) /\ e \in 0 .. u
    BY <1>1, <2>1
  <2>4. ASSUME NEW k \in 1 .. l PROVE Strip(t[k])
    <3>1. k-1 \in 0 .. u - 1 /\ k-1 \in 0 .. u /\ (k-1)+1 = k /\ ~(l <= k-1)
      BY <1>1, <2>3
    <3>2. k-1 \notin S
      <4> HIDE DEF S
      <4> QED BY <2>1, <3>1
    <3> QED BY <1>1, <3>1, <3>2
  <2>5. /\ v \in [0 .. len-1 -> Letter]
        /\ \A k \in 0 .. len-1 : v[k] = IF k \in 0 .. e-1 THEN r[l+k] ELSE r[k]
    <3>1. \A a, b \in Nat : a + b <= len =>
            /\ Memmove(r, 0, a, b) \in [0 .. len-1 -> Letter]
            /\ \A k \in 0 .. len-1 : Memmove(r, 0, a, b)[k] = IF k \in 0 .. b-1 THEN r[a+k] ELSE r[k]
      <4>1. len \in Nat /\ r \in [0 .. len-1 -> Letter]
        BY <1>1
      <4> QED BY <4>1, MovedToFront
    <3>2. l \in Nat /\ e \in Nat /\ l + e <= len
      BY <1>1, <2>3
    <3> HIDE DEF e
    <3> QED BY <3>1, <3>2
  <2>6. \A k \in 0 .. e-1 : k \in 0 .. len-1 /\ v[k] = r[l+k] /\ v[k] = t[l+k+1]
    <3> SUFFICES ASSUME NEW k \in 0 .. e-1
                 PROVE k \in 0 .. len-1 /\ v[k] = r[l+k] /\ v[k] = t[l+k+1]
      OBVIOUS
    <3>1. k \in 0 .. len-1 /\ l+k \in 0 .. u-1
      BY <1>1, <2>3
    <3> HIDE DEF v, e
    <3> QED BY <1>1, <2>5, <3>1
  <2> HIDE DEF v
  <2>7. CASE e = 0
    <3>1. l = u
      BY <1>1, <2>3, <2>7
    <3>2. Unquoted(t) = <<>>
      <4>1. /\ u \in Nat /\ u <= u /\ u <= Len(t) /\ \A k \in u+1 .. Len(t) : Strip(t[k])
            /\ ~(u < u) /\ t \in Seq(Char)
        BY <1>1
      <4>2. \A k \in 1 .. u : Strip(t[k])
        BY <2>4, <3>1
      <4>3. Unquoted(t) = IF u = u THEN <<>> ELSE SubSeq(t, u + 1, u)
        BY <4>1, <4>2, UnquotedIs
      <4> QED BY <4>3
    <3> DEFINE q == Zeroed(v, 0, 1)
    <3>3. q \in [0 .. len-1 -> Letter] /\ q[0] = NUL
      <4>1. 0 \in Nat /\ 1 \in Nat /\ 0 + 1 <= len /\ 0 \in 0 .. len-1 /\ 0 \in 0 .. 0+1-1
        BY <1>1
      <4> QED BY <1>1, <2>5, <4>1, ZeroedWritten
    <3> HIDE DEF q
    <3>4. HoldsText(q, len, SubSeq(t, 0 + 1, 0))
      <4>1. /\ 0 \in 0 .. Len(t) /\ 0 \in 0 .. 0 /\ 0-0 = 0 /\ q[0-0] = NUL
            /\ \A k \in 0 .. (0-0)-1 : q[k] = r[0+k]
        BY <1>1, <3>3
      <4> QED BY <3>3, <4>1, WindowHeld
    <3>5. SubSeq(t, 0 + 1, 0) = <<>>
      BY <1>1, SubSeqEmpty
    <3> QED BY <2>2, <2>7, <3>2, <3>4, <3>5 DEF q
  <2>8. CASE e # 0
    <3> HIDE DEF e
    <3>1. h \in T /\ \A y \in T : h <= y
      <4>1. T \in SUBSET Nat /\ e - 1 \in T
        BY <1>1, <2>3, <2>8
      <4> HIDE DEF T
      <4> QED BY <4>1, LeastExists DEF h
    <3>2. h \in 0 .. e-1 /\ \A k \in h+1 .. e-1 : Strip(v[k])
      <4>1. e - 1 \in T
        BY <1>1, <2>3, <2>8
      <4>2. h <= e-1
        <5> HIDE DEF T
        <5> QED BY <3>1, <4>1
      <4> QED BY <1>1, <2>3, <3>1, <4>2
    <3>3. ~Strip(v[h])
      <4>1. CASE h = 0
        <5>1. l+0 = l /\ 0 \in 0 .. e-1
          BY <2>3, <3>2, <4>1
        <5>2. v[0] = r[l+0]
          BY <2>6, <5>1
        <5> QED BY <2>3, <4>1, <5>1, <5>2
      <4>2. CASE h # 0
        <5>1. h-1 \in 0 .. e /\ h-1 \notin T
          <6>1. h-1 \in 0 .. e /\ ~(h <= h-1)
            BY <2>3, <3>2, <4>2
          <6> HIDE DEF T
          <6> QED BY <3>1, <6>1
        <5>2. PICK k \in (h-1)+1 .. e-1 : ~Strip(v[k])
          BY <5>1
        <5>3. k = h
          BY <2>3, <3>2, <5>2
        <5> QED BY <5>2, <5>3
      <4> QED BY <4>1, <4>2
    <3> DEFINE q == Zeroed(v, h + 1, e - h)
               x == l + h + 1
    <3>4. e = u - l
      BY DEF e
    <3>5. x \in 0 .. u /\ l \in 0 .. x /\ l # x /\ x - l = h + 1 /\ (x-l)-1 = h /\ h+1 \in 0 .. len-1
      BY <1>1, <2>3, <3>2, <3>4
    <3>6. /\ q \in [0 .. len-1 -> Letter]
          /\ \A k \in 0 .. len-1 : q[k] = IF k \in h+1 .. h+1 + (e-h) - 1 THEN NUL ELSE v[k]
      <4> DEFINE at == h + 1
                 d == e - h
      <4>1. at \in Nat /\ d \in Nat /\ at + d <= len
        BY <1>1, <2>3, <3>2, <3>4
      <4>2. q = Zeroed(v, at, d)
        OBVIOUS
      <4> HIDE DEF at, d, q
      <4>3. /\ q \in [0 .. len-1 -> Letter]
            /\ \A k \in 0 .. len-1 : q[k] = IF k \in at .. at + d - 1 THEN NUL ELSE v[k]
        <5>1. len \in Nat /\ v \in [0 .. len-1 -> Letter]
          BY <1>1, <2>5
        <5>2. /\ Zeroed(v, at, d) \in [0 .. len-1 -> Letter]
              /\ \A k \in 0 .. len-1 : Zeroed(v, at, d)[k] = IF k \in at .. at+d-1 THEN NUL ELSE v[k]
          BY <4>1, <5>1, ZeroedWritten
        <5> QED BY <4>2, <5>2
      <4> QED BY <4>3 DEF at, d
    <3> HIDE DEF q
    <3>7. \A k \in 0 .. h : q[k] = r[l+k]
      <4> SUFFICES ASSUME NEW k \in 0 .. h PROVE q[k] = r[l+k]
        OBVIOUS
      <4>1. k \in 0 .. e-1 /\ k \notin h+1 .. h+1 + (e-h) - 1
        BY <2>3, <3>2
      <4> QED BY <2>6, <3>6, <4>1
    <3>8. q[h+1] = NUL
      <4>1. h+1 \in h+1 .. h+1 + (e-h) - 1
        BY <2>3, <3>2
      <4> QED BY <3>5, <3>6, <4>1
    <3> HIDE DEF x
    <3>9. HoldsText(q, len, SubSeq(t, l + 1, x))
      BY <3>5, <3>6, <3>7, <3>8, WindowHeld
    <3>10. ASSUME NEW k \in x+1 .. Len(t) PROVE Strip(t[k])
      <4>1. k-1-l \in h+1 .. e-1 /\ k-1-l \in 0 .. e-1 /\ l+(k-1-l)+1 = k
        BY <1>1, <2>3, <3>2, <3>4, <3>5
      <4> DEFINE j == k-1-l
      <4>2. j \in h+1 .. e-1 /\ j \in 0 .. e-1 /\ l+j+1 = k
        BY <4>1
      <4> HIDE DEF j
      <4>3. Strip(v[j])
        BY <3>2, <4>2
      <4>4. v[j] = t[l+j+1]
        BY <2>6, <4>2
      <4> QED BY <4>2, <4>3, <4>4
    <3>11. ~Strip(t[l+1]) /\ ~Strip(t[x])
      <4>1. 0 \in 0 .. e-1 /\ h \in 0 .. e-1 /\ l+0+1 = l+1 /\ l+h+1 = x /\ l+0 = l
        BY <2>3, <3>2 DEF x
      <4>2. v[0] = r[l+0] /\ v[0] = t[l+0+1] /\ v[h] = t[l+h+1]
        BY <2>6, <4>1
      <4> QED BY <2>3, <3>3, <4>1, <4>2
    <3>12. Unquoted(t) = SubSeq(t, l + 1, x)
      <4>1. l \in Nat /\ x \in Nat /\ l <= x /\ x <= Len(t) /\ l # x
        BY <1>1, <2>3, <3>5
      <4> QED BY <1>1, <2>4, <3>10, <3>11, <4>1, UnquotedIs
    <3> QED BY <2>2, <2>8, <3>9, <3>12 DEF q
  <2> QED BY <2>7, <2>8
<1> QED BY <1>2, <1>3

-----------------------------------------------------------------------------
(* The functions of Str that go through a text in a loop. *)

\* Induction from the start.
LEMMA Upwards ==
  ASSUME NEW last \in Nat, NEW S, 0 \in S, \A j \in 0 .. last-1 : j \in S => j+1 \in S
  PROVE  \A j \in 0 .. last : j \in S
<1> DEFINE T == {j \in 0 .. last : last - j \in S}
<1>1. last \in T
  <2>1. last \in 0 .. last /\ last - last = 0
    OBVIOUS
  <2> QED BY <2>1
<1>2. ASSUME NEW j \in 0 .. last-1, \A l \in j+1 .. last : l \in T PROVE j \in T
  <2>1. j+1 \in T
    BY <1>2
  <2>2. last - (j+1) \in S /\ last - (j+1) \in 0 .. last-1 /\ (last - (j+1)) + 1 = last - j
    BY <2>1
  <2>3. last - j \in S
    BY <2>2
  <2> QED BY <2>3
<1>3. \A j \in 0 .. last : j \in T
  <2> HIDE DEF T
  <2> QED BY <1>1, <1>2, Downwards
<1>4. ASSUME NEW j \in 0 .. last PROVE j \in S
  <2>1. last - j \in T /\ last - (last - j) = j
    BY <1>3
  <2> QED BY <2>1
<1> QED BY <1>4

\* f holds what a loop has after so many steps from v.
Runs(f, last, V, v, step) ==
  f \in [0 .. last -> V] /\ f[0] = v /\ \A k \in 1 .. last : f[k] = step[f[k-1]]

LEMMA Iterated ==
  ASSUME NEW last \in Nat, NEW V, NEW v \in V, NEW step \in [V -> V]
  PROVE  \E f : Runs(f, last, V, v, step)
<1> DEFINE next == [j \in 0 .. last-1 |-> j+1]
           steps == [j \in 0 .. last-1 |-> step]
<1>1. /\ next \in [0 .. last-1 -> 1 .. last] /\ \A j \in 0 .. last-1 : j < next[j]
      /\ steps \in [0 .. last-1 -> [V -> V]]
  OBVIOUS
<1>2. \A j \in 0 .. last-1 : next[j] = j+1 /\ steps[j] = step
  OBVIOUS
<1> HIDE DEF next, steps
<1>3. PICK g : Solves(g, 0, last, V, v, next, steps)
  BY <1>1, Recursion
<1>4. /\ g \in [0 .. last -> V] /\ g[last] = v
      /\ \A j \in 0 .. last-1 : g[j] = step[g[j+1]]
  BY <1>2, <1>3 DEF Solves
<1> DEFINE f == [k \in 0 .. last |-> g[last-k]]
<1>5. f \in [0 .. last -> V]
  BY <1>4
<1>6. f[0] = v
  BY <1>4
<1>7. ASSUME NEW k \in 1 .. last PROVE f[k] = step[f[k-1]]
  <2>1. last-k \in 0 .. last-1 /\ (last-k)+1 = last-(k-1) /\ k-1 \in 0 .. last /\ k \in 0 .. last
    OBVIOUS
  <2>2. g[last-k] = step[g[(last-k)+1]]
    BY <1>4, <2>1
  <2> QED BY <2>1, <2>2
<1> HIDE DEF f
<1>8. Runs(f, last, V, v, step)
  BY <1>5, <1>6, <1>7 DEF Runs
<1> QED BY <1>8

\* A backslash after j characters of t stands before a character of the charset.
Escaped(t, j, charset) == j + 2 <= Len(t) /\ t[j + 1] = "\\" /\ t[j + 2] \in charset

\* What Unescaped is, from each place of the text on.
UnescapedBy(g, t, charset) ==
  /\ g \in [0 .. Len(t) -> Seq(Char)] /\ g[0] = Unescaped(t, charset) /\ g[Len(t)] = <<>>
  /\ \A j \in 0 .. Len(t) - 1 :
       g[j] = IF Escaped(t, j, charset) THEN <<t[j+2]>> \o g[j+2] ELSE <<t[j+1]>> \o g[j+1]

LEMMA UnescapedIs ==
  ASSUME NEW t \in Seq(Char), NEW charset
  PROVE  \E g : UnescapedBy(g, t, charset)
<1> DEFINE last == Len(t)
           empty == <<>>
           texts == Seq(Char)
           IsFrom(from) == from = [j \in 0 .. last |->
                                     IF j = last THEN <<>>
                                     ELSE IF j + 2 <= last /\ t[j + 1] = "\\" /\ t[j + 2] \in charset
                                     THEN <<t[j + 2]>> \o from[j + 2]
                                     ELSE <<t[j + 1]>> \o from[j + 1]]
           next == [j \in 0 .. last-1 |-> IF Escaped(t, j, charset) THEN j + 2 ELSE j + 1]
           step == [j \in 0 .. last-1 |->
                      [v \in texts |-> IF Escaped(t, j, charset) THEN <<t[j+2]>> \o v ELSE <<t[j+1]>> \o v]]
<1>1. last \in Nat /\ empty \in texts
  BY LenProperties, EmptySeq
<1>2. \A j \in 1 .. last : <<t[j]>> \in texts
  BY ElementOfSeq
<1>3. ASSUME NEW j \in 0 .. last-1
      PROVE  /\ j + 1 \in 1 .. last /\ j + 1 \in 0 .. last
             /\ Escaped(t, j, charset) => j + 2 \in 1 .. last /\ j + 2 \in 0 .. last
             /\ \A v \in texts : <<t[j+1]>> \o v \in texts
             /\ Escaped(t, j, charset) => \A v \in texts : <<t[j+2]>> \o v \in texts
  <2>1. j + 1 \in 1 .. last /\ j + 1 \in 0 .. last
        /\ (Escaped(t, j, charset) => j + 2 \in 1 .. last /\ j + 2 \in 0 .. last)
    BY <1>1 DEF Escaped
  <2> QED BY <1>2, <2>1, ConcatProperties
<1>4. /\ next \in [0 .. last-1 -> 1 .. last] /\ step \in [0 .. last-1 -> [texts -> texts]]
      /\ \A j \in 0 .. last-1 : j < next[j]
  <2>1. \A j \in 0 .. last-1 : next[j] \in 1 .. last /\ j < next[j]
    BY <1>3
  <2>2. \A j \in 0 .. last-1 : step[j] \in [texts -> texts]
    BY <1>3
  <2> QED BY <2>1, <2>2
<1>5. \A j \in 0 .. last-1 : next[j] = IF Escaped(t, j, charset) THEN j + 2 ELSE j + 1
  OBVIOUS
<1>6. \A j \in 0 .. last-1 : \A v \in texts :
        step[j][v] = IF Escaped(t, j, charset) THEN <<t[j+2]>> \o v ELSE <<t[j+1]>> \o v
  OBVIOUS
<1> HIDE DEF next, step, empty, texts, last
<1>7. PICK f \in [0 .. last -> texts] :
        f[last] = empty /\ \A j \in 0 .. last-1 : f[j] = step[j][f[next[j]]]
  <2>1. \E f : Solves(f, 0, last, texts, empty, next, step)
    BY <1>1, <1>4, Recursion
  <2> QED BY <2>1 DEF Solves
<1>8. IsFrom(f)
  <2>1. ASSUME NEW j \in 0 .. last-1
        PROVE  f[j] = IF Escaped(t, j, charset) THEN <<t[j+2]>> \o f[j+2] ELSE <<t[j+1]>> \o f[j+1]
    <3>1. next[j] \in 0 .. last /\ f[next[j]] \in texts
      BY <1>1, <1>4, <1>7
    <3>2. f[j] = step[j][f[next[j]]]
      BY <1>7
    <3> QED BY <1>5, <1>6, <3>1, <3>2
  <2>2. ASSUME NEW j \in 0 .. last
        PROVE  f[j] = IF j = last THEN <<>>
                      ELSE IF j + 2 <= last /\ t[j + 1] = "\\" /\ t[j + 2] \in charset
                      THEN <<t[j + 2]>> \o f[j + 2]
                      ELSE <<t[j + 1]>> \o f[j + 1]
    <3>1. CASE j = last
      BY <1>7, <3>1 DEF empty
    <3>2. CASE j # last
      <4>1. j \in 0 .. last-1
        BY <1>1, <3>2
      <4> QED BY <2>1, <3>2, <4>1 DEF Escaped, last
    <3> QED BY <3>1, <3>2
  <2>3. f = [j \in 0 .. last |-> f[j]]
    BY <1>7
  <2> QED BY <2>2, <2>3, Zenon
<1> DEFINE g == CHOOSE from : IsFrom(from)
<1>9. IsFrom(g)
  BY <1>8
<1>10. Unescaped(t, charset) = g[0]
  BY DEF Unescaped, last
<1> HIDE DEF g
<1>11. \A j \in 0 .. last : g[j] = IF j = last THEN <<>>
                      ELSE IF j + 2 <= last /\ t[j + 1] = "\\" /\ t[j + 2] \in charset
                      THEN <<t[j + 2]>> \o g[j + 2]
                      ELSE <<t[j + 1]>> \o g[j + 1]
  BY <1>9
<1>12. g[last] = empty
  <2>1. last \in 0 .. last
    BY <1>1
  <2> QED BY <1>11, <2>1 DEF empty
<1>13. \A j \in 0 .. last-1 :
         g[j] = IF Escaped(t, j, charset) THEN <<t[j+2]>> \o g[j+2] ELSE <<t[j+1]>> \o g[j+1]
  <2>1. \A j \in 0 .. last-1 : j \in 0 .. last /\ j # last
    BY <1>1
  <2> QED BY <1>11, <2>1 DEF Escaped, last
<1>14. \A j \in 0 .. last : g[j] \in texts
  <2> DEFINE S == {j \in 0 .. last : g[j] \in texts}
  <2>1. last \in S
    BY <1>1, <1>12
  <2>2. ASSUME NEW j \in 0 .. last-1, \A l \in j+1 .. last : l \in S PROVE j \in S
    <3>1. CASE Escaped(t, j, charset)
      <4>1. j + 2 \in j+1 .. last
        BY <1>1, <1>3, <3>1
      <4>2. <<t[j+2]>> \o g[j+2] \in texts
        BY <1>3, <2>2, <3>1, <4>1
      <4>3. g[j] = <<t[j+2]>> \o g[j+2]
        BY <1>13, <3>1, Zenon
      <4>4. j \in 0 .. last
        BY <1>1
      <4> QED BY <4>2, <4>3, <4>4
    <3>2. CASE ~Escaped(t, j, charset)
      <4>1. j + 1 \in j+1 .. last
        BY <1>1, <1>3
      <4>2. <<t[j+1]>> \o g[j+1] \in texts
        BY <1>3, <2>2, <4>1
      <4>3. g[j] = <<t[j+1]>> \o g[j+1]
        BY <1>13, <3>2, Zenon
      <4>4. j \in 0 .. last
        BY <1>1
      <4> QED BY <4>2, <4>3, <4>4
    <3> QED BY <3>1, <3>2
  <2> HIDE DEF S
  <2>3. \A j \in 0 .. last : j \in S
    BY <1>1, <2>1, <2>2, Downwards
  <2> QED BY <2>3 DEF S
<1>15. g \in [0 .. last -> texts]
  <2>1. g = [j \in 0 .. last |-> g[j]]
    BY <1>9
  <2> QED BY <1>14, <2>1
<1>16. UnescapedBy(g, t, charset)
  BY <1>10, <1>12, <1>13, <1>15 DEF UnescapedBy, last, empty, texts
<1> QED BY <1>16

\* The array r of len bytes begins with the text w.
Begins(r, len, w) ==
  /\ len \in Nat /\ r \in [0 .. len-1 -> Letter]
  /\ w \in Seq(Char) /\ Len(w) <= len
  /\ \A k \in 1 .. Len(w) : r[k-1] = w[k]

LEMMA BeginsMore ==
  ASSUME NEW len, NEW r, NEW w, Begins(r, len, w), NEW v \in Seq(Char), Len(w) + Len(v) <= len
  PROVE  /\ Begins(Memcpy(r, Len(w), v), len, w \o v) /\ Len(w \o v) = Len(w) + Len(v)
         /\ \A k \in Len(w) + Len(v) .. len-1 : Memcpy(r, Len(w), v)[k] = r[k]
<1>1. /\ len \in Nat /\ r \in [0 .. len-1 -> Letter] /\ w \in Seq(Char) /\ Len(w) \in Nat
      /\ Len(v) \in Nat /\ \A k \in 1 .. Len(w) : r[k-1] = w[k]
  BY LenProperties DEF Begins
<1> DEFINE q == Memcpy(r, Len(w), v)
           b == w \o v
<1>2. /\ q \in [0 .. len-1 -> Letter]
      /\ \A k \in 0 .. len-1 :
           q[k] = IF k \in Len(w) .. Len(w) + Len(v) - 1 THEN v[k-Len(w)+1] ELSE r[k]
  <2>1. v \in Seq(Letter)
    BY TextWritten
  <2> QED BY <1>1, <2>1, MemcpyWritten
<1>3. /\ b \in Seq(Char) /\ Len(b) = Len(w) + Len(v)
      /\ \A k \in 1 .. Len(w) + Len(v) : b[k] = IF k <= Len(w) THEN w[k] ELSE v[k - Len(w)]
  BY <1>1, ConcatProperties
<1> HIDE DEF q, b
<1>4. ASSUME NEW k \in 1 .. Len(b) PROVE q[k-1] = b[k]
  <2>1. k-1 \in 0 .. len-1
    BY <1>1, <1>3
  <2>2. CASE k <= Len(w)
    <3>1. k-1 \notin Len(w) .. Len(w) + Len(v) - 1 /\ k \in 1 .. Len(w)
      BY <1>1, <1>3, <2>2
    <3> QED BY <1>1, <1>2, <1>3, <2>1, <2>2, <3>1
  <2>3. CASE ~(k <= Len(w))
    <3>1. k-1 \in Len(w) .. Len(w) + Len(v) - 1 /\ k-1-Len(w)+1 = k-Len(w)
      BY <1>1, <1>3, <2>3
    <3> QED BY <1>2, <1>3, <2>1, <2>3, <3>1
  <2> QED BY <2>2, <2>3
<1>5. Begins(q, len, b)
  BY <1>1, <1>2, <1>3, <1>4 DEF Begins
<1>6. \A k \in Len(w) + Len(v) .. len-1 : q[k] = r[k]
  BY <1>1, <1>2
<1> QED BY <1>3, <1>5, <1>6 DEF q, b

LEMMA BeginsOneMore ==
  ASSUME NEW len, NEW r, NEW w, Begins(r, len, w), NEW c \in Char, Len(w) < len
  PROVE  /\ Begins([r EXCEPT ![Len(w)] = c], len, w \o <<c>>) /\ Len(w \o <<c>>) = Len(w) + 1
         /\ \A k \in Len(w) + 1 .. len-1 : [r EXCEPT ![Len(w)] = c][k] = r[k]
<1>1. len \in Nat /\ r \in [0 .. len-1 -> Letter] /\ w \in Seq(Char) /\ Len(w) \in Nat
  BY LenProperties DEF Begins
<1> DEFINE v == <<c>>
<1>2. v \in Seq(Char) /\ Len(v) = 1 /\ v[1] = c
  OBVIOUS
<1> HIDE DEF v
<1>3. [r EXCEPT ![Len(w)] = c] = Memcpy(r, Len(w), v)
  <2>1. \A k \in 0 .. len-1 : (k \in Len(w) .. Len(w) + Len(v) - 1) <=> k = Len(w)
    BY <1>1, <1>2
  <2>2. Len(w)-Len(w)+1 = 1 /\ DOMAIN r = 0 .. len-1
    BY <1>1
  <2>3. DOMAIN r \cup Len(w) .. Len(w) + Len(v) - 1 = DOMAIN r
    BY <1>1, <1>2
  <2> QED BY <1>1, <1>2, <2>1, <2>2, <2>3 DEF Memcpy
<1>4. Len(w) + Len(v) <= len /\ Len(w) + Len(v) = Len(w) + 1
  BY <1>1, <1>2
<1>5. /\ Begins(Memcpy(r, Len(w), v), len, w \o v) /\ Len(w \o v) = Len(w) + Len(v)
      /\ \A k \in Len(w) + Len(v) .. len-1 : Memcpy(r, Len(w), v)[k] = r[k]
  <2>1. v \in Seq(Char) /\ Len(w) + Len(v) <= len
    BY <1>2, <1>4
  <2> QED BY <2>1, BeginsMore
<1>6. /\ Begins([r EXCEPT ![Len(w)] = c], len, w \o v) /\ Len(w \o v) = Len(w) + 1
      /\ \A k \in Len(w) + 1 .. len-1 : [r EXCEPT ![Len(w)] = c][k] = r[k]
  BY <1>3, <1>4, <1>5
<1> QED BY <1>6 DEF v

\* A NUL behind the text makes it the string.
LEMMA EndHeld ==
  ASSUME NEW len, NEW r, NEW w, Begins(r, len, w), Len(w) < len
  PROVE  HoldsText(Zeroed(r, Len(w), 1), len, w)
<1>1. /\ len \in Nat /\ r \in [0 .. len-1 -> Letter] /\ w \in Seq(Char) /\ Len(w) \in Nat
      /\ \A k \in 1 .. Len(w) : r[k-1] = w[k]
  BY LenProperties DEF Begins
<1>2. /\ Zeroed(r, Len(w), 1) \in [0 .. len-1 -> Letter]
      /\ \A k \in 0 .. len-1 : Zeroed(r, Len(w), 1)[k] = IF k = Len(w) THEN NUL ELSE r[k]
  <2>1. Len(w) + 1 <= len
    BY <1>1
  <2>2. /\ Zeroed(r, Len(w), 1) \in [0 .. len-1 -> Letter]
        /\ \A k \in 0 .. len-1 :
             Zeroed(r, Len(w), 1)[k] = IF k \in Len(w) .. Len(w)+1-1 THEN NUL ELSE r[k]
    BY <1>1, <2>1, ZeroedWritten
  <2>3. \A k \in 0 .. len-1 : k \in Len(w) .. Len(w)+1-1 <=> k = Len(w)
    BY <1>1
  <2> QED BY <2>2, <2>3
<1>3. \A k \in 1 .. Len(w) : k-1 \in 0 .. len-1 /\ k-1 # Len(w)
  BY <1>1
<1> QED BY <1>1, <1>2, <1>3 DEF HoldsText

\* The states of the loop of Str_unescape on the array r that holds t: what is in front, and what
\* is left of the text, are the text without its escapes.
Unescaping(r, len, t, g) ==
  {l \in [m : [0 .. len-1 -> Letter], x : 0 .. Len(t), y : 0 .. Len(t)] :
     /\ l.x <= l.y
     /\ \A k \in l.y .. Len(t) : l.m[k] = r[k]
     /\ \E w \in Seq(Char) : Begins(l.m, len, w) /\ Len(w) = l.x /\ w \o g[l.y] = g[0]}

LEMMA UnescapeStepIs ==
  ASSUME NEW len, NEW t, NEW r, HoldsText(r, len, t), NEW charset, NUL \notin charset,
         NEW g, UnescapedBy(g, t, charset), NEW l \in Unescaping(r, len, t, g)
  PROVE  /\ UnescapeStep(l, charset) \in Unescaping(r, len, t, g)
         /\ l.y < Len(t) => l.y < UnescapeStep(l, charset).y
         /\ l.y = Len(t) => UnescapeStep(l, charset) = l
<1> DEFINE u == Len(t)
           q == l.m
           x == l.x
           y == l.y
<1>1. /\ q \in [0 .. len-1 -> Letter] /\ x \in 0 .. u /\ y \in 0 .. u /\ x <= y
      /\ \A k \in y .. u : q[k] = r[k]
  BY DEF Unescaping
<1>2. PICK w \in Seq(Char) : Begins(q, len, w) /\ Len(w) = x /\ w \o g[y] = g[0]
  BY DEF Unescaping
<1>3. /\ len \in Nat \ {0} /\ u \in 0 .. len-1 /\ r[u] = NUL /\ t \in Seq(Char)
      /\ \A k \in 0 .. u-1 : r[k] = t[k+1] /\ r[k] \in Char
  BY TextHeld
<1>4. /\ g \in [0 .. u -> Seq(Char)]
      /\ \A j \in 0 .. u-1 : g[j] = IF Escaped(t, j, charset) THEN <<t[j+2]>> \o g[j+2] ELSE <<t[j+1]>> \o g[j+1]
  BY DEF UnescapedBy
<1> HIDE DEF u, q, x, y
<1>5. q[y] = r[y]
  BY <1>1, <1>3
<1>6. UnescapeStep(l, charset) =
        IF q[y] = NUL THEN l
        ELSE IF q[y] = "\\" /\ q[y+1] \in charset
        THEN [m |-> [q EXCEPT ![x] = q[y+1]], x |-> x + 1, y |-> y + 2]
        ELSE [m |-> [q EXCEPT ![x] = q[y]], x |-> x + 1, y |-> y + 1]
  BY DEF UnescapeStep, q, x, y
<1>7. CASE y = u
  <2>1. UnescapeStep(l, charset) = l
    BY <1>3, <1>5, <1>6, <1>7
  <2> QED BY <1>3, <1>7, <2>1 DEF y, u
<1>8. CASE y # u
  <2>1. y \in 0 .. u-1 /\ q[y] = t[y+1] /\ q[y] \in Char /\ q[y] # NUL /\ y+1 \in y .. u
    <3>1. y \in 0 .. u-1 /\ y+1 \in y .. u
      BY <1>1, <1>3, <1>8
    <3> QED BY <1>3, <1>5, <3>1, Characters
  <2>2. (q[y] = "\\" /\ q[y+1] \in charset) <=> Escaped(t, y, charset)
    <3>1. CASE y+1 = u
      <4>1. q[y+1] = NUL /\ ~(y + 2 <= u)
        BY <1>1, <1>3, <2>1, <3>1
      <4> QED BY <4>1 DEF Escaped, u
    <3>2. CASE y+1 # u
      <4>1. y+1 \in 0 .. u-1 /\ (y+1)+1 = y+2 /\ y+2 <= u
        BY <1>3, <2>1, <3>2
      <4>2. q[y+1] = t[y+2]
        BY <1>1, <1>3, <2>1, <4>1
      <4> QED BY <2>1, <4>1, <4>2 DEF Escaped, u
    <3> QED BY <3>1, <3>2
  <2>3. ASSUME NEW c \in Char, NEW z \in y+1 .. u, g[y] = <<c>> \o g[z]
        PROVE  [m |-> [q EXCEPT ![x] = c], x |-> x + 1, y |-> z] \in Unescaping(r, len, t, g)
    <3> DEFINE p == [q EXCEPT ![x] = c]
    <3>1. x < len /\ x + 1 \in 0 .. u /\ x + 1 <= z /\ z \in 0 .. u
      BY <1>1, <1>3, <2>1
    <3>2. /\ Begins(p, len, w \o <<c>>) /\ Len(w \o <<c>>) = x + 1
          /\ \A k \in x + 1 .. len-1 : p[k] = q[k]
      BY <1>2, <3>1, BeginsOneMore
    <3> HIDE DEF p
    <3>3. \A k \in z .. u : p[k] = r[k]
      <4>1. \A k \in z .. u : k \in x + 1 .. len-1 /\ k \in y .. u
        BY <1>1, <1>3, <3>1
      <4> QED BY <1>1, <3>2, <4>1
    <3>4. (w \o <<c>>) \o g[z] = g[0]
      <4> DEFINE e == <<c>>
                 rest == g[z]
      <4>1. e \in Seq(Char) /\ rest \in Seq(Char)
        BY <1>4, <3>1
      <4> HIDE DEF e, rest
      <4>2. (w \o e) \o rest = w \o (e \o rest)
        BY <4>1, ConcatAssociative
      <4> USE DEF e, rest
      <4> QED BY <1>2, <2>3, <4>2
    <3>5. p \in [0 .. len-1 -> Letter] /\ w \o <<c>> \in Seq(Char)
      BY <3>2 DEF Begins
    <3> DEFINE k == [m |-> p, x |-> x + 1, y |-> z]
    <3>6. k.m = p /\ k.x = x + 1 /\ k.y = z
          /\ k \in [m : [0 .. len-1 -> Letter], x : 0 .. u, y : 0 .. u]
      BY <3>1, <3>5
    <3> HIDE DEF k
    <3>7. k \in Unescaping(r, len, t, g)
      BY <3>1, <3>2, <3>3, <3>4, <3>5, <3>6 DEF Unescaping, u
    <3> QED BY <3>7 DEF k, p
  <2>4. CASE Escaped(t, y, charset)
    <3>1. y+2 \in y+1 .. u /\ y+1 \in 0 .. u-1 /\ (y+1)+1 = y+2
      BY <1>1, <2>1, <2>4 DEF Escaped, u
    <3>2. q[y+1] = t[y+2] /\ q[y+1] \in Char
      BY <1>1, <1>3, <2>1, <3>1
    <3>3. g[y] = <<q[y+1]>> \o g[y+2]
      BY <1>4, <2>1, <2>4, <3>2
    <3>4. UnescapeStep(l, charset) = [m |-> [q EXCEPT ![x] = q[y+1]], x |-> x + 1, y |-> y + 2]
      BY <1>6, <2>1, <2>2, <2>4
    <3>5. UnescapeStep(l, charset) \in Unescaping(r, len, t, g)
      BY <2>3, <3>1, <3>2, <3>3, <3>4
    <3>6. UnescapeStep(l, charset).y = y + 2
      BY <3>4
    <3> QED BY <1>8, <2>1, <3>5, <3>6 DEF y, u
  <2>5. CASE ~Escaped(t, y, charset)
    <3>1. y+1 \in y+1 .. u
      BY <2>1
    <3>2. g[y] = <<q[y]>> \o g[y+1]
      <4>1. g[y] = <<t[y+1]>> \o g[y+1]
        BY <1>4, <2>1, <2>5, Zenon
      <4> QED BY <2>1, <4>1
    <3>3. UnescapeStep(l, charset) = [m |-> [q EXCEPT ![x] = q[y]], x |-> x + 1, y |-> y + 1]
      BY <1>6, <2>1, <2>2, <2>5, Zenon
    <3>4. UnescapeStep(l, charset) \in Unescaping(r, len, t, g)
      BY <2>1, <2>3, <3>1, <3>2, <3>3
    <3>5. UnescapeStep(l, charset).y = y + 1
      BY <3>3
    <3> QED BY <1>8, <2>1, <3>4, <3>5 DEF y, u
  <2> QED BY <2>4, <2>5
<1> QED BY <1>7, <1>8

\* Str_unescape: the text without the backslashes that stand before a character of the charset.
LEMMA UnescapeHeld ==
  ASSUME NEW len, NEW t, NEW r, HoldsText(r, len, t), NEW charset, NUL \notin charset
  PROVE  HoldsText(Str_unescape(r, charset), len, Unescaped(t, charset))
<1> DEFINE u == Len(t)
<1>1. /\ len \in Nat \ {0} /\ u \in 0 .. len-1 /\ Size(r) = len /\ t \in Seq(Char)
      /\ r \in [0 .. len-1 -> Letter]
  BY TextHeld
<1>2. PICK g : UnescapedBy(g, t, charset)
  BY <1>1, UnescapedIs
<1>3. g \in [0 .. u -> Seq(Char)] /\ g[0] = Unescaped(t, charset) /\ g[u] = <<>>
  BY <1>2 DEF UnescapedBy
<1> DEFINE V == Unescaping(r, len, t, g)
           start == [m |-> r, x |-> 0, y |-> 0]
           step == [l \in V |-> UnescapeStep(l, charset)]
           IsRun(f) == f = [k \in 0 .. len |-> IF k = 0 THEN start ELSE UnescapeStep(f[k-1], charset)]
<1>4. start \in V
  <2> DEFINE none == <<>>
             whole == g[0]
  <2>1. none \in Seq(Char) /\ Len(none) = 0 /\ whole \in Seq(Char)
    BY <1>1, <1>3, EmptySeq
  <2> HIDE DEF none, whole
  <2>2. none \o whole = whole
    BY <2>1, ConcatEmptySeq DEF none
  <2>3. Begins(r, len, none)
    BY <1>1, <2>1 DEF Begins
  <2>4. /\ start.m = r /\ start.x = 0 /\ start.y = 0
        /\ start \in [m : [0 .. len-1 -> Letter], x : 0 .. u, y : 0 .. u]
    BY <1>1
  <2> HIDE DEF start
  <2>5. \E w \in Seq(Char) : Begins(start.m, len, w) /\ Len(w) = start.x /\ w \o g[start.y] = g[0]
    BY <2>1, <2>2, <2>3, <2>4 DEF whole
  <2>6. start.x <= start.y /\ \A k \in start.y .. Len(t) : start.m[k] = r[k]
    BY <2>4
  <2> QED BY <2>4, <2>5, <2>6, Zenon DEF Unescaping
<1>5. \A l \in V : /\ UnescapeStep(l, charset) \in V
                   /\ l.y < u => l.y < UnescapeStep(l, charset).y
                   /\ l.y = u => UnescapeStep(l, charset) = l
  BY <1>2, UnescapeStepIs
<1> HIDE DEF V, start
<1>6. step \in [V -> V]
  BY <1>5
<1>7. PICK f \in [0 .. len -> V] : f[0] = start /\ \A k \in 1 .. len : f[k] = step[f[k-1]]
  <2> HIDE DEF step
  <2>1. len \in Nat
    BY <1>1
  <2>2. \E f : Runs(f, len, V, start, step)
    BY <1>4, <1>6, <2>1, Iterated
  <2> QED BY <2>2 DEF Runs
<1>8. IsRun(f)
  <2>1. ASSUME NEW k \in 0 .. len
        PROVE  f[k] = IF k = 0 THEN start ELSE UnescapeStep(f[k-1], charset)
    <3>1. CASE k = 0
      BY <1>7, <3>1
    <3>2. CASE k # 0
      <4>1. k \in 1 .. len /\ k-1 \in 0 .. len
        BY <1>1, <3>2
      <4>2. f[k] = step[f[k-1]] /\ f[k-1] \in V
        BY <1>7, <4>1
      <4> QED BY <3>2, <4>2
    <3> QED BY <3>1, <3>2
  <2>2. f = [k \in 0 .. len |-> f[k]]
    BY <1>7
  <2> QED BY <2>1, <2>2, Zenon
<1> DEFINE after == CHOOSE a : IsRun(a)
<1>9. IsRun(after)
  BY <1>8
<1>10. Str_unescape(r, charset) = Zeroed(after[len].m, after[len].x, 1)
  BY <1>1 DEF Str_unescape, start
<1> HIDE DEF after
<1>11. after[0] = start /\ \A k \in 0 .. len-1 : after[k+1] = UnescapeStep(after[k], charset)
  <2>1. \A k \in 0 .. len : after[k] = IF k = 0 THEN start ELSE UnescapeStep(after[k-1], charset)
    BY <1>9
  <2>2. 0 \in 0 .. len /\ \A k \in 0 .. len-1 : k+1 \in 0 .. len /\ k+1 # 0 /\ (k+1)-1 = k
    BY <1>1
  <2>3. after[0] = start
    BY <2>1, <2>2
  <2>4. ASSUME NEW k \in 0 .. len-1 PROVE after[k+1] = UnescapeStep(after[k], charset)
    <3>1. after[k+1] = IF k+1 = 0 THEN start ELSE UnescapeStep(after[(k+1)-1], charset)
      BY <2>1, <2>2
    <3> QED BY <2>2, <3>1
  <2> QED BY <2>3, <2>4
<1> DEFINE S == {k \in 0 .. len : after[k] \in V /\ (after[k].y >= k \/ after[k].y = u)}
<1>12. \A k \in 0 .. len : k \in S
  <2>1. 0 \in S
    BY <1>1, <1>4, <1>11 DEF start
  <2>2. ASSUME NEW k \in 0 .. len-1, k \in S PROVE k+1 \in S
    <3> DEFINE l == after[k]
               next == after[k+1]
    <3>1. l \in V /\ (l.y >= k \/ l.y = u) /\ next = UnescapeStep(l, charset)
      BY <1>11, <2>2
    <3>2. next \in V /\ (l.y < u => l.y < next.y) /\ (l.y = u => next = l)
      BY <1>5, <3>1
    <3>3. l.y \in 0 .. u /\ next.y \in 0 .. u
      BY <3>1, <3>2 DEF V, Unescaping
    <3>4. next.y >= k+1 \/ next.y = u
      <4> HIDE DEF l, next
      <4> QED BY <1>1, <3>1, <3>2, <3>3
    <3>5. k+1 \in 0 .. len
      BY <1>1
    <3> QED BY <3>2, <3>4, <3>5
  <2> HIDE DEF S
  <2> QED BY <1>1, <2>1, <2>2, Upwards
<1>13. after[len] \in V /\ after[len].y = u
  <2>1. len \in S
    BY <1>1, <1>12
  <2>2. after[len] \in V /\ (after[len].y >= len \/ after[len].y = u)
    BY <2>1
  <2>3. after[len].y \in 0 .. u
    BY <2>2 DEF V, Unescaping
  <2> QED BY <1>1, <2>2, <2>3
<1> DEFINE q == after[len].m
           x == after[len].x
<1>14. PICK w \in Seq(Char) : Begins(q, len, w) /\ Len(w) = x /\ w \o g[u] = g[0]
  BY <1>13 DEF V, Unescaping
<1>15. x \in 0 .. u
  BY <1>13 DEF V, Unescaping
<1>16. w = Unescaped(t, charset)
  <2>1. w \o <<>> = w
    BY <1>14, ConcatEmptySeq
  <2> QED BY <1>3, <1>14, <2>1
<1> HIDE DEF q, x
<1>17. HoldsText(Zeroed(q, Len(w), 1), len, w)
  BY <1>1, <1>14, <1>15, EndHeld
<1>18. Str_unescape(r, charset) = Zeroed(q, x, 1)
  BY <1>10 DEF q, x
<1> QED BY <1>14, <1>16, <1>17, <1>18

\* What ZerosEscaped is, from each place of the bytes on, with each room.
EscapedBy(g, b, room) ==
  /\ g[0][room] = ZerosEscaped(b, NUL, room)
  /\ \A j \in 0 .. Len(b), z \in 0 .. room :
       /\ g[j][z] \in Seq(Char)
       /\ j = Len(b) \/ z = 0 => g[j][z] = <<>>
       /\ j < Len(b) /\ z > 0 /\ b[j+1] # NUL => g[j][z] = <<b[j+1]>> \o g[j+1][z-1]
       /\ j < Len(b) /\ z = 1 /\ b[j+1] = NUL => g[j][z] = <<>>
       /\ j < Len(b) /\ z > 1 /\ b[j+1] = NUL => g[j][z] = <<"\\", "0">> \o g[j+1][z-2]

LEMMA TwoCharacters == <<"\\", "0">> \in Seq(Char) /\ Len(<<"\\", "0">>) = 2
<1>1. "\\" \in Char /\ "0" \in Char
  BY LettersAssumption
<1> QED BY <1>1

LEMMA ZerosEscapedIs ==
  ASSUME NEW b \in Seq(Letter), NEW room \in Nat
  PROVE  \E g : EscapedBy(g, b, room)
<1> DEFINE last == Len(b)
           empty == <<>>
           pair == <<"\\", "0">>
           texts == Seq(Char)
           rooms == 0 .. room
           V == [rooms -> texts]
           IsFrom(from) == from = [j \in 0 .. last |->
                                     [r \in 0 .. room |->
                                        IF j = last \/ r = 0 THEN <<>>
                                        ELSE IF b[j + 1] # NUL THEN <<b[j + 1]>> \o from[j + 1][r - 1]
                                        ELSE IF r = 1 THEN <<>>
                                        ELSE <<"\\", "0">> \o from[j + 1][r - 2]]]
           next == [j \in 0 .. last-1 |-> j + 1]
           With(j, z, h) == IF z = 0 THEN empty
                            ELSE IF b[j+1] # NUL THEN <<b[j+1]>> \o h[z-1]
                            ELSE IF z = 1 THEN empty
                            ELSE pair \o h[z-2]
           step == [j \in 0 .. last-1 |-> [h \in V |-> [z \in rooms |-> With(j, z, h)]]]
           none == [z \in rooms |-> empty]
<1>1. last \in Nat /\ empty \in texts /\ pair \in texts
  BY LenProperties, EmptySeq, TwoCharacters
<1>2. \A j \in 0 .. last-1 : b[j+1] # NUL => <<b[j+1]>> \in texts
  <2> SUFFICES ASSUME NEW j \in 0 .. last-1, b[j+1] # NUL PROVE <<b[j+1]>> \in texts
    OBVIOUS
  <2>1. j+1 \in 1 .. Len(b)
    BY <1>1
  <2>2. b[j+1] \in Letter
    BY <2>1, ElementOfSeq
  <2> QED BY <2>2 DEF Letter
<1>3. ASSUME NEW j \in 0 .. last-1, NEW v \in texts
      PROVE  /\ pair \o v \in texts
             /\ b[j+1] # NUL => <<b[j+1]>> \o v \in texts
  <2> HIDE DEF pair
  <2> QED BY <1>1, <1>2, ConcatProperties
<1> HIDE DEF pair, texts, empty
<1>4. ASSUME NEW j \in 0 .. last-1, NEW h \in V, NEW z \in rooms PROVE With(j, z, h) \in texts
  <2>1. CASE z = 0
    BY <1>1, <2>1
  <2>2. CASE z # 0 /\ b[j+1] # NUL
    <3>1. z-1 \in rooms
      BY <2>2
    <3>2. h[z-1] \in texts
      BY <3>1
    <3> QED BY <1>3, <2>2, <3>2
  <2>3. CASE z # 0 /\ b[j+1] = NUL /\ z = 1
    BY <1>1, <2>3
  <2>4. CASE z # 0 /\ b[j+1] = NUL /\ z # 1
    <3>1. z-2 \in rooms
      BY <2>4
    <3>2. h[z-2] \in texts
      BY <3>1
    <3> QED BY <1>3, <2>4, <3>2
  <2> QED BY <2>1, <2>2, <2>3, <2>4
<1>5. /\ next \in [0 .. last-1 -> 1 .. last] /\ \A j \in 0 .. last-1 : j < next[j]
      /\ none \in V
  BY <1>1
<1>6. step \in [0 .. last-1 -> [V -> V]]
  <2>1. \A j \in 0 .. last-1 : \A h \in V : [z \in rooms |-> With(j, z, h)] \in V
    <3> HIDE DEF With
    <3> QED BY <1>4
  <2> HIDE DEF V, With
  <2> QED BY <2>1
<1>7. PICK h : Solves(h, 0, last, V, none, next, step)
  <2> HIDE DEF V, none, next, step
  <2> QED BY <1>1, <1>5, <1>6, Recursion
<1>8. /\ \A j \in 0 .. last : h[j] \in V
      /\ h[last] = none
      /\ \A j \in 0 .. last-1 : h[j] = step[j][h[next[j]]]
  BY <1>7 DEF Solves
<1>9. \A z \in rooms : h[last][z] = empty
  BY <1>8
<1>10. ASSUME NEW j \in 0 .. last-1, NEW z \in rooms PROVE h[j][z] = With(j, z, h[j+1])
  <2>1. next[j] = j+1 /\ h[j+1] \in V
    BY <1>1, <1>8
  <2>2. h[j] = step[j][h[j+1]]
    BY <1>8, <2>1
  <2>3. h[j] = [y \in rooms |-> With(j, y, h[j+1])]
    <3> HIDE DEF V, With
    <3> QED BY <2>1, <2>2
  <2> HIDE DEF With
  <2> QED BY <2>3
<1>11. IsFrom(h)
  <2>1. ASSUME NEW j \in 0 .. last, NEW z \in 0 .. room
        PROVE  h[j][z] = IF j = last \/ z = 0 THEN <<>>
                         ELSE IF b[j + 1] # NUL THEN <<b[j + 1]>> \o h[j + 1][z - 1]
                         ELSE IF z = 1 THEN <<>>
                         ELSE <<"\\", "0">> \o h[j + 1][z - 2]
    <3>1. CASE j = last
      BY <1>9, <3>1 DEF empty
    <3>2. CASE j # last
      <4>1. j \in 0 .. last-1
        BY <1>1, <3>2
      <4>2. h[j][z] = With(j, z, h[j+1])
        BY <1>10, <4>1
      <4> QED BY <3>2, <4>2 DEF empty, pair
    <3> QED BY <3>1, <3>2
  <2>2. h = [j \in 0 .. last |-> h[j]]
    BY <1>7 DEF Solves
  <2>3. \A j \in 0 .. last : h[j] = [z \in 0 .. room |-> h[j][z]]
    BY <1>8
  <2>4. \A j \in 0 .. last : h[j] = [r \in 0 .. room |->
                         IF j = last \/ r = 0 THEN <<>>
                         ELSE IF b[j + 1] # NUL THEN <<b[j + 1]>> \o h[j + 1][r - 1]
                         ELSE IF r = 1 THEN <<>>
                         ELSE <<"\\", "0">> \o h[j + 1][r - 2]]
    BY <2>1, <2>3, Zenon
  <2> QED BY <2>2, <2>4, Zenon
<1> DEFINE g == CHOOSE from : IsFrom(from)
<1>12. IsFrom(g)
  BY <1>11
<1>13. ZerosEscaped(b, NUL, room) = g[0][room]
  BY DEF ZerosEscaped
<1> HIDE DEF g
<1>14. \A j \in 0 .. last : \A z \in 0 .. room :
         g[j][z] = IF j = last \/ z = 0 THEN <<>>
                   ELSE IF b[j + 1] # NUL THEN <<b[j + 1]>> \o g[j + 1][z - 1]
                   ELSE IF z = 1 THEN <<>>
                   ELSE <<"\\", "0">> \o g[j + 1][z - 2]
  <2>1. \A j \in 0 .. last :
          g[j] = [r \in 0 .. room |->
                    IF j = last \/ r = 0 THEN <<>>
                    ELSE IF b[j + 1] # NUL THEN <<b[j + 1]>> \o g[j + 1][r - 1]
                    ELSE IF r = 1 THEN <<>>
                    ELSE <<"\\", "0">> \o g[j + 1][r - 2]]
    BY <1>12
  <2>2. ASSUME NEW j \in 0 .. last, NEW z \in 0 .. room
        PROVE  g[j][z] = IF j = last \/ z = 0 THEN <<>>
                         ELSE IF b[j + 1] # NUL THEN <<b[j + 1]>> \o g[j + 1][z - 1]
                         ELSE IF z = 1 THEN <<>>
                         ELSE <<"\\", "0">> \o g[j + 1][z - 2]
    <3> DEFINE k == j + 1
               row == [r \in 0 .. room |->
                         IF j = last \/ r = 0 THEN <<>>
                         ELSE IF b[k] # NUL THEN <<b[k]>> \o g[k][r - 1]
                         ELSE IF r = 1 THEN <<>>
                         ELSE <<"\\", "0">> \o g[k][r - 2]]
    <3>1. g[j] = row
      BY <2>1
    <3> HIDE DEF k
    <3>2. row[z] = IF j = last \/ z = 0 THEN <<>>
                   ELSE IF b[k] # NUL THEN <<b[k]>> \o g[k][z - 1]
                   ELSE IF z = 1 THEN <<>>
                   ELSE <<"\\", "0">> \o g[k][z - 2]
      OBVIOUS
    <3> HIDE DEF row
    <3>3. g[j][z] = row[z]
      BY <3>1
    <3> QED BY <3>2, <3>3 DEF k
  <2> QED BY <2>2
<1>15. ASSUME NEW j \in 0 .. last-1, NEW z \in 0 .. room
       PROVE  /\ z = 0 => g[j][z] = empty
              /\ z > 0 /\ b[j+1] # NUL => g[j][z] = <<b[j+1]>> \o g[j+1][z-1]
              /\ z = 1 /\ b[j+1] = NUL => g[j][z] = empty
              /\ z > 1 /\ b[j+1] = NUL => g[j][z] = pair \o g[j+1][z-2]
  <2>1. j \in 0 .. last /\ j # last /\ (z > 0 => z # 0) /\ (z > 1 => z # 0 /\ z # 1) /\ (z = 1 => z # 0)
    BY <1>1
  <2> QED BY <1>14, <2>1 DEF empty, pair
<1>16. \A z \in 0 .. room : g[last][z] = empty
  <2>1. last \in 0 .. last
    BY <1>1
  <2> QED BY <1>14, <2>1 DEF empty
<1> DEFINE S == {j \in 0 .. last : \A z \in 0 .. room : g[j][z] \in texts}
<1>17. \A j \in 0 .. last : j \in S
  <2>1. last \in S
    BY <1>1, <1>16
  <2>2. ASSUME NEW j \in 0 .. last-1, \A l \in j+1 .. last : l \in S PROVE j \in S
    <3>1. j+1 \in S /\ j \in 0 .. last
      BY <1>1, <2>2
    <3>2. \A z \in 0 .. room : g[j+1][z] \in texts
      BY <3>1
    <3>3. ASSUME NEW z \in 0 .. room PROVE g[j][z] \in texts
      <4>1. z = 0 \/ (z > 0 /\ b[j+1] # NUL) \/ (z = 1 /\ b[j+1] = NUL) \/ (z > 1 /\ b[j+1] = NUL)
        OBVIOUS
      <4>2. CASE z = 0 \/ (z = 1 /\ b[j+1] = NUL)
        BY <1>1, <1>15, <4>2
      <4>3. CASE z > 0 /\ b[j+1] # NUL
        <5>1. z-1 \in 0 .. room
          BY <4>3
        <5>2. <<b[j+1]>> \o g[j+1][z-1] \in texts
          BY <1>3, <3>2, <4>3, <5>1
        <5> QED BY <1>15, <4>3, <5>2
      <4>4. CASE z > 1 /\ b[j+1] = NUL
        <5>1. z-2 \in 0 .. room
          BY <4>4
        <5>2. pair \o g[j+1][z-2] \in texts
          BY <1>3, <3>2, <5>1
        <5> QED BY <1>15, <4>4, <5>2
      <4> QED BY <4>1, <4>2, <4>3, <4>4
    <3> QED BY <3>1, <3>3
  <2> HIDE DEF S
  <2> QED BY <1>1, <2>1, <2>2, Downwards
<1>18. EscapedBy(g, b, room)
  <2>1. ASSUME NEW j \in 0 .. last, NEW z \in 0 .. room
        PROVE  /\ g[j][z] \in texts
               /\ j = last \/ z = 0 => g[j][z] = empty
               /\ j < last /\ z > 0 /\ b[j+1] # NUL => g[j][z] = <<b[j+1]>> \o g[j+1][z-1]
               /\ j < last /\ z = 1 /\ b[j+1] = NUL => g[j][z] = empty
               /\ j < last /\ z > 1 /\ b[j+1] = NUL => g[j][z] = pair \o g[j+1][z-2]
    <3>1. g[j][z] \in texts
      BY <1>17
    <3>2. CASE j = last
      BY <1>1, <1>16, <3>1, <3>2
    <3>3. CASE j # last
      <4>1. j \in 0 .. last-1
        BY <1>1, <3>3
      <4> QED BY <1>15, <3>1, <3>3, <4>1
    <3> QED BY <3>2, <3>3
  <2> QED BY <1>13, <2>1 DEF EscapedBy, texts, empty, pair
<1> QED BY <1>18

\* The loop of Str_escapeZero on the array r: what is in front and what is left of the bytes are
\* the bytes with their zeros escaped; the bytes left, as far as they are needed, were moved.
Going(l, r, len, content, g) ==
  /\ l.k <= len-1
  /\ \A d \in 0 .. Smaller(content - l.done, len - l.k) - 1 : l.m[l.k + d] = r[l.done + d]
  /\ \E w \in Seq(Char) :
       Begins(l.m, len, w) /\ Len(w) = l.k /\ w \o g[l.done][len-1 - l.k] = g[0][len-1]

\* And when there is no more room.
Full(l, len, g) ==
  /\ l.k \in {len-1, len}
  /\ Begins(l.m, len, g[0][len-1])
  /\ \/ Len(g[0][len-1]) = len-1
     \/ Len(g[0][len-1]) < len-1 /\ l.m[Len(g[0][len-1])] = NUL

EscapingZeros(r, len, content, g) ==
  {l \in [m : [0 .. len-1 -> Letter], k : 0 .. len, done : 0 .. content] :
     Going(l, r, len, content, g) \/ Full(l, len, g)}

LEMMA TextsAssociate ==
  ASSUME NEW v \in Seq(Char), NEW w \in Seq(Char), NEW rest \in Seq(Char)
  PROVE  (v \o w) \o rest = v \o (w \o rest)
BY ConcatAssociative

LEMMA EscapeStepIs ==
  ASSUME NEW len \in Nat \ {0}, NEW r \in [0 .. len-1 -> Letter], NEW content \in 0 .. len,
         NEW b \in Seq(Letter), Len(b) = content, \A j \in 1 .. content : b[j] = r[j-1],
         NEW g, EscapedBy(g, b, len-1), NEW l \in EscapingZeros(r, len, content, g)
  PROVE  /\ EscapeStep(l, content) \in EscapingZeros(r, len, content, g)
         /\ l.done < content /\ l.k < len => EscapeStep(l, content).done = l.done + 1
         /\ l.done = content \/ l.k = len => EscapeStep(l, content) = l
<1> DEFINE q == l.m
           k == l.k
           done == l.done
           room == len-1
           z == room - k
           whole == g[0][room]
           States == [m : [0 .. len-1 -> Letter], k : 0 .. len, done : 0 .. content]
<1>1. /\ q \in [0 .. len-1 -> Letter] /\ k \in 0 .. len /\ done \in 0 .. content
      /\ Going(l, r, len, content, g) \/ Full(l, len, g)
  BY DEF EscapingZeros
<1>2. Size(q) = len
  <2>1. DOMAIN q = 0 .. len-1 /\ 0 <= len-1 /\ 0 \in Int /\ len-1 \in Int
    BY <1>1
  <2>2. Cardinality(0 .. len-1) = IF 0 > len-1 THEN 0 ELSE len-1 - 0 + 1
    BY <2>1, FS_Interval
  <2> QED BY <2>1, <2>2 DEF Size
<1>3. EscapeStep(l, content) =
        IF done >= content \/ k >= len THEN l
        ELSE IF q[k] = NUL /\ k + 1 < len - 1
        THEN [m |-> Memcpy(Memmove(q, k + 1, k, Smaller(content - done, len - k - 1)), k, <<"\\", "0">>),
              k |-> k + 2, done |-> done + 1]
        ELSE [m |-> q, k |-> k + 1, done |-> done + 1]
  BY <1>2 DEF EscapeStep, q, k, done
<1> HIDE DEF q, k, done
<1>4. CASE done = content \/ k = len
  <2>1. EscapeStep(l, content) = l
    BY <1>1, <1>3, <1>4
  <2> QED BY <1>1, <1>4, <2>1 DEF k, done
<1>5. CASE done < content /\ k < len
  <2>1. /\ k \in 0 .. len-1 /\ done \in 0 .. content-1 /\ k + 1 \in 0 .. len /\ done + 1 \in 0 .. content
        /\ z \in 0 .. room /\ room \in Nat
    BY <1>1, <1>5
  <2>2. CASE ~(q[k] = NUL /\ k + 1 < len - 1)
    <3> DEFINE next == [m |-> q, k |-> k + 1, done |-> done + 1]
    <3>1. EscapeStep(l, content) = next
      BY <1>3, <1>5, <2>1, <2>2
    <3>2. next.m = q /\ next.k = k + 1 /\ next.done = done + 1 /\ next \in States
      BY <1>1, <2>1
    <3> HIDE DEF next
    <3>3. ASSUME Full(l, len, g) PROVE Full(next, len, g)
      BY <1>5, <2>1, <3>2, <3>3 DEF Full, q, k
    <3>4. ASSUME Going(l, r, len, content, g) PROVE Going(next, r, len, content, g) \/ Full(next, len, g)
      <4>1. PICK w \in Seq(Char) : Begins(q, len, w) /\ Len(w) = k /\ w \o g[done][z] = whole
        BY <3>4 DEF Going, q, k, done
      <4>2. q[k] = b[done+1]
        <5>1. 0 \in 0 .. Smaller(content - done, len - k) - 1 /\ k + 0 = k /\ done + 0 = done
          BY <2>1 DEF Smaller
        <5>2. q[k+0] = r[done+0]
          BY <3>4, <5>1 DEF Going, q, k, done
        <5>3. done+1 \in 1 .. content /\ (done+1)-1 = done
          BY <2>1
        <5> QED BY <5>1, <5>2, <5>3
      <4>3. CASE q[k] = NUL \/ z = 0
        <5>1. g[done][z] = <<>>
          <6>0. done \in 0 .. Len(b) /\ z \in 0 .. len-1
            BY <2>1
          <6> HIDE DEF z
          <6>1. CASE z = 0
            BY <6>0, <6>1 DEF EscapedBy
          <6>2. CASE z # 0
            <7>1. z = 1 /\ b[done+1] = NUL /\ done < Len(b)
              BY <2>1, <2>2, <4>2, <4>3, <6>2 DEF z
            <7> QED BY <6>0, <7>1 DEF EscapedBy
          <6> QED BY <6>1, <6>2
        <5>2. w = whole
          <6>1. w \o <<>> = w
            BY <4>1, ConcatEmptySeq
          <6> QED BY <4>1, <5>1, <6>1
        <5>3. k + 1 \in {len-1, len}
          BY <2>1, <2>2, <4>3
        <5>4. Len(w) = len-1 \/ (Len(w) < len-1 /\ q[Len(w)] = NUL)
          BY <2>1, <4>1, <4>3
        <5> QED BY <3>2, <4>1, <5>2, <5>3, <5>4 DEF Full
      <4>4. CASE q[k] # NUL /\ z # 0
        <5> DEFINE c == q[k]
                   e == <<c>>
                   rest == g[done+1][z-1]
        <5>1. c \in Char /\ z-1 \in 0 .. room /\ k + 1 <= len-1 /\ z - 1 = room - (k + 1)
          BY <1>1, <2>1, <4>4 DEF Letter
        <5>2. g[done][z] = e \o rest /\ rest \in Seq(Char)
          <6>1. done < Len(b) /\ z > 0 /\ b[done+1] # NUL /\ done \in 0 .. Len(b) /\ done+1 \in 0 .. Len(b)
            BY <2>1, <4>2, <4>4
          <6> QED BY <2>1, <4>2, <5>1, <6>1 DEF EscapedBy
        <5>3. e \in Seq(Char) /\ Len(e) = 1 /\ e[1] = c
          BY <5>1
        <5> HIDE DEF e, rest, c
        <5>4. (w \o e) \o rest = whole
          <6>1. (w \o e) \o rest = w \o (e \o rest)
            BY <5>2, <5>3, TextsAssociate
          <6> QED BY <4>1, <5>2, <6>1
        <5>5. w \o e \in Seq(Char) /\ Len(w \o e) = k + 1
              /\ \A j \in 1 .. k + 1 : (w \o e)[j] = IF j <= k THEN w[j] ELSE e[j - k]
          <6>1. /\ w \o e \in Seq(Char)
                /\ Len(w \o e) = Len(w) + Len(e)
                /\ \A j \in 1 .. Len(w) + Len(e) : (w \o e)[j] = IF j <= Len(w) THEN w[j] ELSE e[j - Len(w)]
            BY <5>3, ConcatProperties
          <6> QED BY <4>1, <5>3, <6>1
        <5>6. \A j \in 1 .. k + 1 : q[j-1] = (w \o e)[j]
          <6> SUFFICES ASSUME NEW j \in 1 .. k + 1 PROVE q[j-1] = (w \o e)[j]
            OBVIOUS
          <6>1. CASE j <= k
            <7>1. q[j-1] = w[j]
              BY <2>1, <4>1, <6>1 DEF Begins
            <7> QED BY <5>5, <6>1, <7>1
          <6>2. CASE j = k + 1
            <7>1. j - k = 1 /\ j-1 = k /\ ~(j <= k)
              BY <2>1, <6>2
            <7>2. (w \o e)[j] = e[j - k]
              BY <5>5, <7>1
            <7> QED BY <5>3, <7>1, <7>2 DEF c
          <6>3. j <= k \/ j = k + 1
            BY <2>1
          <6> QED BY <6>1, <6>2, <6>3, Zenon
        <5>7. Begins(q, len, w \o e)
          BY <1>1, <2>1, <5>5, <5>6, SMTT(30) DEF Begins
        <5>8. \A d \in 0 .. Smaller(content - (done + 1), len - (k + 1)) - 1 : q[(k+1) + d] = r[(done+1) + d]
          <6> SUFFICES ASSUME NEW d \in 0 .. Smaller(content - (done + 1), len - (k + 1)) - 1
                       PROVE  q[(k+1) + d] = r[(done+1) + d]
            OBVIOUS
          <6>1. /\ d + 1 \in 0 .. Smaller(content - done, len - k) - 1
                /\ k + (d + 1) = (k+1) + d /\ done + (d + 1) = (done+1) + d
            BY <2>1 DEF Smaller
          <6>2. q[k + (d + 1)] = r[done + (d + 1)]
            BY <3>4, <6>1 DEF Going, q, k, done
          <6> QED BY <6>1, <6>2
        <5>9. Going(next, r, len, content, g)
          <6>1. next.k <= len-1
            BY <3>2, <5>1
          <6>2. \E x \in Seq(Char) : Begins(next.m, len, x) /\ Len(x) = next.k
                  /\ x \o g[next.done][len-1 - next.k] = g[0][len-1]
            <7>1. g[next.done][len-1 - next.k] = rest
              BY <3>2, <5>1 DEF rest
            <7> QED BY <3>2, <5>4, <5>5, <5>7, <7>1
          <6> QED BY <3>2, <5>8, <6>1, <6>2 DEF Going
        <5> QED BY <5>9
      <4> QED BY <4>3, <4>4
    <3>5. next \in EscapingZeros(r, len, content, g)
      BY <1>1, <3>2, <3>3, <3>4 DEF EscapingZeros
    <3> QED BY <1>5, <3>1, <3>2, <3>5 DEF done, k
  <2>3. CASE q[k] = NUL /\ k + 1 < len - 1
    <3> DEFINE much == Smaller(content - done, len - k - 1)
               moved == Memmove(q, k + 1, k, much)
               pair == <<"\\", "0">>
               p == Memcpy(moved, k, pair)
               next == [m |-> p, k |-> k + 2, done |-> done + 1]
    <3>1. EscapeStep(l, content) = next
      BY <1>3, <1>5, <2>1, <2>3
    <3>2. Going(l, r, len, content, g)
      BY <1>1, <2>1, <2>3 DEF Full, k
    <3>3. PICK w \in Seq(Char) : Begins(q, len, w) /\ Len(w) = k /\ w \o g[done][z] = whole
      BY <3>2 DEF Going, q, k, done
    <3>4. much \in Nat /\ k + much <= len - 1 /\ much <= content - done /\ k \in Nat /\ k + 1 \in Nat
      BY <2>1, <2>3 DEF Smaller
    <3>5. /\ moved \in [0 .. len-1 -> Letter]
          /\ \A x \in 0 .. len-1 : moved[x] = IF x \in k+1 .. k+1 + much - 1 THEN q[k + x - (k+1)] ELSE q[x]
      <4> DEFINE to == k + 1
      <4>1. k \in Nat /\ to \in Nat /\ much \in Nat /\ k + much <= len /\ to + much <= len
        BY <2>1, <2>3, <3>4 DEF Smaller
      <4>2. q \in [0 .. len-1 -> Letter]
        BY <1>1
      <4> HIDE DEF much, to
      <4>3. /\ Memmove(q, to, k, much) \in [0 .. len-1 -> Letter]
            /\ \A x \in 0 .. len-1 :
                 Memmove(q, to, k, much)[x] = IF x \in to .. to + much - 1 THEN q[k + x - to] ELSE q[x]
        <5>1. ASSUME NEW a \in Nat, NEW c \in Nat, NEW d \in Nat, c + d <= len, a + d <= len
              PROVE  /\ Memmove(q, a, c, d) \in [0 .. len-1 -> Letter]
                     /\ \A x \in 0 .. len-1 :
                          Memmove(q, a, c, d)[x] = IF x \in a .. a + d - 1 THEN q[c + x - a] ELSE q[x]
          <6>1. len \in Nat
            BY <1>1
          <6>2. \A x \in 0 .. len-1 : x \in a .. a + d - 1 => c + x - a \in 0 .. len-1
            BY <5>1, <6>1
          <6>3. DOMAIN q \cup a .. a + d - 1 = 0 .. len-1
            BY <4>2, <5>1, <6>1
          <6> QED BY <4>2, <6>1, <6>2, <6>3 DEF Memmove
        <5> QED BY <4>1, <5>1
      <4> QED BY <4>3 DEF to
    <3> HIDE DEF much, moved
    <3>6. Begins(moved, len, w)
      <4>1. \A j \in 1 .. Len(w) : j-1 \in 0 .. len-1 /\ j-1 \notin k+1 .. k+1 + much - 1
        BY <2>1, <3>3, <3>4
      <4> QED BY <3>3, <3>5, <4>1 DEF Begins
    <3>7. pair \in Seq(Char) /\ Len(pair) = 2
      BY TwoCharacters
    <3> HIDE DEF pair
    <3>8. /\ Begins(p, len, w \o pair) /\ Len(w \o pair) = k + 2
          /\ \A x \in k + 2 .. len-1 : p[x] = moved[x]
      <4>1. Len(w) + Len(pair) <= len /\ Len(w) + Len(pair) = k + 2
        BY <2>3, <3>3, <3>4, <3>7
      <4>2. /\ Begins(Memcpy(moved, Len(w), pair), len, w \o pair) /\ Len(w \o pair) = Len(w) + Len(pair)
            /\ \A x \in Len(w) + Len(pair) .. len-1 : Memcpy(moved, Len(w), pair)[x] = moved[x]
        <5>1. pair \in Seq(Char)
          BY <3>7
        <5> QED BY <3>6, <4>1, <5>1, BeginsMore
      <4> QED BY <3>3, <4>1, <4>2
    <3> HIDE DEF p
    <3>9. p \in [0 .. len-1 -> Letter] /\ w \o pair \in Seq(Char)
      BY <3>8 DEF Begins
    <3>10. next.m = p /\ next.k = k + 2 /\ next.done = done + 1 /\ next \in States
      BY <2>1, <2>3, <3>9
    <3> HIDE DEF next
    <3>11. ASSUME NEW d \in 0 .. Smaller(content - (done + 1), len - (k + 2)) - 1
           PROVE  p[(k+2) + d] = r[(done+1) + d]
      <4>1. (k+2) + d \in k + 2 .. len-1 /\ (k+2) + d \in k+1 .. k+1 + much - 1 /\ (k+2) + d \in 0 .. len-1
        BY <2>1, <2>3 DEF Smaller, much
      <4>2. k + ((k+2) + d) - (k+1) = k + (d + 1) /\ done + (d + 1) = (done+1) + d
        BY <2>1
      <4>3. d + 1 \in 0 .. Smaller(content - done, len - k) - 1
        BY <2>1, <2>3 DEF Smaller
      <4>4. q[k + (d + 1)] = r[done + (d + 1)]
        BY <3>2, <4>3 DEF Going, q, k, done
      <4>5. p[(k+2) + d] = moved[(k+2) + d]
        BY <3>8, <4>1
      <4>6. moved[(k+2) + d] = q[k + ((k+2) + d) - (k+1)]
        BY <3>5, <4>1
      <4> QED BY <4>2, <4>4, <4>5, <4>6
    <3> DEFINE rest == g[done+1][z-2]
    <3>12. g[done][z] = pair \o rest /\ rest \in Seq(Char) /\ z - 2 = room - (k + 2)
      <4>1. q[k] = b[done+1]
        <5>1. 0 \in 0 .. Smaller(content - done, len - k) - 1 /\ k + 0 = k /\ done + 0 = done
          BY <2>1 DEF Smaller
        <5>2. q[k+0] = r[done+0]
          BY <3>2, <5>1 DEF Going, q, k, done
        <5>3. done+1 \in 1 .. content /\ (done+1)-1 = done
          BY <2>1
        <5> QED BY <5>1, <5>2, <5>3
      <4>2. /\ done < Len(b) /\ z > 1 /\ b[done+1] = NUL /\ done \in 0 .. Len(b) /\ done+1 \in 0 .. Len(b)
            /\ z - 2 \in 0 .. room /\ z - 2 = room - (k + 2)
        BY <2>1, <2>3, <4>1
      <4> QED BY <2>1, <4>2 DEF EscapedBy, pair
    <3> HIDE DEF rest
    <3>13. (w \o pair) \o rest = whole
      <4>1. (w \o pair) \o rest = w \o (pair \o rest)
        <5>1. pair \in Seq(Char) /\ rest \in Seq(Char)
          BY <3>7, <3>12
        <5> QED BY <5>1, TextsAssociate
      <4> QED BY <3>3, <3>12, <4>1
    <3>14. Going(next, r, len, content, g)
      <4>1. next.k <= len-1
        BY <2>1, <2>3, <3>10
      <4>2. \E x \in Seq(Char) : Begins(next.m, len, x) /\ Len(x) = next.k
              /\ x \o g[next.done][len-1 - next.k] = g[0][len-1]
        <5>1. g[next.done][len-1 - next.k] = rest
          BY <3>10, <3>12 DEF rest
        <5> QED BY <3>8, <3>9, <3>10, <3>13, <5>1
      <4> QED BY <3>10, <3>11, <4>1, <4>2 DEF Going
    <3>15. next \in EscapingZeros(r, len, content, g)
      BY <3>10, <3>14 DEF EscapingZeros
    <3> QED BY <1>5, <3>1, <3>10, <3>15 DEF done, k
  <2> QED BY <2>2, <2>3
<1> QED BY <1>1, <1>4, <1>5

\* The bytes of an array.
LEMMA BytesAre ==
  ASSUME NEW len \in Nat, NEW r \in [0 .. len-1 -> Letter], NEW content \in 0 .. len
  PROVE  /\ Bytes(r, 0, content) \in Seq(Letter) /\ Len(Bytes(r, 0, content)) = content
         /\ \A j \in 1 .. content : Bytes(r, 0, content)[j] = r[j-1]
<1> DEFINE b == Bytes(r, 0, content)
<1>1. content \in Nat /\ \A j \in 1 .. content : r[0+j-1] \in Letter /\ 0+j-1 = j-1
  OBVIOUS
<1>2. b \in [1 .. content -> Letter] /\ \A j \in 1 .. content : b[j] = r[j-1]
  BY <1>1 DEF Bytes
<1> HIDE DEF b
<1>3. b \in Seq(Letter)
  BY <1>1, <1>2
<1>4. Len(b) = content
  <2>1. DOMAIN b = 1 .. content
    BY <1>2
  <2> QED BY <1>1, <1>3, <2>1, LenProperties
<1> QED BY <1>2, <1>3, <1>4 DEF b

\* Str_escapeZero: the bytes with their zeros escaped, as far as there is room.
LEMMA EscapeZeroHeld ==
  ASSUME NEW len, NEW t, NEW r, HoldsText(r, len, t), NEW content \in 0 .. len
  PROVE  HoldsText(Str_escapeZero(r, content), len, ZerosEscaped(Bytes(r, 0, content), NUL, len - 1))
<1>1. len \in Nat \ {0} /\ r \in [0 .. len-1 -> Letter] /\ content \in Nat
  BY TextHeld
<1> DEFINE b == Bytes(r, 0, content)
           room == len-1
<1>2. b \in Seq(Letter) /\ Len(b) = content /\ \A j \in 1 .. content : b[j] = r[j-1]
  <2>1. len \in Nat
    BY <1>1
  <2> QED BY <1>1, <2>1, BytesAre
<1> HIDE DEF b
<1>3. PICK g : EscapedBy(g, b, room)
  <2>1. room \in Nat
    BY <1>1
  <2> QED BY <1>2, <2>1, ZerosEscapedIs
<1>4. /\ g[0][room] = ZerosEscaped(b, NUL, room) /\ g[0][room] \in Seq(Char)
      /\ \A z \in 0 .. room : g[content][z] = <<>>
  <2>1. 0 \in 0 .. Len(b) /\ content \in 0 .. Len(b) /\ content = Len(b) /\ room \in 0 .. room
    BY <1>1, <1>2
  <2> HIDE DEF room
  <2>2. \A z \in 0 .. room : g[content][z] = <<>>
    BY <1>3, <2>1 DEF EscapedBy
  <2>3. g[0][room] = ZerosEscaped(b, NUL, room) /\ g[0][room] \in Seq(Char)
    BY <1>3, <2>1 DEF EscapedBy
  <2> QED BY <2>2, <2>3
<1> DEFINE V == EscapingZeros(r, len, content, g)
           start == [m |-> r, k |-> 0, done |-> 0]
           step == [l \in V |-> EscapeStep(l, content)]
           whole == g[0][room]
           IsRun(f) == f = [j \in 0 .. content |-> IF j = 0 THEN start ELSE EscapeStep(f[j-1], content)]
<1>5. start \in V
  <2> DEFINE none == <<>>
  <2>1. none \in Seq(Char) /\ Len(none) = 0
    BY EmptySeq
  <2> HIDE DEF none, whole
  <2>2. none \o whole = whole
    BY <1>4, ConcatEmptySeq DEF none, whole
  <2>3. Begins(r, len, none)
    BY <1>1, <2>1 DEF Begins
  <2>4. /\ start.m = r /\ start.k = 0 /\ start.done = 0
        /\ start \in [m : [0 .. len-1 -> Letter], k : 0 .. len, done : 0 .. content]
    BY <1>1
  <2> HIDE DEF start
  <2>5. \E w \in Seq(Char) : Begins(start.m, len, w) /\ Len(w) = start.k
          /\ w \o g[start.done][len-1 - start.k] = g[0][len-1]
    <3>1. g[start.done][len-1 - start.k] = whole
      BY <1>1, <2>4 DEF whole
    <3> QED BY <2>1, <2>2, <2>3, <2>4, <3>1 DEF whole
  <2>6. /\ start.k <= len-1
        /\ \A d \in 0 .. Smaller(content - start.done, len - start.k) - 1 :
             start.m[start.k + d] = r[start.done + d]
    BY <1>1, <2>4
  <2>7. Going(start, r, len, content, g)
    BY <2>5, <2>6 DEF Going
  <2> QED BY <2>4, <2>7 DEF EscapingZeros
<1>6. \A l \in V : /\ EscapeStep(l, content) \in V
                   /\ l.done < content /\ l.k < len => EscapeStep(l, content).done = l.done + 1
                   /\ l.done = content \/ l.k = len => EscapeStep(l, content) = l
  <2>1. len \in Nat \ {0} /\ r \in [0 .. len-1 -> Letter]
    BY <1>1
  <2>2. EscapedBy(g, b, len-1)
    BY <1>3
  <2> QED BY <1>2, <2>1, <2>2, EscapeStepIs, SMTT(30)
<1> HIDE DEF V, start
<1>7. step \in [V -> V]
  BY <1>6
<1>8. PICK f \in [0 .. content -> V] : f[0] = start /\ \A j \in 1 .. content : f[j] = step[f[j-1]]
  <2> HIDE DEF step
  <2>1. \E f : Runs(f, content, V, start, step)
    BY <1>1, <1>5, <1>7, Iterated
  <2> QED BY <2>1 DEF Runs
<1>9. IsRun(f)
  <2>1. ASSUME NEW j \in 0 .. content
        PROVE  f[j] = IF j = 0 THEN start ELSE EscapeStep(f[j-1], content)
    <3>1. CASE j = 0
      BY <1>8, <3>1
    <3>2. CASE j # 0
      <4>1. j \in 1 .. content /\ j-1 \in 0 .. content
        BY <1>1, <3>2
      <4>2. f[j] = step[f[j-1]] /\ f[j-1] \in V
        BY <1>8, <4>1
      <4> QED BY <3>2, <4>2
    <3> QED BY <3>1, <3>2
  <2>2. f = [j \in 0 .. content |-> f[j]]
    BY <1>8
  <2> QED BY <2>1, <2>2, Zenon
<1> DEFINE after == CHOOSE a : IsRun(a)
           last == after[content]
<1>10. IsRun(after)
  BY <1>9
<1>11. Str_escapeZero(r, content) = Zeroed(last.m, Smaller(last.k, len - 1), 1)
  <2>1. Size(r) = len
    BY TextHeld
  <2> QED BY <2>1 DEF Str_escapeZero, start
<1> HIDE DEF after
<1>12. after[0] = start /\ \A j \in 0 .. content-1 : after[j+1] = EscapeStep(after[j], content)
  <2>1. \A j \in 0 .. content : after[j] = IF j = 0 THEN start ELSE EscapeStep(after[j-1], content)
    BY <1>10
  <2>2. 0 \in 0 .. content /\ \A j \in 0 .. content-1 : j+1 \in 0 .. content /\ j+1 # 0 /\ (j+1)-1 = j
    BY <1>1
  <2>3. after[0] = start
    BY <2>1, <2>2
  <2>4. ASSUME NEW j \in 0 .. content-1 PROVE after[j+1] = EscapeStep(after[j], content)
    <3>1. after[j+1] = IF j+1 = 0 THEN start ELSE EscapeStep(after[(j+1)-1], content)
      BY <2>1, <2>2
    <3> QED BY <2>2, <3>1
  <2> QED BY <2>3, <2>4
<1> DEFINE S == {j \in 0 .. content : after[j] \in V /\ (after[j].done >= j \/ after[j].k = len)}
<1>13. \A j \in 0 .. content : j \in S
  <2>1. 0 \in S
    BY <1>1, <1>5, <1>12 DEF start
  <2>2. ASSUME NEW j \in 0 .. content-1, j \in S PROVE j+1 \in S
    <3> DEFINE l == after[j]
               next == after[j+1]
    <3>1. l \in V /\ (l.done >= j \/ l.k = len) /\ next = EscapeStep(l, content)
      BY <1>12, <2>2
    <3>2. next \in V /\ (l.done < content /\ l.k < len => next.done = l.done + 1)
          /\ (l.done = content \/ l.k = len => next = l)
      BY <1>6, <3>1
    <3>3. l.done \in 0 .. content /\ l.k \in 0 .. len
      BY <3>1 DEF V, EscapingZeros
    <3>4. next.done >= j+1 \/ next.k = len
      <4> HIDE DEF l, next
      <4> QED BY <1>1, <3>1, <3>2, <3>3
    <3>5. j+1 \in 0 .. content
      BY <1>1
    <3> QED BY <3>2, <3>4, <3>5
  <2> HIDE DEF S
  <2> QED BY <1>1, <2>1, <2>2, Upwards
<1>14. last \in V /\ (last.done = content \/ last.k = len)
  <2>1. content \in S
    BY <1>1, <1>13
  <2>2. last \in V /\ (last.done >= content \/ last.k = len)
    BY <2>1
  <2>3. last.done \in 0 .. content
    BY <2>2 DEF V, EscapingZeros
  <2> QED BY <1>1, <2>2, <2>3
<1> HIDE DEF last
<1> DEFINE q == last.m
           k == last.k
<1>15. /\ q \in [0 .. len-1 -> Letter] /\ k \in 0 .. len
       /\ Going(last, r, len, content, g) \/ Full(last, len, g)
  BY <1>14 DEF V, EscapingZeros
<1>16. HoldsText(Zeroed(q, Smaller(k, len - 1), 1), len, whole)
  <2>1. CASE Full(last, len, g)
    <3>1. Smaller(k, len - 1) = room
      BY <1>1, <2>1 DEF Full, Smaller
    <3>2. Begins(q, len, whole) /\ (Len(whole) = room \/ (Len(whole) < room /\ q[Len(whole)] = NUL))
      BY <2>1 DEF Full
    <3> HIDE DEF q, k, whole
    <3>3. CASE Len(whole) = room
      BY <1>1, <3>1, <3>2, <3>3, EndHeld
    <3>4. CASE Len(whole) < room /\ q[Len(whole)] = NUL
      <4> DEFINE p == Zeroed(q, room, 1)
      <4>1. /\ p \in [0 .. len-1 -> Letter]
            /\ \A j \in 0 .. len-1 : j # room => p[j] = q[j]
        <5>1. room \in Nat /\ room + 1 <= len
          BY <1>1, <1>15
        <5>2. /\ p \in [0 .. len-1 -> Letter]
              /\ \A j \in 0 .. len-1 : p[j] = IF j \in room .. room+1-1 THEN NUL ELSE q[j]
          BY <1>1, <1>15, <5>1, ZeroedWritten
        <5>3. \A j \in 0 .. len-1 : j # room => j \notin room .. room+1-1
          BY <5>1
        <5> QED BY <5>2, <5>3
      <4> HIDE DEF p
      <4>2. Len(whole) \in Nat /\ whole \in Seq(Char) /\ \A j \in 1 .. Len(whole) : q[j-1] = whole[j]
        BY <3>2, LenProperties DEF Begins
      <4>3. \A j \in 1 .. Len(whole) : j-1 \in 0 .. len-1 /\ j-1 # room
        BY <1>1, <3>4, <4>2
      <4>4. Len(whole) \in 0 .. len-1 /\ Len(whole) # room /\ Len(whole) < len
        BY <1>1, <3>4, <4>2
      <4>5. HoldsText(p, len, whole)
        BY <1>1, <3>4, <4>1, <4>2, <4>3, <4>4 DEF HoldsText
      <4> QED BY <3>1, <4>5 DEF p
    <3> QED BY <3>2, <3>3, <3>4
  <2>2. CASE Going(last, r, len, content, g)
    <3>1. PICK w \in Seq(Char) : Begins(q, len, w) /\ Len(w) = k /\ w \o g[last.done][room - k] = whole
      BY <2>2 DEF Going
    <3>2. k <= len-1
      BY <2>2 DEF Going
    <3>3. k < len /\ Smaller(k, len - 1) = k /\ room - k \in 0 .. room /\ last.done = content
      BY <1>1, <1>14, <1>15, <3>2 DEF Smaller
    <3>4. w = whole
      <4>1. g[last.done][room - k] = <<>>
        BY <1>4, <3>3
      <4>2. w \o <<>> = w
        BY <3>1, ConcatEmptySeq
      <4> QED BY <3>1, <4>1, <4>2
    <3> HIDE DEF q, k, whole
    <3>5. HoldsText(Zeroed(q, Len(w), 1), len, w)
      BY <3>1, <3>3, EndHeld
    <3> QED BY <3>1, <3>3, <3>4, <3>5
  <2> QED BY <1>15, <2>1, <2>2
<1> QED BY <1>4, <1>11, <1>16 DEF b

\* The first characters of two texts.
LEMMA FirstNIs ==
  ASSUME NEW t \in Seq(Char), NEW k \in Nat
  PROVE  /\ Len(t) \in Nat /\ Smaller(Len(t), k) \in 0 .. Len(t)
         /\ FirstN(t, k) = SubSeq(t, 1, Smaller(Len(t), k))
         /\ FirstN(t, k) \in Seq(Char) /\ Len(FirstN(t, k)) = Smaller(Len(t), k)
         /\ \A j \in 1 .. Smaller(Len(t), k) : FirstN(t, k)[j] = t[j]
<1>1. Len(t) \in Nat /\ Smaller(Len(t), k) \in 0 .. Len(t)
  <2>1. Len(t) \in Nat
    BY LenProperties
  <2> QED BY <2>1 DEF Smaller
<1>2. FirstN(t, k) = SubSeq(t, 1, Smaller(Len(t), k))
  BY <1>1 DEF FirstN, Smaller
<1> QED BY <1>1, <1>2, FirstIs

LEMMA FirstOfBoth ==
  ASSUME NEW a \in Seq(Char), NEW b \in Seq(Char), NEW k \in Nat
  PROVE  FirstN(a \o b, k) = IF k <= Len(a) THEN FirstN(a, k) ELSE a \o FirstN(b, k - Len(a))
<1> DEFINE both == a \o b
           x == FirstN(both, k)
<1>1. /\ both \in Seq(Char) /\ Len(both) = Len(a) + Len(b)
      /\ \A j \in 1 .. Len(a) + Len(b) : both[j] = IF j <= Len(a) THEN a[j] ELSE b[j - Len(a)]
  BY ConcatProperties
<1>2. Len(a) \in Nat /\ Len(b) \in Nat
  BY LenProperties
<1> HIDE DEF both
<1>3. /\ x \in Seq(Char) /\ Len(x) = Smaller(Len(both), k)
      /\ \A j \in 1 .. Smaller(Len(both), k) : x[j] = both[j]
  BY <1>1, FirstNIs
<1> HIDE DEF x
<1>4. CASE k <= Len(a)
  <2> DEFINE y == FirstN(a, k)
  <2>1. y \in Seq(Char) /\ Len(y) = Smaller(Len(a), k) /\ \A j \in 1 .. Smaller(Len(a), k) : y[j] = a[j]
    BY FirstNIs
  <2> HIDE DEF y
  <2>2. Smaller(Len(a), k) = k /\ Smaller(Len(both), k) = k
    BY <1>1, <1>2, <1>4 DEF Smaller
  <2>3. \A j \in 1 .. k : x[j] = y[j]
    BY <1>1, <1>2, <1>3, <1>4, <2>1, <2>2
  <2>4. x = y
    BY <1>3, <2>1, <2>2, <2>3, SeqEqual
  <2> QED BY <1>4, <2>4 DEF x, y, both
<1>5. CASE ~(k <= Len(a))
  <2> DEFINE d == k - Len(a)
             v == FirstN(b, d)
             y == a \o v
  <2>1. d \in Nat
    BY <1>2, <1>5
  <2>2. v \in Seq(Char) /\ Len(v) = Smaller(Len(b), d) /\ \A j \in 1 .. Smaller(Len(b), d) : v[j] = b[j]
    <3> HIDE DEF d
    <3> QED BY <2>1, FirstNIs
  <2> HIDE DEF v
  <2>3. /\ y \in Seq(Char) /\ Len(y) = Len(a) + Len(v)
        /\ \A j \in 1 .. Len(a) + Len(v) : y[j] = IF j <= Len(a) THEN a[j] ELSE v[j - Len(a)]
    BY <2>2, ConcatProperties
  <2> HIDE DEF y
  <2>4. Len(x) = Len(a) + Len(v) /\ Len(y) = Len(x) /\ Len(v) \in Nat /\ Len(v) <= Len(b)
    BY <1>1, <1>2, <1>3, <1>5, <2>2, <2>3 DEF Smaller
  <2>5. ASSUME NEW j \in 1 .. Len(x) PROVE x[j] = y[j]
    <3>1. j \in 1 .. Len(a) + Len(v) /\ j \in 1 .. Len(a) + Len(b) /\ x[j] = both[j]
      BY <1>2, <1>3, <2>4
    <3>2. CASE j <= Len(a)
      BY <1>1, <2>3, <3>1, <3>2
    <3>3. CASE ~(j <= Len(a))
      <4>1. j - Len(a) \in 1 .. Len(v)
        BY <1>2, <2>4, <3>1, <3>3
      <4>2. v[j - Len(a)] = b[j - Len(a)]
        BY <2>2, <4>1
      <4> QED BY <1>1, <2>3, <3>1, <3>3, <4>2
    <3> QED BY <3>2, <3>3
  <2>6. x = y
    BY <1>3, <2>3, <2>4, <2>5, SeqEqual
  <2> QED BY <1>5, <2>6 DEF x, y, v, both
<1> QED BY <1>4, <1>5

\* An iteration of the loop of Str_join: as many characters of p as there is room for.
LEMMA JoinStepIs ==
  ASSUME NEW len, NEW r, NEW w, Begins(r, len, w), NEW p \in Seq(Char),
         NEW room \in Nat \ {0}, Len(w) + room < len
  PROVE  LET v == FirstN(p, room)
         IN JoinStep([m |-> r, q |-> Len(w), n |-> room], p)
              = [m |-> Memcpy(r, Len(w), v), q |-> Len(w \o v),
                 n |-> IF Len(p) > room THEN -1 ELSE room - Len(p)]
            /\ Begins(Memcpy(r, Len(w), v), len, w \o v)
<1> DEFINE v == FirstN(p, room)
           x == Memcpy(r, Len(w), v)
<1>1. len \in Nat /\ Len(w) \in Nat
  BY LenProperties DEF Begins
<1>2. /\ Len(p) \in Nat /\ v \in Seq(Char) /\ Len(v) = Smaller(Len(p), room)
      /\ v = SubSeq(p, 1, Smaller(Len(p), room)) /\ Smaller(Len(p), room) \in 0 .. Len(p)
  BY FirstNIs
<1>3. Len(w) + Len(v) <= len
  BY <1>1, <1>2 DEF Smaller
<1>4. Begins(x, len, w \o v) /\ Len(w \o v) = Len(w) + Len(v)
  <2>1. v \in Seq(Char) /\ Len(w) + Len(v) <= len
    BY <1>2, <1>3
  <2> HIDE DEF v
  <2> QED BY <2>1, BeginsMore, Zenon
<1>5. JoinStep([m |-> r, q |-> Len(w), n |-> room], p)
        = [m |-> Memcpy(r, Len(w), SubSeq(p, 1, Smaller(Len(p), room))),
           q |-> Len(w) + Smaller(Len(p), room),
           n |-> IF Len(p) > room THEN -1 ELSE room - Len(p)]
  BY DEF JoinStep
<1> HIDE DEF v
<1>6. JoinStep([m |-> r, q |-> Len(w), n |-> room], p)
        = [m |-> x, q |-> Len(w \o v), n |-> IF Len(p) > room THEN -1 ELSE room - Len(p)]
  BY <1>2, <1>4, <1>5
<1> QED BY <1>4, <1>6 DEF v

\* Str_join: the first characters of its arguments together.
LEMMA JoinHeld ==
  ASSUME NEW len, NEW t, NEW r, HoldsText(r, len, t), NEW a \in Seq(Char), NEW b \in Seq(Char),
         NEW k \in 0 .. len-1
  PROVE  HoldsText(Str_join(r, k, <<a, b>>), len, FirstN(a \o b, k))
<1>1. len \in Nat \ {0} /\ r \in [0 .. len-1 -> Letter] /\ k \in Nat
  BY TextHeld
<1> DEFINE args == <<a, b>>
           none == <<>>
           start == [m |-> r, q |-> 0, n |-> k]
           one == JoinStep(start, a)
           two == JoinStep(one, b)
           IsRun(f) == f = [j \in 0 .. 2 |-> IF j = 0 THEN start ELSE JoinStep(f[j-1], args[j])]
           whole == FirstN(a \o b, k)
<1>2. Str_join(r, k, args) = Zeroed(two.m, two.q, 1)
  <2> DEFINE f == [j \in 0 .. 2 |-> IF j = 0 THEN start ELSE IF j = 1 THEN one ELSE two]
             after == CHOOSE g : IsRun(g)
  <2>1. args[1] = a /\ args[2] = b /\ Len(args) = 2
    OBVIOUS
  <2>2. f[0] = start /\ f[1] = one /\ f[2] = two /\ f = [j \in 0 .. 2 |-> f[j]]
    OBVIOUS
  <2> HIDE DEF args, start, f
  <2>3. ASSUME NEW j \in 0 .. 2 PROVE f[j] = IF j = 0 THEN start ELSE JoinStep(f[j-1], args[j])
    <3>1. CASE j = 0
      BY <2>2, <3>1
    <3>2. CASE j = 1
      <4>1. j-1 = 0 /\ j # 0
        BY <3>2
      <4> QED BY <2>1, <2>2, <3>2, <4>1
    <3>3. CASE j = 2
      <4>1. j-1 = 1 /\ j # 0
        BY <3>3
      <4> QED BY <2>1, <2>2, <3>3, <4>1
    <3> QED BY <3>1, <3>2, <3>3
  <2>4. IsRun(f)
    BY <2>2, <2>3, Zenon
  <2>5. IsRun(after)
    BY <2>4
  <2>6. Str_join(r, k, args) = Zeroed(after[2].m, after[2].q, 1)
    BY <2>1 DEF Str_join, start
  <2> HIDE DEF after
  <2>7. \A j \in 0 .. 2 : after[j] = IF j = 0 THEN start ELSE JoinStep(after[j-1], args[j])
    BY <2>5
  <2>8. after[0] = start
    BY <2>7
  <2>9. after[1] = one
    <3>1. 1 \in 0 .. 2 /\ 1 # 0 /\ 1-1 = 0
      OBVIOUS
    <3> QED BY <2>1, <2>7, <2>8, <3>1
  <2>10. after[2] = two
    <3>1. 2 \in 0 .. 2 /\ 2 # 0 /\ 2-1 = 1
      OBVIOUS
    <3> QED BY <2>1, <2>7, <2>9, <3>1
  <2> QED BY <2>6, <2>10
<1>3. none \in Seq(Char) /\ Len(none) = 0 /\ Len(a) \in Nat
  BY EmptySeq, LenProperties
<1>4. \A w \in Seq(Char) : none \o w = w
  BY ConcatEmptySeq
<1> HIDE DEF args, none
<1>5. Begins(r, len, none)
  BY <1>1, <1>3 DEF Begins
<1>6. whole = IF k <= Len(a) THEN FirstN(a, k) ELSE a \o FirstN(b, k - Len(a))
  BY <1>1, FirstOfBoth
<1> HIDE DEF whole
<1>7. \E x, w : Begins(x, len, w) /\ Len(w) < len /\ w = whole /\ two.m = x /\ two.q = Len(w)
  <2>1. CASE k = 0
    <3>1. one = start /\ two = start
      BY <2>1 DEF JoinStep
    <3>2. whole = none
      <4>1. k <= Len(a) /\ Len(FirstN(a, k)) = 0 /\ FirstN(a, k) \in Seq(Char)
        <5>1. Len(FirstN(a, k)) = Smaller(Len(a), k) /\ FirstN(a, k) \in Seq(Char)
          BY <1>1, FirstNIs
        <5> QED BY <1>3, <2>1, <5>1 DEF Smaller
      <4> QED BY <1>6, <4>1, EmptySeq, LenProperties DEF none
    <3>3. two.m = r /\ two.q = Len(none)
      BY <1>3, <3>1
    <3> HIDE DEF two
    <3> QED BY <1>1, <1>3, <1>5, <3>2, <3>3
  <2>2. CASE k # 0
    <3> DEFINE v == FirstN(a, k)
               x == Memcpy(r, 0, v)
               rest == IF Len(a) > k THEN -1 ELSE k - Len(a)
    <3>1. one = [m |-> x, q |-> Len(v), n |-> rest] /\ Begins(x, len, v)
      <4>1. k \in Nat \ {0} /\ Len(none) + k < len
        BY <1>1, <1>3, <2>2
      <4>2. JoinStep([m |-> r, q |-> Len(none), n |-> k], a)
              = [m |-> Memcpy(r, Len(none), v), q |-> Len(none \o v),
                 n |-> IF Len(a) > k THEN -1 ELSE k - Len(a)]
            /\ Begins(Memcpy(r, Len(none), v), len, none \o v)
        BY <1>5, <4>1, JoinStepIs
      <4>3. none \o v = v
        BY <1>1, <1>4, FirstNIs
      <4> QED BY <1>3, <4>2, <4>3
    <3>2. v \in Seq(Char) /\ Len(v) = Smaller(Len(a), k)
      BY <1>1, FirstNIs
    <3>3. Len(v) < len
      BY <1>1, <1>3, <3>2 DEF Smaller
    <3> HIDE DEF x, one
    <3>4. CASE k <= Len(a)
      <4>1. rest <= 0
        BY <1>1, <1>3, <3>4
      <4> HIDE DEF rest
      <4>2. two = one
        BY <3>1, <4>1 DEF JoinStep
      <4>3. two.m = x /\ two.q = Len(v) /\ v = whole
        BY <1>6, <3>1, <3>4, <4>2
      <4> HIDE DEF two, v
      <4> QED BY <3>1, <3>3, <4>3
    <3>5. CASE ~(k <= Len(a))
      <4>1. v = a
        <5>1. v = SubSeq(a, 1, Smaller(Len(a), k)) /\ Smaller(Len(a), k) = Len(a)
          BY <1>1, <1>3, <3>5, FirstNIs DEF Smaller
        <5> QED BY <5>1, WholeText
      <4>2. rest \in Nat \ {0} /\ Len(a) + rest < len /\ rest = k - Len(a)
        BY <1>1, <1>3, <3>5
      <4> HIDE DEF v, rest
      <4> DEFINE z == FirstN(b, rest)
                 y == Memcpy(x, Len(a), z)
                 left == IF Len(b) > rest THEN -1 ELSE rest - Len(b)
      <4>3. one = [m |-> x, q |-> Len(a), n |-> rest] /\ Begins(x, len, a)
        BY <3>1, <4>1
      <4>4. two = [m |-> y, q |-> Len(a \o z), n |-> left] /\ Begins(y, len, a \o z)
        BY <4>2, <4>3, JoinStepIs
      <4>5. whole = a \o z
        BY <1>6, <3>5, <4>2
      <4>6. Len(a \o z) < len
        <5>1. z \in Seq(Char) /\ Len(z) = Smaller(Len(b), rest) /\ Len(b) \in Nat
          BY <4>2, FirstNIs
        <5>2. Len(a \o z) = Len(a) + Len(z)
          BY <5>1, ConcatProperties
        <5> QED BY <1>1, <1>3, <4>2, <5>1, <5>2 DEF Smaller
      <4>7. two.m = y /\ two.q = Len(a \o z)
        BY <4>4
      <4> HIDE DEF two, z, y
      <4> QED BY <4>4, <4>5, <4>6, <4>7
    <3> QED BY <3>4, <3>5
  <2> QED BY <2>1, <2>2
<1> HIDE DEF two
<1>8. PICK x, w : Begins(x, len, w) /\ Len(w) < len /\ w = whole /\ two.m = x /\ two.q = Len(w)
  BY <1>7
<1>9. HoldsText(Zeroed(x, Len(w), 1), len, w)
  BY <1>8, EndHeld
<1> QED BY <1>2, <1>8, <1>9 DEF args, whole
-----------------------------------------------------------------------------
(* The functions of Str that compare. *)

\* A character, or the NUL behind a text.
LEMMA ChIs ==
  ASSUME NEW t \in Seq(Char), NEW k \in Nat \ {0}
  PROVE  /\ k <= Len(t) => Ch(t, k) = t[k] /\ Ch(t, k) \in Char
         /\ k > Len(t) => Ch(t, k) = NUL
         /\ ToUpper(Ch(t, k)) = NUL <=> k > Len(t)
         /\ Ch(t, k) = NUL <=> k > Len(t)
<1>1. Len(t) \in Nat
  BY LenProperties
<1>2. k <= Len(t) => t[k] \in Char
  BY <1>1, ElementOfSeq
<1>3. NUL \notin Char /\ ToUpper(NUL) = NUL
  BY Characters DEF ToUpper, NUL
<1>4. \A c \in Char : ToUpper(c) \in Char
  BY LettersStay
<1> QED BY <1>1, <1>2, <1>3, <1>4 DEF Ch

\* Texts of which one ends where the other does, at the first difference at the latest.
LEMMA SameLength ==
  ASSUME NEW t \in Seq(Char), NEW a \in Seq(Char), NEW least, least = Smaller(Len(t), Len(a))
  PROVE  /\ Ch(t, least + 1) = Ch(a, least + 1) => Len(t) = Len(a)
         /\ Len(t) = Len(a) => least = Len(t) /\ Ch(t, least + 1) = NUL /\ Ch(a, least + 1) = NUL
<1>1. Len(t) \in Nat /\ Len(a) \in Nat
  BY LenProperties
<1>2. least \in Nat /\ least + 1 \in Nat \ {0} /\ (least = Len(t) \/ least = Len(a))
      /\ least <= Len(t) /\ least <= Len(a)
  BY <1>1 DEF Smaller
<1>3. /\ Ch(t, least + 1) = NUL <=> least + 1 > Len(t)
      /\ Ch(a, least + 1) = NUL <=> least + 1 > Len(a)
  BY <1>2, ChIs
<1> QED BY <1>1, <1>2, <1>3

LEMMA EqualIs ==
  ASSUME NEW t \in Seq(Char), NEW a \in Seq(Char)
  PROVE  /\ Str_isByteEqual(t, a) <=> t = a
         /\ Str_isEqual(t, a) <=> Uppercase(t) = Uppercase(a)
<1> DEFINE least == Smaller(Len(t), Len(a))
<1>1. Len(t) \in Nat /\ Len(a) \in Nat
  BY LenProperties
<1>2. /\ Ch(t, least + 1) = Ch(a, least + 1) => Len(t) = Len(a)
      /\ Len(t) = Len(a) => least = Len(t) /\ Ch(t, least + 1) = NUL /\ Ch(a, least + 1) = NUL
  BY SameLength
<1>3. /\ Uppercase(t) \in Seq(Char) /\ Len(Uppercase(t)) = Len(t)
      /\ \A k \in 1 .. Len(t) : Uppercase(t)[k] = ToUpper(t[k])
      /\ Uppercase(a) \in Seq(Char) /\ Len(Uppercase(a)) = Len(a)
      /\ \A k \in 1 .. Len(a) : Uppercase(a)[k] = ToUpper(a[k])
  BY UppercaseIs
<1>4. /\ Str_isByteEqual(t, a) <=> /\ \A k \in 1 .. least : t[k] = a[k]
                                   /\ Ch(t, least + 1) = Ch(a, least + 1)
      /\ Str_isEqual(t, a) <=> /\ \A k \in 1 .. least : ToUpper(t[k]) = ToUpper(a[k])
                               /\ Ch(t, least + 1) = Ch(a, least + 1)
  BY DEF Str_isByteEqual, Str_isEqual
<1> HIDE DEF least
<1>5. Str_isByteEqual(t, a) <=> t = a
  <2>1. ASSUME Str_isByteEqual(t, a) PROVE t = a
    <3>1. Len(t) = Len(a) /\ \A k \in 1 .. Len(t) : t[k] = a[k]
      BY <1>2, <1>4, <2>1
    <3> QED BY <3>1, SeqEqual
  <2>2. ASSUME t = a PROVE Str_isByteEqual(t, a)
    BY <1>4, <2>2
  <2> QED BY <2>1, <2>2
<1>6. Str_isEqual(t, a) <=> Uppercase(t) = Uppercase(a)
  <2>1. ASSUME Str_isEqual(t, a) PROVE Uppercase(t) = Uppercase(a)
    <3>1. Len(t) = Len(a) /\ \A k \in 1 .. Len(t) : Uppercase(t)[k] = Uppercase(a)[k]
      BY <1>2, <1>3, <1>4, <2>1
    <3> QED BY <1>3, <3>1, SeqEqual
  <2>2. ASSUME Uppercase(t) = Uppercase(a) PROVE Str_isEqual(t, a)
    <3>1. Len(t) = Len(a)
      BY <1>3, <2>2
    <3>2. \A k \in 1 .. Len(t) : ToUpper(t[k]) = ToUpper(a[k])
      BY <1>3, <2>2, <3>1
    <3> QED BY <1>2, <1>4, <3>1, <3>2
  <2> QED BY <2>1, <2>2
<1> QED BY <1>5, <1>6

LEMMA StartsWithAgrees ==
  ASSUME NEW t \in Seq(Char), NEW a \in Seq(Char)
  PROVE  Str_startsWith(t, a) <=> IF a = <<>> THEN t = <<>> ELSE 0 \in Positions(t, a)
<1> DEFINE Same(k) == ToUpper(Ch(t, k)) = ToUpper(Ch(a, k))
<1>1. Len(t) \in Nat /\ Len(a) \in Nat /\ (a = <<>> <=> Len(a) = 0) /\ (t = <<>> <=> Len(t) = 0)
  BY LenProperties, EmptySeq
<1>2. Str_startsWith(t, a) <=> \A k \in 1 .. Len(a) \cup {1} : Same(k)
  BY DEF Str_startsWith
<1>3. \A k \in Nat \ {0} : /\ ToUpper(Ch(t, k)) = NUL <=> k > Len(t)
                           /\ ToUpper(Ch(a, k)) = NUL <=> k > Len(a)
                           /\ k <= Len(t) => Ch(t, k) = t[k]
                           /\ k <= Len(a) => Ch(a, k) = a[k]
  BY ChIs
<1>4. CASE a = <<>>
  <2>1. Same(1) <=> t = <<>>
    <3>1. ToUpper(Ch(a, 1)) = NUL /\ (ToUpper(Ch(t, 1)) = NUL <=> 1 > Len(t))
      BY <1>1, <1>3, <1>4
    <3> QED BY <1>1, <3>1
  <2>2. 1 .. Len(a) \cup {1} = {1}
    BY <1>1, <1>4
  <2> HIDE DEF Same
  <2> QED BY <1>2, <1>4, <2>1, <2>2
<1>5. CASE a # <<>>
  <2>1. 1 .. Len(a) \cup {1} = 1 .. Len(a)
    BY <1>1, <1>5
  <2> DEFINE ut == Uppercase(t)
             ua == Uppercase(a)
  <2>2. /\ ut \in Seq(Char) /\ Len(ut) = Len(t) /\ \A k \in 1 .. Len(t) : ut[k] = ToUpper(t[k])
        /\ ua \in Seq(Char) /\ Len(ua) = Len(a) /\ \A k \in 1 .. Len(a) : ua[k] = ToUpper(a[k])
    BY UppercaseIs
  <2>3. 0 \in Positions(t, a) <=> 0 \in 0 .. Len(t) - 1 /\ StartsWith(Suffix(ut, 0), ua)
    BY <1>5 DEF Positions
  <2> HIDE DEF ut, ua
  <2>4. StartsWith(Suffix(ut, 0), ua) <=> At(ut, 0, ua)
    <3>1. 0 \in 0 .. Len(ut)
      BY <1>1, <2>2
    <3> QED BY <2>2, <3>1, StartsWithIs
  <2>5. At(ut, 0, ua) <=> Len(a) <= Len(t) /\ \A k \in 1 .. Len(a) : ut[k] = ua[k]
    <3>1. 0 + Len(ua) = Len(a) /\ \A k \in 1 .. Len(a) : 0 + k = k
      BY <1>1, <2>2
    <3> QED BY <2>2, <3>1 DEF At
  <2>6. ASSUME NEW k \in 1 .. Len(a), Len(a) <= Len(t) PROVE Same(k) <=> ut[k] = ua[k]
    <3>1. k \in Nat \ {0} /\ k <= Len(a) /\ k <= Len(t) /\ k \in 1 .. Len(t)
      BY <1>1, <2>6
    <3> QED BY <1>3, <2>2, <3>1
  <2>7. ASSUME \A k \in 1 .. Len(a) : Same(k) PROVE Len(a) <= Len(t)
    <3>1. Len(a) \in 1 .. Len(a) /\ Len(a) \in Nat \ {0}
      BY <1>1, <1>5
    <3>2. ToUpper(Ch(t, Len(a))) = ToUpper(Ch(a, Len(a)))
      BY <2>7, <3>1
    <3> QED BY <1>1, <1>3, <3>1, <3>2
  <2>8. Len(a) <= Len(t) => 0 \in 0 .. Len(t) - 1
    BY <1>1, <1>5
  <2> HIDE DEF Same
  <2> QED BY <1>2, <1>5, <2>1, <2>3, <2>4, <2>5, <2>6, <2>7, <2>8
<1> QED BY <1>4, <1>5

LEMMA EndsWithAgrees ==
  ASSUME NEW t \in Seq(Char), NEW a \in Seq(Char)
  PROVE  Str_endsWith(t, a) <=>
           /\ Len(a) <= Len(t)
           /\ \A d \in 0 .. Len(a) - 2 : ToUpper(t[Len(t) - d]) = ToUpper(a[Len(a) - d])
<1> DEFINE Same(d) == ToUpper(Ch(t, Len(t) + 1 - d)) = ToUpper(Ch(a, Len(a) + 1 - d))
           Agree(d) == ToUpper(t[Len(t) - d]) = ToUpper(a[Len(a) - d])
<1>1. Len(t) \in Nat /\ Len(a) \in Nat
  BY LenProperties
<1>2. CASE Len(a) <= Len(t)
  <2>1. Smaller(Len(t), Len(a)) = Len(a)
    BY <1>1, <1>2 DEF Smaller
  <2>2. Str_endsWith(t, a) <=> \A d \in 0 .. Len(a) - 1 : Same(d)
    BY <1>2, <2>1, <1>1 DEF Str_endsWith
  <2>3. Same(0)
    <3>1. Len(t) + 1 - 0 = Len(t) + 1 /\ Len(a) + 1 - 0 = Len(a) + 1
      BY <1>1
    <3>2. Ch(t, Len(t) + 1) = NUL /\ Ch(a, Len(a) + 1) = NUL
      BY <1>1, ChIs
    <3> QED BY <3>1, <3>2
  <2>4. ASSUME NEW d \in 0 .. Len(a) - 2 PROVE d + 1 \in 0 .. Len(a) - 1 /\ (Same(d + 1) <=> Agree(d))
    <3>1. /\ Len(t) + 1 - (d + 1) = Len(t) - d /\ Len(a) + 1 - (d + 1) = Len(a) - d
          /\ Len(t) - d \in Nat \ {0} /\ Len(a) - d \in Nat \ {0}
          /\ Len(t) - d <= Len(t) /\ Len(a) - d <= Len(a)
          /\ d + 1 \in 0 .. Len(a) - 1
      BY <1>1, <1>2
    <3>2. Ch(t, Len(t) - d) = t[Len(t) - d] /\ Ch(a, Len(a) - d) = a[Len(a) - d]
      BY <3>1, ChIs
    <3> QED BY <3>1, <3>2
  <2>5. ASSUME NEW d \in 0 .. Len(a) - 1 PROVE d = 0 \/ (d - 1 \in 0 .. Len(a) - 2 /\ (d - 1) + 1 = d)
    BY <1>1
  <2> HIDE DEF Same, Agree
  <2>6. (\A d \in 0 .. Len(a) - 1 : Same(d)) <=> \A d \in 0 .. Len(a) - 2 : Agree(d)
    BY <2>3, <2>4, <2>5
  <2> QED BY <1>2, <2>2, <2>6 DEF Agree
<1>3. CASE ~(Len(a) <= Len(t))
  BY <1>1, <1>3 DEF Str_endsWith
<1> QED BY <1>2, <1>3

LEMMA ConstantTimeIs ==
  ASSUME NEW t \in Seq(Char), NEW a \in Seq(Char)
  PROVE  Str_compareConstantTime(t, a) = 0 <=> t = a /\ Len(t) <= Limit
<1>1. Len(t) \in Nat /\ Len(a) \in Nat /\ Limit \in Nat
  BY LenProperties, LimitAssumption
<1>2. CASE Len(t) > Limit \/ Len(a) > Limit
  <2>1. Str_compareConstantTime(t, a) = 1
    BY <1>2 DEF Str_compareConstantTime
  <2>2. ~(t = a /\ Len(t) <= Limit)
    BY <1>1, <1>2
  <2> QED BY <2>1, <2>2
<1>3. CASE Len(t) <= Limit /\ Len(a) <= Limit
  <2>1. Str_compareConstantTime(t, a) = 0 <=> \A k \in 1 .. Limit + 1 : Ch(t, k) = Ch(a, k)
    BY <1>1, <1>3 DEF Str_compareConstantTime
  <2>2. ASSUME \A k \in 1 .. Limit + 1 : Ch(t, k) = Ch(a, k) PROVE t = a
    <3> DEFINE least == Smaller(Len(t), Len(a))
    <3>1. least \in Nat /\ least + 1 \in 1 .. Limit + 1
      BY <1>1, <1>3 DEF Smaller
    <3>2. Ch(t, least + 1) = Ch(a, least + 1)
      BY <2>2, <3>1
    <3> HIDE DEF least
    <3>3. Len(t) = Len(a)
      BY <3>2, SameLength DEF least
    <3>4. ASSUME NEW k \in 1 .. Len(t) PROVE t[k] = a[k]
      <4>1. k \in 1 .. Limit + 1 /\ k <= Len(t) /\ k <= Len(a)
        BY <1>1, <1>3, <3>3
      <4> QED BY <2>2, <4>1 DEF Ch
    <3> QED BY <3>3, <3>4, SeqEqual
  <2> QED BY <1>3, <2>1, <2>2
<1> QED BY <1>1, <1>2, <1>3

\* What Str_endsWith answers when the first character of the suffix is there.
LEMMA EndsIs ==
  ASSUME NEW t \in Seq(Char), NEW a \in Seq(Char),
         a = <<>> \/ Len(a) > Len(t) \/ ToUpper(t[Len(t) - Len(a) + 1]) = ToUpper(a[1])
  PROVE  Str_endsWith(t, a) <=> Ends(t, a)
<1> DEFINE ut == Uppercase(t)
           ua == Uppercase(a)
           k == Len(t) - Len(a)
           Agree(d) == ToUpper(t[Len(t) - d]) = ToUpper(a[Len(a) - d])
<1>1. Len(t) \in Nat /\ Len(a) \in Nat /\ (a = <<>> <=> Len(a) = 0)
  BY LenProperties, EmptySeq
<1>2. Str_endsWith(t, a) <=> Len(a) <= Len(t) /\ \A d \in 0 .. Len(a) - 2 : Agree(d)
  BY EndsWithAgrees
<1>3. /\ ut \in Seq(Char) /\ Len(ut) = Len(t) /\ \A j \in 1 .. Len(t) : ut[j] = ToUpper(t[j])
      /\ ua \in Seq(Char) /\ Len(ua) = Len(a) /\ \A j \in 1 .. Len(a) : ua[j] = ToUpper(a[j])
  BY UppercaseIs
<1>4. Ends(t, a) <=> Len(a) <= Len(t) /\ Suffix(ut, k) = ua
  BY DEF Ends
<1> HIDE DEF ut, ua
<1>5. CASE Len(a) <= Len(t)
  <2>1. k \in 0 .. Len(ut) /\ Len(ut) - k = Len(a)
    BY <1>1, <1>3, <1>5
  <2>2. /\ Suffix(ut, k) \in Seq(Char) /\ Len(Suffix(ut, k)) = Len(a)
        /\ \A j \in 1 .. Len(a) : Suffix(ut, k)[j] = ut[k+j]
    <3> HIDE DEF k
    <3> QED BY <1>3, <2>1, SuffixIs
  <2>3. ASSUME NEW j \in 1 .. Len(a) PROVE ut[k+j] = ua[j] <=> Agree(Len(a) - j)
    <3>1. /\ k+j \in 1 .. Len(t) /\ Len(t) - (Len(a) - j) = k+j /\ Len(a) - (Len(a) - j) = j
      BY <1>1, <1>5
    <3>2. ut[k+j] = ToUpper(t[k+j]) /\ ua[j] = ToUpper(a[j])
      BY <1>3, <3>1
    <3> QED BY <3>1, <3>2
  <2>4. Suffix(ut, k) = ua <=> \A j \in 1 .. Len(a) : ut[k+j] = ua[j]
    <3>1. ASSUME \A j \in 1 .. Len(a) : ut[k+j] = ua[j] PROVE Suffix(ut, k) = ua
      <4> HIDE DEF k
      <4> QED BY <1>3, <2>2, <3>1, SeqEqual
    <3> QED BY <2>2, <3>1
  <2>5. Len(a) # 0 => Agree(Len(a) - 1)
    <3> SUFFICES ASSUME Len(a) # 0 PROVE Agree(Len(a) - 1)
      OBVIOUS
    <3>1. Len(t) - (Len(a) - 1) = Len(t) - Len(a) + 1 /\ Len(a) - (Len(a) - 1) = 1
      BY <1>1
    <3>2. ToUpper(t[Len(t) - Len(a) + 1]) = ToUpper(a[1])
      BY <1>1, <1>5
    <3> QED BY <3>1, <3>2
  <2>6. ASSUME NEW d \in 0 .. Len(a) - 1
        PROVE  /\ d = Len(a) - 1 \/ d \in 0 .. Len(a) - 2
               /\ Len(a) - d \in 1 .. Len(a) /\ Len(a) - (Len(a) - d) = d
    BY <1>1
  <2>7. \A j \in 1 .. Len(a) : Len(a) - j \in 0 .. Len(a) - 1
    BY <1>1
  <2>8. \A d \in 0 .. Len(a) - 2 : d \in 0 .. Len(a) - 1
    BY <1>1
  <2>9. (\A j \in 1 .. Len(a) : ut[k+j] = ua[j]) <=> \A d \in 0 .. Len(a) - 1 : Agree(d)
    <3> HIDE DEF k, Agree
    <3>1. ASSUME \A j \in 1 .. Len(a) : ut[k+j] = ua[j], NEW d \in 0 .. Len(a) - 1 PROVE Agree(d)
      <4>1. Len(a) - d \in 1 .. Len(a) /\ Len(a) - (Len(a) - d) = d
        BY <2>6
      <4>2. Agree(Len(a) - (Len(a) - d))
        BY <2>3, <3>1, <4>1
      <4> QED BY <4>1, <4>2
    <3> QED BY <2>3, <2>7, <3>1
  <2>10. (\A d \in 0 .. Len(a) - 1 : Agree(d)) <=> \A d \in 0 .. Len(a) - 2 : Agree(d)
    <3>1. Len(a) = 0 => 0 .. Len(a) - 1 = {}
      BY <1>1
    <3> HIDE DEF Agree
    <3> QED BY <2>5, <2>6, <2>8, <3>1
  <2> HIDE DEF k, Agree
  <2> QED BY <1>2, <1>4, <1>5, <2>4, <2>9, <2>10
<1>6. CASE ~(Len(a) <= Len(t))
  BY <1>2, <1>4, <1>6
<1> QED BY <1>5, <1>6

\* Str_compareConstantTime, where the texts fit or differ before they are cut.
LEMMA FirstCompared ==
  ASSUME NEW t \in Seq(Char), NEW a \in Seq(Char),
         (Len(t) <= Limit /\ Len(a) <= Limit) \/ FirstN(t, Limit) # FirstN(a, Limit)
  PROVE  Str_compareConstantTime(t, a) = 0 <=> FirstN(t, Limit) = FirstN(a, Limit)
<1>1. Str_compareConstantTime(t, a) = 0 <=> t = a /\ Len(t) <= Limit
  BY ConstantTimeIs
<1>2. CASE FirstN(t, Limit) # FirstN(a, Limit)
  BY <1>1, <1>2
<1>3. CASE Len(t) <= Limit /\ Len(a) <= Limit
  <2>1. ASSUME NEW w \in Seq(Char), Len(w) <= Limit PROVE FirstN(w, Limit) = w
    <3>1. Len(w) \in Nat /\ Limit \in Nat
      BY LenProperties, LimitAssumption
    <3>2. (IF Limit < Len(w) THEN Limit ELSE Len(w)) = Len(w)
      BY <2>1, <3>1
    <3>3. FirstN(w, Limit) = SubSeq(w, 1, Len(w))
      BY <3>2 DEF FirstN
    <3> QED BY <3>3, SubSeqFull
  <2> QED BY <1>1, <1>3, <2>1
<1> QED BY <1>2, <1>3

LEMMA LimIs ==
  ASSUME NEW u \in Nat, NEW limit \in Nat
  PROVE  limit - Smaller(u, limit + 1) < 0 <=> u > limit
BY DEF Smaller

\* In an array that is a string the comparisons agree.
LEMMA ComparisonsAgreeIs ==
  ASSUME s # NoString => IsString(s)
  PROVE  ComparisonsAgree
<1> SUFFICES ASSUME s # NoString, NEW a \in Arguments
    PROVE LET t == CString(s)
          IN /\ Str_isByteEqual(t, a) <=> t = a
             /\ Str_isEqual(t, a) <=> Uppercase(t) = Uppercase(a)
             /\ a # <<>> => (Str_startsWith(t, a) <=> 0 \in Positions(t, a))
             /\ a = <<>> \/ Len(a) > Len(t) \/ ToUpper(t[Len(t) - Len(a) + 1]) = ToUpper(a[1])
                  => (Str_endsWith(t, a) <=> Ends(t, a))
             /\ Str_sub(s, a) = IF Positions(t, a) = {} THEN -1 ELSE Smallest(Positions(t, a))
             /\ (Len(t) <= Limit /\ Len(a) <= Limit) \/ FirstN(t, Limit) # FirstN(a, Limit)
                  => (Str_compareConstantTime(t, a) = 0 <=> FirstN(t, Limit) = FirstN(a, Limit))
             /\ Str_has(Charset(a), t) <=> Charset(a) \cap Charset(t) # {}
             /\ \A limit \in 0 .. Len(t) + 1 : Str_lim(t, limit) <=> Len(t) > limit
  BY DEF ComparisonsAgree
<1>1. PICK len \in Nat : \E w \in Seq(Char) : HoldsText(s, len, w)
  BY DEF IsString
<1>2. PICK t \in Seq(Char) : HoldsText(s, len, t)
  BY <1>1
<1>3. CString(s) = t /\ Len(t) \in Nat
  BY <1>2, TextHeld
<1>4. a \in Seq(Char)
  BY StringsAssumption
<1>5. Str_has(Charset(a), t) <=> Charset(a) \cap Charset(t) # {}
  BY DEF Str_has, Charset
<1>6. \A limit \in 0 .. Len(t) + 1 : Str_lim(t, limit) <=> Len(t) > limit
  <2>1. \A limit \in 0 .. Len(t) + 1 : limit \in Nat
    BY <1>3
  <2> QED BY <1>3, <2>1, LimIs DEF Str_lim
<1>7. Str_isByteEqual(t, a) <=> t = a
  BY <1>4, EqualIs
<1>8. Str_isEqual(t, a) <=> Uppercase(t) = Uppercase(a)
  BY <1>4, EqualIs
<1>9. a # <<>> => (Str_startsWith(t, a) <=> 0 \in Positions(t, a))
  BY <1>4, StartsWithAgrees
<1>10. a = <<>> \/ Len(a) > Len(t) \/ ToUpper(t[Len(t) - Len(a) + 1]) = ToUpper(a[1])
         => (Str_endsWith(t, a) <=> Ends(t, a))
  BY <1>4, EndsIs
<1>11. Str_sub(s, a) = IF Positions(t, a) = {} THEN -1 ELSE Smallest(Positions(t, a))
  BY <1>2, <1>4, SubIs
<1>12. (Len(t) <= Limit /\ Len(a) <= Limit) \/ FirstN(t, Limit) # FirstN(a, Limit)
         => (Str_compareConstantTime(t, a) = 0 <=> FirstN(t, Limit) = FirstN(a, Limit))
  BY <1>4, FirstCompared
<1> QED BY <1>3, <1>5, <1>6, <1>7, <1>8, <1>9, <1>10, <1>11, <1>12, Zenon

-----------------------------------------------------------------------------
(* Any function after any other. *)

\* After Duplicate the array is a string, whatever was called.
StringInv == s # NoString => IsString(s)

\* What Documented is, function by function.
LEMMA DocumentedIs ==
  ASSUME NEW r, NEW len, NEW t, HoldsText(r, len, t)
  PROVE  /\ Documented(r, <<"chomp">>) = Before(t, {"\r", "\n"})
         /\ Documented(r, <<"trim">>) = Trimmed(t)
         /\ Documented(r, <<"unquote">>) = Unquoted(t)
         /\ Documented(r, <<"toLower">>) = [k \in DOMAIN t |-> ToLower(t[k])]
         /\ Documented(r, <<"toUpper">>) = Uppercase(t)
         /\ \A o, c : Documented(r, <<"replaceChar", o, c>>) = CharReplaced(t, o, c)
         /\ \A a : Documented(r, <<"unescape", a>>) = Unescaped(t, Charset(a))
         /\ \A k : Documented(r, <<"trunc", k>>) = Truncated(t, k)
         /\ \A a : Documented(r, <<"curtail", a>>) = Curtailed(t, a)
         /\ \A a, k : Documented(r, <<"copy", a, k>>) = FirstN(a, k)
         /\ \A a, b, k : Documented(r, <<"join", <<a, b>>, k>>) = FirstN(a \o b, k)
         /\ \A k : Documented(r, <<"escapeZero", k>>) = ZerosEscaped(Bytes(r, 0, k), NUL, len - 1)
<1>1. CString(r) = t /\ Size(r) = len
  BY TextHeld
<1>2. Documented(r, <<"chomp">>) = Before(t, {"\r", "\n"})
  BY <1>1 DEF Documented
<1>3. Documented(r, <<"trim">>) = Trimmed(t)
  BY <1>1 DEF Documented
<1>4. Documented(r, <<"unquote">>) = Unquoted(t)
  BY <1>1 DEF Documented
<1>5. Documented(r, <<"toLower">>) = [k \in DOMAIN t |-> ToLower(t[k])]
  BY <1>1 DEF Documented
<1>6. Documented(r, <<"toUpper">>) = Uppercase(t)
  BY <1>1 DEF Documented
<1>7. \A o, c : Documented(r, <<"replaceChar", o, c>>) = CharReplaced(t, o, c)
  BY <1>1 DEF Documented, CharReplaced
<1>8. \A a : Documented(r, <<"unescape", a>>) = Unescaped(t, Charset(a))
  BY <1>1 DEF Documented
<1>9. \A k : Documented(r, <<"trunc", k>>) = Truncated(t, k)
  BY <1>1 DEF Documented
<1>10. \A a : Documented(r, <<"curtail", a>>) = Curtailed(t, a)
  BY <1>1 DEF Documented
<1>11. \A a, k : Documented(r, <<"copy", a, k>>) = FirstN(a, k)
  BY <1>1 DEF Documented
<1>12. \A a, b, k : Documented(r, <<"join", <<a, b>>, k>>) = FirstN(a \o b, k)
  BY <1>1 DEF Documented
<1>13. \A k : Documented(r, <<"escapeZero", k>>) = ZerosEscaped(Bytes(r, 0, k), NUL, len - 1)
  BY <1>1 DEF Documented
<1> QED BY <1>2, <1>3, <1>4, <1>5, <1>6, <1>7, <1>8, <1>9, <1>10, <1>11, <1>12, <1>13

LEMMA DuplicateDocumented ==
  ASSUME NEW r
  PROVE  /\ \A a : Documented(r, <<"dup", a>>) = a
         /\ \A a, k : Documented(r, <<"ndup", a, k>>) = FirstN(a, k)
<1>1. \A a : Documented(r, <<"dup", a>>) = a
  BY DEF Documented
<1>2. \A a, k : Documented(r, <<"ndup", a, k>>) = FirstN(a, k)
  BY DEF Documented
<1> QED BY <1>1, <1>2

\* Every function makes of a string what its documentation says.
LEMMA ChangeIs ==
  ASSUME NEW len, NEW t, HoldsText(s, len, t), Change
  PROVE  HoldsText(s', len, Documented(s, fn'))
<1>1. /\ Size(s) = len /\ len \in Nat \ {0} /\ s \in [0 .. len-1 -> Letter] /\ t \in Seq(Char)
      /\ \A a \in Arguments : a \in Seq(Char)
  BY TextHeld, StringsAssumption
<1>2. /\ Documented(s, <<"chomp">>) = Before(t, {"\r", "\n"})
      /\ Documented(s, <<"trim">>) = Trimmed(t)
      /\ Documented(s, <<"unquote">>) = Unquoted(t)
      /\ Documented(s, <<"toLower">>) = [k \in DOMAIN t |-> ToLower(t[k])]
      /\ Documented(s, <<"toUpper">>) = Uppercase(t)
      /\ \A o, c : Documented(s, <<"replaceChar", o, c>>) = CharReplaced(t, o, c)
      /\ \A a : Documented(s, <<"unescape", a>>) = Unescaped(t, Charset(a))
      /\ \A k : Documented(s, <<"trunc", k>>) = Truncated(t, k)
      /\ \A a : Documented(s, <<"curtail", a>>) = Curtailed(t, a)
      /\ \A a, k : Documented(s, <<"copy", a, k>>) = FirstN(a, k)
      /\ \A a, b, k : Documented(s, <<"join", <<a, b>>, k>>) = FirstN(a \o b, k)
      /\ \A k : Documented(s, <<"escapeZero", k>>) = ZerosEscaped(Bytes(s, 0, k), NUL, len - 1)
  BY DocumentedIs
<1>3. CASE fn' = <<"chomp">> /\ s' = Str_chomp(s)
  BY <1>2, <1>3, ChompHeld
<1>4. CASE fn' = <<"trim">> /\ s' = Str_trim(s)
  BY <1>2, <1>4, TrimHeld
<1>5. CASE fn' = <<"unquote">> /\ s' = Str_unquote(s)
  BY <1>2, <1>5, UnquoteHeld
<1>6. CASE fn' = <<"toLower">> /\ s' = Str_toLower(s)
  BY <1>2, <1>6, CaseHeld
<1>7. CASE fn' = <<"toUpper">> /\ s' = Str_toUpper(s)
  BY <1>2, <1>7, CaseHeld
<1>8. ASSUME NEW o \in {"a", " "}, NEW c \in {"a", " "},
             fn' = <<"replaceChar", o, c>>, s' = Str_replaceChar(s, o, c)
      PROVE  HoldsText(s', len, Documented(s, fn'))
  <2>1. c \in Char
    BY LettersAssumption
  <2>2. HoldsText(Str_replaceChar(s, o, c), len, CharReplaced(t, o, c))
    BY <2>1, ReplaceCharHeld
  <2> QED BY <1>2, <1>8, <2>2
<1>9. ASSUME NEW a \in Arguments, fn' = <<"unescape", a>>, s' = Str_unescape(s, Charset(a))
      PROVE  HoldsText(s', len, Documented(s, fn'))
  <2>1. NUL \notin Charset(a)
    <3>1. DOMAIN a = 1 .. Len(a) /\ \A k \in 1 .. Len(a) : a[k] \in Char
      BY <1>1, LenProperties, ElementOfSeq
    <3> QED BY <3>1, Characters DEF Charset
  <2> QED BY <1>2, <1>9, <2>1, UnescapeHeld
<1>10. ASSUME NEW k \in 0 .. Size(s), fn' = <<"trunc", k>>, s' = Str_trunc(s, k)
       PROVE  HoldsText(s', len, Documented(s, fn'))
  <2>1. k \in Nat
    BY <1>1
  <2> QED BY <1>2, <1>10, <2>1, TruncHeld
<1>11. ASSUME NEW a \in Arguments, fn' = <<"curtail", a>>, s' = Str_curtail(s, a)
       PROVE  HoldsText(s', len, Documented(s, fn'))
  BY <1>1, <1>2, <1>11, CurtailHeld
<1>12. ASSUME NEW a \in Arguments, NEW k \in 0 .. Size(s) - 1,
              fn' = <<"copy", a, k>>, s' = Str_copy(s, a, k)
       PROVE  HoldsText(s', len, Documented(s, fn'))
  <2>1. len \in Nat /\ k \in 0 .. len-1 /\ a \in Seq(Char)
    BY <1>1
  <2>2. HoldsText(Str_copy(s, a, k), len, FirstN(a, k))
    BY <1>1, <2>1, CopyHeld
  <2> QED BY <1>2, <1>12, <2>2
<1>13. ASSUME NEW a \in Arguments, NEW b \in Arguments, NEW k \in 0 .. Size(s) - 1,
              fn' = <<"join", <<a, b>>, k>>, s' = Str_join(s, k, <<a, b>>)
       PROVE  HoldsText(s', len, Documented(s, fn'))
  <2>1. k \in 0 .. len-1 /\ a \in Seq(Char) /\ b \in Seq(Char)
    BY <1>1
  <2>2. HoldsText(Str_join(s, k, <<a, b>>), len, FirstN(a \o b, k))
    BY <2>1, JoinHeld
  <2> QED BY <1>2, <1>13, <2>2
<1>14. ASSUME NEW k \in 0 .. Size(s), fn' = <<"escapeZero", k>>, s' = Str_escapeZero(s, k)
       PROVE  HoldsText(s', len, Documented(s, fn'))
  <2>1. k \in 0 .. len
    BY <1>1
  <2> QED BY <1>2, <1>14, <2>1, EscapeZeroHeld
<1> QED BY <1>3, <1>4, <1>5, <1>6, <1>7, <1>8, <1>9, <1>10, <1>11, <1>12, <1>13, <1>14 DEF Change

\* A duplicate holds what was duplicated.
LEMMA DuplicateIs ==
  ASSUME Duplicate
  PROVE  \E len : HoldsText(s', len, Documented(s', fn'))
<1>1. ASSUME NEW t \in Strings, fn' = <<"dup", t>>, s' = Str_dup(t)
      PROVE  \E len : HoldsText(s', len, Documented(s', fn'))
  <2>1. HoldsText(s', Len(t) + 1, t)
    BY <1>1, StringsAssumption, DupHeld
  <2>2. \A a : Documented(s', <<"dup", a>>) = a
    BY DuplicateDocumented
  <2> QED BY <1>1, <2>1, <2>2
<1>2. ASSUME NEW t \in Strings, NEW k \in 0 .. Len(t) + 1, fn' = <<"ndup", t, k>>, s' = Str_ndup(t, k)
      PROVE  \E len : HoldsText(s', len, Documented(s', fn'))
  <2>1. t \in Seq(Char) /\ k \in Nat
    BY StringsAssumption, LenProperties
  <2>2. HoldsText(s', Len(FirstN(t, k)) + 1, FirstN(t, k))
    BY <1>2, <2>1, NdupHeld
  <2>3. Documented(s', <<"ndup", t, k>>) = FirstN(t, k)
    BY DuplicateDocumented
  <2> QED BY <1>2, <2>2, <2>3
<1> QED BY <1>1, <1>2 DEF Duplicate

LEMMA TakeIs ==
  ASSUME BufferInv, TakeText
  PROVE  \E len : HoldsText(s', len, Documented(s', fn'))
<1> DEFINE t == CString(buffer)
<1>1. fn' = <<"dup", t>> /\ s' = Str_dup(t) /\ state = "ready"
  BY DEF TakeText
<1>2. t \in Seq(Char)
  <2>1. Holds(buffer, length, used) /\ used < length /\ buffer[used] = NUL
    BY <1>1 DEF BufferInv
  <2>2. Strlen(buffer) = used
    BY <2>1, StrlenIs
  <2> QED BY <2>1, <2>2, BytesText DEF CString
<1> HIDE DEF t
<1>3. HoldsText(s', Len(t) + 1, t)
  BY <1>1, <1>2, DupHeld
<1>4. \A a : Documented(s', <<"dup", a>>) = a
  BY DuplicateDocumented
<1> QED BY <1>1, <1>3, <1>4

\* One call: the string stays a string, in the same array, and is what the documentation says.
DocumentedStep ==
  /\ s # NoString => DOMAIN s' = DOMAIN s
  /\ NUL \in {s'[k] : k \in DOMAIN s'}
  /\ CString(s') = Documented(IF s = NoString THEN s' ELSE s, fn')

LEMMA StringStep ==
  ASSUME BufferInv, StringInv, [MCNext]_<<vars, strvars>>
  PROVE  StringInv' /\ [DocumentedStep]_strvars
<1>1. CASE UNCHANGED strvars
  BY <1>1 DEF StringInv, strvars, NoString, IsString
<1>2. ASSUME s # NoString, Change PROVE IsString(s') /\ DocumentedStep
  <2>1. PICK len, t : HoldsText(s, len, t)
    BY <1>2 DEF StringInv, IsString
  <2>2. HoldsText(s', len, Documented(s, fn'))
    BY <1>2, <2>1, ChangeIs
  <2>3. DOMAIN s = 0 .. len-1
    BY <2>1, TextHeld
  <2>4. /\ DOMAIN s' = 0 .. len-1 /\ CString(s') = Documented(s, fn')
        /\ NUL \in {s'[k] : k \in DOMAIN s'}
    BY <2>2, TextHeld
  <2>5. IsString(s')
    BY <2>2 DEF IsString, HoldsText
  <2> QED BY <1>2, <2>3, <2>4, <2>5 DEF DocumentedStep
<1>3. ASSUME s = NoString, NEW len, HoldsText(s', len, Documented(s', fn'))
      PROVE  IsString(s') /\ DocumentedStep
  <2>1. CString(s') = Documented(s', fn') /\ NUL \in {s'[k] : k \in DOMAIN s'}
    BY <1>3, TextHeld
  <2>2. IsString(s')
    BY <1>3 DEF IsString, HoldsText
  <2> QED BY <1>3, <2>1, <2>2 DEF DocumentedStep
<1>4. CASE TakeText
  <2>1. s = NoString
    BY <1>4 DEF TakeText
  <2> QED BY <1>3, <1>4, <2>1, TakeIs DEF StringInv
<1>5. CASE StrNext
  <2>1. CASE Duplicate
    <3>1. s = NoString
      BY <2>1 DEF Duplicate
    <3> QED BY <1>3, <2>1, <3>1, DuplicateIs DEF StringInv
  <2>2. CASE Change
    <3>1. s # NoString
      BY <2>2 DEF Change
    <3> QED BY <1>2, <2>2, <3>1 DEF StringInv
  <2> QED BY <1>5, <2>1, <2>2 DEF StrNext
<1> QED BY <1>1, <1>4, <1>5 DEF MCNext

LEMMA BufferStep ==
  ASSUME RoomyInt, BufferInv, BoundInv, [MCNext]_<<vars, strvars>>
  PROVE  BufferInv' /\ BoundInv'
<1>1. CASE [Next]_vars
  BY <1>1, NextBuffer
<1>2. CASE TakeText
  BY <1>2, TakeBuffer
<1>3. [Next]_vars \/ TakeText
  BY DEF MCNext
<1> QED BY <1>1, <1>2, <1>3

LEMMA StringsInductive ==
  ASSUME RoomyInt
  PROVE  MCSpec => [](BufferInv /\ BoundInv /\ StringInv)
<1>1. MCInit => BufferInv /\ BoundInv /\ StringInv
  BY InitBuffer, InitBound DEF MCInit, StrInit, StringInv
<1>2. BufferInv /\ BoundInv /\ StringInv /\ [MCNext]_<<vars, strvars>>
        => (BufferInv /\ BoundInv /\ StringInv)'
  BY BufferStep, StringStep
<1> QED BY <1>1, <1>2, PTL DEF MCSpec

\* Whatever was called before, the functions of Str.c that look at texts answer what Str.h
\* promises of them, but for an empty prefix, for a suffix whose first character is not there,
\* and for texts that do not fit the constant time comparison and differ behind its limit only.
THEOREM ComparisonsRight ==
  ASSUME RoomyInt
  PROVE  MCSpec => []ComparisonsAgree
<1>1. StringInv => ComparisonsAgree
  BY ComparisonsAgreeIs DEF StringInv
<1> QED BY <1>1, StringsInductive, PTL

\* Whatever earlier calls left behind the NUL, every function of Str.c leaves the string its
\* documentation says, terminated inside the same array, and writes nothing outside it.
THEOREM FunctionsDocumented ==
  ASSUME RoomyInt
  PROVE  MCSpec => ChangesDocumented
<1>1. BufferInv /\ StringInv /\ [MCNext]_<<vars, strvars>> => [DocumentedStep]_strvars
  BY StringStep
<1>2. ChangesDocumented <=> [][DocumentedStep]_strvars
  BY DEF ChangesDocumented, DocumentedStep
<1> QED BY <1>1, <1>2, StringsInductive, PTL DEF MCSpec
=============================================================================
