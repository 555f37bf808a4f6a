--------------------------- MODULE StringsProofs ---------------------------
(***************************************************************************)
(* Theorems about a StringBuffer, for any texts, patterns and sizes: the   *)
(* memory never loses its text, and a search sees nothing but the text.    *)
(***************************************************************************)
EXTENDS MCStrings, TLAPS, FiniteSetTheorems, FunctionTheorems, SequenceTheorems,
        WellFoundedInduction

-----------------------------------------------------------------------------
(* Characters, arrays and texts. *)

LEMMA Characters ==
  /\ NUL \notin Char /\ JUNK \notin Char /\ NUL # JUNK
  /\ ~IsSpace(NUL)
BY DEF Char, NUL, JUNK, IsSpace

\* What a byte can hold, and an array of n of them.
Byte == Char \cup {NUL, JUNK}
Array(len) == [0 .. len-1 -> Byte]

\* The first u bytes of an array are a text.
Holds(buf, len, u) ==
  /\ len \in Nat /\ u \in Nat /\ buf \in Array(len) /\ u <= len
  /\ \A k \in 0 .. u-1 : buf[k] \in Char

\* The least of some numbers.
LEMMA LeastIs ==
  ASSUME NEW S \in SUBSET Int, NEW x \in S, \A y \in S : x <= y
  PROVE  Least(S) = x
<1>1. Least(S) \in S /\ \A z \in S : Least(S) <= z
  BY DEF Least
<1>2. Least(S) <= x /\ x <= Least(S) /\ Least(S) \in Int
  BY <1>1
<1> QED BY <1>2

LEMMA LeastExists ==
  ASSUME NEW S \in SUBSET Nat, S # {}
  PROVE  Least(S) \in S /\ \A y \in S : Least(S) <= y
<1>1. PICK x \in S : \A y \in S : ~(<<y, x>> \in OpToRel(<, Nat))
  BY NatLessThanWellFounded, WFMin
<1>2. \A y \in S : ~(y < x)
  BY <1>1 DEF OpToRel
<1>3. \A y \in S : x <= y
  BY <1>2
<1> QED BY <1>3 DEF Least

\* A C string of u characters has the length u.
LEMMA StrlenIs ==
  ASSUME NEW len, NEW u, NEW buf, Holds(buf, len, u), u < len, buf[u] = NUL
  PROVE  Strlen(buf) = u
<1> DEFINE S == {k \in DOMAIN buf : buf[k] = NUL}
<1>1. DOMAIN buf = 0 .. len-1 /\ u \in S /\ S \in SUBSET Int
  BY DEF Holds, Array
<1>2. \A y \in S : u <= y
  <2> SUFFICES ASSUME NEW y \in S, y < u PROVE FALSE
    BY <1>1 DEF Holds
  <2>1. y \in 0 .. u-1
    BY <1>1 DEF Holds
  <2> QED BY <2>1, Characters DEF Holds
<1> HIDE DEF S
<1>3. Least(S) = u
  BY <1>1, <1>2, LeastIs
<1> QED BY <1>3 DEF Strlen, S

-----------------------------------------------------------------------------
(* Memory. *)

LEMMA MemcpyIs ==
  ASSUME NEW len \in Nat, NEW buf \in Array(len), NEW at \in Nat, NEW t \in Seq(Byte),
         at + Len(t) <= len
  PROVE  /\ Memcpy(buf, at, t) \in Array(len)
         /\ \A k \in 0 .. len-1 :
              Memcpy(buf, at, t)[k] = IF k \in at .. at + Len(t) - 1 THEN t[k-at+1] ELSE buf[k]
<1>1. DOMAIN buf = 0 .. len-1
  BY DEF Array
<1>2. \A k \in at .. at + Len(t) - 1 : t[k-at+1] \in Byte
  BY ElementOfSeq
<1>3. DOMAIN buf \cup at .. at + Len(t) - 1 = 0 .. len-1
  BY <1>1, LenProperties
<1> QED BY <1>2, <1>3 DEF Memcpy, Array

LEMMA ReallocIs ==
  ASSUME NEW len \in Nat, NEW buf \in Array(len), NEW l \in Nat, len <= l
  PROVE  /\ Realloc(buf, l) \in Array(l)
         /\ \A k \in 0 .. len-1 : Realloc(buf, l)[k] = buf[k]
BY DEF Realloc, Array, Byte

LEMMA ZeroedIs ==
  ASSUME NEW len \in Nat, NEW buf \in Array(len), NEW at \in Nat, NEW l \in Nat,
         at + l <= len
  PROVE  /\ Zeroed(buf, at, l) \in Array(len)
         /\ \A k \in 0 .. len-1 : Zeroed(buf, at, l)[k] = IF k \in at .. at+l-1 THEN NUL ELSE buf[k]
<1>1. DOMAIN buf \cup at .. at+l-1 = 0 .. len-1
  BY DEF Array
<1> QED BY <1>1 DEF Zeroed, Array, Byte

LEMMA MemmoveIs ==
  ASSUME NEW len \in Nat, NEW buf \in Array(len), NEW to \in Nat, NEW from \in Nat, NEW l \in Nat,
         from + l <= len, to + l <= len
  PROVE  /\ Memmove(buf, to, from, l) \in Array(len)
         /\ \A k \in 0 .. len-1 :
              Memmove(buf, to, from, l)[k] = IF k \in to .. to+l-1 THEN buf[from+k-to] ELSE buf[k]
<1>1. DOMAIN buf = 0 .. len-1
  BY DEF Array
<1>2. \A k \in to .. to+l-1 : from+k-to \in 0 .. len-1
  OBVIOUS
<1>3. DOMAIN buf \cup to .. to+l-1 = 0 .. len-1
  BY <1>1
<1> QED BY <1>1, <1>2, <1>3 DEF Memmove, Array

\* A NUL that is written.
LEMMA NulWritten ==
  ASSUME NEW len \in Nat, NEW buf \in Array(len), NEW at \in Nat, at < len
  PROVE  /\ Memcpy(buf, at, <<NUL>>) \in Array(len)
         /\ \A k \in 0 .. len-1 :
              Memcpy(buf, at, <<NUL>>)[k] = IF k = at THEN NUL ELSE buf[k]
<1> DEFINE t == <<NUL>>
<1>1. Len(t) = 1 /\ t[1] = NUL
  OBVIOUS
<1>2. t \in Seq(Byte)
  <2>1. NUL \in Byte
    BY DEF Byte
  <2> QED BY <2>1
<1> HIDE DEF t
<1>3. /\ Memcpy(buf, at, t) \in Array(len)
      /\ \A k \in 0 .. len-1 :
           Memcpy(buf, at, t)[k] = IF k \in at .. at + Len(t) - 1 THEN t[k-at+1] ELSE buf[k]
  <2>1. at + Len(t) <= len
    BY <1>1
  <2> QED BY <1>2, <2>1, MemcpyIs
<1>4. \A k \in 0 .. len-1 : Memcpy(buf, at, t)[k] = IF k = at THEN NUL ELSE buf[k]
  BY <1>1, <1>3
<1> QED BY <1>3, <1>4 DEF t

\* What is written at its end terminates a text.
LEMMA Ended ==
  ASSUME NEW len, NEW u, NEW buf, Holds(buf, len, u), u < len, NEW l \in 0 .. u
  PROVE  /\ Holds(Memcpy(buf, l, <<NUL>>), len, l)
         /\ Memcpy(buf, l, <<NUL>>)[l] = NUL
<1> DEFINE r == Memcpy(buf, l, <<NUL>>)
<1>1. l \in Nat /\ len \in Nat /\ u \in Nat /\ l < len
  BY DEF Holds
<1>2. r \in Array(len) /\ \A k \in 0 .. len-1 : r[k] = IF k = l THEN NUL ELSE buf[k]
  BY <1>1, NulWritten DEF Holds
<1> HIDE DEF r
<1>3. Holds(r, len, l) /\ r[l] = NUL
  BY <1>1, <1>2 DEF Holds
<1> QED BY <1>3 DEF r

\* vsnprintf() with room enough prints the whole text and its NUL.
LEMMA PrintedWhole ==
  ASSUME NEW buf, NEW at, NEW l \in Int, NEW t \in Seq(Char), Len(t) < l
  PROVE  Printed(buf, at, l, t) = Memcpy(buf, at, t \o <<NUL>>)
<1>1. Smaller(Len(t), l-1) = Len(t)
  BY DEF Smaller
<1>2. SubSeq(t, 1, Len(t)) = t
  BY SubSeqFull
<1> QED BY <1>1, <1>2 DEF Printed

\* A text and a NUL after it.
LEMMA TextNul ==
  ASSUME NEW t \in Seq(Char)
  PROVE  /\ t \o <<NUL>> \in Seq(Byte)
         /\ Len(t) \in Nat /\ Len(t \o <<NUL>>) = Len(t) + 1
         /\ \A k \in 1 .. Len(t) : (t \o <<NUL>>)[k] = t[k] /\ t[k] \in Char
         /\ (t \o <<NUL>>)[Len(t) + 1] = NUL
<1> DEFINE z == <<NUL>>
<1>1. Len(z) = 1 /\ z[1] = NUL
  OBVIOUS
<1>2. z \in Seq(Byte)
  <2>1. NUL \in Byte
    BY DEF Byte
  <2> QED BY <2>1
<1>3. t \in Seq(Byte)
  BY SeqMonotonic DEF Byte
<1>4. \A k \in 1 .. Len(t) : t[k] \in Char
  BY ElementOfSeq
<1> HIDE DEF z
<1>5. /\ t \o z \in Seq(Byte)
      /\ Len(t \o z) = Len(t) + Len(z)
      /\ \A k \in 1 .. Len(t) + Len(z) : (t \o z)[k] = IF k <= Len(t) THEN t[k] ELSE z[k - Len(t)]
  BY <1>2, <1>3, ConcatProperties
<1>6. Len(t) \in Nat
  BY LenProperties
<1>7. /\ Len(t \o z) = Len(t) + 1
      /\ \A k \in 1 .. Len(t) : (t \o z)[k] = t[k]
      /\ (t \o z)[Len(t) + 1] = NUL
  BY <1>1, <1>5, <1>6
<1> QED BY <1>4, <1>5, <1>6, <1>7 DEF z

\* What _append leaves in the memory: the text, what was appended, and a NUL.
LEMMA AppendIs ==
  ASSUME NEW len \in Nat, NEW u \in Nat, NEW buf, Holds(buf, len, u), NEW t \in Seq(Char),
         NEW l \in Nat, len <= l, u + Len(t) < l
  PROVE  /\ Holds(Printed(Realloc(buf, l), u, l-u, t), l, u + Len(t))
         /\ Printed(Realloc(buf, l), u, l-u, t)[u + Len(t)] = NUL
         /\ \A k \in 0 .. (u + Len(t)) - 1 :
              Printed(Realloc(buf, l), u, l-u, t)[k] = IF k < u THEN buf[k] ELSE t[k-u+1]
<1> DEFINE w == t \o <<NUL>>
           r == Realloc(buf, l)
           p == Memcpy(r, u, w)
<1>1. /\ w \in Seq(Byte) /\ Len(w) = Len(t) + 1 /\ w[Len(t) + 1] = NUL
      /\ \A k \in 1 .. Len(t) : w[k] = t[k] /\ t[k] \in Char
      /\ Len(t) \in Nat
  BY TextNul
<1>2. r \in Array(l) /\ \A k \in 0 .. len-1 : r[k] = buf[k]
  BY ReallocIs DEF Holds
<1>3. Printed(r, u, l-u, t) = p
  BY PrintedWhole, <1>1
<1> HIDE DEF w, r
<1>4. p \in Array(l) /\ \A k \in 0 .. l-1 : p[k] = IF k \in u .. u + Len(w) - 1 THEN w[k-u+1] ELSE r[k]
  <2>1. u + Len(w) <= l
    BY <1>1
  <2> QED BY <1>1, <1>2, <2>1, MemcpyIs
<1>5. \A k \in 0 .. l-1 : p[k] = IF k \in u .. u + Len(w) - 1 THEN w[k-u+1] ELSE r[k]
  BY <1>4
<1> HIDE DEF p
<1>6. p[u + Len(t)] = NUL
  BY <1>1, <1>5
<1>7. ASSUME NEW k \in 0 .. (u + Len(t)) - 1
      PROVE  p[k] \in Char /\ p[k] = IF k < u THEN buf[k] ELSE t[k-u+1]
  <2>1. CASE k < u
    BY <2>1, <1>1, <1>2, <1>5 DEF Holds
  <2>2. CASE ~(k < u)
    <3>1. k-u+1 \in 1 .. Len(t)
      BY <2>2, <1>1
    <3>2. p[k] = w[k-u+1]
      BY <2>2, <1>1, <1>5
    <3> QED BY <2>2, <3>1, <3>2, <1>1
  <2> QED BY <2>1, <2>2
<1>8. Holds(p, l, u + Len(t))
  BY <1>1, <1>4, <1>7 DEF Holds
<1>9. \A k \in 0 .. (u + Len(t)) - 1 : p[k] = IF k < u THEN buf[k] ELSE t[k-u+1]
  BY <1>7
<1> QED BY <1>3, <1>6, <1>8, <1>9 DEF r

\* _ctor leaves the empty text.
LEMMA CtorIs ==
  ASSUME NEW hint \in Nat \ {0}
  PROVE  Holds(Ctor(hint).buffer, hint, 0) /\ Ctor(hint).buffer[0] = NUL
<1>1. Malloc(hint) \in Array(hint)
  BY DEF Malloc, Array, Byte
<1>2. /\ Memcpy(Malloc(hint), 0, <<NUL>>) \in Array(hint)
      /\ \A k \in 0 .. hint-1 :
           Memcpy(Malloc(hint), 0, <<NUL>>)[k] = IF k = 0 THEN NUL ELSE Malloc(hint)[k]
  BY <1>1, NulWritten
<1>3. Ctor(hint).buffer = Memcpy(Malloc(hint), 0, <<NUL>>)
  BY DEF Ctor
<1> QED BY <1>2, <1>3 DEF Holds
-----------------------------------------------------------------------------
\* Between calls the text is terminated; in the loop of a replacement it may fill the memory.
BufferInv ==
  /\ state \in {"ready", "replace"} => Holds(buffer, length, used)
  /\ state = "ready" => used < length /\ buffer[used] = NUL
  /\ state = "replace" => i \in Nat /\ Old \in Patterns /\ By \in Replacements

LEMMA InitBuffer == Init => BufferInv
BY DEF Init, BufferInv

LEMMA CreateBuffer ==
  ASSUME BufferInv, Create
  PROVE  BufferInv'
<1>1. PICK hint \in Hints : buffer' = Ctor(hint).buffer /\ length' = hint
  BY DEF Create
<1>2. hint \in Nat \ {0}
  BY SizesAssumption
<1>3. Holds(buffer', length', 0) /\ buffer'[0] = NUL
  BY <1>1, <1>2, CtorIs
<1> QED BY <1>1, <1>2, <1>3 DEF Create, BufferInv

\* The length at which the loop of _append ends leaves a place for the NUL.
LEMMA GrownIs ==
  ASSUME NEW len \in Nat, NEW u \in Nat, u <= len, NEW t \in Seq(Char)
  PROVE  Grown(len, u, t) \in Nat /\ len <= Grown(len, u, t) /\ u + Len(t) < Grown(len, u, t)
<1>1. Len(t) \in Nat /\ STRLEN \in Nat \ {0}
  BY LenProperties, SizesAssumption
<1> QED BY <1>1 DEF Grown

LEMMA AppendedBuffer ==
  ASSUME NEW len, NEW u, NEW buf, Holds(buf, len, u), NEW t \in Texts, Appended(buf, len, u, t)
  PROVE  Holds(buffer', length', used') /\ used' < length' /\ buffer'[used'] = NUL
<1> DEFINE l == Grown(len, u, t)
<1>1. t \in Seq(Char)
  BY TextsAssumption
<1>2. len \in Nat /\ u \in Nat /\ u <= len
  BY DEF Holds
<1>3. l \in Nat /\ len <= l /\ u + Len(t) < l
  BY <1>1, <1>2, GrownIs
<1>4. buffer' = Printed(Realloc(buf, l), u, l-u, t) /\ length' = l /\ used' = u + Len(t)
  BY DEF Appended
<1> HIDE DEF l
<1> QED BY <1>1, <1>2, <1>3, <1>4, AppendIs

LEMMA NewBuffer ==
  ASSUME BufferInv, New
  PROVE  BufferInv'
<1>1. PICK t \in Texts : Appended(Ctor(STRLEN).buffer, STRLEN, 0, t)
  BY DEF New
<1>2. Holds(Ctor(STRLEN).buffer, STRLEN, 0)
  BY SizesAssumption, CtorIs
<1>3. Holds(buffer', length', used') /\ used' < length' /\ buffer'[used'] = NUL
  BY <1>1, <1>2, AppendedBuffer
<1> QED BY <1>3 DEF New, BufferInv

LEMMA AppendBuffer ==
  ASSUME BufferInv, AppendText
  PROVE  BufferInv'
<1>1. PICK t \in Texts : Appended(buffer, length, used, t)
  BY DEF AppendText
<1>2. Holds(buffer, length, used) /\ state = "ready" /\ state' = state
  BY DEF AppendText, BufferInv
<1>3. Holds(buffer', length', used') /\ used' < length' /\ buffer'[used'] = NUL
  BY <1>1, <1>2, AppendedBuffer
<1> QED BY <1>2, <1>3 DEF BufferInv

LEMMA DeleteBuffer ==
  ASSUME BufferInv, Delete
  PROVE  BufferInv'
<1>1. PICK index \in 0 .. used : used' = index /\ buffer' = Memcpy(buffer, index, <<NUL>>)
  BY DEF Delete
<1>2. Holds(buffer, length, used) /\ used < length /\ state = "ready"
  BY DEF Delete, BufferInv
<1>3. Holds(buffer', length, index) /\ buffer'[index] = NUL
  BY <1>1, <1>2, Ended
<1>4. state' = state /\ length' = length /\ index < length
  BY <1>1, <1>2 DEF Delete, Holds
<1> QED BY <1>1, <1>2, <1>3, <1>4 DEF BufferInv

LEMMA ClearBuffer ==
  ASSUME BufferInv, Clear
  PROVE  BufferInv'
<1>1. Holds(buffer, length, used) /\ used < length /\ state = "ready"
  BY DEF Clear, BufferInv
<1>2. 0 \in 0 .. used /\ 0 < length
  BY <1>1 DEF Holds
<1>3. used' = 0 /\ buffer' = Memcpy(buffer, 0, <<NUL>>) /\ state' = state /\ length' = length
  BY DEF Clear
<1>4. Holds(buffer', length, 0) /\ buffer'[0] = NUL
  BY <1>1, <1>2, <1>3, Ended
<1> QED BY <1>1, <1>2, <1>3, <1>4 DEF BufferInv
\* The right trim leaves some length, with a NUL there; the left trim stops at that NUL at the latest.
LEMMA TrimIs ==
  ASSUME BufferInv, Trim
  PROVE  \E u \in 0 .. used : \E l \in 0 .. u :
           /\ Holds(buffer', length, u-l) /\ buffer'[u-l] = NUL /\ u-l < length /\ used' = u-l
           /\ \A k \in 0 .. (u-l)-1 : buffer'[k] = buffer[l+k]
           /\ \A k \in 0 .. l-1 : IsSpace(buffer[k])
           /\ \A k \in u .. used-1 : IsSpace(buffer[k])
           /\ l < u => ~IsSpace(buffer[l]) /\ ~IsSpace(buffer[u-1])
<1> DEFINE u   == RightTrimmed
           buf == Zeroed(buffer, u, used - u)
           l   == LeftSpace(buf)
           mov == Memmove(buf, 0, l, u - l)
<1>1. Holds(buffer, length, used) /\ used < length /\ buffer[used] = NUL
  BY DEF Trim, BufferInv
<1>2. IF l > 0 THEN buffer' = Memcpy(mov, u - l, <<NUL>>) /\ used' = u - l
               ELSE buffer' = buf /\ used' = u
  BY DEF Trim
<1>3. /\ u \in 0 .. used /\ \A k \in u .. used-1 : IsSpace(buffer[k])
      /\ u > 0 => ~IsSpace(buffer[u-1])
  <2> DEFINE S == {x \in 0 .. used : \A k \in x .. used - 1 : IsSpace(buffer[k])}
  <2>1. used \in S /\ S \in SUBSET Nat /\ used \in Nat
    BY <1>1 DEF Holds
  <2>2. u = Least(S)
    BY DEF RightTrimmed
  <2> HIDE DEF S, u
  <2>3. u \in S /\ \A y \in S : u <= y
    BY <2>1, <2>2, LeastExists
  <2>4. u \in 0 .. used /\ \A k \in u .. used-1 : IsSpace(buffer[k])
    BY <2>3 DEF S
  <2>5. ASSUME u > 0, IsSpace(buffer[u-1]) PROVE FALSE
    <3>1. u-1 \in 0 .. used /\ u-1 \notin S
      BY <2>1, <2>3, <2>4, <2>5
    <3>2. \A k \in u-1 .. used-1 : k = u-1 \/ k \in u .. used-1
      BY <2>1, <2>4, <2>5
    <3>3. \A k \in u-1 .. used-1 : IsSpace(buffer[k])
      BY <2>4, <2>5, <3>2
    <3> QED BY <3>1, <3>3 DEF S
  <2> QED BY <2>4, <2>5
<1> HIDE DEF u
<1>4. buf \in Array(length) /\ \A k \in 0 .. length-1 : buf[k] = IF k \in u .. used-1 THEN NUL ELSE buffer[k]
  <2>1. used - u \in Nat /\ u \in Nat /\ u + (used - u) - 1 = used - 1 /\ u + (used - u) <= length
    BY <1>1, <1>3 DEF Holds
  <2> QED BY <2>1, <1>1, ZeroedIs DEF Holds
<1>5. buf[u] = NUL /\ Holds(buf, length, u) /\ u < length /\ \A k \in 0 .. u-1 : buf[k] = buffer[k]
  BY <1>1, <1>3, <1>4 DEF Holds
<1> HIDE DEF buf
<1>6. l \in 0 .. u /\ ~IsSpace(buf[l]) /\ \A k \in 0 .. l-1 : IsSpace(buf[k])
  <2> DEFINE S == {k \in DOMAIN buf : ~IsSpace(buf[k])}
  <2>1. DOMAIN buf = 0 .. length-1 /\ length \in Nat
    BY <1>1, <1>4 DEF Array, Holds
  <2>2. u \in S /\ S \in SUBSET Nat
    BY <1>1, <1>3, <1>5, <2>1, Characters DEF Holds
  <2>3. l = Least(S)
    BY DEF LeftSpace
  <2> HIDE DEF l
  <2>4. l \in S /\ \A y \in S : l <= y
    <3> HIDE DEF S
    <3> QED BY <2>2, <2>3, LeastExists
  <2>5. l \in 0 .. u /\ l < length
    BY <2>1, <2>2, <2>4, <1>3
  <2>6. \A k \in 0 .. l-1 : k \in DOMAIN buf /\ ~(l <= k)
    BY <2>1, <2>5
  <2>7. \A k \in 0 .. l-1 : IsSpace(buf[k])
    BY <2>4, <2>6
  <2> QED BY <2>4, <2>5, <2>7
<1> HIDE DEF l
<1>7. u \in Nat /\ l \in Nat /\ length \in Nat /\ u - l \in Nat /\ l + (u - l) <= length /\ u - l < length
  BY <1>1, <1>3, <1>5, <1>6 DEF Holds
<1>8. /\ Holds(buffer', length, u-l) /\ buffer'[u-l] = NUL /\ used' = u-l
      /\ \A k \in 0 .. (u-l)-1 : buffer'[k] = buf[l+k]
  <2>1. CASE l = 0
    <3>1. u - l = u /\ \A k \in 0 .. u-1 : l+k = k
      BY <1>7, <2>1
    <3> QED BY <1>2, <1>5, <2>1, <3>1
  <2>2. CASE l > 0
    <3>1. /\ mov \in Array(length)
          /\ \A k \in 0 .. length-1 : mov[k] = IF k \in 0 .. 0+(u-l)-1 THEN buf[l+k-0] ELSE buf[k]
      <4>1. 0 \in Nat /\ 0 + (u - l) <= length
        BY <1>7
      <4> QED BY <1>7, <1>4, <4>1, MemmoveIs
    <3>2. \A k \in 0 .. (u-l)-1 : mov[k] = buf[l+k] /\ l+k \in 0 .. u-1
      BY <1>7, <3>1
    <3> HIDE DEF mov
    <3>3. Holds(mov, length, u-l)
      BY <1>7, <3>1, <3>2, <1>5 DEF Holds
    <3>4. Holds(buffer', length, u-l) /\ buffer'[u-l] = NUL
      BY <1>2, <1>7, <2>2, <3>3, Ended
    <3>5. \A k \in 0 .. length-1 : Memcpy(mov, u - l, <<NUL>>)[k] = IF k = u-l THEN NUL ELSE mov[k]
      BY <1>7, <3>1, NulWritten
    <3>6. \A k \in 0 .. (u-l)-1 : k \in 0 .. length-1 /\ k # u-l
      BY <1>7
    <3>7. \A k \in 0 .. (u-l)-1 : buffer'[k] = mov[k]
      BY <1>2, <2>2, <3>5, <3>6
    <3> QED BY <1>2, <2>2, <3>2, <3>4, <3>7
  <2> QED BY <1>7, <2>1, <2>2
<1>9. \A k \in 0 .. (u-l)-1 : l+k \in 0 .. u-1
  BY <1>7
<1>10. \A k \in 0 .. (u-l)-1 : buffer'[k] = buffer[l+k]
  BY <1>5, <1>8, <1>9
<1>11. \A k \in 0 .. l-1 : IsSpace(buffer[k])
  <2>1. \A k \in 0 .. l-1 : k \in 0 .. u-1
    BY <1>6, <1>7
  <2> QED BY <1>5, <1>6, <2>1
<1>12. l < u => ~IsSpace(buffer[l]) /\ ~IsSpace(buffer[u-1])
  BY <1>3, <1>5, <1>6, <1>7
<1> QED BY <1>3, <1>6, <1>7, <1>8, <1>10, <1>11, <1>12

LEMMA TrimBuffer ==
  ASSUME BufferInv, Trim
  PROVE  BufferInv'
<1>1. state = "ready" /\ state' = state /\ length' = length
  BY DEF Trim
<1>2. Holds(buffer', length, used') /\ used' < length /\ buffer'[used'] = NUL
  BY TrimIs
<1> QED BY <1>1, <1>2 DEF BufferInv

\* A remainder is one.
LEMMA Remainder ==
  ASSUME NEW x \in Int, NEW w \in Nat \ {0}
  PROVE  x % w \in 0 .. w-1
OBVIOUS

\* Arithmetic modulo w.
LEMMA NoMultiple ==
  ASSUME NEW q \in Int, NEW w \in Nat \ {0}, q * w < w, -w < q * w
  PROVE  q = 0
<1>1. CASE q >= 1
  <2>1. q * w >= 1 * w
    BY <1>1
  <2> QED BY <2>1
<1>2. CASE q <= -1
  <2>1. q * w <= (-1) * w
    BY <1>2
  <2> QED BY <2>1
<1> QED BY <1>1, <1>2

LEMMA Quotient ==
  ASSUME NEW x \in Int, NEW w \in Nat \ {0}
  PROVE  \E q \in Int : x % w = x - q * w
<1> DEFINE q == x \div w
<1>1. q \in Int /\ x % w \in Int /\ x = w * q + (x % w)
  OBVIOUS
<1> HIDE DEF q
<1>2. q * w = w * q /\ q * w \in Int
  BY <1>1
<1>3. x % w = x - q * w
  BY <1>1, <1>2
<1> QED BY <1>1, <1>3

LEMMA SameRemainder ==
  ASSUME NEW r \in Nat, NEW w \in Nat \ {0}, r < w, NEW q \in Int
  PROVE  (r + q * w) % w = r
<1> DEFINE x == r + q * w
<1>1. x \in Int
  OBVIOUS
<1>2. PICK p \in Int : x % w = x - p * w
  BY <1>1, Quotient
<1>3. x % w \in 0 .. w-1
  BY <1>1, Remainder
<1>4. x - p * w = r + (q - p) * w
  OBVIOUS
<1>5. q - p = 0
  <2>1. (q - p) * w < w /\ -w < (q - p) * w
    BY <1>2, <1>3, <1>4
  <2> QED BY <2>1, NoMultiple
<1> QED BY <1>2, <1>4, <1>5
\* What diff * n + used + 1 wraps around to.
LEMMA RequiredIs ==
  ASSUME NEW a \in Seq(Char), NEW b \in Seq(Char), NEW c \in Nat, used \in Nat,
         NEW r \in Nat, r < W, NEW e \in Int, used + c * (Len(b) - Len(a)) + 1 = r + e * W
  PROVE  Required(a, b, c) = r
<1> DEFINE d == Len(b) - Len(a)
           h == (W + Len(b) - Len(a)) % W
           cd == c * d
<1>1. W \in Nat \ {0} /\ Len(a) \in Nat /\ Len(b) \in Nat
  BY SizesAssumption, LenProperties
<1>2. d \in Int /\ W + Len(b) - Len(a) \in Int /\ W + Len(b) - Len(a) = W + d
  BY <1>1
<1>3. PICK q \in Int : h = (W + Len(b) - Len(a)) - q * W
  <2> DEFINE x == W + Len(b) - Len(a)
  <2>1. x \in Int /\ h = x % W
    BY <1>2
  <2> HIDE DEF x, h
  <2>2. \E q \in Int : h = x - q * W
    BY <1>1, <2>1, Quotient
  <2> QED BY <2>2 DEF x
<1> HIDE DEF h
<1>4. cd \in Int /\ used + cd + 1 = r + e * W
  <2>1. cd \in Int
    BY <1>2
  <2> QED BY <2>1
<1>5. h * c = cd + ((1 - q) * c) * W
  <2>1. h = d + (1 - q) * W
    BY <1>1, <1>2, <1>3
  <2> HIDE DEF d
  <2>2. \A x, y, z, w \in Int : (x + y * w) * z = z * x + (y * z) * w
    OBVIOUS
  <2> QED BY <2>1, <2>2, <1>1, <1>2
<1> DEFINE g  == (1 - q) * c
           hc == h * c
<1>6. g \in Int /\ hc = cd + g * W
  BY <1>5
<1> HIDE DEF cd, g, hc
<1>7. hc + used + 1 = r + (e + g) * W
  <2> DEFINE ew == e * W
             gw == g * W
  <2>1. (e + g) * W = ew + gw /\ ew \in Int /\ gw \in Int
    BY <1>1, <1>6
  <2>2. used + cd + 1 = r + ew /\ hc = cd + gw
    BY <1>4, <1>6
  <2> HIDE DEF ew, gw
  <2>3. hc + used + 1 = r + (ew + gw)
    BY <2>1, <2>2, <1>4
  <2> QED BY <2>1, <2>3
<1>8. Required(a, b, c) = (hc + used + 1) % W
  BY DEF Required, h, hc
<1>9. e + g \in Int
  BY <1>6
<1> QED BY <1>1, <1>7, <1>8, <1>9, SameRemainder

\* (int) keeps a size below 2^31, and makes a negative one of what is just below 2^64.
LEMMA ToIntIs ==
  ASSUME NEW x \in Nat, 2 * x + 2 <= IntW
  PROVE  ToInt(x) = x
<1>1. IntW \in Nat \ {0, 1}
  BY SizesAssumption
<1>2. x % IntW = x
  BY <1>1
<1> QED BY <1>1, <1>2 DEF ToInt

LEMMA ToIntBelow ==
  ASSUME NEW k \in Int, NEW y \in Nat \ {0}, 2 * y <= IntW
  PROVE  ToInt(k * IntW - y) = -y
<1> DEFINE z == IntW - y
<1>1. IntW \in Nat \ {0, 1} /\ z \in Nat /\ z < IntW /\ k - 1 \in Int
  BY SizesAssumption
<1>2. k * IntW - y = z + (k - 1) * IntW
  BY <1>1
<1>3. (z + (k - 1) * IntW) % IntW = z
  <2> HIDE DEF z
  <2> QED BY <1>1, SameRemainder
<1>4. z >= IntW \div 2 /\ z - IntW = -y
  BY <1>1
<1> QED BY <1>2, <1>3, <1>4 DEF ToInt

\* Sizes are far below 2^31: the text, and the text if all the bytes of every pattern counted
\* were taken out of it.
RoomyInt ==
  /\ \E k \in Nat : W = k * IntW
  /\ \A a \in Patterns : 2 * (MaxUsed * (Len(a) + 1) + 2) <= IntW

\* (int) of what c replacements need is exact, or not positive.
LEMMA SizeIs ==
  ASSUME RoomyInt, NEW a \in Patterns, NEW b \in Replacements, NEW c \in Nat, NEW v,
         used \in Nat, c <= used, used <= MaxUsed, used + c * (Len(b) - Len(a)) <= MaxUsed,
         v = used + c * (Len(b) - Len(a)) + 1
  PROVE  /\ v \in Int
         /\ v >= 1 => Required(a, b, c) = v /\ ToInt(v) = v
         /\ v < 1 => ToInt(Required(a, b, c)) = v
<1> DEFINE la == Len(a)
           lb == Len(b)
<1>1. /\ a \in Seq(Char) /\ b \in Seq(Char) /\ la \in Nat /\ lb \in Nat
      /\ MaxUsed \in Nat /\ W \in Nat \ {0, 1} /\ IntW \in Nat \ {0, 1}
  BY SizesAssumption, TextsAssumption, LenProperties
<1>2. PICK k \in Nat : W = k * IntW
  BY DEF RoomyInt
<1>3. IntW <= W
  <2>1. CASE k = 0
    BY <1>1, <1>2, <2>1
  <2>2. CASE k >= 1
    <3>1. k * IntW = (k - 1) * IntW + IntW /\ (k - 1) * IntW >= 0
      BY <1>1, <2>2
    <3> QED BY <1>1, <1>2, <3>1
  <2> QED BY <2>1, <2>2
<1>4. 2 * (MaxUsed * (la + 1) + 2) <= IntW
  BY DEF RoomyInt
<1> HIDE DEF la, lb
<1>5. c * (lb - la) = c * lb - c * la /\ c * lb \in Nat /\ c * la \in Nat
  BY <1>1
<1>6. c * la <= MaxUsed * la /\ MaxUsed * la \in Nat
  <2>1. c <= MaxUsed /\ MaxUsed * la = c * la + (MaxUsed - c) * la /\ (MaxUsed - c) * la \in Nat
    BY <1>1
  <2> QED BY <1>1, <1>5, <2>1
<1>7. MaxUsed * (la + 1) = MaxUsed * la + MaxUsed
  BY <1>1
<1>8. v = used + c * lb - c * la + 1 /\ v \in Int /\ v <= MaxUsed + 1
  BY <1>1, <1>5 DEF la, lb
<1>9. ASSUME v >= 1 PROVE Required(a, b, c) = v /\ ToInt(v) = v
  <2>1. 2 * v + 2 <= IntW /\ v \in Nat /\ v < W
    BY <1>1, <1>3, <1>4, <1>6, <1>7, <1>8, <1>9
  <2>2. PICK r \in Nat : r = v
    BY <2>1
  <2>3. Required(a, b, c) = r
    <3>1. used + c * (Len(b) - Len(a)) + 1 = r + 0 * W /\ r < W /\ 0 \in Int
      BY <1>1, <2>1, <2>2
    <3> QED BY <1>1, <3>1, RequiredIs
  <2> QED BY <2>1, <2>2, <2>3, ToIntIs
<1>10. ASSUME v < 1 PROVE ToInt(Required(a, b, c)) = v
  <2>1. CASE v = 0
    <3>1. used + c * (Len(b) - Len(a)) + 1 = 0 + 0 * W /\ 0 \in Int /\ 0 \in Nat /\ 0 < W
      BY <1>1, <2>1
    <3>2. Required(a, b, c) = 0
      BY <1>1, <3>1, RequiredIs
    <3>3. 2 * 0 + 2 <= IntW
      BY <1>1
    <3> QED BY <2>1, <3>2, <3>3, ToIntIs
  <2>2. CASE v < 0
    <3> DEFINE y == -v
    <3>1. y \in Nat \ {0} /\ 2 * y <= IntW /\ v = -y
      <4> DEFINE ca == c * la
                 cb == c * lb
                 ma == MaxUsed * la
      <4>1. /\ ca \in Nat /\ cb \in Nat /\ ma \in Nat /\ ca <= ma
            /\ 2 * (ma + MaxUsed + 2) <= IntW /\ v = used + cb - ca + 1
        BY <1>4, <1>5, <1>6, <1>7, <1>8
      <4> HIDE DEF ca, cb, ma
      <4> QED BY <1>1, <1>8, <2>2, <4>1
    <3>2. W - y \in Nat /\ W - y < W
      BY <1>1, <1>3, <3>1
    <3>3. used + c * (Len(b) - Len(a)) + 1 = (W - y) + (-1) * W /\ -1 \in Int
      BY <1>1, <3>1
    <3> HIDE DEF y
    <3>4. Required(a, b, c) = W - y
      BY <1>1, <3>2, <3>3, RequiredIs
    <3> QED BY <1>2, <3>1, <3>4, ToIntBelow
  <2> QED BY <1>8, <1>10, <2>1, <2>2
<1> QED BY <1>8, <1>9, <1>10

\* The first loop counts no more than it visits.
LEMMA CountIs ==
  ASSUME NEW a, used \in Nat
  PROVE  /\ Cardinality({k \in 0 .. used - 1 : SameAt(buffer, k, a)}) \in Nat
         /\ Cardinality({k \in 0 .. used - 1 : SameAt(buffer, k, a)}) <= used
<1>1. IsFiniteSet(0 .. used-1) /\ Cardinality(0 .. used-1) = used
  BY FS_Interval
<1>2. {k \in 0 .. used - 1 : SameAt(buffer, k, a)} \in SUBSET (0 .. used-1)
  OBVIOUS
<1> QED BY <1>1, <1>2, FS_Subset, FS_CardinalityType

\* The text is bounded, when a replacement is over too.
BoundInv ==
  /\ state = "ready" => used <= MaxUsed
  /\ state = "replace" => m \in Nat /\ used + m * (Len(By) - Len(Old)) <= MaxUsed

\* The memory never gets smaller: (int) makes what would not fit a negative size.
LEMMA ReplaceBeginBuffer ==
  ASSUME RoomyInt, BufferInv, BoundInv, ReplaceBegin
  PROVE  BufferInv' /\ BoundInv'
<1>1. PICK a \in Patterns, b \in Replacements :
        LET count == Cardinality({k \in 0 .. used - 1 : SameAt(buffer, k, a)})
            grow  == Len(b) # Len(a) /\ Required(a, b, count) >= length
            size  == ToInt(Required(a, b, count))
        IN /\ used + count * (Len(b) - Len(a)) <= MaxUsed
           /\ call' = <<"replace", a, b>>
           /\ m' = count /\ i' = 0
           /\ state' = IF count = 0 THEN "ready"
                       ELSE IF grow /\ size <= 0 THEN "aborted" ELSE "replace"
           /\ IF count > 0 /\ grow
              THEN length' = size /\ buffer' = Realloc(buffer, size)
              ELSE UNCHANGED <<length, buffer>>
  BY DEF ReplaceBegin
<1> DEFINE count == Cardinality({k \in 0 .. used - 1 : SameAt(buffer, k, a)})
           req   == Required(a, b, count)
           size  == ToInt(req)
<1>2. Holds(buffer, length, used) /\ used < length /\ buffer[used] = NUL /\ used' = used
  BY DEF ReplaceBegin, BufferInv
<1>3. count \in Nat /\ count <= used /\ used \in Nat /\ used <= MaxUsed
  BY <1>2, CountIs DEF Holds, ReplaceBegin, BoundInv
<1> DEFINE grow == Len(b) # Len(a) /\ req >= length
<1>10. /\ used + count * (Len(b) - Len(a)) <= MaxUsed
       /\ call' = <<"replace", a, b>> /\ m' = count /\ i' = 0
       /\ state' = IF count = 0 THEN "ready"
                   ELSE IF grow /\ size <= 0 THEN "aborted" ELSE "replace"
       /\ IF count > 0 /\ grow
          THEN length' = size /\ buffer' = Realloc(buffer, size)
          ELSE UNCHANGED <<length, buffer>>
  BY <1>1
<1>11. grow => req >= length
  OBVIOUS
<1> HIDE DEF count, size, req, grow
<1>4. /\ call' = <<"replace", a, b>> /\ i' = 0 /\ m' = count
      /\ used + count * (Len(b) - Len(a)) <= MaxUsed
      /\ state' \in {"ready", "aborted", "replace"}
      /\ state' = "ready" => count = 0
      /\ \/ UNCHANGED <<length, buffer>>
         \/ /\ count > 0 /\ req >= length /\ length' = size /\ buffer' = Realloc(buffer, size)
            /\ size <= 0 => state' = "aborted"
      /\ state' = "ready" => UNCHANGED <<length, buffer>>
  BY <1>3, <1>10, <1>11
<1>5. Old' = a /\ By' = b
  BY <1>4 DEF Old, By
<1>6. BoundInv'
  BY <1>2, <1>3, <1>4, <1>5 DEF BoundInv
<1>7. CASE UNCHANGED <<length, buffer>>
  BY <1>2, <1>4, <1>5, <1>6, <1>7 DEF BufferInv
<1>8. CASE /\ req >= length /\ length' = size /\ buffer' = Realloc(buffer, size) /\ state' = "replace"
           /\ ~(size <= 0)
  <2> DEFINE v == used + count * (Len(b) - Len(a)) + 1
  <2>1. /\ v \in Int
        /\ v >= 1 => req = v /\ ToInt(v) = v
        /\ v < 1 => size = v
    BY <1>3, <1>4, SizeIs DEF size, req
  <2> HIDE DEF v
  <2>2. size = req /\ size = v
    BY <2>1, <1>8 DEF size
  <2>3. length \in Nat /\ size \in Nat /\ length <= size
    BY <2>1, <2>2, <1>2, <1>8 DEF Holds
  <2>4. buffer' \in Array(size) /\ \A k \in 0 .. length-1 : buffer'[k] = buffer[k]
    BY <2>3, <1>2, <1>8, ReallocIs DEF Holds
  <2>5. \A k \in 0 .. used-1 : buffer'[k] \in Char
    BY <2>3, <2>4, <1>2 DEF Holds
  <2>6. used \in Nat /\ used <= size
    BY <2>3, <1>2 DEF Holds
  <2>7. Holds(buffer', length', used)
    <3>1. length' = size /\ buffer' \in Array(size)
      BY <1>8, <2>4
    <3> QED BY <3>1, <2>3, <2>5, <2>6, Zenon DEF Holds
  <2> QED BY <2>7, <1>2, <1>4, <1>5, <1>6, <1>8 DEF BufferInv
<1>9. CASE state' = "aborted"
  BY <1>6, <1>9 DEF BufferInv
<1> QED BY <1>4, <1>7, <1>8, <1>9
\* r holds the u bytes of buf, with b in the place of la of them at x.
Spliced(r, buf, u, x, la, b) ==
  \A k \in 0 .. (u + Len(b) - la) - 1 :
    r[k] = IF k < x THEN buf[k]
           ELSE IF k < x + Len(b) THEN b[k-x+1] ELSE buf[k - Len(b) + la]

\* An occurrence of a text of la characters at x gives way to b.
LEMMA SubstitutedIs ==
  ASSUME NEW len \in Nat, NEW u \in Nat, NEW buf, Holds(buf, len, u),
         NEW x \in Nat, NEW la \in Nat, NEW b \in Seq(Char),
         x + la <= u, u - la + Len(b) <= len,
         NEW r, r = Memcpy(Memmove(buf, x + Len(b), x + la, u - (x + la)), x, b)
  PROVE  /\ Holds(r, len, u + Len(b) - la)
         /\ Spliced(r, buf, u, x, la, b)
<1> DEFINE lb  == Len(b)
           mov == Memmove(buf, x + lb, x + la, u - (x + la))
<1>1. lb \in Nat /\ b \in Seq(Byte) /\ \A k \in 1 .. lb : b[k] \in Char
  <2>1. b \in Seq(Byte)
    BY SeqMonotonic DEF Byte
  <2>2. lb \in Nat
    BY LenProperties
  <2> QED BY <2>1, <2>2, ElementOfSeq
<1> HIDE DEF lb
<1>2. u <= len /\ u - (x + la) \in Nat /\ x + la + (u - (x + la)) <= len /\ x + la \in Nat /\ x + lb \in Nat
  BY <1>1 DEF Holds
<1>3. /\ mov \in Array(len)
      /\ \A k \in 0 .. len-1 :
           mov[k] = IF k \in x + lb .. x + lb + (u - (x + la)) - 1 THEN buf[x + la + k - (x + lb)] ELSE buf[k]
  <2> DEFINE to   == x + lb
             from == x + la
             l    == u - (x + la)
  <2>1. to + l <= len /\ from + l <= len /\ to \in Nat /\ from \in Nat /\ l \in Nat
    BY <1>1, <1>2 DEF lb
  <2>2. buf \in Array(len)
    BY DEF Holds
  <2>3. mov = Memmove(buf, to, from, l)
    OBVIOUS
  <2> HIDE DEF to, from, l, mov
  <2>4. /\ mov \in Array(len)
        /\ \A k \in 0 .. len-1 : mov[k] = IF k \in to .. to+l-1 THEN buf[from+k-to] ELSE buf[k]
    <3>1. Memmove(buf, to, from, l) \in Array(len)
      BY <2>1, <2>2, MemmoveIs
    <3>2. \A k \in 0 .. len-1 :
            Memmove(buf, to, from, l)[k] = IF k \in to .. to+l-1 THEN buf[from+k-to] ELSE buf[k]
      BY <2>1, <2>2, MemmoveIs
    <3> QED BY <2>3, <3>1, <3>2
  <2> QED BY <2>4 DEF to, from, l
<1>4. \A k \in 0 .. len-1 : mov[k] = IF x + lb <= k /\ k < u + lb - la THEN buf[k - lb + la] ELSE buf[k]
  <2> SUFFICES ASSUME NEW k \in 0 .. len-1
               PROVE  mov[k] = IF x + lb <= k /\ k < u + lb - la THEN buf[k - lb + la] ELSE buf[k]
    OBVIOUS
  <2>2. mov[k] = IF k \in x + lb .. x + lb + (u - (x + la)) - 1 THEN buf[x + la + k - (x + lb)] ELSE buf[k]
    BY <1>3
  <2>3. x + la + k - (x + lb) = k - lb + la
    BY <1>1
  <2>4. k \in x + lb .. x + lb + (u - (x + la)) - 1 <=> x + lb <= k /\ k < u + lb - la
    BY <1>1
  <2> QED BY <2>2, <2>3, <2>4
<1>5. r = Memcpy(mov, x, b)
  BY DEF lb
<1> HIDE DEF mov
<1>6. /\ r \in Array(len)
      /\ \A k \in 0 .. len-1 : r[k] = IF k \in x .. x + Len(b) - 1 THEN b[k-x+1] ELSE mov[k]
  <2>1. x + Len(b) <= len
    BY <1>1, <1>2 DEF lb
  <2> QED BY <1>1, <1>3, <1>5, <2>1, MemcpyIs
<1>7. \A k \in 0 .. len-1 : r[k] = IF x <= k /\ k < x + lb THEN b[k-x+1] ELSE mov[k]
  <2> SUFFICES ASSUME NEW k \in 0 .. len-1
               PROVE  r[k] = IF x <= k /\ k < x + lb THEN b[k-x+1] ELSE mov[k]
    OBVIOUS
  <2>2. r[k] = IF k \in x .. x + Len(b) - 1 THEN b[k-x+1] ELSE mov[k]
    BY <1>6
  <2>3. k \in x .. x + Len(b) - 1 <=> x <= k /\ k < x + lb
    BY <1>1 DEF lb
  <2> QED BY <2>2, <2>3
<1>8. u + lb - la \in Nat /\ u + lb - la <= len
  BY <1>1 DEF lb
<1>9. \A k \in 0 .. (u + lb - la) - 1 :
        r[k] = IF k < x THEN buf[k] ELSE IF k < x + lb THEN b[k-x+1] ELSE buf[k - lb + la]
  <2> SUFFICES ASSUME NEW k \in 0 .. (u + lb - la) - 1
               PROVE  r[k] = IF k < x THEN buf[k] ELSE IF k < x + lb THEN b[k-x+1] ELSE buf[k - lb + la]
    OBVIOUS
  <2>1. k \in 0 .. len-1 /\ k \in Nat /\ k < u + lb - la
    BY <1>1, <1>8
  <2>2. r[k] = IF x <= k /\ k < x + lb THEN b[k-x+1] ELSE mov[k]
    BY <1>7, <2>1
  <2>3. mov[k] = IF x + lb <= k THEN buf[k - lb + la] ELSE buf[k]
    BY <1>4, <2>1
  <2> QED BY <2>1, <2>2, <2>3, <1>1
<1>10. \A k \in 0 .. (u + lb - la) - 1 : r[k] \in Char
  <2> SUFFICES ASSUME NEW k \in 0 .. (u + lb - la) - 1 PROVE r[k] \in Char
    OBVIOUS
  <2>1. CASE k < x
    BY <2>1, <1>1, <1>2, <1>9 DEF Holds
  <2>2. CASE x <= k /\ k < x + lb
    <3>1. k-x+1 \in 1 .. lb /\ r[k] = b[k-x+1]
      BY <2>2, <1>1, <1>9
    <3> QED BY <3>1, <1>1
  <2>3. CASE x + lb <= k
    <3>1. k - lb + la \in 0 .. u-1 /\ r[k] = buf[k - lb + la]
      BY <2>3, <1>1, <1>9
    <3> QED BY <3>1 DEF Holds
  <2> QED BY <2>1, <2>2, <2>3, <1>1
<1>11. Holds(r, len, u + lb - la)
  BY <1>1, <1>6, <1>8, <1>10 DEF Holds
<1> QED BY <1>9, <1>11 DEF lb, Spliced

LEMMA ReplaceNextBuffer ==
  ASSUME BufferInv, ReplaceNext
  PROVE  BufferInv'
BY DEF BufferInv, ReplaceNext, Old, By

LEMMA ReplaceOneBuffer ==
  ASSUME BufferInv, ReplaceOne
  PROVE  BufferInv'
<1>1. /\ Holds(buffer, length, used) /\ i \in Nat /\ Old \in Patterns /\ By \in Replacements
      /\ length' = length /\ Old' = Old /\ By' = By /\ state = "replace"
      /\ used' = used + Len(By) - Len(Old) /\ i' = i + Len(By)
  BY DEF BufferInv, ReplaceOne, Old, By
<1>2. Old \in Seq(Char) /\ By \in Seq(Char) /\ Len(Old) \in Nat /\ Len(By) \in Nat
  BY <1>1, TextsAssumption, LenProperties
<1>3. CASE StepDefined
  <2>1. buffer' = Substituted /\ i + Len(Old) <= used /\ i + Len(By) + used - (i + Len(Old)) <= length
    BY <1>3 DEF ReplaceOne, StepDefined
  <2>2. used \in Nat /\ length \in Nat /\ used - Len(Old) + Len(By) <= length
    BY <1>1, <1>2, <2>1 DEF Holds
  <2>3. Holds(Substituted, length, used + Len(By) - Len(Old))
    BY <1>1, <1>2, <2>1, <2>2, SubstitutedIs DEF Substituted
  <2> QED BY <1>1, <1>2, <2>1, <2>3 DEF BufferInv, ReplaceOne
<1>4. CASE ~StepDefined
  BY <1>4 DEF BufferInv, ReplaceOne
<1> QED BY <1>3, <1>4

LEMMA ReplaceEndBuffer ==
  ASSUME BufferInv, ReplaceEnd
  PROVE  BufferInv'
<1>1. /\ Holds(buffer, length, used) /\ length' = length /\ used' = used
      /\ buffer' = Memcpy(buffer, used, <<NUL>>)
      /\ state' = IF used < length THEN "ready" ELSE "undefined"
  BY DEF BufferInv, ReplaceEnd
<1>2. CASE used < length
  <2>1. used \in 0 .. used
    BY <1>1 DEF Holds
  <2>2. Holds(buffer', length', used') /\ buffer'[used'] = NUL
    BY <1>1, <1>2, <2>1, Ended
  <2> QED BY <1>1, <1>2, <2>2 DEF BufferInv
<1>3. CASE ~(used < length)
  BY <1>1, <1>3 DEF BufferInv
<1> QED BY <1>2, <1>3

\* No other step makes the text longer than the bound.
LEMMA NextBound ==
  ASSUME BufferInv, BoundInv, [Next]_vars, ~ReplaceBegin
  PROVE  BoundInv'
<1>1. MaxUsed \in Nat
  BY SizesAssumption
<1>2. CASE UNCHANGED vars
  BY <1>2 DEF vars, BoundInv, Old, By
<1>3. CASE Create \/ Free \/ Clear
  BY <1>1, <1>3 DEF Create, Free, Clear, BoundInv
<1>4. CASE New
  <2>1. PICK t \in Texts : Len(t) <= MaxUsed /\ used' = 0 + Len(t)
    BY <1>4 DEF New, Appended
  <2>2. Len(t) \in Nat
    BY TextsAssumption, LenProperties
  <2> QED BY <1>4, <2>1, <2>2 DEF New, BoundInv
<1>5. CASE AppendText
  BY <1>5 DEF AppendText, Appended, BoundInv
<1>6. CASE Trim \/ Delete
  <2>1. used \in Nat /\ used <= MaxUsed /\ state' = "ready"
    BY <1>6 DEF Trim, Delete, BufferInv, BoundInv, Holds
  <2>2. used' \in Nat /\ used' <= used
    <3>1. CASE Delete
      BY <2>1, <3>1 DEF Delete
    <3>2. CASE Trim
      <4>1. PICK u \in 0 .. used, l \in 0 .. used : l <= u /\ used' = u-l
        BY <2>1, <3>2, TrimIs
      <4> QED BY <2>1, <4>1
    <3> QED BY <1>6, <3>1, <3>2
  <2> QED BY <1>1, <2>1, <2>2 DEF BoundInv
<1>7. CASE ReplaceNext
  BY <1>7 DEF ReplaceNext, BoundInv, Old, By
<1>8. CASE ReplaceOne
  <2> DEFINE d == Len(By) - Len(Old)
  <2>1. /\ state = "replace" /\ m > 0 /\ m' = m - 1 /\ used' = used + Len(By) - Len(Old)
        /\ Old' = Old /\ By' = By /\ state' \in {"replace", "undefined"}
    BY <1>8 DEF ReplaceOne, Old, By
  <2>2. /\ used \in Nat /\ Len(By) \in Nat /\ Len(Old) \in Nat /\ m \in Nat
        /\ used + m * d <= MaxUsed
    BY <2>1, TextsAssumption, LenProperties DEF BufferInv, BoundInv, Holds
  <2>3. d \in Int /\ used' = used + d /\ m - 1 \in Nat
    BY <2>1, <2>2
  <2> HIDE DEF d
  <2>4. (m - 1) * d = m * d - d /\ m * d \in Int
    BY <2>2, <2>3
  <2>5. used' + m' * d <= MaxUsed
    BY <1>1, <2>1, <2>2, <2>3, <2>4
  <2> QED BY <2>1, <2>3, <2>5 DEF BoundInv, d
<1>9. CASE ReplaceEnd
  <2>1. /\ state = "replace" /\ m = 0 /\ used' = used /\ state' \in {"ready", "undefined"}
        /\ used \in Nat /\ Len(By) \in Nat /\ Len(Old) \in Nat
    BY <1>9, TextsAssumption, LenProperties DEF ReplaceEnd, BufferInv, Holds
  <2>2. m * (Len(By) - Len(Old)) = 0
    BY <2>1
  <2>3. used <= MaxUsed
    BY <1>1, <2>1, <2>2 DEF BoundInv
  <2> QED BY <2>1, <2>3 DEF BoundInv
<1> QED BY <1>2, <1>3, <1>4, <1>5, <1>6, <1>7, <1>8, <1>9 DEF Next, ReplaceStep

\* Every step of the buffer keeps the invariants.
LEMMA NextBuffer ==
  ASSUME RoomyInt, BufferInv, BoundInv, [Next]_vars
  PROVE  BufferInv' /\ BoundInv'
<1>1. CASE ReplaceBegin
  BY <1>1, ReplaceBeginBuffer
<1>2. ASSUME ~ReplaceBegin PROVE BufferInv'
  <2>1. CASE Free
    BY <2>1 DEF Free, BufferInv
  <2>2. CASE UNCHANGED vars
    BY <2>2 DEF vars, BufferInv, Old, By
  <2> QED BY <1>2, <2>1, <2>2, CreateBuffer, NewBuffer, AppendBuffer, TrimBuffer, DeleteBuffer,
             ClearBuffer, ReplaceNextBuffer, ReplaceOneBuffer, ReplaceEndBuffer
          DEF Next, ReplaceStep
<1> QED BY <1>1, <1>2, NextBound

\* What the invariant says of the C string.
LEMMA TerminatedIs == BufferInv => Terminated
<1> SUFFICES ASSUME BufferInv, state = "ready" PROVE Terminated
  BY DEF Terminated
<1>1. Holds(buffer, length, used) /\ used < length /\ buffer[used] = NUL
  BY DEF BufferInv
<1>2. DOMAIN buffer = 0 .. length - 1
  BY <1>1 DEF Holds, Array
<1>3. \A k \in 0 .. used : buffer[k] # JUNK
  BY <1>1, Characters DEF Holds
<1>4. Strlen(buffer) = used
  BY <1>1, StrlenIs
<1> QED BY <1>1, <1>2, <1>3, <1>4 DEF Terminated
LEMMA TakeBuffer ==
  ASSUME BufferInv, TakeText
  PROVE  BufferInv' /\ BoundInv'
BY DEF TakeText, BufferInv, BoundInv

LEMMA InitBound == Init => BoundInv
BY DEF Init, BoundInv

LEMMA BufferInductive ==
  ASSUME RoomyInt
  PROVE  Spec => []BufferInv
<1>1. Init => BufferInv /\ BoundInv
  BY InitBuffer, InitBound
<1>2. BufferInv /\ BoundInv /\ [Next]_vars => BufferInv' /\ BoundInv'
  BY NextBuffer
<1> QED BY <1>1, <1>2, PTL DEF Spec

\* Between calls buffer is a C string of used characters, with its NUL inside the memory,
\* however _append and _replace grew it and _trim, _delete and _clear cut it, also when a
\* pattern overlaps itself; as long as the sizes stay below 2^31.
THEOREM TextTerminated ==
  ASSUME RoomyInt
  PROVE  Spec => []Terminated
BY BufferInductive, TerminatedIs, PTL

-----------------------------------------------------------------------------
(* Searches. *)

\* The bytes of a buffer as a text.
LEMMA BytesText ==
  ASSUME NEW len, NEW u, NEW buf, Holds(buf, len, u)
  PROVE  /\ Bytes(buf, 0, u) \in Seq(Char)
         /\ Len(Bytes(buf, 0, u)) = u
         /\ \A k \in 1 .. u : Bytes(buf, 0, u)[k] = buf[k-1]
<1>1. u \in Nat /\ \A k \in 1 .. u : buf[0+k-1] \in Char
  BY DEF Holds
<1>2. Bytes(buf, 0, u) \in [1 .. u -> Char]
  BY <1>1 DEF Bytes
<1>3. Bytes(buf, 0, u) \in Seq(Char)
  BY <1>1, <1>2
<1>4. \A k \in 1 .. u : Bytes(buf, 0, u)[k] = buf[k-1]
  BY <1>1 DEF Bytes
<1> QED BY <1>1, <1>2, <1>3, <1>4

\* Where a text is in another.
LEMMA PartIs ==
  ASSUME NEW t \in Seq(Char), NEW w \in Seq(Char), NEW k \in Nat, k + Len(w) <= Len(t)
  PROVE  SubSeq(t, k + 1, k + Len(w)) = w <=> \A j \in 1 .. Len(w) : t[k+j] = w[j]
<1> DEFINE part == SubSeq(t, k + 1, k + Len(w))
<1>1. Len(t) \in Nat /\ Len(w) \in Nat
  BY LenProperties
<1>2. \A j \in k + 1 .. k + Len(w) : t[j] \in Char
  BY <1>1, ElementOfSeq
<1>3. /\ part \in Seq(Char)
      /\ Len(part) = IF k + 1 <= k + Len(w) THEN k + Len(w) - (k + 1) + 1 ELSE 0
      /\ \A j \in 1 .. k + Len(w) - (k + 1) + 1 : part[j] = t[k + 1 + j - 1]
  BY <1>1, <1>2, SubSeqProperties
<1>4. Len(part) = Len(w) /\ \A j \in 1 .. Len(w) : part[j] = t[k+j]
  BY <1>1, <1>3
<1> HIDE DEF part
<1>5. ASSUME part = w PROVE \A j \in 1 .. Len(w) : t[k+j] = w[j]
  BY <1>4, <1>5
<1>6. ASSUME \A j \in 1 .. Len(w) : t[k+j] = w[j] PROVE part = w
  BY <1>3, <1>4, <1>6, SeqEqual
<1> QED BY <1>5, <1>6 DEF part

\* A comparison with what is in the buffer stops at its NUL.
LEMMA SameAtIs ==
  ASSUME NEW len, NEW u, NEW buf, Holds(buf, len, u), u < len, buf[u] = NUL,
         NEW w \in Seq(Char), NEW k \in 0 .. u
  PROVE  SameAt(buf, k, w) <=> /\ k + Len(w) <= u
                              /\ \A j \in 1 .. Len(w) : Bytes(buf, 0, u)[k+j] = w[j]
<1>1. DOMAIN buf = 0 .. len-1 /\ len \in Nat /\ u \in Nat /\ k \in Nat /\ k <= u
  BY DEF Holds, Array
<1>2. Len(w) \in Nat /\ \A j \in 1 .. Len(w) : w[j] \in Char
  BY LenProperties, ElementOfSeq
<1>3. \A j \in 1 .. u : Bytes(buf, 0, u)[j] = buf[j-1]
  BY BytesText
<1>4. ASSUME SameAt(buf, k, w) PROVE k + Len(w) <= u
  <2> SUFFICES ASSUME k + Len(w) > u PROVE FALSE
    BY <1>1, <1>2
  <2>1. u - k + 1 \in 1 .. Len(w) /\ k + (u - k + 1) - 1 = u
    BY <1>1, <1>2
  <2>2. buf[u] = w[u - k + 1]
    BY <1>4, <2>1 DEF SameAt
  <2> QED BY <1>2, <2>1, <2>2, Characters
<1>5. ASSUME k + Len(w) <= u, NEW j \in 1 .. Len(w)
      PROVE  Bytes(buf, 0, u)[k+j] = buf[k+j-1] /\ k+j-1 \in DOMAIN buf
  BY <1>1, <1>2, <1>3, <1>5
<1>6. ASSUME SameAt(buf, k, w) PROVE \A j \in 1 .. Len(w) : Bytes(buf, 0, u)[k+j] = w[j]
  BY <1>4, <1>5, <1>6 DEF SameAt
<1>7. ASSUME k + Len(w) <= u, \A j \in 1 .. Len(w) : Bytes(buf, 0, u)[k+j] = w[j]
      PROVE  SameAt(buf, k, w)
  BY <1>5, <1>7 DEF SameAt
<1> QED BY <1>4, <1>6, <1>7

LEMMA GreatestExists ==
  ASSUME NEW S \in SUBSET Nat, S # {}, NEW bound \in Nat, \A x \in S : x <= bound
  PROVE  \E x \in S : \A y \in S : y <= x
<1> DEFINE T == {bound - x : x \in S}
<1>1. T \in SUBSET Nat /\ T # {}
  <2>1. \A x \in S : bound - x \in Nat
    OBVIOUS
  <2>2. \A z \in T : z \in Nat
    BY <2>1
  <2>3. PICK x \in S : TRUE
    OBVIOUS
  <2>4. bound - x \in T
    OBVIOUS
  <2> QED BY <2>2, <2>4
<1>2. \A x \in S : bound - x \in T
  OBVIOUS
<1>3. \A z \in T : \E x \in S : z = bound - x
  OBVIOUS
<1> HIDE DEF T
<1>4. Least(T) \in T /\ \A z \in T : Least(T) <= z
  BY <1>1, LeastExists
<1>5. PICK x \in S : Least(T) = bound - x
  BY <1>3, <1>4
<1>6. \A y \in S : bound - x <= bound - y
  BY <1>2, <1>4, <1>5
<1> QED BY <1>6

LEMMA SearchesAgreeIs == BufferInv => SearchesAgree
<1> SUFFICES ASSUME BufferInv, state = "ready", NEW w \in Texts \cup Patterns, w # <<>>
             PROVE  LET at == {k \in 0 .. used - Len(w) : SubSeq(Bytes(buffer, 0, used), k + 1, k + Len(w)) = w}
                    IN /\ at = {} => IndexOf(w) = -1 /\ LastIndexOf(w) = -1
                       /\ at # {} => /\ IndexOf(w) \in at /\ LastIndexOf(w) \in at
                                     /\ \A k \in at : IndexOf(w) <= k /\ k <= LastIndexOf(w)
  BY DEF SearchesAgree
<1> DEFINE text == Bytes(buffer, 0, used)
           at == {k \in 0 .. used - Len(w) : SubSeq(text, k + 1, k + Len(w)) = w}
<1>1. Holds(buffer, length, used) /\ used < length /\ buffer[used] = NUL
  BY DEF BufferInv
<1>2. w \in Seq(Char) /\ Len(w) \in Nat \ {0}
  BY TextsAssumption, EmptySeq
<1>3. used \in Nat /\ text \in Seq(Char) /\ Len(text) = used
  BY <1>1, BytesText DEF Holds
<1>4. Found(w) = at
  <2>1. ASSUME NEW k \in Found(w) PROVE k \in at
    <3>1. k \in 0 .. used - 1 /\ SameAt(buffer, k, w) /\ k \in 0 .. used /\ k \in Nat
      BY <1>3 DEF Found
    <3>2. k + Len(w) <= used /\ \A j \in 1 .. Len(w) : text[k+j] = w[j]
      BY <3>1, <1>1, <1>2, SameAtIs
    <3> HIDE DEF text
    <3>3. SubSeq(text, k + 1, k + Len(w)) = w
      BY <1>2, <1>3, <3>1, <3>2, PartIs
    <3> QED BY <1>2, <1>3, <3>1, <3>2, <3>3
  <2>2. ASSUME NEW k \in at PROVE k \in Found(w)
    <3>1. k \in 0 .. used - 1 /\ k \in 0 .. used /\ k \in Nat /\ k + Len(w) <= used
      BY <1>2, <1>3
    <3>2. \A j \in 1 .. Len(w) : text[k+j] = w[j]
      <4>1. SubSeq(text, k + 1, k + Len(w)) = w
        OBVIOUS
      <4> HIDE DEF text
      <4> QED BY <4>1, <1>2, <1>3, <3>1, PartIs
    <3>3. SameAt(buffer, k, w)
      BY <3>1, <3>2, <1>1, <1>2, SameAtIs
    <3> QED BY <3>1, <3>3 DEF Found
  <2> HIDE DEF at
  <2> QED BY <2>1, <2>2
<1>5. at \in SUBSET Nat /\ \A k \in at : k <= used
  BY <1>2, <1>3
<1> HIDE DEF at, text
<1>6. CASE at = {}
  BY <1>4, <1>6 DEF IndexOf, LastIndexOf, at, text
<1>7. CASE at # {}
  <2>1. IndexOf(w) = Least(at) /\ LastIndexOf(w) = CHOOSE k \in at : \A j \in at : j <= k
    BY <1>4, <1>7 DEF IndexOf, LastIndexOf
  <2>2. Least(at) \in at /\ \A k \in at : Least(at) <= k
    BY <1>5, <1>7, LeastExists
  <2>3. \E k \in at : \A j \in at : j <= k
    BY <1>3, <1>5, <1>7, GreatestExists
  <2>4. LastIndexOf(w) \in at /\ \A j \in at : j <= LastIndexOf(w)
    BY <2>1, <2>3
  <2>5. /\ IndexOf(w) \in at /\ LastIndexOf(w) \in at
        /\ \A k \in at : IndexOf(w) <= k /\ k <= LastIndexOf(w)
    BY <2>1, <2>2, <2>4
  <2> QED BY <2>5, <1>7 DEF at, text
<1> QED BY <1>6, <1>7 DEF at, text

\* indexOf and lastIndexOf answer from the text alone, whatever is in the memory behind it.
THEOREM SearchesRight ==
  ASSUME RoomyInt
  PROVE  Spec => []SearchesAgree
BY BufferInductive, SearchesAgreeIs, PTL
-----------------------------------------------------------------------------
(* Replacements. *)

\* A pattern that is not empty and no end of which is one of its beginnings.
NoOverlap(a) ==
  a # <<>> /\ \A d \in 1 .. Len(a) - 1 : \E j \in 1 .. Len(a) - d : a[j+d] # a[j]

\* Its occurrences have no byte in common.
LEMMA Apart ==
  ASSUME NEW a \in Seq(Char), NoOverlap(a), NEW buf, NEW k \in Nat, NEW l \in Nat,
         SameAt(buf, k, a), SameAt(buf, l, a), k < l
  PROVE  k + Len(a) <= l
<1>1. Len(a) \in Nat
  BY LenProperties
<1> SUFFICES ASSUME l < k + Len(a) PROVE FALSE
  BY <1>1
<1> DEFINE d == l - k
<1>2. d \in 1 .. Len(a) - 1
  BY <1>1
<1>3. PICK j \in 1 .. Len(a) - d : a[j+d] # a[j]
  BY <1>2 DEF NoOverlap
<1>4. j \in 1 .. Len(a) /\ j+d \in 1 .. Len(a) /\ k+(j+d)-1 = l+j-1
  BY <1>1, <1>2
<1>5. buf[l+j-1] = a[j] /\ buf[k+(j+d)-1] = a[j+d]
  BY <1>4 DEF SameAt
<1> QED BY <1>3, <1>4, <1>5

\* Where a begins, from x on, in the first u bytes.
Ahead(buf, x, u, a) == {k \in x .. u - Len(a) : SameAt(buf, k, a)}

LEMMA AheadFinite ==
  ASSUME NEW buf, NEW x \in Nat, NEW u \in Nat, NEW a \in Seq(Char)
  PROVE  /\ IsFiniteSet(Ahead(buf, x, u, a))
         /\ Cardinality(Ahead(buf, x, u, a)) \in Nat
         /\ Cardinality(Ahead(buf, x, u, a)) = 0 <=> Ahead(buf, x, u, a) = {}
<1>1. u - Len(a) \in Int
  BY LenProperties
<1>2. IsFiniteSet(x .. u - Len(a))
  BY <1>1, FS_Interval
<1>3. IsFiniteSet(Ahead(buf, x, u, a))
  BY <1>2, FS_Subset DEF Ahead
<1> QED BY <1>3, FS_CardinalityType, FS_EmptySet

\* The first loop of StringBuffer_replace counts the occurrences in the text.
LEMMA CountAhead ==
  ASSUME NEW len \in Nat, NEW u \in Nat, NEW buf, Holds(buf, len, u), u < len, buf[u] = NUL,
         NEW a \in Seq(Char), NoOverlap(a)
  PROVE  /\ {k \in 0 .. u - 1 : SameAt(buf, k, a)} = Ahead(buf, 0, u, a)
         /\ Cardinality({k \in 0 .. u - 1 : SameAt(buf, k, a)}) \in Nat
         /\ Cardinality({k \in 0 .. u - 1 : SameAt(buf, k, a)}) = Cardinality(Ahead(buf, 0, u, a))
<1>1. Len(a) \in Nat \ {0}
  BY EmptySeq, LenProperties DEF NoOverlap
<1>2. {k \in 0 .. u - 1 : SameAt(buf, k, a)} = Ahead(buf, 0, u, a)
  <2>1. ASSUME NEW k \in 0 .. u - 1, SameAt(buf, k, a) PROVE k \in 0 .. u - Len(a)
    <3>1. k + Len(a) <= u
      BY <1>1, <2>1, SameAtIs
    <3> QED BY <3>1, <1>1
  <2>2. \A k \in 0 .. u - Len(a) : k \in 0 .. u - 1
    BY <1>1
  <2> QED BY <2>1, <2>2 DEF Ahead
<1> QED BY <1>2, AheadFinite

\* There are no more occurrences than the text has room for.
LEMMA AheadFit ==
  ASSUME NEW buf, NEW u \in Nat, NEW a \in Seq(Char), NoOverlap(a)
  PROVE  Cardinality(Ahead(buf, 0, u, a)) * Len(a) <= u
<1> DEFINE S == Ahead(buf, 0, u, a)
           T == 0 .. Len(a) - 1
           f == [p \in S \X T |-> p[1] + p[2]]
<1>1. Len(a) \in Nat
  BY LenProperties
<1>2. IsFiniteSet(S) /\ IsFiniteSet(T) /\ Cardinality(T) = Len(a)
  <2>1. IsFiniteSet(S)
    BY AheadFinite
  <2>2. IsFiniteSet(T)
    BY <1>1, FS_Interval
  <2>3. Cardinality(T) = Len(a)
    <3> DEFINE la == Len(a)
    <3>1. la \in Nat
      BY <1>1
    <3> HIDE DEF la
    <3>2. Cardinality(0 .. la-1) = la
      BY <3>1, FS_Interval
    <3> QED BY <3>2 DEF la
  <2> QED BY <2>1, <2>2, <2>3
<1>3. IsFiniteSet(0 .. u-1) /\ Cardinality(0 .. u-1) = u
  BY FS_Interval
<1>4. ASSUME NEW k \in S PROVE k \in Nat /\ k + Len(a) <= u /\ SameAt(buf, k, a)
  BY <1>1 DEF Ahead
<1>5. f \in [S \X T -> 0 .. u-1]
  <2> SUFFICES ASSUME NEW k \in S, NEW d \in T PROVE k + d \in 0 .. u-1
    OBVIOUS
  <2> QED BY <1>1, <1>4
<1>6. ASSUME NEW k \in S, NEW d \in T, NEW l \in S, NEW e \in T, k + d = l + e
      PROVE  k = l /\ d = e
  <2>1. k \in Nat /\ l \in Nat /\ d \in Nat /\ e \in Nat /\ d < Len(a) /\ e < Len(a)
    BY <1>1, <1>4
  <2>2. ~(k < l)
    <3> SUFFICES ASSUME k < l PROVE FALSE
      OBVIOUS
    <3>1. k + Len(a) <= l
      BY <1>4, <2>1, Apart
    <3> QED BY <1>1, <1>6, <2>1, <3>1
  <2>3. ~(l < k)
    <3> SUFFICES ASSUME l < k PROVE FALSE
      OBVIOUS
    <3>1. l + Len(a) <= k
      BY <1>4, <2>1, Apart
    <3> QED BY <1>1, <1>6, <2>1, <3>1
  <2> QED BY <1>6, <2>1, <2>2, <2>3
<1>7. \A p, q \in S \X T : f[p] = f[q] => p = q
  <2> SUFFICES ASSUME NEW p \in S \X T, NEW q \in S \X T, f[p] = f[q]
               PROVE  p = q
    OBVIOUS
  <2>1. p[1] \in S /\ p[2] \in T /\ q[1] \in S /\ q[2] \in T /\ p = <<p[1], p[2]>> /\ q = <<q[1], q[2]>>
    OBVIOUS
  <2>2. p[1] + p[2] = q[1] + q[2]
    OBVIOUS
  <2> HIDE DEF S, T, f
  <2>3. p[1] = q[1] /\ p[2] = q[2]
    BY <1>6, <2>1, <2>2
  <2> QED BY <2>1, <2>3
<1> HIDE DEF f
<1>8. f \in Injection(S \X T, 0 .. u-1)
  BY <1>5, <1>7 DEF Injection, IsInjective
<1> HIDE DEF S, T
<1>9. Cardinality(S \X T) <= u
  BY <1>3, <1>8, FS_Injection
<1>10. Cardinality(S \X T) = Cardinality(S) * Len(a)
  BY <1>2, FS_Product
<1> QED BY <1>9, <1>10 DEF S

\* No pattern overlaps itself.
PatternsApart == \A a \in Patterns : NoOverlap(a)

\* The loop has as many replacements to make as there are occurrences ahead, and the memory
\* has room for them.
ReplaceInv ==
  state = "replace" =>
    /\ i \in 0 .. used /\ used < length
    /\ m = Cardinality(Ahead(buffer, i, used, Old))
    /\ used + m * (Len(By) - Len(Old)) < length
SafeInv == BufferInv /\ BoundInv /\ ReplaceInv /\ ReplaceDefined

LEMMA ReplaceBeginSafe ==
  ASSUME PatternsApart, RoomyInt, SafeInv, ReplaceBegin, BufferInv', BoundInv'
  PROVE  SafeInv'
<1>1. PICK a \in Patterns, b \in Replacements :
        LET count == Cardinality({k \in 0 .. used - 1 : SameAt(buffer, k, a)})
            grow  == Len(b) # Len(a) /\ Required(a, b, count) >= length
            size  == ToInt(Required(a, b, count))
        IN /\ used + count * (Len(b) - Len(a)) <= MaxUsed
           /\ call' = <<"replace", a, b>>
           /\ m' = count /\ i' = 0
           /\ state' = IF count = 0 THEN "ready"
                       ELSE IF grow /\ size <= 0 THEN "aborted" ELSE "replace"
           /\ IF count > 0 /\ grow
              THEN length' = size /\ buffer' = Realloc(buffer, size)
              ELSE UNCHANGED <<length, buffer>>
  BY DEF ReplaceBegin
<1> DEFINE count == Cardinality({k \in 0 .. used - 1 : SameAt(buffer, k, a)})
           req   == Required(a, b, count)
           d     == Len(b) - Len(a)
<1>2. Holds(buffer, length, used) /\ used < length /\ buffer[used] = NUL /\ used' = used /\ state = "ready"
  BY DEF ReplaceBegin, BufferInv, SafeInv
<1>3. used \in Nat /\ length \in Nat
  BY <1>2 DEF Holds
<1>4. a \in Seq(Char) /\ b \in Seq(Char) /\ Len(a) \in Nat \ {0} /\ Len(b) \in Nat /\ NoOverlap(a)
  BY TextsAssumption, EmptySeq, LenProperties DEF PatternsApart, NoOverlap
<1>5. count \in Nat /\ count = Cardinality(Ahead(buffer, 0, used, a))
  BY <1>2, <1>3, <1>4, CountAhead
<1>6. count \in Nat /\ count = Cardinality(Ahead(buffer, 0, used, a)) /\ count * Len(a) <= used
  BY <1>3, <1>4, <1>5, AheadFit
<1>7. Old' = a /\ By' = b
  BY <1>1 DEF Old, By
<1> HIDE DEF count
<1>8. count * d \in Int /\ used + count * d \in Nat
  <2> DEFINE ca == count * Len(a)
             cb == count * Len(b)
             cd == count * d
  <2>1. ca \in Nat /\ cb \in Nat
    BY <1>4, <1>6
  <2>2. cd = cb - ca
    BY <1>4, <1>6
  <2>3. ca <= used
    BY <1>6
  <2> HIDE DEF ca, cb, cd
  <2>4. cd \in Int /\ used + cd \in Nat
    BY <2>1, <2>2, <2>3, <1>3
  <2> QED BY <2>4 DEF cd
<1>9. used + count * d <= MaxUsed
  BY <1>1 DEF count
<1>10. req = used + count * d + 1 /\ ToInt(req) = req
  <2>1. used <= MaxUsed /\ count <= used
    BY <1>2, <1>3, CountIs DEF SafeInv, BoundInv, count
  <2> DEFINE v == used + count * (Len(b) - Len(a)) + 1
  <2>2. v >= 1 => req = v /\ ToInt(v) = v
    BY <2>1, <1>3, <1>6, <1>9, SizeIs
  <2>3. v = used + count * d + 1 /\ v >= 1
    BY <1>3, <1>8
  <2> QED BY <2>2, <2>3
<1>11. /\ m' = count /\ i' = 0
       /\ state' = IF count = 0 THEN "ready"
                   ELSE IF Len(b) # Len(a) /\ req >= length /\ ToInt(req) <= 0 THEN "aborted" ELSE "replace"
       /\ IF count > 0 /\ Len(b) # Len(a) /\ req >= length
          THEN length' = ToInt(req) /\ buffer' = Realloc(buffer, ToInt(req))
          ELSE UNCHANGED <<length, buffer>>
  BY <1>1 DEF count
<1> HIDE DEF req
<1>12. state' \in {"ready", "replace"}
  BY <1>3, <1>8, <1>10, <1>11
<1>13. CASE state' = "ready"
  BY <1>13 DEF SafeInv, ReplaceInv, ReplaceDefined
<1>14. CASE state' = "replace"
  <2>1. count > 0
    BY <1>6, <1>11, <1>14
  <2>2. CASE Len(b) # Len(a) /\ req >= length
    <3>1. length' = req /\ buffer' = Realloc(buffer, req) /\ req \in Nat /\ length <= req
      BY <1>3, <1>8, <1>10, <1>11, <2>1, <2>2
    <3>2. \A k \in 0 .. length-1 : buffer'[k] = buffer[k]
      BY <1>2, <1>3, <3>1, ReallocIs DEF Holds
    <3>3. DOMAIN buffer = 0 .. length-1 /\ DOMAIN buffer' = 0 .. req-1
      BY <1>2, <3>1 DEF Holds, Array, Realloc
    <3>4. ASSUME NEW k \in 0 .. used - Len(a) PROVE SameAt(buffer', k, a) <=> SameAt(buffer, k, a)
      <4>1. \A j \in 1 .. Len(a) : k+j-1 \in 0 .. length-1 /\ k+j-1 \in 0 .. req-1
        BY <1>2, <1>3, <1>4, <3>1
      <4> QED BY <4>1, <3>2, <3>3 DEF SameAt
    <3>5. Ahead(buffer', 0, used, a) = Ahead(buffer, 0, used, a)
      BY <3>4 DEF Ahead
    <3>6. used < length' /\ used + count * d < length'
      BY <1>2, <1>3, <1>8, <1>10, <3>1
    <3> QED BY <3>5, <3>6, <1>2, <1>3, <1>6, <1>7, <1>11, <1>14 DEF SafeInv, ReplaceInv, ReplaceDefined
  <2>3. CASE ~(Len(b) # Len(a) /\ req >= length)
    <3>1. UNCHANGED <<length, buffer>>
      BY <1>11, <2>3
    <3>2. used + count * d < length
      <4>1. CASE Len(b) = Len(a)
        <5>1. d = 0
          BY <4>1, <1>4
        <5>2. count * d = 0
          BY <5>1, <1>6
        <5> QED BY <5>2, <1>2, <1>3
      <4>2. CASE ~(req >= length)
        BY <4>2, <1>3, <1>8, <1>10
      <4> QED BY <4>1, <4>2, <2>3
    <3> QED BY <3>1, <3>2, <1>2, <1>3, <1>6, <1>7, <1>11, <1>14 DEF SafeInv, ReplaceInv, ReplaceDefined
  <2> QED BY <2>2, <2>3
<1> QED BY <1>12, <1>13, <1>14
\* While an occurrence is ahead the bytes compared are part of the text, and there is room.
LEMMA StepSafe ==
  ASSUME PatternsApart, SafeInv, state = "replace", m > 0
  PROVE  /\ StepDefined
         /\ i + Len(Old) <= used /\ i \in Nat /\ used \in Nat /\ length \in Nat /\ m \in Nat
         /\ Old \in Seq(Char) /\ By \in Seq(Char) /\ Len(Old) \in Nat \ {0} /\ Len(By) \in Nat
         /\ NoOverlap(Old)
<1>1. Holds(buffer, length, used) /\ i \in 0 .. used /\ Old \in Patterns /\ By \in Replacements
  BY DEF SafeInv, BufferInv, ReplaceInv
<1>2. used \in Nat /\ length \in Nat /\ i \in Nat /\ used < length
  BY <1>1 DEF Holds, SafeInv, ReplaceInv
<1>3. /\ Old \in Seq(Char) /\ By \in Seq(Char) /\ Len(Old) \in Nat \ {0} /\ Len(By) \in Nat
      /\ NoOverlap(Old)
  BY <1>1, TextsAssumption, EmptySeq, LenProperties DEF PatternsApart, NoOverlap
<1>4. m \in Nat /\ Ahead(buffer, i, used, Old) # {}
  <2>1. m = Cardinality(Ahead(buffer, i, used, Old))
    BY DEF SafeInv, ReplaceInv
  <2>2. /\ Cardinality(Ahead(buffer, i, used, Old)) \in Nat
        /\ Cardinality(Ahead(buffer, i, used, Old)) = 0 <=> Ahead(buffer, i, used, Old) = {}
    BY <1>2, <1>3, AheadFinite
  <2> QED BY <2>1, <2>2
<1>5. i + Len(Old) <= used
  <2>1. PICK k \in Ahead(buffer, i, used, Old) : TRUE
    BY <1>4
  <2>2. k \in i .. used - Len(Old)
    BY <2>1 DEF Ahead
  <2> QED BY <2>2, <1>2, <1>3
<1>6. ReadsWritten(buffer, i, Old)
  <2>1. ASSUME NEW j \in 1 .. Len(Old) PROVE i + j - 1 \in 0 .. used-1 /\ i + j - 1 \in 0 .. length-1
    BY <1>2, <1>3, <1>5
  <2>2. DOMAIN buffer = 0 .. length-1 /\ \A k \in 0 .. used-1 : buffer[k] # JUNK
    BY <1>1, Characters DEF Holds, Array
  <2> QED BY <2>1, <2>2 DEF ReadsWritten
<1>7. i + Len(By) + used - (i + Len(Old)) <= length /\ i + Len(By) <= length
  <2> DEFINE d  == Len(By) - Len(Old)
             md == m * d
  <2>1. d \in Int /\ used + md < length
    BY <1>3 DEF SafeInv, ReplaceInv
  <2>2. d > 0 => md >= d
    <3> HIDE DEF d
    <3>1. ASSUME d > 0 PROVE (m - 1) * d >= 0
      BY <1>4, <2>1, <3>1
    <3>2. m * d = (m - 1) * d + d
      BY <1>4, <2>1
    <3>3. (m - 1) * d \in Int
      BY <1>4, <2>1
    <3> QED BY <2>1, <3>1, <3>2, <3>3
  <2>3. md \in Int
    BY <1>4, <2>1
  <2> HIDE DEF md
  <2>4. used + d <= length
    BY <1>2, <2>1, <2>2, <2>3
  <2> QED BY <1>2, <1>3, <1>5, <2>4
<1> QED BY <1>2, <1>3, <1>4, <1>5, <1>6, <1>7 DEF StepDefined

LEMMA ReplaceNextSafe ==
  ASSUME PatternsApart, SafeInv, ReplaceNext, BufferInv', BoundInv'
  PROVE  SafeInv'
<1>1. /\ state = "replace" /\ m > 0 /\ ~SameAt(buffer, i, Old) /\ i' = i + 1
      /\ UNCHANGED <<buffer, used, length, m>> /\ Old' = Old /\ By' = By
  BY DEF ReplaceNext, Old, By
<1>2. /\ StepDefined /\ i + Len(Old) <= used /\ i \in Nat /\ used \in Nat /\ Len(Old) \in Nat \ {0}
  BY <1>1, StepSafe
<1>3. state' = "replace"
  BY <1>2 DEF ReplaceNext
<1>4. Ahead(buffer, i+1, used, Old) = Ahead(buffer, i, used, Old)
  BY <1>1, <1>2 DEF Ahead
<1> QED BY <1>1, <1>2, <1>3, <1>4 DEF SafeInv, ReplaceInv, ReplaceDefined

\* What is ahead after a replacement is what was ahead of the occurrence replaced, moved.
LEMMA AheadMoved ==
  ASSUME NEW len \in Nat, NEW u \in Nat, NEW buf, Holds(buf, len, u),
         NEW x \in Nat, NEW a \in Seq(Char), NoOverlap(a), NEW b \in Seq(Char),
         SameAt(buf, x, a), x + Len(a) <= u, u - Len(a) + Len(b) <= len,
         NEW r, r = Memcpy(Memmove(buf, x + Len(b), x + Len(a), u - (x + Len(a))), x, b)
  PROVE  Cardinality(Ahead(r, x + Len(b), u + Len(b) - Len(a), a)) = Cardinality(Ahead(buf, x, u, a)) - 1
<1> DEFINE la == Len(a)
           lb == Len(b)
           v  == u + lb - la
           S  == Ahead(buf, x, u, a)
           T  == Ahead(r, x + lb, v, a)
           f  == [k \in S \ {x} |-> k + lb - la]
<1>1. la \in Nat \ {0} /\ lb \in Nat /\ v \in Nat /\ v <= len /\ u <= len
  BY EmptySeq, LenProperties DEF NoOverlap, Holds
<1>2. /\ Holds(r, len, v)
      /\ \A k \in 0 .. v - 1 :
           r[k] = IF k < x THEN buf[k] ELSE IF k < x + lb THEN b[k-x+1] ELSE buf[k - lb + la]
  <2>1. Holds(r, len, u + Len(b) - Len(a)) /\ Spliced(r, buf, u, x, Len(a), b)
    BY <1>1, SubstitutedIs
  <2> QED BY <2>1 DEF Spliced
<1>3. DOMAIN buf = 0 .. len-1 /\ DOMAIN r = 0 .. len-1
  BY <1>2 DEF Holds, Array
<1> HIDE DEF v
<1>4. v = u + lb - la
  BY DEF v
<1>5. ASSUME NEW k \in x + la .. u - la
      PROVE  SameAt(buf, k, a) <=> SameAt(r, k + lb - la, a)
  <2>1. ASSUME NEW j \in 1 .. la
        PROVE  /\ k + j - 1 \in 0 .. len-1 /\ k + lb - la + j - 1 \in 0 .. len-1
               /\ r[k + lb - la + j - 1] = buf[k + j - 1]
    <3> DEFINE y == k + lb - la + j - 1
    <3>1. y \in 0 .. v-1 /\ ~(y < x) /\ ~(y < x + lb) /\ y - lb + la = k + j - 1
      BY <1>1, <1>4
    <3> HIDE DEF y
    <3>2. r[y] = buf[k + j - 1]
      BY <1>2, <3>1
    <3>3. k + j - 1 \in 0 .. len-1
      BY <1>1
    <3>4. y \in 0 .. len-1
      BY <1>1, <3>1
    <3> QED BY <3>2, <3>3, <3>4 DEF y
  <2> QED BY <1>3, <2>1 DEF SameAt
<1>6. \A k \in S : k \in Nat /\ k + la <= u /\ SameAt(buf, k, a)
  BY <1>1 DEF Ahead
<1>7. \A k \in S \ {x} : k \in x + la .. u - la
  <2> SUFFICES ASSUME NEW k \in S, k # x PROVE x + la <= k
    BY <1>1, <1>6
  <2>1. k \in Nat /\ x < k /\ SameAt(buf, k, a)
    BY <1>1 DEF Ahead
  <2> QED BY <2>1, Apart
<1>8. f \in [S \ {x} -> T]
  <2> SUFFICES ASSUME NEW k \in S \ {x} PROVE k + lb - la \in T
    OBVIOUS
  <2>1. k \in x + la .. u - la /\ SameAt(r, k + lb - la, a)
    BY <1>5, <1>6, <1>7
  <2>2. k + lb - la \in x + lb .. v - la
    BY <1>1, <1>4, <2>1
  <2> QED BY <2>1, <2>2 DEF Ahead
<1>9. ASSUME NEW k \in T PROVE k - lb + la \in S \ {x} /\ f[k - lb + la] = k
  <2>1. k \in x + lb .. v - la /\ SameAt(r, k, a)
    BY DEF Ahead
  <2>2. k - lb + la \in x + la .. u - la /\ (k - lb + la) + lb - la = k
    BY <1>1, <1>4, <2>1
  <2>3. SameAt(buf, k - lb + la, a)
    BY <1>5, <2>1, <2>2
  <2>4. k - lb + la \in x .. u - la /\ k - lb + la # x
    BY <1>1, <2>2
  <2> QED BY <2>2, <2>3, <2>4 DEF Ahead
<1>10. \A k, l \in S \ {x} : f[k] = f[l] => k = l
  <2> SUFFICES ASSUME NEW k \in S \ {x}, NEW l \in S \ {x}, k + lb - la = l + lb - la PROVE k = l
    OBVIOUS
  <2> QED BY <1>1, <1>6
<1> HIDE DEF f
<1>11. ExistsBijection(S \ {x}, T)
  <2>1. f \in Injection(S \ {x}, T)
    BY <1>8, <1>10 DEF Injection, IsInjective
  <2>2. f \in Surjection(S \ {x}, T)
    BY <1>8, <1>9 DEF Surjection
  <2> QED BY <2>1, <2>2 DEF ExistsBijection, Bijection
<1>12. x \in S
  BY <1>1 DEF Ahead
<1>13. IsFiniteSet(S)
  BY AheadFinite
<1> HIDE DEF S, T
<1>14. IsFiniteSet(S \ {x}) /\ Cardinality(S \ {x}) = Cardinality(S) - 1
  BY <1>12, <1>13, FS_RemoveElement
<1>15. Cardinality(T) = Cardinality(S) - 1
  BY <1>11, <1>14, FS_Bijection
<1> QED BY <1>15 DEF S, T, v
LEMMA ProductNat ==
  ASSUME NEW x \in Nat, NEW y \in Nat
  PROVE  x * y \in Nat
OBVIOUS

LEMMA SumBelow ==
  ASSUME NEW x \in Int, NEW y \in Nat, NEW z \in Int, x + y < z
  PROVE  x < z
OBVIOUS

LEMMA ReplaceOneSafe ==
  ASSUME PatternsApart, SafeInv, ReplaceOne, BufferInv', BoundInv'
  PROVE  SafeInv'
<1> DEFINE d == Len(By) - Len(Old)
<1>1. /\ state = "replace" /\ m > 0 /\ SameAt(buffer, i, Old) /\ i' = i + Len(By) /\ m' = m - 1
      /\ used' = used + d /\ length' = length /\ Old' = Old /\ By' = By
  BY DEF ReplaceOne, Old, By
<1>2. /\ StepDefined /\ i + Len(Old) <= used /\ i \in Nat /\ used \in Nat /\ length \in Nat /\ m \in Nat
      /\ Old \in Seq(Char) /\ By \in Seq(Char) /\ Len(Old) \in Nat \ {0} /\ Len(By) \in Nat
      /\ NoOverlap(Old)
  BY <1>1, StepSafe
<1>3. buffer' = Substituted /\ state' = "replace"
  BY <1>1, <1>2 DEF ReplaceOne
<1>4. /\ Holds(buffer, length, used) /\ used < length /\ used + m * d < length
      /\ m = Cardinality(Ahead(buffer, i, used, Old))
  BY <1>1 DEF SafeInv, BufferInv, ReplaceInv
<1>5. used - Len(Old) + Len(By) <= length
  BY <1>1, <1>2 DEF StepDefined
<1>6. Cardinality(Ahead(buffer', i + Len(By), used + Len(By) - Len(Old), Old)) = m - 1
  <2>1. buffer' = Memcpy(Memmove(buffer, i + Len(By), i + Len(Old), used - (i + Len(Old))), i, By)
    BY <1>3 DEF Substituted
  <2> HIDE DEF d
  <2>2. Cardinality(Ahead(buffer', i + Len(By), used + Len(By) - Len(Old), Old))
          = Cardinality(Ahead(buffer, i, used, Old)) - 1
    BY <1>1, <1>2, <1>4, <1>5, <2>1, AheadMoved, SMTT(30)
  <2> QED BY <1>4, <2>2
<1>7. Cardinality(Ahead(buffer', i', used', Old')) = m'
  BY <1>1, <1>6
<1>8. used' + m' * d < length'
  <2>1. d \in Int
    BY <1>2
  <2> HIDE DEF d
  <2>2. (m - 1) * d = m * d - d /\ m * d \in Int
    BY <1>2, <2>1
  <2> QED BY <1>1, <1>2, <1>4, <2>1, <2>2, SMTT(30)
<1>9. used' < length'
  <2>1. m' \in Nat /\ d \in Int /\ used' = used + d /\ length' = length
    BY <1>1, <1>2
  <2>2. CASE d <= 0
    <3> HIDE DEF d
    <3> QED BY <1>2, <1>4, <2>1, <2>2
  <2>3. CASE d >= 0
    <3> HIDE DEF d
    <3>1. d \in Nat
      BY <2>1, <2>3
    <3>2. m' * d \in Nat
      BY <2>1, <3>1, ProductNat
    <3>3. used' \in Int /\ length' \in Int
      BY <1>2, <2>1
    <3> QED BY <1>8, <3>2, <3>3, SumBelow
  <2> QED BY <2>1, <2>2, <2>3
<1>10. i' \in 0 .. used'
  BY <1>1, <1>2
<1> QED BY <1>1, <1>3, <1>7, <1>8, <1>9, <1>10 DEF SafeInv, ReplaceInv, ReplaceDefined

LEMMA ReplaceEndSafe ==
  ASSUME SafeInv, ReplaceEnd, BufferInv', BoundInv'
  PROVE  SafeInv'
BY DEF SafeInv, ReplaceInv, ReplaceDefined, ReplaceEnd

LEMMA NextSafe ==
  ASSUME PatternsApart, RoomyInt, SafeInv, [Next]_vars
  PROVE  SafeInv'
<1>1. BufferInv' /\ BoundInv'
  BY NextBuffer DEF SafeInv
<1>2. CASE UNCHANGED vars
  BY <1>1, <1>2 DEF vars, SafeInv, ReplaceInv, ReplaceDefined, Old, By
<1>3. CASE Create \/ New \/ Free \/ AppendText \/ Trim \/ Delete \/ Clear
  <2>1. state' \in {"none", "ready"}
    BY <1>3 DEF Create, New, Free, AppendText, Trim, Delete, Clear
  <2> QED BY <1>1, <2>1 DEF SafeInv, ReplaceInv, ReplaceDefined
<1> QED BY <1>1, <1>2, <1>3, ReplaceBeginSafe, ReplaceNextSafe, ReplaceOneSafe, ReplaceEndSafe
        DEF Next, ReplaceStep

\* StringBuffer_replace, of patterns that do not overlap themselves in texts far below 2^31
\* bytes, finds as many occurrences in its second loop as it counted in its first, and stays
\* in the memory it made for them.
THEOREM ReplaceSafe ==
  ASSUME PatternsApart, RoomyInt
  PROVE  Spec => []ReplaceDefined
<1>1. Init => SafeInv
  BY InitBuffer, InitBound DEF SafeInv, ReplaceInv, ReplaceDefined, Init
<1>2. SafeInv /\ [Next]_vars => SafeInv'
  BY NextSafe
<1>3. SafeInv => ReplaceDefined
  BY DEF SafeInv
<1> QED BY <1>1, <1>2, <1>3, PTL DEF Spec
-----------------------------------------------------------------------------
(* The functions on texts: what a replacement makes of the rest of a text. *)

\* Induction from the end of a text.
LEMMA Downwards ==
  ASSUME NEW last \in Nat, NEW S, last \in S,
         \A j \in 0 .. last-1 : (\A l \in j+1 .. last : l \in S) => j \in S
  PROVE  \A j \in 0 .. last : j \in S
<1> DEFINE T == (0 .. last) \ S
<1> SUFFICES ASSUME T # {} PROVE FALSE
  OBVIOUS
<1>1. T \in SUBSET Nat /\ \A j \in T : j <= last
  OBVIOUS
<1>2. PICK j \in T : \A l \in T : l <= j
  <2> HIDE DEF T
  <2> QED BY <1>1, GreatestExists
<1>3. j \in 0 .. last-1
  OBVIOUS
<1>4. \A l \in j+1 .. last : l \in S
  BY <1>2, <1>3
<1> QED BY <1>3, <1>4

\* f holds what step makes of later values, from k on.
Solves(f, k, last, V, v, next, step) ==
  /\ f \in [k .. last -> V] /\ f[last] = v
  /\ \A j \in k .. last-1 : f[j] = step[j][f[next[j]]]

\* Every function of the rest of a text, from a value at the end and a step that goes to a
\* later place, exists.
LEMMA Recursion ==
  ASSUME NEW last \in Nat, NEW V, NEW v \in V, NEW next \in [0 .. last-1 -> 1 .. last],
         \A j \in 0 .. last-1 : j < next[j], NEW step \in [0 .. last-1 -> [V -> V]]
  PROVE  \E f : Solves(f, 0, last, V, v, next, step)
<1> DEFINE S == {k \in 0 .. last : \E f : Solves(f, k, last, V, v, next, step)}
<1>1. last \in S
  <2> DEFINE f == [j \in last .. last |-> v]
  <2>1. Solves(f, last, last, V, v, next, step)
    BY DEF Solves
  <2> QED BY <2>1
<1>2. ASSUME NEW k \in 0 .. last-1, k+1 \in S PROVE k \in S
  <2>1. PICK g : Solves(g, k+1, last, V, v, next, step)
    BY <1>2
  <2> DEFINE f == [j \in k .. last |-> IF j = k THEN step[k][g[next[k]]] ELSE g[j]]
  <2>2. next[k] \in k+1 .. last
    OBVIOUS
  <2>3. f[k] \in V /\ f[k] = step[k][f[next[k]]]
    <3>1. g[next[k]] \in V /\ f[next[k]] = g[next[k]]
      BY <2>1, <2>2 DEF Solves
    <3> QED BY <3>1
  <2>4. \A j \in k+1 .. last : f[j] = g[j] /\ f[j] \in V
    BY <2>1 DEF Solves
  <2>5. \A j \in k+1 .. last-1 : f[j] = step[j][f[next[j]]]
    <3> SUFFICES ASSUME NEW j \in k+1 .. last-1 PROVE f[j] = step[j][f[next[j]]]
      OBVIOUS
    <3>1. next[j] \in k+1 .. last
      OBVIOUS
    <3> HIDE DEF f
    <3> QED BY <2>1, <2>4, <3>1 DEF Solves
  <2>6. f \in [k .. last -> V]
    <3>1. \A j \in k .. last : f[j] \in V
      <4> HIDE DEF f
      <4> QED BY <2>3, <2>4
    <3>2. DOMAIN f = k .. last /\ f = [j \in k .. last |-> f[j]]
      OBVIOUS
    <3> HIDE DEF f
    <3> QED BY <3>1, <3>2
  <2>7. f[last] = v
    BY <2>1 DEF Solves
  <2> HIDE DEF f
  <2>8. Solves(f, k, last, V, v, next, step)
    <3>1. \A j \in k .. last-1 : f[j] = step[j][f[next[j]]]
      BY <2>3, <2>5
    <3> QED BY <2>6, <2>7, <3>1 DEF Solves
  <2> QED BY <2>8
<1>3. 0 \in S
  <2> HIDE DEF S
  <2>1. \A j \in 0 .. last-1 : (\A l \in j+1 .. last : l \in S) => j \in S
    BY <1>2
  <2> QED BY <1>1, <2>1, Downwards
<1> QED BY <1>3

\* a begins after k characters of t.
At(t, k, a) == k + Len(a) <= Len(t) /\ \A j \in 1 .. Len(a) : t[k+j] = a[j]

LEMMA SuffixIs ==
  ASSUME NEW t \in Seq(Char), NEW k \in 0 .. Len(t)
  PROVE  /\ Suffix(t, k) \in Seq(Char)
         /\ Len(Suffix(t, k)) = Len(t) - k
         /\ \A j \in 1 .. Len(t) - k : Suffix(t, k)[j] = t[k+j]
<1>1. Len(t) \in Nat /\ \A j \in k + 1 .. Len(t) : t[j] \in Char
  BY LenProperties, ElementOfSeq
<1>2. /\ Suffix(t, k) \in Seq(Char)
      /\ Len(Suffix(t, k)) = IF k + 1 <= Len(t) THEN Len(t) - (k + 1) + 1 ELSE 0
      /\ \A j \in 1 .. Len(t) - (k + 1) + 1 : Suffix(t, k)[j] = t[k + 1 + j - 1]
  BY <1>1, SubSeqProperties DEF Suffix
<1>3. Len(t) - (k + 1) + 1 = Len(t) - k /\ \A j \in 1 .. Len(t) - k : k + 1 + j - 1 = k + j
  BY <1>1
<1>4. \A j \in 1 .. Len(t) - k : Suffix(t, k)[j] = t[k+j]
  <2> SUFFICES ASSUME NEW j \in 1 .. Len(t) - k PROVE Suffix(t, k)[j] = t[k+j]
    OBVIOUS
  <2>1. j \in 1 .. Len(t) - (k + 1) + 1 /\ k + 1 + j - 1 = k + j
    BY <1>1
  <2>2. Suffix(t, k)[j] = t[k + 1 + j - 1]
    BY <1>2, <2>1
  <2> QED BY <2>1, <2>2
<1>5. Len(Suffix(t, k)) = Len(t) - k
  <2>1. CASE k + 1 <= Len(t)
    BY <1>2, <1>3, <2>1
  <2>2. CASE ~(k + 1 <= Len(t))
    <3>1. k = Len(t) /\ Len(t) - k = 0
      BY <1>1, <2>2
    <3> QED BY <1>2, <2>2, <3>1
  <2> QED BY <2>1, <2>2
<1> QED BY <1>2, <1>4, <1>5

LEMMA StartsWithIs ==
  ASSUME NEW t \in Seq(Char), NEW a \in Seq(Char), NEW k \in 0 .. Len(t)
  PROVE  StartsWith(Suffix(t, k), a) <=> At(t, k, a)
<1> DEFINE w == Suffix(t, k)
<1>1. Len(t) \in Nat /\ Len(a) \in Nat
  BY LenProperties
<1>2. w \in Seq(Char) /\ Len(w) = Len(t) - k /\ \A j \in 1 .. Len(t) - k : w[j] = t[k+j]
  BY SuffixIs
<1> HIDE DEF w
<1>3. StartsWith(w, a) <=> At(t, k, a)
  <2>1. CASE Len(a) <= Len(w)
    <3>1. SubSeq(w, 0 + 1, 0 + Len(a)) = a <=> \A j \in 1 .. Len(a) : w[0+j] = a[j]
      BY <1>1, <1>2, <2>1, PartIs
    <3>2. 0 + 1 = 1 /\ 0 + Len(a) = Len(a) /\ \A j \in 1 .. Len(a) : w[0+j] = t[k+j]
      BY <1>1, <1>2, <2>1
    <3>3. SubSeq(w, 1, Len(a)) = a <=> \A j \in 1 .. Len(a) : t[k+j] = a[j]
      BY <3>1, <3>2
    <3>4. k + Len(a) <= Len(t)
      BY <1>1, <1>2, <2>1
    <3> QED BY <2>1, <3>3, <3>4 DEF StartsWith, At
  <2>2. CASE ~(Len(a) <= Len(w))
    <3>1. ~(k + Len(a) <= Len(t))
      BY <1>1, <1>2, <2>2
    <3> QED BY <2>2, <3>1 DEF StartsWith, At
  <2> QED BY <2>1, <2>2
<1> QED BY <1>3 DEF w
\* What ReplacedFrom is: nothing at the end, b and the rest behind an occurrence, and a character
\* and the rest elsewhere.
LEMMA ReplacedFromIs ==
  ASSUME NEW t \in Seq(Char), NEW a \in Seq(Char), a # <<>>, NEW b \in Seq(Char),
         NEW k \in 0 .. Len(t)
  PROVE  /\ ReplacedFrom(t, k, a, b) \in Seq(Char)
         /\ k = Len(t) => ReplacedFrom(t, k, a, b) = <<>>
         /\ k < Len(t) /\ At(t, k, a) =>
              ReplacedFrom(t, k, a, b) = b \o ReplacedFrom(t, k + Len(a), a, b)
         /\ k < Len(t) /\ ~At(t, k, a) =>
              ReplacedFrom(t, k, a, b) = <<t[k+1]>> \o ReplacedFrom(t, k + 1, a, b)
<1> DEFINE last == Len(t)
           IsFrom(from) == from = [j \in 0 .. last |->
                                     IF j = last THEN <<>>
                                     ELSE IF StartsWith(Suffix(t, j), a) THEN b \o from[j + Len(a)]
                                     ELSE <<t[j + 1]>> \o from[j + 1]]
           next == [j \in 0 .. last-1 |-> IF At(t, j, a) THEN j + Len(a) ELSE j + 1]
           step == [j \in 0 .. last-1 |->
                      [v \in Seq(Char) |-> IF At(t, j, a) THEN b \o v ELSE <<t[j+1]>> \o v]]
<1>1. last \in Nat /\ Len(a) \in Nat \ {0} /\ <<>> \in Seq(Char)
  BY LenProperties, EmptySeq
<1>2. \A j \in 0 .. last-1 : t[j+1] \in Char /\ <<t[j+1]>> \in Seq(Char)
  <2> SUFFICES ASSUME NEW j \in 0 .. last-1 PROVE t[j+1] \in Char /\ <<t[j+1]>> \in Seq(Char)
    OBVIOUS
  <2>1. j+1 \in 1 .. Len(t)
    BY <1>1
  <2>2. t[j+1] \in Char
    BY <2>1, ElementOfSeq
  <2> QED BY <2>2
<1>3. \A j \in 0 .. last-1 : next[j] \in 1 .. last /\ j < next[j]
  BY <1>1 DEF At
<1>4. \A j \in 0 .. last-1 : step[j] \in [Seq(Char) -> Seq(Char)]
  <2>1. \A v \in Seq(Char) : b \o v \in Seq(Char)
    BY ConcatProperties
  <2>2. \A j \in 0 .. last-1 : \A v \in Seq(Char) : <<t[j+1]>> \o v \in Seq(Char)
    BY <1>2, ConcatProperties
  <2> QED BY <2>1, <2>2
<1>5. next \in [0 .. last-1 -> 1 .. last] /\ step \in [0 .. last-1 -> [Seq(Char) -> Seq(Char)]]
  BY <1>3, <1>4
<1>6. \A j \in 0 .. last-1 : StartsWith(Suffix(t, j), a) <=> At(t, j, a)
  BY <1>1, StartsWithIs
<1> DEFINE empty == <<>>
           texts == Seq(Char)
<1>7. PICK f \in [0 .. last -> texts] :
        f[last] = empty /\ \A j \in 0 .. last-1 : f[j] = step[j][f[next[j]]]
  <2>1. empty \in texts /\ step \in [0 .. last-1 -> [texts -> texts]]
    BY <1>1, <1>5
  <2>2. \A j \in 0 .. last-1 : j < next[j]
    BY <1>3
  <2> HIDE DEF next, step, empty, texts, last
  <2>3. \E f : Solves(f, 0, last, texts, empty, next, step)
    BY <1>1, <1>5, <2>1, <2>2, Recursion
  <2> QED BY <2>3 DEF Solves
<1>8. IsFrom(f)
  <2>1. ASSUME NEW j \in 0 .. last-1
        PROVE  f[j] = IF StartsWith(Suffix(t, j), a) THEN b \o f[j + Len(a)] ELSE <<t[j+1]>> \o f[j+1]
    <3>1. next[j] \in 0 .. last /\ next[j] = IF At(t, j, a) THEN j + Len(a) ELSE j + 1
      BY <1>1, <1>3
    <3>2. f[next[j]] \in Seq(Char)
      BY <1>7, <3>1
    <3>3. f[j] = IF At(t, j, a) THEN b \o f[next[j]] ELSE <<t[j+1]>> \o f[next[j]]
      BY <1>7, <3>2
    <3> QED BY <1>6, <3>1, <3>3
  <2>2. f = [j \in 0 .. last |-> f[j]]
    BY <1>7
  <2>3. ASSUME NEW j \in 0 .. last
        PROVE  f[j] = IF j = last THEN <<>>
                      ELSE IF StartsWith(Suffix(t, j), a) THEN b \o f[j + Len(a)] ELSE <<t[j + 1]>> \o f[j + 1]
    <3>1. CASE j = last
      BY <1>7, <3>1
    <3>2. CASE j # last
      <4>1. j \in 0 .. last-1
        BY <1>1, <3>2
      <4> QED BY <2>1, <3>2, <4>1
    <3> QED BY <3>1, <3>2
  <2> QED BY <2>2, <2>3, Zenon
<1> DEFINE g == CHOOSE from : IsFrom(from)
<1>9. IsFrom(g)
  BY <1>8
<1>10. \A j \in 0 .. last : ReplacedFrom(t, j, a, b) = g[j]
  BY DEF ReplacedFrom
<1> HIDE DEF g
<1>11. /\ g[last] = empty
       /\ \A j \in 0 .. last-1 : At(t, j, a) => g[j] = b \o g[j + Len(a)]
       /\ \A j \in 0 .. last-1 : ~At(t, j, a) => g[j] = <<t[j+1]>> \o g[j + 1]
  <2>1. \A j \in 0 .. last : g[j] = IF j = last THEN <<>>
                      ELSE IF StartsWith(Suffix(t, j), a) THEN b \o g[j + Len(a)] ELSE <<t[j + 1]>> \o g[j + 1]
    BY <1>9
  <2>2. last \in 0 .. last /\ \A j \in 0 .. last-1 : j \in 0 .. last /\ j # last
    BY <1>1
  <2>3. g[last] = empty
    BY <2>1, <2>2
  <2>4. ASSUME NEW j \in 0 .. last-1, At(t, j, a) PROVE g[j] = b \o g[j + Len(a)]
    BY <1>6, <2>1, <2>2, <2>4
  <2>5. ASSUME NEW j \in 0 .. last-1, ~At(t, j, a) PROVE g[j] = <<t[j+1]>> \o g[j + 1]
    BY <1>6, <2>1, <2>2, <2>5
  <2> QED BY <2>3, <2>4, <2>5
<1>hit. \A j \in 0 .. last-1 : At(t, j, a) => g[j] = b \o g[j + Len(a)]
  BY <1>11
<1>12. \A j \in 0 .. last : g[j] \in Seq(Char)
  <2> DEFINE S == {j \in 0 .. last : g[j] \in Seq(Char)}
  <2>1. last \in S
    <3>1. last \in 0 .. last /\ g[last] \in Seq(Char)
      <4>1. empty \in Seq(Char)
        BY <1>1
      <4> HIDE DEF empty, last
      <4> QED BY <1>1, <1>11, <4>1
    <3> QED BY <3>1
  <2>2. ASSUME NEW j \in 0 .. last-1, \A l \in j+1 .. last : l \in S PROVE j \in S
    <3>1. CASE At(t, j, a)
      <4>1. j + Len(a) \in j+1 .. last
        BY <1>1, <3>1 DEF At
      <4>2. g[j + Len(a)] \in Seq(Char)
        BY <2>2, <4>1
      <4>3. b \o g[j + Len(a)] \in Seq(Char)
        BY <4>2, ConcatProperties
      <4>4. g[j] = b \o g[j + Len(a)]
        BY <1>hit, <3>1
      <4>5. j \in 0 .. last
        BY <1>1
      <4> HIDE DEF last
      <4> QED BY <4>3, <4>4, <4>5
    <3>2. CASE ~At(t, j, a)
      <4>1. g[j + 1] \in Seq(Char)
        BY <1>1, <2>2
      <4>2. <<t[j+1]>> \o g[j + 1] \in Seq(Char)
        BY <1>2, <4>1, ConcatProperties
      <4>3. g[j] = <<t[j+1]>> \o g[j + 1] /\ j \in 0 .. last
        BY <1>1, <1>11, <3>2
      <4> HIDE DEF last
      <4> QED BY <4>2, <4>3
    <3> QED BY <3>1, <3>2
  <2> HIDE DEF S
  <2>3. \A j \in 0 .. last : j \in S
    BY <1>1, <2>1, <2>2, Downwards
  <2> QED BY <2>3 DEF S
<1>13. k < last /\ At(t, k, a) => k + Len(a) \in 0 .. last
  BY <1>1 DEF At
<1>14. k < last => k \in 0 .. last-1 /\ k + 1 \in 0 .. last
  BY <1>1
<1>15. k < last /\ At(t, k, a) =>
         ReplacedFrom(t, k, a, b) = b \o ReplacedFrom(t, k + Len(a), a, b)
  BY <1>10, <1>11, <1>13, <1>14
<1>16. k < last /\ ~At(t, k, a) =>
         ReplacedFrom(t, k, a, b) = <<t[k+1]>> \o ReplacedFrom(t, k + 1, a, b)
  BY <1>10, <1>11, <1>14
<1> HIDE DEF last
<1>17. ReplacedFrom(t, k, a, b) \in Seq(Char) /\ (k = last => ReplacedFrom(t, k, a, b) = empty)
  <2>1. k \in 0 .. last
    BY DEF last
  <2> HIDE DEF empty
  <2> QED BY <1>10, <1>11, <1>12, <2>1
<1> QED BY <1>15, <1>16, <1>17 DEF last
LEMMA ReplacedHit ==
  ASSUME NEW t \in Seq(Char), NEW a \in Seq(Char), a # <<>>, NEW b \in Seq(Char),
         NEW k \in 0 .. Len(t), k < Len(t), At(t, k, a)
  PROVE  ReplacedFrom(t, k, a, b) = b \o ReplacedFrom(t, k + Len(a), a, b)
BY ReplacedFromIs

LEMMA ReplacedMiss ==
  ASSUME NEW t \in Seq(Char), NEW a \in Seq(Char), a # <<>>, NEW b \in Seq(Char),
         NEW k \in 0 .. Len(t), k < Len(t), ~At(t, k, a)
  PROVE  ReplacedFrom(t, k, a, b) = <<t[k+1]>> \o ReplacedFrom(t, k + 1, a, b)
BY ReplacedFromIs

\* And what OccurrencesFrom is.
LEMMA OccurrencesFromIs ==
  ASSUME NEW t \in Seq(Char), NEW a \in Seq(Char), a # <<>>, NEW k \in 0 .. Len(t)
  PROVE  /\ OccurrencesFrom(t, k, a) \in Nat
         /\ k = Len(t) => OccurrencesFrom(t, k, a) = 0
         /\ k < Len(t) /\ At(t, k, a) =>
              OccurrencesFrom(t, k, a) = 1 + OccurrencesFrom(t, k + Len(a), a)
         /\ k < Len(t) /\ ~At(t, k, a) =>
              OccurrencesFrom(t, k, a) = OccurrencesFrom(t, k + 1, a)
<1> DEFINE last == Len(t)
           IsFrom(from) == from = [j \in 0 .. last |->
                                     IF j = last THEN 0
                                     ELSE IF StartsWith(Suffix(t, j), a) THEN 1 + from[j + Len(a)]
                                     ELSE from[j + 1]]
           next == [j \in 0 .. last-1 |-> IF At(t, j, a) THEN j + Len(a) ELSE j + 1]
           step == [j \in 0 .. last-1 |-> [v \in Nat |-> IF At(t, j, a) THEN 1 + v ELSE v]]
<1>1. last \in Nat /\ Len(a) \in Nat \ {0}
  BY LenProperties, EmptySeq
<1>2. \A j \in 0 .. last-1 : next[j] \in 1 .. last /\ j < next[j]
  BY <1>1 DEF At
<1>3. next \in [0 .. last-1 -> 1 .. last] /\ step \in [0 .. last-1 -> [Nat -> Nat]]
  BY <1>2
<1>4. \A j \in 0 .. last-1 : StartsWith(Suffix(t, j), a) <=> At(t, j, a)
  BY <1>1, StartsWithIs
<1>5. PICK f \in [0 .. last -> Nat] :
        f[last] = 0 /\ \A j \in 0 .. last-1 : f[j] = step[j][f[next[j]]]
  <2>1. \A j \in 0 .. last-1 : j < next[j]
    BY <1>2
  <2> HIDE DEF next, step, last
  <2>2. \E f : Solves(f, 0, last, Nat, 0, next, step)
    BY <1>1, <1>3, <2>1, Recursion
  <2> QED BY <2>2 DEF Solves
<1>6. IsFrom(f)
  <2>1. ASSUME NEW j \in 0 .. last-1
        PROVE  f[j] = IF StartsWith(Suffix(t, j), a) THEN 1 + f[j + Len(a)] ELSE f[j+1]
    <3>1. next[j] \in 0 .. last /\ next[j] = IF At(t, j, a) THEN j + Len(a) ELSE j + 1
      BY <1>1, <1>2
    <3>2. f[next[j]] \in Nat
      BY <1>5, <3>1
    <3>3. f[j] = IF At(t, j, a) THEN 1 + f[next[j]] ELSE f[next[j]]
      BY <1>5, <3>2
    <3> QED BY <1>4, <3>1, <3>3
  <2>2. f = [j \in 0 .. last |-> f[j]]
    BY <1>5
  <2>3. ASSUME NEW j \in 0 .. last
        PROVE  f[j] = IF j = last THEN 0
                      ELSE IF StartsWith(Suffix(t, j), a) THEN 1 + f[j + Len(a)] ELSE f[j + 1]
    <3>1. CASE j = last
      BY <1>5, <3>1
    <3>2. CASE j # last
      <4>1. j \in 0 .. last-1
        BY <1>1, <3>2
      <4> QED BY <2>1, <3>2, <4>1
    <3> QED BY <3>1, <3>2
  <2> QED BY <2>2, <2>3, Zenon
<1> DEFINE g == CHOOSE from : IsFrom(from)
<1>7. IsFrom(g)
  BY <1>6
<1>8. \A j \in 0 .. last : OccurrencesFrom(t, j, a) = g[j]
  BY DEF OccurrencesFrom
<1> HIDE DEF g
<1>9. /\ g[last] = 0
      /\ \A j \in 0 .. last-1 : At(t, j, a) => g[j] = 1 + g[j + Len(a)]
      /\ \A j \in 0 .. last-1 : ~At(t, j, a) => g[j] = g[j + 1]
  <2>1. \A j \in 0 .. last : g[j] = IF j = last THEN 0
                      ELSE IF StartsWith(Suffix(t, j), a) THEN 1 + g[j + Len(a)] ELSE g[j + 1]
    BY <1>7
  <2>2. last \in 0 .. last /\ \A j \in 0 .. last-1 : j \in 0 .. last /\ j # last
    BY <1>1
  <2>3. g[last] = 0
    BY <2>1, <2>2
  <2>4. ASSUME NEW j \in 0 .. last-1, At(t, j, a) PROVE g[j] = 1 + g[j + Len(a)]
    BY <1>4, <2>1, <2>2, <2>4
  <2>5. ASSUME NEW j \in 0 .. last-1, ~At(t, j, a) PROVE g[j] = g[j + 1]
    BY <1>4, <2>1, <2>2, <2>5
  <2> QED BY <2>3, <2>4, <2>5
<1>10. \A j \in 0 .. last : g[j] \in Nat
  <2> DEFINE S == {j \in 0 .. last : g[j] \in Nat}
  <2>1. last \in S
    BY <1>1, <1>9
  <2>2. ASSUME NEW j \in 0 .. last-1, \A l \in j+1 .. last : l \in S PROVE j \in S
    <3>1. CASE At(t, j, a)
      <4>1. j + Len(a) \in j+1 .. last
        BY <1>1, <3>1 DEF At
      <4>2. g[j + Len(a)] \in Nat
        BY <2>2, <4>1
      <4> QED BY <1>1, <1>9, <3>1, <4>2
    <3>2. CASE ~At(t, j, a)
      <4>1. g[j + 1] \in Nat
        BY <1>1, <2>2
      <4> QED BY <1>1, <1>9, <3>2, <4>1
    <3> QED BY <3>1, <3>2
  <2> HIDE DEF S
  <2>3. \A j \in 0 .. last : j \in S
    BY <1>1, <2>1, <2>2, Downwards
  <2> QED BY <2>3 DEF S
<1>11. k < last /\ At(t, k, a) => k + Len(a) \in 0 .. last
  BY <1>1 DEF At
<1>12. k < last => k \in 0 .. last-1 /\ k + 1 \in 0 .. last
  BY <1>1
<1>13. k < last /\ At(t, k, a) => OccurrencesFrom(t, k, a) = 1 + OccurrencesFrom(t, k + Len(a), a)
  BY <1>8, <1>9, <1>11, <1>12
<1>14. k < last /\ ~At(t, k, a) => OccurrencesFrom(t, k, a) = OccurrencesFrom(t, k + 1, a)
  BY <1>8, <1>9, <1>12
<1> HIDE DEF last
<1>15. OccurrencesFrom(t, k, a) \in Nat /\ (k = last => OccurrencesFrom(t, k, a) = 0)
  <2>1. k \in 0 .. last
    BY DEF last
  <2> QED BY <1>8, <1>9, <1>10, <2>1
<1> QED BY <1>13, <1>14, <1>15 DEF last

\* t after k characters is w after l.
SameAfter(t, k, w, l) ==
  Len(t) - k = Len(w) - l /\ \A j \in 1 .. Len(t) - k : t[k+j] = w[l+j]

LEMMA SameRest ==
  ASSUME NEW t \in Seq(Char), NEW w \in Seq(Char), NEW a \in Seq(Char), a # <<>>, NEW b \in Seq(Char),
         NEW k \in 0 .. Len(t), NEW l \in 0 .. Len(w), SameAfter(t, k, w, l)
  PROVE  ReplacedFrom(t, k, a, b) = ReplacedFrom(w, l, a, b)
<1> DEFINE S == {x \in 0 .. Len(t) : \A y \in 0 .. Len(w) :
                   SameAfter(t, x, w, y) => ReplacedFrom(t, x, a, b) = ReplacedFrom(w, y, a, b)}
<1>1. Len(t) \in Nat /\ Len(w) \in Nat /\ Len(a) \in Nat \ {0}
  BY LenProperties, EmptySeq
<1>2. ASSUME NEW x \in 0 .. Len(t)-1, \A z \in x+1 .. Len(t) : z \in S PROVE x \in S
  <2> SUFFICES ASSUME NEW y \in 0 .. Len(w), SameAfter(t, x, w, y)
               PROVE  ReplacedFrom(t, x, a, b) = ReplacedFrom(w, y, a, b)
    BY <1>1
  <2>1. x < Len(t) /\ x \in 0 .. Len(t) /\ y < Len(w) /\ Len(t) - x = Len(w) - y
    BY <1>1 DEF SameAfter
  <2>2. At(t, x, a) <=> At(w, y, a)
    <3>1. x + Len(a) <= Len(t) <=> y + Len(a) <= Len(w)
      BY <1>1, <2>1
    <3>2. x + Len(a) <= Len(t) => \A j \in 1 .. Len(a) : t[x+j] = w[y+j]
      BY <1>1, <2>1 DEF SameAfter
    <3> QED BY <3>1, <3>2 DEF At
  <2>3. CASE At(t, x, a)
    <3>1. x + Len(a) \in x+1 .. Len(t) /\ y + Len(a) \in 0 .. Len(w)
      BY <1>1, <2>1, <2>2, <2>3 DEF At
    <3>2. SameAfter(t, x + Len(a), w, y + Len(a))
      <4>1. Len(t) - (x + Len(a)) = Len(w) - (y + Len(a))
        BY <1>1, <2>1
      <4>2. ASSUME NEW j \in 1 .. Len(t) - (x + Len(a)) PROVE t[x + Len(a) + j] = w[y + Len(a) + j]
        <5>1. Len(a) + j \in 1 .. Len(t) - x /\ x + (Len(a) + j) = x + Len(a) + j
              /\ y + (Len(a) + j) = y + Len(a) + j
          BY <1>1
        <5>2. t[x + (Len(a) + j)] = w[y + (Len(a) + j)]
          BY <5>1 DEF SameAfter
        <5> QED BY <5>1, <5>2
      <4> QED BY <4>1, <4>2 DEF SameAfter
    <3>3. ReplacedFrom(t, x + Len(a), a, b) = ReplacedFrom(w, y + Len(a), a, b)
      BY <1>2, <3>1, <3>2
    <3>4. ReplacedFrom(t, x, a, b) = b \o ReplacedFrom(t, x + Len(a), a, b)
      BY <2>1, <2>3, ReplacedHit
    <3>5. ReplacedFrom(w, y, a, b) = b \o ReplacedFrom(w, y + Len(a), a, b)
      BY <2>1, <2>2, <2>3, ReplacedHit
    <3> QED BY <3>3, <3>4, <3>5
  <2>4. CASE ~At(t, x, a)
    <3>1. x + 1 \in x+1 .. Len(t) /\ y + 1 \in 0 .. Len(w)
      BY <1>1, <2>1
    <3>2. SameAfter(t, x + 1, w, y + 1)
      <4>1. Len(t) - (x + 1) = Len(w) - (y + 1)
        BY <1>1, <2>1
      <4>2. ASSUME NEW j \in 1 .. Len(t) - (x + 1) PROVE t[x + 1 + j] = w[y + 1 + j]
        <5>1. 1 + j \in 1 .. Len(t) - x /\ x + (1 + j) = x + 1 + j /\ y + (1 + j) = y + 1 + j
          BY <1>1
        <5>2. t[x + (1 + j)] = w[y + (1 + j)]
          BY <5>1 DEF SameAfter
        <5> QED BY <5>1, <5>2
      <4> QED BY <4>1, <4>2 DEF SameAfter
    <3>3. ReplacedFrom(t, x + 1, a, b) = ReplacedFrom(w, y + 1, a, b)
      BY <1>2, <3>1, <3>2
    <3>4. t[x+1] = w[y+1]
      BY <1>1, <2>1 DEF SameAfter
    <3>5. ReplacedFrom(t, x, a, b) = <<t[x+1]>> \o ReplacedFrom(t, x + 1, a, b)
      BY <2>1, <2>4, ReplacedMiss
    <3>6. ReplacedFrom(w, y, a, b) = <<w[y+1]>> \o ReplacedFrom(w, y + 1, a, b)
      BY <2>1, <2>2, <2>4, ReplacedMiss
    <3> QED BY <3>3, <3>4, <3>5, <3>6
  <2> QED BY <2>3, <2>4
<1>3. Len(t) \in S
  <2> SUFFICES ASSUME NEW y \in 0 .. Len(w), SameAfter(t, Len(t), w, y)
               PROVE  ReplacedFrom(t, Len(t), a, b) = ReplacedFrom(w, y, a, b)
    BY <1>1
  <2>1. y = Len(w) /\ Len(t) \in 0 .. Len(t)
    BY <1>1 DEF SameAfter
  <2>2. ReplacedFrom(t, Len(t), a, b) = <<>>
    BY <2>1, ReplacedFromIs
  <2>3. ReplacedFrom(w, y, a, b) = <<>>
    BY <2>1, ReplacedFromIs
  <2> QED BY <2>2, <2>3
<1> HIDE DEF S
<1>4. \A x \in 0 .. Len(t) : x \in S
  BY <1>1, <1>2, <1>3, Downwards
<1> QED BY <1>4 DEF S
\* Where a begins in t, from k on.
Hits(t, k, a) == {x \in k .. Len(t) - Len(a) : At(t, x, a)}

\* Where there is nothing to replace the rest stays as it is.
LEMMA NoneLeft ==
  ASSUME NEW t \in Seq(Char), NEW a \in Seq(Char), a # <<>>, NEW b \in Seq(Char),
         NEW k \in 0 .. Len(t), Hits(t, k, a) = {}
  PROVE  ReplacedFrom(t, k, a, b) = Suffix(t, k)
<1> DEFINE S == {x \in 0 .. Len(t) : Hits(t, x, a) = {} => ReplacedFrom(t, x, a, b) = Suffix(t, x)}
<1>1. Len(t) \in Nat /\ Len(a) \in Nat \ {0}
  BY LenProperties, EmptySeq
<1>2. Len(t) \in S
  <2>1. Len(t) \in 0 .. Len(t)
    BY <1>1
  <2>2. ReplacedFrom(t, Len(t), a, b) = <<>>
    BY <2>1, ReplacedFromIs
  <2>3. Suffix(t, Len(t)) = <<>>
    BY <1>1, SubSeqEmpty DEF Suffix
  <2> QED BY <2>1, <2>2, <2>3
<1>3. ASSUME NEW x \in 0 .. Len(t)-1, \A z \in x+1 .. Len(t) : z \in S PROVE x \in S
  <2> SUFFICES ASSUME Hits(t, x, a) = {} PROVE ReplacedFrom(t, x, a, b) = Suffix(t, x)
    BY <1>1
  <2>1. x \in 0 .. Len(t) /\ x < Len(t) /\ x + 1 \in x+1 .. Len(t)
    BY <1>1
  <2>2. ~At(t, x, a)
    <3>1. At(t, x, a) => x \in x .. Len(t) - Len(a)
      BY <1>1 DEF At
    <3> QED BY <3>1 DEF Hits
  <2>3. Hits(t, x + 1, a) = {}
    <3> SUFFICES ASSUME NEW y \in x + 1 .. Len(t) - Len(a), At(t, y, a) PROVE FALSE
      BY DEF Hits
    <3>1. y \in x .. Len(t) - Len(a)
      BY <1>1
    <3>2. y \in Hits(t, x, a)
      BY <3>1 DEF Hits
    <3> QED BY <3>2
  <2>4. ReplacedFrom(t, x + 1, a, b) = Suffix(t, x + 1)
    BY <1>3, <2>1, <2>3
  <2>5. ReplacedFrom(t, x, a, b) = <<t[x+1]>> \o ReplacedFrom(t, x + 1, a, b)
    BY <2>1, <2>2, ReplacedMiss
  <2>6. SubSeq(t, x + 1, Len(t)) = <<t[x+1]>> \o SubSeq(t, (x + 1) + 1, Len(t))
    <3>1. x + 1 \in 1 .. Len(t) /\ Len(t) \in x + 1 .. Len(t)
      BY <1>1
    <3> QED BY <3>1, SubSeqRecursiveFirst
  <2> QED BY <2>4, <2>5, <2>6 DEF Suffix
<1> HIDE DEF S
<1>4. \A x \in 0 .. Len(t) : x \in S
  BY <1>1, <1>2, <1>3, Downwards
<1> QED BY <1>4 DEF S

LEMMA AtApart ==
  ASSUME NEW t \in Seq(Char), NEW a \in Seq(Char), NoOverlap(a), NEW k \in Nat, NEW l \in Nat,
         At(t, k, a), At(t, l, a), k < l
  PROVE  k + Len(a) <= l
<1>1. Len(a) \in Nat
  BY LenProperties
<1> SUFFICES ASSUME l < k + Len(a) PROVE FALSE
  BY <1>1
<1> DEFINE d == l - k
<1>2. d \in 1 .. Len(a) - 1
  BY <1>1
<1>3. PICK j \in 1 .. Len(a) - d : a[j+d] # a[j]
  BY <1>2 DEF NoOverlap
<1>4. j \in 1 .. Len(a) /\ j+d \in 1 .. Len(a) /\ k+(j+d) = l+j
  BY <1>1, <1>2
<1>5. t[l+j] = a[j] /\ t[k+(j+d)] = a[j+d]
  BY <1>4 DEF At
<1> QED BY <1>3, <1>4, <1>5

\* Occurrences that do not overlap are counted one by one.
LEMMA OccurrencesAre ==
  ASSUME NEW t \in Seq(Char), NEW a \in Seq(Char), NoOverlap(a), NEW k \in 0 .. Len(t)
  PROVE  OccurrencesFrom(t, k, a) = Cardinality(Hits(t, k, a))
<1> DEFINE S == {x \in 0 .. Len(t) : OccurrencesFrom(t, x, a) = Cardinality(Hits(t, x, a))}
<1>1. Len(t) \in Nat /\ a # <<>> /\ Len(a) \in Nat \ {0}
  BY LenProperties, EmptySeq DEF NoOverlap
<1>2. Len(t) \in S
  <2>1. Len(t) \in 0 .. Len(t)
    BY <1>1
  <2>2. OccurrencesFrom(t, Len(t), a) = 0
    BY <1>1, <2>1, OccurrencesFromIs
  <2>3. Hits(t, Len(t), a) = {}
    BY <1>1 DEF Hits
  <2>4. Cardinality(Hits(t, Len(t), a)) = 0
    BY <2>3, FS_EmptySet
  <2> QED BY <2>1, <2>2, <2>4
<1>3. ASSUME NEW x \in 0 .. Len(t)-1, \A z \in x+1 .. Len(t) : z \in S PROVE x \in S
  <2>1. x \in 0 .. Len(t) /\ x < Len(t) /\ x + 1 \in x+1 .. Len(t) /\ x \in Nat
    BY <1>1
  <2>2. CASE At(t, x, a)
    <3> DEFINE rest == Hits(t, x + Len(a), a)
    <3>1. x + Len(a) \in x+1 .. Len(t) /\ x \in x .. Len(t) - Len(a)
      BY <1>1, <2>1, <2>2 DEF At
    <3>2. Hits(t, x, a) = rest \cup {x}
      <4>1. ASSUME NEW y \in Hits(t, x, a), y # x PROVE y \in rest
        <5>1. y \in Nat /\ x < y /\ At(t, y, a) /\ y \in x .. Len(t) - Len(a)
          BY <1>1, <2>1, <4>1 DEF Hits
        <5>2. x + Len(a) <= y
          BY <2>1, <2>2, <5>1, AtApart
        <5> QED BY <1>1, <2>1, <5>1, <5>2 DEF Hits
      <4>2. ASSUME NEW y \in rest PROVE y \in Hits(t, x, a)
        BY <1>1, <2>1 DEF Hits
      <4>3. x \in Hits(t, x, a)
        BY <2>2, <3>1 DEF Hits
      <4> HIDE DEF rest
      <4> QED BY <4>1, <4>2, <4>3
    <3>3. x \notin rest
      BY <1>1, <2>1 DEF Hits
    <3>4. IsFiniteSet(rest)
      <4>1. x + Len(a) \in Int /\ Len(t) - Len(a) \in Int
        BY <1>1, <2>1
      <4>2. IsFiniteSet(x + Len(a) .. Len(t) - Len(a))
        BY <4>1, FS_Interval
      <4> QED BY <4>2, FS_Subset DEF Hits
    <3>5. OccurrencesFrom(t, x + Len(a), a) = Cardinality(rest)
      BY <1>3, <3>1
    <3> HIDE DEF rest
    <3>6. Cardinality(Hits(t, x, a)) = Cardinality(rest) + 1 /\ Cardinality(rest) \in Nat
      BY <3>2, <3>3, <3>4, FS_AddElement, FS_CardinalityType
    <3>7. OccurrencesFrom(t, x, a) = 1 + OccurrencesFrom(t, x + Len(a), a)
      BY <1>1, <2>1, <2>2, OccurrencesFromIs
    <3> QED BY <2>1, <3>5, <3>6, <3>7
  <2>3. CASE ~At(t, x, a)
    <3>1. Hits(t, x, a) = Hits(t, x + 1, a)
      BY <1>1, <2>1, <2>3 DEF Hits
    <3>2. OccurrencesFrom(t, x + 1, a) = Cardinality(Hits(t, x + 1, a))
      BY <1>3, <2>1
    <3>3. OccurrencesFrom(t, x, a) = OccurrencesFrom(t, x + 1, a)
      BY <1>1, <2>1, <2>3, OccurrencesFromIs
    <3> QED BY <2>1, <3>1, <3>2, <3>3
  <2> QED BY <2>2, <2>3
<1> HIDE DEF S
<1>4. \A x \in 0 .. Len(t) : x \in S
  BY <1>1, <1>2, <1>3, Downwards
<1> QED BY <1>4 DEF S

\* The occurrences in a buffer are those in its text.
LEMMA AheadHits ==
  ASSUME NEW len, NEW u, NEW buf, Holds(buf, len, u), NEW a \in Seq(Char), NEW x \in Nat
  PROVE  /\ Ahead(buf, x, u, a) = Hits(Bytes(buf, 0, u), x, a)
         /\ \A k \in Nat : k + Len(a) <= u => (SameAt(buf, k, a) <=> At(Bytes(buf, 0, u), k, a))
<1> DEFINE t == Bytes(buf, 0, u)
<1>1. u \in Nat /\ len \in Nat /\ u <= len /\ DOMAIN buf = 0 .. len-1 /\ Len(a) \in Nat
  BY LenProperties DEF Holds, Array
<1>2. Len(t) = u /\ \A k \in 1 .. u : t[k] = buf[k-1]
  BY BytesText
<1> HIDE DEF t
<1>3. ASSUME NEW k \in Nat, k + Len(a) <= u PROVE SameAt(buf, k, a) <=> At(t, k, a)
  <2>1. ASSUME NEW j \in 1 .. Len(a) PROVE k + j - 1 \in DOMAIN buf /\ t[k+j] = buf[k+j-1]
    <3>1. k + j \in 1 .. u /\ (k + j) - 1 = k + j - 1 /\ k + j - 1 \in 0 .. len-1
      BY <1>1, <1>3
    <3> QED BY <1>1, <1>2, <3>1
  <2> QED BY <1>2, <1>3, <2>1 DEF SameAt, At
<1>4. \A k \in x .. u - Len(a) : SameAt(buf, k, a) <=> At(t, k, a)
  BY <1>1, <1>3
<1>5. Ahead(buf, x, u, a) = Hits(t, x, a)
  BY <1>2, <1>4 DEF Ahead, Hits
<1> QED BY <1>3, <1>5 DEF t
-----------------------------------------------------------------------------
(* StringBuffer implements TextBuffer. *)

\* The operators of the instance are those of TextFunctions.
LEMMA SameFunctions ==
  ASSUME NEW t, NEW a, NEW b
  PROVE  /\ Buffer!Trimmed(t) = Trimmed(t)
         /\ Buffer!Replaced(t, a, b) = ReplacedFrom(t, 0, a, b)
         /\ Buffer!Occurrences(t, a) = OccurrencesFrom(t, 0, a)
BY Zenon DEF Buffer!Trimmed, Trimmed, Buffer!IsSpace, IsSpace,
       Buffer!Replaced, Buffer!ReplacedFrom, ReplacedFrom, Buffer!Occurrences, Buffer!OccurrencesFrom,
       OccurrencesFrom, Buffer!StartsWith, StartsWith, Buffer!Suffix, Suffix

\* A text is told by its bytes.
LEMMA TextEqual ==
  ASSUME NEW len, NEW u, NEW buf, Holds(buf, len, u), NEW t \in Seq(Char), Len(t) = u,
         \A k \in 1 .. u : buf[k-1] = t[k]
  PROVE  Bytes(buf, 0, u) = t
<1>1. /\ Bytes(buf, 0, u) \in Seq(Char) /\ Len(Bytes(buf, 0, u)) = u
      /\ \A k \in 1 .. u : Bytes(buf, 0, u)[k] = buf[k-1]
  BY BytesText
<1> QED BY <1>1, SeqEqual

LEMMA NoBytes ==
  ASSUME NEW buf
  PROVE  Bytes(buf, 0, 0) = <<>>
BY DEF Bytes

LEMMA InitText == Init => Buffer!Init
<1> SUFFICES ASSUME Init PROVE Buffer!Init
  OBVIOUS
<1>1. Shown = <<>>
  BY NoBytes DEF Shown, Init
<1> QED BY <1>1 DEF Init, Buffer!Init

\* Calls that leave the empty text.
LEMMA EmptyText ==
  ASSUME Create \/ Free \/ Clear
  PROVE  Buffer!Empty
<1>1. state' # "replace" /\ used' = 0 /\ n' = 0
  BY DEF Create, Free, Clear
<1>2. Shown' = <<>>
  BY <1>1, NoBytes DEF Shown
<1>3. call' \in {<<"clear">>, <<"free">>, <<"create">>}
  BY DEF Create, Free, Clear
<1> QED BY <1>1, <1>2, <1>3 DEF Buffer!Empty
LEMMA AppendedText ==
  ASSUME NEW len, NEW u, NEW buf, Holds(buf, len, u), NEW t \in Texts, Appended(buf, len, u, t)
  PROVE  Bytes(buffer', 0, used') = Bytes(buf, 0, u) \o t
<1> DEFINE l == Grown(len, u, t)
           old == Bytes(buf, 0, u)
<1>1. t \in Seq(Char) /\ Len(t) \in Nat
  BY TextsAssumption, LenProperties
<1>2. len \in Nat /\ u \in Nat /\ u <= len
  BY DEF Holds
<1>3. l \in Nat /\ len <= l /\ u + Len(t) < l
  BY <1>1, <1>2, GrownIs
<1>4. buffer' = Printed(Realloc(buf, l), u, l-u, t) /\ used' = u + Len(t)
  BY DEF Appended
<1> HIDE DEF l
<1>5. /\ Holds(buffer', l, u + Len(t))
      /\ \A k \in 0 .. (u + Len(t)) - 1 : buffer'[k] = IF k < u THEN buf[k] ELSE t[k-u+1]
  BY <1>1, <1>2, <1>3, <1>4, AppendIs
<1>6. old \in Seq(Char) /\ Len(old) = u /\ \A k \in 1 .. u : old[k] = buf[k-1]
  BY BytesText
<1> HIDE DEF old
<1>7. /\ old \o t \in Seq(Char) /\ Len(old \o t) = u + Len(t)
      /\ \A k \in 1 .. u + Len(t) : (old \o t)[k] = IF k <= u THEN old[k] ELSE t[k-u]
  BY <1>1, <1>6, ConcatProperties
<1>8. ASSUME NEW k \in 1 .. u + Len(t) PROVE buffer'[k-1] = (old \o t)[k]
  <2>1. k-1 \in 0 .. (u + Len(t)) - 1 /\ (k-1) - u + 1 = k-u /\ (k-1 < u <=> k <= u)
    BY <1>1, <1>2
  <2>2. buffer'[k-1] = IF k <= u THEN buf[k-1] ELSE t[k-u]
    BY <1>5, <2>1
  <2>3. k <= u => old[k] = buf[k-1]
    BY <1>2, <1>6
  <2> QED BY <1>7, <2>2, <2>3
<1>9. Bytes(buffer', 0, u + Len(t)) = old \o t
  BY <1>5, <1>7, <1>8, TextEqual
<1> QED BY <1>4, <1>9 DEF old

LEMMA NewText ==
  ASSUME New
  PROVE  Buffer!New
<1>1. PICK t \in Texts : Appended(Ctor(STRLEN).buffer, STRLEN, 0, t) /\ call' = <<"new", t>>
  BY DEF New
<1>2. Holds(Ctor(STRLEN).buffer, STRLEN, 0)
  BY SizesAssumption, CtorIs
<1>3. Bytes(buffer', 0, used') = Bytes(Ctor(STRLEN).buffer, 0, 0) \o t
  BY <1>1, <1>2, AppendedText
<1>4. Bytes(Ctor(STRLEN).buffer, 0, 0) \o t = t
  <2>1. t \in Seq(Char)
    BY TextsAssumption
  <2> QED BY <2>1, NoBytes, ConcatEmptySeq
<1>5. Shown' = t /\ n' = 0
  BY <1>3, <1>4 DEF Shown, New
<1> QED BY <1>1, <1>5 DEF Buffer!New

LEMMA AppendedShown ==
  ASSUME BufferInv, AppendText
  PROVE  Buffer!AppendText
<1>1. PICK t \in Texts : Appended(buffer, length, used, t) /\ call' = <<"append", t>>
  BY DEF AppendText
<1>2. Holds(buffer, length, used) /\ state = "ready" /\ state' = state /\ n' = 0
  BY DEF AppendText, BufferInv
<1>3. Bytes(buffer', 0, used') = Bytes(buffer, 0, used) \o t
  BY <1>1, <1>2, AppendedText
<1>4. Shown' = Shown \o t
  BY <1>2, <1>3 DEF Shown
<1> QED BY <1>1, <1>2, <1>4 DEF Buffer!AppendText

\* r begins with x bytes of buf, from y on.
Moved(r, buf, y, x) == \A k \in 0 .. x-1 : r[k] = buf[y+k]

\* A part of a buffer, moved to the front of a buffer, is that part of the text.
LEMMA PartText ==
  ASSUME NEW len, NEW u, NEW buf, Holds(buf, len, u), NEW x \in Nat, NEW y \in Nat, y + x <= u,
         NEW l, NEW r, Holds(r, l, x), Moved(r, buf, y, x)
  PROVE  Bytes(r, 0, x) = SubSeq(Bytes(buf, 0, u), y + 1, y + x)
<1> DEFINE t == Bytes(buf, 0, u)
           w == Bytes(r, 0, x)
<1>1. t \in Seq(Char) /\ Len(t) = u /\ \A k \in 1 .. u : t[k] = buf[k-1]
  BY BytesText
<1>2. w \in Seq(Char) /\ Len(w) = x /\ \A k \in 1 .. x : w[k] = r[k-1]
  BY BytesText
<1>3. u \in Nat
  BY DEF Holds
<1> HIDE DEF t, w
<1>4. ASSUME NEW j \in 1 .. Len(w) PROVE t[y+j] = w[j]
  <2>1. j \in 1 .. x /\ y+j \in 1 .. u /\ j-1 \in 0 .. x-1 /\ y+(j-1) = (y+j)-1
    BY <1>2, <1>3
  <2>2. w[j] = r[j-1] /\ r[j-1] = buf[y+(j-1)] /\ t[y+j] = buf[(y+j)-1]
    BY <1>1, <1>2, <2>1 DEF Moved
  <2> QED BY <2>1, <2>2
<1>5. SubSeq(t, y + 1, y + Len(w)) = w
  BY <1>1, <1>2, <1>4, PartIs
<1> QED BY <1>2, <1>5 DEF t, w

LEMMA DeleteText ==
  ASSUME BufferInv, Delete
  PROVE  Buffer!Delete \/ DeleteAtEnd
<1>1. PICK index \in 0 .. used : /\ used' = index /\ buffer' = Memcpy(buffer, index, <<NUL>>)
                               /\ call' = <<"delete", index>>
  BY DEF Delete
<1>2. Holds(buffer, length, used) /\ used < length /\ state = "ready" /\ state' = state /\ n' = 0
  BY DEF Delete, BufferInv
<1>3. used \in Nat /\ length \in Nat /\ index \in Nat /\ buffer \in Array(length)
  BY <1>2 DEF Holds
<1>4. Holds(buffer', length, index)
  BY <1>1, <1>2, Ended
<1>5. Moved(buffer', buffer, 0, index)
  <2>1. \A k \in 0 .. length-1 : buffer'[k] = IF k = index THEN NUL ELSE buffer[k]
    <3> DEFINE r == Memcpy(buffer, index, <<NUL>>)
    <3>1. \A k \in 0 .. length-1 : r[k] = IF k = index THEN NUL ELSE buffer[k]
      BY <1>1, <1>2, <1>3, NulWritten
    <3>2. buffer' = r
      BY <1>1
    <3> HIDE DEF r
    <3> QED BY <3>1, <3>2
  <2>2. \A k \in 0 .. index-1 : k \in 0 .. length-1 /\ k # index /\ 0+k = k
    BY <1>1, <1>2, <1>3
  <2> QED BY <2>1, <2>2 DEF Moved
<1>6. Bytes(buffer', 0, index) = SubSeq(Bytes(buffer, 0, used), 0 + 1, 0 + index)
  <2>1. index + 0 <= used /\ 0 \in Nat
    BY <1>3
  <2> QED BY <1>2, <1>3, <1>4, <1>5, <2>1, PartText
<1>7. 0 + 1 = 1 /\ 0 + index = index
  BY <1>3
<1>8. Shown = Bytes(buffer, 0, used) /\ Shown' = Bytes(buffer', 0, index)
  BY <1>1, <1>2 DEF Shown
<1>9. Shown' = SubSeq(Shown, 1, index)
  BY <1>6, <1>7, <1>8
<1>10. Len(Shown) = used /\ Shown \in Seq(Char)
  BY <1>2, <1>8, BytesText
<1>11. CASE index = used
  <2>1. Shown' = Shown
    BY <1>9, <1>10, <1>11, SubSeqFull
  <2> QED BY <1>1, <1>2, <1>10, <1>11, <2>1 DEF DeleteAtEnd
<1>12. CASE index # used
  <2>1. index \in 0 .. Len(Shown) - 1
    BY <1>1, <1>3, <1>10, <1>12
  <2> QED BY <1>1, <1>2, <1>9, <2>1 DEF Buffer!Delete
<1> QED BY <1>11, <1>12

\* Trimming takes the white space before the first and after the last character that is none.
LEMMA TrimmedIs ==
  ASSUME NEW t \in Seq(Char), NEW y \in Nat, NEW e \in Nat, y <= e, e <= Len(t),
         \A k \in 1 .. y : IsSpace(t[k]), \A k \in e+1 .. Len(t) : IsSpace(t[k]),
         y < e => ~IsSpace(t[y+1]) /\ ~IsSpace(t[e])
  PROVE  Trimmed(t) = SubSeq(t, y + 1, e)
<1> DEFINE kept == {k \in DOMAIN t : ~IsSpace(t[k])}
<1>1. Len(t) \in Nat /\ DOMAIN t = 1 .. Len(t)
  BY LenProperties
<1>2. kept \subseteq y+1 .. e
  <2> SUFFICES ASSUME NEW k \in 1 .. Len(t), k \notin y+1 .. e PROVE IsSpace(t[k])
    BY <1>1
  <2> QED BY <1>1
<1>3. CASE y = e
  <2>1. kept = {}
    BY <1>2, <1>3
  <2>2. Trimmed(t) = <<>>
    BY <2>1, Zenon DEF Trimmed
  <2>3. SubSeq(t, y + 1, e) = <<>>
    <3>1. y + 1 > e
      BY <1>3
    <3> QED BY <3>1, <1>3, <1>1, SubSeqEmpty
  <2> QED BY <2>2, <2>3
<1>4. CASE y < e
  <2>1. y + 1 \in kept /\ e \in kept
    BY <1>1, <1>4
  <2> HIDE DEF kept
  <2>2. \A k \in kept : k \in Int /\ y + 1 <= k /\ k <= e
    BY <1>2
  <2>3. (CHOOSE k \in kept : \A j \in kept : k <= j) = y + 1
    <3> DEFINE first == CHOOSE k \in kept : \A j \in kept : k <= j
    <3>1. first \in kept /\ \A j \in kept : first <= j
      BY <2>1, <2>2
    <3> HIDE DEF first
    <3>2. first = y + 1
      BY <2>1, <2>2, <3>1
    <3> QED BY <3>2 DEF first
  <2>4. (CHOOSE k \in kept : \A j \in kept : k >= j) = e
    <3> DEFINE last == CHOOSE k \in kept : \A j \in kept : k >= j
    <3>1. last \in kept /\ \A j \in kept : last >= j
      BY <2>1, <2>2
    <3> HIDE DEF last
    <3>2. last = e
      BY <2>1, <2>2, <3>1
    <3> QED BY <3>2 DEF last
  <2>5. Trimmed(t) = IF kept = {} THEN <<>>
                     ELSE SubSeq(t, CHOOSE k \in kept : \A j \in kept : k <= j,
                                    CHOOSE k \in kept : \A j \in kept : k >= j)
    BY Zenon DEF Trimmed, kept
  <2> QED BY <2>1, <2>3, <2>4, <2>5
<1> QED BY <1>3, <1>4

LEMMA TrimText ==
  ASSUME BufferInv, Trim
  PROVE  Buffer!Trim
<1> DEFINE t == Bytes(buffer, 0, used)
<1>1. PICK u \in 0 .. used : \E l \in 0 .. u :
           /\ Holds(buffer', length, u-l) /\ buffer'[u-l] = NUL /\ u-l < length /\ used' = u-l
           /\ \A k \in 0 .. (u-l)-1 : buffer'[k] = buffer[l+k]
           /\ \A k \in 0 .. l-1 : IsSpace(buffer[k])
           /\ \A k \in u .. used-1 : IsSpace(buffer[k])
           /\ l < u => ~IsSpace(buffer[l]) /\ ~IsSpace(buffer[u-1])
  BY TrimIs
<1>2. PICK l \in 0 .. u :
           /\ Holds(buffer', length, u-l) /\ used' = u-l
           /\ \A k \in 0 .. (u-l)-1 : buffer'[k] = buffer[l+k]
           /\ \A k \in 0 .. l-1 : IsSpace(buffer[k])
           /\ \A k \in u .. used-1 : IsSpace(buffer[k])
           /\ l < u => ~IsSpace(buffer[l]) /\ ~IsSpace(buffer[u-1])
  BY <1>1
<1>3. state = "ready" /\ state' = state /\ call' = <<"trim">> /\ n' = 0
  BY DEF Trim
<1>4. Holds(buffer, length, used) /\ used \in Nat
  BY <1>3 DEF BufferInv, Holds
<1>5. t \in Seq(Char) /\ Len(t) = used /\ \A k \in 1 .. used : t[k] = buffer[k-1]
  BY <1>4, BytesText
<1>6. u \in Nat /\ l \in Nat /\ l <= u /\ u <= used /\ u-l \in Nat /\ l + (u-l) <= used /\ l + (u-l) = u
  BY <1>4
<1> HIDE DEF t
<1>7. Trimmed(t) = SubSeq(t, l + 1, u)
  <2>1. \A k \in 1 .. l : k \in 1 .. used /\ k-1 \in 0 .. l-1
    BY <1>4, <1>6
  <2>2. \A k \in 1 .. l : IsSpace(t[k])
    BY <1>2, <1>5, <2>1
  <2>3. \A k \in u+1 .. Len(t) : k \in 1 .. used /\ k-1 \in u .. used-1
    BY <1>4, <1>5, <1>6
  <2>4. \A k \in u+1 .. Len(t) : IsSpace(t[k])
    BY <1>2, <1>5, <2>3
  <2>5. l < u => ~IsSpace(t[l+1]) /\ ~IsSpace(t[u])
    <3>1. l < u => l+1 \in 1 .. used /\ (l+1)-1 = l /\ u \in 1 .. used
      BY <1>4, <1>6
    <3> QED BY <3>1, <1>2, <1>5
  <2> QED BY <1>5, <1>6, <2>2, <2>4, <2>5, TrimmedIs
<1>8. Bytes(buffer', 0, u-l) = SubSeq(t, l + 1, l + (u-l))
  <2> DEFINE x == u - l
  <2>1. /\ Holds(buffer', length, x) /\ Moved(buffer', buffer, l, x)
        /\ x \in Nat /\ l \in Nat /\ l + x <= used
    BY <1>2, <1>6 DEF Moved
  <2> HIDE DEF x
  <2>2. Bytes(buffer', 0, x) = SubSeq(Bytes(buffer, 0, used), l + 1, l + x)
    BY <1>4, <2>1, PartText
  <2> QED BY <2>2 DEF x, t
<1>9. Shown = t /\ Shown' = Bytes(buffer', 0, u-l)
  BY <1>2, <1>3 DEF Shown, t
<1>10. Shown' = Trimmed(Shown)
  BY <1>6, <1>7, <1>8, <1>9
<1>11. Shown' = Buffer!Trimmed(Shown)
  BY <1>10, SameFunctions
<1> QED BY <1>3, <1>11 DEF Buffer!Trim

\* A replacement in progress: what is before i has been replaced, what is after it will be.

\* r holds b at x.
Written(r, x, b) == \A j \in 1 .. Len(b) : r[x+j-1] = b[j]

\* A buffer with the first x bytes of another one, and b after them.
LEMMA JoinedText ==
  ASSUME NEW len, NEW buf, NEW x \in Nat, Holds(buf, len, x), NEW b \in Seq(Char),
         NEW u \in Nat, u = x + Len(b), NEW l, NEW r, Holds(r, l, u), Moved(r, buf, 0, x), Written(r, x, b)
  PROVE  Bytes(r, 0, u) = Bytes(buf, 0, x) \o b
<1> DEFINE old == Bytes(buf, 0, x)
<1>1. old \in Seq(Char) /\ Len(old) = x /\ \A k \in 1 .. x : old[k] = buf[k-1]
  BY BytesText
<1> HIDE DEF old
<1>2. Len(b) \in Nat
  BY LenProperties
<1>3. /\ old \o b \in Seq(Char) /\ Len(old \o b) = x + Len(b)
      /\ \A k \in 1 .. x + Len(b) : (old \o b)[k] = IF k <= x THEN old[k] ELSE b[k-x]
  BY <1>1, ConcatProperties
<1>4. ASSUME NEW k \in 1 .. x + Len(b) PROVE r[k-1] = (old \o b)[k]
  <2>1. CASE k <= x
    <3>1. k \in 1 .. x /\ k-1 \in 0 .. x-1 /\ 0 + (k-1) = k-1
      BY <1>2, <2>1
    <3> QED BY <1>1, <1>3, <2>1, <3>1 DEF Moved
  <2>2. CASE ~(k <= x)
    <3>1. k-x \in 1 .. Len(b) /\ x + (k-x) - 1 = k-1
      BY <1>2, <2>2
    <3>2. r[k-1] = b[k-x]
      BY <3>1 DEF Written
    <3> QED BY <1>3, <2>2, <3>2
  <2> QED BY <2>1, <2>2
<1> DEFINE new == old \o b
<1>5. Holds(r, l, u) /\ new \in Seq(Char) /\ Len(new) = u /\ \A k \in 1 .. u : r[k-1] = new[k]
  BY <1>3, <1>4
<1> HIDE DEF new
<1>6. Bytes(r, 0, u) = new
  BY <1>5, TextEqual
<1> QED BY <1>6 DEF new, old

\* What ReplaceStep starts from.
LEMMA InReplace ==
  ASSUME PatternsApart, SafeInv, state = "replace"
  PROVE  /\ Holds(buffer, length, used) /\ used < length /\ length \in Nat /\ used \in Nat
         /\ i \in Nat /\ i <= used
         /\ Old \in Seq(Char) /\ By \in Seq(Char) /\ NoOverlap(Old) /\ Old # <<>>
         /\ Len(Old) \in Nat \ {0} /\ Len(By) \in Nat
         /\ Bytes(buffer, 0, used) \in Seq(Char) /\ Len(Bytes(buffer, 0, used)) = used
         /\ Shown = Bytes(buffer, 0, i) \o ReplacedFrom(Bytes(buffer, 0, used), i, Old, By)
<1>1. Holds(buffer, length, used) /\ i \in 0 .. used /\ Old \in Patterns /\ By \in Replacements
      /\ used < length
  BY DEF SafeInv, BufferInv, ReplaceInv
<1>2. used \in Nat /\ length \in Nat
  BY <1>1 DEF Holds
<1>3. Old \in Seq(Char) /\ By \in Seq(Char) /\ NoOverlap(Old)
  BY <1>1, TextsAssumption DEF PatternsApart
<1>4. Old # <<>>
  BY <1>3 DEF NoOverlap
<1>5. Len(Old) \in Nat \ {0} /\ Len(By) \in Nat
  BY <1>3, <1>4, LenProperties, EmptySeq
<1>6. Bytes(buffer, 0, used) \in Seq(Char) /\ Len(Bytes(buffer, 0, used)) = used
  BY <1>1, BytesText
<1> QED BY <1>1, <1>2, <1>3, <1>4, <1>5, <1>6 DEF Shown

\* One byte more.
LEMMA OneMore ==
  ASSUME NEW len \in Nat, NEW u \in Nat, NEW buf, Holds(buf, len, u), NEW x \in Nat, x < u
  PROVE  /\ Bytes(buf, 0, x + 1) = Bytes(buf, 0, x) \o <<buf[x]>>
         /\ Bytes(buf, 0, x) \in Seq(Char) /\ <<buf[x]>> \in Seq(Char)
<1> DEFINE b == <<buf[x]>>
           y == x + 1
<1>1. x \in 0 .. u-1 /\ y \in Nat /\ y <= u
  OBVIOUS
<1>2. buf[x] \in Char
  BY <1>1 DEF Holds
<1>3. b \in Seq(Char) /\ Len(b) = 1 /\ b[1] = buf[x]
  BY <1>2
<1>4. y = x + Len(b)
  BY <1>3
<1> HIDE DEF b
<1>5. Written(buf, x, b)
  <2>1. \A j \in 1 .. 1 : j = 1 /\ x + j - 1 = x
    OBVIOUS
  <2> QED BY <1>3, <2>1 DEF Written
<1>6. Moved(buf, buf, 0, x)
  BY DEF Moved
<1>7. Holds(buf, len, x) /\ Holds(buf, len, y)
  BY <1>1 DEF Holds
<1> HIDE DEF y
<1>8. Bytes(buf, 0, y) = Bytes(buf, 0, x) \o b
  <2>1. b \in Seq(Char)
    BY <1>3
  <2>2. y \in Nat
    BY <1>1
  <2> QED BY <1>4, <1>5, <1>6, <1>7, <2>1, <2>2, JoinedText
<1> QED BY <1>3, <1>7, <1>8, BytesText DEF b, y

LEMMA ReplaceNextText ==
  ASSUME PatternsApart, SafeInv, ReplaceNext
  PROVE  UNCHANGED <<Shown, call, n>>
<1> DEFINE t == Bytes(buffer, 0, used)
           rest(k) == ReplacedFrom(t, k, Old, By)
<1>1. state = "replace" /\ m > 0 /\ ~SameAt(buffer, i, Old) /\ i' = i + 1
      /\ UNCHANGED <<buffer, used, call, n>>
  BY DEF ReplaceNext
<1>2. /\ Holds(buffer, length, used) /\ used \in Nat /\ length \in Nat
      /\ i \in Nat /\ Old \in Seq(Char) /\ By \in Seq(Char) /\ Old # <<>>
      /\ Len(Old) \in Nat \ {0}
      /\ t \in Seq(Char) /\ Len(t) = used
      /\ Shown = Bytes(buffer, 0, i) \o rest(i)
  BY <1>1, InReplace
<1>3. StepDefined /\ i + Len(Old) <= used
  BY <1>1, StepSafe
<1>4. state' = "replace" /\ Old' = Old /\ By' = By
  BY <1>1, <1>3 DEF ReplaceNext, Old, By
<1>5. i < used /\ i \in 0 .. used /\ i + 1 \in 0 .. used /\ i+1 \in 1 .. used
  BY <1>2, <1>3
<1>6. ~At(t, i, Old)
  BY <1>1, <1>2, <1>3, AheadHits
<1>7. t[i+1] = buffer[i] /\ buffer[i] \in Char
  <2>1. i \in 0 .. used-1 /\ (i+1)-1 = i
    BY <1>2, <1>5
  <2>2. Holds(buffer, length, used)
    BY <1>2
  <2>3. \A k \in 1 .. used : t[k] = buffer[k-1]
    BY <2>2, BytesText
  <2> HIDE DEF t
  <2>4. t[i+1] = buffer[(i+1)-1]
    BY <1>5, <2>3
  <2>5. buffer[i] \in Char
    BY <2>1, <2>2 DEF Holds
  <2> QED BY <2>1, <2>4, <2>5
<1> HIDE DEF t
<1>8. rest(i) = <<buffer[i]>> \o rest(i+1) /\ rest(i+1) \in Seq(Char)
  <2>1. rest(i) = <<t[i+1]>> \o rest(i+1)
    BY <1>2, <1>5, <1>6, ReplacedMiss
  <2>2. rest(i+1) \in Seq(Char)
    BY <1>2, <1>5, ReplacedFromIs
  <2> QED BY <1>7, <2>1, <2>2
<1>9. /\ Bytes(buffer, 0, i+1) = Bytes(buffer, 0, i) \o <<buffer[i]>>
      /\ Bytes(buffer, 0, i) \in Seq(Char) /\ <<buffer[i]>> \in Seq(Char)
  BY <1>2, <1>5, OneMore
<1>10. Shown' = Bytes(buffer, 0, i+1) \o rest(i+1)
  BY <1>1, <1>4 DEF Shown, t
<1>11. (Bytes(buffer, 0, i) \o <<buffer[i]>>) \o rest(i+1) = Bytes(buffer, 0, i) \o (<<buffer[i]>> \o rest(i+1))
  <2> HIDE DEF rest
  <2> QED BY <1>8, <1>9, ConcatAssociative
<1> QED BY <1>1, <1>2, <1>8, <1>9, <1>10, <1>11

\* The text of a buffer that Spliced describes: with the replacement, and the same rest.
LEMMA SplicedText ==
  ASSUME NEW len \in Nat, NEW u \in Nat, NEW buf, Holds(buf, len, u),
         NEW v \in Nat, NEW r, Holds(r, len, v),
         NEW x \in Nat, NEW la \in Nat, NEW b \in Seq(Char), x + la <= u, v = u + Len(b) - la,
         Spliced(r, buf, u, x, la, b), NEW y \in Nat, y = x + Len(b)
  PROVE  /\ Bytes(r, 0, y) = Bytes(buf, 0, x) \o b
         /\ SameAfter(Bytes(buf, 0, u), x + la, Bytes(r, 0, v), y)
         /\ y \in 0 .. v
<1> DEFINE t == Bytes(buf, 0, u)
           w == Bytes(r, 0, v)
           lb == Len(b)
<1>1. u \in Nat /\ v \in Nat /\ lb \in Nat /\ len \in Nat /\ u <= len /\ v <= len
  BY LenProperties DEF Holds
<1>2. y \in Nat /\ y <= v /\ x <= u /\ y = x + lb /\ v = (u + lb) - la
  BY <1>1
<1>3. t \in Seq(Char) /\ Len(t) = u /\ \A k \in 1 .. u : t[k] = buf[k-1]
  BY BytesText
<1>4. w \in Seq(Char) /\ Len(w) = v /\ \A k \in 1 .. v : w[k] = r[k-1]
  BY BytesText
<1>5. ASSUME NEW k \in 0 .. v-1
      PROVE  r[k] = IF k < x THEN buf[k] ELSE IF k < y THEN b[k-x+1] ELSE buf[(k - lb) + la]
  BY <1>1, <1>2 DEF Spliced
<1> HIDE DEF t, w
<1>6. SameAfter(t, x + la, w, y)
  <2> HIDE DEF lb
  <2>1. Len(t) - (x + la) = Len(w) - y
    BY <1>1, <1>2, <1>3, <1>4
  <2>2. ASSUME NEW j \in 1 .. Len(t) - (x + la) PROVE t[(x+la)+j] = w[y+j]
    <3> DEFINE k == (y+j)-1
    <3>1. j \in Nat /\ 1 <= j /\ j + (x + la) <= u
      BY <1>1, <1>3
    <3>2. (x+la)+j \in 1 .. u /\ (k - lb) + la = ((x+la)+j)-1
      BY <1>1, <1>2, <3>1
    <3>3. y+j \in 1 .. v
      BY <1>1, <1>2, <3>1
    <3>4. k \in 0 .. v-1 /\ ~(k < x) /\ ~(k < y)
      BY <1>1, <1>2, <3>1, <3>3
    <3>5. w[y+j] = r[k] /\ t[(x+la)+j] = buf[((x+la)+j)-1]
      BY <1>3, <1>4, <3>2, <3>3
    <3> HIDE DEF k
    <3>6. r[k] = buf[(k - lb) + la]
      BY <1>5, <3>4
    <3> QED BY <3>2, <3>5, <3>6
  <2> QED BY <2>1, <2>2 DEF SameAfter
<1>7. Holds(buf, len, x) /\ Holds(r, len, y)
  BY <1>1, <1>2 DEF Holds
<1>8. Moved(r, buf, 0, x)
  <2> SUFFICES ASSUME NEW k \in 0 .. x-1 PROVE r[k] = buf[0+k]
    BY DEF Moved
  <2>1. k \in 0 .. v-1 /\ k < x /\ 0+k = k
    BY <1>1, <1>2
  <2> QED BY <1>5, <2>1
<1>9. Written(r, x, b)
  <2> SUFFICES ASSUME NEW j \in 1 .. lb PROVE r[x+j-1] = b[j]
    BY DEF Written
  <2> DEFINE k == x+j-1
  <2> HIDE DEF lb
  <2>1. k \in 0 .. v-1 /\ ~(k < x) /\ k < y /\ k-x+1 = j
    BY <1>1, <1>2
  <2> HIDE DEF k
  <2>2. r[k] = b[j]
    BY <1>5, <2>1
  <2> QED BY <2>2 DEF k
<1>10. Bytes(r, 0, y) = Bytes(buf, 0, x) \o b
  BY <1>7, <1>8, <1>9, JoinedText
<1> QED BY <1>1, <1>2, <1>6, <1>10 DEF t, w

LEMMA ReplaceOneText ==
  ASSUME PatternsApart, SafeInv, ReplaceOne
  PROVE  UNCHANGED <<Shown, call, n>>
<1> DEFINE t == Bytes(buffer, 0, used)
           w == Bytes(buffer', 0, used')
           la == Len(Old)
<1>1. state = "replace" /\ m > 0 /\ SameAt(buffer, i, Old) /\ i' = i + Len(By)
      /\ used' = used + Len(By) - la /\ UNCHANGED <<call, n>>
  BY DEF ReplaceOne
<1>2. /\ Holds(buffer, length, used) /\ used \in Nat /\ length \in Nat
      /\ i \in Nat /\ Old \in Seq(Char) /\ By \in Seq(Char) /\ Old # <<>>
      /\ la \in Nat \ {0} /\ Len(By) \in Nat
      /\ t \in Seq(Char) /\ Len(t) = used
      /\ Shown = Bytes(buffer, 0, i) \o ReplacedFrom(t, i, Old, By)
  BY <1>1, InReplace
<1>3. StepDefined /\ i + la <= used
  BY <1>1, StepSafe
<1>4. state' = "replace" /\ Old' = Old /\ By' = By /\ buffer' = Substituted
  BY <1>1, <1>3 DEF ReplaceOne, Old, By
<1>5. used - la + Len(By) <= length
  BY <1>1, <1>2, <1>3 DEF StepDefined
<1>6. Holds(buffer', length, used') /\ Spliced(buffer', buffer, used, i, la, By)
  <2>1. buffer' = Memcpy(Memmove(buffer, i + Len(By), i + la, used - (i + la)), i, By)
    BY <1>4 DEF Substituted
  <2>2. Holds(buffer', length, used + Len(By) - la) /\ Spliced(buffer', buffer, used, i, la, By)
    BY <1>2, <1>3, <1>5, <2>1, SubstitutedIs
  <2> QED BY <1>1, <2>2
<1>7. /\ Bytes(buffer', 0, i') = Bytes(buffer, 0, i) \o By
      /\ SameAfter(t, i + la, w, i')
      /\ i' \in 0 .. used'
  <2>1. used' \in Nat /\ i' \in Nat
    BY <1>1, <1>2, <1>3
  <2> HIDE DEF la
  <2> QED BY <1>1, <1>2, <1>3, <1>6, <2>1, SplicedText
<1>8. At(t, i, Old)
  BY <1>1, <1>2, <1>3, AheadHits
<1>9. w \in Seq(Char) /\ Len(w) = used'
  BY <1>6, BytesText
<1> HIDE DEF t, w
<1>10. i + la \in 0 .. Len(t) /\ i \in 0 .. Len(t) /\ i < Len(t) /\ i' \in 0 .. Len(w)
  BY <1>2, <1>3, <1>7, <1>9
<1>11. ReplacedFrom(t, i + la, Old, By) = ReplacedFrom(w, i', Old, By)
  BY <1>2, <1>7, <1>9, <1>10, SameRest
<1>12. ReplacedFrom(t, i, Old, By) = By \o ReplacedFrom(t, i + la, Old, By)
  BY <1>2, <1>8, <1>10, ReplacedFromIs
<1>13. ReplacedFrom(t, i + la, Old, By) \in Seq(Char)
  BY <1>2, <1>10, ReplacedFromIs
<1>14. Shown' = Bytes(buffer', 0, i') \o ReplacedFrom(w, i', Old, By)
  BY <1>1, <1>4 DEF Shown, w
<1>15. Bytes(buffer, 0, i) \in Seq(Char)
  <2>1. Holds(buffer, length, i)
    BY <1>2, <1>3 DEF Holds
  <2> QED BY <2>1, BytesText
<1> DEFINE rest == ReplacedFrom(t, i + la, Old, By)
           head == Bytes(buffer, 0, i)
<1>16. Shown = head \o (By \o rest) /\ Shown' = (head \o By) \o rest
  BY <1>2, <1>7, <1>11, <1>12, <1>14
<1>17. rest \in Seq(Char) /\ head \in Seq(Char) /\ By \in Seq(Char)
  BY <1>2, <1>13, <1>15
<1> HIDE DEF rest, head
<1>18. (head \o By) \o rest = head \o (By \o rest)
  BY <1>17, ConcatAssociative
<1> QED BY <1>1, <1>16, <1>18

\* A text is its first x characters and the others.
LEMMA CutText ==
  ASSUME NEW len \in Nat, NEW u \in Nat, NEW buf, Holds(buf, len, u), NEW x \in Nat, x <= u
  PROVE  Bytes(buf, 0, x) \o Suffix(Bytes(buf, 0, u), x) = Bytes(buf, 0, u)
<1> DEFINE t == Bytes(buf, 0, u)
           head == Bytes(buf, 0, x)
           rest == Suffix(t, x)
<1>1. t \in Seq(Char) /\ Len(t) = u /\ \A k \in 1 .. u : t[k] = buf[k-1]
  BY BytesText
<1>2. Holds(buf, len, x)
  BY DEF Holds
<1>3. head \in Seq(Char) /\ Len(head) = x /\ \A k \in 1 .. x : head[k] = buf[k-1]
  BY <1>2, BytesText
<1> HIDE DEF t, head
<1>4. x \in 0 .. Len(t)
  BY <1>1
<1>5. rest \in Seq(Char) /\ Len(rest) = u - x /\ \A j \in 1 .. u - x : rest[j] = t[x+j]
  BY <1>1, <1>4, SuffixIs
<1> HIDE DEF rest
<1>6. /\ head \o rest \in Seq(Char) /\ Len(head \o rest) = x + (u - x)
      /\ \A k \in 1 .. x + (u - x) : (head \o rest)[k] = IF k <= x THEN head[k] ELSE rest[k-x]
  BY <1>3, <1>5, ConcatProperties
<1>7. x + (u - x) = u
  OBVIOUS
<1>8. ASSUME NEW k \in 1 .. u PROVE (head \o rest)[k] = t[k]
  <2>1. CASE k <= x
    <3>1. k \in 1 .. x
      BY <2>1
    <3> QED BY <1>1, <1>3, <1>6, <1>7, <2>1, <3>1
  <2>2. CASE ~(k <= x)
    <3>1. k-x \in 1 .. u-x /\ x + (k-x) = k
      BY <2>2
    <3>2. rest[k-x] = t[x + (k-x)]
      BY <1>5, <3>1
    <3> QED BY <1>6, <1>7, <2>2, <3>1, <3>2
  <2> QED BY <2>1, <2>2
<1>9. head \o rest = t
  <2> DEFINE both == head \o rest
  <2>1. both \in Seq(Char) /\ Len(both) = Len(t) /\ \A k \in 1 .. Len(both) : both[k] = t[k]
    BY <1>1, <1>6, <1>7, <1>8
  <2> HIDE DEF both
  <2>2. both = t
    BY <1>1, <2>1, SeqEqual
  <2> QED BY <2>2 DEF both
<1> QED BY <1>9 DEF t, head, rest

LEMMA ReplaceEndText ==
  ASSUME PatternsApart, SafeInv, ReplaceEnd
  PROVE  UNCHANGED <<Shown, call, n>>
<1> DEFINE t == Bytes(buffer, 0, used)
           w == Bytes(buffer', 0, used)
<1>1. state = "replace" /\ m = 0 /\ buffer' = Memcpy(buffer, used, <<NUL>>) /\ used' = used
      /\ UNCHANGED <<call, n>>
  BY DEF ReplaceEnd
<1>2. /\ Holds(buffer, length, used) /\ used \in Nat /\ length \in Nat /\ used < length
      /\ i \in Nat /\ i <= used /\ Old \in Seq(Char) /\ By \in Seq(Char) /\ Old # <<>>
      /\ t \in Seq(Char) /\ Len(t) = used
      /\ Shown = Bytes(buffer, 0, i) \o ReplacedFrom(t, i, Old, By)
  BY <1>1, InReplace
<1>3. state' = "ready"
  BY <1>1, <1>2 DEF ReplaceEnd
<1>4. Hits(t, i, Old) = {}
  <2>1. m = Cardinality(Ahead(buffer, i, used, Old))
    BY <1>1 DEF SafeInv, ReplaceInv
  <2>2. Ahead(buffer, i, used, Old) = {}
    BY <1>1, <1>2, <2>1, AheadFinite
  <2> QED BY <1>2, <2>2, AheadHits
<1>5. Shown' = w
  BY <1>1, <1>3 DEF Shown
<1>6. w = t
  <2> DEFINE r == Memcpy(buffer, used, <<NUL>>)
  <2>1. used \in 0 .. used /\ buffer \in Array(length)
    BY <1>2 DEF Holds
  <2>2. Holds(r, length, used)
    BY <1>2, <2>1, Ended
  <2>3. \A k \in 0 .. length-1 : r[k] = IF k = used THEN NUL ELSE buffer[k]
    BY <1>2, <2>1, NulWritten
  <2>4. buffer' = r
    BY <1>1
  <2> HIDE DEF r
  <2>5. Holds(buffer', length, used)
    BY <2>2, <2>4
  <2>6. \A k \in 0 .. length-1 : buffer'[k] = IF k = used THEN NUL ELSE buffer[k]
    BY <2>3, <2>4
  <2>7. \A k \in 1 .. used : k-1 \in 0 .. length-1 /\ k-1 # used
    BY <1>2
  <2>8. \A k \in 1 .. used : t[k] = buffer[k-1]
    BY <1>2, BytesText
  <2>9. \A k \in 1 .. used : buffer'[k-1] = t[k]
    BY <2>6, <2>7, <2>8
  <2> HIDE DEF t
  <2> QED BY <1>2, <2>5, <2>9, TextEqual
<1> HIDE DEF t, w
<1>7. i \in 0 .. Len(t)
  BY <1>2
<1>8. ReplacedFrom(t, i, Old, By) = Suffix(t, i)
  BY <1>2, <1>4, <1>7, NoneLeft
<1>9. Bytes(buffer, 0, i) \o Suffix(t, i) = t
  BY <1>2, <1>7, CutText DEF t
<1> QED BY <1>1, <1>2, <1>5, <1>6, <1>8, <1>9

LEMMA ReplaceBeginText ==
  ASSUME PatternsApart, SafeInv, ReplaceBegin, SafeInv'
  PROVE  Buffer!Replace
<1> DEFINE t == Bytes(buffer, 0, used)
<1>1. PICK a \in Patterns, b \in Replacements :
        LET count == Cardinality({k \in 0 .. used - 1 : SameAt(buffer, k, a)})
            grow  == Len(b) # Len(a) /\ Required(a, b, count) >= length
            size  == ToInt(Required(a, b, count))
        IN /\ call' = <<"replace", a, b>>
           /\ n' = count /\ m' = count /\ i' = 0
           /\ state' = IF count = 0 THEN "ready"
                       ELSE IF grow /\ size <= 0 THEN "aborted" ELSE "replace"
           /\ IF count > 0 /\ grow
              THEN length' = size /\ buffer' = Realloc(buffer, size)
              ELSE UNCHANGED <<length, buffer>>
  BY DEF ReplaceBegin
<1> DEFINE count == Cardinality({k \in 0 .. used - 1 : SameAt(buffer, k, a)})
           size  == ToInt(Required(a, b, count))
<1>2. /\ Holds(buffer, length, used) /\ used < length /\ buffer[used] = NUL /\ used' = used
      /\ state = "ready"
  BY DEF ReplaceBegin, BufferInv, SafeInv
<1>3. used \in Nat /\ length \in Nat
  BY <1>2 DEF Holds
<1>4. a \in Seq(Char) /\ b \in Seq(Char) /\ Len(a) \in Nat \ {0} /\ Len(b) \in Nat /\ NoOverlap(a) /\ a # <<>>
  BY TextsAssumption, EmptySeq, LenProperties DEF PatternsApart, NoOverlap
<1>5. count = Cardinality(Ahead(buffer, 0, used, a)) /\ count \in Nat
  BY <1>2, <1>3, <1>4, CountAhead
<1>6. /\ call' = <<"replace", a, b>> /\ n' = count
      /\ state' \in {"ready", "replace"} /\ (state' = "ready" <=> count = 0)
      /\ buffer' = buffer \/ (buffer' = Realloc(buffer, size) /\ length' = size)
      /\ count = 0 => buffer' = buffer
      /\ i' = 0 /\ Old' = a /\ By' = b
  <2> DEFINE grow == Len(b) # Len(a) /\ Required(a, b, count) >= length
  <2>1. state' # "aborted"
    BY DEF SafeInv, ReplaceDefined
  <2>2. /\ call' = <<"replace", a, b>> /\ n' = count /\ i' = 0
        /\ state' = IF count = 0 THEN "ready"
                    ELSE IF grow /\ size <= 0 THEN "aborted" ELSE "replace"
        /\ IF count > 0 /\ grow
           THEN length' = size /\ buffer' = Realloc(buffer, size)
           ELSE UNCHANGED <<length, buffer>>
    BY <1>1
  <2> HIDE DEF count, size, grow
  <2>3. Old' = a /\ By' = b
    BY <2>2 DEF Old, By
  <2> QED BY <1>5, <2>1, <2>2, <2>3
<1>7. t \in Seq(Char) /\ Len(t) = used /\ \A k \in 1 .. used : t[k] = buffer[k-1]
  BY <1>2, BytesText
<1>8. Shown = t
  BY <1>2 DEF Shown
<1>9. Ahead(buffer, 0, used, a) = Hits(t, 0, a)
  BY <1>2, <1>4, AheadHits
<1> HIDE DEF count, size
<1>10. OccurrencesFrom(t, 0, a) = count
  <2>1. 0 \in 0 .. Len(t)
    BY <1>3, <1>7
  <2> QED BY <1>4, <1>5, <1>7, <1>9, <2>1, OccurrencesAre
<1>11. CASE count = 0
  <2>1. Shown' = t
    BY <1>2, <1>6, <1>11 DEF Shown
  <2> HIDE DEF t
  <2>2. Hits(t, 0, a) = {}
    BY <1>3, <1>4, <1>5, <1>9, <1>11, AheadFinite
  <2>3. 0 \in 0 .. Len(t)
    BY <1>3, <1>7
  <2>4. ReplacedFrom(t, 0, a, b) = Suffix(t, 0)
    BY <1>4, <1>7, <2>2, <2>3, NoneLeft
  <2>5. Suffix(t, 0) = t
    <3>1. 0 + 1 = 1
      OBVIOUS
    <3> QED BY <1>7, <3>1, SubSeqFull DEF Suffix
  <2>6. Shown' = Buffer!Replaced(Shown, a, b) /\ n' = Buffer!Occurrences(Shown, a)
    BY <1>6, <1>8, <1>10, <2>1, <2>4, <2>5, SameFunctions
  <2> QED BY <1>6, <2>6 DEF Buffer!Replace
<1>12. CASE count # 0
  <2>1. state' = "replace"
    BY <1>6, <1>12
  <2>2. Holds(buffer', length', used)
    BY <1>2, <2>1 DEF SafeInv, BufferInv
  <2>3. \A k \in 1 .. used : buffer'[k-1] = t[k]
    <3> SUFFICES ASSUME NEW k \in 1 .. used PROVE buffer'[k-1] = buffer[k-1]
      BY <1>7
    <3>1. CASE buffer' = buffer
      BY <3>1
    <3>2. CASE buffer' = Realloc(buffer, size) /\ length' = size
      <4>1. size \in Nat /\ used <= size
        BY <2>2, <3>2 DEF Holds
      <4>2. DOMAIN buffer = 0 .. length-1
        BY <1>2 DEF Holds, Array
      <4>3. k-1 \in 0 .. size-1 /\ k-1 \in 0 .. length-1
        BY <1>2, <1>3, <4>1
      <4> QED BY <3>2, <4>2, <4>3 DEF Realloc
    <3> QED BY <1>6, <3>1, <3>2
  <2>4. Bytes(buffer', 0, used) = t
    <3> HIDE DEF t
    <3> QED BY <1>7, <2>2, <2>3, TextEqual
  <2>5. Shown' = <<>> \o ReplacedFrom(t, 0, a, b)
    BY <1>2, <1>6, <2>1, <2>4, NoBytes DEF Shown
  <2> HIDE DEF t
  <2>6. ReplacedFrom(t, 0, a, b) \in Seq(Char)
    <3>1. 0 \in 0 .. Len(t)
      BY <1>3, <1>7
    <3> QED BY <1>4, <1>7, <3>1, ReplacedFromIs
  <2>7. Shown' = ReplacedFrom(t, 0, a, b)
    BY <2>5, <2>6, ConcatEmptySeq
  <2>8. Shown' = Buffer!Replaced(Shown, a, b) /\ n' = Buffer!Occurrences(Shown, a)
    BY <1>6, <1>8, <1>10, <2>7, SameFunctions
  <2> QED BY <1>6, <2>8 DEF Buffer!Replace
<1> QED BY <1>11, <1>12

\* A step of the buffer is a step of the text, or none.
LEMMA StepText ==
  ASSUME PatternsApart, SafeInv, SafeInv', [Next]_vars
  PROVE  [Buffer!Next \/ DeleteAtEnd]_(Buffer!vars)
<1>1. BufferInv
  BY DEF SafeInv
<1>2. CASE UNCHANGED vars
  BY <1>2 DEF vars, Buffer!vars, Shown, Old, By
<1>3. CASE Create \/ Free \/ Clear
  BY <1>3, EmptyText DEF Buffer!Next
<1>4. CASE New
  BY <1>4, NewText DEF Buffer!Next
<1>5. CASE AppendText
  BY <1>1, <1>5, AppendedShown DEF Buffer!Next
<1>6. CASE Trim
  BY <1>1, <1>6, TrimText DEF Buffer!Next
<1>7. CASE Delete
  BY <1>1, <1>7, DeleteText DEF Buffer!Next
<1>8. CASE ReplaceBegin
  BY <1>8, ReplaceBeginText DEF Buffer!Next
<1>9. CASE ReplaceStep
  BY <1>9, ReplaceNextText, ReplaceOneText, ReplaceEndText DEF ReplaceStep, Buffer!vars
<1> QED BY <1>2, <1>3, <1>4, <1>5, <1>6, <1>7, <1>8, <1>9 DEF Next

\* The buffer is the text that StringBuffer.h promises, whatever it appends, trims, cuts and
\* replaces: each call changes the text as the documentation says, and a step in the middle of
\* a replacement changes neither the text nor the count that is reported.
THEOREM ImplementsText ==
  ASSUME PatternsApart, RoomyInt
  PROVE  Spec => KeepsText
<1>1. Init => SafeInv
  BY InitBuffer, InitBound DEF SafeInv, ReplaceInv, ReplaceDefined, Init
<1>2. SafeInv /\ [Next]_vars => SafeInv'
  BY NextSafe
<1>3. PatternsApart /\ SafeInv /\ SafeInv' /\ [Next]_vars => [Buffer!Next \/ DeleteAtEnd]_(Buffer!vars)
  BY StepText
<1> QED BY <1>1, <1>2, <1>3, InitText, PTL DEF Spec, KeepsText
-----------------------------------------------------------------------------
(* A buffer whose text is taken, and the functions of Str on what was taken. *)

LEMMA TakeSafe ==
  ASSUME SafeInv, TakeText
  PROVE  SafeInv' /\ Buffer!Empty
<1>1. BufferInv' /\ BoundInv'
  BY TakeBuffer DEF SafeInv
<1>2. state' = "none" /\ used' = 0 /\ n' = 0 /\ call' = <<"free">>
  BY DEF TakeText
<1>3. Shown' = <<>>
  BY <1>2, NoBytes DEF Shown
<1> QED BY <1>1, <1>2, <1>3 DEF SafeInv, ReplaceInv, ReplaceDefined, Buffer!Empty

LEMMA MCNextSafe ==
  ASSUME PatternsApart, RoomyInt, SafeInv, [MCNext]_<<vars, strvars>>
  PROVE  SafeInv' /\ [Buffer!Next \/ DeleteAtEnd]_(Buffer!vars)
<1>1. CASE [Next]_vars
  BY <1>1, NextSafe, StepText
<1>2. CASE TakeText
  BY <1>2, TakeSafe DEF Buffer!Next
<1>3. [Next]_vars \/ TakeText
  BY DEF MCNext
<1> QED BY <1>1, <1>2, <1>3

\* The same when the text is duplicated and the buffer freed, and any function of Str is used on
\* the duplicate: nothing that happens to the strings reaches a buffer.
THEOREM TakenSafely ==
  ASSUME PatternsApart, RoomyInt
  PROVE  MCSpec => [](Terminated /\ SearchesAgree /\ ReplaceDefined) /\ KeepsText
<1>1. MCInit => SafeInv /\ Buffer!Init
  BY InitBuffer, InitBound, InitText DEF MCInit, SafeInv, ReplaceInv, ReplaceDefined, Init
<1>2. SafeInv /\ [MCNext]_<<vars, strvars>> => SafeInv' /\ [Buffer!Next \/ DeleteAtEnd]_(Buffer!vars)
  BY MCNextSafe
<1>3. SafeInv => Terminated /\ SearchesAgree /\ ReplaceDefined
  BY TerminatedIs, SearchesAgreeIs DEF SafeInv
<1> QED BY <1>1, <1>2, <1>3, PTL DEF MCSpec, KeepsText
=============================================================================
