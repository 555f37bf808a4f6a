-------------------------------- MODULE Str --------------------------------
(***************************************************************************)
(* src/util/Str.c: the functions that change a C string where it is, on    *)
(* the array that Str_dup made, called in any order; and those that only   *)
(* look at strings.  Arguments that are not changed are texts.  NULL       *)
(* arguments, which every function returns at once, are left out.          *)
(***************************************************************************)
EXTENDS CMemory, FiniteSets

CONSTANTS
  Strings,   \* the strings duplicated
  Arguments, \* the other arguments: sub-strings, sources, charsets
  Limit      \* Str_compareConstantTimeStringLength

ASSUME StringsAssumption == \A t \in Strings \cup Arguments : t \in Seq(Char)
ASSUME LimitAssumption   == Limit \in Nat
\* What Str.c writes of its own, and the letters of the other case: characters, as all strings
\* but the two marks are (which TLC knows of a string, and no prover).
ASSUME LettersAssumption == {"a", "b", "A", "B", " ", ".", "\\", "0"} \subseteq Char

VARIABLES
  s,   \* the array, NoString before Str_dup
  fn   \* the last function called and its arguments

strvars == <<s, fn>>

NoString == [k \in {} |-> NUL]
Size(m) == Cardinality(DOMAIN m)
Charset(t) == {t[k] : k \in DOMAIN t}
Ch(t, k) == IF k <= Len(t) THEN t[k] ELSE NUL

Str_dup(t) == Memcpy(Malloc(Len(t) + 1), 0, t \o <<NUL>>)
Str_ndup(t, n) ==
  LET l == Smaller(Len(t), n) IN Memcpy(Malloc(l + 1), 0, SubSeq(t, 1, l) \o <<NUL>>)

-----------------------------------------------------------------------------
(* The functions that change the array m. *)

Mapped(m, f(_)) == [k \in DOMAIN m |-> IF k < Strlen(m) THEN f(m[k]) ELSE m[k]]
Str_toLower(m) == Mapped(m, ToLower)
Str_toUpper(m) == Mapped(m, ToUpper)
Str_replaceChar(m, o, n) == Mapped(m, LAMBDA c : IF c = o THEN n ELSE c)

Str_chomp(m) ==
  LET k == Least({j \in 0 .. Strlen(m) : m[j] \in {"\r", "\n", NUL}}) IN Zeroed(m, k, 1)

Str_rtrim(m) ==
  LET e == Least({j \in 0 .. Strlen(m) : \A k \in j .. Strlen(m) - 1 : IsSpace(m[k])})
  IN Zeroed(m, e, Strlen(m) - e)

Str_ltrim(m) ==
  IF IsSpace(m[0])
  THEN LET j == Strlen(m)
           i == Least({k \in 0 .. j : ~IsSpace(m[k])})
       IN Zeroed(Memmove(m, 0, i, j - i), j - i, 1)
  ELSE m

Str_trim(m) == Str_ltrim(Str_rtrim(m))

\* The right end is cut at the first place, from the end, that is not a quote, or is the start.
Str_unquote(m) ==
  IF m[0] = NUL THEN m
  ELSE LET strip(c) == IsQuote(c) \/ IsSpace(c)
           l == Least({k \in 0 .. Strlen(m) : ~strip(m[k])})
           e == Strlen(m) - l
           u == Memmove(m, 0, l, e)
           r == Least({j \in 0 .. e : \A k \in j + 1 .. e - 1 : strip(u[k])})
       IN IF e = 0 THEN Zeroed(u, 0, 1) ELSE Zeroed(u, r + 1, e - r)

\* An iteration of the loop of Str_unescape, and the loop: k iterations, or as many as there are.
UnescapeStep(l, charset) ==
  LET c == l.m[l.y]
  IN IF c = NUL THEN l
     ELSE IF c = "\\" /\ l.m[l.y+1] \in charset
     THEN [m |-> [l.m EXCEPT ![l.x] = l.m[l.y+1]], x |-> l.x + 1, y |-> l.y + 2]
     ELSE [m |-> [l.m EXCEPT ![l.x] = c], x |-> l.x + 1, y |-> l.y + 1]
Str_unescape(m, charset) ==
  LET after[k \in 0 .. Size(m)] ==
        IF k = 0 THEN [m |-> m, x |-> 0, y |-> 0] ELSE UnescapeStep(after[k-1], charset)
      end == after[Size(m)]
  IN Zeroed(end.m, end.x, 1)

Str_trunc(m, n) ==
  IF Strlen(m) <= n THEN m
  ELSE Zeroed(IF n >= 3 THEN Memcpy(m, n - 3, <<".", ".", ".">>) ELSE m, n, 1)

\* The index of the pointer it returns, -1 for NULL.
Str_sub(m, b) ==
  LET at == {k \in 0 .. Strlen(m) - 1 : SameAt(Str_toUpper(m), k, Uppercase(b))}
  IN IF b = <<>> \/ at = {} THEN -1 ELSE Least(at)
Str_curtail(m, b) == IF Str_sub(m, b) = -1 THEN m ELSE Zeroed(m, Str_sub(m, b), 1)

\* n characters and a NUL at most are written.
Str_copy(m, src, n) == Memcpy(m, 0, SubSeq(src, 1, Smaller(Len(src), n)) \o <<NUL>>)

\* The loop of _Str_join over its arguments, at q with n bytes to go.
JoinStep(l, p) ==
  IF l.n <= 0 THEN l
  ELSE [m |-> Memcpy(l.m, l.q, SubSeq(p, 1, Smaller(Len(p), l.n))), q |-> l.q + Smaller(Len(p), l.n),
        n |-> IF Len(p) > l.n THEN -1 ELSE l.n - Len(p)]
Str_join(m, n, args) ==
  LET after[k \in 0 .. Len(args)] ==
        IF k = 0 THEN [m |-> m, q |-> 0, n |-> n] ELSE JoinStep(after[k-1], args[k])
      end == after[Len(args)]
  IN Zeroed(end.m, end.q, 1)

\* (Mutant of EscapeStep: what is moved is not cut to the buffer.)
EscapeStepOverruns(l, content) ==
  LET size == Size(l.m)
  IN IF l.done >= content \/ l.k >= size THEN l
     ELSE IF l.m[l.k] = NUL /\ l.k + 1 < size - 1
     THEN [m |-> Memcpy(Memmove(l.m, l.k + 1, l.k, content - l.done), l.k, <<"\\", "0">>),
           k |-> l.k + 2, done |-> l.done + 1]
     ELSE [m |-> l.m, k |-> l.k + 1, done |-> l.done + 1]
\* The loop of Str_escapeZero, at currentByteIndex k with bytesProcessed done.
EscapeStep(l, content) ==
  LET size == Size(l.m)
  IN IF l.done >= content \/ l.k >= size THEN l
     ELSE IF l.m[l.k] = NUL /\ l.k + 1 < size - 1
     THEN [m |-> Memcpy(Memmove(l.m, l.k + 1, l.k, Smaller(content - l.done, size - l.k - 1)), l.k,
                        <<"\\", "0">>),
           k |-> l.k + 2, done |-> l.done + 1]
     ELSE [m |-> l.m, k |-> l.k + 1, done |-> l.done + 1]
Str_escapeZero(m, content) ==
  LET after[j \in 0 .. content] ==
        IF j = 0 THEN [m |-> m, k |-> 0, done |-> 0] ELSE EscapeStep(after[j-1], content)
      end == after[content]
  IN Zeroed(end.m, Smaller(end.k, Size(m) - 1), 1)

-----------------------------------------------------------------------------
(* The functions that look at two texts. *)

Str_startsWith(a, b) == \A k \in 1 .. Len(b) \cup {1} : ToUpper(Ch(a, k)) = ToUpper(Ch(b, k))

\* (Mutant of Str_endsWith: the lengths are not compared.)
Str_endsWithAny(a, b) ==
  \A d \in 0 .. Smaller(Len(a), Len(b)) - 1 :
    ToUpper(Ch(a, Len(a) + 1 - d)) = ToUpper(Ch(b, Len(b) + 1 - d))
\* The loop begins at the two NULs and ends before the first character of the shorter text.
Str_endsWith(a, b) ==
  /\ \A d \in 0 .. Smaller(Len(a), Len(b)) - 1 :
       ToUpper(Ch(a, Len(a) + 1 - d)) = ToUpper(Ch(b, Len(b) + 1 - d))
  /\ Len(a) >= Len(b)

Str_isEqual(a, b) ==
  /\ \A k \in 1 .. Smaller(Len(a), Len(b)) : ToUpper(a[k]) = ToUpper(b[k])
  /\ Ch(a, Smaller(Len(a), Len(b)) + 1) = Ch(b, Smaller(Len(a), Len(b)) + 1)
Str_isByteEqual(a, b) ==
  /\ \A k \in 1 .. Smaller(Len(a), Len(b)) : a[k] = b[k]
  /\ Ch(a, Smaller(Len(a), Len(b)) + 1) = Ch(b, Smaller(Len(a), Len(b)) + 1)

\* 0 for equal: the two buffers are padded with zeros, and a text that does not fit is an error.
Str_compareConstantTime(a, b) ==
  IF Len(a) > Limit \/ Len(b) > Limit THEN 1
  ELSE IF \A k \in 1 .. Limit + 1 : Ch(a, k) = Ch(b, k) THEN 0 ELSE 1

Str_has(charset, t) == \E k \in DOMAIN t : t[k] \in charset
\* What limit is when the loop ends decides.
Str_lim(t, limit) == limit - Smaller(Len(t), limit + 1) < 0

-----------------------------------------------------------------------------
StrInit == s = NoString /\ fn = <<"none">>

Duplicate ==
  /\ s = NoString
  /\ \E t \in Strings : \/ fn' = <<"dup", t>> /\ s' = Str_dup(t)
                        \/ \E n \in 0 .. Len(t) + 1 : fn' = <<"ndup", t, n>> /\ s' = Str_ndup(t, n)

\* A caller keeps to the size of the array.
Change ==
  /\ s # NoString
  /\ \/ fn' = <<"chomp">> /\ s' = Str_chomp(s)
     \/ fn' = <<"trim">> /\ s' = Str_trim(s)
     \/ fn' = <<"unquote">> /\ s' = Str_unquote(s)
     \/ fn' = <<"toLower">> /\ s' = Str_toLower(s)
     \/ fn' = <<"toUpper">> /\ s' = Str_toUpper(s)
     \/ \E o, c \in {"a", " "} : fn' = <<"replaceChar", o, c>> /\ s' = Str_replaceChar(s, o, c)
     \/ \E t \in Arguments : fn' = <<"unescape", t>> /\ s' = Str_unescape(s, Charset(t))
     \/ \E n \in 0 .. Size(s) : fn' = <<"trunc", n>> /\ s' = Str_trunc(s, n)
     \/ \E t \in Arguments : fn' = <<"curtail", t>> /\ s' = Str_curtail(s, t)
     \/ \E t \in Arguments, n \in 0 .. Size(s) - 1 : fn' = <<"copy", t, n>> /\ s' = Str_copy(s, t, n)
     \/ \E t, u \in Arguments, n \in 0 .. Size(s) - 1 :
          fn' = <<"join", <<t, u>>, n>> /\ s' = Str_join(s, n, <<t, u>>)
     \/ \E c \in 0 .. Size(s) : fn' = <<"escapeZero", c>> /\ s' = Str_escapeZero(s, c)

StrNext == Duplicate \/ Change

-----------------------------------------------------------------------------
(* Properties. *)

\* What Str.h says the string is after a call.
Documented(m, f) ==
  LET t == CString(m)
  IN CASE f[1] = "chomp"       -> Before(t, {"\r", "\n"})
       [] f[1] = "trim"        -> Trimmed(t)
       [] f[1] = "unquote"     -> Unquoted(t)
       [] f[1] = "toLower"     -> [k \in DOMAIN t |-> ToLower(t[k])]
       [] f[1] = "toUpper"     -> Uppercase(t)
       [] f[1] = "replaceChar" -> [k \in DOMAIN t |-> IF t[k] = f[2] THEN f[3] ELSE t[k]]
       [] f[1] = "unescape"    -> Unescaped(t, Charset(f[2]))
       [] f[1] = "trunc"       -> Truncated(t, f[2])
       [] f[1] = "curtail"     -> Curtailed(t, f[2])
       [] f[1] = "copy"        -> FirstN(f[2], f[3])
       [] f[1] = "join"        -> FirstN(f[2][1] \o f[2][2], f[3])
       [] f[1] = "escapeZero"  -> ZerosEscaped(Bytes(m, 0, f[2]), NUL, Size(m) - 1)
       [] f[1] = "dup"         -> f[2]
       [] f[1] = "ndup"        -> FirstN(f[2], f[3])

\* Whatever earlier calls left behind the NUL, every function leaves the string its
\* documentation says, terminated inside the array.
ChangesDocumented ==
  [][/\ s # NoString => DOMAIN s' = DOMAIN s
     /\ NUL \in {s'[k] : k \in DOMAIN s'}
     /\ CString(s') = Documented(IF s = NoString THEN s' ELSE s, fn')]_strvars

\* b is the end of a, in whatever case.
Ends(a, b) == Len(b) <= Len(a) /\ Suffix(Uppercase(a), Len(a) - Len(b)) = Uppercase(b)

\* After any calls the functions that look at texts answer what Str.h promises, case ignored
\* where it says so, except where the code never did: Str_startsWith finds no empty prefix in a
\* text that is not empty, Str_endsWith does not look at the first character of a
\* suffix, and Str_compareConstantTime calls texts different that agree in the first Limit
\* characters but do not both end there.
ComparisonsAgree ==
  s # NoString =>
    LET t == CString(s)
    IN \A a \in Arguments :
         /\ Str_isByteEqual(t, a) <=> t = a
         /\ Str_isEqual(t, a) <=> Uppercase(t) = Uppercase(a)
         /\ a # <<>> => (Str_startsWith(t, a) <=> 0 \in Positions(t, a))
         /\ a = <<>> \/ Len(a) > Len(t) \/ ToUpper(t[Len(t) - Len(a) + 1]) = ToUpper(a[1])
              => (Str_endsWith(t, a) <=> Ends(t, a))
         /\ Str_sub(s, a) = IF Positions(t, a) = {} THEN -1 ELSE Smallest(Positions(t, a))
         /\ (Len(t) <= Limit /\ Len(a) <= Limit) \/ FirstN(t, Limit) # FirstN(a, Limit)
              => (Str_compareConstantTime(t, a) = 0 <=> FirstN(t, Limit) = FirstN(a, Limit))
         /\ Str_has(Charset(a), t) <=> Charset(a) \cap Charset(t) # {}
         /\ \A limit \in 0 .. Len(t) + 1 : Str_lim(t, limit) <=> Len(t) > limit
=============================================================================
