--------------------------- MODULE TextFunctions ---------------------------
(***************************************************************************)
(* What the documentation of StringBuffer.h and Str.h says of a text: the  *)
(* definitions that the functions on memory are compared with.             *)
(***************************************************************************)
EXTENDS Integers, Sequences

\* isspace(), the quotes of Str_unquote, toupper() and tolower(), on the characters of the runs.
IsSpace(c) == c \in {" ", "\n"}
IsQuote(c) == c \in {"'", "\""}
ToUpper(c) == IF c = "a" THEN "A" ELSE IF c = "b" THEN "B" ELSE c
ToLower(c) == IF c = "A" THEN "a" ELSE IF c = "B" THEN "b" ELSE c

Suffix(t, k) == SubSeq(t, k + 1, Len(t))
StartsWith(t, a) == Len(a) <= Len(t) /\ SubSeq(t, 1, Len(a)) = a

\* The text without white space at both ends.
Trimmed(t) ==
  LET kept == {k \in DOMAIN t : ~IsSpace(t[k])}
  IN IF kept = {} THEN <<>>
     ELSE SubSeq(t, CHOOSE k \in kept : \A j \in kept : k <= j,
                    CHOOSE k \in kept : \A j \in kept : k >= j)

\* Every a from the left gives way to b, and how many there are: in the text after its first k
\* characters, and in all of it.
ReplacedFrom(t, k, a, b) ==
  LET from[j \in 0 .. Len(t)] ==
        IF j = Len(t) THEN <<>>
        ELSE IF StartsWith(Suffix(t, j), a) THEN b \o from[j + Len(a)]
        ELSE <<t[j + 1]>> \o from[j + 1]
  IN from[k]
OccurrencesFrom(t, k, a) ==
  LET from[j \in 0 .. Len(t)] ==
        IF j = Len(t) THEN 0
        ELSE IF StartsWith(Suffix(t, j), a) THEN 1 + from[j + Len(a)]
        ELSE from[j + 1]
  IN from[k]
Replaced(t, a, b) == ReplacedFrom(t, 0, a, b)
Occurrences(t, a) == OccurrencesFrom(t, 0, a)

Uppercase(t) == [k \in DOMAIN t |-> ToUpper(t[k])]
Smallest(S) == CHOOSE i \in S : \A j \in S : i <= j
FirstN(t, n) == SubSeq(t, 1, IF n < Len(t) THEN n ELSE Len(t))

\* Where b begins in a, in whatever case.
Positions(a, b) ==
  {k \in 0 .. Len(a) - 1 : b # <<>> /\ StartsWith(Suffix(Uppercase(a), k), Uppercase(b))}

\* The text up to the first character of a set, and the text without such characters at both ends.
Before(t, S) == LET at == {k \in DOMAIN t : t[k] \in S} IN IF at = {} THEN t ELSE SubSeq(t, 1, Smallest(at) - 1)
Unquoted(t) ==
  LET kept == {k \in DOMAIN t : ~IsSpace(t[k]) /\ ~IsQuote(t[k])}
  IN IF kept = {} THEN <<>>
     ELSE SubSeq(t, Smallest(kept), CHOOSE k \in kept : \A j \in kept : k >= j)

Truncated(t, n) ==
  IF Len(t) <= n THEN t ELSE IF n < 3 THEN FirstN(t, n) ELSE FirstN(t, n - 3) \o <<".", ".", ".">>
Curtailed(t, b) == IF Positions(t, b) = {} THEN t ELSE FirstN(t, Smallest(Positions(t, b)))

\* A backslash before a character of the charset goes.
Unescaped(t, charset) ==
  LET from[j \in 0 .. Len(t)] ==
        IF j = Len(t) THEN <<>>
        ELSE IF j + 2 <= Len(t) /\ t[j + 1] = "\\" /\ t[j + 2] \in charset
        THEN <<t[j + 2]>> \o from[j + 2]
        ELSE <<t[j + 1]>> \o from[j + 1]
  IN from[0]

\* Bytes with every zero as a backslash and a 0, as far as there is room.
ZerosEscaped(bytes, zero, room) ==
  LET from[j \in 0 .. Len(bytes)] ==
        [r \in 0 .. room |->
           IF j = Len(bytes) \/ r = 0 THEN <<>>
           ELSE IF bytes[j + 1] # zero THEN <<bytes[j + 1]>> \o from[j + 1][r - 1]
           ELSE IF r = 1 THEN <<>>
           ELSE <<"\\", "0">> \o from[j + 1][r - 2]]
  IN from[0][room]
=============================================================================
