------------------------------ MODULE CMemory ------------------------------
(***************************************************************************)
(* The memory that C strings are kept in, and the functions of the C       *)
(* library that StringBuffer.c and Str.c use on it.  An array is a         *)
(* function over 0..n-1; a text, as a format produces it or a caller       *)
(* passes it, is a sequence of characters, the NUL left out.  Bytes that   *)
(* malloc() or realloc() returned and nobody wrote are JUNK.               *)
(***************************************************************************)
EXTENDS TextFunctions

NUL == "NUL"
JUNK == "JUNK"
\* What is neither is a character; a text has no NUL inside.
Char == STRING \ {NUL, JUNK}

Smaller(i, j) == IF i < j THEN i ELSE j
Least(S) == CHOOSE i \in S : \A j \in S : i <= j

\* malloc(n), and realloc(m, n).
Malloc(n) == [k \in 0 .. n-1 |-> JUNK]
Realloc(m, n) == [k \in 0 .. n-1 |-> IF k \in DOMAIN m THEN m[k] ELSE JUNK]

\* memcpy(m + at, s, strlen(s)), memset(m + at, 0, n) and memmove(m + to, m + from, n).  What they
\* write beyond the end becomes part of the array, which is then longer than it was made; what
\* memmove() reads there is JUNK.
Memcpy(m, at, s) ==
  [k \in DOMAIN m \cup at .. at + Len(s) - 1 |->
     IF k \in at .. at + Len(s) - 1 THEN s[k - at + 1] ELSE m[k]]
Zeroed(m, at, n) ==
  [k \in DOMAIN m \cup at .. at + n - 1 |-> IF k \in at .. at + n - 1 THEN NUL ELSE m[k]]
Memmove(m, to, from, n) ==
  [k \in DOMAIN m \cup to .. to + n - 1 |->
     IF k \notin to .. to + n - 1 THEN m[k]
     ELSE IF from + k - to \in DOMAIN m THEN m[from + k - to] ELSE JUNK]

\* vsnprintf(m + at, size, ...) of the text s: cut to size - 1 characters, and terminated.
Printed(m, at, size, s) ==
  Memcpy(m, at, SubSeq(s, 1, Smaller(Len(s), size - 1)) \o <<NUL>>)

\* The n bytes from m + at on, as a text.
Bytes(m, at, n) == [i \in 1 .. n |-> m[at + i - 1]]

\* strlen(m), and the C string at m.
Strlen(m) == Least({k \in DOMAIN m : m[k] = NUL})
CString(m) == Bytes(m, 0, Strlen(m))

\* A comparison of the bytes from m + i on with s, which stops at the first difference.
SameAt(m, i, s) == \A j \in 1 .. Len(s) : i + j - 1 \in DOMAIN m /\ m[i + j - 1] = s[j]
\* It stops before it has read a byte that is not there, or that nobody wrote.
ReadsWritten(m, i, s) ==
  \A j \in 1 .. Len(s) :
    SameAt(m, i, SubSeq(s, 1, j - 1)) => i + j - 1 \in DOMAIN m /\ m[i + j - 1] # JUNK
=============================================================================
