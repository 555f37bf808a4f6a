---------------------------- MODULE StringBuffer ----------------------------
(***************************************************************************)
(* src/util/StringBuffer.c: a text in memory that grows.  The bytes beyond *)
(* the text are modelled too: what a shorter text left behind, and what    *)
(* nobody wrote.  A read or a write that leaves the memory, or that        *)
(* depends on an unwritten byte, makes the state "undefined".              *)
(***************************************************************************)
EXTENDS CMemory, FiniteSets

CONSTANTS
  Hints,         \* the values of hint
  Texts,         \* what the format of an append produces
  Patterns,      \* the strings replaced
  Replacements,  \* and by what
  STRLEN,        \* the step in which the memory grows
  MaxUsed,       \* bound: the length of the text
  W,             \* size_t is modulo W (2^64)
  IntW           \* int is modulo IntW (2^32), the upper half negative

ASSUME SizesAssumption ==
  /\ STRLEN \in Nat \ {0} /\ MaxUsed \in Nat /\ Hints \subseteq Nat \ {0}
  /\ W \in Nat \ {0, 1} /\ IntW \in Nat \ {0, 1}

ASSUME TextsAssumption ==
  \A t \in Texts \cup Patterns \cup Replacements : t \in Seq(Char)

VARIABLES
  state,   \* "none" (no buffer), "ready", "replace" (in its second loop), "aborted", "undefined"
  buffer,  \* buffer
  used,    \* used
  length,  \* length
  call,    \* the last call and its arguments
  i, m,    \* the locals of StringBuffer_replace
  n        \* what it returns, or is going to; 0 for the other functions

vars == <<state, buffer, used, length, call, i, m, n>>

NoMemory == [k \in {} |-> NUL]
Init ==
  /\ state = "none" /\ buffer = NoMemory /\ used = 0 /\ length = 0
  /\ call = <<"none">> /\ i = 0 /\ m = 0 /\ n = 0

\* The S->buffer and S->length of _ctor.
Ctor(hint) == [buffer |-> Memcpy(Malloc(hint), 0, <<NUL>>), length |-> hint]

\* (Mutant of Grown: a text that fills the memory leaves no place for its NUL.)
GrownLate(len, u, s) == IF u + Len(s) <= len THEN len ELSE len + STRLEN + Len(s)
\* The length at which the loop of _append ends.
Grown(len, u, s) == IF u + Len(s) < len THEN len ELSE len + STRLEN + Len(s)

\* _append: what vsnprintf cuts off the first time it prints again into the larger memory.
Appended(buf, len, u, s) ==
  LET l == Grown(len, u, s)
  IN /\ buffer' = Printed(Realloc(buf, l), u, l - u, s)
     /\ length' = l
     /\ used' = u + Len(s)

Create ==
  /\ state = "none"
  /\ \E hint \in Hints : buffer' = Ctor(hint).buffer /\ length' = hint
  /\ used' = 0 /\ state' = "ready" /\ call' = <<"create">>
  /\ n' = 0 /\ UNCHANGED <<i, m>>

\* (Nothing is printed when the format is empty, and nothing changes when the text is.)
New ==
  /\ state = "none"
  /\ \E s \in Texts : /\ Len(s) <= MaxUsed
                      /\ Appended(Ctor(STRLEN).buffer, STRLEN, 0, s) /\ call' = <<"new", s>>
  /\ state' = "ready"
  /\ n' = 0 /\ UNCHANGED <<i, m>>

Free ==
  /\ state = "ready"
  /\ state' = "none" /\ buffer' = NoMemory /\ used' = 0 /\ length' = 0 /\ call' = <<"free">>
  /\ n' = 0 /\ UNCHANGED <<i, m>>

AppendText ==
  /\ state = "ready"
  /\ \E s \in Texts : /\ used + Len(s) <= MaxUsed
                      /\ Appended(buffer, length, used, s) /\ call' = <<"append", s>>
  /\ n' = 0 /\ UNCHANGED <<state, i, m>>

-----------------------------------------------------------------------------
(* StringBuffer_replace *)

\* (int)x of a size_t.
ToInt(x) == LET y == x % IntW IN IF y >= IntW \div 2 THEN y - IntW ELSE y

\* (Mutant of Required: the place of the NUL is forgotten.)
RequiredNoNul(a, b, count) == (((W + Len(b) - Len(a)) % W) * count + used) % W
\* diff * n + used + 1, with diff = bl - strlen(a).
Required(a, b, count) == (((W + Len(b) - Len(a)) % W) * count + used + 1) % W

\* The first loop counts where a begins, the occurrences that overlap included; the memory
\* grows to what as many replacements need.
ReplaceBegin ==
  /\ state = "ready"
  /\ \E a \in Patterns, b \in Replacements :
       LET count == Cardinality({k \in 0 .. used - 1 : SameAt(buffer, k, a)})
           grow  == Len(b) # Len(a) /\ Required(a, b, count) >= length
           size  == ToInt(Required(a, b, count))
       IN /\ used + count * (Len(b) - Len(a)) <= MaxUsed
          /\ call' = <<"replace", a, b>>
          /\ n' = count /\ m' = count /\ i' = 0
          /\ state' = IF count = 0 THEN "ready"
                      ELSE IF grow /\ size <= 0 THEN "aborted" ELSE "replace"
          /\ IF count > 0 /\ grow
             THEN length' = size /\ buffer' = Realloc(buffer, size)
             ELSE UNCHANGED <<length, buffer>>
  /\ UNCHANGED used

\* The arguments a and b of the replace in progress.
Old == call[2]
By == call[3]

\* Whether the bytes the iteration reads and moves are there.
StepDefined ==
  /\ ReadsWritten(buffer, i, Old)
  /\ SameAt(buffer, i, Old) => /\ i + Len(Old) <= used
                              /\ i + Len(By) + used - (i + Len(Old)) <= length
                              /\ i + Len(By) <= length

\* (Mutant of ReplaceNext: i stays.)
ReplaceNextStays ==
  /\ state = "replace" /\ m > 0 /\ ~SameAt(buffer, i, Old)
  /\ state' = IF StepDefined THEN "replace" ELSE "undefined"
  /\ UNCHANGED <<buffer, used, length, call, i, m, n>>

ReplaceNext ==
  /\ state = "replace" /\ m > 0 /\ ~SameAt(buffer, i, Old)
  /\ state' = IF StepDefined THEN "replace" ELSE "undefined"
  /\ i' = i + 1
  /\ UNCHANGED <<buffer, used, length, call, m, n>>

\* The occurrence at i gives way to b, and the bytes after it move; the NUL is not among them.
Substituted == Memcpy(Memmove(buffer, i + Len(By), i + Len(Old), used - (i + Len(Old))), i, By)

\* (Mutant of ReplaceOne: the search goes on at the replacement.)
ReplaceOneAgain ==
  /\ state = "replace" /\ m > 0 /\ SameAt(buffer, i, Old)
  /\ IF StepDefined THEN buffer' = Substituted /\ UNCHANGED state
                    ELSE state' = "undefined" /\ UNCHANGED buffer
  /\ used' = used + Len(By) - Len(Old)
  /\ m' = m - 1
  /\ UNCHANGED <<length, call, i, n>>

ReplaceOne ==
  /\ state = "replace" /\ m > 0 /\ SameAt(buffer, i, Old)
  /\ IF StepDefined THEN buffer' = Substituted /\ UNCHANGED state
                    ELSE state' = "undefined" /\ UNCHANGED buffer
  /\ used' = used + Len(By) - Len(Old)
  /\ i' = i + Len(By) /\ m' = m - 1
  /\ UNCHANGED <<length, call, n>>

ReplaceEnd ==
  /\ state = "replace" /\ m = 0
  /\ buffer' = Memcpy(buffer, used, <<NUL>>)
  /\ state' = IF used < length THEN "ready" ELSE "undefined"
  /\ i' = 0
  /\ UNCHANGED <<used, length, call, m, n>>

-----------------------------------------------------------------------------
\* The length that the right trim leaves, and the white space the left trim removes.
RightTrimmed == Least({u \in 0 .. used : \A k \in u .. used - 1 : IsSpace(buffer[k])})
LeftSpace(buf) == Least({k \in DOMAIN buf : ~IsSpace(buf[k])})

\* (Mutant of Trim: the text that was moved to the front is not terminated.)
TrimNoNul ==
  /\ state = "ready"
  /\ LET u   == RightTrimmed
         buf == Zeroed(buffer, u, used - u)
         l   == LeftSpace(buf)
     IN buffer' = Memmove(buf, 0, l, u - l) /\ used' = u - l
  /\ call' = <<"trim">>
  /\ n' = 0 /\ UNCHANGED <<state, length, i, m>>

Trim ==
  /\ state = "ready"
  /\ LET u   == RightTrimmed
         buf == Zeroed(buffer, u, used - u)
         l   == LeftSpace(buf)
     IN IF l > 0
        THEN buffer' = Memcpy(Memmove(buf, 0, l, u - l), u - l, <<NUL>>) /\ used' = u - l
        ELSE buffer' = buf /\ used' = u
  /\ call' = <<"trim">>
  /\ n' = 0 /\ UNCHANGED <<state, length, i, m>>

\* The assertion lets index be the length, too.
Delete ==
  /\ state = "ready"
  /\ \E index \in 0 .. used :
       /\ used' = index /\ buffer' = Memcpy(buffer, index, <<NUL>>)
       /\ call' = <<"delete", index>>
  /\ n' = 0 /\ UNCHANGED <<state, length, i, m>>

Clear ==
  /\ state = "ready"
  /\ used' = 0 /\ buffer' = Memcpy(buffer, 0, <<NUL>>) /\ call' = <<"clear">>
  /\ n' = 0 /\ UNCHANGED <<state, length, i, m>>

ReplaceStep == ReplaceNext \/ ReplaceOne \/ ReplaceEnd
Next ==
  \/ Create \/ New \/ Free \/ AppendText \/ Trim \/ Delete \/ Clear
  \/ ReplaceBegin \/ ReplaceStep

\* A call returns before the next one.
Spec == Init /\ [][Next]_vars /\ WF_vars(ReplaceStep)

\* StringBuffer_indexOf and StringBuffer_lastIndexOf search the bytes up to used, and compare
\* as far as the bytes go on.
Found(s) == {k \in 0 .. used - 1 : SameAt(buffer, k, s)}
IndexOf(s) == IF s = <<>> \/ Found(s) = {} THEN -1 ELSE Least(Found(s))
LastIndexOf(s) ==
  IF s = <<>> \/ Found(s) = {} THEN -1 ELSE CHOOSE k \in Found(s) : \A j \in Found(s) : j <= k

-----------------------------------------------------------------------------
(* Properties. *)

\* Between calls buffer is a C string of used characters: they were all written, none is a NUL,
\* and the NUL after them is inside the memory, however it grew or shrank before.
Terminated ==
  state = "ready" => /\ DOMAIN buffer = 0 .. length - 1 /\ used < length
                     /\ JUNK \notin {buffer[k] : k \in 0 .. used}
                     /\ Strlen(buffer) = used

\* "Replace all occurrences of a with b ... @return The number of replacements that took
\* place": the loop finds as many occurrences to replace as it counted and stays in the memory.
ReplaceDefined == state \notin {"aborted", "undefined"}

\* A search does not see what an earlier text left behind the end: it answers where the text
\* has s first (last), or -1.
SearchesAgree ==
  state = "ready" =>
    LET text == Bytes(buffer, 0, used)
    IN \A s \in Texts \cup Patterns :
         LET at == {k \in 0 .. used - Len(s) : SubSeq(text, k + 1, k + Len(s)) = s}
         IN s # <<>> =>
              /\ at = {} => IndexOf(s) = -1 /\ LastIndexOf(s) = -1
              /\ at # {} => /\ IndexOf(s) \in at /\ LastIndexOf(s) \in at
                            /\ \A k \in at : IndexOf(s) <= k /\ k <= LastIndexOf(s)

\* replace returns.
ReplaceReturns == state = "replace" ~> state # "replace"

\* A replacement takes effect when it begins: what the loop has not reached yet is shown as it
\* will be.
Shown ==
  IF state = "replace"
  THEN Bytes(buffer, 0, i) \o ReplacedFrom(Bytes(buffer, 0, used), i, Old, By)
  ELSE Bytes(buffer, 0, used)
Buffer == INSTANCE TextBuffer WITH text <- Shown, replaced <- n

\* What the header makes an exception and the assertion of the code lets through: it deletes
\* nothing.
DeleteAtEnd == call' = <<"delete", Len(Shown)>> /\ Shown' = Shown /\ n' = 0

\* The buffer implements the text of TextBuffer, whatever calls came before: every step of it is
\* one of TextBuffer, but for a delete at the end.
KeepsText == Buffer!Init /\ [][Buffer!Next \/ DeleteAtEnd]_(Buffer!vars)
=============================================================================
