----------------------------- MODULE TextBuffer -----------------------------
(***************************************************************************)
(* What StringBuffer.h promises: a text that is appended to, trimmed, cut  *)
(* and searched, without a capacity, a terminator or memory.  StringBuffer *)
(* is shown to implement it.                                               *)
(***************************************************************************)
EXTENDS TextFunctions

CONSTANTS
  Texts,        \* what is appended
  Patterns,     \* what is replaced
  Replacements  \* and by what

VARIABLES
  text,
  call,     \* the last call and its arguments
  replaced  \* the number of replacements the call reports, if it is a replace

vars == <<text, call, replaced>>

Init == text = <<>> /\ call = <<"none">> /\ replaced = 0

AppendText ==
  \E s \in Texts : call' = <<"append", s>> /\ text' = text \o s /\ replaced' = 0
Trim == call' = <<"trim">> /\ text' = Trimmed(text) /\ replaced' = 0
\* "AssertException if the index parameter is negative or greater than or equal to the
\* StringBuffer length".
Delete ==
  \E k \in 0 .. Len(text) - 1 :
    call' = <<"delete", k>> /\ text' = SubSeq(text, 1, k) /\ replaced' = 0
Replace ==
  \E a \in Patterns, b \in Replacements :
    /\ call' = <<"replace", a, b>>
    /\ text' = Replaced(text, a, b)
    /\ replaced' = Occurrences(text, a)
\* clear, free and create leave an empty text, new a text of its own.
Empty == call' \in {<<"clear">>, <<"free">>, <<"create">>} /\ text' = <<>> /\ replaced' = 0
New == \E s \in Texts : call' = <<"new", s>> /\ text' = s /\ replaced' = 0

Next == AppendText \/ Trim \/ Delete \/ Replace \/ Empty \/ New
Spec == Init /\ [][Next]_vars
=============================================================================
