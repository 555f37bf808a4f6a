----------------------------- MODULE MCStrings -----------------------------
(***************************************************************************)
(* A StringBuffer is used, and then the functions of Str on a duplicate of *)
(* its text or of another string: as ProcessTree.c takes the command line  *)
(* of a process, and then any function on what it took.                    *)
(***************************************************************************)
EXTENDS StringBuffer, Str

MCTexts == {<<>>, <<" ">>, <<"a">>, <<"b", "a">>}
\* No pattern overlaps itself; "aa" does.
MCPatterns == {<<"a">>, <<"b", "a">>, <<"a", " ">>}
OverlappingPatterns == {<<"a">>, <<"a", "a">>}
MCReplacements == {<<>>, <<"a">>, <<"b", "a">>, <<"b", "b", "a">>}

MCStrings == {<<" ", "a">>, <<"a", "'">>, <<"a", "b", "a", "\n">>, <<"'", "A", " ", "'">>,
              <<"\\", "\\", "'", "b">>}
MCArguments == {<<>>, <<"b", "A">>, <<"'", "\\", "a">>}

\* Str_dup(StringBuffer_toString(S)), and the buffer is freed.
TakeText ==
  /\ state = "ready" /\ s = NoString
  /\ fn' = <<"dup", CString(buffer)>> /\ s' = Str_dup(CString(buffer))
  /\ state' = "none" /\ buffer' = NoMemory /\ used' = 0 /\ length' = 0 /\ call' = <<"free">>
  /\ n' = 0 /\ UNCHANGED <<i, m>>

MCInit == Init /\ StrInit
MCNext ==
  \/ s = NoString /\ Next /\ UNCHANGED strvars
  \/ state = "none" /\ StrNext /\ UNCHANGED vars
  \/ TakeText
MCSpec == MCInit /\ [][MCNext]_<<vars, strvars>> /\ WF_vars(ReplaceStep)
=============================================================================
