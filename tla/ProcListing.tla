---------------------------- MODULE ProcListing ----------------------------
(***************************************************************************)
(* What a scan of /proc promises to ProcessTree_init: a set of pids is     *)
(* listed, they are decided one by one in the order of the list, each      *)
(* published or skipped, and the caller takes the array when all of them   *)
(* are.  Both ProcScan, which reads the files of one scan, and             *)
(* ProcessTree, which scans again and again, are shown to implement it.    *)
(***************************************************************************)
EXTENDS Integers, Sequences

CONSTANT Pids  \* numbered in the order in which glob() sorts their names

VARIABLES
  todo,      \* the pids not decided yet
  published  \* the pids of the array, in its order

vars == <<todo, published>>

Init == todo \in SUBSET Pids /\ published = <<>>

List ==
  /\ todo = {} /\ published = <<>>
  /\ todo' \in SUBSET Pids \ {{}}
  /\ published' = <<>>

IsNext(p) == p \in todo /\ \A q \in todo : p <= q

Decide ==
  \E p \in todo :
    /\ IsNext(p)
    /\ todo' = todo \ {p}
    /\ published' \in {published, Append(published, p)}

Take == todo = {} /\ published' = <<>> /\ UNCHANGED todo

Next == List \/ Decide \/ Take

Safety == Init /\ [][Next]_vars

\* A listed pid is decided at last.
Spec == Safety /\ WF_vars(Decide)
=============================================================================
