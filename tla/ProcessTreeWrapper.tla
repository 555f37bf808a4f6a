------------------------- MODULE ProcessTreeWrapper -------------------------
(***************************************************************************)
(* A ProcessTreeWrapper, from its constructor to its destructor: it owns a *)
(* tree, refreshes it with ProcessTree_init, is asked for top processes    *)
(* between two refreshes, and deletes it.  The composition of ProcessTree  *)
(* and TopProcesses.  Objects live one after another.                      *)
(***************************************************************************)
EXTENDS ProcessTree

CONSTANT Counts  \* the values of count

ASSUME CountsAssumption == Counts \subseteq Int

VARIABLES
  object,  \* "none", "updating" (in update()), "ready", or "aborted" (the program, by an assertion)
  type, count, step, i, pq, front, ret,  \* the call of getTopProcessInfos: see TopProcesses
  seen     \* history: the pids that the update before the last one (or the one in progress) returned

query == <<type, count, step, i, pq, front, ret>>
wvars == <<vars, object, query, seen>>

\* What a query reads of the tree.
Tree == [k \in Idx |-> [pid |-> pt[k].pid, cpu |-> pt[k].self, ram |-> pt[k].mem]]
TreePids == {pt[k].pid : k \in Idx}
Query == INSTANCE TopProcesses WITH tree <- Tree

WInit == Init /\ object = "none" /\ Query!Init /\ seen = {}

\* The constructor calls update(), which calls ProcessTree_init.
Update ==
  /\ object \in {"none", "ready"} /\ step \in {"idle", "done"}
  /\ Begin
  /\ object' = "updating"
  /\ seen' = IF result < 0 THEN {} ELSE TreePids
  /\ Query!Forget

Refresh ==
  /\ object = "updating" /\ pc # "idle"
  /\ Step
  /\ UNCHANGED <<object, query, seen>>

\* assert(treeSize >= 0), for all processes only.
Updated ==
  /\ object = "updating" /\ pc = "idle"
  /\ object' = IF mode = "all" /\ result < 0 THEN "aborted" ELSE "ready"
  /\ UNCHANGED <<vars, query, seen>>

GetTop == object = "ready" /\ UNCHANGED <<vars, object, seen>> /\ Query!Call
GetTopStep == object = "ready" /\ UNCHANGED <<vars, object, seen>> /\ Query!Step

Destroy ==
  /\ object = "ready" /\ step \in {"idle", "done"}
  /\ Delete
  /\ object' = "none" /\ seen' = {} /\ Query!Forget

WNext == Update \/ Refresh \/ Updated \/ GetTop \/ GetTopStep \/ Destroy

\* The thread that calls a function runs until it returns.
WSpec == WInit /\ [][WNext]_wvars /\ WF_wvars(Refresh \/ Updated) /\ WF_wvars(GetTopStep)

-----------------------------------------------------------------------------
(* Properties. *)

\* What getTopProcessInfos lists is a top of the entries of the current tree whose pid is not
\* 0: see TopProcesses.
TopOfReal == Query!TopOfReal

\* CPU usage takes two readings: whatever failed before, it is known of no process that the
\* update just before did not return, and so of none when that update failed.
UsageNeedsTwoReadings ==
  object = "ready" => \A k \in Idx : pt[k].self # -1 => pt[k].pid \in seen

\* A clock that could not be read gives no usage in that update: none is known then.
NoClockNoUsage ==
  object = "ready" /\ time = 0 => \A k \in Idx : pt[k].self = -1

\* Updates and queries return, whatever count is asked for.
Answers ==
  /\ object = "updating" ~> object # "updating"
  /\ step = "push" ~> step = "done"

-----------------------------------------------------------------------------
(* What a comment promises and the code does not keep: see TopProcesses. *)
ListedOnce == Query!ListedOnce
=============================================================================
