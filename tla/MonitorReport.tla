--------------------------- MODULE MonitorReport ---------------------------
(***************************************************************************)
(* What logTopCpu promises, whatever threads it uses: it takes a list of   *)
(* processes, obtains for each of them one table of its threads, and       *)
(* writes the processes in the order of the list, each followed by its     *)
(* own table, once all the tables are there.                               *)
(***************************************************************************)
EXTENDS Integers, Sequences

CONSTANTS
  Ids,      \* the pids (or tids) listed
  MaxLines  \* the length of the list

VARIABLES
  state,   \* "taking", "filling" or "writing"
  list,    \* the processes
  filled,  \* the positions whose table was obtained
  lines    \* what was written: process and owner of the table

vars == <<state, list, filled, lines>>

NoList == <<>>

Init == state = "taking" /\ list = NoList /\ filled = {} /\ lines = <<>>

Take ==
  /\ state = "taking"
  /\ state' = "filling"
  /\ list' \in UNION {[1 .. n -> Ids] : n \in 0 .. MaxLines}
  /\ UNCHANGED <<filled, lines>>

Fill ==
  /\ state = "filling"
  /\ \E i \in DOMAIN list \ filled : filled' = filled \cup {i}
  /\ UNCHANGED <<state, list, lines>>

Complete ==
  /\ state = "filling" /\ filled = DOMAIN list
  /\ state' = "writing"
  /\ UNCHANGED <<list, filled, lines>>

Write ==
  /\ state = "writing" /\ Len(lines) < Len(list)
  /\ LET id == list[Len(lines) + 1] IN lines' = Append(lines, [process |-> id, table |-> id])
  /\ UNCHANGED <<state, list, filled>>

Next == Take \/ Fill \/ Complete \/ Write

Spec == Init /\ [][Next]_vars
=============================================================================
