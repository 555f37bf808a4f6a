--------------------------- MODULE ProcessMonitor ---------------------------
(***************************************************************************)
(* ProcessMonitor::logTopCpu and logTopRam of src/process_monitor.cpp,     *)
(* with collectTopInfo of process_monitor.h.  logTopCpu of all processes   *)
(* starts a thread per listed process; each has a monitor of its own and   *)
(* writes its table into its slot of a vector of the first thread, which   *)
(* joins them all before it reads the slots.                               *)
(*                                                                         *)
(* Thread 0 is the caller, thread i > 0 the one of topProcessInfos[i-1].   *)
(* A process tree is abstracted to whether it could be read and when (its  *)
(* construction is ProcessTree, the choice of the greatest TopProcesses).  *)
(***************************************************************************)
EXTENDS Integers, Sequences, FiniteSets

CONSTANTS
  Kinds,     \* the monitors: "all" (ALL_PROCESSES), "one" (a process)
  Ops,       \* the calls: "cpu" (logTopCpu), "ram" (logTopRam)
  Pids,      \* the processes that run at the start
  LogCount,  \* logCount_
  Interval,  \* monitorInterval_
  MaxTime,   \* bound: the clock, while no thread sleeps
  Paces      \* the values of prompt

ASSUME KindsAssumption == Kinds \subseteq {"all", "one"} /\ Ops \subseteq {"cpu", "ram"}
ASSUME PidsAssumption  == IsFiniteSet(Pids) /\ Pids # {}
ASSUME CountAssumption == LogCount \in Nat
ASSUME TimeAssumption  == Interval \in Nat \ {0} /\ MaxTime \in Nat /\ Paces \subseteq BOOLEAN

VARIABLES
  kind,     \* pid_
  op,       \* the function called
  prompt,   \* TRUE: running takes no time compared with Interval
  alive,    \* the processes that run
  now,      \* the time
  at,       \* where each thread is
  wake,     \* when its sleep_for ends
  first,    \* when its first tree was read, NONE if it could not be
  infos,    \* topProcessInfos: pids ("one": tids, for which the pid stands)
  measured, \* when the second tree of the caller was read
  slots,    \* topProcessThreadInfos
  lines     \* what was written: a process and its table

vars == <<kind, op, prompt, alive, now, at, wake, first, infos, measured, slots, lines>>

NONE == -1
Threads == 0 .. LogCount
Workers == Threads \ {0}
Target == CHOOSE p \in Pids : TRUE  \* the process of a monitor of one process
NoTable == [pid |-> NONE, from |-> NONE, to |-> NONE]

Init ==
  /\ kind \in Kinds /\ op \in Ops /\ prompt \in Paces
  /\ alive \in SUBSET Pids \ {{}} /\ now = 0
  /\ at = [t \in Threads |-> IF t = 0 THEN "construct" ELSE "unborn"]
  /\ wake = [t \in Threads |-> 0]
  /\ first = [t \in Threads |-> NONE]
  /\ infos = <<>> /\ measured = NONE /\ slots = <<>> /\ lines = <<>>

\* Mutant: the lambda captures process by reference.
PidOfLast(t) == IF t = 0 THEN Target ELSE infos[Cardinality({u \in Workers : at[u] # "unborn"})]

\* The pid a thread's monitor was made with; a worker has a copy.
PidOf(t) == IF t = 0 THEN Target ELSE infos[t]

\* A tree of all processes can always be read (the caller is one of them).
Readable(t) == (t = 0 /\ kind = "all") \/ PidOf(t) \in alive

Running == at[0] # "terminated"

-----------------------------------------------------------------------------
(* collectTopInfo, in any thread. *)

\* Mutant: the sleep does not depend on the type.
ConstructThenSleep(t) ==
  /\ Running /\ at[t] = "construct"
  /\ first' = [first EXCEPT ![t] = IF Readable(t) THEN now ELSE NONE]
  /\ wake' = [wake EXCEPT ![t] = now + Interval]
  /\ at' = [at EXCEPT ![t] = "sleep"]
  /\ UNCHANGED <<kind, op, prompt, alive, now, infos, measured, slots, lines>>

\* The constructor of the tree reads it for the first time.
Construct(t) ==
  /\ Running /\ at[t] = "construct"
  /\ first' = [first EXCEPT ![t] = IF Readable(t) THEN now ELSE NONE]
  /\ wake' = [wake EXCEPT ![t] = now + Interval]
  /\ at' = [at EXCEPT ![t] = IF t = 0 /\ op = "ram" THEN "top" ELSE "sleep"]
  /\ UNCHANGED <<kind, op, prompt, alive, now, infos, measured, slots, lines>>

\* Mutant: the second reading is not delayed.
WorkerUpdateEarly(t) ==
  /\ Running /\ t # 0 /\ at[t] = "sleep"
  /\ slots' = [slots EXCEPT ![t] = IF Readable(t)
                                   THEN [pid |-> PidOf(t), from |-> first[t], to |-> now]
                                   ELSE [NoTable EXCEPT !.pid = PidOf(t)]]
  /\ at' = [at EXCEPT ![t] = "finished"]
  /\ UNCHANGED <<kind, op, prompt, alive, now, wake, first, infos, measured, lines>>

\* sleep_for is over and the tree is read again.  A worker's table is what it got, over the
\* time since the first reading; it is empty when there was nothing to read.
WorkerUpdate(t) ==
  /\ Running /\ t # 0 /\ at[t] = "sleep" /\ now >= wake[t]
  /\ slots' = [slots EXCEPT ![t] = IF Readable(t)
                                   THEN [pid |-> PidOf(t), from |-> first[t], to |-> now]
                                   ELSE [NoTable EXCEPT !.pid = PidOf(t)]]
  /\ at' = [at EXCEPT ![t] = "finished"]
  /\ UNCHANGED <<kind, op, prompt, alive, now, wake, first, infos, measured, lines>>

Update ==
  /\ Running /\ at[0] = "sleep" /\ now >= wake[0]
  /\ measured' = IF Readable(0) THEN now ELSE NONE
  /\ at' = [at EXCEPT ![0] = "top"]
  /\ UNCHANGED <<kind, op, prompt, alive, now, wake, first, infos, slots, lines>>

\* The greatest entries of the last tree: none if there is no tree.  (An entry may be there
\* twice: see TopProcesses.)
Tops ==
  IF (IF op = "cpu" THEN measured ELSE first[0]) = NONE THEN {<<>>}
  ELSE LET ids == IF kind = "all" THEN Pids ELSE {Target}
       IN UNION {[1 .. n -> ids] : n \in 0 .. LogCount}

\* topProcessInfos is there, and for the threads' tables a slot for each of its entries.
Top ==
  /\ Running /\ at[0] = "top"
  /\ infos' \in Tops
  /\ slots' = IF op = "cpu" /\ kind = "all" THEN [i \in DOMAIN infos' |-> NoTable] ELSE <<>>
  /\ at' = [at EXCEPT ![0] = IF op = "cpu" /\ kind = "all" THEN "spawn" ELSE "log"]
  /\ UNCHANGED <<kind, op, prompt, alive, now, wake, first, measured, lines>>

-----------------------------------------------------------------------------
(* The rest of logTopCpu and logTopRam, in the caller's thread. *)

Born == {t \in Workers : at[t] # "unborn"}

Spawn ==
  /\ Running /\ at[0] = "spawn" /\ Cardinality(Born) < Len(infos)
  /\ at' = [at EXCEPT ![Cardinality(Born) + 1] = "construct"]
  /\ UNCHANGED <<kind, op, prompt, alive, now, wake, first, infos, measured, slots, lines>>

\* A thread cannot be created: the exception destroys the vector of threads, and that of one
\* that was started and not joined is std::terminate().
SpawnFails ==
  /\ Running /\ at[0] = "spawn" /\ Cardinality(Born) < Len(infos)
  /\ at' = [at EXCEPT ![0] = IF Born = {} THEN "thrown" ELSE "terminated"]
  /\ UNCHANGED <<kind, op, prompt, alive, now, wake, first, infos, measured, slots, lines>>

\* Mutant: the loop starts at the second thread.
JoinSkipsFirst ==
  /\ Running /\ at[0] = "spawn" /\ Cardinality(Born) = Len(infos)
  /\ \A t \in Born \ {1} : at[t] = "finished"
  /\ at' = [at EXCEPT ![0] = "log"]
  /\ UNCHANGED <<kind, op, prompt, alive, now, wake, first, infos, measured, slots, lines>>

\* Mutant: the caller waits for as many threads as it may list processes.
JoinWaitsForAll ==
  /\ Running /\ at[0] = "spawn" /\ Cardinality(Born) = Len(infos)
  /\ \A t \in Workers : at[t] = "finished"
  /\ at' = [at EXCEPT ![0] = "log"]
  /\ UNCHANGED <<kind, op, prompt, alive, now, wake, first, infos, measured, slots, lines>>

\* The loop of joins, which ends when the last thread has.
Join ==
  /\ Running /\ at[0] = "spawn" /\ Cardinality(Born) = Len(infos)
  /\ \A t \in Born : at[t] = "finished"
  /\ at' = [at EXCEPT ![0] = "log"]
  /\ UNCHANGED <<kind, op, prompt, alive, now, wake, first, infos, measured, slots, lines>>

\* logTopRam stops after the first entry when it monitors one process.
LastLine == IF op = "ram" /\ kind = "one" /\ Len(infos) > 1 THEN 1 ELSE Len(infos)

Log ==
  /\ Running /\ at[0] = "log" /\ Len(lines) < LastLine
  /\ LET i == Len(lines) + 1
     IN lines' = Append(lines, [process |-> infos[i],
                                table |-> IF slots = <<>> THEN NoTable ELSE slots[i]])
  /\ UNCHANGED <<kind, op, prompt, alive, now, at, wake, first, infos, measured, slots>>

Return ==
  /\ Running /\ at[0] = "log" /\ Len(lines) = LastLine
  /\ at' = [at EXCEPT ![0] = "returned"]
  /\ UNCHANGED <<kind, op, prompt, alive, now, wake, first, infos, measured, slots, lines>>

-----------------------------------------------------------------------------
Worker(t) == t \in Workers /\ (Construct(t) \/ WorkerUpdate(t))
Caller == Construct(0) \/ Update \/ Top \/ Spawn \/ SpawnFails \/ Join \/ Log \/ Return

Asleep(t) == at[t] = "sleep" /\ now < wake[t]

\* Time passes; when prompt, only while every thread sleeps, waits or is over.
Tick ==
  /\ now < MaxTime \/ \E t \in Threads : Asleep(t)
  /\ prompt => \A t \in Threads : \/ Asleep(t)
                                  \/ at[t] \in {"unborn", "finished", "returned", "thrown", "terminated"}
                                  \/ t = 0 /\ at[t] = "spawn" /\ Cardinality(Born) = Len(infos)
                                       /\ \E u \in Born : at[u] # "finished"
  /\ now' = now + 1
  /\ UNCHANGED <<kind, op, prompt, alive, at, wake, first, infos, measured, slots, lines>>

\* A monitored process exits.
Exit ==
  /\ \E p \in alive : alive' = alive \ {p}
  /\ UNCHANGED <<kind, op, prompt, now, at, wake, first, infos, measured, slots, lines>>

Next == Caller \/ (\E t \in Workers : Worker(t)) \/ Tick \/ Exit

\* Each thread is scheduled, and time passes.
Fairness == WF_vars(Caller) /\ WF_vars(Tick) /\ \A t \in Workers : WF_vars(Worker(t))
Spec == Init /\ [][Next]_vars /\ Fairness

-----------------------------------------------------------------------------
Places == {"unborn", "construct", "sleep", "top", "spawn", "log", "finished", "returned", "thrown", "terminated"}
\* No thread sleeps beyond the horizon: one after another, at worst.
Horizon == MaxTime + (LogCount + 1) * Interval
Times == 0 .. Horizon
Tables == [pid: Pids \cup {NONE}, from: Times \cup {NONE}, to: Times \cup {NONE}]

TypeOK ==
  /\ kind \in Kinds /\ op \in Ops /\ prompt \in Paces
  /\ alive \subseteq Pids /\ now \in Times
  /\ at \in [Threads -> Places]
  /\ wake \in [Threads -> Times]
  /\ first \in [Threads -> Times \cup {NONE}]
  /\ infos \in Seq(Pids) /\ Len(infos) <= LogCount
  /\ measured \in Times \cup {NONE}
  /\ slots \in Seq(Tables)
  /\ lines \in Seq([process: Pids, table: Tables])

\* The slots are variables of the caller's function: it does not leave, or read them, while
\* a thread that will still write to one exists.
SlotsOutliveWorkers ==
  at[0] \in {"log", "returned", "thrown"} => \A t \in Workers : at[t] \in {"unborn", "finished"}

\* No line pairs a process with another's table, or with a table that was not obtained.
LinesPaired ==
  \A i \in DOMAIN lines : kind = "all" /\ op = "cpu" => lines[i].table.pid = lines[i].process

\* "First monitorInterval_ for top processes' CPU usages, second monitorInterval for their top
\* threads'": a table that is not empty was measured over an interval at least, and after the
\* processes'.
SecondInterval ==
  \A i \in DOMAIN lines :
    LET table == lines[i].table
    IN table.to # NONE =>
         /\ table.from # NONE /\ table.to - table.from >= Interval
         /\ table.from >= measured /\ measured - first[0] >= Interval

\* "And total cost time is about two monitorInterval_": exactly two when running takes no
\* time, however many processes are listed; one when there is nobody to list threads of.
TotalTime ==
  prompt /\ at[0] = "log" =>
    now = IF op = "ram" THEN 0 ELSE IF slots = <<>> THEN Interval ELSE 2 * Interval

\* The caller gets the report, unless a thread could not be created.
Returns == <>(at[0] \in {"returned", "thrown", "terminated"})

\* The threads and the order they run in do not show: logTopCpu of all processes implements
\* MonitorReport (the other calls start no thread, and report nothing in its sense).
Started(x, nothing) == IF kind = "all" /\ op = "cpu" THEN x ELSE nothing
Report == INSTANCE MonitorReport WITH
  Ids <- Pids, MaxLines <- LogCount,
  list <- Started(infos, <<>>),
  state <- Started(CASE at[0] \in {"construct", "sleep", "top"} -> "taking"
                     [] at[0] \in {"spawn", "thrown", "terminated"} -> "filling"
                     [] OTHER -> "writing", "taking"),
  filled <- {i \in DOMAIN slots : at[i] = "finished"},
  lines <- Started([i \in DOMAIN lines |-> [process |-> lines[i].process,
                                            table |-> lines[i].table.pid]], <<>>)
ReportsInOrder == Report!Spec
=============================================================================
