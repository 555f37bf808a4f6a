------------------------ MODULE ProcessMonitorProofs ------------------------
(***************************************************************************)
(* Theorems about ProcessMonitor, for any number of worker threads at any  *)
(* speed: the caller outlives its workers, tables are measured when the    *)
(* comment of the code says, and the threads do not show in the report.    *)
(***************************************************************************)
EXTENDS ProcessMonitor, FiniteSetTheorems, TLAPS

Threaded == kind = "all" /\ op = "cpu"
Moments == Nat \cup {NONE}
Measures == [pid: Pids \cup {NONE}, from: Moments, to: Moments]

\* The values, without the bounds of a run.
MonTypes ==
  /\ kind \in {"all", "one"} /\ op \in {"cpu", "ram"} /\ prompt \in BOOLEAN
  /\ now \in Nat
  /\ at \in [Threads -> Places] /\ at[0] \notin {"unborn", "finished"}
  /\ \A t \in Workers : at[t] \in {"unborn", "construct", "sleep", "finished"}
  /\ wake \in [Threads -> Nat] /\ first \in [Threads -> Moments]
  /\ infos \in Seq(Pids) /\ Len(infos) <= LogCount
  /\ measured \in Moments /\ measured <= now
  /\ slots \in Seq(Measures)
  /\ lines \in Seq([process: Pids, table: Measures])

\* The caller's frame: what there is of lists, slots, threads and lines at each place.
FrameInv ==
  /\ at[0] \in {"construct", "sleep", "top"} => infos = <<>>
  /\ at[0] \in {"spawn", "thrown", "terminated"} => Threaded
  /\ at[0] = "sleep" => op = "cpu"
  /\ Len(slots) = IF Threaded THEN Len(infos) ELSE 0
  /\ lines # <<>> => at[0] \in {"log", "returned"}

\* Threads are started in the order of their slots, at most one for each slot.
BornInv == \E k \in 0 .. Len(slots) : Born = 1 .. k

\* After the joins all have finished; an exception gets out only when none was started.
JoinInv ==
  /\ at[0] \in {"log", "returned"} => Born = DOMAIN slots /\ \A t \in Born : at[t] = "finished"
  /\ at[0] = "thrown" => Born = {}

\* The caller's two readings of all processes, an interval apart.
CallerInv ==
  Threaded =>
    /\ at[0] # "construct" => first[0] \in Nat
    /\ at[0] = "sleep" => wake[0] = first[0] + Interval
    /\ at[0] \notin {"construct", "sleep"} => measured \in Nat /\ measured - first[0] >= Interval

\* What a worker has read: a process that it found gone stays gone.
WorkerInv ==
  \A t \in Born :
    /\ at[t] # "construct" =>
         IF first[t] = NONE THEN infos[t] \notin alive
         ELSE wake[t] = first[t] + Interval /\ first[t] >= measured
    /\ at[t] = "finished" =>
         /\ slots[t].pid = infos[t]
         /\ slots[t].to # NONE => /\ slots[t].from # NONE /\ slots[t].from >= measured
                                  /\ slots[t].to - slots[t].from >= Interval

\* A line is a process of the list with what is in its slot.
LineInv ==
  /\ Len(lines) <= Len(infos)
  /\ \A i \in DOMAIN lines :
       lines[i] = [process |-> infos[i], table |-> IF slots = <<>> THEN NoTable ELSE slots[i]]

\* When running takes no time: the time at each place.
PromptInv ==
  prompt =>
    /\ at[0] = "construct" => now = 0
    /\ at[0] = "sleep" => wake[0] = Interval /\ now <= Interval
    /\ at[0] = "top" => now = IF op = "ram" THEN 0 ELSE Interval
    /\ at[0] = "spawn" =>
         /\ now <= 2 * Interval
         /\ Born # DOMAIN slots \/ slots = <<>> => now = Interval
         /\ \A t \in Born : /\ at[t] = "construct" => now = Interval
                            /\ at[t] = "sleep" => wake[t] = 2 * Interval
                            /\ at[t] = "finished" => now = 2 * Interval
    /\ at[0] = "log" =>
         now = IF op = "ram" THEN 0 ELSE IF slots = <<>> THEN Interval ELSE 2 * Interval

MonInv == MonTypes /\ FrameInv /\ BornInv /\ JoinInv /\ CallerInv /\ WorkerInv /\ LineInv /\ PromptInv

-----------------------------------------------------------------------------
(* Facts about the threads, whatever step comes. *)

LEMMA ThreadsAre ==
  /\ 0 \in Threads /\ Workers \subseteq Threads /\ \A t \in Workers : t \in Nat /\ t > 0 /\ t <= LogCount
  /\ \A t \in 1 .. LogCount : t \in Workers
BY CountAssumption DEF Threads, Workers

\* The number of threads is the number of the last.
LEMMA CountIs ==
  ASSUME MonTypes, FrameInv, BornInv
  PROVE  /\ Cardinality(Born) \in 0 .. Len(slots) /\ Born = 1 .. Cardinality(Born)
         /\ Len(slots) \in Nat /\ Len(slots) <= Len(infos) /\ DOMAIN slots = 1 .. Len(slots)
         /\ Len(infos) \in Nat /\ Len(infos) <= LogCount /\ DOMAIN infos = 1 .. Len(infos)
<1>1. PICK k \in 0 .. Len(slots) : Born = 1 .. k
  BY DEF BornInv
<1>2. Len(slots) \in Nat /\ DOMAIN slots = 1 .. Len(slots) /\ Len(infos) \in Nat /\ DOMAIN infos = 1 .. Len(infos)
  BY DEF MonTypes
<1>3. k \in Nat /\ 1 \in Int /\ k \in Int
  BY <1>1, <1>2
<1>4. Cardinality(1 .. k) = k
  BY <1>3, FS_Interval
<1> QED BY <1>1, <1>2, <1>4 DEF FrameInv, MonTypes

\* The pid of a worker is that of its slot, one of the pids.
LEMMA WorkerPid ==
  ASSUME MonTypes, FrameInv, BornInv, NEW t \in Born
  PROVE  /\ t \in Workers /\ t \in DOMAIN slots /\ t \in DOMAIN infos /\ t # 0
         /\ PidOf(t) = infos[t] /\ infos[t] \in Pids /\ Threaded
<1>1. t \in Workers /\ t # 0
  BY DEF Born, Workers
<1>2. t \in 1 .. Cardinality(Born)
  BY CountIs
<1>3. t \in DOMAIN slots /\ t \in DOMAIN infos
  BY <1>2, CountIs
<1>4. infos[t] \in Pids
  BY <1>3 DEF MonTypes
<1>5. Threaded
  BY <1>3, CountIs DEF FrameInv
<1> QED BY <1>1, <1>3, <1>4, <1>5 DEF PidOf

\* A worker that has not finished is running beside a caller that starts or joins threads.
LEMMA AtWork ==
  ASSUME MonInv, Running, NEW t \in Born, at[t] # "finished"
  PROVE  at[0] = "spawn"
<1>1. at[0] \in Places
  BY ThreadsAre DEF MonInv, MonTypes
<1>2. at[0] \notin {"construct", "sleep", "top"}
  <2>1. SUFFICES ASSUME at[0] \in {"construct", "sleep", "top"} PROVE FALSE
    OBVIOUS
  <2>2. infos = <<>>
    BY <2>1 DEF MonInv, FrameInv
  <2> QED BY <2>2, WorkerPid DEF MonInv
<1>3. at[0] \notin {"log", "returned", "thrown"}
  BY DEF MonInv, JoinInv
<1> QED BY <1>1, <1>2, <1>3, ThreadsAre DEF Places, Running, MonInv, MonTypes

-----------------------------------------------------------------------------
(* Every action keeps the invariant. *)

LEMMA MonInit == Init => MonInv
<1> SUFFICES ASSUME Init PROVE MonInv
  OBVIOUS
<1> USE ThreadsAre DEF Init, NONE, Moments
<1>1. Born = {} /\ at[0] = "construct"
  BY DEF Born, Workers
<1>2. MonTypes
  BY KindsAssumption, TimeAssumption, CountAssumption DEF MonTypes, Places, Workers
<1>3. FrameInv /\ JoinInv /\ CallerInv /\ WorkerInv /\ LineInv /\ PromptInv
  BY <1>1 DEF FrameInv, JoinInv, CallerInv, WorkerInv, LineInv, PromptInv
<1>4. BornInv
  <2>1. 0 \in 0 .. Len(slots) /\ 1 .. 0 = {}
    OBVIOUS
  <2> QED BY <2>1, <1>1 DEF BornInv
<1> QED BY <1>2, <1>3, <1>4 DEF MonInv

LEMMA MonTick == MonInv /\ Tick => MonInv'
<1> SUFFICES ASSUME MonInv, Tick PROVE MonInv'
  OBVIOUS
<1> USE ThreadsAre DEF MonInv, Tick
<1>1. Born' = Born /\ now' \in Nat /\ now \in Nat /\ now' = now + 1
  BY DEF Born, MonTypes
<1>2. MonTypes'
  BY <1>1 DEF MonTypes, Moments, NONE
<1>3. FrameInv' /\ BornInv' /\ JoinInv' /\ CallerInv' /\ WorkerInv' /\ LineInv'
  BY <1>1 DEF FrameInv, BornInv, JoinInv, CallerInv, WorkerInv, LineInv, Threaded
<1>4. PromptInv'
  <2> SUFFICES ASSUME prompt PROVE PromptInv'
    BY DEF PromptInv
  <2>1. \A t \in Threads : \/ Asleep(t)
                           \/ at[t] \in {"unborn", "finished", "returned", "thrown", "terminated"}
                           \/ t = 0 /\ at[t] = "spawn" /\ Cardinality(Born) = Len(infos)
                                /\ \E u \in Born : at[u] # "finished"
    OBVIOUS
  <2>2. at[0] \notin {"construct", "top", "log"}
    BY <2>1 DEF Asleep
  <2>3. CASE at[0] = "sleep"
    <3>1. now < wake[0] /\ wake[0] = Interval
      BY <2>1, <2>3 DEF Asleep, PromptInv
    <3> QED BY <3>1, <2>3, <1>1, TimeAssumption DEF PromptInv
  <2>4. CASE at[0] = "spawn"
    <3>1. PICK u \in Born : at[u] # "finished"
      BY <2>1, <2>4 DEF Asleep
    <3>2. Cardinality(Born) = Len(infos) /\ u \in Workers /\ at[u] # "unborn"
      BY <2>1, <2>4 DEF Asleep, Born
    <3>3. Asleep(u)
      BY <2>1, <3>1, <3>2, WorkerPid DEF MonTypes
    <3>4. now < 2 * Interval /\ at[u] = "sleep"
      BY <3>1, <3>3, <2>4 DEF Asleep, PromptInv
    <3>5. \A t \in Born : at[t] = "sleep"
      <4> TAKE t \in Born
      <4>1. t \in Workers /\ at[t] # "unborn" /\ t # 0
        BY DEF Born, Workers
      <4>2. at[t] # "construct"
        BY <2>1, <4>1 DEF Asleep
      <4>3. at[t] # "finished"
        BY <3>4, <2>4, TimeAssumption DEF PromptInv
      <4> QED BY <4>1, <4>2, <4>3 DEF MonTypes
    <3>6. Born = DOMAIN slots /\ slots # <<>>
      <4>1. Cardinality(Born) = Len(slots)
        BY <3>2, <2>4, CountIs DEF FrameInv
      <4>2. Born = DOMAIN slots
        BY <4>1, CountIs
      <4> QED BY <4>2, <3>1
    <3> QED BY <3>4, <3>5, <3>6, <2>4, <1>1, TimeAssumption DEF PromptInv
  <2> QED BY <2>2, <2>3, <2>4 DEF PromptInv
<1> QED BY <1>2, <1>3, <1>4

LEMMA MonExit == MonInv /\ Exit => MonInv'
<1> SUFFICES ASSUME MonInv, Exit PROVE MonInv'
  OBVIOUS
<1> USE DEF MonInv, Exit
<1>1. Born' = Born /\ alive' \subseteq alive
  BY DEF Born
<1>2. MonTypes'
  BY DEF MonTypes
<1>3. FrameInv' /\ BornInv' /\ JoinInv' /\ CallerInv'
  BY <1>1 DEF FrameInv, BornInv, JoinInv, CallerInv, Threaded
<1>4. LineInv'
  BY DEF LineInv
<1>5. PromptInv'
  BY <1>1 DEF PromptInv
<1>6. WorkerInv'
  BY <1>1 DEF WorkerInv
<1> QED BY <1>2, <1>3, <1>4, <1>5, <1>6

\* The steps of the caller before there is a list.
LEMMA MonConstruct0 == MonInv /\ Construct(0) => MonInv'
<1> SUFFICES ASSUME MonInv, Construct(0) PROVE MonInv'
  OBVIOUS
<1> USE ThreadsAre DEF MonInv, Construct
<1>1. Born' = Born /\ now \in Nat
  BY DEF Born, Workers, MonTypes
<1>2. at'[0] = (IF op = "ram" THEN "top" ELSE "sleep") /\ wake'[0] = now + Interval
      /\ first'[0] = IF Readable(0) THEN now ELSE NONE
  BY DEF MonTypes
<1>3. \A t \in Workers : at'[t] = at[t] /\ wake'[t] = wake[t] /\ first'[t] = first[t]
  BY DEF MonTypes, Workers
<1>4. MonTypes'
  <2>1. at' \in [Threads -> Places] /\ wake' \in [Threads -> Nat] /\ first' \in [Threads -> Moments]
    BY TimeAssumption DEF MonTypes, Places, Moments
  <2> QED BY <2>1, <1>2, <1>3 DEF MonTypes
<1>5. infos = <<>> /\ lines = <<>> /\ slots = <<>> /\ Born = {}
  <2>1. infos = <<>> /\ lines = <<>>
    BY DEF FrameInv
  <2>2. slots = <<>>
    BY <2>1, CountIs DEF FrameInv, MonTypes
  <2> QED BY <2>1, <2>2, CountIs
<1>6. FrameInv' /\ JoinInv' /\ WorkerInv' /\ LineInv'
  BY <1>1, <1>2, <1>3, <1>5 DEF FrameInv, JoinInv, WorkerInv, LineInv, Threaded, MonTypes
<1>7. BornInv'
  BY <1>1 DEF BornInv
<1>8. CallerInv'
  BY <1>1, <1>2 DEF CallerInv, Threaded, Readable
<1>9. PromptInv'
  BY <1>1, <1>2, TimeAssumption DEF PromptInv, MonTypes
<1> QED BY <1>4, <1>6, <1>7, <1>8, <1>9

LEMMA MonUpdate == MonInv /\ Update => MonInv'
<1> SUFFICES ASSUME MonInv, Update PROVE MonInv'
  OBVIOUS
<1> USE ThreadsAre DEF MonInv, Update
<1>1. Born' = Born /\ now \in Nat /\ at'[0] = "top"
  BY DEF Born, Workers, MonTypes
<1>3. \A t \in Workers : at'[t] = at[t]
  BY DEF MonTypes, Workers
<1>4. MonTypes'
  <2>1. at' \in [Threads -> Places] /\ measured' \in Moments /\ measured' <= now
    BY DEF MonTypes, Places, Moments, NONE
  <2> QED BY <2>1, <1>1, <1>3 DEF MonTypes
<1>5. infos = <<>> /\ lines = <<>> /\ slots = <<>> /\ Born = {}
  <2>1. infos = <<>> /\ lines = <<>>
    BY DEF FrameInv
  <2>2. slots = <<>>
    BY <2>1, CountIs DEF FrameInv, MonTypes
  <2> QED BY <2>1, <2>2, CountIs
<1>6. FrameInv' /\ JoinInv' /\ WorkerInv' /\ LineInv'
  BY <1>1, <1>3, <1>5 DEF FrameInv, JoinInv, WorkerInv, LineInv, Threaded, MonTypes
<1>7. BornInv'
  BY <1>1 DEF BornInv
<1>8. CallerInv'
  BY <1>1, TimeAssumption DEF CallerInv, Threaded, Readable, MonTypes
<1>9. PromptInv'
  BY <1>1, TimeAssumption DEF PromptInv, FrameInv
<1> QED BY <1>4, <1>6, <1>7, <1>8, <1>9

\* What the tree gives: pids, no more than asked for.
LEMMA TopsAre ==
  ASSUME NEW l \in Tops
  PROVE  l \in Seq(Pids) /\ Len(l) <= LogCount
<1>1. Target \in Pids
  BY PidsAssumption DEF Target
<1>2. CASE l = <<>>
  BY <1>2, CountAssumption
<1>3. CASE l # <<>>
  <2>1. PICK n \in 0 .. LogCount : l \in [1 .. n -> IF kind = "all" THEN Pids ELSE {Target}]
    BY <1>3 DEF Tops
  <2>2. n \in Nat /\ l \in [1 .. n -> Pids]
    BY <2>1, <1>1, CountAssumption
  <2> QED BY <2>1, <2>2, CountAssumption
<1> QED BY <1>2, <1>3

LEMMA MonTop == MonInv /\ Top => MonInv'
<1> SUFFICES ASSUME MonInv, Top PROVE MonInv'
  OBVIOUS
<1> USE ThreadsAre DEF MonInv, Top
<1>1. Born' = Born /\ at'[0] = IF Threaded THEN "spawn" ELSE "log"
  BY DEF Born, Workers, MonTypes, Threaded
<1>2. infos' \in Seq(Pids) /\ Len(infos') <= LogCount
  BY TopsAre
<1>3. \A t \in Workers : at'[t] = at[t]
  BY DEF MonTypes, Workers
<1>4. slots' = (IF Threaded THEN [i \in 1 .. Len(infos') |-> NoTable] ELSE <<>>)
  BY <1>2 DEF Threaded
<1>5. slots' \in Seq(Measures) /\ Len(slots') = IF Threaded THEN Len(infos') ELSE 0
  <2>1. NoTable \in Measures /\ Len(infos') \in Nat
    BY <1>2 DEF NoTable, Measures, Moments
  <2> QED BY <2>1, <1>4
<1>6. MonTypes'
  <2>1. at' \in [Threads -> Places]
    BY DEF MonTypes, Places
  <2> QED BY <2>1, <1>1, <1>2, <1>3, <1>5 DEF MonTypes
<1>7. infos = <<>> /\ lines = <<>> /\ slots = <<>> /\ Born = {}
  <2>1. infos = <<>> /\ lines = <<>>
    BY DEF FrameInv
  <2>2. slots = <<>>
    BY <2>1, CountIs DEF FrameInv, MonTypes
  <2> QED BY <2>1, <2>2, CountIs
<1>8. FrameInv' /\ WorkerInv' /\ LineInv'
  BY <1>1, <1>2, <1>5, <1>7 DEF FrameInv, WorkerInv, LineInv, Threaded
<1>9. BornInv'
  <2>1. Len(slots') \in Nat /\ 1 .. 0 = {}
    BY <1>5
  <2> QED BY <2>1, <1>1, <1>7 DEF BornInv
<1>10. JoinInv'
  BY <1>1, <1>4, <1>7 DEF JoinInv
<1>11. CallerInv'
  BY <1>1 DEF CallerInv, Threaded
<1>12. PromptInv'
  <2>1. prompt => now = IF op = "ram" THEN 0 ELSE Interval
    BY DEF PromptInv
  <2> QED BY <2>1, <1>1, <1>4, <1>7, TimeAssumption DEF PromptInv, Threaded, MonTypes
<1> QED BY <1>6, <1>8, <1>9, <1>10, <1>11, <1>12

-----------------------------------------------------------------------------
(* The steps while there are threads. *)

LEMMA MonSpawn == MonInv /\ Spawn => MonInv'
<1> SUFFICES ASSUME MonInv, Spawn PROVE MonInv'
  OBVIOUS
<1> DEFINE k == Cardinality(Born)
<1> USE ThreadsAre DEF MonInv, Spawn
<1>1. at[0] = "spawn" /\ Threaded /\ k \in Nat /\ k < Len(infos) /\ Len(slots) = Len(infos)
  <2>1. at[0] = "spawn" /\ Threaded /\ Len(slots) = Len(infos) /\ k < Len(infos)
    BY DEF FrameInv
  <2> QED BY <2>1, CountIs
<1>2. k + 1 \in Workers /\ k + 1 \in 1 .. Len(slots) /\ k + 1 \notin Born
  <2>1. Born = 1 .. k /\ Len(slots) <= LogCount /\ Len(slots) \in Nat
    BY <1>1, CountIs
  <2> HIDE DEF k
  <2>2. k + 1 \in 1 .. Len(slots) /\ k + 1 \notin 1 .. k /\ k + 1 \in 1 .. LogCount
    BY <1>1, <2>1, CountAssumption
  <2> QED BY <2>1, <2>2
<1>3. /\ at'[k + 1] = "construct" /\ at[k + 1] = "unborn"
      /\ \A t \in Threads \ {k + 1} : at'[t] = at[t]
      /\ at' \in [Threads -> Places]
  BY <1>2 DEF Born, MonTypes, Places
<1>4. Born' = Born \cup {k + 1}
  BY <1>2, <1>3 DEF Born
<1>5. at'[0] = at[0]
  BY <1>1, <1>3
<1>6. MonTypes'
  BY <1>2, <1>3, <1>5 DEF MonTypes
<1>7. FrameInv' /\ JoinInv' /\ CallerInv' /\ LineInv'
  BY <1>1, <1>5 DEF FrameInv, JoinInv, CallerInv, LineInv, Threaded
<1>8. BornInv'
  <2>1. Born' = 1 .. (k + 1)
    BY <1>1, <1>4, CountIs
  <2>2. k + 1 \in 0 .. Len(slots)
    BY <1>1
  <2> QED BY <2>1, <2>2 DEF BornInv
<1>9. \A t \in Born : t \in Threads \ {k + 1} /\ at'[t] = at[t]
  BY <1>2, <1>3 DEF Born
<1>10. WorkerInv'
  BY <1>3, <1>4, <1>9 DEF WorkerInv
<1>11. PromptInv'
  <2> SUFFICES ASSUME prompt PROVE PromptInv'
    BY DEF PromptInv
  <2>1. Born # DOMAIN slots
    BY <1>2, CountIs
  <2>2. now = Interval
    BY <1>1, <2>1 DEF PromptInv
  <2> QED BY <1>1, <1>3, <1>4, <1>5, <1>9, <2>2, TimeAssumption DEF PromptInv
<1> QED BY <1>6, <1>7, <1>8, <1>10, <1>11

\* The steps that move the caller alone.
LEMMA CallerMoves ==
  ASSUME MonInv, at[0] \in {"spawn", "log"},
         NEW place \in {"log", "returned", "thrown", "terminated"}, at' = [at EXCEPT ![0] = place]
  PROVE  /\ Born' = Born /\ at'[0] = place /\ at' \in [Threads -> Places]
         /\ \A t \in Workers : at'[t] = at[t]
BY ThreadsAre DEF MonInv, MonTypes, Born, Workers, Places

LEMMA MonSpawnFails == MonInv /\ SpawnFails => MonInv'
<1> SUFFICES ASSUME MonInv, SpawnFails PROVE MonInv'
  OBVIOUS
<1> USE DEF MonInv, SpawnFails
<1>1. PICK place \in {"thrown", "terminated"} : at' = [at EXCEPT ![0] = place] /\ (place = "thrown" => Born = {})
  OBVIOUS
<1>2. /\ Born' = Born /\ at'[0] = place /\ at' \in [Threads -> Places]
      /\ \A t \in Workers : at'[t] = at[t]
  BY <1>1, CallerMoves
<1>3. \A t \in Born : t \in Workers
  BY DEF Born
<1>4. MonTypes'
  BY <1>1, <1>2 DEF MonTypes
<1>5. FrameInv' /\ BornInv' /\ JoinInv' /\ CallerInv' /\ LineInv' /\ PromptInv'
  BY <1>1, <1>2 DEF FrameInv, BornInv, JoinInv, CallerInv, LineInv, PromptInv, Threaded
<1>6. WorkerInv'
  BY <1>2, <1>3 DEF WorkerInv
<1> QED BY <1>4, <1>5, <1>6

LEMMA MonJoin == MonInv /\ Join => MonInv'
<1> SUFFICES ASSUME MonInv, Join PROVE MonInv'
  OBVIOUS
<1> USE DEF MonInv, Join
<1>2. /\ Born' = Born /\ at'[0] = "log" /\ at' \in [Threads -> Places]
      /\ \A t \in Workers : at'[t] = at[t]
  BY CallerMoves
<1>3. \A t \in Born : t \in Workers
  BY DEF Born
<1>4. MonTypes'
  BY <1>2 DEF MonTypes
<1>5. FrameInv' /\ BornInv' /\ CallerInv' /\ LineInv'
  BY <1>2 DEF FrameInv, BornInv, CallerInv, LineInv, Threaded
<1>6. WorkerInv'
  BY <1>2, <1>3 DEF WorkerInv
<1>7. Threaded /\ Len(slots) = Len(infos) /\ Born = DOMAIN slots
  BY CountIs DEF FrameInv
<1>8. JoinInv'
  BY <1>2, <1>3, <1>7 DEF JoinInv
<1>9. PromptInv'
  <2>1. CASE slots = <<>>
    BY <2>1, <1>2, <1>7 DEF PromptInv, Threaded
  <2>2. CASE slots # <<>>
    <3>1. 1 \in Born
      BY <2>2, <1>7, CountIs
    <3>2. prompt => now = 2 * Interval
      BY <3>1 DEF PromptInv
    <3> QED BY <3>2, <2>2, <1>2, <1>7 DEF PromptInv, Threaded
  <2> QED BY <2>1, <2>2
<1> QED BY <1>4, <1>5, <1>6, <1>8, <1>9

LEMMA MonReturn == MonInv /\ Return => MonInv'
<1> SUFFICES ASSUME MonInv, Return PROVE MonInv'
  OBVIOUS
<1> USE DEF MonInv, Return
<1>2. /\ Born' = Born /\ at'[0] = "returned" /\ at' \in [Threads -> Places]
      /\ \A t \in Workers : at'[t] = at[t]
  BY CallerMoves
<1>3. \A t \in Born : t \in Workers
  BY DEF Born
<1>4. MonTypes'
  BY <1>2 DEF MonTypes
<1>5. FrameInv' /\ BornInv' /\ JoinInv' /\ CallerInv' /\ LineInv' /\ PromptInv'
  BY <1>2, <1>3 DEF FrameInv, BornInv, JoinInv, CallerInv, LineInv, PromptInv, Threaded
<1>6. WorkerInv'
  BY <1>2, <1>3 DEF WorkerInv
<1> QED BY <1>4, <1>5, <1>6

\* What Log writes.
LEMMA LogWrites ==
  ASSUME MonInv, Log
  PROVE  LET i == Len(lines) + 1
             line == [process |-> infos[i], table |-> IF slots = <<>> THEN NoTable ELSE slots[i]]
         IN /\ i \in 1 .. Len(infos) /\ lines' = Append(lines, line)
            /\ line \in [process: Pids, table: Measures]
<1> DEFINE i == Len(lines) + 1
<1> USE DEF MonInv, Log
<1>1. Len(lines) \in Nat /\ Len(infos) \in Nat /\ LastLine <= Len(infos) /\ LastLine \in Nat
  BY DEF MonTypes, LastLine
<1>2. i \in 1 .. Len(infos)
  BY <1>1
<1>3. infos[i] \in Pids
  BY <1>2 DEF MonTypes
<1>4. (IF slots = <<>> THEN NoTable ELSE slots[i]) \in Measures
  <2>1. CASE slots = <<>>
    BY <2>1 DEF NoTable, Measures, Moments
  <2>2. CASE slots # <<>>
    <3>1. Len(slots) = Len(infos) /\ i \in 1 .. Len(slots)
      BY <2>2, <1>2 DEF FrameInv, MonTypes
    <3>2. slots[i] \in Measures
      BY <3>1 DEF MonTypes
    <3> QED BY <3>2, <2>2
  <2> QED BY <2>1, <2>2
<1> QED BY <1>2, <1>3, <1>4

LEMMA MonLog == MonInv /\ Log => MonInv'
<1> SUFFICES ASSUME MonInv, Log PROVE MonInv'
  OBVIOUS
<1> DEFINE i == Len(lines) + 1
           line == [process |-> infos[i], table |-> IF slots = <<>> THEN NoTable ELSE slots[i]]
<1> HIDE DEF line
<1>1. i \in 1 .. Len(infos) /\ lines' = Append(lines, line) /\ line \in [process: Pids, table: Measures]
  BY LogWrites DEF line
<1> USE DEF MonInv, Log
<1>2. Born' = Born
  BY DEF Born
<1>3. lines \in Seq([process: Pids, table: Measures]) /\ Len(lines) \in Nat
  BY DEF MonTypes
<1>4. MonTypes'
  BY <1>1, <1>3 DEF MonTypes
<1>5. FrameInv' /\ BornInv' /\ JoinInv' /\ CallerInv' /\ WorkerInv' /\ PromptInv'
  BY <1>2 DEF FrameInv, BornInv, JoinInv, CallerInv, WorkerInv, PromptInv, Threaded
<1>6. LineInv'
  <2>1. Len(lines') = i /\ Len(lines') <= Len(infos) /\ DOMAIN lines' = 1 .. i /\ lines'[i] = line
    BY <1>1, <1>3
  <2>2. \A j \in DOMAIN lines' : j # i => j \in DOMAIN lines /\ lines'[j] = lines[j]
    BY <1>1, <1>3, <2>1
  <2>3. \A j \in DOMAIN lines' :
          lines'[j] = [process |-> infos[j], table |-> IF slots = <<>> THEN NoTable ELSE slots[j]]
    BY <2>1, <2>2 DEF LineInv, line
  <2> QED BY <2>1, <2>3 DEF LineInv
<1> QED BY <1>4, <1>5, <1>6

\* A worker's step changes its own place and leaves the caller's.
LEMMA WorkerMoves ==
  ASSUME MonInv, Running, NEW t \in Workers, at[t] \in {"construct", "sleep"},
         NEW place \in {"sleep", "finished"}, at' = [at EXCEPT ![t] = place]
  PROVE  /\ t \in Born /\ at[0] = "spawn" /\ Threaded
         /\ Born' = Born /\ at'[t] = place /\ at'[0] = at[0] /\ at' \in [Threads -> Places]
         /\ \A u \in Threads \ {t} : at'[u] = at[u]
<1> USE ThreadsAre DEF MonInv
<1>1. t \in Threads /\ t # 0 /\ at \in [Threads -> Places]
  BY DEF MonTypes
<1>2. t \in Born
  BY DEF Born
<1>3. at[0] = "spawn" /\ Threaded
  BY <1>2, AtWork, WorkerPid
<1>4. at'[t] = place /\ at'[0] = at[0] /\ at' \in [Threads -> Places] /\ \A u \in Threads \ {t} : at'[u] = at[u]
  BY <1>1 DEF Places
<1>5. Born' = Born
  BY <1>1, <1>4 DEF Born
<1> QED BY <1>2, <1>3, <1>4, <1>5

LEMMA MonConstruct == ASSUME MonInv, NEW t \in Workers, Construct(t) PROVE MonInv'
<1> USE ThreadsAre DEF MonInv, Construct
<1>1. t \in Threads /\ t # 0 /\ now \in Nat
  BY DEF MonTypes
<1>2. at' = [at EXCEPT ![t] = "sleep"]
  BY <1>1
<1>3. /\ t \in Born /\ at[0] = "spawn" /\ Threaded
      /\ Born' = Born /\ at'[t] = "sleep" /\ at'[0] = at[0] /\ at' \in [Threads -> Places]
      /\ \A u \in Threads \ {t} : at'[u] = at[u]
  BY <1>2, WorkerMoves
<1>4. /\ first'[t] = (IF infos[t] \in alive THEN now ELSE NONE) /\ wake'[t] = now + Interval
      /\ \A u \in Threads \ {t} : first'[u] = first[u] /\ wake'[u] = wake[u]
  BY <1>1, <1>3, WorkerPid DEF MonTypes, Readable
<1>5. MonTypes'
  <2>1. first' \in [Threads -> Moments] /\ wake' \in [Threads -> Nat]
    BY <1>1, TimeAssumption DEF MonTypes, Moments
  <2>2. \A u \in Workers : at'[u] \in {"unborn", "construct", "sleep", "finished"}
    BY <1>3 DEF MonTypes
  <2> QED BY <1>3, <2>1, <2>2 DEF MonTypes
<1>6. FrameInv' /\ BornInv' /\ JoinInv' /\ LineInv'
  BY <1>3 DEF FrameInv, BornInv, JoinInv, LineInv, Threaded
<1>7. CallerInv'
  BY <1>1, <1>3, <1>4 DEF CallerInv, Threaded
<1>8. WorkerInv'
  <2>1. measured <= now /\ now # NONE
    BY <1>1 DEF MonTypes, NONE
  <2>2. \A u \in Born \ {t} : /\ at'[u] = at[u] /\ first'[u] = first[u] /\ wake'[u] = wake[u]
    BY <1>3, <1>4 DEF Born
  <2> QED BY <1>3, <1>4, <2>1, <2>2 DEF WorkerInv
<1>9. PromptInv'
  <2> SUFFICES ASSUME prompt PROVE PromptInv'
    BY DEF PromptInv
  <2>1. now = Interval /\ wake'[t] = 2 * Interval
    BY <1>3, <1>4, TimeAssumption DEF PromptInv
  <2>2. \A u \in Born \ {t} : at'[u] = at[u] /\ wake'[u] = wake[u]
    BY <1>3, <1>4 DEF Born
  <2>3. \A u \in Born : /\ at'[u] = "construct" => now = Interval
                        /\ at'[u] = "sleep" => wake'[u] = 2 * Interval
                        /\ at'[u] = "finished" => now = 2 * Interval
    BY <1>3, <2>1, <2>2 DEF PromptInv
  <2> QED BY <1>3, <2>1, <2>3, TimeAssumption DEF PromptInv
<1> QED BY <1>5, <1>6, <1>7, <1>8, <1>9

\* What a worker leaves in its slot.
LEMMA TableIs ==
  ASSUME MonInv, NEW t \in Workers, WorkerUpdate(t)
  PROVE  /\ t \in DOMAIN slots /\ slots' = [slots EXCEPT ![t] = slots'[t]]
         /\ slots'[t] \in Measures /\ slots'[t].pid = infos[t]
         /\ slots'[t].to # NONE => /\ slots'[t].from # NONE /\ slots'[t].from >= measured
                                   /\ slots'[t].to - slots'[t].from >= Interval
<1> USE ThreadsAre DEF MonInv, WorkerUpdate
<1>1. t \in Born /\ at[t] = "sleep" /\ t # 0 /\ now >= wake[t]
  BY DEF Born
<1>2. t \in DOMAIN slots /\ PidOf(t) = infos[t] /\ infos[t] \in Pids
  BY <1>1, WorkerPid
<1>3. slots'[t] = IF infos[t] \in alive THEN [pid |-> infos[t], from |-> first[t], to |-> now]
                                        ELSE [NoTable EXCEPT !.pid = infos[t]]
  BY <1>1, <1>2 DEF MonTypes, Readable
<1>4. now \in Nat /\ first[t] \in Moments /\ wake[t] \in Nat /\ measured \in Moments
  BY DEF MonTypes
<1>5. CASE infos[t] \in alive
  <2>1. first[t] # NONE /\ wake[t] = first[t] + Interval /\ first[t] >= measured
    BY <1>1, <1>5 DEF WorkerInv
  <2>2. slots'[t].pid = infos[t] /\ slots'[t].from = first[t] /\ slots'[t].to = now /\ slots'[t] \in Measures
    BY <1>2, <1>3, <1>4, <1>5 DEF Measures, Moments
  <2>3. now - first[t] >= Interval
    BY <2>1, <1>1, <1>4, TimeAssumption DEF Moments
  <2> QED BY <1>2, <2>1, <2>2, <2>3
<1>6. CASE infos[t] \notin alive
  <2>1. slots'[t] = [NoTable EXCEPT !.pid = infos[t]]
    BY <1>3, <1>6
  <2>2. slots'[t] = [pid |-> infos[t], from |-> NONE, to |-> NONE]
    BY <2>1 DEF NoTable
  <2> QED BY <1>2, <2>2 DEF Measures, Moments
<1> QED BY <1>5, <1>6

LEMMA MonWorkerUpdate == ASSUME MonInv, NEW t \in Workers, WorkerUpdate(t) PROVE MonInv'
<1> USE ThreadsAre DEF MonInv
<1>1. /\ Running /\ at[t] = "sleep" /\ at' = [at EXCEPT ![t] = "finished"] /\ now >= wake[t]
      /\ UNCHANGED <<kind, op, prompt, alive, now, wake, first, infos, measured, lines>>
  BY DEF WorkerUpdate
<1>3. /\ t \in Born /\ at[0] = "spawn" /\ Threaded
      /\ Born' = Born /\ at'[t] = "finished" /\ at'[0] = at[0] /\ at' \in [Threads -> Places]
      /\ \A u \in Threads \ {t} : at'[u] = at[u]
  BY <1>1, WorkerMoves
<1>4. /\ t \in DOMAIN slots /\ slots' = [slots EXCEPT ![t] = slots'[t]]
      /\ slots'[t] \in Measures /\ slots'[t].pid = infos[t]
      /\ slots'[t].to # NONE => /\ slots'[t].from # NONE /\ slots'[t].from >= measured
                                /\ slots'[t].to - slots'[t].from >= Interval
  BY TableIs
<1>5. /\ slots' \in Seq(Measures) /\ Len(slots') = Len(slots) /\ DOMAIN slots' = DOMAIN slots
      /\ \A u \in DOMAIN slots \ {t} : slots'[u] = slots[u]
  <2>1. slots \in Seq(Measures)
    BY DEF MonTypes
  <2>2. slots' \in Seq(Measures) /\ Len(slots') = Len(slots) /\ DOMAIN slots' = DOMAIN slots
    BY <1>4, <2>1
  <2>3. \A u \in DOMAIN slots \ {t} : slots'[u] = slots[u]
    BY <1>4, <2>1
  <2> QED BY <2>2, <2>3
<1>6. MonTypes'
  <2>1. \A u \in Workers : at'[u] \in {"unborn", "construct", "sleep", "finished"}
    BY <1>3 DEF MonTypes
  <2> QED BY <1>1, <1>3, <1>5, <2>1 DEF MonTypes
<1>7. FrameInv' /\ BornInv' /\ JoinInv' /\ CallerInv'
  BY <1>1, <1>3, <1>5 DEF FrameInv, BornInv, JoinInv, CallerInv, Threaded
<1>8. LineInv'
  <2>1. lines = <<>>
    BY <1>3 DEF FrameInv
  <2> QED BY <2>1, <1>1 DEF LineInv
<1>9. WorkerInv'
  <2>1. \A u \in Born \ {t} : u \in DOMAIN slots /\ at'[u] = at[u] /\ slots'[u] = slots[u]
    BY <1>3, <1>5, WorkerPid DEF Born
  <2> QED BY <1>1, <1>3, <1>4, <2>1 DEF WorkerInv
<1>10. PromptInv'
  <2> SUFFICES ASSUME prompt PROVE PromptInv'
    BY <1>1 DEF PromptInv
  <2>1. wake[t] = 2 * Interval /\ now <= 2 * Interval /\ now \in Nat
    BY <1>1, <1>3 DEF PromptInv, MonTypes
  <2>2. now = 2 * Interval
    BY <2>1, <1>1, TimeAssumption
  <2>3. \A u \in Born \ {t} : at'[u] = at[u]
    BY <1>3 DEF Born
  <2>4. slots # <<>> /\ slots' # <<>>
    BY <1>4, <1>5
  <2>5. Born # DOMAIN slots => now = Interval
    BY <1>3 DEF PromptInv
  <2>6. \A u \in Born : /\ at'[u] = "construct" => now = Interval
                        /\ at'[u] = "sleep" => wake[u] = 2 * Interval
    BY <1>3, <2>3 DEF PromptInv
  <2> QED BY <1>1, <1>3, <1>5, <2>1, <2>2, <2>4, <2>5, <2>6 DEF PromptInv
<1> QED BY <1>6, <1>7, <1>8, <1>9, <1>10

LEMMA MonNext == MonInv /\ [Next]_vars => MonInv'
<1> SUFFICES ASSUME MonInv, [Next]_vars PROVE MonInv'
  OBVIOUS
<1>1. CASE Caller
  BY <1>1, MonConstruct0, MonUpdate, MonTop, MonSpawn, MonSpawnFails, MonJoin, MonLog, MonReturn DEF Caller
<1>2. CASE \E t \in Workers : Worker(t)
  BY <1>2, MonConstruct, MonWorkerUpdate DEF Worker
<1>3. CASE Tick \/ Exit
  BY <1>3, MonTick, MonExit
<1>4. CASE UNCHANGED vars
  <2> USE <1>4 DEF vars, MonInv
  <2>1. Born' = Born
    BY DEF Born
  <2>2. MonTypes'
    BY DEF MonTypes
  <2>3. FrameInv' /\ BornInv' /\ JoinInv' /\ CallerInv'
    BY <2>1 DEF FrameInv, BornInv, JoinInv, CallerInv, Threaded
  <2>4. LineInv'
    BY DEF LineInv
  <2>5. PromptInv'
    BY <2>1 DEF PromptInv
  <2>6. WorkerInv'
    BY <2>1 DEF WorkerInv
  <2> QED BY <2>2, <2>3, <2>4, <2>5, <2>6
<1> QED BY <1>1, <1>2, <1>3, <1>4 DEF Next

\* The invariant of the threads: it says what each of them has done when the others have come
\* so far, at any speed.
THEOREM MonitorInductive == Spec => []MonInv
BY MonInit, MonNext, PTL DEF Spec

-----------------------------------------------------------------------------
(* What follows for the caller and its report. *)

\* The caller never reads its slots, and never leaves the function they are variables of, while
\* a worker that will write to one is running: process_monitor.cpp joins before it logs.
THEOREM OutlivesWorkers == Spec => []SlotsOutliveWorkers
<1>1. MonInv => SlotsOutliveWorkers
  BY DEF MonInv, MonTypes, JoinInv, SlotsOutliveWorkers, Born
<1> QED BY <1>1, MonitorInductive, PTL

\* What line i was written from.
LEMMA LineFrom ==
  ASSUME MonInv, NEW i \in DOMAIN lines, Threaded
  PROVE  /\ i \in Born /\ i \in DOMAIN slots /\ i \in DOMAIN infos /\ at[i] = "finished"
         /\ lines[i] = [process |-> infos[i], table |-> slots[i]]
         /\ slots[i].pid = infos[i]
<1> USE DEF MonInv
<1>1. lines # <<>> /\ Len(lines) \in Nat /\ i \in 1 .. Len(lines)
  BY DEF MonTypes
<1>2. at[0] \in {"log", "returned"} /\ Born = DOMAIN slots
  BY <1>1 DEF FrameInv, JoinInv
<1>3. i \in DOMAIN slots /\ i \in DOMAIN infos /\ slots # <<>>
  BY <1>1, CountIs DEF LineInv, FrameInv
<1> QED BY <1>2, <1>3 DEF JoinInv, LineInv, WorkerInv

\* A line of the report shows the threads of the process it names.
THEOREM PairsLines == Spec => []LinesPaired
<1>1. MonInv => LinesPaired
  BY LineFrom DEF LinesPaired, Threaded
<1> QED BY <1>1, MonitorInductive, PTL

\* "First monitorInterval_ for top processes' CPU usages, second monitorInterval_ for their top
\* threads'" (process_monitor.h): whatever the workers' speed and whichever process exits.
THEOREM MeasuresTwice == Spec => []SecondInterval
<1>1. MonInv => SecondInterval
  <2> SUFFICES ASSUME MonInv, NEW i \in DOMAIN lines, lines[i].table.to # NONE
               PROVE  /\ lines[i].table.from # NONE /\ lines[i].table.to - lines[i].table.from >= Interval
                      /\ lines[i].table.from >= measured /\ measured - first[0] >= Interval
    BY DEF SecondInterval
  <2>1. lines # <<>> /\ at[0] \in {"log", "returned"}
    BY DEF MonInv, MonTypes, FrameInv
  <2>2. Threaded
    <3>1. SUFFICES ASSUME ~Threaded PROVE FALSE
      OBVIOUS
    <3>2. slots = <<>>
      BY <3>1, CountIs DEF MonInv, FrameInv, MonTypes
    <3>3. lines[i].table = NoTable
      BY <3>2 DEF MonInv, LineInv
    <3> QED BY <3>3 DEF NoTable
  <2>3. lines[i].table = slots[i] /\ i \in Born /\ at[i] = "finished"
    BY <2>2, LineFrom
  <2>4. measured - first[0] >= Interval
    BY <2>1, <2>2 DEF MonInv, CallerInv
  <2> QED BY <2>3, <2>4 DEF MonInv, WorkerInv
<1> QED BY <1>1, MonitorInductive, PTL

\* "Total cost time is about two monitorInterval_" (process_monitor.h): exactly two, for any
\* number of listed processes, when running takes no time.
THEOREM TakesTwoIntervals == Spec => []TotalTime
<1>1. MonInv => TotalTime
  BY DEF MonInv, PromptInv, TotalTime
<1> QED BY <1>1, MonitorInductive, PTL

-----------------------------------------------------------------------------
(* Every step is a step of MonitorReport, or shows nothing. *)

ReportState ==
  Started(CASE at[0] \in {"construct", "sleep", "top"} -> "taking"
            [] at[0] \in {"spawn", "thrown", "terminated"} -> "filling"
            [] OTHER -> "writing", "taking")
ReportFilled == {i \in DOMAIN slots : at[i] = "finished"}
ReportLines ==
  Started([i \in DOMAIN lines |-> [process |-> lines[i].process, table |-> lines[i].table.pid]], <<>>)
ReportList == Started(infos, <<>>)

LEMMA ReportInit == Init => Report!Init
<1> SUFFICES ASSUME Init PROVE Report!Init
  OBVIOUS
<1>1. slots = <<>> /\ lines = <<>> /\ infos = <<>> /\ at[0] = "construct"
  BY ThreadsAre DEF Init
<1>2. ReportFilled = {}
  BY <1>1 DEF ReportFilled
<1>3. ReportState = "taking" /\ ReportLines = <<>> /\ ReportList = <<>>
  BY <1>1 DEF ReportState, Started, ReportLines, ReportList
<1> QED BY <1>2, <1>3 DEF Report!Init, Report!NoList, ReportFilled, ReportState, ReportLines, ReportList

\* Every slot has a thread that may be started for it.
LEMMA SlotsAre == MonInv => DOMAIN slots \subseteq Workers /\ Workers \subseteq Threads
<1> SUFFICES ASSUME MonInv PROVE DOMAIN slots \subseteq Workers
  BY ThreadsAre
<1>1. DOMAIN slots = 1 .. Len(slots) /\ Len(slots) \in Nat /\ Len(slots) <= LogCount
  BY CountIs, CountAssumption DEF MonInv
<1>2. \A t \in DOMAIN slots : t \in 1 .. LogCount
  BY <1>1, CountAssumption
<1> QED BY <1>2, ThreadsAre

Quiet == UNCHANGED <<ReportState, ReportList, ReportFilled, ReportLines>>

LEMMA QuietStutters == Quiet => UNCHANGED Report!vars
BY DEF Quiet, Report!vars, ReportState, ReportFilled, ReportLines, ReportList

\* Before there is a list, and for the calls that start no thread.
LEMMA ReportBefore == MonInv /\ (Construct(0) \/ Update) => Quiet
<1> SUFFICES ASSUME MonInv, Construct(0) \/ Update PROVE Quiet
  OBVIOUS
<1>1. at[0] \in {"construct", "sleep"} /\ at'[0] \in {"sleep", "top"}
      /\ UNCHANGED <<kind, op, infos, slots, lines>>
  BY ThreadsAre DEF Construct, Update, MonInv, MonTypes
<1>2. infos = <<>> /\ slots = <<>>
  <2>1. infos = <<>>
    BY <1>1 DEF MonInv, FrameInv
  <2> QED BY <2>1, CountIs DEF MonInv, FrameInv, MonTypes
<1>3. ReportFilled = {} /\ ReportFilled' = {}
  BY <1>1, <1>2 DEF ReportFilled
<1> QED BY <1>1, <1>3 DEF Quiet, ReportState, ReportList, ReportLines, Started

LEMMA ReportOthers ==
  ASSUME MonInv, ~Threaded, [Next]_vars
  PROVE  Quiet
<1>1. MonInv' /\ kind' = kind /\ op' = op
  <2>1. MonInv'
    BY MonNext
  <2>2. kind' = kind /\ op' = op
    BY DEF Next, Caller, Worker, Construct, Update, Top, Spawn, SpawnFails, Join, Log, Return, WorkerUpdate, Tick, Exit, vars
  <2> QED BY <2>1, <2>2
<1>2. slots = <<>> /\ slots' = <<>>
  BY <1>1 DEF MonInv, MonTypes, FrameInv, Threaded
<1>3. ReportFilled = {} /\ ReportFilled' = {}
  BY <1>2 DEF ReportFilled
<1> QED BY <1>1, <1>3 DEF Quiet, ReportState, ReportList, ReportLines, Started, Threaded

LEMMA ReportTop == MonInv /\ Threaded /\ Top => Report!Take
<1> SUFFICES ASSUME MonInv, Threaded, Top PROVE Report!Take
  OBVIOUS
<1>1. at[0] = "top" /\ at'[0] = "spawn" /\ kind' = kind /\ op' = op /\ lines' = lines
      /\ \A t \in Workers : at'[t] = at[t]
  BY ThreadsAre DEF Top, MonInv, MonTypes, Workers, Threaded
<1>2. infos = <<>> /\ slots = <<>> /\ Born = {}
  <2>1. infos = <<>>
    BY <1>1 DEF MonInv, FrameInv
  <2>2. slots = <<>>
    BY <2>1, CountIs DEF MonInv, FrameInv, MonTypes
  <2> QED BY <2>1, <2>2, CountIs DEF MonInv
<1>3. ReportFilled = {} /\ ReportFilled' = {}
  <2>1. infos' \in Seq(Pids) /\ Len(infos') <= LogCount /\ slots' = [i \in DOMAIN infos' |-> NoTable]
    BY TopsAre DEF Top, Threaded
  <2>2. DOMAIN slots' \subseteq Workers
    BY <2>1, ThreadsAre, CountAssumption
  <2>3. \A t \in DOMAIN slots' : at'[t] # "finished"
    BY <1>1, <1>2, <2>2 DEF Born
  <2> QED BY <1>2, <2>3 DEF ReportFilled
<1>4. infos' \in UNION {[1 .. n -> Pids] : n \in 0 .. LogCount}
  <2>1. infos' \in Seq(Pids) /\ Len(infos') <= LogCount
    BY TopsAre DEF Top
  <2>2. Len(infos') \in 0 .. LogCount /\ infos' \in [1 .. Len(infos') -> Pids]
    BY <2>1, CountAssumption
  <2> QED BY <2>2
<1>5. ReportState = "taking" /\ ReportState' = "filling" /\ ReportList' = infos' /\ ReportLines' = ReportLines
  BY <1>1 DEF ReportState, ReportList, ReportLines, Started, Threaded
<1> QED BY <1>3, <1>4, <1>5 DEF Report!Take, ReportState, ReportList, ReportFilled, ReportLines

LEMMA ReportSpawn == MonInv /\ Spawn => Quiet
<1> SUFFICES ASSUME MonInv, Spawn PROVE Quiet
  OBVIOUS
<1>1. Cardinality(Born) + 1 \notin Born
  BY CountIs DEF MonInv
<1>2. PICK u : u \notin Born /\ u # 0 /\ at' = [at EXCEPT ![u] = "construct"]
  <2>1. at' = [at EXCEPT ![Cardinality(Born) + 1] = "construct"]
    BY DEF Spawn
  <2>2. Cardinality(Born) + 1 # 0
    BY CountIs DEF MonInv
  <2> QED BY <1>1, <2>1, <2>2
<1>3. at'[0] = at[0] /\ UNCHANGED <<kind, op, infos, slots, lines>> /\ at[0] = "spawn"
  BY <1>2 DEF Spawn, MonInv, MonTypes
<1>4. DOMAIN slots \subseteq Workers
  BY SlotsAre
<1>5. \A t \in DOMAIN slots : at'[t] = "finished" <=> at[t] = "finished"
  BY <1>2, <1>4, ThreadsAre DEF Born, MonInv, MonTypes
<1>6. ReportFilled' = ReportFilled
  BY <1>3, <1>5 DEF ReportFilled
<1> QED BY <1>3, <1>6 DEF Quiet, ReportState, ReportList, ReportLines, Started

LEMMA ReportFilledStays ==
  ASSUME MonInv, slots' = slots, \A t \in Workers : at'[t] = at[t]
  PROVE  ReportFilled' = ReportFilled
<1>1. DOMAIN slots \subseteq Workers
  BY SlotsAre
<1> QED BY <1>1 DEF ReportFilled

LEMMA ReportSpawnFails == MonInv /\ SpawnFails => Quiet
<1> SUFFICES ASSUME MonInv, SpawnFails PROVE Quiet
  OBVIOUS
<1>1. PICK place \in {"thrown", "terminated"} : at' = [at EXCEPT ![0] = place]
  BY DEF SpawnFails
<1>2. at'[0] = place /\ \A t \in Workers : at'[t] = at[t]
  BY <1>1, CallerMoves DEF SpawnFails
<1>3. UNCHANGED <<kind, op, infos, slots, lines>> /\ at[0] = "spawn"
  BY DEF SpawnFails
<1>4. ReportFilled' = ReportFilled
  BY <1>2, <1>3, ReportFilledStays
<1> QED BY <1>2, <1>3, <1>4 DEF Quiet, ReportState, ReportList, ReportLines, Started

LEMMA ReportJoin == MonInv /\ Join => Report!Complete
<1> SUFFICES ASSUME MonInv, Join PROVE Report!Complete
  OBVIOUS
<1>1. at'[0] = "log" /\ at[0] = "spawn" /\ \A t \in Workers : at'[t] = at[t]
  BY CallerMoves DEF Join
<1>2. UNCHANGED <<kind, op, infos, slots, lines>>
  BY DEF Join
<1>3. ReportFilled' = ReportFilled
  BY <1>1, <1>2, ReportFilledStays
<1>4. Threaded /\ Len(slots) = Len(infos)
  BY <1>1 DEF MonInv, FrameInv
<1>5. ReportFilled = DOMAIN infos
  <2>1. Born = DOMAIN slots /\ DOMAIN slots = DOMAIN infos
    BY <1>4, CountIs DEF Join, MonInv
  <2> QED BY <2>1 DEF ReportFilled, Join
<1>6. ReportState = "filling" /\ ReportState' = "writing" /\ ReportList = infos
      /\ UNCHANGED <<ReportList, ReportLines>>
  BY <1>1, <1>2, <1>4 DEF ReportState, ReportList, ReportLines, Started, Threaded
<1> QED BY <1>3, <1>5, <1>6 DEF Report!Complete, ReportState, ReportList, ReportFilled, ReportLines

LEMMA ReportReturn == MonInv /\ Return => Quiet
<1> SUFFICES ASSUME MonInv, Return PROVE Quiet
  OBVIOUS
<1>1. at'[0] = "returned" /\ at[0] = "log" /\ \A t \in Workers : at'[t] = at[t]
  BY CallerMoves DEF Return
<1>2. UNCHANGED <<kind, op, infos, slots, lines>>
  BY DEF Return
<1>3. ReportFilled' = ReportFilled
  BY <1>1, <1>2, ReportFilledStays
<1> QED BY <1>1, <1>2, <1>3 DEF Quiet, ReportState, ReportList, ReportLines, Started

LEMMA ReportLog == MonInv /\ Threaded /\ Log => Report!Write
<1> SUFFICES ASSUME MonInv, Threaded, Log PROVE Report!Write
  OBVIOUS
<1> DEFINE i == Len(lines) + 1
           line == [process |-> infos[i], table |-> IF slots = <<>> THEN NoTable ELSE slots[i]]
           entry == [process |-> infos[i], table |-> infos[i]]
<1>1. i \in 1 .. Len(infos) /\ lines' = Append(lines, line)
  BY LogWrites
<1>2. Len(lines) \in Nat /\ lines \in Seq([process: Pids, table: Measures])
  BY DEF MonInv, MonTypes
<1>3. UNCHANGED <<kind, op, at, infos, slots>> /\ at[0] = "log"
  BY DEF Log
<1>4. i \in Born /\ slots # <<>> /\ at[i] = "finished" /\ slots[i].pid = infos[i]
  <2>1. i \in DOMAIN slots /\ Born = DOMAIN slots
    BY <1>1, <1>3, CountIs DEF MonInv, FrameInv, JoinInv
  <2> QED BY <2>1, <1>3 DEF MonInv, JoinInv, WorkerInv
<1>5. ReportState = "writing" /\ ReportList = infos /\ UNCHANGED <<ReportState, ReportList, ReportFilled>>
  BY <1>3 DEF ReportState, ReportList, ReportFilled, Started, Threaded
<1>6. Len(ReportLines) = Len(lines) /\ Len(ReportLines) < Len(infos)
      /\ ReportLines = [j \in 1 .. Len(lines) |-> [process |-> lines[j].process, table |-> lines[j].table.pid]]
  BY <1>1, <1>2 DEF ReportLines, Started, Threaded
<1>7. ReportLines' = Append(ReportLines, entry)
  <2>1. ReportLines' = [j \in 1 .. i |-> [process |-> lines'[j].process, table |-> lines'[j].table.pid]]
    BY <1>1, <1>2, <1>3 DEF ReportLines, Started, Threaded
  <2>2. \A j \in 1 .. Len(lines) : lines'[j] = lines[j]
    BY <1>1, <1>2
  <2>3. lines'[i] = line
    BY <1>1, <1>2
  <2>4. line.process = infos[i] /\ line.table.pid = infos[i]
    BY <1>4
  <2>5. ReportLines' = [j \in 1 .. i |-> IF j = i THEN entry ELSE ReportLines[j]]
    BY <2>1, <2>2, <2>3, <2>4, <1>2, <1>6
  <2> QED BY <2>5, <1>2, <1>6
<1> QED BY <1>5, <1>6, <1>7 DEF Report!Write, ReportState, ReportList, ReportFilled, ReportLines

LEMMA ReportConstruct == ASSUME MonInv, NEW t \in Workers, Construct(t) PROVE Quiet
<1>1. t # 0
  BY ThreadsAre
<1>2. Running /\ at[t] = "construct" /\ at' = [at EXCEPT ![t] = "sleep"] /\ UNCHANGED <<kind, op, infos, slots, lines>>
  BY <1>1 DEF Construct
<1>3. at'[0] = at[0] /\ at'[t] = "sleep" /\ \A u \in Threads \ {t} : at'[u] = at[u]
  BY <1>2, WorkerMoves
<1>4. DOMAIN slots \subseteq Workers /\ Workers \subseteq Threads
  BY SlotsAre
<1>5. ReportFilled' = ReportFilled
  BY <1>2, <1>3, <1>4 DEF ReportFilled
<1> QED BY <1>2, <1>3, <1>5 DEF Quiet, ReportState, ReportList, ReportLines, Started

LEMMA ReportWorkerUpdate == ASSUME MonInv, NEW t \in Workers, WorkerUpdate(t) PROVE Report!Fill
<1>1. Running /\ at[t] = "sleep" /\ at' = [at EXCEPT ![t] = "finished"] /\ UNCHANGED <<kind, op, infos, lines>>
  BY DEF WorkerUpdate
<1>2. at'[0] = at[0] /\ at'[t] = "finished" /\ at[0] = "spawn" /\ Threaded /\ \A u \in Threads \ {t} : at'[u] = at[u]
  BY <1>1, WorkerMoves
<1>3. t \in DOMAIN slots /\ DOMAIN slots' = DOMAIN slots
  BY TableIs
<1>4. DOMAIN slots \subseteq Workers /\ Workers \subseteq Threads /\ DOMAIN slots = DOMAIN infos
  <2>1. DOMAIN slots = 1 .. Len(slots) /\ DOMAIN infos = 1 .. Len(infos)
    BY CountIs DEF MonInv
  <2> QED BY <1>2, <2>1, SlotsAre DEF MonInv, FrameInv
<1>5. ReportFilled' = ReportFilled \cup {t} /\ t \notin ReportFilled
  BY <1>1, <1>2, <1>3, <1>4 DEF ReportFilled
<1>6. ReportState = "filling" /\ ReportList = infos /\ UNCHANGED <<ReportState, ReportList, ReportLines>>
  BY <1>1, <1>2 DEF ReportState, ReportList, ReportLines, Started, Threaded
<1> QED BY <1>3, <1>4, <1>5, <1>6 DEF Report!Fill, ReportState, ReportList, ReportFilled, ReportLines

LEMMA ReportNext == MonInv /\ [Next]_vars => [Report!Next]_Report!vars
<1> SUFFICES ASSUME MonInv, [Next]_vars PROVE Report!Next \/ UNCHANGED Report!vars
  OBVIOUS
<1>1. CASE ~Threaded
  BY <1>1, ReportOthers, QuietStutters
<1>2. CASE Threaded /\ Caller
  BY <1>2, ReportBefore, ReportTop, ReportSpawn, ReportSpawnFails, ReportJoin, ReportLog, ReportReturn,
     QuietStutters DEF Caller, Report!Next
<1>3. CASE \E t \in Workers : Worker(t)
  BY <1>3, ReportConstruct, ReportWorkerUpdate, QuietStutters DEF Worker, Report!Next
<1>4. CASE Tick \/ Exit \/ UNCHANGED vars
  <2>1. UNCHANGED <<kind, op, at, infos, slots, lines>>
    BY <1>4 DEF Tick, Exit, vars
  <2>2. Quiet
    BY <2>1 DEF Quiet, ReportState, ReportList, ReportFilled, ReportLines, Started
  <2> QED BY <2>2, QuietStutters
<1> QED BY <1>1, <1>2, <1>3, <1>4 DEF Next

\* logTopCpu of all processes implements MonitorReport: a list, a table for each of its
\* processes, then the lines in its order, as if there were no threads.
THEOREM ReportsAsPromised == Spec => ReportsInOrder
<1>1. Init => Report!Init
  BY ReportInit
<1>2. MonInv /\ [Next]_vars => [Report!Next]_Report!vars
  BY ReportNext
<1> QED BY <1>1, <1>2, MonitorInductive, PTL DEF Spec, ReportsInOrder, Report!Spec
=============================================================================
