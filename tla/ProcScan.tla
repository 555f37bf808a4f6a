------------------------------ MODULE ProcScan ------------------------------
(***************************************************************************)
(* _initprocesstree_sysdep of src/ProcessTree.c: one record (struct        *)
(* Proc_T) and one name buffer are filled again for every listed process,  *)
(* from files of /proc that vanish when the process exits, and copied into *)
(* the array when the mandatory files were all read.                       *)
(*                                                                         *)
(* What is modelled of a datum is whose it is: the pid it was read from,   *)
(* or NONE for zero.  Exit is the environment: it may strike between any   *)
(* two reads.                                                              *)
(***************************************************************************)
EXTENDS Integers, Sequences

CONSTANTS
  Pids,        \* the pids, or the tids of one process, that may be listed
               \* (their order stands for that of their names, by which glob() sorts)
  NoCmdline,   \* those with an empty cmdline file (kernel threads, zombies)
  IoDenied,    \* those whose io file cannot be opened (another user's processes)
  IoOdd,       \* those whose io file lacks one of the lines
  FdDenied,    \* those whose fd directory cannot be opened
  HasIo        \* _statistics.hasIOStatistics

ASSUME PidsAssumption == Pids \subseteq Nat \ {0} /\ Pids # {}
ASSUME FilesAssumption == /\ NoCmdline \subseteq Pids /\ IoDenied \subseteq Pids
                          /\ IoOdd \subseteq Pids /\ FdDenied \subseteq Pids
                          /\ HasIo \in BOOLEAN

VARIABLES
  mode,   \* "all": the processes of /proc, "one": the threads of one process
  alive,  \* the listed processes that still run
  todo,   \* the listed pids the loop has not come to
  pc,     \* the file that is read next
  data,   \* proc.data
  name,   \* proc.name: whose characters were appended
  pt      \* the array under construction

vars == <<mode, alive, todo, pc, data, name, pt>>

NONE == 0
Owner == Pids \cup {NONE}
Leader == -1   \* stands for the process whose threads are listed

Data == [pid: Owner, stat: Owner, status: Owner, io: Owner,
         fds: Owner \cup {Leader}, limits: Owner \cup {Leader}, secattr: Owner]

\* (Mutant of Cleared: all bits are set.)
ClearedToOnes == [pid |-> -1, stat |-> -1, status |-> -1, io |-> -1,
                  fds |-> -1, limits |-> -1, secattr |-> -1]

\* memset(&proc.data, 0, ...)
Cleared == [pid |-> NONE, stat |-> NONE, status |-> NONE, io |-> NONE,
            fds |-> NONE, limits |-> NONE, secattr |-> NONE]

Init ==
  /\ mode \in {"all", "one"}
  /\ todo \in SUBSET Pids \ {{}}
  /\ alive = todo
  /\ pc = "next" /\ data = Cleared /\ name = <<>> /\ pt = <<>>

\* The pid of the current iteration.
Self == data.pid
IsAlive == Self \in alive

\* fd and limits are looked up with the pid, never the tid: they are the process's.
FdOwner == IF mode = "all" THEN Self ELSE Leader
FdThere == IF mode = "all" THEN IsAlive ELSE alive # {}

\* A process exits: its files are gone.
Exit ==
  /\ pc # "done"
  /\ \E p \in alive : alive' = alive \ {p}
  /\ UNCHANGED <<mode, todo, pc, data, name, pt>>

\* (Mutant of NextPid: GLOB_NOSORT.)
NextPidUnsorted ==
  /\ pc = "next" /\ todo # {}
  /\ \E p \in todo : data' = [data EXCEPT !.pid = p] /\ todo' = todo \ {p}
  /\ pc' = "stat"
  /\ UNCHANGED <<mode, alive, name, pt>>

NextPid ==
  /\ pc = "next" /\ todo # {}
  /\ \E p \in todo :
       /\ \A q \in todo : p <= q
       /\ data' = [data EXCEPT !.pid = p]
       /\ todo' = todo \ {p}
  /\ pc' = "stat"
  /\ UNCHANGED <<mode, alive, name, pt>>

\* The process is skipped: the record and the name stay as they are.
SkipSelf == pc' = "next" /\ UNCHANGED <<mode, alive, todo, data, name, pt>>

ReadStat ==
  /\ pc = "stat"
  /\ \/ /\ IsAlive
        /\ data' = [data EXCEPT !.stat = Self]
        /\ pc' = "status"
        /\ UNCHANGED <<mode, alive, todo, name, pt>>
     \/ ~IsAlive /\ SkipSelf

ReadStatus ==
  /\ pc = "status"
  /\ \/ /\ IsAlive
        /\ data' = [data EXCEPT !.status = Self]
        /\ pc' = "io"
        /\ UNCHANGED <<mode, alive, todo, name, pt>>
     \/ ~IsAlive /\ SkipSelf

\* After io: the command line of a process, the name in stat of a thread.
AfterIo == IF mode = "all" THEN "open" ELSE "name"

\* (Mutant of ReadIo: the return false that is commented out is back.)
ReadIoMandatory ==
  /\ pc = "io"
  /\ IF HasIo /\ IsAlive /\ Self \notin IoDenied
     THEN /\ data' = [data EXCEPT !.io = Self]
          /\ pc' = IF Self \in IoOdd THEN "next" ELSE AfterIo
     ELSE data' = data /\ pc' = IF HasIo THEN "next" ELSE AfterIo
  /\ UNCHANGED <<mode, alive, todo, name, pt>>

\* An io file that cannot be read is not an error; one that lacks a line is, after the
\* counters before that line were stored.
ReadIo ==
  /\ pc = "io"
  /\ IF HasIo /\ IsAlive /\ Self \notin IoDenied
     THEN /\ data' = [data EXCEPT !.io = Self]
          /\ pc' = IF Self \in IoOdd THEN "next" ELSE AfterIo
     ELSE data' = data /\ pc' = AfterIo
  /\ UNCHANGED <<mode, alive, todo, name, pt>>

OpenCmdline ==
  /\ pc = "open"
  /\ \/ IsAlive /\ pc' = "cmdline" /\ UNCHANGED <<mode, alive, todo, data, name, pt>>
     \/ ~IsAlive /\ SkipSelf

\* The open file of a process that has exited since reads as empty.
ReadCmdline ==
  /\ pc = "cmdline"
  /\ name' = IF IsAlive /\ Self \notin NoCmdline THEN Append(name, Self) ELSE name
  /\ pc' = IF name' = <<>> THEN "name" ELSE "fd"
  /\ UNCHANGED <<mode, alive, todo, data, pt>>

\* stat is read again for the name, unless there is one.
ReadName ==
  /\ pc = "name"
  /\ \/ name # <<>> /\ name' = name /\ pc' = "fd"
     \/ name = <<>> /\ IsAlive /\ name' = Append(name, Self) /\ pc' = "fd"
     \/ name = <<>> /\ ~IsAlive /\ name' = name /\ pc' = "next"
  /\ UNCHANGED <<mode, alive, todo, data, pt>>

\* The rest may not exist; what is missing stays as it is.
ReadFds ==
  /\ pc = "fd"
  /\ IF FdThere /\ Self \notin FdDenied
     THEN data' = [data EXCEPT !.fds = FdOwner] /\ pc' = "limits"
     ELSE data' = data /\ pc' = "secattr"
  /\ UNCHANGED <<mode, alive, todo, name, pt>>

ReadLimits ==
  /\ pc = "limits"
  /\ data' = IF FdThere THEN [data EXCEPT !.limits = FdOwner] ELSE data
  /\ pc' = "secattr"
  /\ UNCHANGED <<mode, alive, todo, name, pt>>

\* (Mutant of ReadSecattr: StringBuffer_clear is missing.)
ReadSecattrKeepsName ==
  /\ pc = "secattr"
  /\ LET last == IF IsAlive THEN [data EXCEPT !.secattr = Self] ELSE data
     IN pt' = Append(pt, [data |-> last, name |-> name])
  /\ data' = Cleared
  /\ pc' = "next"
  /\ UNCHANGED <<mode, alive, todo, name>>

\* The last read, and what follows it: the entry is filled and the record cleared.
ReadSecattr ==
  /\ pc = "secattr"
  /\ LET last == IF IsAlive THEN [data EXCEPT !.secattr = Self] ELSE data
     IN pt' = Append(pt, [data |-> last, name |-> name])
  /\ data' = Cleared /\ name' = <<>>
  /\ pc' = "next"
  /\ UNCHANGED <<mode, alive, todo>>

Finish ==
  /\ pc = "next" /\ todo = {}
  /\ pc' = "done"
  /\ UNCHANGED <<mode, alive, todo, data, name, pt>>

Scan == \/ NextPid \/ ReadStat \/ ReadStatus \/ ReadIo \/ OpenCmdline \/ ReadCmdline
        \/ ReadName \/ ReadFds \/ ReadLimits \/ ReadSecattr \/ Finish

Next == Scan \/ Exit

\* The scanning thread keeps running; nobody has to exit.
Spec == Init /\ [][Next]_vars /\ WF_vars(Scan)

-----------------------------------------------------------------------------
Reads == {"next", "stat", "status", "io", "open", "cmdline", "name", "fd", "limits", "secattr", "done"}

TypeOK ==
  /\ mode \in {"all", "one"}
  /\ alive \subseteq Pids /\ todo \subseteq Pids
  /\ pc \in Reads
  /\ data \in Data
  /\ name \in Seq(Pids)
  /\ pt \in Seq([data: Data, name: Seq(Pids)])

\* proc.name is empty whenever an iteration starts, although it is cleared only after a
\* process was published: every way to fail leaves before a character is appended, or when
\* none was.
NameClearedBetween == pc = "next" => name = <<>>

\* An entry's name, stat, status, file descriptors and security attributes are its own, or
\* zero, though the record they came from served the processes before.
EntriesOwn ==
  \A i \in DOMAIN pt :
    LET e == pt[i].data
    IN /\ e.stat = e.pid /\ e.status = e.pid
       /\ pt[i].name = <<e.pid>>
       /\ e.fds \in {NONE, IF mode = "all" THEN e.pid ELSE Leader}
       /\ e.limits \in {NONE, e.fds}
       /\ e.secattr \in {NONE, e.pid}

\* A process that outlives the scan is published, whatever became of those before it in the
\* same record and buffer (one whose io file is odd is given up by design).
SurvivorsPublished ==
  pc = "done" =>
    \A p \in alive : (p \in IoOdd \ IoDenied => ~HasIo) => \E i \in DOMAIN pt : pt[i].data.pid = p

\* The scan decides the listed pids in order, each once, and ends.
PidsOf(entries) == [i \in DOMAIN entries |-> entries[i].data.pid]
Undecided == IF pc \in {"next", "done"} THEN todo ELSE todo \cup {Self}
Listing == INSTANCE ProcListing WITH todo <- Undecided, published <- PidsOf(pt)
DecidesInOrder == Listing!Spec

\* "Set the data in ptree only if all process related reads succeeded (prevent partial data
\* ...)": the I/O counters of an entry are its own, or zero.  The code does not keep this.
IoOwn == \A i \in DOMAIN pt : pt[i].data.io \in {NONE, pt[i].data.pid}
=============================================================================
