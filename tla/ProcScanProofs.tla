--------------------------- MODULE ProcScanProofs ---------------------------
(***************************************************************************)
(* Theorems about ProcScan: one record and one name buffer serve every     *)
(* listed process, and still every entry published is of one process, no   *)
(* survivor is lost, and the list is decided in its order.                 *)
(***************************************************************************)
EXTENDS ProcScan, TLAPS

BeforeName == {"stat", "status", "io", "open", "cmdline", "name"}
AfterName == {"fd", "limits", "secattr"}

\* An iteration is in progress, for a pid that comes before those that are left.
IterationInv ==
  pc \notin {"next", "done"} => Self \in Pids /\ \A q \in todo : Self < q

\* The name is appended last of what may fail, and what follows cannot.
NameInv ==
  /\ pc \in BeforeName \cup {"next", "done"} => name = <<>>
  /\ pc \in AfterName => name = <<Self>>

\* Which files of the process were read, by the one read next.
DataInv ==
  /\ pc \in {"status", "io", "open", "cmdline", "name"} \cup AfterName => data.stat = Self
  /\ pc \in {"io", "open", "cmdline", "name"} \cup AfterName => data.status = Self
  /\ pc \in BeforeName \cup {"next", "done", "fd"} => data.fds = NONE
  /\ pc # "secattr" => data.limits = NONE
  /\ data.secattr = NONE
  /\ pc = "limits" => data.fds = FdOwner
  /\ pc = "secattr" => data.fds \in {NONE, FdOwner} /\ data.limits \in {NONE, data.fds}

Published(p) == \E i \in DOMAIN pt : pt[i].data.pid = p

\* Who is still alive is published, to be decided, or being read.
SurvivorsInv ==
  \A p \in alive : (p \in IoOdd \ IoDenied => ~HasIo) =>
    \/ p \in todo
    \/ pc \notin {"next", "done"} /\ p = Self
    \/ Published(p)

ScanInv ==
  /\ TypeOK /\ IterationInv /\ NameInv /\ DataInv /\ EntriesOwn /\ SurvivorsInv
  /\ pc = "done" => todo = {}

LEMMA DataFields ==
  ASSUME NEW d \in Data
  PROVE  /\ d.pid \in Owner /\ d.stat \in Owner /\ d.status \in Owner
         /\ \A v \in Owner : /\ [d EXCEPT !.pid = v] \in Data
                             /\ [d EXCEPT !.stat = v] \in Data
                             /\ [d EXCEPT !.status = v] \in Data
                             /\ [d EXCEPT !.io = v] \in Data
                             /\ [d EXCEPT !.secattr = v] \in Data
         /\ \A v \in Owner \cup {Leader} : /\ [d EXCEPT !.fds = v] \in Data
                                           /\ [d EXCEPT !.limits = v] \in Data
BY DEF Data

LEMMA ScanInit ==
  ASSUME Init
  PROVE  ScanInv
<1>1. Cleared \in Data
  BY DEF Cleared, Data, Owner
<1>2. TypeOK
  BY <1>1 DEF Init, TypeOK, Reads
<1>3. IterationInv /\ NameInv /\ EntriesOwn /\ SurvivorsInv
  BY DEF Init, IterationInv, NameInv, EntriesOwn, SurvivorsInv, BeforeName, AfterName
<1>4. DataInv
  BY DEF Init, DataInv, BeforeName, AfterName, Cleared
<1> QED BY <1>2, <1>3, <1>4 DEF Init, ScanInv

\* A process that exits survives no longer; nothing else is known of the living.
LEMMA ExitStep ==
  ASSUME ScanInv, Exit
  PROVE  ScanInv'
<1>1. UNCHANGED <<mode, todo, pc, data, name, pt>> /\ alive' \subseteq alive
  BY DEF Exit
<1> QED BY <1>1 DEF ScanInv, TypeOK, IterationInv, NameInv, DataInv, EntriesOwn, SurvivorsInv,
              Self, FdOwner, Published

\* A process is skipped when it is dead, or by design, before its name is appended.
LEMMA SkipStep ==
  ASSUME ScanInv, pc \in BeforeName, SkipSelf,
         Self \in alive => Self \in IoOdd \ IoDenied /\ HasIo
  PROVE  ScanInv'
<1>1. UNCHANGED <<mode, alive, todo, data, name, pt>> /\ pc' = "next"
  BY DEF SkipSelf
<1>2. TypeOK' /\ EntriesOwn' /\ IterationInv'
  BY <1>1 DEF ScanInv, TypeOK, EntriesOwn, IterationInv, Reads
<1>3. NameInv' /\ DataInv'
  BY <1>1 DEF ScanInv, NameInv, DataInv, BeforeName, AfterName
<1>4. SurvivorsInv'
  BY <1>1 DEF ScanInv, SurvivorsInv, Self, Published
<1> QED BY <1>1, <1>2, <1>3, <1>4 DEF ScanInv

\* The next pid is the least of the list.
LEMMA NextPidStep ==
  ASSUME ScanInv, NextPid
  PROVE  ScanInv'
<1>1. PICK p \in todo : /\ \A q \in todo : p <= q
                        /\ data' = [data EXCEPT !.pid = p]
                        /\ todo' = todo \ {p}
  BY DEF NextPid
<1>2. pc = "next" /\ pc' = "stat" /\ UNCHANGED <<mode, alive, name, pt>>
  BY DEF NextPid
<1>3. p \in Pids /\ p \in Owner /\ data \in Data
  BY DEF ScanInv, TypeOK, Owner
<1>4. data' \in Data /\ data'.pid = p /\ \A f \in {"fds", "limits", "secattr"} : data'[f] = data[f]
  BY <1>1, <1>3, DataFields DEF Data
<1>5. TypeOK'
  BY <1>1, <1>2, <1>4 DEF ScanInv, TypeOK, Reads
<1>6. IterationInv'
  <2>1. \A q \in todo : q \in Nat
    BY PidsAssumption DEF ScanInv, TypeOK
  <2>2. \A q \in todo' : p < q
    BY <1>1, <2>1
  <2> QED BY <1>3, <1>4, <2>2 DEF IterationInv, Self
<1>7. NameInv' /\ DataInv' /\ EntriesOwn'
  BY <1>2, <1>4 DEF ScanInv, NameInv, DataInv, EntriesOwn, BeforeName, AfterName
<1>8. SurvivorsInv'
  BY <1>1, <1>2, <1>4 DEF ScanInv, SurvivorsInv, Published, Self
<1> QED BY <1>2, <1>5, <1>6, <1>7, <1>8 DEF ScanInv

\* A file of the process is read, and nothing but the record is touched.
LEMMA ReadStep ==
  ASSUME ScanInv, pc \in BeforeName \cup AfterName,
         pc' \in (BeforeName \cup AfterName) \ {"stat"},
         UNCHANGED <<mode, alive, todo, name, pt>>,
         data' \in Data, Self' = Self, NameInv', DataInv'
  PROVE  ScanInv'
<1>1. TypeOK'
  BY DEF ScanInv, TypeOK, Reads, BeforeName, AfterName
<1>2. pc \notin {"next", "done"} /\ pc' \notin {"next", "done"}
  BY DEF BeforeName, AfterName
<1>3. IterationInv' /\ EntriesOwn' /\ SurvivorsInv'
  BY <1>2 DEF ScanInv, IterationInv, EntriesOwn, SurvivorsInv, Published
<1> QED BY <1>1, <1>2, <1>3 DEF ScanInv

LEMMA ReadStatStep ==
  ASSUME ScanInv, ReadStat \/ ReadStatus
  PROVE  ScanInv'
<1>0. data \in Data /\ Self \in Owner /\ pc \in {"stat", "status"}
  BY DataFields DEF ScanInv, TypeOK, Self, ReadStat, ReadStatus
<1>1. CASE ~IsAlive /\ SkipSelf
  BY <1>0, <1>1, SkipStep DEF IsAlive, BeforeName
<1>2. CASE /\ pc = "stat" /\ IsAlive
           /\ data' = [data EXCEPT !.stat = Self]
           /\ pc' = "status"
           /\ UNCHANGED <<mode, alive, todo, name, pt>>
  <2>1. /\ data' \in Data /\ data'.stat = Self /\ Self' = Self
        /\ data'.fds = data.fds /\ data'.limits = data.limits /\ data'.secattr = data.secattr
    BY <1>0, <1>2, DataFields DEF Data, Self
  <2>2. NameInv' /\ DataInv'
    BY <1>2, <2>1 DEF ScanInv, NameInv, DataInv, BeforeName, AfterName
  <2> QED BY <1>2, <2>1, <2>2, ReadStep DEF BeforeName, AfterName
<1>3. CASE /\ pc = "status" /\ IsAlive
           /\ data' = [data EXCEPT !.status = Self]
           /\ pc' = "io"
           /\ UNCHANGED <<mode, alive, todo, name, pt>>
  <2>1. /\ data' \in Data /\ data'.stat = data.stat /\ data'.status = Self /\ Self' = Self
        /\ data'.fds = data.fds /\ data'.limits = data.limits /\ data'.secattr = data.secattr
    BY <1>0, <1>3, DataFields DEF Data, Self
  <2>2. NameInv' /\ DataInv'
    BY <1>3, <2>1 DEF ScanInv, NameInv, DataInv, BeforeName, AfterName
  <2> QED BY <1>3, <2>1, <2>2, ReadStep DEF BeforeName, AfterName
<1> QED BY <1>1, <1>2, <1>3 DEF ReadStat, ReadStatus

\* An odd io file ends the iteration; any other, read or not, does not.
LEMMA ReadIoStep ==
  ASSUME ScanInv, ReadIo
  PROVE  ScanInv'
<1>0. data \in Data /\ Self \in Owner /\ pc = "io" /\ UNCHANGED <<mode, alive, todo, name, pt>>
  BY DataFields DEF ScanInv, TypeOK, Self, ReadIo
<1>1. /\ data' \in Data /\ data'.stat = data.stat /\ data'.status = data.status /\ Self' = Self
      /\ data'.fds = data.fds /\ data'.limits = data.limits /\ data'.secattr = data.secattr
  <2>1. data' = data \/ data' = [data EXCEPT !.io = Self]
    BY DEF ReadIo
  <2> QED BY <1>0, <2>1, DataFields DEF Data, Self
<1>2. CASE HasIo /\ IsAlive /\ Self \notin IoDenied /\ Self \in IoOdd
  <2>1. pc' = "next"
    BY <1>2 DEF ReadIo
  <2>2. TypeOK' /\ EntriesOwn' /\ IterationInv'
    BY <1>0, <1>1, <2>1 DEF ScanInv, TypeOK, EntriesOwn, IterationInv, Reads
  <2>3. NameInv' /\ DataInv'
    BY <1>0, <1>1, <2>1 DEF ScanInv, NameInv, DataInv, BeforeName, AfterName
  <2>4. SurvivorsInv'
    BY <1>0, <1>2, <2>1 DEF ScanInv, SurvivorsInv, Published
  <2> QED BY <2>1, <2>2, <2>3, <2>4 DEF ScanInv
<1>3. CASE ~(HasIo /\ IsAlive /\ Self \notin IoDenied /\ Self \in IoOdd)
  <2>1. pc' \in {"open", "name"}
    BY <1>3 DEF ReadIo, AfterIo
  <2>2. NameInv' /\ DataInv'
    BY <1>0, <1>1, <2>1 DEF ScanInv, NameInv, DataInv, BeforeName, AfterName
  <2> QED BY <1>0, <1>1, <2>1, <2>2, ReadStep DEF BeforeName, AfterName
<1> QED BY <1>2, <1>3

LEMMA NameStep ==
  ASSUME ScanInv, OpenCmdline \/ ReadCmdline \/ ReadName
  PROVE  ScanInv'
<1>0. /\ pc \in {"open", "cmdline", "name"} /\ name = <<>> /\ name \in Seq(Pids) /\ Self \in Pids
  BY DEF OpenCmdline, ReadCmdline, ReadName, ScanInv, NameInv, BeforeName, IterationInv, TypeOK
<1>1. ASSUME ~IsAlive, SkipSelf PROVE ScanInv'
  BY <1>0, <1>1, SkipStep DEF IsAlive, BeforeName
<1>2. ASSUME pc' \in {"cmdline", "name"}, name' = name, UNCHANGED <<mode, alive, todo, data, pt>>
      PROVE  ScanInv'
  <2>1. data' \in Data /\ Self' = Self
    BY <1>2 DEF ScanInv, TypeOK, Self
  <2>2. NameInv' /\ DataInv'
    BY <1>0, <1>2, <2>1 DEF ScanInv, NameInv, DataInv, BeforeName, AfterName
  <2> QED BY <1>0, <1>2, <2>1, <2>2, ReadStep DEF BeforeName, AfterName
<1>3. ASSUME pc' = "fd", name' = Append(name, Self), UNCHANGED <<mode, alive, todo, data, pt>>
      PROVE  ScanInv'
  <2>1. name' = <<Self>> /\ name' \in Seq(Pids) /\ Self' = Self
    BY <1>0, <1>3 DEF Self
  <2>2. NameInv' /\ DataInv'
    BY <1>0, <1>3, <2>1 DEF ScanInv, NameInv, DataInv, BeforeName, AfterName
  <2>3. TypeOK'
    BY <1>3, <2>1 DEF ScanInv, TypeOK, Reads
  <2>4. IterationInv' /\ EntriesOwn' /\ SurvivorsInv'
    BY <1>0, <1>3, <2>1 DEF ScanInv, IterationInv, EntriesOwn, SurvivorsInv, Published
  <2> QED BY <1>3, <2>2, <2>3, <2>4 DEF ScanInv
<1>4. CASE OpenCmdline
  BY <1>1, <1>2, <1>4 DEF OpenCmdline
<1>5. CASE ReadCmdline
  <2>1. CASE IsAlive /\ Self \notin NoCmdline
    <3>1. name' = Append(name, Self) /\ name' # <<>>
      BY <1>0, <1>5, <2>1 DEF ReadCmdline
    <3> QED BY <1>3, <1>5, <3>1 DEF ReadCmdline
  <2>2. CASE ~(IsAlive /\ Self \notin NoCmdline)
    BY <1>0, <1>2, <1>5, <2>2 DEF ReadCmdline
  <2> QED BY <2>1, <2>2
<1>6. CASE ReadName
  <2>1. CASE IsAlive
    BY <1>0, <1>3, <1>6, <2>1 DEF ReadName
  <2>2. CASE ~IsAlive
    BY <1>0, <1>1, <1>6, <2>2 DEF ReadName, SkipSelf
  <2> QED BY <2>1, <2>2
<1> QED BY <1>4, <1>5, <1>6

LEMMA FdsStep ==
  ASSUME ScanInv, ReadFds \/ ReadLimits
  PROVE  ScanInv'
<1>0. /\ data \in Data /\ Self \in Pids /\ FdOwner \in Owner \cup {Leader}
      /\ pc \in {"fd", "limits"} /\ UNCHANGED <<mode, alive, todo, name, pt>>
  BY DEF ScanInv, TypeOK, IterationInv, FdOwner, Owner, ReadFds, ReadLimits
<1>1. ASSUME data' \in {data, [data EXCEPT !.fds = FdOwner], [data EXCEPT !.limits = FdOwner]}
      PROVE  /\ data' \in Data /\ Self' = Self /\ FdOwner' = FdOwner
             /\ data'.stat = data.stat /\ data'.status = data.status
             /\ data'.secattr = data.secattr
  BY <1>0, <1>1, DataFields DEF Data, Self, FdOwner
<1>2. CASE ReadFds
  <2>1. \/ data' = [data EXCEPT !.fds = FdOwner] /\ pc' = "limits"
        \/ data' = data /\ pc' = "secattr"
    BY <1>2 DEF ReadFds
  <2>2. /\ data'.limits = data.limits
        /\ pc' = "limits" => data'.fds = FdOwner
        /\ pc' = "secattr" => data'.fds = data.fds
    BY <1>0, <2>1 DEF Data
  <2>3. pc = "fd"
    BY <1>2 DEF ReadFds
  <2>4. NameInv' /\ DataInv'
    BY <1>0, <1>1, <2>1, <2>2, <2>3 DEF ScanInv, NameInv, DataInv, BeforeName, AfterName
  <2> QED BY <1>0, <1>1, <2>1, <2>4, ReadStep DEF BeforeName, AfterName
<1>3. CASE ReadLimits
  <2>1. pc = "limits" /\ pc' = "secattr" /\ data' \in {data, [data EXCEPT !.limits = FdOwner]}
    BY <1>3 DEF ReadLimits
  <2>2. data'.fds = data.fds /\ data'.limits \in {data.limits, FdOwner}
    BY <1>0, <2>1 DEF Data
  <2>3. NameInv' /\ DataInv'
    BY <1>0, <1>1, <2>1, <2>2 DEF ScanInv, NameInv, DataInv, BeforeName, AfterName
  <2> QED BY <1>0, <1>1, <2>1, <2>3, ReadStep DEF BeforeName, AfterName
<1> QED BY <1>2, <1>3

\* What is appended to the array, and what was there before.
LEMMA AppendEntry ==
  ASSUME NEW S, NEW s \in Seq(S), NEW e \in S
  PROVE  /\ Append(s, e) \in Seq(S)
         /\ DOMAIN s = 1 .. Len(s) /\ DOMAIN Append(s, e) = 1 .. Len(s) + 1
         /\ Len(s) \in Nat
         /\ \A i \in DOMAIN s : i \in DOMAIN Append(s, e) /\ Append(s, e)[i] = s[i]
         /\ Append(s, e)[Len(s) + 1] = e
OBVIOUS

LEMMA SecattrStep ==
  ASSUME ScanInv, ReadSecattr
  PROVE  ScanInv'
<1> DEFINE last == IF IsAlive THEN [data EXCEPT !.secattr = Self] ELSE data
           e == [data |-> last, name |-> name]
<1>0. /\ data \in Data /\ Self \in Pids /\ Self \in Owner /\ name = <<Self>> /\ name \in Seq(Pids)
      /\ pc = "secattr" /\ pc' = "next" /\ data' = Cleared /\ name' = <<>>
      /\ UNCHANGED <<mode, alive, todo>> /\ pt' = Append(pt, e)
      /\ pt \in Seq([data: Data, name: Seq(Pids)])
  BY DEF ScanInv, TypeOK, IterationInv, Owner, NameInv, AfterName, ReadSecattr
<1>1. /\ last \in Data /\ last.pid = Self /\ last.stat = data.stat /\ last.status = data.status
      /\ last.fds = data.fds /\ last.limits = data.limits /\ last.secattr \in {NONE, Self}
  <2>1. data.secattr = NONE
    BY DEF ScanInv, DataInv
  <2> QED BY <1>0, <2>1, DataFields DEF Data, Self
<1> HIDE DEF last
<1>2. e \in [data: Data, name: Seq(Pids)]
  BY <1>0, <1>1
<1>3. /\ pt' \in Seq([data: Data, name: Seq(Pids)])
      /\ \A i \in DOMAIN pt : i \in DOMAIN pt' /\ pt'[i] = pt[i]
      /\ \A i \in DOMAIN pt' : pt'[i] = e \/ (i \in DOMAIN pt /\ pt'[i] = pt[i])
      /\ \E i \in DOMAIN pt' : pt'[i] = e
  <2> DEFINE S == [data: Data, name: Seq(Pids)]
  <2>1. pt \in Seq(S) /\ e \in S
    BY <1>0, <1>2
  <2> HIDE DEF S, e
  <2>2. /\ pt' \in Seq(S)
        /\ DOMAIN pt = 1 .. Len(pt) /\ DOMAIN pt' = 1 .. Len(pt) + 1 /\ Len(pt) \in Nat
        /\ \A i \in DOMAIN pt : i \in DOMAIN pt' /\ pt'[i] = pt[i]
        /\ pt'[Len(pt) + 1] = e
    BY <1>0, <2>1, AppendEntry
  <2>3. \A i \in DOMAIN pt' : i = Len(pt) + 1 \/ i \in DOMAIN pt
    BY <2>2
  <2>4. \E i \in DOMAIN pt' : pt'[i] = e
    BY <2>2
  <2>5. \A i \in DOMAIN pt' : pt'[i] = e \/ (i \in DOMAIN pt /\ pt'[i] = pt[i])
    BY <2>2, <2>3
  <2>6. pt' \in Seq([data: Data, name: Seq(Pids)])
    BY <2>2 DEF S
  <2> QED BY <2>2, <2>4, <2>5, <2>6
<1>4. Cleared \in Data
  BY DEF Cleared, Data, Owner
<1>5. TypeOK'
  BY <1>0, <1>3, <1>4 DEF ScanInv, TypeOK, Reads
<1>6. NameInv' /\ DataInv' /\ IterationInv'
  BY <1>0 DEF NameInv, DataInv, IterationInv, Cleared, BeforeName, AfterName
<1>7. EntriesOwn'
  <2>1. /\ last.stat = Self /\ last.status = Self
        /\ last.fds \in {NONE, IF mode = "all" THEN Self ELSE Leader}
        /\ last.limits \in {NONE, last.fds}
    BY <1>0, <1>1 DEF ScanInv, DataInv, AfterName, FdOwner
  <2>2. e.data = last /\ e.name = <<last.pid>>
    BY <1>0, <1>1
  <2>3. ASSUME NEW i \in DOMAIN pt'
        PROVE  /\ pt'[i].data.stat = pt'[i].data.pid /\ pt'[i].data.status = pt'[i].data.pid
               /\ pt'[i].name = <<pt'[i].data.pid>>
               /\ pt'[i].data.fds \in {NONE, IF mode = "all" THEN pt'[i].data.pid ELSE Leader}
               /\ pt'[i].data.limits \in {NONE, pt'[i].data.fds}
               /\ pt'[i].data.secattr \in {NONE, pt'[i].data.pid}
    <3> HIDE DEF e
    <3>1. CASE pt'[i] = e
      BY <1>1, <2>1, <2>2, <3>1
    <3>2. CASE i \in DOMAIN pt /\ pt'[i] = pt[i]
      BY <3>2 DEF ScanInv, EntriesOwn
    <3> QED BY <1>3, <3>1, <3>2
  <2> QED BY <1>0, <2>3 DEF EntriesOwn
<1>8. SurvivorsInv'
  <2>1. \E i \in DOMAIN pt' : pt'[i].data.pid = Self
    <3>1. e.data.pid = Self
      BY <1>1
    <3> HIDE DEF e
    <3> QED BY <1>3, <3>1
  <2>2. ASSUME NEW p, p = Self \/ Published(p)
        PROVE  \E i \in DOMAIN pt' : pt'[i].data.pid = p
    BY <1>3, <2>1, <2>2 DEF Published
  <2> HIDE DEF e
  <2>3. ASSUME NEW p \in alive', p \in IoOdd \ IoDenied => ~HasIo
        PROVE  p \in todo' \/ p = Self \/ Published(p)
    BY <1>0, <2>3 DEF ScanInv, SurvivorsInv
  <2> QED BY <2>2, <2>3 DEF SurvivorsInv, Published
<1> QED BY <1>0, <1>5, <1>6, <1>7, <1>8 DEF ScanInv

LEMMA FinishStep ==
  ASSUME ScanInv, Finish
  PROVE  ScanInv'
<1>1. /\ pc = "next" /\ pc' = "done" /\ todo = {}
      /\ UNCHANGED <<mode, alive, todo, data, name, pt>>
  BY DEF Finish
<1>2. TypeOK' /\ IterationInv' /\ EntriesOwn'
  BY <1>1 DEF ScanInv, TypeOK, Reads, IterationInv, EntriesOwn
<1>3. NameInv' /\ DataInv'
  BY <1>1 DEF ScanInv, NameInv, DataInv, BeforeName, AfterName
<1>4. SurvivorsInv'
  BY <1>1 DEF ScanInv, SurvivorsInv, Published
<1> QED BY <1>1, <1>2, <1>3, <1>4 DEF ScanInv

LEMMA ScanNext ==
  ASSUME ScanInv, [Next]_vars
  PROVE  ScanInv'
<1>1. CASE UNCHANGED vars
  BY <1>1 DEF ScanInv, TypeOK, IterationInv, NameInv, DataInv, EntriesOwn, SurvivorsInv,
              Self, FdOwner, Published, vars
<1>2. CASE Exit
  BY <1>2, ExitStep
<1>3. CASE Scan
  BY <1>3, NextPidStep, ReadStatStep, ReadIoStep, NameStep, FdsStep, SecattrStep, FinishStep
  DEF Scan
<1> QED BY <1>1, <1>2, <1>3 DEF Next

\* The strengthened invariant: where the iteration stands, whose characters the name holds,
\* and which fields of the record were filled.
THEOREM ScanInductive == Spec => []ScanInv
BY ScanInit, ScanNext, PTL DEF Spec

\* The variables keep their types.
THEOREM ScanTypes == Spec => []TypeOK
<1>1. ScanInv => TypeOK
  BY DEF ScanInv
<1> QED BY <1>1, ScanInductive, PTL

\* proc.name is empty whenever an iteration starts, although only a published process clears
\* it (ProcessTree.c:656).
THEOREM NameCleared == Spec => []NameClearedBetween
<1>1. ScanInv => NameClearedBetween
  BY DEF ScanInv, NameInv, NameClearedBetween
<1> QED BY <1>1, ScanInductive, PTL

\* Nothing of one process gets into the entry of another, its I/O counters excepted
\* (ProcessTree.c:597-657).
THEOREM EntriesOfOne == Spec => []EntriesOwn
<1>1. ScanInv => EntriesOwn
  BY DEF ScanInv
<1> QED BY <1>1, ScanInductive, PTL

\* No survivor is lost to the processes that vanished before it (ProcessTree.c:590-657).
THEOREM SurvivorsKept == Spec => []SurvivorsPublished
<1>1. ScanInv => SurvivorsPublished
  BY DEF ScanInv, SurvivorsInv, SurvivorsPublished, Published
<1> QED BY <1>1, ScanInductive, PTL

-----------------------------------------------------------------------------
\* A step that neither starts nor ends an iteration decides nothing.
LEMMA StepInIteration ==
  ASSUME UNCHANGED <<todo, pt>>, Self' = Self,
         pc \notin {"next", "done"} <=> pc' \notin {"next", "done"}
  PROVE  UNCHANGED Listing!vars
BY DEF Listing!vars, Undecided, PidsOf

\* An iteration ends, with or without an entry: its pid was the least undecided.
LEMMA IterationEnds ==
  ASSUME ScanInv, pc \notin {"next", "done"}, pc' = "next", todo' = todo,
         PidsOf(pt)' \in {PidsOf(pt), Append(PidsOf(pt), Self)}
  PROVE  Listing!Decide
<1>1. Self \in Pids /\ \A q \in todo : Self < q /\ q \in Pids
  BY DEF ScanInv, IterationInv, TypeOK
<1>2. Undecided = todo \cup {Self} /\ Undecided' = todo
  BY DEF Undecided
<1>3. Self \notin todo /\ \A q \in Undecided : Self <= q
  <2>1. Self \in Nat /\ \A q \in todo : q \in Nat
    BY <1>1, PidsAssumption
  <2>2. \A q \in todo : Self <= q /\ q # Self
    BY <1>1, <2>1
  <2> QED BY <1>2, <2>1, <2>2
<1> QED BY <1>2, <1>3 DEF Listing!Decide, Listing!IsNext

LEMMA PidsOfAppend ==
  ASSUME TypeOK, NEW e, pt' = Append(pt, e), e.data.pid = Self
  PROVE  PidsOf(pt)' = Append(PidsOf(pt), Self)
<1>1. pt \in Seq([data: Data, name: Seq(Pids)])
  BY DEF TypeOK
<1>2. PICK n \in Nat : n = Len(pt) /\ DOMAIN pt = 1 .. n
  BY <1>1
<1>3. DOMAIN pt' = 1 .. n + 1 /\ pt'[n + 1] = e /\ \A i \in 1 .. n : pt'[i] = pt[i]
  BY <1>1, <1>2
<1>4. PidsOf(pt) = [i \in 1 .. n |-> pt[i].data.pid]
  BY <1>2 DEF PidsOf
<1>5. PidsOf(pt)' = [i \in 1 .. n + 1 |-> pt'[i].data.pid]
  BY <1>3 DEF PidsOf
<1>6. Len(PidsOf(pt)) = n
  BY <1>4, <1>2
<1>7. Append(PidsOf(pt), Self) = [i \in 1 .. n + 1 |-> IF i = n + 1 THEN Self ELSE PidsOf(pt)[i]]
  BY <1>4, <1>6
<1>8. ASSUME NEW i \in 1 .. n + 1
      PROVE  pt'[i].data.pid = IF i = n + 1 THEN Self ELSE PidsOf(pt)[i]
  BY <1>3, <1>4
<1> QED BY <1>5, <1>7, <1>8

\* A read either stays in the iteration or skips the process.
LEMMA ReadDecides ==
  ASSUME ScanInv, pc \notin {"next", "done"}, pc' # "done", UNCHANGED <<todo, pt>>, Self' = Self
  PROVE  [Listing!Next]_(Listing!vars)
<1>1. CASE pc' = "next"
  BY <1>1, IterationEnds DEF PidsOf, Listing!Next
<1>2. CASE pc' # "next"
  BY <1>2, StepInIteration
<1> QED BY <1>1, <1>2

LEMMA ScanDecideStep ==
  ASSUME ScanInv, [Next]_vars
  PROVE  [Listing!Next]_(Listing!vars)
<1>0. data \in Data
  BY DEF ScanInv, TypeOK
<1>1. CASE UNCHANGED vars \/ Exit
  <2>1. UNCHANGED <<todo, pt, data, pc>>
    BY <1>1 DEF vars, Exit
  <2> QED BY <2>1, StepInIteration DEF Self
<1>2. CASE NextPid
  <2>1. PICK p \in todo : data' = [data EXCEPT !.pid = p] /\ todo' = todo \ {p}
    BY <1>2 DEF NextPid
  <2>2. pc = "next" /\ pc' = "stat" /\ pt' = pt /\ Self' = p
    BY <1>0, <1>2, <2>1 DEF NextPid, Self, Data
  <2>3. Undecided = todo /\ Undecided' = todo' \cup {p}
    BY <2>2 DEF Undecided
  <2> QED BY <2>1, <2>2, <2>3 DEF Listing!vars, PidsOf
<1>3. CASE ReadStat \/ ReadStatus \/ ReadIo \/ ReadFds \/ ReadLimits
  <2>1. /\ pc \notin {"next", "done"} /\ pc' # "done" /\ UNCHANGED <<todo, pt>>
        /\ \/ data' = data
           \/ \E v : \/ data' = [data EXCEPT !.stat = v] \/ data' = [data EXCEPT !.status = v]
                     \/ data' = [data EXCEPT !.io = v] \/ data' = [data EXCEPT !.fds = v]
                     \/ data' = [data EXCEPT !.limits = v]
    BY <1>3 DEF ReadStat, ReadStatus, ReadIo, ReadFds, ReadLimits, SkipSelf, AfterIo
  <2>2. Self' = Self
    BY <1>0, <2>1 DEF Self, Data
  <2> QED BY <2>1, <2>2, ReadDecides
<1>4. CASE OpenCmdline \/ ReadCmdline \/ ReadName
  <2>1. pc \notin {"next", "done"} /\ pc' # "done" /\ UNCHANGED <<todo, pt, data>>
    BY <1>4 DEF OpenCmdline, ReadCmdline, ReadName, SkipSelf
  <2> QED BY <2>1, ReadDecides DEF Self
<1>5. CASE ReadSecattr
  <2> DEFINE last == IF IsAlive THEN [data EXCEPT !.secattr = Self] ELSE data
             e == [data |-> last, name |-> name]
  <2>1. pc = "secattr" /\ pc' = "next" /\ todo' = todo /\ pt' = Append(pt, e)
    BY <1>5 DEF ReadSecattr
  <2>2. e.data.pid = Self
    BY <1>0 DEF Self, Data
  <2> HIDE DEF e
  <2>3. PidsOf(pt)' = Append(PidsOf(pt), Self)
    BY <2>1, <2>2, PidsOfAppend DEF ScanInv
  <2> QED BY <2>1, <2>3, IterationEnds DEF Listing!Next
<1>6. CASE Finish
  BY <1>6 DEF Finish, Listing!vars, Undecided, PidsOf
<1> QED BY <1>1, <1>2, <1>3, <1>4, <1>5, <1>6 DEF Next, Scan

\* The scan decides every listed pid once, in the order of the list, and what it published of
\* them is in that order (ProcessTree.c:562, 590).
THEOREM ScanDecides == Spec => Listing!Safety
<1>1. Init => Listing!Init
  BY DEF Init, Listing!Init, Undecided, PidsOf
<1>2. ScanInv /\ [Next]_vars => [Listing!Next]_(Listing!vars)
  BY ScanDecideStep
<1> QED BY <1>1, <1>2, ScanInductive, PTL DEF Spec, Listing!Safety
=============================================================================
