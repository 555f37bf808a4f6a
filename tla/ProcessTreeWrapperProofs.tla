---------------------- MODULE ProcessTreeWrapperProofs ----------------------
(***************************************************************************)
(* Theorems about the composition: the life of a ProcessTreeWrapper uses   *)
(* its tree as ProcessTree says, so what holds of the tree holds there;    *)
(* CPU usage needs two readings and a clock; and what a query lists is a   *)
(* top of the tree of that moment.                                         *)
(***************************************************************************)
EXTENDS ProcessTreeWrapper, ProcessTreeProofs

\* Each step of the composition is a step of the tree, or leaves it alone.
LEMMA TreeStep ==
  ASSUME [WNext]_wvars
  PROVE  [Next]_vars
<1>1. CASE Update
  BY <1>1 DEF Update, Next
<1>2. CASE Refresh
  BY <1>2 DEF Refresh, Next
<1>3. CASE Destroy
  BY <1>3 DEF Destroy, Next
<1>4. CASE Updated \/ GetTop \/ GetTopStep
  BY <1>4 DEF Updated, GetTop, GetTopStep
<1>5. CASE UNCHANGED wvars
  BY <1>5 DEF wvars
<1> QED BY <1>1, <1>2, <1>3, <1>4, <1>5 DEF WNext

\* The composition implements ProcessTree (its safety part): whoever owns the tree, and
\* whatever is asked of it between two refreshes, calls it as ProcessTree expects.
THEOREM UsesTree == WSpec => Init /\ [][Next]_vars
<1>1. WInit => Init
  BY DEF WInit
<1>2. [WNext]_wvars => [Next]_vars
  BY TreeStep
<1> QED BY <1>1, <1>2, PTL DEF WSpec

-----------------------------------------------------------------------------
(* CPU usage takes two readings. *)

\* The entries whose usage is computed.
Computed == {k \in Idx : pc \in {"fill", "idle"} \/ (pc = "link" /\ k < cur)}

\* What a usage is computed from was in the tree of the update before, and the clock was read.
UsageInv ==
  /\ pc = "idle" => old = NoTree
  /\ \A k \in 0 .. old.size-1 : old.pt[k].pid \in seen
  /\ \A k \in Computed : pt[k].self # -1 => pt[k].pid \in seen /\ time # 0

\* Calls happen only while the object is updating; after one, it is known how it went.
ObjectInv ==
  /\ pc # "idle" => object = "updating"
  /\ object = "updating" => calls > 0
  /\ object = "aborted" => mode = "all" /\ size = 0

WrapperInv == MInv /\ UsageInv /\ ObjectInv

\* A usage that is computed has a predecessor and a clock that was read.
LEMMA UsageSeen ==
  ASSUME TypeOK, UsageInv, NEW k \in Idx, UsageSelf(k) # -1
  PROVE  pt[k].pid \in seen /\ time # 0
<1> DEFINE o == Find(pt[k].pid, old.pt, old.size)
<1>1. old.size \in Nat /\ time \in Nat /\ old.time \in Nat
  BY DEF TypeOK
<1>2. o # -1 /\ time - old.time > 0
  BY DEF UsageSelf
<1>3. o \in 0 .. old.size-1 /\ old.pt[o].pid = pt[k].pid
  BY <1>1, <1>2, FindResult
<1> QED BY <1>1, <1>2, <1>3 DEF UsageInv

\* The entry that an iteration of the loop links gets the usage computed for it; the others,
\* and all pids, stay.
LEMMA LinkKeepsUsages ==
  ASSUME TypeOK, LinkRoot \/ LinkThread \/ LinkChild \/ LinkOrphan
  PROVE  /\ cur \in Idx /\ cur' = cur + 1 /\ pc = "link" /\ pc' = "link"
         /\ Idx' = Idx \/ Idx' = Idx \cup {size}
         /\ pt'[cur].self = UsageSelf(cur) /\ pt'[cur].pid = pt[cur].pid
         /\ \A k \in Idx \ {cur} : pt'[k].self = pt[k].self /\ pt'[k].pid = pt[k].pid
         /\ UNCHANGED <<old, time>>
<1>1. /\ cur \in Idx /\ cur \in Nat /\ size \in Nat /\ pt \in [Idx -> Entry] /\ Idx = 0 .. size-1
      /\ pc = "link" /\ Linking
  BY DEF TypeOK, LinkRoot, LinkThread, LinkChild, LinkOrphan, Linking, Idx
<1>2. \A k \in Idx : pt[k] \in Entry
  BY <1>1
<1>3. CASE LinkRoot
  <2>1. pt' = [pt EXCEPT ![cur].self = UsageSelf(cur), ![cur].parent = cur]
    BY <1>3 DEF LinkRoot
  <2>2. Idx' = Idx
    BY <1>3 DEF LinkRoot, Idx
  <2> QED BY <1>1, <1>2, <1>3, <2>1, <2>2 DEF LinkRoot, Entry
<1>4. CASE LinkThread
  <2>1. pt' = [pt EXCEPT ![cur].self = UsageSelf(cur)]
    BY <1>4 DEF LinkThread
  <2>2. Idx' = Idx
    BY <1>4 DEF LinkThread, Idx
  <2> QED BY <1>1, <1>2, <1>4, <2>1, <2>2 DEF LinkThread, Entry
<1>5. ASSUME NEW n \in Nat, size <= n, NEW t \in [0 .. n-1 -> Entry], NEW p \in 0 .. n-1,
             \A k \in Idx : t[k] = pt[k], pt' = Linked(t, p)
      PROVE  /\ pt'[cur].self = UsageSelf(cur) /\ pt'[cur].pid = pt[cur].pid
             /\ \A k \in Idx \ {cur} : pt'[k].self = pt[k].self /\ pt'[k].pid = pt[k].pid
  <2>1. \A k \in Idx : k \in 0 .. n-1 /\ t[k] \in Entry
    BY <1>1, <1>5
  <2>2. pt'[cur] = [t[cur] EXCEPT !.self = UsageSelf(cur), !.parent = p]
    BY <1>1, <1>5, <2>1 DEF Linked
  <2>3. \A k \in Idx \ {cur} : pt'[k] = IF k = p THEN [t[k] EXCEPT !.list = Append(@, cur)] ELSE t[k]
    BY <1>1, <1>5, <2>1 DEF Linked
  <2>4. pt'[cur].self = UsageSelf(cur) /\ pt'[cur].pid = pt[cur].pid
    BY <1>1, <1>2, <1>5, <2>2 DEF Entry
  <2>5. ASSUME NEW k \in Idx \ {cur}
        PROVE  pt'[k].self = pt[k].self /\ pt'[k].pid = pt[k].pid
    <3>1. pt[k] \in Entry /\ t[k] = pt[k]
      BY <1>2, <1>5
    <3>2. pt'[k] = [pt[k] EXCEPT !.list = Append(@, cur)] \/ pt'[k] = pt[k]
      BY <2>3, <3>1
    <3> QED BY <3>1, <3>2 DEF Entry
  <2> QED BY <2>4, <2>5
<1>6. CASE LinkChild
  <2>1. PICK p \in Idx : pt' = Linked(pt, p)
    BY <1>6 DEF LinkChild
  <2>2. Idx' = Idx
    BY <1>6 DEF LinkChild, Idx
  <2>3. size <= size /\ p \in 0 .. size-1 /\ pt \in [0 .. size-1 -> Entry]
    BY <1>1, <2>1
  <2> QED BY <1>1, <1>5, <1>6, <2>1, <2>2, <2>3 DEF LinkChild
<1>7. CASE LinkOrphan
  <2> DEFINE t == [k \in 0 .. size |-> IF k = size THEN VirtualEntry(pt[cur].ppid) ELSE pt[k]]
  <2>1. pt' = Linked(t, size) /\ size' = size + 1
    BY <1>7 DEF LinkOrphan
  <2>2. Idx' = Idx \cup {size}
    BY <1>1, <2>1 DEF Idx
  <2>3. t \in [0 .. (size+1)-1 -> Entry]
    <3>1. VirtualEntry(pt[cur].ppid) \in Entry
      BY <1>1, <1>2 DEF VirtualEntry, Entry
    <3>2. \A k \in 0 .. size : k = size \/ k \in Idx
      BY <1>1
    <3>3. (size+1)-1 = size
      BY <1>1
    <3>4. \A k \in 0 .. size : t[k] \in Entry
      BY <1>2, <3>1, <3>2
    <3> QED BY <3>3, <3>4
  <2>4. /\ size + 1 \in Nat /\ size <= size + 1 /\ size \in 0 .. (size+1)-1
        /\ \A k \in Idx : t[k] = pt[k]
    BY <1>1
  <2> HIDE DEF t
  <2>5. /\ pt'[cur].self = UsageSelf(cur) /\ pt'[cur].pid = pt[cur].pid
        /\ \A k \in Idx \ {cur} : pt'[k].self = pt[k].self /\ pt'[k].pid = pt[k].pid
    BY <1>5, <2>1, <2>3, <2>4
  <2> QED BY <1>1, <1>7, <2>2, <2>5 DEF LinkOrphan
<1> QED BY <1>3, <1>4, <1>6, <1>7

LEMMA UsageLink ==
  ASSUME TypeOK, UsageInv, LinkRoot \/ LinkThread \/ LinkChild \/ LinkOrphan, seen' = seen
  PROVE  UsageInv'
<1>1. /\ cur \in Idx /\ cur' = cur + 1 /\ pc = "link" /\ pc' = "link"
      /\ Idx' = Idx \/ Idx' = Idx \cup {size}
      /\ pt'[cur].self = UsageSelf(cur) /\ pt'[cur].pid = pt[cur].pid
      /\ \A k \in Idx \ {cur} : pt'[k].self = pt[k].self /\ pt'[k].pid = pt[k].pid
      /\ UNCHANGED <<old, time>>
  BY LinkKeepsUsages
<1>2. ASSUME NEW k \in Computed'
      PROVE  k = cur \/ (k \in Computed /\ k \in Idx \ {cur})
  <2>1. k \in Idx' /\ k < cur + 1 /\ size \in Nat /\ cur \in Nat /\ cur < size
    BY <1>1 DEF Computed, TypeOK, Idx
  <2>2. k \in Idx
    BY <1>1, <2>1
  <2> QED BY <1>1, <2>1, <2>2 DEF Computed, Idx
<1>3. UsageSelf(cur) # -1 => pt[cur].pid \in seen /\ time # 0
  BY <1>1, UsageSeen
<1>4. \A k \in Computed' : pt'[k].self # -1 => pt'[k].pid \in seen' /\ time' # 0
  BY <1>1, <1>2, <1>3 DEF UsageInv
<1> QED BY <1>1, <1>4 DEF UsageInv

\* An update forgets what the tree before the last one knew.
LEMMA UsageUpdate ==
  ASSUME WrapperInv, Update
  PROVE  UsageInv'
<1>1. /\ pc = "idle" /\ pc' = "glob" /\ size' = 0 /\ calls \in Nat
      /\ old' = IF ppTree # NULL THEN [blk |-> ppTree, pt |-> pt, size |-> size, time |-> time]
                ELSE NoTree
      /\ seen' = IF result < 0 THEN {} ELSE TreePids
  BY DEF Update, Begin, WrapperInv, MInv, IInv, TypeOK
<1>2. Computed' = {}
  BY <1>1 DEF Computed
<1>3. ASSUME NEW k \in 0 .. old'.size-1
      PROVE  old'.pt[k].pid \in seen'
  <2>1. CASE ppTree = NULL
    BY <1>1, <1>3, <2>1 DEF NoTree
  <2>2. CASE ppTree # NULL
    <3>1. calls > 0
      BY <1>1, <2>2 DEF WrapperInv, MInv, MemoryInv, NULL
    <3>2. old'.size = size /\ old'.pt = pt /\ k \in Idx /\ size > 0
      BY <1>1, <1>3, <2>2 DEF Idx, WrapperInv, MInv, IInv, TypeOK
    <3>3. result > 0
      BY <1>1, <3>1, <3>2 DEF WrapperInv, MInv, ResultAgrees
    <3>4. ~(result < 0)
      BY <3>3 DEF WrapperInv, MInv, IInv, TypeOK
    <3> QED BY <1>1, <3>2, <3>4 DEF TreePids
  <2> QED BY <2>1, <2>2
<1>4. pc' # "idle"
  BY <1>1
<1> QED BY <1>2, <1>3, <1>4 DEF UsageInv

\* The other steps of a call compute no usage.
LEMMA UsageStep ==
  ASSUME WrapperInv, Step, seen' = seen
  PROVE  UsageInv'
<1>0. ASSUME ReturnNoTree PROVE UsageInv'
  <2>1. old' = NoTree /\ size' = 0
    BY <1>0 DEF ReturnNoTree, Return
  <2>2. Computed' = {}
    BY <2>1 DEF Computed, Idx
  <2>3. \A k \in 0 .. old'.size-1 : FALSE
    BY <2>1 DEF NoTree
  <2> QED BY <2>1, <2>2, <2>3 DEF UsageInv
<1>1. CASE GlobFails
  BY <1>0, <1>1 DEF GlobFails
<1>2. CASE Glob \/ Publish \/ Skip
  BY <1>2 DEF Glob, Publish, Skip, WrapperInv, UsageInv, Computed
<1>3. CASE ScanEmpty
  <2>1. ASSUME Return(-1), size' = size, size = 0 PROVE UsageInv'
    <3>1. old' = NoTree /\ Computed' = {}
      BY <2>1 DEF Return, Computed, Idx
    <3>2. \A k \in 0 .. old'.size-1 : FALSE
      BY <3>1 DEF NoTree
    <3> QED BY <3>1, <3>2 DEF UsageInv
  <2> QED BY <1>0, <1>3, <2>1 DEF ScanEmpty
<1>4. CASE ScanDone
  <2>1. Computed' = {}
    BY <1>4 DEF ScanDone, Computed, Idx
  <2> QED BY <1>4, <2>1 DEF ScanDone, WrapperInv, UsageInv
<1>5. CASE LinkRoot \/ LinkThread \/ LinkChild \/ LinkOrphan
  BY <1>5, UsageLink DEF WrapperInv, MInv, IInv
<1>6. CASE LinkDoneNoRoot
  BY <1>0, <1>6 DEF LinkDoneNoRoot
<1>7. CASE LinkDoneThreads \/ LinkDoneFill
  <2>1. /\ pc = "link" /\ cur = size /\ UNCHANGED <<pt, size, time>> /\ old' = NoTree
        /\ size \in Nat
    BY <1>7 DEF LinkDoneThreads, LinkDoneFill, Return, WrapperInv, MInv, IInv, TypeOK
  <2>2. Computed' \subseteq Computed
    BY <2>1 DEF Computed, Idx
  <2> QED BY <2>1, <2>2 DEF WrapperInv, UsageInv, NoTree
<1>8. CASE FillChild \/ FillReturn \/ FillDone
  <2>1. /\ pc = "fill" /\ UNCHANGED <<pt, size, time>>
        /\ (pc' = "fill" /\ old' = old) \/ old' = NoTree
    BY <1>8 DEF FillChild, FillReturn, FillDone, Return
  <2>2. Computed' \subseteq Computed
    BY <2>1 DEF Computed, Idx
  <2> QED BY <2>1, <2>2 DEF WrapperInv, UsageInv, NoTree
<1> QED BY <1>1, <1>2, <1>3, <1>4, <1>5, <1>6, <1>7, <1>8 DEF Step

LEMMA UsageNext ==
  ASSUME WrapperInv, [WNext]_wvars
  PROVE  UsageInv'
<1>1. CASE Update
  BY <1>1, UsageUpdate
<1>2. CASE Refresh
  BY <1>2, UsageStep DEF Refresh
<1>3. CASE Destroy
  <2>1. /\ pc = "idle" /\ size' = 0 /\ old' = old /\ pc' = pc /\ old = NoTree
    BY <1>3 DEF Destroy, Delete, WrapperInv, UsageInv
  <2>2. Computed' = {}
    BY <2>1 DEF Computed, Idx
  <2>3. \A k \in 0 .. old'.size-1 : FALSE
    BY <2>1 DEF NoTree
  <2> QED BY <2>1, <2>2, <2>3 DEF UsageInv
<1>4. CASE Updated \/ GetTop \/ GetTopStep \/ UNCHANGED wvars
  <2>1. UNCHANGED <<vars, seen>>
    BY <1>4 DEF Updated, GetTop, GetTopStep, wvars
  <2> QED BY <2>1 DEF vars, WrapperInv, UsageInv, Computed, Idx
<1> QED BY <1>1, <1>2, <1>3, <1>4 DEF WNext

LEMMA ObjectNext ==
  ASSUME WrapperInv, [WNext]_wvars
  PROVE  ObjectInv'
<1>1. CASE Update
  <2>1. object' = "updating" /\ calls' = calls + 1
    BY <1>1 DEF Update, Begin
  <2>2. calls \in 0 .. MaxCalls
    BY DEF WrapperInv, MInv, IInv, TypeOK
  <2>3. calls + 1 > 0
    BY <2>2, CallsAssumption
  <2> QED BY <2>1, <2>3 DEF ObjectInv
<1>2. CASE Refresh
  <2>1. object = "updating" /\ object' = object /\ calls' = calls
    BY <1>2 DEF Refresh, Step, GlobFails, Glob, Publish, Skip, ScanEmpty, ScanDone, LinkRoot,
       LinkThread, LinkChild, LinkOrphan, LinkDoneThreads, LinkDoneNoRoot, LinkDoneFill,
       FillChild, FillReturn, FillDone
  <2> QED BY <2>1 DEF WrapperInv, ObjectInv
<1>3. CASE Updated
  <2>1. /\ object = "updating" /\ pc = "idle" /\ UNCHANGED <<pc, calls, mode, size, result>>
        /\ object' = IF mode = "all" /\ result < 0 THEN "aborted" ELSE "ready"
    BY <1>3 DEF Updated, vars
  <2>2. result < 0 => size = 0
    BY <2>1 DEF WrapperInv, ObjectInv, MInv, ResultAgrees, IInv, TypeOK
  <2> QED BY <2>1, <2>2 DEF ObjectInv
<1>4. CASE Destroy
  BY <1>4 DEF Destroy, Delete, WrapperInv, ObjectInv
<1>5. CASE GetTop \/ GetTopStep \/ UNCHANGED wvars
  <2>1. UNCHANGED <<vars, object>>
    BY <1>5 DEF GetTop, GetTopStep, wvars
  <2> QED BY <2>1 DEF vars, WrapperInv, ObjectInv
<1> QED BY <1>1, <1>2, <1>3, <1>4, <1>5 DEF WNext

\* In every state of the composition: what holds of the tree, where usages come from, and
\* what the state of the object says.
THEOREM WrapperInductive == WSpec => []WrapperInv
<1>1. WInit => WrapperInv
  <2>1. ASSUME WInit PROVE MInv
    BY <2>1, InitInv, MemoryInit DEF WInit, MInv
  <2>2. ASSUME WInit PROVE UsageInv /\ ObjectInv
    BY <2>2 DEF WInit, Init, UsageInv, ObjectInv, Computed, Idx, NoTree
  <2> QED BY <2>1, <2>2 DEF WrapperInv
<1>2. WrapperInv /\ [WNext]_wvars => WrapperInv'
  <2> SUFFICES ASSUME WrapperInv, [WNext]_wvars PROVE WrapperInv'
    OBVIOUS
  <2>1. MInv'
    BY TreeStep, MemoryNext DEF WrapperInv
  <2> QED BY <2>1, UsageNext, ObjectNext DEF WrapperInv
<1> QED BY <1>1, <1>2, PTL DEF WSpec

-----------------------------------------------------------------------------
\* CPU usage takes two readings: it is known of no process that the update just before did
\* not return.
THEOREM TwoReadings == WSpec => []UsageNeedsTwoReadings
<1>1. WrapperInv => UsageNeedsTwoReadings
  BY DEF WrapperInv, UsageInv, ObjectInv, UsageNeedsTwoReadings, Computed
<1> QED BY <1>1, WrapperInductive, PTL

\* A clock that could not be read gives no usage.
THEOREM NoClock == WSpec => []NoClockNoUsage
<1>1. WrapperInv => NoClockNoUsage
  BY DEF WrapperInv, UsageInv, ObjectInv, NoClockNoUsage, Computed
<1> QED BY <1>1, WrapperInductive, PTL

-----------------------------------------------------------------------------
(* A list is a top of the tree of that moment. *)

\* The first entry is of a listed process: virtual entries are appended to others.
FirstIsListed == size > 0 => pt[0].pid # 0

LEMMA FirstNext ==
  ASSUME WrapperInv, FirstIsListed, [WNext]_wvars
  PROVE  FirstIsListed'
<1>0. TypeOK
  BY DEF WrapperInv, MInv, IInv
<1>1. CASE Update \/ Destroy
  BY <1>1 DEF Update, Begin, Destroy, Delete, FirstIsListed
<1>2. CASE Updated \/ GetTop \/ GetTopStep \/ UNCHANGED wvars
  BY <1>2 DEF Updated, GetTop, GetTopStep, wvars, vars, FirstIsListed
<1>3. CASE Refresh
  <2>1. CASE GlobFails \/ LinkDoneNoRoot
    BY <2>1 DEF GlobFails, LinkDoneNoRoot, ReturnNoTree, FirstIsListed
  <2>2. CASE ScanEmpty
    BY <2>2 DEF ScanEmpty, ReturnNoTree, FirstIsListed
  <2>3. CASE Glob \/ Skip \/ ScanDone \/ LinkDoneThreads \/ LinkDoneFill
    BY <2>3 DEF Glob, Skip, ScanDone, LinkDoneThreads, LinkDoneFill, FirstIsListed
  <2>4. CASE FillChild \/ FillReturn \/ FillDone
    BY <2>4 DEF FillChild, FillReturn, FillDone, FirstIsListed
  <2>5. CASE Publish
    <3>1. NextPid \in Pids /\ size \in Nat
      BY <1>0, <2>5, NextPidLeft DEF Publish, TypeOK
    <3>2. PICK ppid, cpu : pt' = [k \in 0 .. size |-> IF k = size THEN ReadEntry(NextPid, ppid, cpu) ELSE pt[k]]
      BY <2>5 DEF Publish
    <3>3. ReadEntry(NextPid, ppid, cpu).pid = NextPid
      BY DEF ReadEntry
    <3>4. CASE size = 0
      BY <3>1, <3>2, <3>3, <3>4, PidsAssumption DEF FirstIsListed
    <3>5. CASE size # 0
      BY <3>1, <3>2, <3>5 DEF FirstIsListed
    <3> QED BY <3>4, <3>5
  <2>6. CASE LinkRoot \/ LinkThread \/ LinkChild \/ LinkOrphan
    <3>1. cur \in Idx /\ \A k \in Idx : pt'[k].pid = pt[k].pid
      BY <1>0, <2>6, LinkKeepsUsages
    <3>2. size > 0 /\ 0 \in Idx
      BY <1>0, <3>1 DEF Idx, TypeOK
    <3> QED BY <3>1, <3>2 DEF FirstIsListed
  <2> QED BY <1>3, <2>1, <2>2, <2>3, <2>4, <2>5, <2>6 DEF Refresh, Step
<1> QED BY <1>1, <1>2, <1>3 DEF WNext

\* The entries a query may list, what they are compared by, and which were listed.
Ent == {k \in Idx : pt[k].pid > 0}
Val(k) == IF type = "CPU" THEN pt[k].self ELSE pt[k].mem
Lst == {ret[n] : n \in DOMAIN ret}
Rest == Ent \ Lst
Max(S) == {k \in S : \A j \in S : Val(j) <= Val(k)}

\* The instance counts as this module does.
LEMMA CountsAlike == ASSUME NEW S PROVE Query!Cardinality(S) = Cardinality(S)
BY DEF Query!Cardinality, Cardinality

LEMMA TreeIs ==
  ASSUME TypeOK
  PROVE  /\ DOMAIN Tree = Idx /\ Query!treeSize = size /\ Query!Real = Ent /\ Query!Listed = Lst
         /\ \A k \in Idx : /\ Tree[k].pid = pt[k].pid /\ Query!Value(k) = Val(k)
                           /\ Val(k) \in Int /\ pt[k].pid \in Nat
         /\ IsFiniteSet(Idx)
<1>1. DOMAIN Tree = Idx
  BY DEF Tree
<1>2. Cardinality(Idx) = size /\ IsFiniteSet(Idx)
  BY FS_Interval DEF Idx, TypeOK
<1>3. ASSUME NEW k \in Idx
      PROVE  /\ Tree[k].pid = pt[k].pid /\ Query!Value(k) = Val(k)
             /\ Val(k) \in Int /\ pt[k].pid \in Nat
  <2>1. pt[k] \in Entry
    BY DEF TypeOK
  <2>2. Tree[k] = [pid |-> pt[k].pid, cpu |-> pt[k].self, ram |-> pt[k].mem]
    BY DEF Tree
  <2>3. pt[k].pid \in Nat /\ pt[k].self \in Int /\ pt[k].mem \in Int
    <3>1. PPids \subseteq Nat
      <4>1. Pids \subseteq Nat \ {0} /\ 0 \in Nat
        BY PidsAssumption
      <4> QED BY <4>1 DEF PPids
    <3>2. pt[k].pid \in PPids /\ pt[k].self \in Nat \cup {-1} /\ pt[k].mem \in Nat
      BY <2>1 DEF Entry
    <3>3. pt[k].pid \in Nat
      BY <3>1, <3>2
    <3>4. pt[k].self \in Int /\ pt[k].mem \in Int
      BY <3>2
    <3> QED BY <3>3, <3>4
  <2> QED BY <2>2, <2>3 DEF Query!Value, Val
<1>4. Query!treeSize = size
  BY <1>1, <1>2, CountsAlike DEF Query!treeSize
<1>5. Query!Real = Ent
  BY <1>1, <1>3 DEF Query!Real, Ent
<1> QED BY <1>1, <1>2, <1>3, <1>4, <1>5 DEF Query!Listed, Lst

LEMMA GreatestIs ==
  ASSUME TypeOK, NEW S \in SUBSET Idx
  PROVE  Query!Greatest(S) = Max(S)
BY TreeIs DEF Query!Greatest, Max

\* What was listed: in order, none less than what is left, each once while something is left.
ListInv ==
  /\ ret \in Seq(Ent)
  /\ \A m, n \in DOMAIN ret : m < n => Val(ret[m]) >= Val(ret[n])
  /\ \A k \in Lst, j \in Rest : Val(j) <= Val(k)
  /\ Len(ret) = Cardinality(Lst) \/ Rest = {}

\* Being filled: the queue holds the processes among the entries passed.
PushInv ==
  /\ i \in 0 .. size /\ size > 0 /\ ret = <<>>
  /\ pq = {k \in Ent : k < i}
  /\ pq # {} => front \in Max(pq)

\* Being emptied: the queue holds what is not listed yet; once it is empty, what it still
\* gives is the least of the list.
PopInv ==
  /\ ListInv /\ i = Len(ret) /\ (i <= count \/ i = 0)
  /\ pq = Rest
  /\ pq # {} => front \in Max(pq)
  /\ pq = {} => front \in Ent /\ \A k \in Lst : Val(front) <= Val(k)

\* Queries are answered between two updates; what a query has done when it is at a step.
QueryInv ==
  /\ object # "ready" => step = "idle"
  /\ step \in {"idle", "push", "pop", "done"} /\ count \in Int
  /\ step = "push" => PushInv
  /\ step = "pop" => PopInv
  /\ step = "done" => ListInv /\ (Rest = {} \/ Len(ret) = count \/ count < 0)

LEMMA QueryCall ==
  ASSUME WrapperInv, QueryInv, GetTop
  PROVE  QueryInv'
<1>1. TypeOK /\ UNCHANGED <<pt, size, object>> /\ object = "ready" /\ Query!Call
  BY DEF GetTop, vars, WrapperInv, MInv, IInv
<1>2. ret' = <<>> /\ i' = 0 /\ pq' = {} /\ count' \in Int /\ step' = IF size = 0 THEN "done" ELSE "push"
  BY <1>1, TreeIs, CountsAssumption DEF Query!Call
<1>3. ListInv' /\ Rest' = Ent'
  <2>1. Lst' = {} /\ Rest' = Ent'
    BY <1>2 DEF Lst, Rest
  <2> QED BY <2>1, <1>2, FS_EmptySet DEF ListInv
<1>4. size \in Nat
  BY <1>1 DEF TypeOK
<1>5. size = 0 => Rest' = {}
  BY <1>1, <1>3, <1>4 DEF Ent, Idx
<1>6. size # 0 => PushInv'
  BY <1>1, <1>2, <1>4 DEF PushInv, Ent, Idx
<1> QED BY <1>1, <1>2, <1>3, <1>5, <1>6 DEF QueryInv

LEMMA QueryPush ==
  ASSUME TypeOK, FirstIsListed, QueryInv, GetTopStep, Query!Push
  PROVE  QueryInv'
<1>1. UNCHANGED <<pt, size, object, type, count, step, ret>> /\ step = "push" /\ object = "ready"
  BY DEF GetTopStep, Query!Push, vars
<1>2. PushInv /\ size \in Nat
  BY <1>1 DEF QueryInv, TypeOK
<1>3. i \in Idx /\ i \in Nat /\ i' = i + 1
  BY <1>2, TreeIs DEF Query!Push, PushInv, Idx
<1>4. /\ pt[i].pid > 0 => pq' = pq \cup {i} /\ front' \in Query!Greatest(pq')
      /\ ~(pt[i].pid > 0) => pq' = pq /\ front' = front
  BY <1>3, TreeIs DEF Query!Push
<1>5. pq' = {k \in Ent : k < i + 1}
  BY <1>2, <1>3, <1>4 DEF PushInv, Ent, Idx
<1>6. pq' \in SUBSET Idx
  BY <1>5 DEF Ent
<1>7. pq' # {} => front' \in Max(pq')
  BY <1>2, <1>4, <1>6, GreatestIs DEF PushInv
<1>8. Ent' = Ent /\ Max(pq)' = Max(pq')
  BY <1>1 DEF Ent, Idx, Max, Val
<1>9. PushInv'
  BY <1>1, <1>2, <1>3, <1>5, <1>7, <1>8 DEF PushInv, Idx
<1> QED BY <1>1, <1>9 DEF QueryInv

LEMMA QueryStartPop ==
  ASSUME TypeOK, FirstIsListed, QueryInv, GetTopStep, Query!StartPop
  PROVE  QueryInv'
<1>1. /\ UNCHANGED <<pt, size, object, type, pq, front, ret>> /\ object = "ready"
      /\ step = "push" /\ step' = "pop" /\ i' = 0 /\ i = size /\ count' \in {size, count}
  BY TreeIs DEF GetTopStep, Query!StartPop, vars
<1>2. PushInv /\ size \in Nat /\ count' \in Int
  BY <1>1 DEF QueryInv, TypeOK
<1>3. Lst' = {} /\ Rest' = Ent' /\ ListInv'
  <2>1. ret' = <<>>
    BY <1>1, <1>2 DEF PushInv
  <2>2. Lst' = {} /\ Rest' = Ent'
    BY <2>1 DEF Lst, Rest
  <2> QED BY <2>1, <2>2, FS_EmptySet DEF ListInv
<1>4. Ent' = Ent /\ Max(pq)' = Max(pq')
  BY <1>1 DEF Ent, Idx, Max, Val
<1>5. pq' = Ent /\ 0 \in Ent
  <2>1. pq = Ent
    BY <1>1, <1>2 DEF PushInv, Ent, Idx
  <2>2. 0 \in Idx
    BY <1>2 DEF PushInv, Idx
  <2>3. pt[0].pid > 0
    BY <1>2, <2>2, TreeIs DEF FirstIsListed, PushInv
  <2> QED BY <1>1, <2>1, <2>2, <2>3 DEF Ent
<1>6. PopInv'
  <2>1. pq' = Rest' /\ pq' # {} /\ front' \in Max(pq')
    BY <1>1, <1>2, <1>3, <1>4, <1>5 DEF PushInv, Max, Val
  <2>2. i' = Len(ret')
    BY <1>1, <1>2 DEF PushInv
  <2> QED BY <1>1, <1>3, <1>4, <2>1, <2>2 DEF PopInv
<1> QED BY <1>1, <1>2, <1>6 DEF QueryInv

LEMMA LstFinite ==
  ASSUME TypeOK, ret \in Seq(Ent)
  PROVE  Lst \subseteq Ent /\ IsFiniteSet(Lst)
<1>1. Lst \subseteq Ent /\ Ent \subseteq Idx
  BY DEF Lst, Ent
<1> QED BY <1>1, TreeIs, FS_Subset

LEMMA QueryPop ==
  ASSUME TypeOK, QueryInv, GetTopStep, Query!Pop
  PROVE  QueryInv'
<1>1. /\ UNCHANGED <<pt, size, object, type, count, step>> /\ object = "ready"
      /\ step = "pop" /\ i < count /\ pq # {} /\ i' = i + 1
      /\ ret' = Append(ret, front) /\ pq' = pq \ {front}
      /\ front' \in IF pq' = {} THEN {front} ELSE Query!Greatest(pq')
  BY DEF GetTopStep, Query!Pop, vars
<1>2. PopInv /\ count \in Int
  BY <1>1 DEF QueryInv
<1>3. /\ front \in Rest /\ front \in Ent /\ front \notin Lst /\ Max(pq) = Max(Rest)
      /\ \A j \in Rest : Val(j) <= Val(front)
  BY <1>1, <1>2 DEF PopInv, Max, Rest
<1>4. ret \in Seq(Ent) /\ Len(ret) \in Nat /\ DOMAIN ret = 1 .. Len(ret)
  BY <1>2 DEF PopInv, ListInv
<1>5. /\ ret' \in Seq(Ent) /\ Len(ret') = Len(ret) + 1 /\ DOMAIN ret' = 1 .. Len(ret) + 1
      /\ ret'[Len(ret) + 1] = front /\ \A n \in DOMAIN ret : ret'[n] = ret[n]
  BY <1>1, <1>3, <1>4
<1>6. Lst' = Lst \cup {front}
  BY <1>4, <1>5 DEF Lst
<1>7. Ent' = Ent /\ Rest' = Rest \ {front} /\ (\A k \in Ent : Val(k)' = Val(k)) /\ Max(pq)' = Max(pq')
  BY <1>1, <1>6 DEF Ent, Idx, Rest, Val, Max
<1>8. \A k \in Ent : Val(k) \in Int
  BY TreeIs DEF Ent
<1>9. ListInv'
  <2>1. \A m, n \in DOMAIN ret' : m < n => Val(ret'[m]) >= Val(ret'[n])
    <3> SUFFICES ASSUME NEW m \in DOMAIN ret', NEW n \in DOMAIN ret', m < n
                 PROVE  Val(ret'[m]) >= Val(ret'[n])
      OBVIOUS
    <3>1. m \in DOMAIN ret /\ ret'[m] = ret[m] /\ ret[m] \in Lst /\ ret[m] \in Ent
      BY <1>4, <1>5 DEF Lst
    <3>2. CASE n \in DOMAIN ret
      BY <1>2, <1>5, <3>1, <3>2 DEF PopInv, ListInv
    <3>3. CASE n \notin DOMAIN ret
      <4>1. ret'[n] = front
        BY <1>4, <1>5, <3>3
      <4>2. Val(front) <= Val(ret[m])
        BY <1>2, <1>3, <3>1 DEF PopInv, ListInv
      <4> QED BY <1>3, <1>8, <3>1, <4>1, <4>2
    <3> QED BY <3>2, <3>3
  <2>2. \A k \in Lst', j \in Rest' : Val(j) <= Val(k)
    BY <1>2, <1>3, <1>6, <1>7 DEF PopInv, ListInv
  <2>3. Len(ret') = Cardinality(Lst') \/ Rest' = {}
    <3>1. IsFiniteSet(Lst)
      BY <1>4, LstFinite
    <3>2. Cardinality(Lst') = Cardinality(Lst) + 1
      BY <1>3, <1>6, <3>1, FS_AddElement
    <3>3. Len(ret) = Cardinality(Lst)
      BY <1>2, <1>3 DEF PopInv, ListInv
    <3> QED BY <1>5, <3>2, <3>3
  <2>4. Lst' \subseteq Ent /\ Rest' \subseteq Ent
    BY <1>3, <1>4, <1>6, <1>7, LstFinite DEF Rest
  <2>5. \A m \in DOMAIN ret' : ret'[m] \in Ent
    BY <1>5
  <2>6. \A m, n \in DOMAIN ret' : m < n => Val(ret[m])' >= Val(ret[n])'
    BY <2>1, <1>1 DEF Val
  <2>7. \A k \in Lst', j \in Rest' : Val(j)' <= Val(k)'
    BY <2>2, <2>4, <1>7
  <2> QED BY <1>5, <1>7, <2>3, <2>6, <2>7 DEF ListInv
<1>10. PopInv'
  <2>1. i' = Len(ret') /\ i' <= count'
    BY <1>1, <1>2, <1>4, <1>5 DEF PopInv
  <2>2. pq' = Rest'
    BY <1>1, <1>2, <1>7 DEF PopInv
  <2>3. pq' # {} => front' \in Max(pq)'
    <3>1. pq' \in SUBSET Idx
      BY <2>2, <1>7 DEF Rest, Ent
    <3> QED BY <1>1, <1>7, <3>1, GreatestIs
  <2>4. pq' = {} => front' \in Ent' /\ \A k \in Lst' : Val(front)' <= Val(k)'
    <3> SUFFICES ASSUME pq' = {} PROVE front' \in Ent' /\ \A k \in Lst' : Val(front)' <= Val(k)'
      OBVIOUS
    <3>1. front' = front
      BY <1>1
    <3>2. \A k \in Lst' : Val(front) <= Val(k)
      BY <1>2, <1>3, <1>6, <1>8 DEF PopInv, ListInv
    <3> QED BY <1>1, <1>3, <1>7, <3>1, <3>2 DEF Val
  <2> QED BY <1>9, <2>1, <2>2, <2>3, <2>4 DEF PopInv
<1> QED BY <1>1, <1>2, <1>10 DEF QueryInv

\* The queue ran empty: what it gives is listed already, and is the least of the list.
LEMMA QueryPopEmpty ==
  ASSUME TypeOK, QueryInv, GetTopStep, Query!PopEmpty
  PROVE  QueryInv'
<1>1. /\ UNCHANGED <<pt, size, object, type, count, step, pq, front>> /\ object = "ready"
      /\ step = "pop" /\ i < count /\ pq = {} /\ i' = i + 1 /\ ret' = Append(ret, front)
  BY DEF GetTopStep, Query!PopEmpty, vars
<1>2. PopInv /\ count \in Int
  BY <1>1 DEF QueryInv
<1>3. Rest = {} /\ front \in Ent /\ front \in Lst /\ \A k \in Lst : Val(front) <= Val(k)
  BY <1>1, <1>2 DEF PopInv, Rest
<1>4. ret \in Seq(Ent) /\ Len(ret) \in Nat /\ DOMAIN ret = 1 .. Len(ret)
  BY <1>2 DEF PopInv, ListInv
<1>5. /\ ret' \in Seq(Ent) /\ Len(ret') = Len(ret) + 1 /\ DOMAIN ret' = 1 .. Len(ret) + 1
      /\ ret'[Len(ret) + 1] = front /\ \A n \in DOMAIN ret : ret'[n] = ret[n]
  BY <1>1, <1>3, <1>4
<1>6. Lst' = Lst
  BY <1>3, <1>4, <1>5 DEF Lst
<1>7. Ent' = Ent /\ Rest' = {}
  BY <1>1, <1>3, <1>6 DEF Ent, Idx, Rest
<1>8. \A k \in Ent : Val(k) \in Int
  BY TreeIs DEF Ent
<1>9. ListInv'
  <2>1. ASSUME NEW m \in DOMAIN ret', NEW n \in DOMAIN ret', m < n
        PROVE  Val(ret'[m]) >= Val(ret'[n])
    <3>1. m \in DOMAIN ret /\ ret'[m] = ret[m] /\ ret[m] \in Lst /\ ret[m] \in Ent
      BY <1>4, <1>5, <2>1 DEF Lst
    <3>2. CASE n \in DOMAIN ret
      BY <1>2, <1>5, <2>1, <3>1, <3>2 DEF PopInv, ListInv
    <3>3. CASE n \notin DOMAIN ret
      <4>1. ret'[n] = front
        BY <1>4, <1>5, <3>3
      <4>2. Val(front) <= Val(ret[m])
        BY <1>3, <3>1
      <4> QED BY <1>3, <1>8, <3>1, <4>1, <4>2
    <3> QED BY <3>2, <3>3
  <2>2. \A m, n \in DOMAIN ret' : m < n => Val(ret[m])' >= Val(ret[n])'
    BY <2>1, <1>1 DEF Val
  <2> QED BY <1>5, <1>7, <2>2 DEF ListInv
<1>10. PopInv'
  <2>1. i' = Len(ret') /\ i' <= count' /\ pq' = Rest' /\ pq' = {} /\ front' \in Ent'
    BY <1>1, <1>2, <1>3, <1>4, <1>5, <1>7 DEF PopInv
  <2>2. \A k \in Lst' : Val(front)' <= Val(k)'
    BY <1>1, <1>3, <1>6 DEF Val
  <2> QED BY <1>9, <2>1, <2>2 DEF PopInv
<1> QED BY <1>1, <1>2, <1>10 DEF QueryInv

LEMMA QueryDone ==
  ASSUME TypeOK, QueryInv, GetTopStep, Query!Done
  PROVE  QueryInv'
<1>1. /\ UNCHANGED <<pt, size, object, type, count, ret>> /\ object = "ready"
      /\ step = "pop" /\ i >= count /\ step' = "done"
  BY DEF GetTopStep, Query!Done, vars
<1>2. PopInv /\ count \in Int
  BY <1>1 DEF QueryInv
<1>3. Len(ret) = count \/ count < 0
  <2>1. i = Len(ret) /\ Len(ret) \in Nat
    BY <1>2 DEF PopInv, ListInv
  <2> QED BY <1>1, <1>2, <2>1 DEF PopInv
<1>4. Ent' = Ent /\ Lst' = Lst /\ Rest' = Rest
  BY <1>1 DEF Ent, Idx, Lst, Rest
<1>5. ListInv'
  BY <1>1, <1>2, <1>4 DEF PopInv, ListInv, Val
<1> QED BY <1>1, <1>2, <1>3, <1>4, <1>5 DEF QueryInv

LEMMA QueryNext ==
  ASSUME WrapperInv, FirstIsListed, QueryInv, [WNext]_wvars
  PROVE  QueryInv'
<1>0. TypeOK
  BY DEF WrapperInv, MInv, IInv
<1>1. CASE Update \/ Destroy
  <2>1. step' = "idle" /\ count' = 0
    BY <1>1 DEF Update, Destroy, Query!Forget
  <2> QED BY <2>1 DEF QueryInv
<1>2. CASE Refresh \/ Updated
  <2>1. object = "updating" /\ UNCHANGED query
    BY <1>2 DEF Refresh, Updated
  <2>2. step = "idle" /\ step' = "idle" /\ count' = count
    BY <2>1 DEF query, QueryInv
  <2> QED BY <2>2 DEF QueryInv
<1>3. CASE GetTop
  BY <1>3, QueryCall
<1>4. CASE GetTopStep
  BY <1>0, <1>4, QueryPush, QueryStartPop, QueryPop, QueryPopEmpty, QueryDone DEF GetTopStep, Query!Step
<1>5. CASE UNCHANGED wvars
  <2>1. UNCHANGED <<pt, size, object, type, count, step, i, pq, front, ret>>
    BY <1>5 DEF wvars, vars, query
  <2>2. Ent' = Ent /\ Lst' = Lst /\ Rest' = Rest /\ Max(pq)' = Max(pq) /\ ListInv' = ListInv
    BY <2>1 DEF Ent, Idx, Lst, Rest, Max, Val, ListInv
  <2> QED BY <2>1, <2>2 DEF QueryInv, PushInv, PopInv, Val
<1> QED BY <1>1, <1>2, <1>3, <1>4, <1>5 DEF WNext

\* What getTopProcessInfos lists is sorted and a top of the entries of the current tree whose
\* pid is not 0, whatever count is asked for and however the queue behaves when it is empty.
THEOREM ListsTop == WSpec => []TopOfReal
<1>1. WInit => FirstIsListed /\ QueryInv
  BY DEF WInit, Init, Query!Init, FirstIsListed, QueryInv
<1>2. WrapperInv /\ FirstIsListed /\ QueryInv /\ [WNext]_wvars => (FirstIsListed /\ QueryInv)'
  BY FirstNext, QueryNext
<1>3. WrapperInv /\ QueryInv => TopOfReal
  <2> SUFFICES ASSUME WrapperInv, QueryInv, step = "done" PROVE TopOfReal
    BY DEF TopOfReal, Query!TopOfReal
  <2>1. TypeOK /\ ListInv /\ (Rest = {} \/ Len(ret) = count \/ count < 0)
    BY DEF WrapperInv, MInv, IInv, QueryInv
  <2>2. Lst \subseteq Ent /\ Ent \subseteq Idx /\ (Rest = {} => Lst = Ent)
    BY <2>1, LstFinite DEF ListInv, Rest, Ent
  <2>3. Query!Real = Ent /\ Query!Listed = Lst /\ \A k \in Ent : Query!Value(k) = Val(k)
    BY <2>1, <2>2, TreeIs
  <2>4. \A m \in DOMAIN ret : ret[m] \in Ent
    BY <2>1 DEF ListInv
  <2>5. \A m, n \in DOMAIN ret : m < n => Query!Value(ret[m]) >= Query!Value(ret[n])
    BY <2>1, <2>3, <2>4 DEF ListInv
  <2>6. \A k \in Query!Listed, j \in Query!Real \ Query!Listed : Query!Value(j) <= Query!Value(k)
    BY <2>1, <2>2, <2>3 DEF ListInv, Rest
  <2>7. Query!Listed = Query!Real \/ Len(ret) = count \/ count < 0
    BY <2>1, <2>2, <2>3
  <2>8. Len(ret) = Query!Cardinality(Query!Listed) \/ Query!Listed = Query!Real
    BY <2>1, <2>2, <2>3, CountsAlike DEF ListInv
  <2> QED BY <2>2, <2>3, <2>5, <2>6, <2>7, <2>8 DEF TopOfReal, Query!TopOfReal
<1> QED BY <1>1, <1>2, <1>3, WrapperInductive, PTL DEF WSpec
=============================================================================
