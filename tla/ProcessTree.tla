---------------------------- MODULE ProcessTree ----------------------------
(***************************************************************************)
(* ProcessTree_init and ProcessTree_delete of src/ProcessTree.c: one       *)
(* caller owns a tree and refreshes it any number of times.  A call saves  *)
(* the previous tree, collects the entries of /proc into a fresh array,    *)
(* links every entry to its parent while it computes its CPU usage, frees  *)
(* the previous tree and, when it looks at all processes, sums the usage   *)
(* of every subtree into its root.                                         *)
(*                                                                         *)
(* Arrays are functions over 0..size-1, as the indexes of the code are.    *)
(* How one entry is read from /proc is the subject of ProcScan; here a     *)
(* listed pid is either published with some data or skipped.               *)
(***************************************************************************)
EXTENDS Integers, Sequences, FiniteSets

CONSTANTS
  Pids,      \* the pids (or tids) glob() may list
  Mem,       \* [Pids -> Nat]: memory.usage of a process; filedescriptors.usage is summed alike
  Threads,   \* [Pids -> Nat]: threads.self of a process
  CpuTimes,  \* the values of cpu.time
  Clock,     \* the values of getNowSingleCoreCpuTime(), 0 when /proc/stat is unreadable
  MaxCalls   \* bound: calls of ProcessTree_init

ASSUME PidsAssumption  == Pids \subseteq Nat \ {0} /\ IsFiniteSet(Pids)
ASSUME DataAssumption  == Mem \in [Pids -> Nat] /\ Threads \in [Pids -> Nat]
ASSUME ClockAssumption == CpuTimes \subseteq Nat /\ Clock \subseteq Nat
ASSUME CallsAssumption == MaxCalls \in Nat

VARIABLES
  mode,    \* the argument pid: "all" (ALL_PROCESSES) or "one" (the threads of one process)
  ppTree,  \* *ppTree: the block that holds the tree, NULL or the number of the call that allocated it
  size,    \* *pTreeSize (the local count while the entries are collected)
  pt,      \* the array: what is read from /proc, and the links between entries
  agg,     \* the same array's fields that only _fillProcessTree writes
  time,    \* pt->time
  old,     \* oldptree, oldptreesize
  pc,      \* the step of the call in progress, "idle" between calls
  todo,    \* glob results not read yet
  cur,     \* i, the loop index of ProcessTree_init
  root,    \* root
  stack,   \* the activations of _fillProcessTree
  result,  \* what the last call returned
  calls,   \* number of calls begun
  heap,    \* the arrays that are allocated
  parts    \* the arrays whose cmdline, children.list and secattr are allocated

vars == <<mode, ppTree, size, pt, agg, time, old, pc, todo, cur, root, stack,
          result, calls, heap, parts>>

NULL == 0
Idx == 0 .. size-1
PPids == Pids \cup {0}
EmptyArray == [k \in {} |-> 0]
NoTree == [blk |-> NULL, pt |-> EmptyArray, size |-> 0, time |-> 0]

Entry == [pid: PPids, ppid: PPids, cpu: Nat, mem: Nat, threads: Nat,
          parent: Nat, list: Seq(Nat), self: Nat \cup {-1}]
Totals == [visited: BOOLEAN, total: Nat, threads: Nat, cpu: Nat, mem: Nat]

\* (Mutant of VirtualEntry: pid is left 0 by memset.)
VirtualEntryNoPid(pid) == [pid |-> 0, ppid |-> pid, cpu |-> 0, mem |-> 0, threads |-> 0,
                           parent |-> 0, list |-> <<>>, self |-> 0]

\* calloc() and memset(0) of an entry.
ZeroTotals == [visited |-> FALSE, total |-> 0, threads |-> 0, cpu |-> 0, mem |-> 0]
VirtualEntry(pid) == [pid |-> pid, ppid |-> pid, cpu |-> 0, mem |-> 0, threads |-> 0,
                      parent |-> 0, list |-> <<>>, self |-> 0]
ReadEntry(pid, ppid, cpu) == [pid |-> pid, ppid |-> ppid, cpu |-> cpu, mem |-> Mem[pid],
                              threads |-> Threads[pid], parent |-> 0, list |-> <<>>, self |-> 0]

\* (Mutant of Find: the last entry is not looked at.)
FindShort(pid, t, n) ==
  IF \E k \in 0 .. n-2 : t[k].pid = pid THEN CHOOSE k \in 0 .. n-2 : t[k].pid = pid ELSE -1

\* _findProcess: the first entry with this pid, or -1.
Find(pid, t, n) ==
  IF \E k \in 0 .. n-1 : t[k].pid = pid
  THEN CHOOSE k \in 0 .. n-1 : /\ t[k].pid = pid
                               /\ \A j \in 0 .. k-1 : t[j].pid # pid
  ELSE -1

AtLeast(a, b) == IF a >= b THEN a ELSE b
AtMost(a, b) == IF a <= b THEN a ELSE b

-----------------------------------------------------------------------------
Init ==
  /\ mode \in {"all", "one"}
  /\ ppTree = NULL /\ size = 0 /\ pt = EmptyArray /\ agg = EmptyArray /\ time = 0
  /\ old = NoTree
  /\ pc = "idle" /\ todo = {} /\ cur = 0 /\ root = -1 /\ stack = <<>>
  /\ result = 0 /\ calls = 0
  /\ heap = {} /\ parts = {}

\* The call is over: its locals are gone.
Return(r) ==
  /\ result' = r
  /\ pc' = "idle"
  /\ old' = NoTree
  /\ todo' = {} /\ cur' = 0 /\ root' = -1 /\ stack' = <<>>

\* The call fails and the caller is left without a tree.
ReturnNoTree ==
  /\ Return(-1)
  /\ ppTree' = NULL /\ size' = 0 /\ pt' = EmptyArray /\ agg' = EmptyArray /\ time' = 0

\* (Mutant of Begin: the parts of the previous tree are kept.)
BeginKeepsParts ==
  /\ pc = "idle" /\ calls < MaxCalls
  /\ old' = IF ppTree # NULL
            THEN [blk |-> ppTree, pt |-> pt, size |-> size, time |-> time] ELSE NoTree
  /\ ppTree' = NULL /\ size' = 0 /\ pt' = EmptyArray /\ agg' = EmptyArray /\ time' = 0
  /\ calls' = calls + 1
  /\ pc' = "glob"
  /\ UNCHANGED <<mode, todo, cur, root, stack, result, heap, parts>>

\* (Mutant of Begin: the array of the previous tree is freed with its parts.)
BeginFreesOld ==
  /\ pc = "idle" /\ calls < MaxCalls
  /\ old' = IF ppTree # NULL
            THEN [blk |-> ppTree, pt |-> pt, size |-> size, time |-> time] ELSE NoTree
  /\ ppTree' = NULL /\ size' = 0 /\ pt' = EmptyArray /\ agg' = EmptyArray /\ time' = 0
  /\ parts' = parts \ {ppTree} /\ heap' = heap \ {ppTree}
  /\ calls' = calls + 1
  /\ pc' = "glob"
  /\ UNCHANGED <<mode, todo, cur, root, stack, result>>

\* The caller's tree becomes oldptree; only its array is kept, for cpu.time.
Begin ==
  /\ pc = "idle" /\ calls < MaxCalls
  /\ old' = IF ppTree # NULL
            THEN [blk |-> ppTree, pt |-> pt, size |-> size, time |-> time] ELSE NoTree
  /\ ppTree' = NULL /\ size' = 0 /\ pt' = EmptyArray /\ agg' = EmptyArray /\ time' = 0
  /\ parts' = parts \ {ppTree}
  /\ calls' = calls + 1
  /\ pc' = "glob"
  /\ UNCHANGED <<mode, todo, cur, root, stack, result, heap>>

\* (Mutant of GlobFails: the caller gets the previous tree back.)
GlobFailsKeepsOld ==
  /\ pc = "glob"
  /\ Return(-1)
  /\ ppTree' = old.blk /\ size' = old.size /\ pt' = old.pt /\ time' = old.time
  /\ UNCHANGED <<mode, agg, calls, heap, parts>>

\* glob() fails: nothing was allocated, and _delete(ppTree) finds *ppTree NULL.
GlobFails ==
  /\ pc = "glob"
  /\ ReturnNoTree
  /\ UNCHANGED <<mode, calls, heap, parts>>

Glob ==
  /\ pc = "glob"
  /\ \E S \in SUBSET Pids \ {{}} : todo' = S
  /\ heap' = heap \cup {calls}
  /\ pc' = "scan"
  /\ UNCHANGED <<mode, ppTree, size, pt, agg, time, old, cur, root, stack,
                 result, calls, parts>>

\* (Mutant of NextPid: the last of the list first.)
NextPidLast == CHOOSE p \in todo : \A q \in todo : p >= q

\* glob() sorts names ("10" comes before "2"); the order of the pids' numbers stands for that
\* order, and nothing else depends on it.
NextPid == CHOOSE p \in todo : \A q \in todo : p <= q

\* The ppid the kernel can report: any but the pid itself.  The threads of one process
\* share a ppid outside the process, for which 0 stands.
ParentsOf(p) == IF mode = "all" THEN PPids \ {p} ELSE {0}

\* A process whose mandatory files were all read is published.
Publish ==
  /\ pc = "scan" /\ todo # {}
  /\ \E ppid \in ParentsOf(NextPid), cpu \in CpuTimes :
       pt' = [k \in 0 .. size |-> IF k = size THEN ReadEntry(NextPid, ppid, cpu) ELSE pt[k]]
  /\ size' = size + 1
  /\ todo' = todo \ {NextPid}
  /\ parts' = parts \cup {calls}
  /\ UNCHANGED <<mode, ppTree, agg, time, old, pc, cur, root, stack, result, calls, heap>>

\* A process that went away, or one of whose files cannot be read, is skipped.
Skip ==
  /\ pc = "scan" /\ todo # {}
  /\ todo' = todo \ {NextPid}
  /\ UNCHANGED <<mode, ppTree, size, pt, agg, time, old, pc, cur, root, stack,
                 result, calls, heap, parts>>

\* Nothing was published: the new array is freed only if there was a previous tree.
ScanEmpty ==
  /\ pc = "scan" /\ todo = {} /\ size = 0
  /\ IF old.blk # NULL
     THEN ReturnNoTree /\ heap' = heap \ {calls}
     ELSE Return(-1) /\ ppTree' = calls /\ UNCHANGED <<size, pt, agg, time, heap>>
  /\ UNCHANGED <<mode, calls, parts>>

ScanDone ==
  /\ pc = "scan" /\ todo = {} /\ size > 0
  /\ ppTree' = calls
  /\ time' \in Clock
  /\ pc' = "link" /\ cur' = 0 /\ root' = -1
  /\ UNCHANGED <<mode, size, pt, agg, old, todo, stack, result, calls, heap, parts>>

-----------------------------------------------------------------------------
(* The loop over *pTreeSize: one action per way an iteration can go. *)

Percent(d, delta) == (100 * d) \div delta

\* (Mutant of UsageSelf: a cpu.time that went back is not excluded.)
UsageSelfUnchecked(k) ==
  LET o     == Find(pt[k].pid, old.pt, old.size)
      delta == time - old.time
  IN IF o # -1 /\ delta > 0 THEN Percent(pt[k].cpu - old.pt[o].cpu, delta) ELSE -1

\* (Mutant of UsageSelf: the time between the readings is unsigned.)
UsageSelfUnsigned(k) ==
  LET o     == Find(pt[k].pid, old.pt, old.size)
      delta == (time - old.time) % 64
      d     == pt[k].cpu - old.pt[o].cpu
  IN IF o # -1 /\ delta > 0 /\ d >= 0
     THEN IF mode = "all" THEN Percent(d, delta) ELSE AtMost(Percent(d, delta), 100)
     ELSE -1

\* cpu.usage.self of entry k: -1 unless the previous tree has the pid with no more CPU time.
UsageSelf(k) ==
  LET o     == Find(pt[k].pid, old.pt, old.size)
      delta == time - old.time
      d     == pt[k].cpu - old.pt[o].cpu
  IN IF o # -1 /\ delta > 0 /\ d >= 0
     THEN IF mode = "all" THEN Percent(d, delta) ELSE AtMost(Percent(d, delta), 100)
     ELSE -1

IsRoot(k) == pt[k].pid = pt[k].ppid \/ pt[k].ppid = -1

Linking == pc = "link" /\ cur < size

\* (Mutant of Linked: the parent's index goes into children.list.)
LinkedToParent(t, p) ==
  [k \in DOMAIN t |->
     IF k = cur THEN [t[k] EXCEPT !.self = UsageSelf(cur), !.parent = p]
     ELSE IF k = p THEN [t[k] EXCEPT !.list = Append(@, p)]
     ELSE t[k]]

\* Connect entry cur of the array t to the entry at index p.
Linked(t, p) ==
  [k \in DOMAIN t |->
     IF k = cur THEN [t[k] EXCEPT !.self = UsageSelf(cur), !.parent = p]
     ELSE IF k = p THEN [t[k] EXCEPT !.list = Append(@, cur)]
     ELSE t[k]]

\* (Mutant of LinkRoot: root gets parent before parent gets the index.)
LinkRootStale ==
  /\ Linking /\ IsRoot(cur)
  /\ pt' = [pt EXCEPT ![cur].self = UsageSelf(cur), ![cur].parent = cur]
  /\ root' = pt[cur].parent
  /\ cur' = cur + 1
  /\ UNCHANGED <<mode, ppTree, size, agg, time, old, pc, todo, stack, result,
                 calls, heap, parts>>

\* (Mutant of LinkRoot: the root becomes a child of itself.)
LinkRootToItself ==
  /\ Linking /\ IsRoot(cur)
  /\ pt' = [pt EXCEPT ![cur].self = UsageSelf(cur), ![cur].parent = cur,
                      ![cur].list = Append(@, cur)]
  /\ root' = cur
  /\ cur' = cur + 1
  /\ UNCHANGED <<mode, ppTree, size, agg, time, old, pc, todo, stack, result,
                 calls, heap, parts>>

LinkRoot ==
  /\ Linking /\ IsRoot(cur)
  /\ pt' = [pt EXCEPT ![cur].self = UsageSelf(cur), ![cur].parent = cur]
  /\ root' = cur
  /\ cur' = cur + 1
  /\ UNCHANGED <<mode, ppTree, size, agg, time, old, pc, todo, stack, result,
                 calls, heap, parts>>

\* (Mutant of LinkThread: the loop index stays.)
LinkThreadStays ==
  /\ Linking /\ ~IsRoot(cur) /\ mode = "one"
  /\ pt' = [pt EXCEPT ![cur].self = UsageSelf(cur)]
  /\ UNCHANGED <<mode, ppTree, size, agg, time, old, pc, todo, cur, root, stack, result,
                 calls, heap, parts>>

\* The threads of one process get no links.
LinkThread ==
  /\ Linking /\ ~IsRoot(cur) /\ mode = "one"
  /\ pt' = [pt EXCEPT ![cur].self = UsageSelf(cur)]
  /\ cur' = cur + 1
  /\ UNCHANGED <<mode, ppTree, size, agg, time, old, pc, todo, root, stack, result,
                 calls, heap, parts>>

LinkChild ==
  /\ Linking /\ ~IsRoot(cur) /\ mode = "all"
  /\ \E p \in Idx : p = Find(pt[cur].ppid, pt, size) /\ pt' = Linked(pt, p)
  /\ cur' = cur + 1
  /\ UNCHANGED <<mode, ppTree, size, agg, time, old, pc, todo, root, stack, result,
                 calls, heap, parts>>

\* The parent is not in the array: a virtual entry for it is appended (the loop will reach
\* it).  root is set to the parent's pid here, not to its index.
LinkOrphan ==
  /\ Linking /\ ~IsRoot(cur) /\ mode = "all"
  /\ Find(pt[cur].ppid, pt, size) = -1
  /\ pt' = Linked([k \in 0 .. size |-> IF k = size THEN VirtualEntry(pt[cur].ppid) ELSE pt[k]],
                  size)
  /\ size' = size + 1
  /\ root' = pt[cur].ppid
  /\ parts' = parts \cup {calls}
  /\ cur' = cur + 1
  /\ UNCHANGED <<mode, ppTree, agg, time, old, pc, todo, stack, result, calls, heap>>

\* The loop is over and the previous array is freed.  No root among all processes is a
\* failure that deletes the new tree.
LinkDoneThreads ==
  /\ pc = "link" /\ cur = size /\ mode = "one"
  /\ heap' = heap \ {old.blk}
  /\ Return(size)
  /\ UNCHANGED <<mode, ppTree, size, pt, agg, time, calls, parts>>

\* (Mutant of LinkDoneNoRoot: the new tree is not deleted.)
LinkDoneNoRootKept ==
  /\ pc = "link" /\ cur = size /\ mode = "all" /\ root = -1
  /\ heap' = heap \ {old.blk}
  /\ Return(-1)
  /\ UNCHANGED <<mode, ppTree, size, pt, agg, time, calls, parts>>

LinkDoneNoRoot ==
  /\ pc = "link" /\ cur = size /\ mode = "all" /\ root = -1
  /\ heap' = heap \ {old.blk, ppTree}
  /\ parts' = parts \ {ppTree}
  /\ ReturnNoTree
  /\ UNCHANGED <<mode, calls>>

-----------------------------------------------------------------------------
(* _fillProcessTree: a frame is an activation, next the loop index over its children. *)

\* Entering index k for the first time.
Entered(a, k) ==
  [a EXCEPT ![k] = [visited |-> TRUE, total |-> Len(pt[k].list), threads |-> 0,
                    cpu |-> 0, mem |-> pt[k].mem]]

\* (Mutant of Call: the loop over the children starts at the second.)
CallSkipsFirst(a, s, k) ==
  IF a[k].visited
  THEN agg' = a /\ stack' = s
  ELSE agg' = Entered(a, k) /\ stack' = Append(s, [idx |-> k, next |-> 2])

\* The frame of _fillProcessTree(pt, k) on top of s; nothing when k was visited.
Call(a, s, k) ==
  IF a[k].visited
  THEN agg' = a /\ stack' = s
  ELSE agg' = Entered(a, k) /\ stack' = Append(s, [idx |-> k, next |-> 1])

LinkDoneFill ==
  /\ pc = "link" /\ cur = size /\ mode = "all" /\ root # -1
  /\ heap' = heap \ {old.blk}
  /\ Call([k \in Idx |-> ZeroTotals], <<>>, root)
  /\ old' = NoTree
  /\ pc' = "fill"
  /\ UNCHANGED <<mode, ppTree, size, pt, time, todo, cur, root, result, calls, parts>>

Top == stack[Len(stack)]
Below == SubSeq(stack, 1, Len(stack) - 1)

\* The next child of the running activation.
FillChild ==
  /\ pc = "fill" /\ stack # <<>>
  /\ Top.next <= Len(pt[Top.idx].list)
  /\ Call(agg, Append(Below, [Top EXCEPT !.next = @ + 1]), pt[Top.idx].list[Top.next])
  /\ UNCHANGED <<mode, ppTree, size, pt, time, old, pc, todo, cur, root, result,
                 calls, heap, parts>>

\* (Mutant of WithChild: usage is added where usage_total should be.)
WithChildOwn(sums, a, k) ==
  [sums EXCEPT !.total = @ + a[k].total,
               !.threads = @ + AtLeast(pt[k].threads, 1) + AtLeast(a[k].threads, 0),
               !.cpu = @ + AtLeast(pt[k].self, 0) + AtLeast(a[k].cpu, 0),
               !.mem = @ + pt[k].mem]

\* (Mutant of WithChild: an unknown usage, -1, is added like any other.)
WithChildUnknown(sums, a, k) ==
  [sums EXCEPT !.total = @ + a[k].total,
               !.threads = @ + AtLeast(pt[k].threads, 1) + AtLeast(a[k].threads, 0),
               !.cpu = @ + pt[k].self + AtLeast(a[k].cpu, 0),
               !.mem = @ + a[k].mem]

\* The sums of a parent to which those of its child k are added.
WithChild(sums, a, k) ==
  [sums EXCEPT !.total = @ + a[k].total,
               !.threads = @ + AtLeast(pt[k].threads, 1) + AtLeast(a[k].threads, 0),
               !.cpu = @ + AtLeast(pt[k].self, 0) + AtLeast(a[k].cpu, 0),
               !.mem = @ + a[k].mem]

\* All children are done: the activation adds its sums to its parent and returns.
FillReturn ==
  /\ pc = "fill" /\ stack # <<>>
  /\ Top.next > Len(pt[Top.idx].list)
  /\ LET k == Top.idx
         p == pt[k].parent
     IN agg' = IF p # -1 /\ p # k THEN [agg EXCEPT ![p] = WithChild(@, agg, k)] ELSE agg
  /\ stack' = Below
  /\ UNCHANGED <<mode, ppTree, size, pt, time, old, pc, todo, cur, root, result,
                 calls, heap, parts>>

FillDone ==
  /\ pc = "fill" /\ stack = <<>>
  /\ Return(size)
  /\ UNCHANGED <<mode, ppTree, size, pt, agg, time, calls, heap, parts>>

-----------------------------------------------------------------------------
\* ProcessTree_delete, called between two calls of ProcessTree_init.
Delete ==
  /\ pc = "idle"
  /\ heap' = heap \ {ppTree}
  /\ parts' = parts \ {ppTree}
  /\ ppTree' = NULL /\ size' = 0 /\ pt' = EmptyArray /\ agg' = EmptyArray /\ time' = 0
  /\ UNCHANGED <<mode, old, pc, todo, cur, root, stack, result, calls>>

\* The steps of a call in progress.
Step ==
  \/ GlobFails \/ Glob
  \/ Publish \/ Skip \/ ScanEmpty \/ ScanDone
  \/ LinkRoot \/ LinkThread \/ LinkChild \/ LinkOrphan
  \/ LinkDoneThreads \/ LinkDoneNoRoot \/ LinkDoneFill
  \/ FillChild \/ FillReturn \/ FillDone

Next == Begin \/ Step \/ Delete

\* The calling thread keeps running until the call returns.
Spec == Init /\ [][Next]_vars /\ WF_vars(Step)

-----------------------------------------------------------------------------
(* Properties. *)

Blocks == 1 .. MaxCalls

Steps == {"idle", "glob", "scan", "link", "fill"}

\* The array has its declared shape in every state, cpu.usage.self is -1 or not negative, and
\* every index the code keeps is a number.
TypeOK ==
  /\ mode \in {"all", "one"}
  /\ ppTree \in Blocks \cup {NULL}
  /\ size \in Nat
  /\ pt \in [Idx -> Entry]
  /\ agg \in [Idx -> Totals] \/ agg = EmptyArray
  /\ time \in Nat
  /\ old.blk \in Blocks \cup {NULL} /\ old.size \in Nat /\ old.time \in Nat
  /\ old.pt \in [0 .. old.size-1 -> Entry]
  /\ pc \in Steps
  /\ todo \subseteq Pids
  /\ cur \in 0 .. size
  /\ root \in Nat \cup {-1}
  /\ stack \in Seq([idx: Idx, next: Nat \ {0}])
  /\ result \in Nat \cup {-1}
  /\ calls \in 0 .. MaxCalls
  /\ heap \subseteq Blocks /\ parts \subseteq Blocks

\* A pid has one entry: _findProcess is asked before a virtual entry is appended, and glob()
\* lists a pid once, so "the first entry with this pid" is the only one.
UniquePids ==
  /\ \A j, k \in Idx : pt[j].pid = pt[k].pid => j = k
  /\ \A k \in Idx : pt[k].pid \notin todo

InTree == pc \in {"link", "fill"} /\ mode = "all"

\* The links agree with what was read: a linked entry's parent is the entry with its ppid.
ParentsAgree ==
  InTree => \A k \in 0 .. cur-1 : /\ pt[k].parent \in Idx
                                  /\ pt[pt[k].parent].pid = pt[k].ppid

\* children.list and parent are inverse: a list holds, once each and in the order of the
\* array, exactly the linked entries whose parent it belongs to, and never a root.
ListsAgree ==
  InTree =>
    \A p \in Idx :
      LET list == pt[p].list
      IN /\ \A i \in 1 .. Len(list) : /\ list[i] \in 0 .. cur-1
                                      /\ list[i] # p
                                      /\ pt[list[i]].parent = p
         /\ \A i, j \in 1 .. Len(list) : i < j => list[i] < list[j]
         /\ \A k \in 0 .. cur-1 : pt[k].parent = p /\ k # p => \E i \in 1 .. Len(list) : list[i] = k

\* What root holds while the loop runs: -1 as long as no entry is a root; otherwise the index
\* of a linked root, or the pid of a virtual entry that the loop is still to reach.
RootPending ==
  InTree =>
    \/ root = -1 /\ \A k \in Idx : ~IsRoot(k)
    \/ root \in 0 .. cur-1 /\ IsRoot(root) /\ pt[root].parent = root
    \/ root # -1 /\ \E k \in cur .. size-1 : IsRoot(k)

\* _fillProcessTree is started at the index of a root, although LinkOrphan stores a pid in
\* root: the loop has reached the virtual entry and put its index in its place.
FillsFromRoot ==
  pc = "fill" => root \in Idx /\ IsRoot(root) /\ pt[root].parent = root

\* _fillProcessTree never meets an entry twice and never leaves the array: the activations
\* form a path of parents up to the root, and the next child has not been visited.
FillWalksTree ==
  pc = "fill" =>
    \A i \in DOMAIN stack :
      LET f == stack[i]
      IN /\ agg[f.idx].visited
         /\ pt[f.idx].parent = IF i = 1 THEN root ELSE stack[i-1].idx
         /\ \A j \in f.next .. Len(pt[f.idx].list) :
              pt[f.idx].list[j] \in Idx /\ ~agg[pt[f.idx].list[j]].visited

\* "Free dynamically allocated parts which we don't need before initializing new ptree (...
\* otherwise the memory footprint will hold two ptrees)": one tree at most has its parts.
OnePartsHolder == Cardinality(parts) <= 1

\* No use after free: the tree of the caller and the previous tree that a refresh compares
\* with are allocated, and so is every array whose parts are.
NoDangling ==
  /\ ppTree # NULL => ppTree \in heap
  /\ old.blk # NULL => old.blk \in heap
  /\ parts \subseteq heap

\* CPU usage is measured against the call just before this one, never an older one: a failed
\* call in between leaves nothing to compare with.
OldIsPrevious == old.blk # NULL => old.blk = calls - 1

\* "@return The process tree size or -1 if failed": after a failed call the caller's size is
\* 0, after a successful one the result is the number of entries until the tree is deleted.
ResultAgrees ==
  pc = "idle" /\ calls > 0 =>
    \/ (result = -1 /\ size = 0)
    \/ result > 0 /\ (size = result \/ (ppTree = NULL /\ size = 0))

\* Once begun, a call of ProcessTree_init returns: the loop whose bound grows ends, and so
\* does the recursion.
CallReturns == pc # "idle" ~> pc = "idle"

\* The entries are collected in the order of the list, each listed pid published or skipped
\* once: the scan that ProcScan details.
Collected == IF pc = "scan" THEN [i \in 1 .. size |-> pt[i-1].pid] ELSE <<>>
Listing == INSTANCE ProcListing WITH published <- Collected
CollectsInOrder == Listing!Spec

-----------------------------------------------------------------------------
(* What a comment promises and the code does not keep. *)

\* "Free the rest of old ptree": between calls only the caller's tree is allocated.
NoLeak == pc = "idle" => heap \subseteq {ppTree}
=============================================================================
