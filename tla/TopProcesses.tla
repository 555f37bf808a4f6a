--------------------------- MODULE TopProcesses ---------------------------
(***************************************************************************)
(* ProcessTreeWrapper::getTopProcessInfos of src/process_tree_wrapper.cpp: *)
(* the entries of the tree go into a priority queue, except those whose    *)
(* pid is 0, and the greatest are popped.  std::priority_queue is          *)
(* external; it is modelled by what the code relies on, and, since the     *)
(* code can pop more than it pushed, by what its vector does then.         *)
(*                                                                         *)
(* The tree is not changed here: ProcessTreeWrapper gives it.              *)
(***************************************************************************)
EXTENDS Integers, Sequences, FiniteSets

CONSTANT Counts  \* the values of count

VARIABLES
  tree,   \* pTree_, treeSize_: pid, cpu.usage.self and memory.usage of each entry
  type,   \* the argument type, "CPU" or "RAM"
  count,  \* the argument count
  step,   \* "idle" (no call), "push", "pop" or "done"
  i,      \* the loop index
  pq,     \* the indexes in the queue
  front,  \* what the first element of the queue's vector points to, NONE before any push
  ret     \* the indexes returned

NONE == -1
treeSize == Cardinality(DOMAIN tree)

\* No call is in progress; the list that the last one returned is not kept beyond its tree.
Init ==
  /\ type = "CPU" /\ count = 0 /\ step = "idle" /\ i = 0
  /\ pq = {} /\ front = NONE /\ ret = <<>>

Forget ==
  /\ type' = "CPU" /\ count' = 0 /\ step' = "idle" /\ i' = 0
  /\ pq' = {} /\ front' = NONE /\ ret' = <<>>

\* The call; without a tree it returns an empty list.
Call ==
  /\ step \in {"idle", "done"}
  /\ type' \in {"CPU", "RAM"} /\ count' \in Counts
  /\ step' = IF treeSize = 0 THEN "done" ELSE "push"
  /\ i' = 0 /\ pq' = {} /\ front' = NONE /\ ret' = <<>>
  /\ UNCHANGED tree

Value(k) == IF type = "CPU" THEN tree[k].cpu ELSE tree[k].ram

\* (Mutant of Greatest: the comparison of the queue is turned around.)
Least(S) == {k \in S : \A j \in S : Value(j) >= Value(k)}

\* The entries of S with the greatest value.
Greatest(S) == {k \in S : \A j \in S : Value(j) <= Value(k)}

\* (Mutant of Push: the index stays at an entry that is not pushed.)
PushStays ==
  /\ step = "push" /\ i < treeSize
  /\ IF tree[i].pid > 0
     THEN pq' = pq \cup {i} /\ front' \in Greatest(pq') /\ i' = i + 1
     ELSE UNCHANGED <<pq, front, i>>
  /\ UNCHANGED <<tree, type, count, step, ret>>

Push ==
  /\ step = "push" /\ i < treeSize
  /\ IF tree[i].pid > 0
     THEN pq' = pq \cup {i} /\ front' \in Greatest(pq')
     ELSE UNCHANGED <<pq, front>>
  /\ i' = i + 1
  /\ UNCHANGED <<tree, type, count, step, ret>>

\* count = std::min(treeSize_, count)
StartPop ==
  /\ step = "push" /\ i = treeSize
  /\ count' = IF treeSize < count THEN treeSize ELSE count
  /\ step' = "pop" /\ i' = 0
  /\ UNCHANGED <<tree, type, pq, front, ret>>

Pop ==
  /\ step = "pop" /\ i < count /\ pq # {}
  /\ ret' = Append(ret, front)
  /\ pq' = pq \ {front}
  /\ front' \in IF pq' = {} THEN {front} ELSE Greatest(pq')
  /\ i' = i + 1
  /\ UNCHANGED <<tree, type, count, step>>

\* top() of an empty queue: the vector's storage still holds the last pointer.
PopEmpty ==
  /\ step = "pop" /\ i < count /\ pq = {}
  /\ ret' = Append(ret, front)
  /\ i' = i + 1
  /\ UNCHANGED <<tree, type, count, step, pq, front>>

\* The queue is destroyed.
Done ==
  /\ step = "pop" /\ i >= count
  /\ step' = "done" /\ i' = 0 /\ pq' = {} /\ front' = NONE
  /\ UNCHANGED <<tree, type, count, ret>>

Step == Push \/ StartPop \/ Pop \/ PopEmpty \/ Done

-----------------------------------------------------------------------------
Real == {k \in DOMAIN tree : tree[k].pid > 0}
Listed == {ret[n] : n \in DOMAIN ret}

\* What "top count" means: the list is sorted, the greatest first, no entry left out is
\* greater than one listed, and every place is taken as long as there are entries.
TopOfReal ==
  step = "done" =>
    /\ Listed \subseteq Real
    /\ \A m, n \in DOMAIN ret : m < n => Value(ret[m]) >= Value(ret[n])
    /\ \A k \in Listed, j \in Real \ Listed : Value(j) <= Value(k)
    /\ Listed = Real \/ Len(ret) = count \/ count < 0
    /\ Len(ret) = Cardinality(Listed) \/ Listed = Real

\* "Skip the virtual root": leaving it out of the queue must not make the loop pop more
\* entries than there are.  The code does not keep this.
ListedOnce == Len(ret) = Cardinality(Listed)
=============================================================================
