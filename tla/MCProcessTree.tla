--------------------------- MODULE MCProcessTree ---------------------------
(***************************************************************************)
(* ProcessTree on small instances, with the definition of what the sums of *)
(* a finished tree should be.                                              *)
(***************************************************************************)
EXTENDS ProcessTree, Functions

\* Every process has a memory usage of its own power of two, so that a sum tells which
\* processes it was made of; one process has no thread count (a zombie may report 0).
MCMem == [p \in Pids |-> 2^p]
MCThreads == [p \in Pids |-> p - 1]

\* A finished tree of all processes.
Filled == pc = "idle" /\ mode = "all" /\ size > 0 /\ result = size

\* The entries below a, and a: they are in every set that has a and, with an entry, the
\* entries whose parent it is.
ClosedBelow(S) == \A k \in Idx : pt[k].parent \in S => k \in S
Subtree(a) == {k \in Idx : \A S \in SUBSET Idx : a \in S /\ ClosedBelow(S) => k \in S}

\* What an entry adds to the sums of the entries above it: its threads (one at least), its CPU
\* usage (where known) and its memory.
ThreadsOf == [k \in Idx |-> AtLeast(pt[k].threads, 1)]
CpuOf == [k \in Idx |-> AtLeast(pt[k].self, 0)]
MemOf == [k \in Idx |-> pt[k].mem]
SumOf(f, S) == FoldFunctionOnSet(+, 0, f, S)

\* The sums _fillProcessTree builds by adding children to parents are those of the subtree:
\* its size, threads, CPU usage and memory.  The memory is that of the entry too.
SubtreeSums ==
  Filled =>
    \A k \in Idx :
      agg[k].visited =>
        LET below == Subtree(k) \ {k}
        IN /\ agg[k].total = Cardinality(below)
           /\ agg[k].threads = SumOf(ThreadsOf, below)
           /\ agg[k].cpu = SumOf(CpuOf, below)
           /\ agg[k].mem = pt[k].mem + SumOf(MemOf, below)

\* The walk covers the whole tree of one root and nothing else.
OneTreeVisited ==
  Filled => \E r \in Idx : IsRoot(r) /\ {k \in Idx : agg[k].visited} = Subtree(r)

\* "We create virtual process entry for missing parent so we can have full tree-like
\* structure with root": whatever hangs below a root is summed.
AllRootedVisited ==
  Filled => \A r \in Idx : IsRoot(r) => \A k \in Subtree(r) : agg[k].visited
=============================================================================
