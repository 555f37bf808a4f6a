------------------------- MODULE ProcessTreeProofs -------------------------
(***************************************************************************)
(* Theorems about ProcessTree, for every set of pids, every data, every    *)
(* clock and any number of calls.                                          *)
(***************************************************************************)
EXTENDS ProcessTree, TLAPS, FiniteSetTheorems, WellFoundedInduction

-----------------------------------------------------------------------------
(* The helpers. *)

\* Every set of numbers with an element has a least one.
LEMMA LeastNat ==
  ASSUME NEW S \in SUBSET Nat, S # {}
  PROVE  \E m \in S : \A n \in S : ~(n < m)
<1>1. PICK m \in S : \A n \in S : ~(<<n, m>> \in OpToRel(<, Nat))
  BY NatLessThanWellFounded, WFMin
<1>2. \A n \in S : n < m => <<n, m>> \in OpToRel(<, Nat)
  BY DEF OpToRel
<1> QED BY <1>1, <1>2

\* _findProcess returns the index of an entry with the pid it is asked for, the first one,
\* or -1 when there is none.
LEMMA FindResult ==
  ASSUME NEW pid, NEW t, NEW n \in Nat
  PROVE  LET k == Find(pid, t, n)
         IN \/ /\ k \in 0 .. n-1
               /\ t[k].pid = pid
            \/ /\ k = -1
               /\ \A j \in 0 .. n-1 : t[j].pid # pid
<1> DEFINE S == {k \in 0 .. n-1 : t[k].pid = pid}
<1>1. CASE S = {}
  BY <1>1 DEF Find
<1>2. CASE S # {}
  <2>1. PICK m \in S : \A k \in S : ~(k < m)
    <3>1. S \in SUBSET Nat
      OBVIOUS
    <3> HIDE DEF S
    <3> QED BY <3>1, <1>2, LeastNat
  <2>2. m \in 0 .. n-1 /\ t[m].pid = pid /\ \A j \in 0 .. m-1 : t[j].pid # pid
    BY <2>1
  <2> QED BY <2>2 DEF Find
<1> QED BY <1>1, <1>2

\* A pid, or 0, is a number.
LEMMA PPidsAreNumbers == PPids \subseteq Nat
<1>1. Pids \subseteq Nat
  BY PidsAssumption
<1> QED BY <1>1 DEF PPids

\* A percentage of numbers is a number.
LEMMA PercentType ==
  ASSUME NEW d \in Nat, NEW delta \in Nat \ {0}
  PROVE  Percent(d, delta) \in Nat
BY DEF Percent

\* cpu.usage.self is -1 or not negative.
LEMMA UsageSelfType ==
  ASSUME TypeOK, NEW k \in Idx
  PROVE  UsageSelf(k) \in Nat \cup {-1}
<1> DEFINE o == Find(pt[k].pid, old.pt, old.size)
           delta == time - old.time
           d == pt[k].cpu - old.pt[o].cpu
<1>1. UsageSelf(k) = IF o # -1 /\ delta > 0 /\ d >= 0
                     THEN IF mode = "all" THEN Percent(d, delta)
                          ELSE AtMost(Percent(d, delta), 100)
                     ELSE -1
  BY DEF UsageSelf
<1>2. ASSUME o # -1, delta > 0, d >= 0
      PROVE  Percent(d, delta) \in Nat
  <2>1. o \in 0 .. old.size-1
    BY <1>2, FindResult DEF TypeOK
  <2>2. pt[k].cpu \in Nat /\ old.pt[o].cpu \in Nat /\ time \in Nat /\ old.time \in Nat
    BY <2>1 DEF TypeOK, Entry
  <2>3. d \in Nat /\ delta \in Nat \ {0}
    BY <1>2, <2>2
  <2> QED BY <2>3, PercentType
<1> QED BY <1>1, <1>2 DEF AtMost

-----------------------------------------------------------------------------
\* What each phase of a call may rely on.
PhaseInv ==
  /\ pc \in {"idle", "glob", "scan"} => cur = 0
  /\ pc # "fill" => stack = <<>>
  /\ pc \in {"glob", "scan", "link"} => agg = EmptyArray
  /\ pc \in {"glob", "idle"} => root = -1
  /\ pc = "glob" => size = 0
  /\ pc # "idle" => calls \in Blocks
  /\ pc = "scan" => \A k \in Idx : pt[k].pid # pt[k].ppid /\ pt[k].list = <<>>
  /\ pc = "fill" => /\ mode = "all" /\ cur = size /\ root # -1
                    /\ agg \in [Idx -> Totals]

\* The lists of children hold indexes of linked entries only.
ListsBounded ==
  pc \in {"link", "fill"} =>
    \A p \in Idx : \A i \in 1 .. Len(pt[p].list) : pt[p].list[i] \in 0 .. cur-1

\* The inductive invariant.
IInv == TypeOK /\ PhaseInv /\ ListsBounded /\ RootPending

LEMMA InitInv ==
  ASSUME Init
  PROVE  IInv
<1>1. TypeOK
  BY CallsAssumption DEF Init, TypeOK, NoTree, EmptyArray, NULL, Blocks, Steps, Idx
<1>2. PhaseInv
  BY DEF Init, PhaseInv
<1>3. ListsBounded /\ RootPending
  BY DEF Init, ListsBounded, RootPending, InTree
<1> QED BY <1>1, <1>2, <1>3 DEF IInv

-----------------------------------------------------------------------------
(* The steps before the tree is linked: one lemma per action. *)

\* A call that ends, or has no tree yet, has nothing to check but its data.
LEMMA BeginInv ==
  ASSUME IInv, Begin
  PROVE  IInv'
<1>1. TypeOK'
  BY CallsAssumption DEF IInv, Begin, TypeOK, NoTree, EmptyArray, NULL, Blocks, Steps, Idx, PhaseInv
<1>2. PhaseInv'
  BY CallsAssumption DEF IInv, Begin, PhaseInv, TypeOK, Blocks, Steps
<1>3. ListsBounded' /\ RootPending'
  BY DEF Begin, ListsBounded, RootPending, InTree
<1> QED BY <1>1, <1>2, <1>3 DEF IInv

LEMMA GlobFailsInv ==
  ASSUME IInv, GlobFails
  PROVE  IInv'
<1>1. TypeOK'
  BY DEF IInv, GlobFails, ReturnNoTree, Return, TypeOK, NoTree, EmptyArray, NULL, Blocks, Steps, Idx
<1>2. PhaseInv' /\ ListsBounded' /\ RootPending'
  BY DEF IInv, GlobFails, ReturnNoTree, Return, PhaseInv, ListsBounded, RootPending, InTree
<1> QED BY <1>1, <1>2 DEF IInv

LEMMA GlobInv ==
  ASSUME IInv, Glob
  PROVE  IInv'
<1>1. TypeOK'
  BY DEF IInv, Glob, TypeOK, PhaseInv, NULL, Blocks, Steps, Idx
<1>2. PhaseInv' /\ ListsBounded' /\ RootPending'
  BY DEF IInv, Glob, TypeOK, PhaseInv, Idx, ListsBounded, RootPending, InTree
<1> QED BY <1>1, <1>2 DEF IInv

LEMMA SkipInv ==
  ASSUME IInv, Skip
  PROVE  IInv'
<1>1. TypeOK'
  BY DEF IInv, Skip, TypeOK, PhaseInv, Idx
<1>2. PhaseInv' /\ ListsBounded' /\ RootPending'
  BY DEF IInv, Skip, TypeOK, PhaseInv, Idx, ListsBounded, RootPending, InTree
<1> QED BY <1>1, <1>2 DEF IInv

\* The pid read next is one of those that are left.
LEMMA NextPidLeft ==
  ASSUME TypeOK, todo # {}
  PROVE  NextPid \in todo
<1>1. todo \in SUBSET Nat
  BY PidsAssumption DEF TypeOK
<1>2. PICK m \in todo : \A n \in todo : ~(n < m)
  BY <1>1, LeastNat
<1>3. \A q \in todo : m <= q
  BY <1>1, <1>2
<1> QED BY <1>3 DEF NextPid

LEMMA PublishInv ==
  ASSUME IInv, Publish
  PROVE  IInv'
<1>1. PICK ppid \in ParentsOf(NextPid), cpu \in CpuTimes :
        pt' = [k \in 0 .. size |-> IF k = size THEN ReadEntry(NextPid, ppid, cpu) ELSE pt[k]]
  BY DEF Publish
<1>2. NextPid \in Pids
  BY NextPidLeft DEF IInv, TypeOK, Publish
<1>3. ReadEntry(NextPid, ppid, cpu) \in Entry
  BY <1>2, PidsAssumption, DataAssumption, ClockAssumption DEF ReadEntry, Entry, ParentsOf, PPids
<1>4. NextPid # ppid
  BY <1>2, PidsAssumption DEF ParentsOf
<1>5. TypeOK'
  BY <1>1, <1>3 DEF IInv, Publish, TypeOK, PhaseInv, Blocks, Steps, Idx
<1>6. PhaseInv'
  BY <1>1, <1>4 DEF IInv, Publish, TypeOK, PhaseInv, Idx, ReadEntry
<1>7. ListsBounded' /\ RootPending'
  BY DEF IInv, Publish, ListsBounded, RootPending, InTree
<1> QED BY <1>5, <1>6, <1>7 DEF IInv

LEMMA ScanEmptyInv ==
  ASSUME IInv, ScanEmpty
  PROVE  IInv'
<1>1. TypeOK'
  <2>1. CASE old.blk # NULL
    <3>1. /\ ReturnNoTree /\ heap' = heap \ {calls}
          /\ UNCHANGED <<mode, calls, parts>>
      BY <2>1 DEF ScanEmpty
    <3> QED
      BY <3>1 DEF IInv, ReturnNoTree, Return, TypeOK, NoTree, EmptyArray, NULL, Blocks, Steps, Idx
  <2>2. CASE old.blk = NULL
    <3>1. /\ Return(-1) /\ ppTree' = calls
          /\ calls \in Blocks
          /\ size = 0 /\ stack' = <<>>
          /\ UNCHANGED <<mode, size, pt, agg, time, calls, heap, parts>>
      BY <2>2 DEF IInv, ScanEmpty, Return, PhaseInv
    <3> QED
      BY <3>1 DEF IInv, Return, TypeOK, NoTree, EmptyArray, NULL, Blocks, Steps, Idx
  <2> QED BY <2>1, <2>2
<1>2. PhaseInv' /\ ListsBounded' /\ RootPending'
  BY DEF IInv, ScanEmpty, ReturnNoTree, Return, PhaseInv, ListsBounded, RootPending, InTree
<1> QED BY <1>1, <1>2 DEF IInv

LEMMA ScanDoneInv ==
  ASSUME IInv, ScanDone
  PROVE  IInv'
<1>1. TypeOK'
  BY ClockAssumption DEF IInv, ScanDone, TypeOK, PhaseInv, Blocks, Steps, Idx
<1>2. PhaseInv'
  BY DEF IInv, ScanDone, PhaseInv
<1>3. ListsBounded'
  BY DEF IInv, ScanDone, ListsBounded, PhaseInv, Idx
<1>4. RootPending'
  <2>1. \A k \in Idx : pt[k].pid # pt[k].ppid /\ pt[k].ppid # -1
    BY PidsAssumption DEF IInv, ScanDone, PhaseInv, TypeOK, Entry, PPids
  <2>2. root' = -1 /\ Idx' = Idx /\ pt' = pt
    BY DEF ScanDone, Idx
  <2> QED BY <2>1, <2>2 DEF RootPending, IsRoot
<1> QED BY <1>1, <1>2, <1>3, <1>4 DEF IInv

-----------------------------------------------------------------------------
(* The steps of the loop that links the tree. *)

\* The fields of an array after entry cur was connected to entry p.
LEMMA LinkedFields ==
  ASSUME TypeOK, Linking,
         NEW n \in Nat, size <= n, NEW t \in [0 .. n-1 -> Entry],
         NEW p \in 0 .. n-1, p # cur
  PROVE  /\ Linked(t, p) \in [0 .. n-1 -> Entry]
         /\ \A k \in 0 .. n-1 :
              /\ Linked(t, p)[k].pid = t[k].pid
              /\ Linked(t, p)[k].ppid = t[k].ppid
              /\ Linked(t, p)[k].parent = IF k = cur THEN p ELSE t[k].parent
              /\ Linked(t, p)[k].list = IF k = p THEN Append(t[k].list, cur) ELSE t[k].list
<1>1. cur \in Idx /\ cur \in Nat /\ p \in Nat
  BY DEF TypeOK, Linking, Idx
<1>2. UsageSelf(cur) \in Nat \cup {-1}
  BY <1>1, UsageSelfType
<1>3. ASSUME NEW k \in 0 .. n-1
      PROVE  /\ Linked(t, p)[k] \in Entry
             /\ Linked(t, p)[k].pid = t[k].pid
             /\ Linked(t, p)[k].ppid = t[k].ppid
             /\ Linked(t, p)[k].parent = IF k = cur THEN p ELSE t[k].parent
             /\ Linked(t, p)[k].list = IF k = p THEN Append(t[k].list, cur) ELSE t[k].list
  <2>1. t[k] \in Entry
    OBVIOUS
  <2>2. CASE k = cur
    <3>1. Linked(t, p)[k] = [t[k] EXCEPT !.self = UsageSelf(cur), !.parent = p]
      BY <2>2 DEF Linked
    <3> QED BY <3>1, <2>1, <2>2, <1>1, <1>2 DEF Entry
  <2>3. CASE k = p
    <3>1. Linked(t, p)[k] = [t[k] EXCEPT !.list = Append(@, cur)]
      BY <2>3 DEF Linked
    <3>2. Append(t[k].list, cur) \in Seq(Nat)
      BY <2>1, <1>1 DEF Entry
    <3> QED BY <3>1, <3>2, <2>1, <2>3 DEF Entry
  <2>4. CASE k # cur /\ k # p
    BY <2>4, <2>1 DEF Linked
  <2> QED BY <2>2, <2>3, <2>4
<1>4. Linked(t, p) = [k \in 0 .. n-1 |-> Linked(t, p)[k]]
  BY DEF Linked
<1> QED BY <1>3, <1>4

LEMMA LinkRootInv ==
  ASSUME IInv, LinkRoot
  PROVE  IInv'
<1>1. cur \in Idx /\ cur \in Nat /\ size \in Nat /\ cur < size
  BY DEF IInv, TypeOK, LinkRoot, Linking, Idx
<1>2. UsageSelf(cur) \in Nat \cup {-1}
  BY <1>1, UsageSelfType DEF IInv
<1>3. /\ pt' \in [Idx -> Entry]
      /\ \A k \in Idx : /\ pt'[k].pid = pt[k].pid
                        /\ pt'[k].ppid = pt[k].ppid
                        /\ pt'[k].list = pt[k].list
      /\ pt'[cur].parent = cur
  <2>1. pt \in [Idx -> Entry]
    BY DEF IInv, TypeOK
  <2>2. \A k \in Idx : pt'[k] = IF k = cur
                                THEN [pt[k] EXCEPT !.self = UsageSelf(cur), !.parent = cur]
                                ELSE pt[k]
    BY <2>1 DEF LinkRoot
  <2>3. ASSUME NEW k \in Idx
        PROVE  /\ pt'[k] \in Entry
               /\ pt'[k].pid = pt[k].pid /\ pt'[k].ppid = pt[k].ppid
               /\ pt'[k].list = pt[k].list
               /\ k = cur => pt'[k].parent = cur
    <3>1. pt[k] \in Entry
      BY <2>1
    <3>2. CASE k = cur
      <4>1. pt'[k] = [pt[k] EXCEPT !.self = UsageSelf(cur), !.parent = cur]
        BY <2>2, <3>2
      <4> QED BY <4>1, <3>1, <3>2, <1>1, <1>2 DEF Entry
    <3>3. CASE k # cur
      BY <2>2, <3>1, <3>3
    <3> QED BY <3>2, <3>3
  <2>4. pt' = [k \in Idx |-> pt'[k]]
    BY <2>1 DEF LinkRoot
  <2> QED BY <2>3, <2>4, <1>1
<1>4. TypeOK'
  <2>1. Idx' = Idx /\ size' = size /\ cur' \in 0 .. size' /\ root' \in Nat \cup {-1}
    BY <1>1 DEF IInv, LinkRoot, TypeOK, Idx
  <2>2. pt' \in [Idx' -> Entry]
    BY <2>1, <1>3
  <2> QED BY <2>1, <2>2 DEF IInv, LinkRoot, TypeOK
<1>5. PhaseInv'
  BY DEF IInv, PhaseInv, LinkRoot, Linking
<1>6. ListsBounded'
  BY <1>1, <1>3 DEF IInv, ListsBounded, LinkRoot, Linking, Idx
<1>7. RootPending'
  BY <1>1, <1>3 DEF RootPending, LinkRoot, IsRoot, Idx
<1> QED BY <1>4, <1>5, <1>6, <1>7 DEF IInv

LEMMA LinkThreadInv ==
  ASSUME IInv, LinkThread
  PROVE  IInv'
<1>1. cur \in Idx /\ cur \in Nat /\ size \in Nat /\ cur < size
  BY DEF IInv, TypeOK, LinkThread, Linking, Idx
<1>2. UsageSelf(cur) \in Nat \cup {-1}
  BY <1>1, UsageSelfType DEF IInv
<1>3. /\ pt' \in [Idx -> Entry]
      /\ \A k \in Idx : pt'[k].list = pt[k].list
  <2>1. pt \in [Idx -> Entry] /\ pt' = [pt EXCEPT ![cur].self = UsageSelf(cur)]
    BY DEF IInv, TypeOK, LinkThread
  <2>2. pt[cur] \in Entry
    BY <2>1, <1>1
  <2>3. [pt[cur] EXCEPT !.self = UsageSelf(cur)] \in Entry
    BY <2>2, <1>2 DEF Entry
  <2>4. [pt[cur] EXCEPT !.self = UsageSelf(cur)].list = pt[cur].list
    BY <2>2 DEF Entry
  <2>5. pt' = [pt EXCEPT ![cur] = [pt[cur] EXCEPT !.self = UsageSelf(cur)]]
    BY <2>1
  <2> QED BY <2>1, <2>3, <2>4, <2>5, <1>1
<1>4. TypeOK'
  BY <1>1, <1>3 DEF IInv, LinkThread, TypeOK, Idx
<1>5. PhaseInv'
  BY DEF IInv, PhaseInv, LinkThread, Linking
<1>6. ListsBounded'
  BY <1>1, <1>3 DEF IInv, ListsBounded, LinkThread, Linking, Idx
<1>7. RootPending'
  BY DEF RootPending, InTree, LinkThread
<1> QED BY <1>4, <1>5, <1>6, <1>7 DEF IInv

LEMMA LinkChildInv ==
  ASSUME IInv, LinkChild
  PROVE  IInv'
<1>1. cur \in Idx /\ cur \in Nat /\ size \in Nat /\ cur < size
  BY DEF IInv, TypeOK, LinkChild, Linking, Idx
<1>2. PICK p \in Idx : p = Find(pt[cur].ppid, pt, size) /\ pt' = Linked(pt, p)
  BY DEF LinkChild
<1>3. p # cur
  BY <1>1, <1>2, FindResult DEF LinkChild, IsRoot, Idx
<1>4. /\ pt' \in [Idx -> Entry]
      /\ \A k \in Idx :
           /\ pt'[k].pid = pt[k].pid
           /\ pt'[k].ppid = pt[k].ppid
           /\ pt'[k].parent = IF k = cur THEN p ELSE pt[k].parent
           /\ pt'[k].list = IF k = p THEN Append(pt[k].list, cur) ELSE pt[k].list
  <2>1. TypeOK /\ Linking /\ size \in Nat /\ size <= size /\ pt \in [0 .. size-1 -> Entry]
        /\ p \in 0 .. size-1
    BY <1>1 DEF IInv, TypeOK, LinkChild, Idx
  <2>2. /\ Linked(pt, p) \in [0 .. size-1 -> Entry]
        /\ \A k \in 0 .. size-1 :
             /\ Linked(pt, p)[k].pid = pt[k].pid
             /\ Linked(pt, p)[k].ppid = pt[k].ppid
             /\ Linked(pt, p)[k].parent = IF k = cur THEN p ELSE pt[k].parent
             /\ Linked(pt, p)[k].list = IF k = p THEN Append(pt[k].list, cur) ELSE pt[k].list
    BY <2>1, <1>3, LinkedFields
  <2> QED BY <2>2, <1>2 DEF Idx
<1>5. TypeOK'
  <2>1. Idx' = Idx /\ size' = size /\ cur' \in 0 .. size' /\ root' \in Nat \cup {-1}
    BY <1>1 DEF IInv, LinkChild, TypeOK, Idx
  <2>2. pt' \in [Idx' -> Entry]
    BY <2>1, <1>4
  <2> QED BY <2>1, <2>2 DEF IInv, LinkChild, TypeOK
<1>6. PhaseInv'
  BY DEF IInv, PhaseInv, LinkChild, Linking
<1>7. ListsBounded'
  <2>0. Idx' = Idx /\ 0 .. cur'-1 = 0 .. cur
    BY <1>1 DEF LinkChild, Idx
  <2> SUFFICES ASSUME NEW q \in Idx, NEW i \in 1 .. Len(pt'[q].list)
               PROVE  pt'[q].list[i] \in 0 .. cur
    BY <2>0 DEF ListsBounded
  <2>1. pt[q].list \in Seq(Nat)
    BY DEF IInv, TypeOK, Entry
  <2>2. \A j \in 1 .. Len(pt[q].list) : pt[q].list[j] \in 0 .. cur-1
    BY DEF IInv, ListsBounded, LinkChild, Linking
  <2>3. CASE q = p
    <3>1. pt'[q].list = Append(pt[q].list, cur)
      BY <1>4, <2>3
    <3>2. i \in 1 .. Len(pt[q].list)+1
      BY <3>1, <2>1, <1>1
    <3>3. pt'[q].list[i] = IF i = Len(pt[q].list)+1 THEN cur ELSE pt[q].list[i]
      BY <3>1, <3>2, <2>1, <1>1
    <3>4. i = Len(pt[q].list)+1 \/ i \in 1 .. Len(pt[q].list)
      BY <3>2, <2>1
    <3>5. CASE i = Len(pt[q].list)+1
      BY <3>3, <3>5, <1>1
    <3>6. CASE i \in 1 .. Len(pt[q].list)
      <4>1. pt'[q].list[i] = pt[q].list[i]
        BY <3>3, <3>6, <2>1
      <4>2. pt[q].list[i] \in 0 .. cur-1
        BY <3>6, <2>2
      <4> QED BY <4>1, <4>2, <1>1
    <3> QED BY <3>4, <3>5, <3>6
  <2>4. CASE q # p
    BY <1>1, <1>4, <2>1, <2>2, <2>4
  <2> QED BY <2>3, <2>4
<1>8. RootPending'
  <2>1. /\ InTree /\ root' = root /\ Idx' = Idx /\ cur' = cur+1 /\ size' = size
        /\ RootPending /\ ~IsRoot(cur)
    BY DEF IInv, LinkChild, Linking, InTree, Idx
  <2>2. \A k \in Idx : IsRoot(k)' <=> IsRoot(k)
    BY <1>4 DEF IsRoot
  <2>3. CASE root = -1 /\ \A k \in Idx : ~IsRoot(k)
    BY <2>1, <2>2, <2>3 DEF RootPending
  <2>4. CASE root \in 0 .. cur-1 /\ IsRoot(root) /\ pt[root].parent = root
    BY <2>1, <2>2, <2>4, <1>1, <1>4 DEF RootPending, Idx
  <2>5. CASE root # -1 /\ \E k \in cur .. size-1 : IsRoot(k)
    BY <2>1, <2>2, <2>5, <1>1 DEF RootPending, Idx
  <2> QED BY <2>1, <2>3, <2>4, <2>5 DEF RootPending
<1> QED BY <1>5, <1>6, <1>7, <1>8 DEF IInv

LEMMA LinkOrphanInv ==
  ASSUME IInv, LinkOrphan
  PROVE  IInv'
<1> DEFINE t == [k \in 0 .. size |-> IF k = size THEN VirtualEntry(pt[cur].ppid) ELSE pt[k]]
<1>1. cur \in Idx /\ cur \in Nat /\ size \in Nat /\ cur < size
  BY DEF IInv, TypeOK, LinkOrphan, Linking, Idx
<1>2. t \in [0 .. size -> Entry] /\ pt[cur].ppid \in Nat
  <2>1. pt[cur] \in Entry /\ pt \in [0 .. size-1 -> Entry]
    BY <1>1 DEF IInv, TypeOK, Idx
  <2>2. VirtualEntry(pt[cur].ppid) \in Entry
    BY <2>1 DEF VirtualEntry, Entry
  <2>3. \A k \in 0 .. size : t[k] \in Entry
    BY <2>1, <2>2, <1>1
  <2>4. pt[cur].ppid \in Nat
    <3>1. pt[cur].ppid \in PPids
      BY <2>1 DEF Entry
    <3> QED BY <3>1, PPidsAreNumbers
  <2>5. t = [k \in 0 .. size |-> t[k]]
    OBVIOUS
  <2> HIDE DEF t
  <2> QED BY <2>3, <2>4, <2>5
<1>3. /\ pt' \in [0 .. size -> Entry]
      /\ \A k \in 0 .. size :
           /\ pt'[k].pid = t[k].pid
           /\ pt'[k].ppid = t[k].ppid
           /\ pt'[k].parent = IF k = cur THEN size ELSE t[k].parent
           /\ pt'[k].list = IF k = size THEN Append(t[k].list, cur) ELSE t[k].list
  <2> DEFINE n == size + 1
  <2>1. /\ TypeOK /\ Linking
        /\ n \in Nat /\ size <= n /\ t \in [0 .. n-1 -> Entry]
        /\ size \in 0 .. n-1 /\ size # cur
    BY <1>1, <1>2 DEF IInv, LinkOrphan
  <2>2. /\ Linked(t, size) \in [0 .. n-1 -> Entry]
        /\ \A k \in 0 .. n-1 :
             /\ Linked(t, size)[k].pid = t[k].pid
             /\ Linked(t, size)[k].ppid = t[k].ppid
             /\ Linked(t, size)[k].parent = IF k = cur THEN size ELSE t[k].parent
             /\ Linked(t, size)[k].list = IF k = size THEN Append(t[k].list, cur) ELSE t[k].list
    <3> HIDE DEF t, n
    <3> QED BY <2>1, LinkedFields
  <2>3. pt' = Linked(t, size)
    BY DEF LinkOrphan
  <2>4. 0 .. n-1 = 0 .. size
    BY <1>1
  <2> QED BY <2>2, <2>3, <2>4
<1>4. /\ \A k \in Idx : t[k] = pt[k]
      /\ t[size] = VirtualEntry(pt[cur].ppid)
      /\ Idx' = 0 .. size
  BY <1>1 DEF Idx, LinkOrphan
<1>5. TypeOK'
  <2>1. /\ pt' \in [Idx' -> Entry] /\ size' \in Nat /\ cur' \in 0 .. size'
        /\ root' \in Nat /\ agg' = EmptyArray /\ stack' = <<>>
    BY <1>1, <1>2, <1>3, <1>4 DEF IInv, LinkOrphan, Linking, PhaseInv, Idx
  <2>2. parts' \subseteq Blocks
    BY DEF IInv, LinkOrphan, Linking, TypeOK, PhaseInv
  <2> QED BY <2>1, <2>2 DEF IInv, LinkOrphan, TypeOK, Steps
<1>6. PhaseInv'
  BY DEF IInv, PhaseInv, LinkOrphan, Linking
<1>7. ListsBounded'
  <2>0. Idx' = 0 .. size /\ 0 .. cur'-1 = 0 .. cur
    <3>1. cur' = cur + 1
      BY DEF LinkOrphan
    <3> QED BY <3>1, <1>1, <1>4
  <2> SUFFICES ASSUME NEW q \in 0 .. size, NEW i \in 1 .. Len(pt'[q].list)
               PROVE  pt'[q].list[i] \in 0 .. cur
    BY <2>0 DEF ListsBounded
  <2>1. CASE q = size
    <3>1. pt'[q].list = Append(<<>>, cur)
      BY <1>1, <1>3, <1>4, <2>1 DEF VirtualEntry
    <3> QED BY <3>1, <1>1
  <2>2. CASE q # size
    <3>1. q \in Idx /\ pt'[q].list = pt[q].list
      BY <1>1, <1>3, <1>4, <2>2 DEF Idx
    <3>2. pt[q].list[i] \in 0 .. cur-1
      BY <3>1 DEF IInv, ListsBounded, LinkOrphan, Linking
    <3> QED BY <3>1, <3>2, <1>1
  <2> QED BY <2>1, <2>2
<1>8. RootPending'
  <2>1. pt'[size].pid = pt'[size].ppid
    BY <1>1, <1>3, <1>4 DEF VirtualEntry
  <2>2. size \in cur' .. size'-1
    BY <1>1 DEF LinkOrphan
  <2>3. root' # -1
    BY <1>2 DEF LinkOrphan
  <2>4. \E k \in cur' .. size'-1 : pt'[k].pid = pt'[k].ppid
    BY <2>1, <2>2
  <2> QED BY <2>3, <2>4 DEF RootPending, IsRoot
<1> QED BY <1>5, <1>6, <1>7, <1>8 DEF IInv

LEMMA LinkDoneThreadsInv ==
  ASSUME IInv, LinkDoneThreads
  PROVE  IInv'
<1>1. TypeOK'
  <2>1. size \in Nat /\ old' = NoTree /\ result' = size /\ cur' = 0 /\ root' = -1 /\ stack' = <<>>
        /\ todo' = {} /\ pc' = "idle"
        /\ heap' \subseteq Blocks
        /\ UNCHANGED <<mode, ppTree, size, pt, agg, time, calls, parts>>
    BY DEF IInv, TypeOK, LinkDoneThreads, Return
  <2> QED BY <2>1 DEF IInv, TypeOK, NoTree, EmptyArray, NULL, Blocks, Steps, Idx
<1>2. PhaseInv' /\ ListsBounded' /\ RootPending'
  BY DEF IInv, LinkDoneThreads, Return, PhaseInv, ListsBounded, RootPending, InTree
<1> QED BY <1>1, <1>2 DEF IInv

LEMMA LinkDoneNoRootInv ==
  ASSUME IInv, LinkDoneNoRoot
  PROVE  IInv'
<1>1. TypeOK'
  <2>1. /\ ReturnNoTree
        /\ heap' \subseteq Blocks /\ parts' \subseteq Blocks
        /\ UNCHANGED <<mode, calls>>
    BY DEF IInv, TypeOK, LinkDoneNoRoot
  <2> QED
    BY <2>1 DEF IInv, ReturnNoTree, Return, TypeOK, NoTree, EmptyArray, NULL, Blocks, Steps, Idx
<1>2. PhaseInv' /\ ListsBounded' /\ RootPending'
  BY DEF IInv, LinkDoneNoRoot, ReturnNoTree, Return, PhaseInv, ListsBounded, RootPending, InTree
<1> QED BY <1>1, <1>2 DEF IInv

-----------------------------------------------------------------------------
(* The steps of _fillProcessTree. *)

\* A sequence that is not empty has a last element and a part before it.
LEMMA SeqEnds ==
  ASSUME NEW S, NEW s \in Seq(S), s # <<>>
  PROVE  /\ Len(s) \in Nat \ {0}
         /\ s[Len(s)] \in S
         /\ SubSeq(s, 1, Len(s) - 1) \in Seq(S)
<1>1. Len(s) \in Nat \ {0}
  OBVIOUS
<1>2. s[Len(s)] \in S
  BY <1>1
<1>3. \A i \in 1 .. Len(s)-1 : s[i] \in S
  BY <1>1
<1> QED BY <1>1, <1>2, <1>3

\* Calling _fillProcessTree on an entry of the array keeps the types.
LEMMA CallType ==
  ASSUME TypeOK, NEW a \in [Idx -> Totals], NEW k \in Idx,
         NEW s \in Seq([idx: Idx, next: Nat \ {0}]), Call(a, s, k)
  PROVE  /\ agg' \in [Idx -> Totals]
         /\ stack' \in Seq([idx: Idx, next: Nat \ {0}])
<1>1. Entered(a, k) \in [Idx -> Totals]
  <2>1. pt[k] \in Entry
    BY DEF TypeOK
  <2>2. pt[k].mem \in Nat /\ Len(pt[k].list) \in Nat
    BY <2>1 DEF Entry
  <2>3. [visited |-> TRUE, total |-> Len(pt[k].list), threads |-> 0, cpu |-> 0,
         mem |-> pt[k].mem] \in Totals
    BY <2>2 DEF Totals
  <2> QED BY <2>3 DEF Entered
<1>2. Append(s, [idx |-> k, next |-> 1]) \in Seq([idx: Idx, next: Nat \ {0}])
  OBVIOUS
<1> QED BY <1>1, <1>2 DEF Call

LEMMA LinkDoneFillInv ==
  ASSUME IInv, LinkDoneFill
  PROVE  IInv'
<1>1. root \in Idx
  BY DEF IInv, LinkDoneFill, RootPending, InTree, TypeOK, Idx
<1>2. [k \in Idx |-> ZeroTotals] \in [Idx -> Totals]
  BY DEF ZeroTotals, Totals
<1>3. agg' \in [Idx -> Totals] /\ stack' \in Seq([idx: Idx, next: Nat \ {0}])
  <2> DEFINE a == [k \in Idx |-> ZeroTotals]
  <2>1. TypeOK /\ Call(a, <<>>, root) /\ <<>> \in Seq([idx: Idx, next: Nat \ {0}])
    BY DEF IInv, LinkDoneFill
  <2> HIDE DEF a
  <2> QED BY <1>1, <1>2, <2>1, CallType DEF a
<1>4. TypeOK'
  <2>1. /\ old' = NoTree /\ pc' = "fill" /\ heap' \subseteq Blocks
        /\ UNCHANGED <<mode, ppTree, size, pt, time, todo, cur, root, result, calls, parts>>
    BY DEF IInv, TypeOK, LinkDoneFill
  <2>2. Idx' = Idx
    BY <2>1 DEF Idx
  <2> QED BY <2>1, <2>2, <1>3 DEF IInv, TypeOK, NoTree, EmptyArray, NULL, Blocks, Steps
<1>5. PhaseInv'
  BY <1>3 DEF IInv, LinkDoneFill, PhaseInv, Idx
<1>6. ListsBounded' /\ RootPending'
  BY DEF IInv, LinkDoneFill, ListsBounded, RootPending, InTree, IsRoot, Idx
<1> QED BY <1>4, <1>5, <1>6 DEF IInv

LEMMA FillChildInv ==
  ASSUME IInv, FillChild
  PROVE  IInv'
<1> DEFINE Frames == [idx: Idx, next: Nat \ {0}]
<1>1. /\ stack \in Seq(Frames) /\ stack # <<>> /\ agg \in [Idx -> Totals]
      /\ pc = "fill" /\ cur = size /\ size \in Nat
  BY DEF IInv, TypeOK, PhaseInv, FillChild
<1>2. Top \in Frames /\ Below \in Seq(Frames)
  <2> HIDE DEF Frames
  <2> QED BY <1>1, SeqEnds DEF Top, Below
<1>3. pt[Top.idx].list[Top.next] \in Idx
  <2>1. Top.idx \in Idx /\ Top.next \in 1 .. Len(pt[Top.idx].list)
    <3>1. pt[Top.idx].list \in Seq(Nat)
      BY <1>2 DEF IInv, TypeOK, Entry
    <3> QED BY <3>1, <1>2 DEF FillChild
  <2> QED BY <2>1, <1>1 DEF IInv, ListsBounded, Idx
<1>4. [Top EXCEPT !.next = @ + 1] \in Frames
  BY <1>2
<1>5. Append(Below, [Top EXCEPT !.next = @ + 1]) \in Seq(Frames)
  BY <1>2, <1>4
<1>6. agg' \in [Idx -> Totals] /\ stack' \in Seq(Frames)
  BY <1>1, <1>3, <1>5, CallType DEF IInv, FillChild
<1>7. TypeOK'
  BY <1>6 DEF IInv, FillChild, TypeOK, Idx
<1>8. PhaseInv' /\ ListsBounded' /\ RootPending'
  BY <1>6 DEF IInv, FillChild, PhaseInv, ListsBounded, RootPending, InTree, IsRoot, Idx
<1> QED BY <1>7, <1>8 DEF IInv

LEMMA FillReturnInv ==
  ASSUME IInv, FillReturn
  PROVE  IInv'
<1> DEFINE Frames == [idx: Idx, next: Nat \ {0}]
<1>1. /\ stack \in Seq(Frames) /\ stack # <<>> /\ agg \in [Idx -> Totals] /\ pc = "fill"
  BY DEF IInv, TypeOK, PhaseInv, FillReturn
<1>2. Top \in Frames /\ Below \in Seq(Frames)
  <2> HIDE DEF Frames
  <2> QED BY <1>1, SeqEnds DEF Top, Below
<1>3. ASSUME NEW k \in Idx, NEW sums \in Totals
      PROVE  WithChild(sums, agg, k) \in Totals
  <2>1. pt[k] \in Entry /\ agg[k] \in Totals
    BY <1>1 DEF IInv, TypeOK
  <2>2. /\ AtLeast(pt[k].threads, 1) \in Nat /\ AtLeast(agg[k].threads, 0) \in Nat
        /\ AtLeast(pt[k].self, 0) \in Nat /\ AtLeast(agg[k].cpu, 0) \in Nat
        /\ agg[k].total \in Nat /\ agg[k].mem \in Nat
    <3>1. pt[k].threads \in Nat /\ pt[k].self \in Nat \cup {-1}
      BY <2>1 DEF Entry
    <3>2. agg[k].threads \in Nat /\ agg[k].cpu \in Nat /\ agg[k].total \in Nat /\ agg[k].mem \in Nat
      BY <2>1 DEF Totals
    <3>3. \A n \in Int, m \in Nat : AtLeast(n, m) \in Nat
      BY DEF AtLeast
    <3>4. pt[k].threads \in Int /\ pt[k].self \in Int /\ agg[k].threads \in Int /\ agg[k].cpu \in Int
      BY <3>1, <3>2
    <3> QED BY <3>2, <3>3, <3>4
  <2>3. /\ sums.total + agg[k].total \in Nat
        /\ sums.threads + AtLeast(pt[k].threads, 1) + AtLeast(agg[k].threads, 0) \in Nat
        /\ sums.cpu + AtLeast(pt[k].self, 0) + AtLeast(agg[k].cpu, 0) \in Nat
        /\ sums.mem + agg[k].mem \in Nat
    <3>1. sums.total \in Nat /\ sums.threads \in Nat /\ sums.cpu \in Nat /\ sums.mem \in Nat
      BY DEF Totals
    <3> QED BY <2>2, <3>1
  <2> QED BY <2>3 DEF WithChild, Totals
<1>4. agg' \in [Idx -> Totals]
  BY <1>1, <1>2, <1>3 DEF FillReturn
<1>5. TypeOK'
  BY <1>2, <1>4 DEF IInv, FillReturn, TypeOK, Idx
<1>6. PhaseInv' /\ ListsBounded' /\ RootPending'
  BY <1>1, <1>4 DEF IInv, FillReturn, PhaseInv, ListsBounded, RootPending, InTree, IsRoot, Idx
<1> QED BY <1>5, <1>6 DEF IInv

LEMMA FillDoneInv ==
  ASSUME IInv, FillDone
  PROVE  IInv'
<1>1. /\ size \in Nat /\ old' = NoTree /\ result' = size /\ cur' = 0 /\ root' = -1
      /\ stack' = <<>> /\ todo' = {} /\ pc' = "idle"
      /\ UNCHANGED <<mode, ppTree, size, pt, agg, time, calls, heap, parts>>
  BY DEF IInv, TypeOK, FillDone, Return
<1>2. TypeOK'
  BY <1>1 DEF IInv, TypeOK, NoTree, EmptyArray, NULL, Blocks, Steps, Idx
<1>3. PhaseInv' /\ ListsBounded' /\ RootPending'
  BY <1>1 DEF PhaseInv, ListsBounded, RootPending, InTree
<1> QED BY <1>2, <1>3 DEF IInv

LEMMA DeleteInv ==
  ASSUME IInv, Delete
  PROVE  IInv'
<1>1. TypeOK'
  BY DEF IInv, Delete, TypeOK, PhaseInv, EmptyArray, NULL, Blocks, Steps, Idx
<1>2. PhaseInv' /\ ListsBounded' /\ RootPending'
  BY DEF IInv, Delete, PhaseInv, ListsBounded, RootPending, InTree
<1> QED BY <1>1, <1>2 DEF IInv

LEMMA StutterInv ==
  ASSUME IInv, UNCHANGED vars
  PROVE  IInv'
<1>1. TypeOK'
  BY DEF IInv, TypeOK, vars, Idx
<1>2. PhaseInv' /\ ListsBounded' /\ RootPending'
  BY DEF IInv, PhaseInv, ListsBounded, RootPending, InTree, IsRoot, Idx, vars
<1> QED BY <1>1, <1>2 DEF IInv

-----------------------------------------------------------------------------
LEMMA NextInv ==
  ASSUME IInv, [Next]_vars
  PROVE  IInv'
<1>1. CASE Step
  BY <1>1, GlobFailsInv, GlobInv, PublishInv, SkipInv, ScanEmptyInv, ScanDoneInv, LinkRootInv,
     LinkThreadInv, LinkChildInv, LinkOrphanInv, LinkDoneThreadsInv, LinkDoneNoRootInv,
     LinkDoneFillInv, FillChildInv, FillReturnInv, FillDoneInv
     DEF Step
<1>2. CASE Begin \/ Delete
  BY <1>2, BeginInv, DeleteInv
<1>3. CASE UNCHANGED vars
  BY <1>3, StutterInv
<1> QED BY <1>1, <1>2, <1>3 DEF Next

\* In every state the types hold, the variables of a call are those of its phase, children
\* lists hold indexes of the array, and root is what RootPending says.
THEOREM Inductive == Spec => []IInv
<1>1. Init => IInv
  BY InitInv
<1>2. IInv /\ [Next]_vars => IInv'
  BY NextInv
<1> QED BY <1>1, <1>2, PTL DEF Spec

\* Every state of every execution has the declared types: no index is negative or lost, and
\* a CPU usage is -1 or not negative.
THEOREM TypeCorrect == Spec => []TypeOK
<1>1. IInv => TypeOK
  BY DEF IInv
<1> QED BY <1>1, Inductive, PTL

\* What root holds while the loop runs: no root was met, the index of one, or a pid whose entry
\* the loop is still to reach.
THEOREM RootFound == Spec => []RootPending
<1>1. IInv => RootPending
  BY DEF IInv
<1> QED BY <1>1, Inductive, PTL

LEMMA StartedAtRoot ==
  ASSUME IInv
  PROVE  FillsFromRoot
BY DEF IInv, FillsFromRoot, PhaseInv, RootPending, InTree, TypeOK, Idx

\* _fillProcessTree always starts at the index of a root of the array, whatever was listed,
\* read or missing, although the loop stores pids in root on the way.
THEOREM StartsAtRoot == Spec => []FillsFromRoot
BY StartedAtRoot, Inductive, PTL

-----------------------------------------------------------------------------
(* Which arrays are allocated: the life of the previous tree, and what a caller holds after *)
(* a call.                                                                                 *)

\* The tree of a call is the array with the call's number, from the moment it is allocated.
\* Until the links are made the previous tree is that of the call before, and only the new
\* one has parts; an array whose scan published nothing has none.
MemoryInv ==
  /\ heap \subseteq 1 .. calls /\ parts \subseteq heap /\ parts \subseteq {calls}
  /\ old.blk # NULL => old.blk \in heap /\ old.blk = calls - 1
  /\ pc \in {"idle", "fill"} => old.blk = NULL
  /\ pc = "idle" => ppTree \in {NULL, calls} /\ parts \subseteq {ppTree}
  /\ pc \in {"glob", "scan"} => ppTree = NULL
  /\ pc = "glob" => parts = {}
  /\ pc \in {"link", "fill"} => ppTree = calls /\ size > 0
  /\ pc = "scan" /\ size = 0 => parts = {}
  /\ pc \in {"scan", "link", "fill"} => calls \in heap
  /\ ppTree # NULL => ppTree \in heap

\* What the steps below rely on.
MInv == IInv /\ MemoryInv /\ ResultAgrees

LEMMA MemoryInit ==
  ASSUME Init
  PROVE  MemoryInv /\ ResultAgrees
BY DEF Init, MemoryInv, ResultAgrees, NoTree, NULL

LEMMA MemoryBegin ==
  ASSUME MInv, Begin
  PROVE  MemoryInv' /\ ResultAgrees'
<1>1. /\ pc = "idle" /\ pc' = "glob" /\ ppTree' = NULL /\ size' = 0 /\ heap' = heap
      /\ calls' = calls + 1 /\ calls \in Nat /\ parts' = parts \ {ppTree}
      /\ old'.blk = ppTree \/ old'.blk = NULL
  BY DEF MInv, IInv, TypeOK, Begin, NoTree, NULL
<1>2. parts' = {}
  BY <1>1 DEF MInv, MemoryInv
<1>3. heap' \subseteq 1 .. calls'
  BY <1>1 DEF MInv, MemoryInv
<1>4. old'.blk # NULL => old'.blk \in heap' /\ old'.blk = calls' - 1
  BY <1>1 DEF MInv, MemoryInv
<1> QED BY <1>1, <1>2, <1>3, <1>4 DEF MemoryInv, ResultAgrees

\* A call that fails before it allocates, or frees what it allocated, leaves no tree.
LEMMA MemoryGlobFails ==
  ASSUME MInv, GlobFails
  PROVE  MemoryInv' /\ ResultAgrees'
BY DEF MInv, MemoryInv, ResultAgrees, GlobFails, ReturnNoTree, Return, NoTree, NULL

LEMMA MemoryGlob ==
  ASSUME MInv, Glob
  PROVE  MemoryInv' /\ ResultAgrees'
<1>1. calls \in 1 .. calls
  BY DEF MInv, IInv, TypeOK, PhaseInv, Glob, Blocks
<1> QED BY <1>1 DEF MInv, MemoryInv, ResultAgrees, Glob, NULL

LEMMA MemoryPublish ==
  ASSUME MInv, Publish
  PROVE  MemoryInv' /\ ResultAgrees'
<1>1. size \in Nat /\ size' = size + 1 /\ size' # 0
  BY DEF MInv, IInv, TypeOK, Publish
<1> QED BY <1>1 DEF MInv, MemoryInv, ResultAgrees, Publish, NULL

LEMMA MemorySkip ==
  ASSUME MInv, Skip
  PROVE  MemoryInv' /\ ResultAgrees'
BY DEF MInv, MemoryInv, ResultAgrees, Skip

LEMMA MemoryScanEmpty ==
  ASSUME MInv, ScanEmpty
  PROVE  MemoryInv' /\ ResultAgrees'
<1>1. parts = {} /\ size = 0 /\ calls \in heap /\ calls' = calls /\ parts' = parts
  BY DEF MInv, MemoryInv, ScanEmpty
<1>2. old'.blk = NULL /\ pc' = "idle" /\ result' = -1
  BY DEF ScanEmpty, ReturnNoTree, Return, NoTree
<1>3. CASE old.blk # NULL
  <2>1. ppTree' = NULL /\ size' = 0 /\ heap' = heap \ {calls}
    BY <1>3 DEF ScanEmpty, ReturnNoTree
  <2> QED BY <1>1, <1>2, <2>1 DEF MInv, MemoryInv, ResultAgrees
<1>4. CASE old.blk = NULL
  <2>1. ppTree' = calls /\ size' = 0 /\ heap' = heap
    BY <1>1, <1>4 DEF ScanEmpty
  <2> QED BY <1>1, <1>2, <2>1 DEF MInv, MemoryInv, ResultAgrees
<1> QED BY <1>3, <1>4

LEMMA MemoryScanDone ==
  ASSUME MInv, ScanDone
  PROVE  MemoryInv' /\ ResultAgrees'
BY DEF MInv, MemoryInv, ResultAgrees, ScanDone

LEMMA MemoryLink ==
  ASSUME MInv, LinkRoot \/ LinkThread \/ LinkChild
  PROVE  MemoryInv' /\ ResultAgrees'
<1>1. /\ pc = "link"
      /\ UNCHANGED <<ppTree, size, old, pc, result, calls, heap, parts>>
  BY DEF LinkRoot, LinkThread, LinkChild, Linking
<1> QED BY <1>1 DEF MInv, MemoryInv, ResultAgrees

LEMMA MemoryLinkOrphan ==
  ASSUME MInv, LinkOrphan
  PROVE  MemoryInv' /\ ResultAgrees'
<1>1. /\ pc = "link" /\ size \in Nat /\ size' = size + 1 /\ parts' = parts \cup {calls}
      /\ UNCHANGED <<ppTree, old, pc, result, calls, heap>>
  BY DEF MInv, IInv, TypeOK, LinkOrphan, Linking
<1>2. size' > 0
  BY <1>1
<1> QED BY <1>1, <1>2 DEF MInv, MemoryInv, ResultAgrees

\* The previous array, which is freed, is not the one that was linked.
LEMMA OldIsNotNew ==
  ASSUME MInv, pc = "link"
  PROVE  calls \in heap \ {old.blk} /\ parts \subseteq heap \ {old.blk}
<1>1. calls \in heap /\ parts \subseteq heap /\ parts \subseteq {calls} /\ calls \in Nat \ {0}
  BY DEF MInv, MemoryInv, IInv, TypeOK, PhaseInv, Blocks
<1>2. old.blk # calls
  BY <1>1 DEF MInv, MemoryInv, NULL
<1> QED BY <1>1, <1>2

LEMMA MemoryLinkDoneThreads ==
  ASSUME MInv, LinkDoneThreads
  PROVE  MemoryInv' /\ ResultAgrees'
<1>1. /\ pc = "link" /\ pc' = "idle" /\ old'.blk = NULL /\ result' = size
      /\ heap' = heap \ {old.blk}
      /\ UNCHANGED <<ppTree, size, calls, parts>>
  BY DEF LinkDoneThreads, Return, NoTree
<1>2. calls \in heap' /\ parts' \subseteq heap'
  BY <1>1, OldIsNotNew
<1> QED BY <1>1, <1>2 DEF MInv, MemoryInv, ResultAgrees

LEMMA MemoryLinkDoneNoRoot ==
  ASSUME MInv, LinkDoneNoRoot
  PROVE  MemoryInv' /\ ResultAgrees'
<1>1. /\ pc = "link" /\ pc' = "idle" /\ old'.blk = NULL /\ result' = -1
      /\ ppTree' = NULL /\ size' = 0 /\ calls' = calls
      /\ heap' = heap \ {old.blk, ppTree} /\ parts' = parts \ {ppTree}
  BY DEF LinkDoneNoRoot, ReturnNoTree, Return, NoTree
<1>2. parts' = {}
  BY <1>1 DEF MInv, MemoryInv
<1> QED BY <1>1, <1>2 DEF MInv, MemoryInv, ResultAgrees

LEMMA MemoryLinkDoneFill ==
  ASSUME MInv, LinkDoneFill
  PROVE  MemoryInv' /\ ResultAgrees'
<1>1. /\ pc = "link" /\ pc' = "fill" /\ old'.blk = NULL
      /\ heap' = heap \ {old.blk}
      /\ UNCHANGED <<ppTree, size, calls, parts>>
  BY DEF LinkDoneFill, NoTree
<1>2. calls \in heap' /\ parts' \subseteq heap'
  BY <1>1, OldIsNotNew
<1> QED BY <1>1, <1>2 DEF MInv, MemoryInv, ResultAgrees

LEMMA MemoryFill ==
  ASSUME MInv, FillChild \/ FillReturn
  PROVE  MemoryInv' /\ ResultAgrees'
<1>1. /\ pc = "fill"
      /\ UNCHANGED <<ppTree, size, old, pc, result, calls, heap, parts>>
  BY DEF FillChild, FillReturn
<1> QED BY <1>1 DEF MInv, MemoryInv, ResultAgrees

LEMMA MemoryFillDone ==
  ASSUME MInv, FillDone
  PROVE  MemoryInv' /\ ResultAgrees'
<1>1. /\ pc = "fill" /\ pc' = "idle" /\ old'.blk = NULL /\ result' = size
      /\ UNCHANGED <<ppTree, size, calls, heap, parts>>
  BY DEF FillDone, Return, NoTree
<1> QED BY <1>1 DEF MInv, MemoryInv, ResultAgrees

LEMMA MemoryDelete ==
  ASSUME MInv, Delete
  PROVE  MemoryInv' /\ ResultAgrees'
<1>1. /\ pc = "idle" /\ heap' = heap \ {ppTree} /\ parts' = parts \ {ppTree}
      /\ ppTree' = NULL /\ size' = 0
      /\ UNCHANGED <<old, pc, result, calls>>
  BY DEF Delete
<1>2. parts' = {}
  BY <1>1 DEF MInv, MemoryInv
<1> QED BY <1>1, <1>2 DEF MInv, MemoryInv, ResultAgrees

LEMMA MemoryNext ==
  ASSUME MInv, [Next]_vars
  PROVE  MInv'
<1>1. IInv'
  BY NextInv DEF MInv
<1>2. MemoryInv' /\ ResultAgrees'
  <2>1. CASE Step
    BY <2>1, MemoryGlobFails, MemoryGlob, MemoryPublish, MemorySkip, MemoryScanEmpty,
       MemoryScanDone, MemoryLink, MemoryLinkOrphan, MemoryLinkDoneThreads,
       MemoryLinkDoneNoRoot, MemoryLinkDoneFill, MemoryFill, MemoryFillDone
       DEF Step
  <2>2. CASE Begin \/ Delete
    BY <2>2, MemoryBegin, MemoryDelete
  <2>3. CASE UNCHANGED vars
    BY <2>3 DEF MInv, MemoryInv, ResultAgrees, vars
  <2> QED BY <2>1, <2>2, <2>3 DEF Next
<1> QED BY <1>1, <1>2 DEF MInv

\* In every state it is known from the phase of the call which arrays are allocated: the new
\* one, the previous one until the links are made, and leftovers without parts.
THEOREM MemoryInductive == Spec => []MInv
<1>1. Init => MInv
  BY InitInv, MemoryInit DEF MInv
<1>2. MInv /\ [Next]_vars => MInv'
  BY MemoryNext
<1> QED BY <1>1, <1>2, PTL DEF Spec

-----------------------------------------------------------------------------
\* No use after free: the caller's tree, the previous tree while it is compared with, and
\* every array whose parts are allocated are allocated themselves.
THEOREM NothingDangles == Spec => []NoDangling
<1>1. MInv => NoDangling
  BY DEF MInv, MemoryInv, NoDangling
<1> QED BY <1>1, MemoryInductive, PTL

\* CPU usage is measured against the tree of the call just before, or against none.
THEOREM ComparesWithPrevious == Spec => []OldIsPrevious
<1>1. MInv => OldIsPrevious
  BY DEF MInv, MemoryInv, OldIsPrevious
<1> QED BY <1>1, MemoryInductive, PTL

\* Never two trees with their strings and lists: what the comment about the memory footprint
\* promises.
THEOREM OneTreeHasParts == Spec => []OnePartsHolder
<1>1. ASSUME MInv PROVE OnePartsHolder
  <2>1. parts = {} \/ parts = {calls}
    BY <1>1 DEF MInv, MemoryInv
  <2> QED BY <2>1, FS_EmptySet, FS_Singleton DEF OnePartsHolder
<1> QED BY <1>1, MemoryInductive, PTL

\* The result of a call tells what the caller holds.
THEOREM ResultTells == Spec => []ResultAgrees
<1>1. MInv => ResultAgrees
  BY DEF MInv
<1> QED BY <1>1, MemoryInductive, PTL
=============================================================================
