----------------------- MODULE ProcessTreeLinksProofs -----------------------
(***************************************************************************)
(* Theorems about the links of ProcessTree, for every ppid the processes   *)
(* may report, missing parents and cycles included; about the order in     *)
(* which the entries are collected; and about _fillProcessTree: what it    *)
(* walks, and that the sums it leaves are those of the subtrees.           *)
(***************************************************************************)
EXTENDS MCProcessTree, ProcessTreeProofs, SequenceTheorems, FunctionTheorems

\* What the links are built from and keep.
LinksInv ==
  /\ UniquePids /\ ParentsAgree /\ ListsAgree
  /\ pc \in {"link", "fill"} => todo = {}

LInv == IInv /\ LinksInv

LEMMA LinksInit ==
  ASSUME Init
  PROVE  LinksInv
<1>1. size = 0 /\ pc = "idle"
  BY DEF Init
<1> QED BY <1>1 DEF LinksInv, UniquePids, ParentsAgree, ListsAgree, InTree, Idx

\* A call that is over, or has not begun to read, has no entries, or keeps those it has.
LEMMA LinksOutside ==
  ASSUME LInv, pc' \in {"idle", "glob", "scan"}, todo' \subseteq todo \/ size' = 0,
         size' = 0 \/ (size' = size /\ pt' = pt)
  PROVE  LinksInv'
<1>1. Idx' = {} \/ (Idx' = Idx /\ pt' = pt /\ todo' \subseteq todo)
  <2>1. CASE size' = 0
    BY <2>1 DEF Idx
  <2>2. CASE size' = size /\ pt' = pt /\ todo' \subseteq todo
    BY <2>2 DEF Idx
  <2> QED BY <2>1, <2>2
<1>2. UniquePids'
  BY <1>1 DEF LInv, LinksInv, UniquePids
<1> QED BY <1>2 DEF LinksInv, ParentsAgree, ListsAgree, InTree

LEMMA LinksBegin ==
  ASSUME LInv, Begin \/ GlobFails \/ Glob \/ Delete
  PROVE  LinksInv'
<1>1. CASE Begin
  BY <1>1, LinksOutside DEF Begin
<1>2. CASE GlobFails
  BY <1>2, LinksOutside DEF GlobFails, ReturnNoTree, Return
<1>3. CASE Glob
  <2>1. size' = 0
    BY <1>3 DEF Glob, LInv, IInv, PhaseInv
  <2> QED BY <1>3, <2>1, LinksOutside DEF Glob
<1>4. CASE Delete
  BY <1>4, LinksOutside DEF Delete
<1> QED BY <1>1, <1>2, <1>3, <1>4

LEMMA LinksEnd ==
  ASSUME LInv, Skip \/ ScanEmpty \/ LinkDoneThreads \/ LinkDoneNoRoot \/ FillDone
  PROVE  LinksInv'
<1>1. CASE Skip
  BY <1>1, LinksOutside DEF Skip
<1>2. CASE ScanEmpty
  <2>1. pc' = "idle" /\ todo' = {} /\ size' = 0
    BY <1>2 DEF ScanEmpty, ReturnNoTree, Return
  <2> QED BY <2>1, LinksOutside
<1>3. CASE LinkDoneThreads
  BY <1>3, LinksOutside DEF LinkDoneThreads, Return
<1>4. CASE LinkDoneNoRoot
  BY <1>4, LinksOutside DEF LinkDoneNoRoot, ReturnNoTree, Return
<1>5. CASE FillDone
  BY <1>5, LinksOutside DEF FillDone, Return
<1> QED BY <1>1, <1>2, <1>3, <1>4, <1>5

LEMMA LinksPublish ==
  ASSUME LInv, Publish
  PROVE  LinksInv'
<1>1. NextPid \in todo
  BY NextPidLeft DEF LInv, IInv, Publish
<1>2. /\ size \in Nat /\ size' = size + 1 /\ Idx' = 0 .. size /\ pc' = "scan"
      /\ todo' = todo \ {NextPid}
  BY DEF LInv, IInv, TypeOK, Publish, Idx
<1>3. /\ \A k \in Idx : pt'[k] = pt[k]
      /\ pt'[size].pid = NextPid
  BY <1>2 DEF Publish, Idx, ReadEntry
<1>4. \A k \in Idx' : k \in Idx \/ k = size
  BY <1>2 DEF Idx
<1>5. UniquePids'
  <2>1. \A k \in Idx : pt[k].pid # NextPid /\ pt[k].pid \notin todo
    BY <1>1 DEF LInv, LinksInv, UniquePids
  <2>2. \A j, k \in Idx' : pt'[j].pid = pt'[k].pid => j = k
    BY <1>3, <1>4, <2>1 DEF LInv, LinksInv, UniquePids
  <2>3. \A k \in Idx' : pt'[k].pid \notin todo'
    BY <1>2, <1>3, <1>4, <2>1
  <2> QED BY <2>2, <2>3 DEF UniquePids
<1> QED BY <1>2, <1>5 DEF LinksInv, ParentsAgree, ListsAgree, InTree

LEMMA LinksScanDone ==
  ASSUME LInv, ScanDone
  PROVE  LinksInv'
<1>1. /\ pc = "scan" /\ todo' = {} /\ cur' = 0 /\ pt' = pt /\ size' = size
      /\ Idx' = Idx
  BY DEF ScanDone, Idx
<1>2. \A k \in Idx : pt[k].list = <<>>
  BY <1>1 DEF LInv, IInv, PhaseInv
<1>3. UniquePids'
  BY <1>1 DEF LInv, LinksInv, UniquePids
<1>4. ParentsAgree' /\ ListsAgree'
  BY <1>1, <1>2 DEF ParentsAgree, ListsAgree
<1> QED BY <1>1, <1>3, <1>4 DEF LinksInv

-----------------------------------------------------------------------------
(* An iteration of the loop: entry cur gets the parent at index p. *)

OldList(k) == IF k \in Idx THEN pt[k].list ELSE <<>>

LinkStep(p) ==
  /\ pc = "link" /\ pc' = "link" /\ mode = "all" /\ mode' = "all"
  /\ cur \in Idx /\ cur' = cur + 1 /\ Idx \subseteq Idx' /\ p \in Idx'
  /\ \A k \in Idx : /\ pt'[k].pid = pt[k].pid
                    /\ pt'[k].ppid = pt[k].ppid
                    /\ pt'[k].parent = IF k = cur THEN p ELSE pt[k].parent
  /\ \A k \in Idx' : pt'[k].list = IF k = p /\ p # cur THEN Append(OldList(k), cur) ELSE OldList(k)
  /\ pt'[p].pid = pt[cur].ppid

\* Appending the greatest number yet to an increasing sequence.
LEMMA AppendFacts ==
  ASSUME NEW s \in Seq(Nat), NEW c \in Nat
  PROVE  /\ Len(Append(s, c)) = Len(s) + 1 /\ Len(s) \in Nat
         /\ \A i \in 1 .. Len(s) : Append(s, c)[i] = s[i]
         /\ Append(s, c)[Len(s) + 1] = c
OBVIOUS

LEMMA LinkStepAgrees ==
  ASSUME LInv, NEW p, LinkStep(p)
  PROVE  ParentsAgree' /\ ListsAgree'
<1>1. /\ cur \in Nat /\ size \in Nat /\ cur' = cur + 1 /\ cur < size
      /\ InTree /\ \A k \in 0 .. cur-1 : k \in Idx /\ k # cur
      /\ \A k \in 0 .. cur'-1 : k \in 0 .. cur-1 \/ k = cur
  BY DEF LInv, IInv, TypeOK, LinkStep, InTree, Idx
<1>2. ParentsAgree'
  <2> SUFFICES ASSUME NEW k \in 0 .. cur'-1
               PROVE  pt'[k].parent \in Idx' /\ pt'[pt'[k].parent].pid = pt'[k].ppid
    BY DEF ParentsAgree
  <2>1. CASE k = cur
    BY <2>1, <1>1 DEF LinkStep
  <2>2. CASE k \in 0 .. cur-1
    <3>1. pt[k].parent \in Idx /\ pt[pt[k].parent].pid = pt[k].ppid /\ k \in Idx /\ k # cur
      BY <2>2, <1>1 DEF LInv, LinksInv, ParentsAgree
    <3> QED BY <3>1 DEF LinkStep
  <2> QED BY <1>1, <2>1, <2>2
<1>3. ASSUME NEW q \in Idx'
      PROVE  LET list == OldList(q)
             IN /\ list \in Seq(Nat)
                /\ \A i \in 1 .. Len(list) : /\ list[i] \in 0 .. cur-1
                                             /\ list[i] # q
                                             /\ pt'[list[i]].parent = q
                /\ \A i, j \in 1 .. Len(list) : i < j => list[i] < list[j]
                /\ q \in Idx =>
                     \A k \in 0 .. cur-1 : pt'[k].parent = q /\ k # q => \E i \in 1 .. Len(list) : list[i] = k
  <2>1. CASE q \in Idx
    <3>1. pt[q].list \in Seq(Nat) /\ OldList(q) = pt[q].list
      BY <2>1 DEF LInv, IInv, TypeOK, Entry, OldList
    <3>2. \A k \in 0 .. cur-1 : pt'[k].parent = pt[k].parent
      BY <1>1 DEF LinkStep
    <3>3. LET list == pt[q].list
          IN /\ \A i \in 1 .. Len(list) : /\ list[i] \in 0 .. cur-1
                                          /\ list[i] # q
                                          /\ pt[list[i]].parent = q
             /\ \A i, j \in 1 .. Len(list) : i < j => list[i] < list[j]
             /\ \A k \in 0 .. cur-1 : pt[k].parent = q /\ k # q => \E i \in 1 .. Len(list) : list[i] = k
      BY <2>1, <1>1 DEF LInv, LinksInv, ListsAgree
    <3> QED BY <3>1, <3>2, <3>3
  <2>2. CASE q \notin Idx
    BY <2>2 DEF OldList
  <2> QED BY <2>1, <2>2
<1>4. \A k \in 0 .. cur-1 : pt'[k].parent \in Idx
  BY <1>1 DEF LinkStep, LInv, LinksInv, ParentsAgree
<1>5. ListsAgree'
  <2> SUFFICES ASSUME NEW q \in Idx'
               PROVE  LET list == pt'[q].list
                      IN /\ \A i \in 1 .. Len(list) : /\ list[i] \in 0 .. cur
                                                      /\ list[i] # q
                                                      /\ pt'[list[i]].parent = q
                         /\ \A i, j \in 1 .. Len(list) : i < j => list[i] < list[j]
                         /\ \A k \in 0 .. cur : pt'[k].parent = q /\ k # q => \E i \in 1 .. Len(list) : list[i] = k
    <3>1. 0 .. cur'-1 = 0 .. cur
      BY <1>1
    <3> QED BY <3>1 DEF ListsAgree
  <2> DEFINE list == OldList(q)
  <2>0. \A k \in 0 .. cur : k \in 0 .. cur-1 \/ k = cur
    BY <1>1
  <2>9. pt'[cur].parent = p
    BY DEF LinkStep
  <2>8. \A k \in 0 .. cur-1 : pt'[k].parent = q => q \in Idx
    BY <1>4
  <2>1. CASE q = p /\ p # cur
    <3>1. pt'[q].list = Append(list, cur)
      BY <2>1 DEF LinkStep
    <3>2. /\ list \in Seq(Nat)
          /\ \A i \in 1 .. Len(list) : list[i] \in 0 .. cur-1 /\ list[i] # q /\ pt'[list[i]].parent = q
          /\ \A i, j \in 1 .. Len(list) : i < j => list[i] < list[j]
          /\ \A k \in 0 .. cur-1 : pt'[k].parent = q /\ k # q => \E i \in 1 .. Len(list) : list[i] = k
      BY <1>3, <2>8
    <3> DEFINE new == Append(list, cur)
    <3>3. /\ Len(new) = Len(list) + 1 /\ Len(list) \in Nat
          /\ \A i \in 1 .. Len(list) : new[i] = list[i]
          /\ new[Len(list) + 1] = cur
      BY <3>2, <1>1, AppendFacts
    <3> HIDE DEF list, new
    <3>4. \A i \in 1 .. Len(new) : i \in 1 .. Len(list) \/ i = Len(list) + 1
      BY <3>3
    <3>5. \A i \in 1 .. Len(new) : new[i] \in 0 .. cur /\ new[i] # q /\ pt'[new[i]].parent = q
      <4> SUFFICES ASSUME NEW i \in 1 .. Len(new)
                   PROVE  new[i] \in 0 .. cur /\ new[i] # q /\ pt'[new[i]].parent = q
        OBVIOUS
      <4>1. CASE i \in 1 .. Len(list)
        <5>1. new[i] = list[i]
          BY <4>1, <3>3
        <5>2. list[i] \in 0 .. cur-1 /\ list[i] # q /\ pt'[list[i]].parent = q
          BY <4>1, <3>2
        <5>3. list[i] \in 0 .. cur
          BY <5>2, <1>1
        <5> QED BY <5>1, <5>2, <5>3
      <4>2. CASE i = Len(list) + 1
        <5>1. new[i] = cur /\ cur \in 0 .. cur
          BY <4>2, <3>3, <1>1
        <5> QED BY <5>1, <2>1, <2>9
      <4> QED BY <4>1, <4>2, <3>4
    <3>6. ASSUME NEW i \in 1 .. Len(new), NEW j \in 1 .. Len(new), i < j
          PROVE  new[i] < new[j]
      <4>1. i \in 1 .. Len(list)
        BY <3>3, <3>4, <3>6
      <4>2. CASE j \in 1 .. Len(list)
        BY <4>1, <4>2, <3>2, <3>3, <3>6
      <4>3. CASE j = Len(list) + 1
        <5>1. list[i] \in 0 .. cur-1
          BY <4>1, <3>2
        <5> QED BY <4>1, <4>3, <5>1, <3>3, <1>1
      <4> QED BY <4>2, <4>3, <3>4
    <3>7. ASSUME NEW k \in 0 .. cur, pt'[k].parent = q, k # q
          PROVE  \E i \in 1 .. Len(new) : new[i] = k
      <4>1. CASE k = cur
        BY <4>1, <3>3
      <4>2. CASE k \in 0 .. cur-1
        <5>1. PICK i \in 1 .. Len(list) : list[i] = k
          BY <4>2, <3>2, <3>7
        <5>2. i \in 1 .. Len(new) /\ new[i] = k
          BY <5>1, <3>3
        <5> QED BY <5>2
      <4> QED BY <4>1, <4>2, <2>0
    <3>8. pt'[q].list = new
      BY <3>1 DEF new
    <3> QED BY <3>5, <3>6, <3>7, <3>8
  <2>2. CASE ~(q = p /\ p # cur)
    <3>1. pt'[q].list = list
      BY <2>2 DEF LinkStep
    <3>2. /\ list \in Seq(Nat)
          /\ \A i \in 1 .. Len(list) : list[i] \in 0 .. cur-1 /\ list[i] # q /\ pt'[list[i]].parent = q
          /\ \A i, j \in 1 .. Len(list) : i < j => list[i] < list[j]
          /\ \A k \in 0 .. cur-1 : pt'[k].parent = q /\ k # q => \E i \in 1 .. Len(list) : list[i] = k
      BY <1>3, <2>8
    <3> HIDE DEF list
    <3>3. \A k \in 0 .. cur : pt'[k].parent = q /\ k # q => k \in 0 .. cur-1
      BY <2>0, <2>2, <2>9
    <3>4. \A i \in 1 .. Len(list) : list[i] \in 0 .. cur
      BY <3>2, <1>1
    <3> QED BY <3>1, <3>2, <3>3, <3>4
  <2> QED BY <2>1, <2>2
<1> QED BY <1>2, <1>5

\* Steps that append no entry keep the pids.
LEMMA PidsKept ==
  ASSUME LInv, Idx' = Idx, todo' = todo, \A k \in Idx : pt'[k].pid = pt[k].pid
  PROVE  UniquePids'
BY DEF LInv, LinksInv, UniquePids

LEMMA LinksRoot ==
  ASSUME LInv, LinkRoot
  PROVE  LinksInv'
<1>1. /\ cur \in Idx /\ pt \in [Idx -> Entry] /\ Idx' = Idx /\ cur \in Nat
      /\ pc = "link" /\ pc' = "link" /\ mode' = mode /\ todo' = todo /\ cur' = cur + 1
  BY DEF LInv, IInv, TypeOK, LinkRoot, Linking, Idx
<1>2. \A k \in Idx : pt'[k] = IF k = cur
                              THEN [pt[k] EXCEPT !.self = UsageSelf(cur), !.parent = cur]
                              ELSE pt[k]
  BY <1>1 DEF LinkRoot
<1>3. ASSUME NEW k \in Idx
      PROVE  /\ pt'[k].pid = pt[k].pid /\ pt'[k].ppid = pt[k].ppid
             /\ pt'[k].parent = IF k = cur THEN cur ELSE pt[k].parent
             /\ pt'[k].list = pt[k].list
  <2>1. pt[k] \in Entry
    BY <1>1
  <2>2. CASE k = cur
    <3>1. pt'[k] = [pt[k] EXCEPT !.self = UsageSelf(cur), !.parent = cur]
      BY <1>2, <2>2
    <3> QED BY <3>1, <2>1, <2>2 DEF Entry
  <2>3. CASE k # cur
    BY <1>2, <2>3
  <2> QED BY <2>2, <2>3
<1>4. UniquePids'
  BY <1>1, <1>3, PidsKept
<1>5. ASSUME mode = "all"
      PROVE  ParentsAgree' /\ ListsAgree'
  <2>1. pt'[cur].pid = pt[cur].ppid
    <3>1. pt[cur].ppid # -1
      <4>1. pt[cur].ppid \in PPids
        BY <1>1 DEF Entry
      <4> QED BY <4>1, PPidsAreNumbers
    <3>2. pt[cur].pid = pt[cur].ppid
      BY <3>1 DEF LinkRoot, IsRoot
    <3> QED BY <3>2, <1>1, <1>3
  <2>2. LinkStep(cur)
    BY <1>1, <1>3, <1>5, <2>1 DEF LinkStep, OldList
  <2> QED BY <2>2, LinkStepAgrees
<1>6. mode # "all" => ParentsAgree' /\ ListsAgree'
  BY <1>1 DEF ParentsAgree, ListsAgree, InTree
<1> QED BY <1>1, <1>4, <1>5, <1>6 DEF LInv, LinksInv

LEMMA LinksThread ==
  ASSUME LInv, LinkThread
  PROVE  LinksInv'
<1>1. /\ pt \in [Idx -> Entry] /\ Idx' = Idx /\ pt' = [pt EXCEPT ![cur].self = UsageSelf(cur)]
      /\ pc = "link" /\ pc' = "link" /\ mode' = "one" /\ todo' = todo
  BY DEF LInv, IInv, TypeOK, LinkThread, Linking, Idx
<1>2. \A k \in Idx : pt'[k].pid = pt[k].pid
  <2> SUFFICES ASSUME NEW k \in Idx PROVE pt'[k].pid = pt[k].pid
    OBVIOUS
  <2>1. pt[k] \in Entry
    BY <1>1
  <2>2. pt'[k] = IF k = cur THEN [pt[k] EXCEPT !.self = UsageSelf(cur)] ELSE pt[k]
    BY <1>1
  <2> QED BY <2>1, <2>2 DEF Entry
<1>3. UniquePids'
  BY <1>1, <1>2, PidsKept
<1> QED BY <1>1, <1>3 DEF LInv, LinksInv, ParentsAgree, ListsAgree, InTree

LEMMA LinksChild ==
  ASSUME LInv, LinkChild
  PROVE  LinksInv'
<1>1. /\ cur \in Idx /\ cur \in Nat /\ size \in Nat /\ pt \in [0 .. size-1 -> Entry]
      /\ Idx' = Idx /\ Idx = 0 .. size-1
      /\ pc = "link" /\ pc' = "link" /\ mode = "all" /\ mode' = "all"
      /\ todo' = todo /\ cur' = cur + 1
  BY DEF LInv, IInv, TypeOK, LinkChild, Linking, Idx
<1>2. PICK p \in Idx : p = Find(pt[cur].ppid, pt, size) /\ pt' = Linked(pt, p)
  BY DEF LinkChild
<1>3. pt[p].pid = pt[cur].ppid /\ p # cur
  <2>1. pt[p].pid = pt[cur].ppid
    <3>1. p # -1
      BY <1>1, <1>2
    <3> QED BY <3>1, <1>1, <1>2, FindResult
  <2> QED BY <2>1 DEF LinkChild, IsRoot
<1>4. \A k \in Idx :
        /\ pt'[k].pid = pt[k].pid /\ pt'[k].ppid = pt[k].ppid
        /\ pt'[k].parent = IF k = cur THEN p ELSE pt[k].parent
        /\ pt'[k].list = IF k = p THEN Append(pt[k].list, cur) ELSE pt[k].list
  <2>1. TypeOK /\ Linking /\ size <= size
    BY <1>1 DEF LInv, IInv, LinkChild
  <2> QED BY <2>1, <1>1, <1>2, <1>3, LinkedFields
<1>5. UniquePids'
  BY <1>1, <1>4, PidsKept
<1>6. LinkStep(p)
  BY <1>1, <1>2, <1>3, <1>4 DEF LinkStep, OldList
<1>7. ParentsAgree' /\ ListsAgree'
  BY <1>6, LinkStepAgrees
<1> QED BY <1>1, <1>5, <1>7 DEF LInv, LinksInv

LEMMA LinksOrphan ==
  ASSUME LInv, LinkOrphan
  PROVE  LinksInv'
<1> DEFINE t == [k \in 0 .. size |-> IF k = size THEN VirtualEntry(pt[cur].ppid) ELSE pt[k]]
<1>1. /\ cur \in Idx /\ cur \in Nat /\ size \in Nat /\ cur < size
      /\ pt \in [Idx -> Entry] /\ Idx = 0 .. size-1
      /\ pc = "link" /\ pc' = "link" /\ mode = "all" /\ mode' = "all"
      /\ todo = {} /\ todo' = todo /\ cur' = cur + 1 /\ size' = size + 1
      /\ TypeOK /\ Linking
  BY DEF LInv, LinksInv, IInv, TypeOK, LinkOrphan, Linking, Idx
<1>2. /\ Idx' = 0 .. size /\ Idx \subseteq Idx' /\ size \in Idx' /\ size # cur /\ size \notin Idx
      /\ \A k \in Idx' : k \in Idx \/ k = size
  BY <1>1 DEF Idx
<1>3. /\ \A k \in Idx : t[k] = pt[k]
      /\ t[size] = VirtualEntry(pt[cur].ppid)
      /\ t \in [0 .. size -> Entry]
  <2>1. VirtualEntry(pt[cur].ppid) \in Entry
    <3>1. pt[cur] \in Entry
      BY <1>1
    <3> QED BY <3>1 DEF VirtualEntry, Entry
  <2>2. \A k \in 0 .. size : t[k] \in Entry
    BY <2>1, <1>1, <1>2
  <2>3. t = [k \in 0 .. size |-> t[k]]
    OBVIOUS
  <2>4. t \in [0 .. size -> Entry]
    <3> HIDE DEF t
    <3> QED BY <2>2, <2>3
  <2> QED BY <2>4, <1>1, <1>2
<1>4. \A k \in 0 .. size :
        /\ pt'[k].pid = t[k].pid /\ pt'[k].ppid = t[k].ppid
        /\ pt'[k].parent = IF k = cur THEN size ELSE t[k].parent
        /\ pt'[k].list = IF k = size THEN Append(t[k].list, cur) ELSE t[k].list
  <2> DEFINE n == size + 1
  <2>1. /\ n \in Nat /\ size <= n /\ 0 .. n-1 = 0 .. size /\ size \in 0 .. n-1
    BY <1>1
  <2>2. pt' = Linked(t, size)
    BY DEF LinkOrphan
  <2>3. t \in [0 .. n-1 -> Entry]
    BY <2>1, <1>3
  <2> HIDE DEF t, n
  <2>4. \A k \in 0 .. n-1 :
          /\ Linked(t, size)[k].pid = t[k].pid /\ Linked(t, size)[k].ppid = t[k].ppid
          /\ Linked(t, size)[k].parent = IF k = cur THEN size ELSE t[k].parent
          /\ Linked(t, size)[k].list = IF k = size THEN Append(t[k].list, cur) ELSE t[k].list
    BY <1>1, <1>2, <2>1, <2>3, LinkedFields
  <2> QED BY <2>1, <2>2, <2>4
<1>5. pt'[size].pid = pt[cur].ppid /\ pt'[size].list = Append(<<>>, cur)
  BY <1>1, <1>2, <1>3, <1>4 DEF VirtualEntry
<1>6. \A k \in Idx : /\ pt'[k].pid = pt[k].pid /\ pt'[k].ppid = pt[k].ppid
                     /\ pt'[k].parent = IF k = cur THEN size ELSE pt[k].parent
                     /\ pt'[k].list = pt[k].list
  <2> HIDE DEF t
  <2> QED BY <1>2, <1>3, <1>4
<1>7. UniquePids'
  <2>1. \A k \in Idx : pt[k].pid # pt[cur].ppid
    <3>1. Find(pt[cur].ppid, pt, size) = -1
      BY DEF LinkOrphan
    <3>2. -1 \notin 0 .. size-1
      BY <1>1
    <3> QED BY <3>1, <3>2, <1>1, FindResult
  <2>2. \A j, k \in Idx : pt[j].pid = pt[k].pid => j = k
    BY DEF LInv, LinksInv, UniquePids
  <2>3. \A j, k \in Idx' : pt'[j].pid = pt'[k].pid => j = k
    BY <1>2, <1>5, <1>6, <2>1, <2>2
  <2> QED BY <2>3, <1>1 DEF UniquePids
<1>8. LinkStep(size)
  <2>1. \A k \in Idx' : pt'[k].list = IF k = size /\ size # cur
                                      THEN Append(OldList(k), cur) ELSE OldList(k)
    BY <1>2, <1>5, <1>6 DEF OldList
  <2> HIDE DEF t
  <2> QED BY <1>1, <1>2, <1>5, <1>6, <2>1 DEF LinkStep
<1>9. ParentsAgree' /\ ListsAgree'
  BY <1>8, LinkStepAgrees
<1> QED BY <1>1, <1>7, <1>9 DEF LInv, LinksInv

\* The walk changes no link.
LEMMA LinksFill ==
  ASSUME LInv, LinkDoneFill \/ FillChild \/ FillReturn
  PROVE  LinksInv'
<1>1. /\ pc \in {"link", "fill"} /\ pc' \in {"link", "fill"}
      /\ UNCHANGED <<mode, size, pt, todo, cur>>
  BY DEF LinkDoneFill, FillChild, FillReturn
<1>2. Idx' = Idx /\ InTree' = InTree
  BY <1>1 DEF Idx, InTree
<1>3. UniquePids'
  BY <1>1, <1>2, PidsKept
<1> QED BY <1>1, <1>2, <1>3 DEF LInv, LinksInv, ParentsAgree, ListsAgree

LEMMA LinksNext ==
  ASSUME LInv, [Next]_vars
  PROVE  LInv'
<1>1. IInv'
  BY NextInv DEF LInv
<1>2. LinksInv'
  <2>1. CASE Step
    BY <2>1, LinksBegin, LinksEnd, LinksPublish, LinksScanDone, LinksRoot, LinksThread,
       LinksChild, LinksOrphan, LinksFill DEF Step
  <2>2. CASE Begin \/ Delete
    BY <2>2, LinksBegin
  <2>3. CASE UNCHANGED vars
    <3>1. Idx' = Idx /\ InTree' = InTree /\ UNCHANGED <<pc, pt, cur, todo>>
      BY <2>3 DEF vars, Idx, InTree
    <3> QED BY <3>1 DEF LInv, LinksInv, UniquePids, ParentsAgree, ListsAgree
  <2> QED BY <2>1, <2>2, <2>3 DEF Next
<1> QED BY <1>1, <1>2 DEF LInv

\* In every state pids are unique, and the linked part of the array agrees with the ppids read
\* and with the children lists: every step of the loop keeps all three together.
THEOREM LinksInductive == Spec => []LInv
<1>1. Init => LInv
  BY InitInv, LinksInit DEF LInv
<1>2. LInv /\ [Next]_vars => LInv'
  BY LinksNext
<1> QED BY <1>1, <1>2, PTL DEF Spec

\* No pid has two entries, listed or virtual, so the first entry _findProcess meets is the one.
THEOREM PidsUnique == Spec => []UniquePids
<1>1. LInv => UniquePids
  BY DEF LInv, LinksInv
<1> QED BY <1>1, LinksInductive, PTL

\* The parent of a linked entry is the entry that has its ppid.
THEOREM ParentsRight == Spec => []ParentsAgree
<1>1. LInv => ParentsAgree
  BY DEF LInv, LinksInv
<1> QED BY <1>1, LinksInductive, PTL

\* children.list and parent are inverse to each other, and lists are increasing.
THEOREM ListsRight == Spec => []ListsAgree
<1>1. LInv => ListsAgree
  BY DEF LInv, LinksInv
<1> QED BY <1>1, LinksInductive, PTL

-----------------------------------------------------------------------------
(* The entries are collected as ProcListing promises: in the order of the  *)
(* list, each listed pid published or skipped once.                        *)

\* glob's results are there only while they are read.
ListOnlyInScan == pc # "scan" => todo = {}

SInv == IInv /\ ListOnlyInScan

LEMMA ListNext ==
  ASSUME ListOnlyInScan, [Next]_vars
  PROVE  ListOnlyInScan'
<1>1. CASE Begin \/ Delete \/ UNCHANGED vars
  BY <1>1 DEF ListOnlyInScan, Begin, Delete, vars
<1>2. CASE GlobFails \/ Glob \/ Publish \/ Skip \/ ScanEmpty \/ ScanDone
  BY <1>2 DEF ListOnlyInScan, GlobFails, Glob, Publish, Skip, ScanEmpty, ScanDone, ReturnNoTree,
     Return
<1>3. CASE LinkRoot \/ LinkThread \/ LinkChild \/ LinkOrphan
  BY <1>3 DEF ListOnlyInScan, LinkRoot, LinkThread, LinkChild, LinkOrphan, Linking
<1>4. CASE LinkDoneThreads \/ LinkDoneNoRoot \/ LinkDoneFill \/ FillDone
  BY <1>4 DEF ListOnlyInScan, LinkDoneThreads, LinkDoneNoRoot, LinkDoneFill, FillDone,
     ReturnNoTree, Return
<1>5. CASE FillChild \/ FillReturn
  BY <1>5 DEF ListOnlyInScan, FillChild, FillReturn
<1> QED BY <1>1, <1>2, <1>3, <1>4, <1>5 DEF Next, Step

\* The pid read next is the least of those that are left.
LEMMA NextPidLeast ==
  ASSUME TypeOK, todo # {}
  PROVE  Listing!IsNext(NextPid)
<1>1. todo \in SUBSET Nat
  BY PidsAssumption DEF TypeOK
<1>2. PICK m \in todo : \A n \in todo : ~(n < m)
  BY <1>1, LeastNat
<1>3. \A q \in todo : m <= q
  BY <1>1, <1>2
<1> QED BY <1>3 DEF NextPid, Listing!IsNext

\* An entry that is published comes last.
LEMMA PublishedLast ==
  ASSUME SInv, Publish
  PROVE  Collected' = Append(Collected, NextPid)
<1>1. /\ pc = "scan" /\ pc' = "scan" /\ size \in Nat /\ size' = size + 1
      /\ \A k \in Idx : pt'[k] = pt[k]
      /\ pt'[size].pid = NextPid
  BY DEF SInv, IInv, TypeOK, Publish, Idx, ReadEntry
<1> DEFINE before == [i \in 1 .. size |-> pt[i-1].pid]
           after == [i \in 1 .. size+1 |-> pt'[i-1].pid]
<1>2. Collected = before /\ Collected' = after
  BY <1>1 DEF Collected
<1>3. Append(before, NextPid) = [i \in 1 .. size+1 |-> IF i = size+1 THEN NextPid ELSE before[i]]
  BY <1>1
<1>4. \A i \in 1 .. size+1 : after[i] = IF i = size+1 THEN NextPid ELSE before[i]
  <2>1. \A i \in 1 .. size : i-1 \in Idx
    BY <1>1 DEF Idx
  <2> QED BY <1>1, <2>1
<1> QED BY <1>2, <1>3, <1>4

\* Every step lists pids, decides the next one, takes the array, or does not show.
LEMMA ScanStep ==
  ASSUME SInv, [Next]_vars
  PROVE  [Listing!Next]_(Listing!vars)
<1>1. CASE Publish
  <2>1. NextPid \in todo /\ Listing!IsNext(NextPid) /\ todo' = todo \ {NextPid}
    BY <1>1, NextPidLeft, NextPidLeast DEF SInv, IInv, Publish
  <2> QED BY <1>1, <2>1, PublishedLast DEF Listing!Next, Listing!Decide
<1>2. CASE Skip
  <2>1. NextPid \in todo /\ Listing!IsNext(NextPid) /\ todo' = todo \ {NextPid}
    BY <1>2, NextPidLeft, NextPidLeast DEF SInv, IInv, Skip
  <2>2. Collected' = Collected
    BY <1>2 DEF Skip, Collected
  <2> QED BY <2>1, <2>2 DEF Listing!Next, Listing!Decide
<1>3. CASE Glob
  <2>1. /\ pc = "glob" /\ pc' = "scan" /\ size = 0 /\ size' = 0 /\ todo = {}
        /\ todo' \in SUBSET Pids \ {{}}
    BY <1>3 DEF Glob, SInv, ListOnlyInScan, IInv, PhaseInv
  <2>2. Collected = <<>> /\ Collected' = <<>>
    <3>1. Collected' = [i \in 1 .. 0 |-> pt'[i-1].pid]
      BY <2>1 DEF Collected
    <3> QED BY <2>1, <3>1 DEF Collected
  <2> QED BY <2>1, <2>2 DEF Listing!Next, Listing!List
<1>4. CASE ScanEmpty \/ ScanDone
  <2>1. todo = {} /\ todo' = {} /\ pc' # "scan"
    BY <1>4 DEF ScanEmpty, ScanDone, ReturnNoTree, Return
  <2> QED BY <2>1 DEF Listing!Next, Listing!Take, Collected
<1>5. ASSUME pc # "scan", pc' # "scan"
      PROVE  UNCHANGED Listing!vars
  <2>1. todo = {} /\ todo' = {}
    BY <1>5, ListNext DEF SInv, ListOnlyInScan
  <2> QED BY <1>5, <2>1 DEF Listing!vars, Collected
<1>6. CASE UNCHANGED vars
  BY <1>6 DEF vars, Listing!vars, Collected
<1>7. CASE Begin \/ GlobFails
  BY <1>5, <1>7 DEF Begin, GlobFails, ReturnNoTree, Return
<1>8. CASE LinkRoot \/ LinkThread \/ LinkChild \/ LinkOrphan
  BY <1>5, <1>8 DEF LinkRoot, LinkThread, LinkChild, LinkOrphan, Linking
<1>9. CASE LinkDoneThreads \/ LinkDoneNoRoot \/ LinkDoneFill \/ FillDone
  BY <1>5, <1>9 DEF LinkDoneThreads, LinkDoneNoRoot, LinkDoneFill, FillDone, ReturnNoTree, Return
<1>10. CASE FillChild \/ FillReturn \/ Delete
  BY <1>5, <1>10 DEF FillChild, FillReturn, Delete
<1> QED BY <1>1, <1>2, <1>3, <1>4, <1>6, <1>7, <1>8, <1>9, <1>10 DEF Next, Step

\* ProcessTree implements the safety part of ProcListing: whatever is listed and whatever
\* fails, the entries collected are listed pids in their order, each decided once.
THEOREM ScanInOrder == Spec => Listing!Safety
<1>1. Init => Listing!Init /\ ListOnlyInScan
  BY DEF Init, Listing!Init, Collected, ListOnlyInScan
<1>2. ListOnlyInScan /\ [Next]_vars => ListOnlyInScan'
  BY ListNext
<1>3. IInv /\ ListOnlyInScan /\ [Next]_vars => [Listing!Next]_(Listing!vars)
  BY ScanStep DEF SInv
<1> QED BY <1>1, <1>2, <1>3, Inductive, PTL DEF Spec, Listing!Safety

-----------------------------------------------------------------------------
(* _fillProcessTree never meets an entry twice and never leaves the array, whatever ppids *)
(* were read.                                                                             *)

\* Whatever is visited was reached through its parent, so nothing below an entry that is not
\* visited is; and no entry has two activations.
WalkInv ==
  /\ FillWalksTree
  /\ pc = "fill" =>
       /\ \A k \in Idx : agg[k].visited /\ k # root => agg[pt[k].parent].visited
       /\ \A i, j \in DOMAIN stack : stack[i].idx = stack[j].idx => i = j

WInv == LInv /\ WalkInv

\* Every entry is linked and there is a root.
AllLinked == pc \in {"link", "fill"} /\ mode = "all" /\ cur = size /\ root # -1

LEMMA FillAllLinked ==
  ASSUME LInv, pc = "fill"
  PROVE  AllLinked /\ agg \in [Idx -> Totals]
BY DEF LInv, IInv, PhaseInv, AllLinked

\* What the links say then.
LEMMA RootLinked ==
  ASSUME LInv, AllLinked
  PROVE  root \in Idx /\ pt[root].parent = root
<1>1. size \in Nat /\ cur = size /\ InTree /\ root # -1
  BY DEF LInv, IInv, TypeOK, AllLinked, InTree
<1>2. ~ \E k \in cur .. size-1 : IsRoot(k)
  BY <1>1
<1>3. root \in 0 .. cur-1 /\ pt[root].parent = root
  BY <1>1, <1>2 DEF LInv, IInv, RootPending
<1> QED BY <1>1, <1>3 DEF Idx

LEMMA ChildLinked ==
  ASSUME LInv, AllLinked, NEW p \in Idx, NEW i \in 1 .. Len(pt[p].list)
  PROVE  /\ pt[p].list[i] \in Idx /\ pt[p].list[i] # p /\ pt[p].list[i] # root
         /\ pt[pt[p].list[i]].parent = p
<1>1. InTree /\ Idx = 0 .. cur-1
  BY DEF AllLinked, InTree, Idx
<1>2. pt[p].list[i] \in Idx /\ pt[p].list[i] # p /\ pt[pt[p].list[i]].parent = p
  BY <1>1 DEF LInv, LinksInv, ListsAgree
<1> QED BY <1>2, RootLinked

LEMMA LaterChild ==
  ASSUME LInv, AllLinked, NEW p \in Idx,
         NEW i \in 1 .. Len(pt[p].list), NEW j \in 1 .. Len(pt[p].list), i < j
  PROVE  pt[p].list[i] # pt[p].list[j]
<1>1. InTree
  BY DEF AllLinked, InTree
<1>2. pt[p].list[i] < pt[p].list[j]
  BY <1>1 DEF LInv, LinksInv, ListsAgree
<1>3. pt[p].list \in Seq(Nat)
  BY DEF LInv, IInv, TypeOK, Entry
<1>4. pt[p].list[i] \in Nat
  BY <1>3
<1> QED BY <1>2, <1>4

\* The stack after a call: the caller's frame has moved on, the new frame is on top.
LEMMA PushFacts ==
  ASSUME NEW S, NEW s \in Seq(S), s # <<>>, NEW x \in S, NEW y \in S,
         NEW b, b = Append(Append(SubSeq(s, 1, Len(s) - 1), x), y)
  PROVE  /\ Len(s) \in Nat \ {0} /\ DOMAIN b = 1 .. Len(s) + 1
         /\ \A i \in 1 .. Len(s) : b[i] = IF i = Len(s) THEN x ELSE s[i]
         /\ b[Len(s)+1] = y
<1> DEFINE u == SubSeq(s, 1, Len(s) - 1)
           v == Append(u, x)
<1>1. Len(s) \in Nat \ {0} /\ u \in Seq(S)
  BY SeqEnds
<1>2. Len(u) = Len(s) - 1 /\ \A i \in 1 .. Len(s)-1 : u[i] = s[i]
  <2>1. 1 \in Int /\ Len(s) - 1 \in Int /\ \A i \in 1 .. Len(s)-1 : s[i] \in S
    BY <1>1
  <2>2. /\ Len(u) = IF 1 <= Len(s) - 1 THEN Len(s) - 1 - 1 + 1 ELSE 0
        /\ \A i \in 1 .. Len(s) - 1 - 1 + 1 : u[i] = s[1 + i - 1]
    <3> HIDE DEF u
    <3> QED BY <2>1, SubSeqProperties DEF u
  <2> HIDE DEF u
  <2>3. Len(u) = Len(s) - 1
    <3>1. CASE Len(s) = 1
      BY <3>1, <2>2
    <3>2. CASE Len(s) # 1
      <4>1. 1 <= Len(s) - 1 /\ Len(s) - 1 - 1 + 1 = Len(s) - 1
        <5>1. \A n \in Nat \ {0} : n # 1 => 1 <= n - 1 /\ n - 1 - 1 + 1 = n - 1
          OBVIOUS
        <5>2. Len(s) \in Nat \ {0}
          BY <1>1
        <5> HIDE DEF u
        <5> QED BY <5>1, <5>2, <3>2
      <4> QED BY <4>1, <2>2
    <3> QED BY <3>1, <3>2
  <2>4. ASSUME NEW i \in 1 .. Len(s)-1 PROVE u[i] = s[i]
    <3>1. i \in 1 .. Len(s) - 1 - 1 + 1 /\ 1 + i - 1 = i
      BY <1>1
    <3> QED BY <3>1, <2>2
  <2> QED BY <2>3, <2>4
<1>3. v \in Seq(S) /\ Len(v) = Len(s) /\ v[Len(s)] = x /\ \A i \in 1 .. Len(s)-1 : v[i] = s[i]
  <2> HIDE DEF u
  <2>1. v \in Seq(S) /\ Len(v) = Len(u) + 1 /\ v[Len(u)+1] = x
        /\ \A i \in 1 .. Len(u) : v[i] = u[i]
    BY <1>1, AppendProperties
  <2> HIDE DEF v
  <2> QED BY <1>1, <1>2, <2>1
<1>5. b = Append(v, y)
  BY DEF u, v
<1> HIDE DEF v
<1>6. /\ b \in Seq(S) /\ Len(b) = Len(v) + 1 /\ b[Len(v)+1] = y
      /\ \A i \in 1 .. Len(v) : b[i] = v[i]
  BY <1>3, <1>5, AppendProperties
<1> QED BY <1>1, <1>3, <1>6

\* Entering an entry marks it, and no other.
LEMMA EnteredFacts ==
  ASSUME NEW a \in [Idx -> Totals], NEW k \in Idx
  PROVE  \A j \in Idx : Entered(a, k)[j].visited <=> (j = k \/ a[j].visited)
BY DEF Entered, Totals

LEMMA WalkStarts ==
  ASSUME WInv, LinkDoneFill
  PROVE  WalkInv'
<1>1. AllLinked /\ root \in Idx /\ pt[root].parent = root /\ LInv
  <2>1. AllLinked /\ LInv
    BY DEF LinkDoneFill, AllLinked, WInv
  <2> QED BY <2>1, RootLinked
<1>2. UNCHANGED <<pt, size, root>> /\ Idx' = Idx
  BY DEF LinkDoneFill, Idx
<1> DEFINE a == [k \in Idx |-> ZeroTotals]
<1>3. a \in [Idx -> Totals] /\ \A k \in Idx : ~a[k].visited
  BY DEF ZeroTotals, Totals
<1>4. agg' = Entered(a, root) /\ stack' = Append(<<>>, [idx |-> root, next |-> 1])
  <2>1. Call(a, <<>>, root)
    BY DEF LinkDoneFill
  <2> HIDE DEF a
  <2> QED BY <1>1, <1>3, <2>1 DEF Call
<1>5. \A j \in Idx : agg'[j].visited <=> j = root
  <2> HIDE DEF a
  <2> QED BY <1>1, <1>3, <1>4, EnteredFacts
<1>6. DOMAIN stack' = {1} /\ stack'[1].idx = root /\ stack'[1].next = 1
  BY <1>4
<1>7. \A j \in 1 .. Len(pt[root].list) : pt[root].list[j] \in Idx /\ pt[root].list[j] # root
  BY <1>1, ChildLinked
<1> QED BY <1>1, <1>2, <1>5, <1>6, <1>7 DEF WalkInv, FillWalksTree

\* The running activation and the child that FillChild calls it for.
TopIdx == stack[Len(stack)].idx
TopNext == stack[Len(stack)].next
NextKid == pt[TopIdx].list[TopNext]

\* What a call changes: the child is entered, the frame of its parent moves on and a frame of
\* its own comes on top.
ChildStep(n, f, m, c) ==
  /\ LInv /\ AllLinked /\ agg \in [Idx -> Totals] /\ pc = "fill"
  /\ UNCHANGED <<pt, size, root>> /\ Idx' = Idx
  /\ n \in Nat \ {0} /\ DOMAIN stack = 1 .. n /\ n \in DOMAIN stack
  /\ \A i \in 1 .. n : stack[i] \in [idx: Idx, next: Nat \ {0}]
  /\ stack[n].idx = f /\ stack[n].next = m /\ pt[f].list[m] = c
  /\ f \in Idx /\ m \in Nat \ {0} /\ m <= Len(pt[f].list) /\ Len(pt[f].list) \in Nat
  /\ m \in 1 .. Len(pt[f].list)
  /\ c \in Idx /\ c # f /\ c # root /\ pt[c].parent = f
  /\ ~agg[c].visited /\ agg[f].visited
  /\ agg' = Entered(agg, c)
  /\ DOMAIN stack' = 1 .. n+1
  /\ \A i \in 1 .. n-1 : stack'[i] = stack[i]
  /\ stack'[n].idx = f /\ stack'[n].next = m + 1
  /\ stack'[n+1].idx = c /\ stack'[n+1].next = 1
  /\ \A j \in Idx : agg'[j].visited <=> (j = c \/ agg[j].visited)
  /\ \A i \in 1 .. n : stack'[i].idx = stack[i].idx /\ stack[i].idx \in Idx

LEMMA ChildFacts ==
  ASSUME WInv, FillChild
  PROVE  ChildStep(Len(stack), TopIdx, TopNext, NextKid)
<1> DEFINE n == Len(stack)
           f == stack[n].idx
           m == stack[n].next
           c == pt[f].list[m]
           Frame == [idx: Idx, next: Nat \ {0}]
<1>1. /\ LInv /\ AllLinked /\ agg \in [Idx -> Totals] /\ pc = "fill"
      /\ stack \in Seq(Frame) /\ stack # <<>>
  <2>1. LInv /\ pc = "fill" /\ stack # <<>>
    BY DEF WInv, FillChild
  <2>2. stack \in Seq(Frame)
    BY DEF WInv, LInv, IInv, TypeOK
  <2> QED BY <2>1, <2>2, FillAllLinked
<1>2. UNCHANGED <<pt, size, root>> /\ Idx' = Idx
  BY DEF FillChild, Idx
<1>0. n \in Nat \ {0}
  <2> HIDE DEF Frame
  <2> QED BY <1>1, SeqEnds
<1>3. n \in DOMAIN stack /\ DOMAIN stack = 1 .. n /\ \A i \in 1 .. n : stack[i] \in Frame
  <2> HIDE DEF Frame
  <2>1. DOMAIN stack = 1 .. n /\ \A i \in 1 .. n : stack[i] \in Frame
    BY <1>1
  <2> QED BY <2>1, <1>0
<1>4. f \in Idx /\ m \in Nat \ {0} /\ m <= Len(pt[f].list) /\ Len(pt[f].list) \in Nat
      /\ m \in 1 .. Len(pt[f].list)
  <2>1. f \in Idx /\ m \in Nat \ {0}
    BY <1>0, <1>3
  <2>2. pt[f].list \in Seq(Nat)
    BY <2>1 DEF WInv, LInv, IInv, TypeOK, Entry
  <2>3. Len(pt[f].list) \in Nat
    BY <2>2
  <2>4. m <= Len(pt[f].list)
    BY DEF FillChild, Top
  <2> QED BY <2>1, <2>3, <2>4
<1>5. c \in Idx /\ c # f /\ c # root /\ pt[c].parent = f
  BY <1>1, <1>4, ChildLinked
<1>6. \A i \in 1 .. n :
        /\ agg[stack[i].idx].visited
        /\ pt[stack[i].idx].parent = IF i = 1 THEN root ELSE stack[i-1].idx
        /\ \A j \in stack[i].next .. Len(pt[stack[i].idx].list) :
             pt[stack[i].idx].list[j] \in Idx /\ ~agg[pt[stack[i].idx].list[j]].visited
  BY <1>1, <1>3 DEF WInv, WalkInv, FillWalksTree
<1>8. ~agg[c].visited /\ agg[f].visited
  <2>1. m \in stack[n].next .. Len(pt[stack[n].idx].list) /\ n \in 1 .. n
    BY <1>0, <1>4
  <2> QED BY <2>1, <1>6
<1>9. /\ agg' = Entered(agg, c)
      /\ stack' = Append(Append(SubSeq(stack, 1, n - 1), [stack[n] EXCEPT !.next = @ + 1]),
                         [idx |-> c, next |-> 1])
  <2>1. Call(agg, Append(SubSeq(stack, 1, n - 1), [stack[n] EXCEPT !.next = @ + 1]), c)
    BY DEF FillChild, Top, Below
  <2> QED BY <2>1, <1>8 DEF Call
<1>10. /\ DOMAIN stack' = 1 .. n+1
       /\ \A i \in 1 .. n-1 : stack'[i] = stack[i]
       /\ stack'[n].idx = f /\ stack'[n].next = m + 1
       /\ stack'[n+1].idx = c /\ stack'[n+1].next = 1
  <2> DEFINE x == [stack[n] EXCEPT !.next = @ + 1]
             y == [idx |-> c, next |-> 1]
  <2>1. x \in Frame /\ x.idx = f /\ x.next = m + 1
    <3>1. stack[n] \in Frame
      BY <1>0, <1>3
    <3> QED BY <3>1
  <2>4. y \in Frame /\ y.idx = c /\ y.next = 1
    <3> HIDE DEF c
    <3> QED BY <1>5
  <2>2. stack' = Append(Append(SubSeq(stack, 1, Len(stack) - 1), x), y)
    BY <1>9
  <2> HIDE DEF x, y, Frame, c
  <2>3. /\ DOMAIN stack' = 1 .. n+1
        /\ \A i \in 1 .. n-1 : stack'[i] = stack[i]
        /\ stack'[n] = x /\ stack'[n+1] = y
    <3> HIDE DEF f, m, c, x, y, Frame
    <3>1. stack \in Seq(Frame) /\ stack # <<>> /\ x \in Frame /\ y \in Frame
      BY <1>1, <2>1, <2>4
    <3> HIDE DEF n
    <3>2. Len(stack) \in Nat \ {0} /\ DOMAIN stack' = 1 .. Len(stack) + 1
      BY <3>1, <2>2, PushFacts
    <3>3. \A i \in 1 .. Len(stack) : stack'[i] = IF i = Len(stack) THEN x ELSE stack[i]
      BY <3>1, <2>2, PushFacts
    <3>4. stack'[Len(stack)+1] = y
      BY <3>1, <2>2, PushFacts
    <3> QED BY <3>2, <3>3, <3>4 DEF n
  <2> HIDE DEF n, f, m
  <2> QED BY <2>1, <2>4, <2>3
<1>11. \A j \in Idx : agg'[j].visited <=> (j = c \/ agg[j].visited)
  <2> HIDE DEF c
  <2> QED BY <1>1, <1>5, <1>9, EnteredFacts
<1>13. \A i \in 1 .. n : stack'[i].idx = stack[i].idx /\ stack[i].idx \in Idx
  <2> SUFFICES ASSUME NEW i \in 1 .. n
               PROVE  stack'[i].idx = stack[i].idx /\ stack[i].idx \in Idx
    OBVIOUS
  <2>1. stack[i].idx \in Idx
    BY <1>3
  <2>2. CASE i = n
    BY <2>1, <2>2, <1>10
  <2>3. CASE i # n
    <3>1. i \in 1 .. n-1
      <4> HIDE DEF n
      <4> QED BY <1>0, <2>3
    <3> QED BY <2>1, <3>1, <1>10
  <2> QED BY <2>2, <2>3
<1> QED
  <2> HIDE DEF Frame
  <2>1. TopIdx = f /\ TopNext = m /\ NextKid = c /\ Len(stack) = n
    BY DEF TopIdx, TopNext, NextKid
  <2>2. ChildStep(n, f, m, c)
    <3>1. /\ \A i \in 1 .. n : stack[i] \in [idx: Idx, next: Nat \ {0}]
          /\ stack[n].idx = f /\ stack[n].next = m /\ pt[f].list[m] = c
      BY <1>3 DEF Frame
    <3> HIDE DEF n, f, m, c
    <3> QED BY <3>1, <1>0, <1>1, <1>2, <1>3, <1>4, <1>5, <1>8, <1>9, <1>10, <1>11, <1>13 DEF ChildStep
  <2> QED BY <2>1, <2>2

LEMMA WalkChild ==
  ASSUME WInv, FillChild
  PROVE  WalkInv'
<1> DEFINE n == Len(stack)
           f == TopIdx
           m == TopNext
           c == NextKid
<1> HIDE DEF n, f, m, c
<1>18. ChildStep(n, f, m, c)
  BY ChildFacts DEF n, f, m, c
<1>0. n \in Nat \ {0} /\ \A i \in 1 .. n+1 : i \in 1 .. n-1 \/ i = n \/ i = n+1
  BY <1>18 DEF ChildStep
<1>1. LInv /\ AllLinked /\ pc = "fill"
  BY <1>18 DEF ChildStep
<1>2. UNCHANGED <<pt, size, root>> /\ Idx' = Idx
  BY <1>18 DEF ChildStep
<1>3. /\ DOMAIN stack = 1 .. n /\ \A i \in 1 .. n : stack[i] \in [idx: Idx, next: Nat \ {0}]
      /\ stack[n].idx = f /\ stack[n].next = m /\ pt[f].list[m] = c
  BY <1>18 DEF ChildStep
<1>4. f \in Idx /\ m \in 1 .. Len(pt[f].list) /\ Len(pt[f].list) \in Nat
  BY <1>18 DEF ChildStep
<1>5. c \in Idx /\ c # f /\ c # root /\ pt[c].parent = f
  BY <1>18 DEF ChildStep
<1>6. \A i \in 1 .. n :
        /\ agg[stack[i].idx].visited
        /\ pt[stack[i].idx].parent = IF i = 1 THEN root ELSE stack[i-1].idx
        /\ \A j \in stack[i].next .. Len(pt[stack[i].idx].list) :
             pt[stack[i].idx].list[j] \in Idx /\ ~agg[pt[stack[i].idx].list[j]].visited
  BY <1>1, <1>3 DEF WInv, WalkInv, FillWalksTree
<1>7. /\ \A k \in Idx : agg[k].visited /\ k # root => agg[pt[k].parent].visited
      /\ \A i, j \in 1 .. n : stack[i].idx = stack[j].idx => i = j
  BY <1>1, <1>3 DEF WInv, WalkInv
<1>8. ~agg[c].visited /\ agg[f].visited
  BY <1>18 DEF ChildStep
<1>10. /\ DOMAIN stack' = 1 .. n+1
       /\ \A i \in 1 .. n-1 : stack'[i] = stack[i]
       /\ stack'[n].idx = f /\ stack'[n].next = m + 1
       /\ stack'[n+1].idx = c /\ stack'[n+1].next = 1
  BY <1>18 DEF ChildStep
<1>11. \A j \in Idx : agg'[j].visited <=> (j = c \/ agg[j].visited)
  BY <1>18 DEF ChildStep
<1>13. \A i \in 1 .. n : stack'[i].idx = stack[i].idx /\ stack[i].idx \in Idx
  BY <1>18 DEF ChildStep
<1>14. ASSUME NEW i \in 1 .. n+1
       PROVE  /\ agg'[stack'[i].idx].visited
              /\ pt[stack'[i].idx].parent = IF i = 1 THEN root ELSE stack'[i-1].idx
  <2>1. CASE i \in 1 .. n
    <3>1. i # 1 => i-1 \in 1 .. n
      BY <2>1, <1>0
    <3> QED BY <2>1, <3>1, <1>6, <1>11, <1>13
  <2>2. CASE i = n+1
    <3>1. i # 1 /\ i-1 = n
      BY <2>2, <1>0
    <3> QED BY <2>2, <3>1, <1>5, <1>10, <1>11
  <2> QED BY <2>1, <2>2, <1>0
<1>15. ASSUME NEW i \in 1 .. n+1, NEW j \in stack'[i].next .. Len(pt[stack'[i].idx].list)
       PROVE  pt[stack'[i].idx].list[j] \in Idx /\ ~agg'[pt[stack'[i].idx].list[j]].visited
  <2>1. CASE i \in 1 .. n-1
    <3>1. i \in 1 .. n /\ n \in 1 .. n /\ i # n /\ stack'[i] = stack[i] /\ stack[i].idx \in Idx
      BY <2>1, <1>0, <1>10, <1>13
    <3> DEFINE d == pt[stack[i].idx].list[j]
    <3>2. d \in Idx /\ ~agg[d].visited
      BY <3>1, <1>6
    <3>3. stack[i].next \in Nat \ {0} /\ Len(pt[stack[i].idx].list) \in Nat
      <4>1. stack[i].next \in Nat \ {0}
        BY <1>3, <3>1
      <4>2. pt[stack[i].idx].list \in Seq(Nat)
        BY <3>1 DEF WInv, LInv, IInv, TypeOK, Entry
      <4> QED BY <4>1, <4>2
    <3>4. j \in 1 .. Len(pt[stack[i].idx].list)
      BY <3>1, <3>3
    <3>5. pt[d].parent = stack[i].idx
      BY <1>1, <3>1, <3>4, ChildLinked
    <3>6. stack[i].idx # f
      BY <3>1, <1>3, <1>7
    <3>7. d # c
      BY <3>5, <3>6, <1>5
    <3> QED BY <3>1, <3>2, <3>7, <1>11
  <2>2. CASE i = n
    <3>1. stack'[i].idx = f /\ j \in m+1 .. Len(pt[f].list)
      BY <2>2, <1>10
    <3>2. j \in 1 .. Len(pt[f].list) /\ m < j /\ j \in m .. Len(pt[f].list)
      BY <3>1, <1>4
    <3>3. pt[f].list[j] \in Idx /\ ~agg[pt[f].list[j]].visited
      <4>1. n \in 1 .. n
        BY <1>0
      <4> QED BY <4>1, <3>2, <1>3, <1>6
    <3>4. pt[f].list[j] # c
      BY <3>2, <1>1, <1>3, <1>4, LaterChild
    <3> QED BY <3>1, <3>3, <3>4, <1>11
  <2>3. CASE i = n+1
    <3>1. stack'[i].idx = c /\ j \in 1 .. Len(pt[c].list)
      BY <2>3, <1>10
    <3> DEFINE d == pt[c].list[j]
    <3>2. d \in Idx /\ d # c /\ d # root /\ pt[d].parent = c
      BY <3>1, <1>1, <1>5, ChildLinked
    <3>3. ~agg[d].visited
      BY <3>2, <1>7, <1>8
    <3> QED BY <3>1, <3>2, <3>3, <1>11
  <2> QED BY <2>1, <2>2, <2>3, <1>0
<1>16. \A k \in Idx : agg'[k].visited /\ k # root => agg'[pt[k].parent].visited
  <2> SUFFICES ASSUME NEW k \in Idx, agg'[k].visited, k # root
               PROVE  agg'[pt[k].parent].visited
    OBVIOUS
  <2>1. CASE k = c
    BY <2>1, <1>4, <1>5, <1>8, <1>11
  <2>2. CASE k # c
    <3>1. agg[pt[k].parent].visited
      BY <2>2, <1>7, <1>11
    <3>2. pt[k].parent \in Idx
      <4>1. InTree /\ k \in 0 .. cur-1
        BY <1>1 DEF AllLinked, InTree, Idx
      <4> QED BY <4>1 DEF WInv, LInv, LinksInv, ParentsAgree
    <3> QED BY <3>1, <3>2, <1>11
  <2> QED BY <2>1, <2>2
<1>17. \A i, j \in 1 .. n+1 : stack'[i].idx = stack'[j].idx => i = j
  <2>1. \A i \in 1 .. n : stack'[i].idx = stack[i].idx /\ stack[i].idx # c
    BY <1>6, <1>8, <1>13
  <2>2. stack'[n+1].idx = c
    BY <1>10
  <2>3. \A i \in 1 .. n+1 : i \in 1 .. n \/ i = n+1
    BY <1>0
  <2> QED BY <2>1, <2>2, <2>3, <1>7
<1> QED BY <1>2, <1>10, <1>14, <1>15, <1>16, <1>17 DEF WalkInv, FillWalksTree

\* What a return changes: the sums of the parent, and the frame on top is gone.
ReturnStep(n, k) ==
  /\ LInv /\ AllLinked /\ agg \in [Idx -> Totals] /\ pc = "fill"
  /\ UNCHANGED <<pt, size, root>> /\ Idx' = Idx
  /\ n \in Nat \ {0} /\ DOMAIN stack = 1 .. n
  /\ \A i \in 1 .. n : stack[i] \in [idx: Idx, next: Nat \ {0}]
  /\ stack[n].idx = k /\ stack[n].next > Len(pt[k].list)
  /\ DOMAIN stack' = 1 .. n-1 /\ \A i \in 1 .. n-1 : stack'[i] = stack[i]
  /\ agg' = IF pt[k].parent # -1 /\ pt[k].parent # k
            THEN [agg EXCEPT ![pt[k].parent] = WithChild(@, agg, k)] ELSE agg
  /\ \A j \in Idx : agg'[j].visited = agg[j].visited

LEMMA ReturnFacts ==
  ASSUME WInv, FillReturn
  PROVE  ReturnStep(Len(stack), TopIdx)
<1> DEFINE n == Len(stack)
           k == stack[n].idx
           Frame == [idx: Idx, next: Nat \ {0}]
<1>1. /\ LInv /\ AllLinked /\ agg \in [Idx -> Totals] /\ pc = "fill"
      /\ stack \in Seq(Frame) /\ stack # <<>>
  <2>1. LInv /\ pc = "fill" /\ stack # <<>>
    BY DEF WInv, FillReturn
  <2>2. stack \in Seq(Frame)
    BY DEF WInv, LInv, IInv, TypeOK
  <2> QED BY <2>1, <2>2, FillAllLinked
<1>2. UNCHANGED <<pt, size, root>> /\ Idx' = Idx
  BY DEF FillReturn, Idx
<1>3. n \in Nat \ {0} /\ DOMAIN stack = 1 .. n
  <2> HIDE DEF Frame
  <2> QED BY <1>1, SeqEnds
<1>4. DOMAIN stack' = 1 .. n-1 /\ \A i \in 1 .. n-1 : stack'[i] = stack[i]
  <2>1. stack' = SubSeq(stack, 1, n - 1)
    BY DEF FillReturn, Below
  <2>2. \A i \in 1 .. n-1 : stack[i] \in Frame
    <3> HIDE DEF Frame
    <3> QED BY <1>1, <1>3
  <2> HIDE DEF Frame, n
  <2> QED BY <1>1, <1>3, <2>1, <2>2
<1>5. \A j \in Idx : agg'[j].visited = agg[j].visited
  <2> SUFFICES ASSUME NEW j \in Idx PROVE agg'[j].visited = agg[j].visited
    OBVIOUS
  <2> DEFINE p == pt[k].parent
  <2>1. agg' = IF p # -1 /\ p # k THEN [agg EXCEPT ![p] = WithChild(@, agg, k)] ELSE agg
    BY DEF FillReturn, Top
  <2>2. WithChild(agg[p], agg, k).visited = agg[p].visited \/ p \notin Idx
    <3> HIDE DEF p, k
    <3> QED BY <1>1 DEF WithChild, Totals
  <2> HIDE DEF p, k
  <2> QED BY <1>1, <2>1, <2>2
<1> QED
  <2>1. /\ agg' = IF pt[k].parent # -1 /\ pt[k].parent # k
                  THEN [agg EXCEPT ![pt[k].parent] = WithChild(@, agg, k)] ELSE agg
        /\ stack[n].next > Len(pt[k].list) /\ stack[n].idx = k
    BY DEF FillReturn, Top
  <2>2. \A i \in 1 .. n : stack[i] \in [idx: Idx, next: Nat \ {0}]
    <3> HIDE DEF Frame
    <3>1. \A i \in 1 .. n : stack[i] \in Frame
      BY <1>1, <1>3
    <3> QED BY <3>1 DEF Frame
  <2>3. TopIdx = k /\ Len(stack) = n
    BY DEF TopIdx
  <2> HIDE DEF n, k, Frame
  <2>4. ReturnStep(n, k)
    BY <2>1, <2>2, <1>1, <1>2, <1>3, <1>4, <1>5 DEF ReturnStep
  <2> QED BY <2>3, <2>4

LEMMA WalkReturn ==
  ASSUME WInv, FillReturn
  PROVE  WalkInv'
<1> DEFINE n == Len(stack)
<1> HIDE DEF n
<1>11. ReturnStep(n, TopIdx)
  BY ReturnFacts DEF n
<1>1. LInv /\ AllLinked /\ pc = "fill"
  BY <1>11 DEF ReturnStep
<1>2. UNCHANGED <<pt, size, root>> /\ Idx' = Idx
  BY <1>11 DEF ReturnStep
<1>3. n \in Nat \ {0} /\ DOMAIN stack = 1 .. n
  BY <1>11 DEF ReturnStep
<1>4. DOMAIN stack' = 1 .. n-1 /\ \A i \in 1 .. n-1 : stack'[i] = stack[i]
  BY <1>11 DEF ReturnStep
<1>5. \A j \in Idx : agg'[j].visited = agg[j].visited
  BY <1>11 DEF ReturnStep
<1>6. \A i \in 1 .. n-1 : i \in 1 .. n /\ (i # 1 => i-1 \in 1 .. n-1)
  BY <1>3
<1>7. \A i \in 1 .. n :
        /\ stack[i].idx \in Idx
        /\ agg[stack[i].idx].visited
        /\ pt[stack[i].idx].parent = IF i = 1 THEN root ELSE stack[i-1].idx
        /\ \A j \in stack[i].next .. Len(pt[stack[i].idx].list) :
             pt[stack[i].idx].list[j] \in Idx /\ ~agg[pt[stack[i].idx].list[j]].visited
  <2>1. \A i \in 1 .. n : stack[i].idx \in Idx
    BY <1>11 DEF ReturnStep
  <2> QED BY <1>1, <1>3, <2>1 DEF WInv, WalkInv, FillWalksTree
<1>8. ASSUME NEW i \in 1 .. n-1
      PROVE  /\ agg'[stack'[i].idx].visited
             /\ pt[stack'[i].idx].parent = IF i = 1 THEN root ELSE stack'[i-1].idx
             /\ \A j \in stack'[i].next .. Len(pt[stack'[i].idx].list) :
                  /\ pt[stack'[i].idx].list[j] \in Idx
                  /\ ~agg'[pt[stack'[i].idx].list[j]].visited
  <2>1. stack'[i] = stack[i] /\ i \in 1 .. n /\ (i # 1 => stack'[i-1] = stack[i-1])
    BY <1>4, <1>6
  <2>2. /\ stack[i].idx \in Idx
        /\ agg[stack[i].idx].visited
        /\ pt[stack[i].idx].parent = IF i = 1 THEN root ELSE stack[i-1].idx
        /\ \A j \in stack[i].next .. Len(pt[stack[i].idx].list) :
             pt[stack[i].idx].list[j] \in Idx /\ ~agg[pt[stack[i].idx].list[j]].visited
    BY <1>7, <2>1
  <2>3. \A j \in stack'[i].next .. Len(pt[stack'[i].idx].list) :
          /\ pt[stack'[i].idx].list[j] \in Idx
          /\ ~agg'[pt[stack'[i].idx].list[j]].visited
    BY <1>5, <2>1, <2>2
  <2> QED BY <1>5, <2>1, <2>2, <2>3
<1>9. \A j \in Idx : agg'[j].visited /\ j # root => agg'[pt[j].parent].visited
  <2> SUFFICES ASSUME NEW j \in Idx, agg'[j].visited, j # root
               PROVE  agg'[pt[j].parent].visited
    OBVIOUS
  <2>1. agg[pt[j].parent].visited
    BY <1>1, <1>5 DEF WInv, WalkInv
  <2>2. pt[j].parent \in Idx
    <3>1. InTree /\ j \in 0 .. cur-1
      BY <1>1 DEF AllLinked, InTree, Idx
    <3> QED BY <3>1 DEF WInv, LInv, LinksInv, ParentsAgree
  <2> QED BY <2>1, <2>2, <1>5
<1>10. \A i, j \in 1 .. n-1 : stack'[i].idx = stack'[j].idx => i = j
  <2>1. \A i, j \in 1 .. n : stack[i].idx = stack[j].idx => i = j
    BY <1>1, <1>3 DEF WInv, WalkInv
  <2> QED BY <2>1, <1>4, <1>6
<1> QED BY <1>2, <1>4, <1>8, <1>9, <1>10 DEF WalkInv, FillWalksTree

\* The other steps are not part of the walk.
LEMMA FillElsewhere ==
  ASSUME Next, ~LinkDoneFill, ~FillChild, ~FillReturn
  PROVE  pc' # "fill"
<1>1. CASE Begin
  BY <1>1 DEF Begin
<1>2. CASE Delete
  BY <1>2 DEF Delete
<1>3. CASE GlobFails \/ ScanEmpty \/ LinkDoneThreads \/ LinkDoneNoRoot \/ FillDone
  BY <1>3 DEF GlobFails, ScanEmpty, LinkDoneThreads, LinkDoneNoRoot, FillDone,
              ReturnNoTree, Return
<1>4. CASE Glob \/ Publish \/ Skip \/ ScanDone
  BY <1>4 DEF Glob, Publish, Skip, ScanDone
<1>5. CASE LinkRoot \/ LinkThread \/ LinkChild \/ LinkOrphan
  BY <1>5 DEF LinkRoot, LinkThread, LinkChild, LinkOrphan, Linking
<1> QED BY <1>1, <1>2, <1>3, <1>4, <1>5 DEF Next, Step

LEMMA WalkOther ==
  ASSUME WInv, Next, ~LinkDoneFill, ~FillChild, ~FillReturn
  PROVE  WalkInv'
BY FillElsewhere DEF WalkInv, FillWalksTree

LEMMA WalkNext ==
  ASSUME WInv, [Next]_vars
  PROVE  WalkInv'
<1>1. CASE UNCHANGED vars
  BY <1>1 DEF WInv, WalkInv, FillWalksTree, vars, Idx
<1>2. CASE Next
  BY <1>2, WalkStarts, WalkChild, WalkReturn, WalkOther
<1> QED BY <1>1, <1>2

\* In every state, whatever is visited was reached through its parent and no entry has two
\* activations: the invariant that carries the walk, on top of that of the links.
THEOREM WalkInductive == Spec => []WInv
<1>1. Init => WalkInv
  BY DEF Init, WalkInv, FillWalksTree
<1>2. WalkInv /\ LInv /\ [Next]_vars => WalkInv'
  BY WalkNext DEF WInv
<1> QED BY <1>1, <1>2, LinksInductive, PTL DEF Spec, WInv

\* _fillProcessTree never meets an entry twice and never leaves the array, for any listed
\* pids and any ppids read, cyclic ones included: its recursion and its sums are over a tree.
THEOREM WalksTree == Spec => []FillWalksTree
<1>1. WInv => FillWalksTree
  BY DEF WInv, WalkInv
<1> QED BY <1>1, WalkInductive, PTL

\* The activations of _fillProcessTree are of different entries, so there are at most as many.
LEMMA StackFits ==
  ASSUME WInv
  PROVE  Len(stack) <= size
<1>1. /\ size \in Nat /\ Len(stack) \in Nat /\ DOMAIN stack = 1 .. Len(stack)
      /\ \A i \in 1 .. Len(stack) : stack[i].idx \in Idx
  <2>1. size \in Nat /\ stack \in Seq([idx: Idx, next: Nat \ {0}])
    BY DEF WInv, LInv, IInv, TypeOK
  <2>2. /\ Len(stack) \in Nat /\ DOMAIN stack = 1 .. Len(stack)
        /\ \A i \in 1 .. Len(stack) : stack[i] \in [idx: Idx, next: Nat \ {0}]
    <3> DEFINE S == [idx: Idx, next: Nat \ {0}]
    <3>1. stack \in Seq(S)
      BY <2>1
    <3> HIDE DEF S
    <3>2. /\ Len(stack) \in Nat /\ DOMAIN stack = 1 .. Len(stack)
          /\ \A i \in 1 .. Len(stack) : stack[i] \in S
      BY <3>1
    <3> QED BY <3>2 DEF S
  <2> QED BY <2>1, <2>2
<1>2. CASE pc # "fill"
  <2>1. stack = <<>>
    BY <1>2 DEF WInv, LInv, IInv, PhaseInv
  <2> QED BY <1>1, <2>1
<1>3. CASE pc = "fill"
  <2> SUFFICES ASSUME Len(stack) > size PROVE FALSE
    BY <1>1
  <2> DEFINE entry == [i \in 1 .. Len(stack) |-> stack[i].idx]
  <2>1. entry \in [1 .. Len(stack) -> Idx]
    BY <1>1
  <2>2. /\ IsFiniteSet(1 .. Len(stack)) /\ Cardinality(1 .. Len(stack)) = Len(stack)
        /\ IsFiniteSet(Idx) /\ Cardinality(Idx) = size
    <3>1. 1 \in Int /\ Len(stack) \in Int /\ 0 \in Int /\ size - 1 \in Int
      BY <1>1
    <3>2. /\ IsFiniteSet(1 .. Len(stack))
          /\ Cardinality(1 .. Len(stack)) = IF 1 > Len(stack) THEN 0 ELSE Len(stack) - 1 + 1
      BY <3>1, FS_Interval
    <3>3. /\ IsFiniteSet(0 .. size-1)
          /\ Cardinality(0 .. size-1) = IF 0 > size-1 THEN 0 ELSE size - 1 - 0 + 1
      BY <3>1, FS_Interval
    <3> QED BY <1>1, <3>2, <3>3 DEF Idx
  <2>3. PICK i, j \in 1 .. Len(stack) : i # j /\ entry[i] = entry[j]
    <3>1. Cardinality(Idx) < Cardinality(1 .. Len(stack))
      BY <1>1, <2>2
    <3> HIDE DEF entry
    <3> QED BY <2>1, <2>2, <3>1, FS_PigeonHole
  <2>4. stack[i].idx = stack[j].idx
    BY <2>3
  <2> QED BY <1>1, <1>3, <2>3, <2>4 DEF WInv, WalkInv
<1> QED BY <1>2, <1>3

\* The recursion of _fillProcessTree is never deeper than the array has entries.
THEOREM RecursionBounded == Spec => [](Len(stack) <= size)
BY StackFits, WalkInductive, PTL

-----------------------------------------------------------------------------
(* Sums over finite sets, in whatever order. *)

\* Induction: whatever holds of a subset of S when it holds of the smaller ones holds of S.
LEMMA SetInduction ==
  ASSUME NEW S, IsFiniteSet(S), NEW Good \in SUBSET (SUBSET S),
         \A T \in SUBSET S : (\A U \in SUBSET T : U # T => U \in Good) => T \in Good
  PROVE  \A T \in SUBSET S : T \in Good
<1> DEFINE Bad == (SUBSET S) \ Good
<1> SUFFICES ASSUME Bad # {} PROVE FALSE
  OBVIOUS
<1>1. Bad \subseteq FiniteSubsetsOf(S)
  BY FS_FiniteSubsetsOfFinite
<1>2. IsWellFoundedOn(StrictSubsetOrdering(S), FiniteSubsetsOf(S))
  BY FS_StrictSubsetOrderingWellFounded
<1>3. \E T \in Bad : \A U \in Bad : ~ (<<U, T>> \in StrictSubsetOrdering(S))
  <2> HIDE DEF Bad
  <2> QED BY <1>1, <1>2, WFMin
<1>4. PICK T \in Bad : \A U \in Bad : ~ (<<U, T>> \in StrictSubsetOrdering(S))
  BY <1>3
<1>5. ASSUME NEW U \in SUBSET T, U # T
      PROVE  U \in Good
  <2>1. <<U, T>> \in StrictSubsetOrdering(S)
    BY <1>5 DEF StrictSubsetOrdering
  <2> QED BY <1>4, <2>1
<1> QED BY <1>5

\* The element that a fold takes first, and the function that SumOf chooses.
First(s) == CHOOSE x \in s : TRUE
Adds(f, S, g) == g = [s \in SUBSET S |-> IF s = {} THEN 0 ELSE f[First(s)] + g[s \ {First(s)}]]

LEMMA SumIs ==
  ASSUME NEW f, NEW S
  PROVE  SumOf(f, S) = (CHOOSE g : Adds(f, S, g))[S]
BY Zenon DEF SumOf, FoldFunctionOnSet, MapThenFoldSet, Adds, First

LEMMA FirstIn ==
  ASSUME NEW s, s # {}
  PROVE  First(s) \in s
BY DEF First

\* Two such functions agree where both are defined.
LEMMA AddsAgree ==
  ASSUME NEW f, NEW S, IsFiniteSet(S), NEW T \in SUBSET S,
         NEW g, Adds(f, S, g), NEW h, Adds(f, T, h)
  PROVE  h[T] = g[T]
<1> DEFINE Good == {s \in SUBSET T : h[s] = g[s]}
<1>1. ASSUME NEW s \in SUBSET T, \A u \in SUBSET s : u # s => u \in Good
      PROVE  s \in Good
  <2>1. /\ g[s] = IF s = {} THEN 0 ELSE f[First(s)] + g[s \ {First(s)}]
        /\ h[s] = IF s = {} THEN 0 ELSE f[First(s)] + h[s \ {First(s)}]
    BY DEF Adds
  <2>2. CASE s = {}
    BY <2>1, <2>2
  <2>3. CASE s # {}
    <3>1. s \ {First(s)} \in Good
      BY <1>1, <2>3, FirstIn
    <3> QED BY <2>1, <2>3, <3>1
  <2> QED BY <2>2, <2>3
<1>2. IsFiniteSet(T) /\ Good \in SUBSET (SUBSET T)
  BY FS_Subset
<1>3. T \in Good
  <2> HIDE DEF Good
  <2> QED BY <1>1, <1>2, SetInduction
<1> QED BY <1>3

\* A sum is one element and the rest.
Unfolds(f, S) == SumOf(f, S) = IF S = {} THEN 0 ELSE f[First(S)] + SumOf(f, S \ {First(S)})

LEMMA AddsUnfolds ==
  ASSUME NEW f, NEW S, IsFiniteSet(S), NEW g, Adds(f, S, g),
         NEW T \in SUBSET S, NEW h, Adds(f, T, h)
  PROVE  SumOf(f, T) = g[T]
<1>1. Adds(f, T, CHOOSE k : Adds(f, T, k))
  OBVIOUS
<1> QED BY <1>1, AddsAgree, SumIs

\* There is such a function over every finite set.
LEMMA AddsExists ==
  ASSUME NEW f, NEW S, IsFiniteSet(S)
  PROVE  \E g : Adds(f, S, g)
<1> DEFINE Good == {T \in SUBSET S : \E g : Adds(f, T, g)}
<1>1. ASSUME NEW T \in SUBSET S, \A U \in SUBSET T : U # T => U \in Good
      PROVE  T \in Good
  <2> DEFINE sum(s) == IF s = {} THEN 0 ELSE f[First(s)] + SumOf(f, s \ {First(s)})
             g == [s \in SUBSET T |-> sum(s)]
  <2>1. ASSUME NEW s \in SUBSET T, s # T
        PROVE  SumOf(f, s) = sum(s)
    <3>1. s \in Good /\ IsFiniteSet(s)
      BY <1>1, <2>1, FS_Subset
    <3>2. PICK h : Adds(f, s, h)
      BY <3>1
    <3>3. SumOf(f, s) = h[s]
      BY <3>1, <3>2, AddsUnfolds
    <3>4. h[s] = IF s = {} THEN 0 ELSE f[First(s)] + h[s \ {First(s)}]
      BY <3>2 DEF Adds
    <3>5. CASE s = {}
      BY <3>3, <3>4, <3>5
    <3>6. CASE s # {}
      <4> DEFINE u == s \ {First(s)}
      <4>1. u \in SUBSET s /\ u \in SUBSET T /\ u # T
        BY <3>6, FirstIn
      <4>2. u \in Good
        <5> HIDE DEF u, Good
        <5> QED BY <1>1, <4>1
      <4>3. PICK k : Adds(f, u, k)
        BY <4>2
      <4>4. SumOf(f, u) = h[u]
        BY <3>1, <3>2, <4>1, <4>3, AddsUnfolds
      <4> QED BY <3>3, <3>4, <3>6, <4>4
    <3> QED BY <3>5, <3>6
  <2>2. ASSUME NEW s \in SUBSET T, s # {}
        PROVE  g[s \ {First(s)}] = SumOf(f, s \ {First(s)})
    <3>1. s \ {First(s)} \in SUBSET T /\ s \ {First(s)} # T
      BY <2>2, FirstIn
    <3> QED BY <2>1, <3>1
  <2>3. Adds(f, T, g)
    <3>1. \A s \in SUBSET T : g[s] = IF s = {} THEN 0 ELSE f[First(s)] + g[s \ {First(s)}]
      BY <2>2
    <3> QED BY <3>1 DEF Adds
  <2> HIDE DEF g
  <2> QED BY <2>3
<1>2. S \in Good
  <2>1. Good \in SUBSET (SUBSET S)
    OBVIOUS
  <2> HIDE DEF Good
  <2> QED BY <1>1, <2>1, SetInduction
<1> QED BY <1>2

LEMMA SumUnfolds ==
  ASSUME NEW f, NEW S, IsFiniteSet(S)
  PROVE  Unfolds(f, S)
<1>1. PICK g : Adds(f, S, g)
  BY AddsExists
<1>2. SumOf(f, S) = g[S] /\ g[S] = IF S = {} THEN 0 ELSE f[First(S)] + g[S \ {First(S)}]
  <2>1. SumOf(f, S) = g[S]
    BY <1>1, AddsUnfolds
  <2>2. g[S] = IF S = {} THEN 0 ELSE f[First(S)] + g[S \ {First(S)}]
    BY <1>1 DEF Adds
  <2> QED BY <2>1, <2>2
<1>3. ASSUME S # {}
      PROVE  SumOf(f, S \ {First(S)}) = g[S \ {First(S)}]
  <2>1. S \ {First(S)} \in SUBSET S /\ IsFiniteSet(S \ {First(S)})
    BY FS_Subset
  <2>2. PICK h : Adds(f, S \ {First(S)}, h)
    BY <2>1, AddsExists
  <2> QED BY <1>1, <2>1, <2>2, AddsUnfolds
<1> QED BY <1>2, <1>3 DEF Unfolds

LEMMA SumEmpty ==
  ASSUME NEW f
  PROVE  SumOf(f, {}) = 0
BY SumUnfolds, FS_EmptySet DEF Unfolds

LEMMA SumType ==
  ASSUME NEW f, NEW S, IsFiniteSet(S), \A k \in S : f[k] \in Nat
  PROVE  SumOf(f, S) \in Nat
<1> DEFINE Good == {T \in SUBSET S : SumOf(f, T) \in Nat}
<1>1. ASSUME NEW T \in SUBSET S, \A U \in SUBSET T : U # T => U \in Good
      PROVE  T \in Good
  <2>1. Unfolds(f, T)
    BY FS_Subset, SumUnfolds
  <2>2. CASE T = {}
    BY <2>2, SumEmpty
  <2>3. CASE T # {}
    <3>1. First(T) \in T
      BY <2>3, FirstIn
    <3>2. T \ {First(T)} \in Good
      BY <1>1, <3>1
    <3>3. f[First(T)] \in Nat /\ SumOf(f, T \ {First(T)}) \in Nat
      BY <3>1, <3>2
    <3> QED BY <2>1, <2>3, <3>3 DEF Unfolds
  <2> QED BY <2>2, <2>3
<1>2. S \in Good
  <2>1. Good \in SUBSET (SUBSET S)
    OBVIOUS
  <2> HIDE DEF Good
  <2> QED BY <1>1, <2>1, SetInduction
<1> QED BY <1>2

\* Whichever element is taken first.
LEMMA SumTakes ==
  ASSUME NEW f, NEW S, IsFiniteSet(S), \A k \in S : f[k] \in Nat, NEW x \in S
  PROVE  SumOf(f, S) = f[x] + SumOf(f, S \ {x})
<1> DEFINE Good == {T \in SUBSET S : \A y \in T : SumOf(f, T) = f[y] + SumOf(f, T \ {y})}
<1>1. ASSUME NEW T \in SUBSET S, \A U \in SUBSET T : U # T => U \in Good
      PROVE  T \in Good
  <2> SUFFICES ASSUME NEW y \in T PROVE SumOf(f, T) = f[y] + SumOf(f, T \ {y})
    OBVIOUS
  <2> DEFINE x1 == First(T)
  <2>1. x1 \in T
    BY FirstIn
  <2>2. SumOf(f, T) = f[x1] + SumOf(f, T \ {x1})
    BY FS_Subset, SumUnfolds DEF Unfolds
  <2> HIDE DEF x1
  <2>3. CASE y = x1
    BY <2>2, <2>3
  <2>4. CASE y # x1
    <3>1. T \ {x1} \in Good /\ T \ {y} \in Good
      BY <1>1, <2>1
    <3>2. y \in T \ {x1} /\ x1 \in T \ {y}
      BY <2>1, <2>4
    <3>3. SumOf(f, T \ {x1}) = f[y] + SumOf(f, (T \ {x1}) \ {y})
      BY <3>1, <3>2
    <3>4. SumOf(f, T \ {y}) = f[x1] + SumOf(f, (T \ {y}) \ {x1})
      BY <3>1, <3>2
    <3>5. (T \ {x1}) \ {y} = (T \ {y}) \ {x1}
      OBVIOUS
    <3>6. SumOf(f, (T \ {x1}) \ {y}) \in Nat /\ f[x1] \in Nat /\ f[y] \in Nat
      <4>1. IsFiniteSet((T \ {x1}) \ {y}) /\ \A k \in (T \ {x1}) \ {y} : f[k] \in Nat
        BY FS_Subset
      <4> QED BY <2>1, <4>1, SumType
    <3>7. \A a, b, c \in Nat : a + (b + c) = b + (a + c)
      OBVIOUS
    <3> HIDE DEF Good
    <3> QED BY <2>2, <3>3, <3>4, <3>5, <3>6, <3>7
  <2> QED BY <2>3, <2>4
<1>2. S \in Good
  <2>1. Good \in SUBSET (SUBSET S)
    OBVIOUS
  <2> HIDE DEF Good
  <2> QED BY <1>1, <2>1, SetInduction
<1> QED BY <1>2

LEMMA SumOne ==
  ASSUME NEW f, NEW x, f[x] \in Nat
  PROVE  SumOf(f, {x}) = f[x]
<1>1. IsFiniteSet({x}) /\ {x} \ {x} = {}
  BY FS_Singleton
<1>2. SumOf(f, {x}) = f[x] + SumOf(f, {x} \ {x})
  BY <1>1, SumTakes
<1> QED BY <1>1, <1>2, SumEmpty

\* Of two sets that have nothing in common.
LEMMA SumUnion ==
  ASSUME NEW f, NEW S, IsFiniteSet(S), NEW T, IsFiniteSet(T), S \cap T = {},
         \A k \in S \cup T : f[k] \in Nat
  PROVE  SumOf(f, S \cup T) = SumOf(f, S) + SumOf(f, T)
<1> DEFINE Good == {U \in SUBSET T : SumOf(f, S \cup U) = SumOf(f, S) + SumOf(f, U)}
<1>0. ASSUME NEW U \in SUBSET T
      PROVE  IsFiniteSet(U) /\ IsFiniteSet(S \cup U) /\ SumOf(f, U) \in Nat /\ SumOf(f, S) \in Nat
  <2>1. IsFiniteSet(U)
    BY FS_Subset
  <2>2. IsFiniteSet(S \cup U)
    BY <2>1, FS_Union
  <2> QED BY <2>1, <2>2, SumType
<1>1. ASSUME NEW U \in SUBSET T, \A V \in SUBSET U : V # U => V \in Good
      PROVE  U \in Good
  <2>1. CASE U = {}
    <3>1. S \cup U = S /\ SumOf(f, U) = 0
      BY <2>1, SumEmpty
    <3>2. SumOf(f, S) \in Nat
      BY SumType
    <3>3. \A a \in Nat : a + 0 = a
      OBVIOUS
    <3>4. SumOf(f, S \cup U) = SumOf(f, S)
      BY <3>1, Zenon
    <3>5. SumOf(f, S \cup U) = SumOf(f, S) + SumOf(f, U)
      BY <3>1, <3>2, <3>3, <3>4, Zenon
    <3> QED BY <3>5
  <2>2. CASE U # {}
    <3>1. PICK x \in U : TRUE
      BY <2>2
    <3> DEFINE V == U \ {x}
    <3>2. V \in SUBSET T /\ SumOf(f, S \cup V) = SumOf(f, S) + SumOf(f, V)
      BY <1>1, <3>1
    <3>3. SumOf(f, U) = f[x] + SumOf(f, V)
      <4>1. IsFiniteSet(U) /\ x \in U /\ \A k \in U : f[k] \in Nat
        BY <1>0, <3>1
      <4> QED BY <4>1, SumTakes
    <3>4. SumOf(f, S \cup U) = f[x] + SumOf(f, S \cup V)
      <4>1. (S \cup U) \ {x} = S \cup V /\ x \in S \cup U
        BY <3>1
      <4>2. \A k \in S \cup U : f[k] \in Nat
        OBVIOUS
      <4> HIDE DEF V
      <4> QED BY <1>0, <4>1, <4>2, SumTakes
    <3>5. f[x] \in Nat /\ SumOf(f, V) \in Nat /\ SumOf(f, S) \in Nat
      BY <1>0, <3>1
    <3> HIDE DEF V
    <3>6. SumOf(f, S \cup U) = SumOf(f, S) + SumOf(f, U)
      BY <3>2, <3>3, <3>4, <3>5
    <3> QED BY <3>6
  <2> QED BY <2>1, <2>2
<1>2. T \in Good
  <2>1. Good \in SUBSET (SUBSET T)
    OBVIOUS
  <2>2. \A U \in SUBSET T : (\A V \in SUBSET U : V # U => V \in Good) => U \in Good
    BY <1>1
  <2> HIDE DEF Good
  <2>3. \A U \in SUBSET T : U \in Good
    BY <2>1, <2>2, SetInduction, Zenon
  <2> QED BY <2>3
<1> QED BY <1>2

-----------------------------------------------------------------------------
(* Subtrees of linked entries. *)

LEMMA SubSelf ==
  ASSUME NEW a \in Idx
  PROVE  a \in Subtree(a)
BY DEF Subtree

LEMMA SubBelow ==
  ASSUME NEW a \in Idx
  PROVE  Subtree(a) \subseteq Idx /\ ClosedBelow(Subtree(a))
<1>1. Subtree(a) \subseteq Idx
  BY DEF Subtree
<1>2. ASSUME NEW k \in Idx, pt[k].parent \in Subtree(a), NEW S \in SUBSET Idx, a \in S, ClosedBelow(S)
      PROVE  k \in S
  <2>1. pt[k].parent \in S
    BY <1>2 DEF Subtree
  <2> QED BY <1>2, <2>1 DEF ClosedBelow
<1>3. ClosedBelow(Subtree(a))
  BY <1>2 DEF Subtree, ClosedBelow
<1> QED BY <1>1, <1>3

LEMMA SubLeast ==
  ASSUME NEW a \in Idx, NEW S \in SUBSET Idx, a \in S, ClosedBelow(S)
  PROVE  Subtree(a) \subseteq S
BY DEF Subtree

\* The parent of an entry below a is below a too.
LEMMA SubParent ==
  ASSUME NEW a \in Idx, NEW k \in Subtree(a), k # a
  PROVE  pt[k].parent \in Subtree(a)
<1> DEFINE S == {j \in Subtree(a) : j = a \/ pt[j].parent \in Subtree(a)}
<1>1. S \in SUBSET Idx /\ a \in S
  BY SubSelf, SubBelow
<1>2. ClosedBelow(S)
  BY SubBelow DEF ClosedBelow
<1>3. Subtree(a) \subseteq S
  <2> HIDE DEF S
  <2> QED BY <1>1, <1>2, SubLeast
<1> QED BY <1>3

LEMMA SubOfSub ==
  ASSUME NEW a \in Idx, NEW b \in Subtree(a)
  PROVE  Subtree(b) \subseteq Subtree(a)
BY SubBelow, SubLeast

LEMMA SubRoot ==
  ASSUME NEW a \in Idx, NEW r \in Subtree(a), pt[r].parent = r
  PROVE  r = a
<1> SUFFICES ASSUME r # a PROVE FALSE
  OBVIOUS
<1> DEFINE S == Subtree(a) \ {r}
<1>1. S \in SUBSET Idx /\ a \in S
  BY SubSelf, SubBelow
<1>2. ClosedBelow(S)
  BY SubBelow DEF ClosedBelow
<1>3. Subtree(a) \subseteq S
  <2> HIDE DEF S
  <2> QED BY <1>1, <1>2, SubLeast
<1> QED BY <1>3

\* An entry of the tree of a root is not below its own children.
LEMMA SubNoCycle ==
  ASSUME NEW r \in Idx, pt[r].parent = r, NEW c \in Subtree(r), c # r
  PROVE  pt[c].parent \notin Subtree(c)
<1> SUFFICES ASSUME pt[c].parent \in Subtree(c) PROVE FALSE
  OBVIOUS
<1> DEFINE S == Subtree(r) \ Subtree(c)
<1>0. c \in Idx
  BY SubBelow
<1>1. S \in SUBSET Idx /\ r \in S
  <2>1. r \notin Subtree(c)
    BY <1>0, SubRoot
  <2> QED BY <2>1, SubSelf, SubBelow
<1>2. ClosedBelow(S)
  <2> SUFFICES ASSUME NEW j \in Idx, pt[j].parent \in S PROVE j \in S
    BY DEF ClosedBelow
  <2>1. j \in Subtree(r)
    BY SubBelow DEF ClosedBelow
  <2>2. j \notin Subtree(c)
    BY <1>0, SubParent
  <2> QED BY <2>1, <2>2
<1>3. Subtree(r) \subseteq S
  <2> HIDE DEF S
  <2> QED BY <1>1, <1>2, SubLeast
<1> QED BY <1>0, <1>3, SubSelf

\* The subtrees of two children of the same entry have nothing in common.
LEMMA SubApart ==
  ASSUME NEW r \in Idx, pt[r].parent = r, NEW c \in Subtree(r), NEW k \in Subtree(r),
         c # r, k # r, c # k, pt[c].parent = pt[k].parent
  PROVE  Subtree(k) \cap Subtree(c) = {}
<1> DEFINE S == Subtree(k) \ Subtree(c)
<1>0. c \in Idx /\ k \in Idx
  BY SubBelow
<1>1. S \in SUBSET Idx /\ k \in S
  <2>1. k \notin Subtree(c)
    BY <1>0, SubNoCycle, SubParent
  <2> QED BY <1>0, <2>1, SubSelf, SubBelow
<1>2. ClosedBelow(S)
  <2> SUFFICES ASSUME NEW j \in Idx, pt[j].parent \in S PROVE j \in S
    BY DEF ClosedBelow
  <2>1. j \in Subtree(k)
    BY <1>0, SubBelow DEF ClosedBelow
  <2>2. j # c
    <3>1. c \notin Subtree(k)
      BY <1>0, SubNoCycle, SubParent
    <3> QED BY <2>1, <3>1
  <2>3. j \notin Subtree(c)
    BY <1>0, <2>2, SubParent
  <2> QED BY <2>1, <2>3
<1>3. Subtree(k) \subseteq S
  <2> HIDE DEF S
  <2> QED BY <1>0, <1>1, <1>2, SubLeast
<1> QED BY <1>3

\* The children of an entry.
Kids(k) == {c \in Idx : pt[c].parent = k /\ c # k}

\* What is below an entry is below one of its children, or is one.
LEMMA SubKids ==
  ASSUME NEW r \in Idx, pt[r].parent = r, NEW k \in Subtree(r)
  PROVE  UNION {Subtree(c) : c \in Kids(k)} = Subtree(k) \ {k}
<1> DEFINE U == UNION {Subtree(c) : c \in Kids(k)}
<1>0. k \in Idx
  BY SubBelow
<1>1. ASSUME NEW c \in Kids(k)
      PROVE  Subtree(c) \subseteq Subtree(k) \ {k}
  <2>1. c \in Idx /\ pt[c].parent = k /\ c # k
    BY DEF Kids
  <2>2. c \in Subtree(k) /\ c \in Subtree(r)
    BY <1>0, <2>1, SubSelf, SubBelow DEF ClosedBelow
  <2>3. c # r
    BY <2>1
  <2> QED BY <1>0, <2>1, <2>2, <2>3, SubOfSub, SubNoCycle
<1>2. Subtree(k) \subseteq {k} \cup U
  <2> DEFINE S == {k} \cup U
  <2>1. S \in SUBSET Idx /\ k \in S
    BY <1>0, <1>1, SubBelow
  <2>2. ClosedBelow(S)
    <3> SUFFICES ASSUME NEW j \in Idx, pt[j].parent \in S PROVE j \in S
      BY DEF ClosedBelow
    <3>1. CASE pt[j].parent = k /\ j # k
      BY <3>1, SubSelf DEF Kids
    <3>2. CASE pt[j].parent \in U
      <4>1. PICK c \in Kids(k) : pt[j].parent \in Subtree(c)
        BY <3>2
      <4>2. j \in Subtree(c)
        BY <4>1, SubBelow DEF ClosedBelow, Kids
      <4> QED BY <4>2
    <3>3. CASE j = k
      BY <3>3
    <3> QED BY <3>1, <3>2, <3>3
  <2> HIDE DEF S
  <2>3. Subtree(k) \subseteq S
    BY <1>0, <2>1, <2>2, SubLeast
  <2> QED BY <2>3 DEF S
<1> QED BY <1>1, <1>2

-----------------------------------------------------------------------------
(* What the links say of children, and what entries add. *)

LEMMA LinkedParent ==
  ASSUME LInv, AllLinked, NEW k \in Idx
  PROVE  pt[k].parent \in Idx
<1>1. InTree /\ k \in 0 .. cur-1
  BY DEF AllLinked, InTree, Idx
<1> QED BY <1>1 DEF LInv, LinksInv, ParentsAgree

LEMMA KidsListed ==
  ASSUME LInv, AllLinked, NEW p \in Idx
  PROVE  /\ \A i \in 1 .. Len(pt[p].list) : pt[p].list[i] \in Kids(p)
         /\ \A c \in Kids(p) : \E i \in 1 .. Len(pt[p].list) : pt[p].list[i] = c
<1>1. \A i \in 1 .. Len(pt[p].list) : pt[p].list[i] \in Kids(p)
  BY ChildLinked DEF Kids
<1>2. InTree /\ Idx = 0 .. cur-1
  BY DEF AllLinked, InTree, Idx
<1>3. \A c \in Kids(p) : \E i \in 1 .. Len(pt[p].list) : pt[p].list[i] = c
  BY <1>2 DEF LInv, LinksInv, ListsAgree, Kids
<1> QED BY <1>1, <1>3

LEMMA KidsCounted ==
  ASSUME LInv, AllLinked, NEW p \in Idx
  PROVE  Cardinality(Kids(p)) = Len(pt[p].list)
<1> DEFINE n == Len(pt[p].list)
           f == [i \in 1 .. n |-> pt[p].list[i]]
<1>1. n \in Nat
  <2>1. pt[p].list \in Seq(Nat)
    BY DEF LInv, IInv, TypeOK, Entry
  <2> QED BY <2>1
<1>2. \A i, j \in 1 .. n : f[i] = f[j] => i = j
  <2>1. \A i, j \in 1 .. n : i = j \/ i < j \/ j < i
    BY <1>1
  <2>2. \A i, j \in 1 .. n : i < j => f[i] # f[j]
    BY LaterChild
  <2> HIDE DEF f, n
  <2> QED BY <2>1, <2>2
<1>3. f \in [1 .. n -> Kids(p)] /\ \A c \in Kids(p) : \E i \in 1 .. n : f[i] = c
  BY KidsListed
<1>4. ExistsBijection(1 .. n, Kids(p))
  <2> HIDE DEF f, n
  <2>1. f \in Bijection(1 .. n, Kids(p))
    BY <1>2, <1>3, Fun_IsBij
  <2> QED BY <2>1 DEF ExistsBijection
<1>5. IsFiniteSet(1 .. n) /\ Cardinality(1 .. n) = n
  <2> HIDE DEF f, n
  <2>1. /\ IsFiniteSet(1 .. n)
        /\ Cardinality(1 .. n) = IF 1 > n THEN 0 ELSE n - 1 + 1
    BY <1>1, FS_Interval
  <2> QED BY <1>1, <2>1
<1>6. Cardinality(Kids(p)) = Cardinality(1 .. n)
  <2> HIDE DEF f, n
  <2> QED BY <1>4, <1>5, FS_Bijection
<1> QED BY <1>5, <1>6

\* A number that every entry has.
Typed(f) == \A k \in Idx : f[k] \in Nat

LEMMA DataTyped ==
  ASSUME TypeOK
  PROVE  /\ IsFiniteSet(Idx)
         /\ Typed(ThreadsOf) /\ Typed(CpuOf) /\ Typed(MemOf)
         /\ \A k \in Idx : /\ ThreadsOf[k] = AtLeast(pt[k].threads, 1)
                           /\ CpuOf[k] = AtLeast(pt[k].self, 0)
                           /\ MemOf[k] = pt[k].mem
<1>1. size \in Nat /\ \A k \in Idx : pt[k] \in Entry
  BY DEF TypeOK
<1>2. IsFiniteSet(Idx)
  <2>1. 0 \in Int /\ size - 1 \in Int
    BY <1>1
  <2> QED BY <2>1, FS_Interval DEF Idx
<1>3. \A k \in Idx : pt[k].threads \in Nat /\ pt[k].self \in Nat \cup {-1} /\ pt[k].mem \in Nat
  BY <1>1 DEF Entry
<1>4. Typed(ThreadsOf) /\ Typed(CpuOf) /\ Typed(MemOf)
  BY <1>3 DEF Typed, ThreadsOf, CpuOf, MemOf, AtLeast
<1> QED BY <1>2, <1>4 DEF ThreadsOf, CpuOf, MemOf

\* What a child adds to a sum is what it is and what is below it.
LEMMA SumAdds ==
  ASSUME TypeOK, NEW f, Typed(f), NEW k \in Idx, NEW A \in SUBSET Idx, A \cap Subtree(k) = {}
  PROVE  SumOf(f, A \cup Subtree(k)) = SumOf(f, A) + f[k] + SumOf(f, Subtree(k) \ {k})
<1> DEFINE B == Subtree(k)
<1>1. /\ IsFiniteSet(A) /\ IsFiniteSet(B) /\ IsFiniteSet(B \ {k}) /\ k \in B
      /\ \A j \in A \cup B : f[j] \in Nat
  <2>1. A \in SUBSET Idx /\ B \in SUBSET Idx /\ B \ {k} \in SUBSET Idx /\ k \in B
    BY SubSelf, SubBelow
  <2> HIDE DEF B
  <2>2. IsFiniteSet(A) /\ IsFiniteSet(B) /\ IsFiniteSet(B \ {k})
    BY <2>1, DataTyped, FS_Subset
  <2> QED BY <2>1, <2>2 DEF Typed
<1>2. A \cap B = {}
  OBVIOUS
<1> HIDE DEF B
<1>3. SumOf(f, A \cup B) = SumOf(f, A) + SumOf(f, B)
  BY <1>1, <1>2, SumUnion
<1>4. SumOf(f, B) = f[k] + SumOf(f, B \ {k})
  BY <1>1, SumTakes
<1>5. SumOf(f, A) \in Nat /\ f[k] \in Nat /\ SumOf(f, B \ {k}) \in Nat
  <2>1. \A j \in A : f[j] \in Nat
    BY <1>1
  <2>2. \A j \in B \ {k} : f[j] \in Nat
    BY <1>1
  <2>3. SumOf(f, A) \in Nat
    BY <1>1, <2>1, SumType
  <2>4. SumOf(f, B \ {k}) \in Nat
    BY <1>1, <2>2, SumType
  <2> QED BY <1>1, <2>3, <2>4
<1> QED BY <1>3, <1>4, <1>5 DEF B

-----------------------------------------------------------------------------
(* The walk: what is visited, and what has reached the sums of an entry. *)

\* The entries with an activation; the children of k that have returned; what these added to
\* the sums of k.
OnStack == {stack[i].idx : i \in DOMAIN stack}
Finished(k) == {c \in Kids(k) : agg[c].visited /\ c \notin OnStack}
Added(k) == UNION {Subtree(c) : c \in Finished(k)}

\* The sums of k are over the entries of S; total also counts the children that are not in S.
SumsOver(k, S) ==
  /\ agg[k].total = Cardinality(Kids(k) \cup S)
  /\ agg[k].threads = SumOf(ThreadsOf, S)
  /\ agg[k].cpu = SumOf(CpuOf, S)
  /\ agg[k].mem = pt[k].mem + SumOf(MemOf, S)

\* The walk starts at root and stays below it; an activation has visited the children before
\* its index, and a visited entry without an activation all of them.
FillShape ==
  /\ agg[root].visited
  /\ 1 \in DOMAIN stack => stack[1].idx = root
  /\ \A k \in Idx : agg[k].visited => k \in Subtree(root)
  /\ \A i \in DOMAIN stack : \A j \in 1 .. Len(pt[stack[i].idx].list) :
       j < stack[i].next => agg[pt[stack[i].idx].list[j]].visited
  /\ \A k \in Idx : agg[k].visited /\ k \notin OnStack => \A c \in Kids(k) : agg[c].visited

FillSums == \A k \in Idx : agg[k].visited => SumsOver(k, Added(k))

FillInv == pc = "fill" => FillShape /\ FillSums

\* The inductive invariant of the sums: while they are added up, and when they are finished.
SumsInv == WInv /\ FillInv /\ SubtreeSums /\ OneTreeVisited

\* What is said of the links holds on as long as they stay.
LEMMA LinksStay ==
  ASSUME pt' = pt, size' = size
  PROVE  /\ Idx' = Idx /\ ThreadsOf' = ThreadsOf /\ CpuOf' = CpuOf /\ MemOf' = MemOf
         /\ \A k : Subtree(k)' = Subtree(k) /\ Kids(k)' = Kids(k)
<1>1. Idx' = Idx
  BY DEF Idx
<1>2. \A k : Subtree(k)' = Subtree(k) /\ Kids(k)' = Kids(k)
  BY <1>1 DEF Subtree, ClosedBelow, Kids
<1>3. ThreadsOf' = ThreadsOf /\ CpuOf' = CpuOf /\ MemOf' = MemOf
  BY <1>1 DEF ThreadsOf, CpuOf, MemOf, AtLeast
<1> QED BY <1>1, <1>2, <1>3

LEMMA SumsStay ==
  ASSUME pt' = pt, size' = size, NEW k, agg'[k] = agg[k], NEW S, SumsOver(k, S), Added(k)' = S
  PROVE  SumsOver(k, Added(k))'
BY LinksStay DEF SumsOver

\* An entry of which nothing below is visited has nothing but its own usage.
LEMMA SumsEntered ==
  ASSUME WInv, AllLinked, pt' = pt, size' = size, NEW k \in Idx,
         NEW a \in [Idx -> Totals], agg' = Entered(a, k), Added(k)' = {}
  PROVE  SumsOver(k, Added(k))'
<1>1. agg'[k] = [visited |-> TRUE, total |-> Len(pt[k].list), threads |-> 0, cpu |-> 0,
                 mem |-> pt[k].mem]
  BY DEF Entered
<1>2. Kids(k) \cup {} = Kids(k) /\ Cardinality(Kids(k)) = Len(pt[k].list)
  BY KidsCounted DEF WInv
<1>3. SumOf(ThreadsOf, {}) = 0 /\ SumOf(CpuOf, {}) = 0 /\ SumOf(MemOf, {}) = 0
  BY SumEmpty
<1>4. pt[k].mem + 0 = pt[k].mem
  <2>1. pt[k].mem \in Nat
    BY DEF WInv, LInv, IInv, TypeOK, Entry
  <2> QED BY <2>1
<1> QED BY <1>1, <1>2, <1>3, <1>4, LinksStay DEF SumsOver

LEMMA FillStarts ==
  ASSUME WInv, LinkDoneFill
  PROVE  FillInv'
<1>1. AllLinked /\ LInv /\ root \in Idx /\ pt[root].parent = root
  <2>1. AllLinked /\ LInv
    BY DEF LinkDoneFill, AllLinked, WInv
  <2> QED BY <2>1, RootLinked
<1>2. UNCHANGED <<pt, size, root>>
  BY DEF LinkDoneFill
<1> DEFINE a == [k \in Idx |-> ZeroTotals]
<1>3. a \in [Idx -> Totals] /\ \A k \in Idx : ~a[k].visited
  BY DEF ZeroTotals, Totals
<1>4. agg' = Entered(a, root) /\ stack' = Append(<<>>, [idx |-> root, next |-> 1])
  <2>1. Call(a, <<>>, root)
    BY DEF LinkDoneFill
  <2> HIDE DEF a
  <2> QED BY <1>1, <1>3, <2>1 DEF Call
<1> HIDE DEF a
<1>5. \A j \in Idx : agg'[j].visited <=> j = root
  BY <1>1, <1>3, <1>4, EnteredFacts
<1>6. DOMAIN stack' = {1} /\ stack'[1].idx = root /\ stack'[1].next = 1 /\ OnStack' = {root}
  <2>1. DOMAIN stack' = {1} /\ stack'[1].idx = root /\ stack'[1].next = 1
    BY <1>4
  <2> QED BY <2>1 DEF OnStack
<1>7. FillShape'
  <2>1. \A k \in Idx : agg'[k].visited => k \in Subtree(root)'
    BY <1>1, <1>2, <1>5, SubSelf, LinksStay
  <2>2. \A j \in 1 .. Len(pt[root].list) : ~ (j < 1)
    OBVIOUS
  <2> QED BY <1>1, <1>2, <1>5, <1>6, <2>1, <2>2, LinksStay DEF FillShape
<1>8. FillSums'
  <2>1. Added(root)' = {}
    <3>1. Finished(root)' = {}
      BY <1>2, <1>5, <1>6 DEF Finished, Kids, Idx
    <3> QED BY <3>1 DEF Added
  <2>2. SumsOver(root, Added(root))'
    BY <1>1, <1>2, <1>3, <1>4, <2>1, SumsEntered
  <2> QED BY <1>2, <1>5, <2>2, LinksStay DEF FillSums
<1> QED BY <1>7, <1>8 DEF FillInv

LEMMA FillEnters ==
  ASSUME SumsInv, FillChild
  PROVE  FillInv'
<1> DEFINE n == Len(stack)
           f == TopIdx
           m == TopNext
           c == NextKid
<1> HIDE DEF n, f, m, c
<1>1. ChildStep(n, f, m, c)
  BY ChildFacts DEF n, f, m, c, SumsInv
<1>2. /\ WInv /\ LInv /\ AllLinked /\ pc = "fill" /\ FillShape /\ FillSums
      /\ UNCHANGED <<pt, size, root>> /\ root \in Idx /\ pt[root].parent = root
  BY <1>1, RootLinked DEF SumsInv, FillInv, WInv, ChildStep
<1>3. /\ n \in Nat \ {0} /\ DOMAIN stack = 1 .. n /\ DOMAIN stack' = 1 .. n+1
      /\ \A i \in 1 .. n : stack'[i].idx = stack[i].idx
      /\ \A i \in 1 .. n-1 : stack'[i] = stack[i]
      /\ stack[n].idx = f /\ stack[n].next = m /\ m \in Nat
      /\ stack'[n].next = m + 1 /\ stack'[n+1].idx = c /\ stack'[n+1].next = 1
  BY <1>1 DEF ChildStep
<1>4. /\ c \in Idx /\ f \in Idx /\ pt[c].parent = f /\ c # f /\ c # root /\ pt[f].list[m] = c
      /\ ~agg[c].visited /\ agg[f].visited /\ agg \in [Idx -> Totals] /\ agg' = Entered(agg, c)
      /\ \A j \in Idx : agg'[j].visited <=> (j = c \/ agg[j].visited)
  BY <1>1 DEF ChildStep
<1>5. OnStack' = OnStack \cup {c}
  <2>1. \A i \in 1 .. n+1 : i \in 1 .. n \/ i = n+1
    BY <1>3
  <2>2. \A i \in 1 .. n : i \in 1 .. n+1
    BY <1>3
  <2>3. n+1 \in 1 .. n+1
    BY <1>3
  <2> QED BY <1>3, <2>1, <2>2, <2>3 DEF OnStack
<1>6. FillShape'
  <2>1. agg'[root'].visited
    BY <1>2, <1>4 DEF FillShape
  <2>2. stack'[1].idx = root'
    <3>1. 1 \in 1 .. n
      BY <1>3
    <3> QED BY <1>2, <1>3, <3>1 DEF FillShape
  <2>3. \A k \in Idx : agg'[k].visited => k \in Subtree(root)
    <3>1. c \in Subtree(root)
      <4>1. f \in Subtree(root)
        BY <1>2, <1>4 DEF FillShape
      <4> QED BY <1>2, <1>4, <4>1, SubBelow DEF ClosedBelow
    <3> QED BY <1>2, <1>4, <3>1 DEF FillShape
  <2>4. ASSUME NEW i \in 1 .. n+1, NEW j \in 1 .. Len(pt[stack'[i].idx].list), j < stack'[i].next
        PROVE  agg'[pt[stack'[i].idx].list[j]].visited
    <3>1. CASE i \in 1 .. n-1
      <4>1. stack'[i] = stack[i] /\ i \in 1 .. n /\ stack[i].idx \in Idx
        BY <1>1, <1>3, <3>1 DEF ChildStep
      <4>2. agg[pt[stack[i].idx].list[j]].visited
        BY <1>2, <1>3, <2>4, <4>1 DEF FillShape
      <4>3. pt[stack[i].idx].list[j] \in Idx
        BY <1>2, <2>4, <4>1, ChildLinked
      <4> QED BY <1>4, <4>1, <4>2, <4>3
    <3>2. CASE i = n
      <4>1. stack'[i].idx = f /\ j < m + 1 /\ n \in 1 .. n
        BY <1>3, <2>4, <3>2
      <4>2. pt[f].list[j] \in Idx
        BY <1>2, <1>4, <2>4, <4>1, ChildLinked
      <4>3. CASE j = m
        BY <1>4, <4>1, <4>3
      <4>4. CASE j # m
        <5>1. j < m
          BY <1>3, <4>1, <4>4
        <5>2. j \in 1 .. Len(pt[f].list)
          BY <2>4, <4>1
        <5>3. agg[pt[f].list[j]].visited
          <6>1. \A h \in 1 .. Len(pt[stack[n].idx].list) :
                  h < stack[n].next => agg[pt[stack[n].idx].list[h]].visited
            BY <1>2, <1>3, <4>1 DEF FillShape
          <6> QED BY <6>1, <1>3, <5>1, <5>2
        <5> QED BY <1>4, <4>1, <4>2, <5>3
      <4> QED BY <4>3, <4>4
    <3>3. CASE i = n+1
      BY <1>3, <2>4, <3>3
    <3> QED BY <1>3, <3>1, <3>2, <3>3
  <2>5. ASSUME NEW k \in Idx, agg'[k].visited, k \notin OnStack', NEW d \in Kids(k)
        PROVE  agg'[d].visited
    <3>1. agg[k].visited /\ k \notin OnStack
      BY <1>4, <1>5, <2>5
    <3>2. agg[d].visited
      BY <1>2, <2>5, <3>1 DEF FillShape
    <3> QED BY <1>4, <3>2 DEF Kids
  <2>6. Idx' = Idx /\ Subtree(root)' = Subtree(root) /\ \A k : Kids(k)' = Kids(k)
    BY <1>2, LinksStay
  <2> QED BY <1>2, <1>3, <2>1, <2>2, <2>3, <2>4, <2>5, <2>6 DEF FillShape
<1>7. \A k : Finished(k)' = Finished(k) /\ Added(k)' = Added(k)
  <2>1. \A k : Finished(k)' = Finished(k)
    <3>1. \A d \in Idx : (agg'[d].visited /\ d \notin OnStack') <=> (agg[d].visited /\ d \notin OnStack)
      BY <1>4, <1>5
    <3>2. \A k : Kids(k)' = Kids(k) /\ Kids(k) \subseteq Idx
      BY <1>2, LinksStay DEF Kids
    <3> QED BY <3>1, <3>2 DEF Finished
  <2>2. \A k : Subtree(k)' = Subtree(k)
    BY <1>2, LinksStay
  <2> QED BY <2>1, <2>2 DEF Added
<1>8. FillSums'
  <2> SUFFICES ASSUME NEW k \in Idx, agg'[k].visited
               PROVE  SumsOver(k, Added(k))'
    BY <1>2, LinksStay DEF FillSums
  <2>1. CASE k = c
    <3>1. Finished(c) = {}
      <4>1. \A d \in Kids(c) : ~agg[d].visited
        BY <1>2, <1>4 DEF WInv, WalkInv, Kids
      <4> QED BY <4>1 DEF Finished
    <3>2. Added(k)' = {}
      BY <1>7, <2>1, <3>1 DEF Added
    <3> QED BY <1>2, <1>4, <2>1, <3>2, SumsEntered
  <2>2. CASE k # c
    <3>1. agg'[k] = agg[k] /\ agg[k].visited
      BY <1>4, <2>2 DEF Entered
    <3>2. SumsOver(k, Added(k))
      BY <1>2, <3>1 DEF FillSums
    <3> QED BY <1>2, <1>7, <3>1, <3>2, SumsStay
  <2> QED BY <2>1, <2>2
<1> QED BY <1>6, <1>8 DEF FillInv

\* The parent of an activation is the one before it, so that no entry that has returned, nor
\* the running one, has a child with an activation.
LEMMA KidsOffStack ==
  ASSUME WInv, pc = "fill", FillShape, NEW k \in Idx,
         k \notin OnStack \/ (stack # <<>> /\ k = TopIdx)
  PROVE  Kids(k) \cap OnStack = {}
<1> SUFFICES ASSUME NEW i \in DOMAIN stack, stack[i].idx \in Kids(k)
             PROVE  FALSE
  BY DEF OnStack
<1>1. DOMAIN stack = 1 .. Len(stack) /\ Len(stack) \in Nat
  <2> DEFINE S == [idx: Idx, next: Nat \ {0}]
  <2>1. stack \in Seq(S)
    BY DEF WInv, LInv, IInv, TypeOK
  <2> HIDE DEF S
  <2> QED BY <2>1
<1>2. pt[stack[i].idx].parent = k /\ stack[i].idx # k
  BY DEF Kids
<1>3. pt[root].parent = root
  BY FillAllLinked, RootLinked DEF WInv
<1>4. i # 1
  <2>1. i = 1 => stack[1].idx = root
    BY DEF FillShape
  <2> QED BY <1>2, <1>3, <2>1
<1>5. i-1 \in 1 .. Len(stack) /\ i-1 # Len(stack) /\ Len(stack) \in 1 .. Len(stack)
  BY <1>1, <1>4
<1>6. stack[i-1].idx = k
  BY <1>2, <1>4 DEF WInv, WalkInv, FillWalksTree
<1>7. k \in OnStack
  BY <1>1, <1>5, <1>6 DEF OnStack
<1>8. stack[Len(stack)].idx = k
  BY <1>7 DEF TopIdx
<1> QED BY <1>1, <1>5, <1>6, <1>8 DEF WInv, WalkInv

\* Then all that is below it has reached its sums.
LEMMA AllAdded ==
  ASSUME WInv, pc = "fill", FillShape, NEW k \in Idx, agg[k].visited,
         k \notin OnStack \/ (stack # <<>> /\ k = TopIdx),
         \A c \in Kids(k) : agg[c].visited
  PROVE  Added(k) = Subtree(k) \ {k} /\ Kids(k) \subseteq Added(k)
<1>1. root \in Idx /\ pt[root].parent = root
  BY FillAllLinked, RootLinked DEF WInv
<1>2. Finished(k) = Kids(k)
  BY KidsOffStack DEF Finished
<1>3. k \in Subtree(root)
  BY DEF FillShape
<1>4. Added(k) = Subtree(k) \ {k}
  BY <1>1, <1>2, <1>3, SubKids DEF Added
<1>5. \A c \in Kids(k) : c \in Added(k)
  BY <1>2, SubSelf DEF Added, Kids
<1> QED BY <1>4, <1>5

\* A child that returns adds its sums to its parent's.
LEMMA SumsReturned ==
  ASSUME WInv, pc = "fill", FillShape, pt' = pt, size' = size,
         NEW p \in Idx, NEW k \in Idx, pt[k].parent = p, p # k, agg[p].visited, agg[k].visited,
         SumsOver(p, Added(p)), SumsOver(k, Added(k)),
         Added(k) = Subtree(k) \ {k}, Kids(k) \subseteq Added(k),
         k \notin Finished(p), Added(p)' = Added(p) \cup Subtree(k),
         agg'[p] = WithChild(agg[p], agg, k)
  PROVE  SumsOver(p, Added(p))'
<1> DEFINE A == Added(p)
           B == Subtree(k)
<1>1. /\ TypeOK /\ LInv /\ AllLinked /\ root \in Idx /\ pt[root].parent = root
      /\ agg[p] \in Totals /\ agg[k] \in Totals
  BY FillAllLinked, RootLinked DEF WInv, LInv, IInv
<1>2. p \in Subtree(root) /\ k \in Subtree(root) /\ k # root /\ k \in Kids(p)
  BY <1>1 DEF FillShape, Kids
<1>3. \A c \in Kids(p) : c \in Idx /\ c \in Subtree(root) /\ c # root /\ pt[c].parent = p
  BY <1>1, <1>2, SubBelow DEF Kids, ClosedBelow
<1>4. \A c \in Kids(p) : c # k => Subtree(k) \cap Subtree(c) = {}
  BY <1>1, <1>2, <1>3, SubApart
<1>5. A \cap B = {} /\ A \in SUBSET Idx /\ B \in SUBSET Idx /\ k \in B
  <2>1. \A c \in Finished(p) : c \in Kids(p) /\ c # k
    BY DEF Finished
  <2>2. \A c \in Finished(p) : Subtree(c) \cap B = {} /\ Subtree(c) \subseteq Idx
    BY <1>3, <1>4, <2>1, SubBelow
  <2> QED BY <2>2, SubSelf, SubBelow DEF Added
<1>6. Kids(p) \cap (B \ {k}) = {}
  <2>1. \A c \in Kids(p) : c # k => c \notin B
    BY <1>3, <1>4, SubSelf
  <2> QED BY <2>1
<1>7. /\ agg'[p].total = agg[p].total + agg[k].total
      /\ agg'[p].threads = agg[p].threads + ThreadsOf[k] + agg[k].threads
      /\ agg'[p].cpu = agg[p].cpu + CpuOf[k] + agg[k].cpu
      /\ agg'[p].mem = agg[p].mem + agg[k].mem
  <2>1. /\ agg'[p].total = agg[p].total + agg[k].total
        /\ agg'[p].threads = agg[p].threads + AtLeast(pt[k].threads, 1) + AtLeast(agg[k].threads, 0)
        /\ agg'[p].cpu = agg[p].cpu + AtLeast(pt[k].self, 0) + AtLeast(agg[k].cpu, 0)
        /\ agg'[p].mem = agg[p].mem + agg[k].mem
    BY <1>1 DEF WithChild, Totals
  <2>2. AtLeast(agg[k].threads, 0) = agg[k].threads /\ AtLeast(agg[k].cpu, 0) = agg[k].cpu
    BY <1>1 DEF AtLeast, Totals
  <2>3. ThreadsOf[k] = AtLeast(pt[k].threads, 1) /\ CpuOf[k] = AtLeast(pt[k].self, 0)
    BY <1>1, DataTyped
  <2> QED BY <2>1, <2>2, <2>3
<1>8. ASSUME NEW f, Typed(f)
      PROVE  SumOf(f, A \cup B) = SumOf(f, A) + f[k] + SumOf(f, B \ {k})
  BY <1>1, <1>5, <1>8, SumAdds
<1>9. agg'[p].threads = SumOf(ThreadsOf, A \cup B) /\ agg'[p].cpu = SumOf(CpuOf, A \cup B)
  <2>1. agg[p].threads = SumOf(ThreadsOf, A) /\ agg[p].cpu = SumOf(CpuOf, A)
    BY DEF SumsOver
  <2>2. agg[k].threads = SumOf(ThreadsOf, B \ {k}) /\ agg[k].cpu = SumOf(CpuOf, B \ {k})
    BY DEF SumsOver
  <2>3. Typed(ThreadsOf) /\ Typed(CpuOf)
    BY <1>1, DataTyped
  <2> HIDE DEF A, B
  <2> QED BY <1>7, <1>8, <2>1, <2>2, <2>3
<1>10. agg'[p].mem = pt[p].mem + SumOf(MemOf, A \cup B)
  <2>1. agg[p].mem = pt[p].mem + SumOf(MemOf, A)
    BY DEF SumsOver
  <2>2. agg[k].mem = pt[k].mem + SumOf(MemOf, B \ {k})
    BY DEF SumsOver
  <2>3. Typed(MemOf) /\ MemOf[k] = pt[k].mem
    BY <1>1, DataTyped
  <2>4. pt[p].mem \in Nat /\ pt[k].mem \in Nat
    BY <1>1 DEF TypeOK, Entry
  <2>5. SumOf(MemOf, A) \in Nat /\ SumOf(MemOf, B \ {k}) \in Nat
    <3>1. ASSUME NEW S \in SUBSET Idx
          PROVE  SumOf(MemOf, S) \in Nat
      BY <1>1, <2>3, DataTyped, FS_Subset, SumType DEF Typed
    <3> QED BY <1>5, <3>1
  <2> DEFINE x == SumOf(MemOf, A)
             y == SumOf(MemOf, B \ {k})
             z == SumOf(MemOf, A \cup B)
  <2>6. z = x + pt[k].mem + y
    BY <1>8, <2>3
  <2> HIDE DEF x, y, z, A, B
  <2>7. agg'[p].mem = (pt[p].mem + x) + (pt[k].mem + y) /\ x \in Nat /\ y \in Nat
    BY <1>7, <2>1, <2>2, <2>5 DEF x, y
  <2>8. agg'[p].mem = pt[p].mem + z
    BY <2>4, <2>6, <2>7
  <2> QED BY <2>8 DEF z
<1>11. agg'[p].total = Cardinality(Kids(p) \cup (A \cup B))
  <2> DEFINE X == Kids(p) \cup A
             Y == B \ {k}
  <2>1. agg[p].total = Cardinality(X) /\ agg[k].total = Cardinality(Y)
    <3>1. Kids(k) \cup Added(k) = Y
      OBVIOUS
    <3> QED BY <3>1 DEF SumsOver
  <2>2. X \cap Y = {}
    BY <1>5, <1>6
  <2>3. X \cup Y = Kids(p) \cup (A \cup B)
    BY <1>2, <1>5
  <2>4. IsFiniteSet(X) /\ IsFiniteSet(Y)
    <3>1. X \in SUBSET Idx /\ Y \in SUBSET Idx
      BY <1>5 DEF Kids
    <3> HIDE DEF X, Y
    <3> QED BY <1>1, <3>1, DataTyped, FS_Subset
  <2> HIDE DEF X, Y
  <2>5. Cardinality(X \cup Y) = Cardinality(X) + Cardinality(Y)
    <3>1. Cardinality(X) \in Nat /\ Cardinality(Y) \in Nat
      BY <2>4, FS_CardinalityType
    <3>2. Cardinality(X \cap Y) = 0
      <4>1. Cardinality({}) = 0
        BY FS_EmptySet
      <4> QED BY <2>2, <4>1, Zenon
    <3>3. Cardinality(X \cup Y) = Cardinality(X) + Cardinality(Y) - Cardinality(X \cap Y)
      BY <2>4, FS_Union, Zenon
    <3> QED BY <3>1, <3>2, <3>3
  <2> HIDE DEF A, B
  <2> QED BY <1>7, <2>1, <2>3, <2>5
<1> HIDE DEF A, B
<1>12. Added(p)' = A \cup B /\ Kids(p)' = Kids(p)
  BY LinksStay DEF A, B
<1> QED BY <1>9, <1>10, <1>11, <1>12, LinksStay DEF SumsOver

LEMMA FillReturns ==
  ASSUME SumsInv, FillReturn
  PROVE  FillInv'
<1> DEFINE n == Len(stack)
           k == TopIdx
           p == pt[k].parent
<1> HIDE DEF n
<1>1. ReturnStep(n, k)
  BY ReturnFacts DEF n, SumsInv
<1>2. /\ WInv /\ LInv /\ AllLinked /\ pc = "fill" /\ FillShape /\ FillSums
      /\ UNCHANGED <<pt, size, root>> /\ root \in Idx /\ pt[root].parent = root
  BY <1>1, RootLinked DEF SumsInv, FillInv, WInv, ReturnStep
<1>3. /\ n \in Nat \ {0} /\ DOMAIN stack = 1 .. n /\ DOMAIN stack' = 1 .. n-1 /\ stack # <<>>
      /\ \A i \in 1 .. n-1 : stack'[i] = stack[i] /\ i \in 1 .. n
      /\ \A i \in 1 .. n : i = n \/ i \in 1 .. n-1
      /\ n \in 1 .. n /\ n \notin 1 .. n-1
      /\ stack[n].idx = k /\ stack[n].next > Len(pt[k].list)
  BY <1>1 DEF ReturnStep, FillReturn
<1>4. /\ \A i \in 1 .. n : stack[i].idx \in Idx /\ agg[stack[i].idx].visited
      /\ \A i, j \in 1 .. n : stack[i].idx = stack[j].idx => i = j
      /\ n = 1 => k = root
      /\ n # 1 => p = stack[n-1].idx /\ n-1 \in 1 .. n-1
  <2>1. \A i \in 1 .. n : stack[i].idx \in Idx
    BY <1>1 DEF ReturnStep
  <2>2. \A i \in 1 .. n :
          agg[stack[i].idx].visited /\ pt[stack[i].idx].parent = IF i = 1 THEN root ELSE stack[i-1].idx
    BY <1>2, <1>3 DEF WInv, WalkInv, FillWalksTree
  <2>3. \A i, j \in 1 .. n : stack[i].idx = stack[j].idx => i = j
    BY <1>2, <1>3 DEF WInv, WalkInv
  <2>4. n = 1 => k = root
    BY <1>2, <1>3 DEF FillShape
  <2>5. n # 1 => p = stack[n-1].idx
    BY <1>3, <2>2
  <2>6. n # 1 => n-1 \in 1 .. n-1
    BY <1>3
  <2> QED BY <2>1, <2>2, <2>3, <2>4, <2>5, <2>6
<1> HIDE DEF k
<1>5. k \in Idx /\ agg[k].visited /\ k \in OnStack
  BY <1>3, <1>4 DEF OnStack
<1>6. OnStack' = OnStack \ {k}
  BY <1>3, <1>4 DEF OnStack
<1>7. \A j \in Idx : agg'[j].visited = agg[j].visited
  BY <1>1 DEF ReturnStep
<1>8. \A c \in Kids(k) : agg[c].visited
  <2> SUFFICES ASSUME NEW c \in Kids(k) PROVE agg[c].visited
    OBVIOUS
  <2>1. PICK j \in 1 .. Len(pt[k].list) : pt[k].list[j] = c
    BY <1>2, <1>5, KidsListed
  <2>2. j < stack[n].next
    <3>1. Len(pt[k].list) \in Nat /\ stack[n].next \in Nat
      <4>1. pt[k].list \in Seq(Nat)
        BY <1>2, <1>5 DEF LInv, IInv, TypeOK, Entry
      <4>2. stack[n].next \in Nat
        BY <1>1, <1>3 DEF ReturnStep
      <4> QED BY <4>1, <4>2
    <3> QED BY <1>3, <3>1
  <2> QED BY <1>2, <1>3, <2>1, <2>2 DEF FillShape
<1>9. FillShape'
  <2>1. agg'[root'].visited
    BY <1>2, <1>7 DEF FillShape
  <2>2. 1 \in 1 .. n-1 => stack'[1].idx = root'
    BY <1>2, <1>3 DEF FillShape
  <2>3. \A j \in Idx : agg'[j].visited => j \in Subtree(root)
    BY <1>2, <1>7 DEF FillShape
  <2>4. ASSUME NEW i \in 1 .. n-1, NEW j \in 1 .. Len(pt[stack'[i].idx].list), j < stack'[i].next
        PROVE  agg'[pt[stack'[i].idx].list[j]].visited
    <3>1. stack'[i] = stack[i] /\ i \in 1 .. n
      BY <1>3
    <3>2. agg[pt[stack[i].idx].list[j]].visited
      BY <1>2, <1>3, <2>4, <3>1 DEF FillShape
    <3>3. pt[stack[i].idx].list[j] \in Idx
      BY <1>2, <1>4, <2>4, <3>1, ChildLinked
    <3> QED BY <1>7, <3>1, <3>2, <3>3
  <2>5. ASSUME NEW x \in Idx, agg'[x].visited, x \notin OnStack', NEW d \in Kids(x)
        PROVE  agg'[d].visited
    <3>1. agg[d].visited
      BY <1>2, <1>6, <1>7, <1>8, <2>5 DEF FillShape
    <3> QED BY <1>7, <3>1 DEF Kids
  <2>6. Idx' = Idx /\ Subtree(root)' = Subtree(root) /\ \A x : Kids(x)' = Kids(x)
    BY <1>2, LinksStay
  <2> QED BY <1>2, <1>3, <2>1, <2>2, <2>3, <2>4, <2>5, <2>6 DEF FillShape
<1>10. ASSUME NEW x
       PROVE  /\ Finished(x)' = IF k \in Kids(x) THEN Finished(x) \cup {k} ELSE Finished(x)
              /\ Added(x)' = IF k \in Kids(x) THEN Added(x) \cup Subtree(k) ELSE Added(x)
  <2>1. Finished(x)' = IF k \in Kids(x) THEN Finished(x) \cup {k} ELSE Finished(x)
    <3>1. Kids(x)' = Kids(x) /\ Kids(x) \subseteq Idx
      BY <1>2, LinksStay DEF Kids
    <3>2. \A d \in Idx : (agg'[d].visited /\ d \notin OnStack')
                           <=> (d = k \/ (agg[d].visited /\ d \notin OnStack))
      BY <1>5, <1>6, <1>7
    <3> QED BY <3>1, <3>2 DEF Finished
  <2>2. \A c : Subtree(c)' = Subtree(c)
    BY <1>2, LinksStay
  <2> QED BY <2>1, <2>2 DEF Added
<1>11. FillSums'
  <2> SUFFICES ASSUME NEW x \in Idx, agg'[x].visited
               PROVE  SumsOver(x, Added(x))'
    BY <1>2, LinksStay DEF FillSums
  <2>1. agg[x].visited /\ SumsOver(x, Added(x))
    BY <1>2, <1>7 DEF FillSums
  <2>2. agg' = IF p # -1 /\ p # k THEN [agg EXCEPT ![p] = WithChild(@, agg, k)] ELSE agg
    BY <1>1 DEF ReturnStep
  <2>3. agg \in [Idx -> Totals] /\ p \in Idx /\ p # -1
    <3>1. p \in Idx /\ size \in Nat
      BY <1>2, <1>5, LinkedParent DEF LInv, IInv, TypeOK
    <3> QED BY <1>1, <3>1 DEF ReturnStep, Idx
  <2>4. CASE k \notin Kids(x)
    <3>1. agg'[x] = agg[x]
      <4>1. ~ (p = x /\ p # k)
        BY <1>5, <2>4 DEF Kids
      <4> HIDE DEF p
      <4> QED BY <2>2, <2>3, <4>1
    <3> QED BY <1>2, <1>10, <2>1, <2>4, <3>1, SumsStay
  <2>5. CASE k \in Kids(x)
    <3>1. p = x /\ x # k
      BY <2>5 DEF Kids
    <3>2. agg'[x] = WithChild(agg[x], agg, k)
      <4> HIDE DEF p
      <4> QED BY <2>2, <2>3, <3>1
    <3>3. Added(k) = Subtree(k) \ {k} /\ Kids(k) \subseteq Added(k)
      BY <1>2, <1>3, <1>5, <1>8, AllAdded DEF k
    <3>4. k \notin Finished(x) /\ SumsOver(k, Added(k))
      BY <1>2, <1>5 DEF Finished, FillSums
    <3> QED BY <1>2, <1>5, <1>10, <2>1, <2>5, <3>1, <3>2, <3>3, <3>4, SumsReturned
  <2> QED BY <2>4, <2>5
<1> QED BY <1>9, <1>11 DEF FillInv

\* When the walk is over, everything below an entry has reached its sums and the tree of root
\* was visited.
LEMMA SumsFinished ==
  ASSUME SumsInv, FillDone
  PROVE  SubtreeSums' /\ OneTreeVisited'
<1>1. /\ WInv /\ LInv /\ pc = "fill" /\ FillShape /\ FillSums /\ stack = <<>>
      /\ UNCHANGED <<pt, size, agg>> /\ root \in Idx /\ pt[root].parent = root /\ IsRoot(root)
  <2>1. FillsFromRoot
    BY StartedAtRoot DEF SumsInv, WInv, LInv
  <2> QED BY <2>1, FillAllLinked, RootLinked DEF SumsInv, FillInv, FillDone, WInv, FillsFromRoot
<1>2. OnStack = {}
  BY <1>1 DEF OnStack
<1>3. SubtreeSums'
  <2> SUFFICES ASSUME NEW k \in Idx, agg[k].visited
               PROVE  LET below == Subtree(k) \ {k}
                      IN /\ agg[k].total = Cardinality(below)
                         /\ agg[k].threads = SumOf(ThreadsOf, below)
                         /\ agg[k].cpu = SumOf(CpuOf, below)
                         /\ agg[k].mem = pt[k].mem + SumOf(MemOf, below)
    BY <1>1, LinksStay DEF SubtreeSums
  <2>1. \A c \in Kids(k) : agg[c].visited
    BY <1>1, <1>2 DEF FillShape
  <2>2. Added(k) = Subtree(k) \ {k} /\ Kids(k) \cup Added(k) = Added(k)
    BY <1>1, <1>2, <2>1, AllAdded
  <2>3. SumsOver(k, Added(k))
    BY <1>1 DEF FillSums
  <2> QED BY <2>2, <2>3 DEF SumsOver
<1>4. OneTreeVisited'
  <2> DEFINE V == {k \in Idx : agg[k].visited}
  <2>1. V \in SUBSET Idx /\ root \in V
    BY <1>1 DEF FillShape
  <2>2. ClosedBelow(V)
    <3> SUFFICES ASSUME NEW k \in Idx, pt[k].parent \in V PROVE k \in V
      BY DEF ClosedBelow
    <3>1. CASE pt[k].parent = k
      BY <3>1
    <3>2. CASE pt[k].parent # k
      <4>1. k \in Kids(pt[k].parent)
        BY <3>2 DEF Kids
      <4> QED BY <1>1, <1>2, <4>1 DEF FillShape
    <3> QED BY <3>1, <3>2
  <2>3. Subtree(root) \subseteq V
    <3> HIDE DEF V
    <3> QED BY <1>1, <2>1, <2>2, SubLeast
  <2>4. V = Subtree(root)
    BY <1>1, <2>3 DEF FillShape
  <2>5. \A r : (IsRoot(r)' <=> IsRoot(r)) /\ Subtree(r)' = Subtree(r)
    BY <1>1, LinksStay DEF IsRoot
  <2>6. Idx' = Idx /\ V = {k \in Idx : agg[k].visited}'
    BY <1>1, LinksStay
  <2> HIDE DEF V
  <2>7. \E r \in Idx : IsRoot(r)' /\ V = Subtree(r)'
    BY <1>1, <2>4, <2>5
  <2> QED BY <2>6, <2>7 DEF OneTreeVisited
<1> QED BY <1>3, <1>4

\* Nothing else finishes a tree of all processes, and the caller keeps it as it is.
LEMMA SumsOther ==
  ASSUME SumsInv, Next, ~FillDone
  PROVE  SubtreeSums' /\ OneTreeVisited'
<1> SUFFICES ~Filled'
  BY DEF SubtreeSums, OneTreeVisited
<1>1. CASE Begin \/ Glob \/ Publish \/ Skip \/ ScanDone
  BY <1>1 DEF Begin, Glob, Publish, Skip, ScanDone, Filled
<1>2. CASE GlobFails \/ LinkDoneNoRoot \/ Delete
  BY <1>2 DEF GlobFails, LinkDoneNoRoot, Delete, ReturnNoTree, Filled
<1>3. CASE ScanEmpty
  BY <1>3 DEF ScanEmpty, ReturnNoTree, Filled
<1>4. CASE LinkRoot \/ LinkThread \/ LinkChild \/ LinkOrphan
  BY <1>4 DEF LinkRoot, LinkThread, LinkChild, LinkOrphan, Linking, Filled
<1>5. CASE LinkDoneThreads
  BY <1>5 DEF LinkDoneThreads, Filled
<1>6. CASE LinkDoneFill \/ FillChild \/ FillReturn
  BY <1>6 DEF LinkDoneFill, FillChild, FillReturn, Filled
<1> QED BY <1>1, <1>2, <1>3, <1>4, <1>5, <1>6 DEF Next, Step

\* The other steps are not part of the walk.
LEMMA FillOther ==
  ASSUME Next, ~LinkDoneFill, ~FillChild, ~FillReturn
  PROVE  FillInv'
<1>1. pc' # "fill"
  BY FillElsewhere
<1> QED BY <1>1 DEF FillInv

LEMMA SumsNext ==
  ASSUME SumsInv, [Next]_vars
  PROVE  SumsInv'
<1>1. WInv'
  BY LinksNext, WalkNext DEF SumsInv, WInv
<1>2. FillInv' /\ SubtreeSums' /\ OneTreeVisited'
  <2>1. CASE UNCHANGED vars
    <3>1. UNCHANGED <<pt, size, agg, stack, root, pc, mode, result>> /\ Idx' = Idx
      BY <2>1 DEF vars, Idx
    <3>2. /\ ThreadsOf' = ThreadsOf /\ CpuOf' = CpuOf /\ MemOf' = MemOf
          /\ \A k : Subtree(k)' = Subtree(k) /\ Kids(k)' = Kids(k) /\ (IsRoot(k)' <=> IsRoot(k))
      BY <3>1, LinksStay DEF IsRoot
    <3>3. OnStack' = OnStack
      BY <3>1 DEF OnStack
    <3>4. \A k : Added(k)' = Added(k)
      BY <3>1, <3>2, <3>3 DEF Added, Finished
    <3>5. FillShape' <=> FillShape
      <4>1. Subtree(root)' = Subtree(root)
        BY <3>1, <3>2
      <4> QED BY <3>1, <3>2, <3>3, <4>1 DEF FillShape
    <3>6. FillSums' <=> FillSums
      <4>1. \A k : SumsOver(k, Added(k))' <=> SumsOver(k, Added(k))
        BY <3>1, <3>2, <3>4 DEF SumsOver
      <4> QED BY <3>1, <4>1 DEF FillSums
    <3>7. FillInv'
      BY <3>1, <3>5, <3>6 DEF SumsInv, FillInv
    <3>8. Filled' <=> Filled
      BY <3>1 DEF Filled
    <3>9. SubtreeSums'
      BY <3>1, <3>2, <3>8 DEF SumsInv, SubtreeSums
    <3>10. OneTreeVisited'
      BY <3>1, <3>2, <3>8 DEF SumsInv, OneTreeVisited
    <3> QED BY <3>7, <3>9, <3>10
  <2>2. CASE Next
    <3>1. FillInv'
      BY <2>2, FillStarts, FillEnters, FillReturns, FillOther DEF SumsInv
    <3>2. SubtreeSums' /\ OneTreeVisited'
      BY <2>2, SumsFinished, SumsOther
    <3> QED BY <3>1, <3>2
  <2> QED BY <2>1, <2>2
<1> QED BY <1>1, <1>2 DEF SumsInv

\* In every state of the walk, what has been added up is over the children that returned, and a
\* finished tree is summed: the invariant that carries the sums, on top of that of the walk.
THEOREM SumsInductive == Spec => []SumsInv
<1>1. Init => FillInv /\ SubtreeSums /\ OneTreeVisited
  BY DEF Init, FillInv, SubtreeSums, OneTreeVisited, Filled
<1>2. FillInv /\ SubtreeSums /\ OneTreeVisited /\ WInv /\ [Next]_vars
        => (FillInv /\ SubtreeSums /\ OneTreeVisited)'
  BY SumsNext DEF SumsInv
<1> QED BY <1>1, <1>2, WalkInductive, PTL DEF Spec, SumsInv

\* The sums of every entry of the tree are those of all the entries below it, whatever the
\* processes reported: none is missed, and none is counted twice.
THEOREM SumsRight == Spec => []SubtreeSums
<1>1. SumsInv => SubtreeSums
  BY DEF SumsInv
<1> QED BY <1>1, SumsInductive, PTL

\* What _fillProcessTree visits is one root and all that is below it.
THEOREM VisitsOneTree == Spec => []OneTreeVisited
<1>1. SumsInv => OneTreeVisited
  BY DEF SumsInv
<1> QED BY <1>1, SumsInductive, PTL
=============================================================================
