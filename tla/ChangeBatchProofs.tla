-------------------------- MODULE ChangeBatchProofs --------------------------
(***************************************************************************)
(* The promises of aggregateChanges hold for every tree, every batch and   *)
(* every threshold.                                                        *)
(***************************************************************************)
EXTENDS ChangeBatch, AggregationProofs

\* What the file system guarantees of the answers of pathStatus.
BatchInv ==
  /\ changed \subseteq TreePaths
  /\ DOMAIN st = changed \cup {Root}
  /\ st[Root] = "deleted" /\ (Dot \in changed => st[Dot] = "directory")
  /\ \A p, q \in changed : IsStrictPrefix(p, q) /\ st[q] # "deleted" => st[p] = "directory"

LEMMA InitBatch == Init => BatchInv
  BY DEF Init, BatchInv

LEMMA GrowBatch ==
  ASSUME BatchInv, NEW p \in TreePaths, NEW s \in Statuses, Grow(p, s)
  PROVE  BatchInv'
  <1>1. /\ changed' = changed \cup {p} /\ p \notin changed /\ p # Root
        /\ st' = [q \in DOMAIN st \cup {p} |-> IF q = p THEN s ELSE st[q]]
        /\ p = Dot => s = "directory"
        /\ \A q \in changed :
             /\ IsStrictPrefix(p, q) /\ st[q] # "deleted" => s = "directory"
             /\ IsStrictPrefix(q, p) /\ s # "deleted" => st[q] = "directory"
    BY DEF Grow, TreePaths
  <1>2. /\ changed \subseteq TreePaths /\ DOMAIN st = changed \cup {Root}
        /\ st[Root] = "deleted" /\ (Dot \in changed => st[Dot] = "directory")
        /\ \A x, y \in changed : IsStrictPrefix(x, y) /\ st[y] # "deleted" => st[x] = "directory"
    BY DEF BatchInv
  <1>3. st'[p] = s /\ \A q \in changed \cup {Root} : st'[q] = st[q]
    BY <1>1, <1>2
  <1>4. changed' \subseteq TreePaths /\ DOMAIN st' = changed' \cup {Root} /\ st'[Root] = "deleted"
    BY <1>1, <1>2, <1>3
  <1>5. Dot \in changed' => st'[Dot] = "directory"
    BY <1>1, <1>2, <1>3
  <1>6. ASSUME NEW x \in changed', NEW y \in changed', IsStrictPrefix(x, y), st'[y] # "deleted"
        PROVE  st'[x] = "directory"
    <2>1. x # y
      BY <1>6 DEF IsStrictPrefix
    <2> QED BY <2>1, <1>1, <1>2, <1>3, <1>6
  <1>7. TreePaths' = TreePaths /\ Root' = Root /\ Dot' = Dot
    BY DEF TreePaths, Root, Dot
  <1> QED BY <1>4, <1>5, <1>6, <1>7 DEF BatchInv

\* A batch comes from a tree: nothing exists below a file or below what is not there.
THEOREM BatchFromTree == Spec => []BatchInv
  <1>1. BatchInv /\ [Next]_vars => BatchInv'
    <2>1. ASSUME BatchInv, UNCHANGED vars PROVE BatchInv'
      BY <2>1 DEF vars, BatchInv
    <2> QED BY <2>1, GrowBatch DEF Next
  <1> QED BY <1>1, InitBatch, PTL DEF Spec

LEMMA BatchIsConsistent ==
  ASSUME BatchInv
  PROVE  changed \subseteq AllPaths \ {Root} /\ Consistent(changed, st)
  <1>1. changed \subseteq AllPaths \ {Root}
    BY DEF BatchInv, TreePaths, AllPaths
  <1>2. \A p, q \in changed : IsStrictPrefix(p, q) /\ st[q] = "file" => st[p] # "file"
    BY DEF BatchInv
  <1>3. st[Root] # "file" /\ (Dot \in changed => st[Dot] # "file")
    BY DEF BatchInv
  <1> QED BY <1>1, <1>2, <1>3 DEF Consistent

\* No change is aggregated away (syncd-go.go:783-896).
THEOREM ChangesCovered == Spec => []EveryChangeCovered
  <1>1. BatchInv => EveryChangeCovered
    BY BatchIsConsistent, AggregationOfBatch DEF EveryChangeCovered, Scans
  <1> QED BY <1>1, BatchFromTree, PTL

\* A directory with dirVsFiles changed files is scanned (821).
THEOREM BusyDirectoriesScanned == Spec => []BusyDirectoryScanned
  <1>1. BatchInv => BusyDirectoryScanned
    <2> SUFFICES ASSUME BatchInv, NEW d, Cardinality(FilesIn(d)) >= DirVsFiles
                 PROVE  \E s \in Scans : IsPrefix(s, d)
      BY DEF BusyDirectoryScanned
    <2>1. FilesIn(d) = FilesOf(changed, d, st)
      BY DEF FilesIn, FilesOf, Dir
    <2>2. Cardinality(FilesOf(changed, d, st)) >= DirVsFiles
      BY <2>1
    <2> QED BY <2>2, BatchIsConsistent, AggregationOfBatch DEF Scans
  <1> QED BY <1>1, BatchFromTree, PTL

\* Nothing that did not change is scanned without dirVsFiles changes below it (883).
THEOREM ScansAreNeeded == Spec => []NoNeedlessScan
  <1>1. BatchInv => NoNeedlessScan
    <2> SUFFICES ASSUME BatchInv, NEW s \in Scans \ changed, ~(s = Root /\ Dot \in changed)
                 PROVE  Cardinality(ChangesBelow(s)) >= DirVsFiles
      BY DEF NoNeedlessScan
    <2>1. ChangesBelow(s) = Below(changed \ {Dot}, s)
      BY DEF ChangesBelow, Below
    <2> QED BY <2>1, BatchIsConsistent, AggregationOfBatch DEF Scans
  <1> QED BY <1>1, BatchFromTree, PTL
=============================================================================
