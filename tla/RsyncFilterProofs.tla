-------------------------- MODULE RsyncFilterProofs --------------------------
(***************************************************************************)
(* Lemmas about the filter lists of RsyncFilter, for paths of any length.  *)
(***************************************************************************)
EXTENDS RsyncFilter, SequenceTheorems, TLAPS

\* A name ends with itself.
LEMMA EndsWithItself ==
  ASSUME NEW S, NEW q \in Seq(S)
  PROVE  EndsWith(q, q)
<1>1. SubSeq(q, 1, Len(q)) = q
  BY SubSeqFull
<1>2. Len(q) \in Nat /\ Len(q) - Len(q) + 1 = 1
  BY LenProperties
<1> QED  BY <1>1, <1>2 DEF EndsWith

\* A prefix of a path is a path.
LEMMA PrefixIsPath ==
  ASSUME NEW S, NEW p \in Seq(S), NEW k \in 1..Len(p)
  PROVE  Prefix(p, k) \in Seq(S)
<1>1. Len(p) \in Nat
  BY LenProperties
<1>2. \A i \in 1..k : p[i] \in S
  BY <1>1, ElementOfSeq
<1> QED  BY <1>1, <1>2, SubSeqProperties DEF Prefix

\* The comment at rsyncconfiguration.go:200-203: rsync needs an entry for every step
\* of a path, and getFullFilter has them: whatever other paths are in the list, each
\* of its files is transferred.
THEOREM ListedFileIsTransferred ==
  ASSUME NEW S, NEW paths, NEW p \in paths, p \in Seq(S)
  PROVE  Transfers(GetFullFilter(paths), p)
<1> SUFFICES ASSUME NEW k \in 1..Len(p)
             PROVE  \E pattern \in GetFullFilter(paths) :
                      Matches(pattern, Prefix(p, k), k < Len(p))
  BY DEF Transfers
<1> DEFINE pattern == [path |-> Prefix(p, k), dir |-> k < Len(p)]
<1> DEFINE steps(q) == {[path |-> Prefix(q, i), dir |-> i < Len(q)] : i \in 1..Len(q)}
<1>1. pattern \in GetFullFilter(paths)
  <2>1. pattern \in steps(p)
    OBVIOUS
  <2>2. GetFullFilter(paths) = UNION {steps(q) : q \in paths}
    BY DEF GetFullFilter
  <2> HIDE DEF pattern, steps
  <2> QED  BY <2>1, <2>2
<1>2. EndsWith(Prefix(p, k), Prefix(p, k))
  BY PrefixIsPath, EndsWithItself
<1>3. Matches(pattern, Prefix(p, k), k < Len(p))
  BY <1>2 DEF Matches
<1> HIDE DEF pattern
<1> QED  BY <1>1, <1>3

\* The list for [""], "the whole folder" (syncd-go.go:591), is empty, and an empty
\* include list selects no file at all.
THEOREM WholeFolderSelectsNothing ==
  ASSUME NEW S, NEW files, files \subseteq Seq(S) \ {<<>>}
  PROVE  Selected({<<>>}, files) = {}
<1> SUFFICES ASSUME NEW f \in files, Transfers(GetFullFilter({<<>>}), f) PROVE FALSE
  BY DEF Selected
<1>1. GetFullFilter({<<>>}) = {}
  <2>1. Len(<<>>) = 0
    OBVIOUS
  <2> QED  BY <2>1 DEF GetFullFilter
<1>2. Len(f) \in Nat \ {0}
  BY EmptySeq
<1>3. 1 \in 1..Len(f)
  BY <1>2
<1> QED  BY <1>1, <1>3 DEF Transfers
=============================================================================
