-------------------------- MODULE AggregationProofs --------------------------
(***************************************************************************)
(* What aggregateChanges returns for any batch of paths, any tree and any  *)
(* threshold.                                                              *)
(***************************************************************************)
EXTENDS PathAggregation, SubsequencesProofs, FiniteSets, FiniteSetTheorems, TLAPS

AllPaths == {SortOrder[i] : i \in DOMAIN SortOrder}

-----------------------------------------------------------------------------
(* Prefixes of paths.                                                      *)

LEMMA FirstItems ==
  ASSUME NEW S, NEW s \in Seq(S), NEW n \in 0..Len(s)
  PROVE  /\ SubSeq(s, 1, n) \in Seq(S) /\ Len(SubSeq(s, 1, n)) = n
         /\ \A k \in 1..n : SubSeq(s, 1, n)[k] = s[k]
  OBVIOUS

LEMMA SameItems ==
  ASSUME NEW S, NEW s \in Seq(S), NEW t \in Seq(S), Len(s) = Len(t),
         \A k \in 1..Len(s) : s[k] = t[k]
  PROVE  s = t
  OBVIOUS

LEMMA PrefixItems ==
  ASSUME NEW S, NEW s \in Seq(S), NEW t \in Seq(S)
  PROVE  IsPrefix(s, t) <=> Len(s) <= Len(t) /\ \A k \in 1..Len(s) : s[k] = t[k]
  <1>1. Len(s) \in Nat /\ Len(t) \in Nat
    OBVIOUS
  <1>2. SubSeq(s, 1, Len(s)) = s
    OBVIOUS
  <1>3. ASSUME Len(s) <= Len(t)
        PROVE  SubSeq(t, 1, Len(s)) = s <=> \A k \in 1..Len(s) : s[k] = t[k]
    <2> DEFINE u == SubSeq(t, 1, Len(s))
    <2>1. u \in Seq(S) /\ Len(u) = Len(s) /\ \A k \in 1..Len(s) : u[k] = t[k]
      BY <1>1, <1>3
    <2> HIDE DEF u
    <2>2. (\A k \in 1..Len(s) : s[k] = t[k]) => u = s
      BY <2>1
    <2>3. u = s => \A k \in 1..Len(s) : s[k] = t[k]
      BY <2>1
    <2> QED BY <2>2, <2>3 DEF u
  <1> QED BY <1>2, <1>3 DEF IsPrefix

LEMMA FrontIsPrefix ==
  ASSUME NEW S, NEW p \in Seq(S), p # Root
  PROVE  Front(p) \in Seq(S) /\ Len(Front(p)) = Len(p) - 1 /\ IsStrictPrefix(Front(p), p)
  <1>1. Len(p) \in Nat /\ Len(p) >= 1
    <2>1. Len(p) = 0 => p = <<>>
      OBVIOUS
    <2>2. Len(p) \in Nat
      OBVIOUS
    <2> QED BY <2>1, <2>2 DEF Root
  <1>2. Front(p) \in Seq(S) /\ Len(Front(p)) = Len(p) - 1
        /\ \A k \in 1..(Len(p) - 1) : Front(p)[k] = p[k]
    <2>1. Len(p) - 1 \in 0..Len(p)
      BY <1>1
    <2> QED BY <2>1, FirstItems DEF Front
  <1>3. IsPrefix(Front(p), p) /\ Front(p) # p
    BY <1>1, <1>2, PrefixItems
  <1> QED BY <1>2, <1>3 DEF IsStrictPrefix

LEMMA PrefixIsTransitive ==
  ASSUME NEW S, NEW p \in Seq(S), NEW q \in Seq(S), NEW r \in Seq(S),
         IsPrefix(p, q), IsPrefix(q, r)
  PROVE  IsPrefix(p, r) /\ (IsStrictPrefix(p, q) \/ IsStrictPrefix(q, r) => IsStrictPrefix(p, r))
  <1>1. Len(p) \in Nat /\ Len(q) \in Nat /\ Len(r) \in Nat
    OBVIOUS
  <1>2. /\ Len(p) <= Len(q) /\ \A k \in 1..Len(p) : p[k] = q[k]
        /\ Len(q) <= Len(r) /\ \A k \in 1..Len(q) : q[k] = r[k]
    BY PrefixItems
  <1>3. IsPrefix(p, r)
    BY <1>1, <1>2, PrefixItems
  <1>4. ASSUME p = r PROVE p = q /\ q = r
    <2>1. Len(p) = Len(q) /\ \A k \in 1..Len(p) : p[k] = q[k]
      BY <1>1, <1>2, <1>4
    <2>2. p = q
      BY <2>1, SameItems
    <2> QED BY <2>2, <1>4
  <1> QED BY <1>3, <1>4 DEF IsStrictPrefix

\* Root is above every path.
LEMMA RootIsPrefix ==
  ASSUME NEW S, NEW p \in Seq(S)
  PROVE  IsPrefix(Root, p) /\ IsPrefix(p, p)
  <1>1. Root \in Seq(S) /\ Len(Root) = 0
    BY DEF Root
  <1>2. IsPrefix(Root, p)
    <2>1. Len(Root) <= Len(p) /\ 1..Len(Root) = {}
      BY <1>1
    <2> QED BY <1>1, <2>1, PrefixItems
  <1>3. IsPrefix(p, p)
    <2>1. Len(p) <= Len(p)
      OBVIOUS
    <2> QED BY <2>1, PrefixItems
  <1> QED BY <1>2, <1>3

\* Every path is a sequence of names, and what is above a path is one.
LEMMA AllPathsClosed ==
  /\ AllPaths \subseteq Seq(STRING)
  /\ \A p \in AllPaths : p # Root => Front(p) \in AllPaths
  BY SortOrderAssumption DEF AllPaths

-----------------------------------------------------------------------------
(* The scores.                                                             *)

\* What a file system answers: a file has no file below it, and is not the folder.
NoFileBelowFile(L, st) ==
  \A p \in L : st[p] = "file" => p # Root /\ (Front(p) \in L => st[Front(p)] # "file")

Below(P, q) == {p \in P : IsStrictPrefix(q, p)}
FilesOf(P, d, st) == {p \in P : st[p] = "file" /\ Front(p) = d}

\* The invariant of the scoring loop after the paths P of the list L: a file has -1, a
\* reported directory at least dirVsFiles, and any other directory at least the number of
\* its files and at most that of the paths below it.
Scored(maps, P, L, st) ==
  /\ DOMAIN maps.score \subseteq AllPaths
  /\ \A q \in DOMAIN maps.score : maps.score[q] \in Int
  /\ \A q \in maps.dirs : ~(q \in L /\ st[q] = "file")
  /\ \A p \in P : /\ p \in DOMAIN maps.score
                  /\ st[p] = "file" => maps.score[p] = -1 /\ Front(p) \in DOMAIN maps.score
                  /\ st[p] # "file" => maps.score[p] >= DirVsFiles
  /\ \A q \in DOMAIN maps.score \ P :
       /\ ~(q \in L /\ st[q] = "file")
       /\ \E p \in P : st[p] = "file" /\ Front(p) = q
       /\ 1 <= maps.score[q] /\ maps.score[q] <= Cardinality(Below(P, q))
       /\ Cardinality(FilesOf(P, q, st)) <= maps.score[q]

\* Another path makes one more below each directory above it, and one more file of its
\* directory if it is a file.
LEMMA OneMoreBelow ==
  ASSUME NEW P, IsFiniteSet(P), NEW x, x \notin P, NEW q, NEW st
  PROVE  LET b == Cardinality(Below(P, q))
             f == Cardinality(FilesOf(P, q, st))
         IN  /\ b \in Nat /\ f \in Nat
             /\ Cardinality(Below(P \cup {x}, q)) = IF IsStrictPrefix(q, x) THEN b + 1 ELSE b
             /\ Cardinality(FilesOf(P \cup {x}, q, st))
                  = IF st[x] = "file" /\ Front(x) = q THEN f + 1 ELSE f
  <1> DEFINE B == Below(P, q)
             F == FilesOf(P, q, st)
  <1>1. B \subseteq P /\ F \subseteq P /\ x \notin B /\ x \notin F
    BY DEF Below, FilesOf
  <1>2. Below(P \cup {x}, q) = IF IsStrictPrefix(q, x) THEN B \cup {x} ELSE B
    BY DEF Below
  <1>3. FilesOf(P \cup {x}, q, st) = IF st[x] = "file" /\ Front(x) = q THEN F \cup {x} ELSE F
    BY DEF FilesOf
  <1> HIDE DEF B, F
  <1>4. IsFiniteSet(B) /\ IsFiniteSet(F)
    BY <1>1, FS_Subset
  <1>5. Cardinality(B) \in Nat /\ Cardinality(F) \in Nat
    BY <1>4, FS_CardinalityType
  <1>6. Cardinality(B \cup {x}) = Cardinality(B) + 1 /\ Cardinality(F \cup {x}) = Cardinality(F) + 1
    BY <1>1, <1>4, FS_AddElement
  <1> QED BY <1>2, <1>3, <1>5, <1>6 DEF B, F

\* One round of the loop.
LEMMA ScoreStep ==
  ASSUME NEW L, L \subseteq AllPaths, NEW st, NoFileBelowFile(L, st),
         NEW P, P \subseteq L, IsFiniteSet(P), NEW path \in L \ P,
         NEW maps, Scored(maps, P, L, st)
  PROVE  Scored(Score(maps, path, st), P \cup {path}, L, st)
  <1> DEFINE sc == maps.score
             isFile == st[path] = "file"
             dir == IF isFile THEN Front(path) ELSE path
             dirs == IF st[path] = "deleted" THEN maps.dirs ELSE maps.dirs \cup {dir}
             before(q) == IF q \in DOMAIN sc THEN sc[q] ELSE 0
             own(q) == IF q = path THEN IF isFile THEN -1 ELSE DirVsFiles
                       ELSE before(q) + IF isFile /\ q = dir THEN 1 ELSE 0
             inc(q) == IF q \in dirs /\ Under(dir, q) THEN 1 ELSE 0
             next == Score(maps, path, st)
             ns == next.score
             Q == P \cup {path}
             File(q) == q \in L /\ st[q] = "file"
  <1>1. next = [score |-> [q \in DOMAIN sc \cup {path, dir} |-> own(q) + inc(q)], dirs |-> dirs]
    BY DEF Score, Dir
  <1>2. /\ DOMAIN ns = DOMAIN sc \cup {path, dir}
        /\ \A q \in DOMAIN ns : ns[q] = own(q) + inc(q)
        /\ next.dirs = dirs
    <2> HIDE DEF next, own, inc, dirs, dir
    <2> QED BY <1>1
  <1>3. path \in L /\ path \notin P /\ path \in AllPaths /\ DirVsFiles \in Nat /\ DirVsFiles >= 1
    BY DirVsFilesAssumption
  <1>4. isFile => path # Root /\ Front(path) \in AllPaths /\ ~File(Front(path))
                  /\ IsStrictPrefix(Front(path), path)
    <2> SUFFICES ASSUME isFile PROVE path # Root /\ Front(path) \in AllPaths /\ ~File(Front(path))
                                     /\ IsStrictPrefix(Front(path), path)
      OBVIOUS
    <2>1. path # Root /\ ~File(Front(path))
      BY <1>3 DEF NoFileBelowFile
    <2> QED BY <2>1, <1>3, AllPathsClosed, FrontIsPrefix
  <1>5. dir \in AllPaths /\ (~isFile => dir = path) /\ (isFile => dir # path /\ ~File(dir))
    BY <1>3, <1>4 DEF IsStrictPrefix
  <1>6. ASSUME NEW q \in AllPaths, inc(q) # 0
        PROVE  /\ inc(q) = 1 /\ q # dir /\ q # path /\ q \in maps.dirs /\ IsStrictPrefix(q, path)
    <2>1. inc(q) = 1 /\ q \in dirs /\ IsStrictPrefix(q, dir) /\ q # dir
      BY <1>6 DEF Under, IsStrictPrefix
    <2>2. q \in maps.dirs
      BY <2>1
    <2>3. IsStrictPrefix(q, path)
      <3>1. CASE ~isFile
        BY <2>1, <3>1
      <3>2. CASE isFile
        <4>1. IsPrefix(q, dir) /\ IsPrefix(dir, path) /\ IsStrictPrefix(q, dir)
          BY <2>1, <3>2, <1>4 DEF IsStrictPrefix
        <4>2. q \in Seq(STRING) /\ dir \in Seq(STRING) /\ path \in Seq(STRING)
          BY <1>3, <1>5, AllPathsClosed
        <4> HIDE DEF dir
        <4> QED BY <4>1, <4>2, PrefixIsTransitive
      <3> QED BY <3>1, <3>2
    <2> QED BY <2>1, <2>2, <2>3 DEF IsStrictPrefix
  <1>7. \A q : inc(q) \in {0, 1}
    OBVIOUS
  <1>8. /\ DOMAIN sc \subseteq AllPaths
        /\ \A q \in DOMAIN sc : sc[q] \in Int
        /\ \A q \in maps.dirs : ~File(q)
        /\ \A p \in P : /\ p \in DOMAIN sc
                        /\ st[p] = "file" => sc[p] = -1 /\ Front(p) \in DOMAIN sc
                        /\ st[p] # "file" => sc[p] >= DirVsFiles
        /\ \A q \in DOMAIN sc \ P :
             /\ ~File(q)
             /\ \E p \in P : st[p] = "file" /\ Front(p) = q
             /\ 1 <= sc[q] /\ sc[q] <= Cardinality(Below(P, q))
             /\ Cardinality(FilesOf(P, q, st)) <= sc[q]
    BY DEF Scored
  <1>9. inc(path) = 0 /\ inc(dir) = 0
    BY <1>3, <1>5, <1>6, <1>7
  <1>10. ASSUME NEW q \in DOMAIN ns
         PROVE  /\ ns[q] = own(q) + inc(q) /\ q \in AllPaths
                /\ q = path => ns[q] = IF isFile THEN -1 ELSE DirVsFiles
                /\ q # path /\ q = dir => isFile /\ ns[q] = before(q) + 1
                /\ q # path /\ q # dir => q \in DOMAIN sc /\ ns[q] = sc[q] + inc(q)
    <2>1. q \in AllPaths /\ ns[q] = own(q) + inc(q) /\ q \in DOMAIN sc \cup {path, dir}
      BY <1>2, <1>3, <1>5, <1>8
    <2>2. before(q) \in Int /\ inc(q) \in Int
      BY <1>8, <1>7
    <2>3. CASE q = path
      <3>1. own(q) = IF isFile THEN -1 ELSE DirVsFiles
        BY <2>3
      <3>2. inc(q) = 0
        BY <2>3, <1>9
      <3> HIDE DEF own, inc, ns, before, dir
      <3> QED BY <2>1, <2>3, <3>1, <3>2, <1>3
    <2>4. CASE q # path /\ q = dir
      <3>1. isFile /\ own(q) = before(q) + 1
        BY <2>4, <1>5
      <3>2. inc(q) = 0
        BY <2>4, <1>9
      <3> HIDE DEF own, inc, ns, before, dir
      <3> QED BY <2>1, <2>2, <2>4, <3>1, <3>2
    <2>5. CASE q # path /\ q # dir
      <3>1. q \in DOMAIN sc /\ before(q) = sc[q]
        BY <2>1, <2>5
      <3>2. own(q) = before(q) + 0
        BY <2>5
      <3> HIDE DEF own, inc, ns, before, dir
      <3> QED BY <2>1, <2>2, <2>5, <3>1, <3>2
    <2> QED BY <2>3, <2>4, <2>5
  <1> HIDE DEF ns, own, inc
  <1>11. DOMAIN ns \subseteq AllPaths /\ \A q \in DOMAIN ns : ns[q] \in Int
    <2>1. \A q : before(q) \in Int
      BY <1>8
    <2>2. ASSUME NEW q \in DOMAIN ns PROVE ns[q] \in Int
      <3> HIDE DEF before, dir
      <3>1. q \in DOMAIN sc => sc[q] \in Int
        BY <1>8
      <3> QED BY <3>1, <2>1, <1>3, <1>7, <1>10
    <2> QED BY <2>2, <1>10
  <1>12. \A q \in dirs : ~File(q)
    <2>1. dirs # maps.dirs => ~File(dir)
      BY <1>5
    <2> QED BY <2>1, <1>8
  <1>13. ASSUME NEW p \in Q
         PROVE  /\ p \in DOMAIN ns
                /\ st[p] = "file" => ns[p] = -1 /\ Front(p) \in DOMAIN ns
                /\ st[p] # "file" => ns[p] >= DirVsFiles
    <2>1. CASE p = path
      <3>1. p \in DOMAIN ns /\ (isFile => Front(p) \in DOMAIN ns)
        BY <2>1, <1>2
      <3> QED BY <2>1, <3>1, <1>3, <1>10
    <2>2. CASE p \in P
      <3>1. p # path /\ p \in L /\ p \in DOMAIN sc /\ p \in DOMAIN ns /\ sc[p] \in Int
        BY <2>2, <1>2, <1>3, <1>8
      <3>2. CASE st[p] = "file"
        <4>1. p # dir
          BY <3>1, <3>2, <1>5
        <4>2. inc(p) = 0
          BY <3>1, <3>2, <1>6, <1>8, <1>10
        <4>3. sc[p] = -1 /\ Front(p) \in DOMAIN sc /\ Front(p) \in DOMAIN ns
          BY <2>2, <3>2, <1>2, <1>8
        <4> HIDE DEF dir
        <4> QED BY <3>1, <3>2, <4>1, <4>2, <4>3, <1>10
      <3>3. CASE st[p] # "file"
        <4>1. sc[p] >= DirVsFiles
          BY <2>2, <3>3, <1>8
        <4>2. before(p) = sc[p]
          BY <3>1
        <4>3. ns[p] = sc[p] + 1 \/ ns[p] = sc[p] + inc(p)
          BY <3>1, <4>2, <1>10
        <4>4. inc(p) \in {0, 1}
          BY <1>7
        <4> HIDE DEF dir
        <4> QED BY <3>1, <3>3, <4>1, <4>3, <4>4, <1>3
      <3> QED BY <3>2, <3>3
    <2> QED BY <2>1, <2>2
  <1>14. ASSUME NEW q \in DOMAIN ns \ Q
         PROVE  /\ ~File(q)
                /\ \E p \in Q : st[p] = "file" /\ Front(p) = q
                /\ 1 <= ns[q] /\ ns[q] <= Cardinality(Below(Q, q))
                /\ Cardinality(FilesOf(Q, q, st)) <= ns[q]
    <2> DEFINE b == Cardinality(Below(P, q))
               f == Cardinality(FilesOf(P, q, st))
    <2>1. /\ b \in Nat /\ f \in Nat
          /\ Cardinality(Below(Q, q)) = IF IsStrictPrefix(q, path) THEN b + 1 ELSE b
          /\ Cardinality(FilesOf(Q, q, st)) = IF isFile /\ Front(path) = q THEN f + 1 ELSE f
      <3> HIDE DEF dir, sc, next, ns, inc, own, dirs, before, File
      <3>1. path \notin P /\ IsFiniteSet(P)
        BY <1>3
      <3> QED BY <3>1, OneMoreBelow
    <2>2. q # path /\ q \notin P
      OBVIOUS
    <2>3. q \in DOMAIN sc => ~File(q) /\ 1 <= sc[q] /\ sc[q] <= b /\ f <= sc[q] /\ sc[q] \in Int
      BY <2>2, <1>8
    <2>a. \E p \in Q : st[p] = "file" /\ Front(p) = q
      <3>1. CASE q = dir
        <4>1. isFile /\ q = Front(path)
          BY <2>2, <3>1
        <4> QED BY <4>1
      <3>2. CASE q # dir
        <4>1. q \in DOMAIN sc \ P
          BY <2>2, <3>2, <1>10
        <4> QED BY <4>1, <1>8
      <3> QED BY <3>1, <3>2
    <2>4. CASE q = dir
      <3>1. isFile /\ q = Front(path) /\ ~File(q) /\ IsStrictPrefix(q, path)
            /\ ns[q] = before(q) + 1
        BY <2>2, <2>4, <1>4, <1>5, <1>10
      <3>2. q \notin DOMAIN sc => f = 0
        <4>1. q \notin DOMAIN sc => FilesOf(P, q, st) = {}
          BY <1>8 DEF FilesOf
        <4> QED BY <4>1, FS_EmptySet
      <3>3. q \in DOMAIN sc => before(q) = sc[q]
        OBVIOUS
      <3>4. q \notin DOMAIN sc => before(q) = 0
        OBVIOUS
      <3> HIDE DEF b, f, dir, before
      <3> QED BY <3>1, <3>2, <3>3, <3>4, <2>a, <2>1, <2>3
    <2>5. CASE q # dir
      <3>1. q \in DOMAIN sc /\ ns[q] = sc[q] + inc(q) /\ q \in AllPaths
        BY <2>2, <2>5, <1>10
      <3>2. isFile => Front(path) # q
        BY <2>5
      <3>3. inc(q) = 0 \/ (inc(q) = 1 /\ IsStrictPrefix(q, path))
        BY <3>1, <1>6, <1>7
      <3> HIDE DEF b, f, dir
      <3> QED BY <3>1, <3>2, <3>3, <2>a, <2>1, <2>3
    <2> QED BY <2>4, <2>5
  <1>15. \A X : Scored(next, Q, L, st) <=>
           /\ DOMAIN ns \subseteq AllPaths
           /\ \A q \in DOMAIN ns : ns[q] \in Int
           /\ \A q \in next.dirs : ~File(q)
           /\ \A p \in Q : /\ p \in DOMAIN ns
                           /\ st[p] = "file" => ns[p] = -1 /\ Front(p) \in DOMAIN ns
                           /\ st[p] # "file" => ns[p] >= DirVsFiles
           /\ \A q \in DOMAIN ns \ Q :
                /\ ~File(q)
                /\ \E p \in Q : st[p] = "file" /\ Front(p) = q
                /\ 1 <= ns[q] /\ ns[q] <= Cardinality(Below(Q, q))
                /\ Cardinality(FilesOf(Q, q, st)) <= ns[q]
    BY DEF Scored, ns
  <1>16. next.dirs = dirs
    BY <1>2
  <1> HIDE DEF next, dirs, Q, File
  <1> QED
    <2>1. Scored(next, Q, L, st)
      BY <1>11, <1>12, <1>13, <1>14, <1>15, <1>16
    <2> QED BY <2>1 DEF next, Q

-----------------------------------------------------------------------------
(* The lists both loops run over.                                          *)

LEMMA SortedKeys ==
  ASSUME NEW D, D \subseteq AllPaths
  PROVE  /\ Sorted(D) \in Seq(D)
         /\ \A p \in D : \E i \in 1..Len(Sorted(D)) : Sorted(D)[i] = p
         /\ \A i, j \in 1..Len(Sorted(D)) : Sorted(D)[i] = Sorted(D)[j] => i = j
  <1> DEFINE s == Sorted(D)
  <1>1. /\ SortOrder \in Seq(AllPaths) /\ DOMAIN SortOrder = 1..Len(SortOrder)
        /\ \A i, j \in 1..Len(SortOrder) : SortOrder[i] = SortOrder[j] => i = j
    <2>1. SortOrder \in Seq(Seq(STRING)) /\ DOMAIN SortOrder = 1..Len(SortOrder)
          /\ Len(SortOrder) \in Nat
      BY SortOrderAssumption
    <2>2. SortOrder \in [1..Len(SortOrder) -> AllPaths]
      BY <2>1 DEF AllPaths
    <2>3. SortOrder \in Seq(AllPaths)
      BY <2>1, <2>2
    <2> QED BY <2>1, <2>3, SortOrderAssumption
  <1>2. /\ s \in Seq(AllPaths \cap D)
        /\ \A j \in 1..Len(SortOrder) : SortOrder[j] \in D =>
             \E i \in 1..Len(s) : s[i] = SortOrder[j]
    <2>1. s = Kept(SortOrder, D) /\ SortOrder \in Seq(AllPaths)
      BY <1>1 DEF Sorted
    <2> HIDE DEF s
    <2>2. s \in Seq(AllPaths \cap D)
      BY <2>1, KeptIsSubsequence
    <2> QED BY <2>1, <2>2, KeptIsSubsequence
  <1>3. PICK at \in [1..Len(s) -> 1..Len(SortOrder)] :
          /\ \A i \in 1..Len(s) : s[i] = SortOrder[at[i]]
          /\ \A i, j \in 1..Len(s) : i < j => at[i] < at[j]
    BY <1>1, KeptIsSubsequence DEF Sorted
  <1> HIDE DEF s
  <1>4. s \in Seq(D)
    BY <1>2
  <1>5. ASSUME NEW p \in D PROVE \E i \in 1..Len(s) : s[i] = p
    <2>1. PICK j \in 1..Len(SortOrder) : SortOrder[j] = p
      BY <1>1 DEF AllPaths
    <2> QED BY <2>1, <1>2
  <1>6. ASSUME NEW i \in 1..Len(s), NEW j \in 1..Len(s), s[i] = s[j] PROVE i = j
    <2>1. at[i] = at[j] /\ at[i] \in Nat
      BY <1>1, <1>3, <1>6
    <2>2. ~(i < j) /\ ~(j < i)
      BY <1>3, <2>1
    <2> QED BY <2>2
  <1> QED BY <1>4, <1>5, <1>6 DEF s

\* sortedUniqueAndCleanPaths leaves every path but the folder's own as it is, and lists
\* none twice.
LEMMA ListOfBatch ==
  ASSUME NEW paths, paths \subseteq AllPaths \ {Root}
  PROVE  LET l == SortedUniqueAndCleanPaths(paths)
         IN  /\ Len(l) \in Nat
             /\ \A i \in 1..Len(l) : /\ l[i] \in AllPaths
                                     /\ l[i] \in paths \ {Dot} \/ (l[i] = Root /\ Dot \in paths)
             /\ \A i, j \in 1..Len(l) : l[i] = l[j] => i = j
             /\ \A p \in paths \ {Dot} : \E i \in 1..Len(l) : l[i] = p
  <1> DEFINE s == Sorted(paths)
             l == SortedUniqueAndCleanPaths(paths)
             t == [i \in DOMAIN s |-> IF s[i] = Dot THEN Root ELSE s[i]]
             Good(u) ==
               /\ Len(u) \in Nat
               /\ \A i \in 1..Len(u) : /\ u[i] \in AllPaths
                                       /\ u[i] \in paths \ {Dot} \/ (u[i] = Root /\ Dot \in paths)
               /\ \A i, j \in 1..Len(u) : u[i] = u[j] => i = j
               /\ \A p \in paths \ {Dot} : \E i \in 1..Len(u) : u[i] = p
  <1> SUFFICES Good(l)
    OBVIOUS
  <1>1. /\ s \in Seq(paths)
        /\ \A p \in paths : \E i \in 1..Len(s) : s[i] = p
        /\ \A i, j \in 1..Len(s) : s[i] = s[j] => i = j
    BY SortedKeys
  <1>2. l = IF s # <<>> /\ Head(s) = Dot THEN Tail(s) ELSE t
    BY DEF SortedUniqueAndCleanPaths
  <1>3. Dot # Root /\ (Dot \in paths => Root \in AllPaths)
    <2>1. Len(Dot) = 1 /\ Len(Root) = 0
      BY DEF Dot, Root
    <2>2. Dot # Root
      <3> SUFFICES ASSUME Dot = Root PROVE FALSE
        OBVIOUS
      <3> QED BY <2>1
    <2>3. ASSUME Dot \in paths PROVE Root \in AllPaths
      <3>1. Dot \in AllPaths /\ Dot \in Seq(STRING)
        BY <2>3, AllPathsClosed
      <3>2. Front(Dot) \in Seq(STRING) /\ Len(Front(Dot)) = 1 - 1
        BY <2>1, <2>2, <3>1, FrontIsPrefix
      <3>3. Front(Dot) = Root
        BY <3>2 DEF Root
      <3> QED BY <2>2, <3>1, <3>3, AllPathsClosed
    <2> QED BY <2>2, <2>3
  <1> HIDE DEF s, l
  <1>4. CASE s # <<>> /\ Head(s) = Dot
    <2>1. /\ l = Tail(s) /\ Len(s) \in Nat /\ Len(s) >= 1 /\ Len(l) = Len(s) - 1
          /\ \A i \in 1..Len(l) : l[i] = s[i + 1] /\ i + 1 \in 1..Len(s)
          /\ s[1] = Dot /\ 1 \in 1..Len(s)
      BY <1>1, <1>2, <1>4
    <2>2. \A i \in 1..Len(s) : s[i] \in paths
      BY <1>1
    <2>3. \A i \in 1..Len(l) : l[i] \in paths \ {Dot}
      <3> SUFFICES ASSUME NEW i \in 1..Len(l) PROVE l[i] \in paths \ {Dot}
        OBVIOUS
      <3>1. i + 1 # 1
        OBVIOUS
      <3> QED BY <3>1, <2>1, <2>2, <1>1
    <2>4. ASSUME NEW i \in 1..Len(l), NEW j \in 1..Len(l), l[i] = l[j] PROVE i = j
      <3>1. i + 1 = j + 1
        BY <2>1, <2>4, <1>1
      <3> QED BY <3>1
    <2>5. ASSUME NEW p \in paths \ {Dot} PROVE \E i \in 1..Len(l) : l[i] = p
      <3>1. PICK k \in 1..Len(s) : s[k] = p
        BY <1>1
      <3>2. k - 1 \in 1..Len(l) /\ (k - 1) + 1 = k
        BY <3>1, <2>1
      <3> QED BY <3>1, <3>2, <2>1
    <2>6. \A i \in 1..Len(l) : l[i] \in AllPaths
      BY <2>3
    <2>7. Len(l) \in Nat
      BY <2>1
    <2> QED BY <2>3, <2>4, <2>5, <2>6, <2>7
  <1>5. CASE ~(s # <<>> /\ Head(s) = Dot)
    <2>1. /\ l = t /\ DOMAIN s = 1..Len(s) /\ Len(s) \in Nat
          /\ \A i \in 1..Len(s) : s[i] \in paths
      BY <1>1, <1>2, <1>5
    <2>2. /\ Len(l) = Len(s)
          /\ \A i \in 1..Len(s) : l[i] = IF s[i] = Dot THEN Root ELSE s[i]
      BY <2>1
    <2>3. \A i \in 1..Len(l) : /\ l[i] \in AllPaths
                               /\ l[i] \in paths \ {Dot} \/ (l[i] = Root /\ Dot \in paths)
      BY <2>1, <2>2, <1>3
    <2>4. \A i, j \in 1..Len(l) : l[i] = l[j] => s[i] = s[j]
      BY <2>1, <2>2
    <2>5. \A p \in paths \ {Dot} : \E i \in 1..Len(l) : l[i] = p
      <3> SUFFICES ASSUME NEW p \in paths \ {Dot} PROVE \E i \in 1..Len(l) : l[i] = p
        OBVIOUS
      <3>1. PICK i \in 1..Len(s) : s[i] = p
        BY <1>1
      <3>2. l[i] = p
        BY <3>1, <2>2
      <3> QED BY <3>2, <2>2
    <2>6. \A i, j \in 1..Len(l) : l[i] = l[j] => i = j
      BY <2>2, <2>4, <1>1
    <2>7. Len(l) \in Nat
      BY <2>1, <2>2
    <2> QED BY <2>3, <2>5, <2>6, <2>7
  <1> QED BY <1>4, <1>5

-----------------------------------------------------------------------------
(* The rounds of the loops.                                                *)

LEMMA ScoreRounds ==
  ASSUME NEW paths, NEW st, Len(SortedUniqueAndCleanPaths(paths)) \in Nat
  PROVE  LET l == SortedUniqueAndCleanPaths(paths)
         IN  \E k : /\ k[0] = [score |-> <<>>, dirs |-> {}]
                    /\ \A n \in 1..Len(l) : k[n] = Score(k[n - 1], l[n], st)
                    /\ Scores(paths, st) = k[Len(l)].score
  <1> DEFINE l == SortedUniqueAndCleanPaths(paths)
             Round(k, n) == IF n = 0 THEN [score |-> <<>>, dirs |-> {}]
                            ELSE Score(k[n - 1], l[n], st)
             T == {m \in 0..Len(l) : \E k : k = [n \in 0..m |-> Round(k, n)]}
             maps == CHOOSE k : k = [n \in 0..Len(l) |-> Round(k, n)]
  <1>0. Scores(paths, st) = maps[Len(l)].score
    BY DEF Scores
  <1> HIDE DEF l
  <1>a. Len(l) \in Nat
    BY DEF l
  <1>1. 0 \in T
    <2> DEFINE k0 == [n \in 0..0 |-> [score |-> <<>>, dirs |-> {}]]
    <2>1. k0 = [n \in 0..0 |-> Round(k0, n)]
      OBVIOUS
    <2> HIDE DEF k0, Round
    <2> QED BY <2>1, <1>a
  <1>2. ASSUME NEW m \in 1..Len(l), m - 1 \in T PROVE m \in T
    <2>1. PICK k : k = [n \in 0..(m - 1) |-> Round(k, n)]
      BY <1>2
    <2> DEFINE j == [n \in 0..m |-> IF n = m THEN Round(k, m) ELSE k[n]]
    <2>2. ASSUME NEW n \in 0..m PROVE j[n] = Round(j, n)
      <3>1. n # 0 => j[n - 1] = k[n - 1]
        BY <1>a
      <3>2. n # m => j[n] = k[n] /\ k[n] = Round(k, n)
        <4> SUFFICES ASSUME n # m PROVE j[n] = k[n] /\ k[n] = Round(k, n)
          OBVIOUS
        <4>1. n \in 0..(m - 1)
          BY <1>a
        <4> HIDE DEF Round
        <4>2. k[n] = Round(k, n)
          BY <4>1, <2>1
        <4> QED BY <4>2
      <3>3. n = m => j[n] = Round(k, n)
        OBVIOUS
      <3>4. Round(j, n) = Round(k, n)
        <4> HIDE DEF j
        <4> QED BY <3>1
      <3> HIDE DEF j, Round
      <3> QED BY <3>2, <3>3, <3>4
    <2>3. j = [n \in 0..m |-> Round(j, n)]
      <3> HIDE DEF Round
      <3>1. \A n \in 0..m : j[n] = Round(j, n)
        BY <2>2
      <3>2. j = [n \in 0..m |-> j[n]]
        OBVIOUS
      <3> HIDE DEF j
      <3> QED BY <3>1, <3>2
    <2>4. m \in 0..Len(l)
      BY <1>a
    <2> HIDE DEF j, Round
    <2> QED BY <2>3, <2>4
  <1>3. Len(l) \in T
    <2> HIDE DEF T
    <2>1. 0..Len(l) \subseteq T
      BY <1>1, <1>2, <1>a, IntervalInduction
    <2> QED BY <2>1, <1>a
  <1>4. maps = [n \in 0..Len(l) |-> Round(maps, n)]
    <2>1. \E k : k = [n \in 0..Len(l) |-> Round(k, n)]
      BY <1>3
    <2> HIDE DEF Round
    <2> QED BY <2>1
  <1> HIDE DEF maps
  <1>6. maps[0] = [score |-> <<>>, dirs |-> {}]
    BY <1>4, <1>a
  <1>7. ASSUME NEW n \in 1..Len(l) PROVE maps[n] = Score(maps[n - 1], l[n], st)
    <2>1. n \in 0..Len(l) /\ n # 0
      BY <1>a
    <2> QED BY <1>4, <2>1
  <1> QED BY <1>0, <1>6, <1>7 DEF l

\* The scores of a batch are those after its last path.
Consistent(paths, st) ==
  /\ st[Root] # "file" /\ (Dot \in paths => st[Dot] # "file")
  /\ \A p, q \in paths : IsStrictPrefix(p, q) /\ st[q] = "file" => st[p] # "file"

LEMMA ScoresOfBatch ==
  ASSUME NEW paths, paths \subseteq AllPaths \ {Root}, NEW st, Consistent(paths, st)
  PROVE  \E L, maps :
           /\ L \subseteq AllPaths /\ IsFiniteSet(L) /\ paths \ {Dot} \subseteq L
           /\ \A p \in L : p \in paths \ {Dot} \/ (p = Root /\ Dot \in paths)
           /\ Scored(maps, L, L, st) /\ Scores(paths, st) = maps.score
  <1> DEFINE l == SortedUniqueAndCleanPaths(paths)
             After(n) == {l[i] : i \in 1..n}
             L == After(Len(l))
  <1>1. /\ Len(l) \in Nat
        /\ \A i \in 1..Len(l) : /\ l[i] \in AllPaths
                                /\ l[i] \in paths \ {Dot} \/ (l[i] = Root /\ Dot \in paths)
        /\ \A i, j \in 1..Len(l) : l[i] = l[j] => i = j
        /\ \A p \in paths \ {Dot} : \E i \in 1..Len(l) : l[i] = p
    BY ListOfBatch
  <1>2. PICK k : /\ k[0] = [score |-> <<>>, dirs |-> {}]
                 /\ \A n \in 1..Len(l) : k[n] = Score(k[n - 1], l[n], st)
                 /\ Scores(paths, st) = k[Len(l)].score
    BY <1>1, ScoreRounds
  <1> HIDE DEF l
  <1>3. L \subseteq AllPaths /\ paths \ {Dot} \subseteq L
        /\ \A p \in L : p \in paths \ {Dot} \/ (p = Root /\ Dot \in paths)
    BY <1>1
  <1>4. NoFileBelowFile(L, st)
    <2> SUFFICES ASSUME NEW p \in L, st[p] = "file"
                 PROVE  p # Root /\ (Front(p) \in L => st[Front(p)] # "file")
      BY DEF NoFileBelowFile
    <2>1. p # Root /\ p \in paths
      BY <1>3 DEF Consistent
    <2>2. IsStrictPrefix(Front(p), p)
      BY <2>1, AllPathsClosed, FrontIsPrefix
    <2>3. CASE Front(p) = Root
      BY <2>1, <2>3 DEF Consistent
    <2>4. CASE Front(p) \in L /\ Front(p) # Root
      BY <2>1, <2>2, <2>4, <1>3 DEF Consistent
    <2> QED BY <2>1, <2>3, <2>4
  <1> DEFINE T == {n \in 0..Len(l) : IsFiniteSet(After(n)) /\ Scored(k[n], After(n), L, st)}
  <1>5. 0 \in T
    <2>1. After(0) = {}
      OBVIOUS
    <2>2. k[0].score = <<>> /\ k[0].dirs = {} /\ DOMAIN <<>> = {}
      BY <1>2
    <2>3. Scored(k[0], {}, L, st)
      BY <2>2 DEF Scored
    <2>4. 0 \in 0..Len(l) /\ IsFiniteSet({})
      BY <1>1, FS_EmptySet
    <2> HIDE DEF After, L
    <2> QED BY <2>1, <2>3, <2>4
  <1>6. ASSUME NEW n \in 1..Len(l), n - 1 \in T PROVE n \in T
    <2>1. n - 1 \in 0..Len(l) /\ n \in 0..Len(l) /\ IsFiniteSet(After(n - 1))
          /\ Scored(k[n - 1], After(n - 1), L, st)
      BY <1>1, <1>6
    <2>2. After(n) = After(n - 1) \cup {l[n]}
      <3>1. 1..n = (1..(n - 1)) \cup {n}
        BY <1>1
      <3> QED BY <3>1
    <2>3. After(n - 1) \subseteq L /\ l[n] \in L \ After(n - 1)
      <3>1. \A i \in 1..(n - 1) : i \in 1..Len(l) /\ i # n
        BY <1>1
      <3>2. After(n - 1) \subseteq L /\ l[n] \in L
        BY <3>1
      <3>3. l[n] \notin After(n - 1)
        BY <3>1, <1>1
      <3> QED BY <3>2, <3>3
    <2>4. k[n] = Score(k[n - 1], l[n], st)
      BY <1>2
    <2> HIDE DEF After, L
    <2>5. Scored(k[n], After(n), L, st)
      BY <2>1, <2>2, <2>3, <2>4, <1>3, <1>4, ScoreStep
    <2>6. IsFiniteSet(After(n))
      <3>1. IsFiniteSet(After(n - 1))
        BY <2>1
      <3>2. IsFiniteSet(After(n - 1) \cup {l[n]})
        BY <3>1, FS_AddElement
      <3> QED BY <2>2, <3>2
    <2> QED BY <2>1, <2>5, <2>6
  <1>7. Len(l) \in T
    <2> HIDE DEF T
    <2>1. 0..Len(l) \subseteq T
      BY <1>1, <1>5, <1>6, IntervalInduction
    <2> QED BY <2>1, <1>1
  <1>8. IsFiniteSet(L) /\ Scored(k[Len(l)], L, L, st)
    BY <1>7
  <1> DEFINE maps == k[Len(l)]
  <1>9. Scores(paths, st) = maps.score /\ Scored(maps, L, L, st)
    BY <1>2, <1>8
  <1> HIDE DEF L, maps
  <1> WITNESS L, maps
  <1> QED BY <1>3, <1>8, <1>9

-----------------------------------------------------------------------------
(* The selection.                                                          *)

LEMMA SelectRounds ==
  ASSUME NEW paths, NEW st, Len(Sorted(DOMAIN Scores(paths, st))) \in Nat
  PROVE  LET score == Scores(paths, st)
             keys  == Sorted(DOMAIN score)
         IN  \E k : /\ k[0] = [scans |-> {}, previousPath |-> Root, done |-> FALSE]
                    /\ \A n \in 1..Len(keys) : k[n] = Select(k[n - 1], keys[n], score)
                    /\ AggregateChanges(paths, st) = k[Len(keys)].scans
  <1> DEFINE score == Scores(paths, st)
             keys == Sorted(DOMAIN score)
             Round(k, n) == IF n = 0 THEN [scans |-> {}, previousPath |-> Root, done |-> FALSE]
                            ELSE Select(k[n - 1], keys[n], score)
             T == {m \in 0..Len(keys) : \E k : k = [n \in 0..m |-> Round(k, n)]}
             sel == CHOOSE k : k = [n \in 0..Len(keys) |-> Round(k, n)]
  <1>0. AggregateChanges(paths, st) = sel[Len(keys)].scans
    BY DEF AggregateChanges
  <1>a. Len(keys) \in Nat
    OBVIOUS
  <1> HIDE DEF keys, score
  <1>1. 0 \in T
    <2> DEFINE k0 == [n \in 0..0 |-> [scans |-> {}, previousPath |-> Root, done |-> FALSE]]
    <2>1. k0 = [n \in 0..0 |-> Round(k0, n)]
      OBVIOUS
    <2> HIDE DEF k0, Round
    <2> QED BY <2>1, <1>a
  <1>2. ASSUME NEW m \in 1..Len(keys), m - 1 \in T PROVE m \in T
    <2>1. PICK k : k = [n \in 0..(m - 1) |-> Round(k, n)]
      BY <1>2
    <2> DEFINE j == [n \in 0..m |-> IF n = m THEN Round(k, m) ELSE k[n]]
    <2>2. ASSUME NEW n \in 0..m PROVE j[n] = Round(j, n)
      <3>1. n # 0 => j[n - 1] = k[n - 1]
        BY <1>a
      <3>2. n # m => j[n] = k[n] /\ k[n] = Round(k, n)
        <4> SUFFICES ASSUME n # m PROVE j[n] = k[n] /\ k[n] = Round(k, n)
          OBVIOUS
        <4>1. n \in 0..(m - 1)
          BY <1>a
        <4> HIDE DEF Round
        <4>2. k[n] = Round(k, n)
          BY <4>1, <2>1
        <4> QED BY <4>2
      <3>3. n = m => j[n] = Round(k, n)
        OBVIOUS
      <3>4. Round(j, n) = Round(k, n)
        <4> HIDE DEF j
        <4> QED BY <3>1
      <3> HIDE DEF j, Round
      <3> QED BY <3>2, <3>3, <3>4
    <2>3. j = [n \in 0..m |-> Round(j, n)]
      <3> HIDE DEF Round
      <3>1. \A n \in 0..m : j[n] = Round(j, n)
        BY <2>2
      <3>2. j = [n \in 0..m |-> j[n]]
        OBVIOUS
      <3> HIDE DEF j
      <3> QED BY <3>1, <3>2
    <2>4. m \in 0..Len(keys)
      BY <1>a
    <2> HIDE DEF j, Round
    <2> QED BY <2>3, <2>4
  <1>3. Len(keys) \in T
    <2> HIDE DEF T
    <2>1. 0..Len(keys) \subseteq T
      BY <1>1, <1>2, <1>a, IntervalInduction
    <2> QED BY <2>1, <1>a
  <1>4. sel = [n \in 0..Len(keys) |-> Round(sel, n)]
    <2>1. \E k : k = [n \in 0..Len(keys) |-> Round(k, n)]
      BY <1>3
    <2> HIDE DEF Round
    <2> QED BY <2>1
  <1> HIDE DEF sel
  <1>6. sel[0] = [scans |-> {}, previousPath |-> Root, done |-> FALSE]
    BY <1>4, <1>a
  <1>7. ASSUME NEW n \in 1..Len(keys) PROVE sel[n] = Select(sel[n - 1], keys[n], score)
    <2>1. n \in 0..Len(keys) /\ n # 0
      BY <1>a
    <2> QED BY <1>4, <2>1
  <1> QED BY <1>0, <1>6, <1>7 DEF keys, score

\* What the selection loop keeps true after the keys P.
Selecting(sel, P, score) ==
  /\ \A s \in sel.scans : s \in DOMAIN score /\ ~TooFew(score[s])
  /\ sel.previousPath = Root \/ sel.previousPath \in sel.scans
  /\ sel.done => Root \in sel.scans
  /\ \A q \in P : ~TooFew(score[q]) => \E s \in sel.scans : IsPrefix(s, q)

LEMMA SelectStep ==
  ASSUME NEW score, DOMAIN score \subseteq AllPaths,
         NEW P, NEW path \in DOMAIN score, NEW sel, Selecting(sel, P, score)
  PROVE  Selecting(Select(sel, path, score), P \cup {path}, score)
  <1>1. path \in Seq(STRING)
    BY AllPathsClosed
  <1>2. CASE sel.done \/ Under(path, sel.previousPath) \/ TooFew(score[path])
    <2>1. Select(sel, path, score) = sel
      BY <1>2 DEF Select
    <2>2. ~TooFew(score[path]) => \E s \in sel.scans : IsPrefix(s, path)
      <3>1. CASE sel.done
        BY <3>1, <1>1, RootIsPrefix DEF Selecting
      <3>2. CASE Under(path, sel.previousPath)
        BY <3>2 DEF Selecting, Under, IsStrictPrefix
      <3> QED BY <1>2, <3>1, <3>2
    <2> QED BY <2>1, <2>2 DEF Selecting
  <1>3. CASE ~(sel.done \/ Under(path, sel.previousPath) \/ TooFew(score[path]))
    <2> DEFINE next == [scans |-> sel.scans \cup {path}, previousPath |-> path, done |-> path = Root]
    <2>1. Select(sel, path, score) = next
      BY <1>3 DEF Select
    <2>2. IsPrefix(path, path)
      BY <1>1, RootIsPrefix
    <2>3. /\ next.scans = sel.scans \cup {path} /\ next.previousPath = path
          /\ next.done => path = Root
      OBVIOUS
    <2> HIDE DEF next
    <2>4. Selecting(next, P \cup {path}, score)
      BY <2>2, <2>3, <1>3 DEF Selecting
    <2> QED BY <2>1, <2>4
  <1> QED BY <1>2, <1>3

\* The scans are the keys with enough changes that have none of them above.
LEMMA ScansOfScores ==
  ASSUME NEW paths, NEW st, DOMAIN Scores(paths, st) \subseteq AllPaths
  PROVE  LET score == Scores(paths, st)
             scans == AggregateChanges(paths, st)
         IN  /\ \A s \in scans : s \in DOMAIN score /\ ~TooFew(score[s])
             /\ \A q \in DOMAIN score : ~TooFew(score[q]) => \E s \in scans : IsPrefix(s, q)
  <1> DEFINE score == Scores(paths, st)
             keys == Sorted(DOMAIN score)
             scans == AggregateChanges(paths, st)
             After(n) == {keys[i] : i \in 1..n}
  <1>1. /\ keys \in Seq(DOMAIN score)
        /\ \A q \in DOMAIN score : \E i \in 1..Len(keys) : keys[i] = q
    BY SortedKeys
  <1>2. Len(keys) \in Nat /\ \A i \in 1..Len(keys) : keys[i] \in DOMAIN score
    <2> HIDE DEF keys, score
    <2> QED BY <1>1
  <1>3. PICK k : /\ k[0] = [scans |-> {}, previousPath |-> Root, done |-> FALSE]
                 /\ \A n \in 1..Len(keys) : k[n] = Select(k[n - 1], keys[n], score)
                 /\ scans = k[Len(keys)].scans
    BY <1>2, SelectRounds
  <1>4. DOMAIN score \subseteq AllPaths
    OBVIOUS
  <1> DEFINE T == {n \in 0..Len(keys) : Selecting(k[n], After(n), score)}
  <1> HIDE DEF keys, score, scans
  <1>5. 0 \in T
    <2>1. After(0) = {}
      OBVIOUS
    <2>2. k[0].scans = {} /\ k[0].previousPath = Root /\ k[0].done = FALSE
      BY <1>3
    <2>3. Selecting(k[0], {}, score)
      BY <2>2 DEF Selecting
    <2>4. 0 \in 0..Len(keys)
      BY <1>2
    <2> HIDE DEF After
    <2> QED BY <2>1, <2>3, <2>4
  <1>6. ASSUME NEW n \in 1..Len(keys), n - 1 \in T PROVE n \in T
    <2>1. n \in 0..Len(keys) /\ Selecting(k[n - 1], After(n - 1), score)
      BY <1>2, <1>6
    <2>2. After(n) = After(n - 1) \cup {keys[n]}
      <3>1. 1..n = (1..(n - 1)) \cup {n}
        BY <1>2
      <3> QED BY <3>1
    <2>3. k[n] = Select(k[n - 1], keys[n], score)
      BY <1>3
    <2> HIDE DEF After
    <2>4. Selecting(k[n], After(n), score)
      BY <2>1, <2>2, <2>3, <1>2, <1>4, SelectStep
    <2> QED BY <2>1, <2>4
  <1>7. Selecting(k[Len(keys)], After(Len(keys)), score)
    <2> HIDE DEF T
    <2>1. 0..Len(keys) \subseteq T
      BY <1>2, <1>5, <1>6, IntervalInduction
    <2>2. Len(keys) \in T
      BY <2>1, <1>2
    <2> QED BY <2>2 DEF T
  <1>8. \A q \in DOMAIN score : q \in After(Len(keys))
    BY <1>1
  <1> HIDE DEF After
  <1>9. /\ \A s \in scans : s \in DOMAIN score /\ ~TooFew(score[s])
        /\ \A q \in DOMAIN score : ~TooFew(score[q]) => \E s \in scans : IsPrefix(s, q)
    BY <1>3, <1>7, <1>8 DEF Selecting
  <1> QED BY <1>9 DEF score, scans

-----------------------------------------------------------------------------
(* What comes out.                                                         *)

\* aggregateChanges on any consistent batch: every path but the folder's own is covered, a
\* directory with dirVsFiles changed files is scanned, another one only if that many paths
\* below it changed, and all that is scanned is in the batch or holds a file of it.
THEOREM AggregationOfBatch ==
  ASSUME NEW paths, paths \subseteq AllPaths \ {Root}, NEW st, Consistent(paths, st)
  PROVE  LET scans == AggregateChanges(paths, st)
         IN  /\ \A p \in paths \ {Dot} : \E s \in scans : IsPrefix(s, p)
             /\ \A d : DirVsFiles <= Cardinality(FilesOf(paths, d, st)) => \E s \in scans : IsPrefix(s, d)
             /\ \A s \in scans \ paths :
                  \/ s = Root /\ Dot \in paths
                  \/ DirVsFiles <= Cardinality(Below(paths \ {Dot}, s))
             /\ \A s \in scans \ paths :
                  \/ s = Root /\ Dot \in paths
                  \/ \E p \in paths : st[p] = "file" /\ Front(p) = s
  <1> DEFINE score == Scores(paths, st)
             scans == AggregateChanges(paths, st)
  <1>1. PICK L, maps :
           /\ L \subseteq AllPaths /\ IsFiniteSet(L) /\ paths \ {Dot} \subseteq L
           /\ \A p \in L : p \in paths \ {Dot} \/ (p = Root /\ Dot \in paths)
           /\ Scored(maps, L, L, st) /\ score = maps.score
    BY ScoresOfBatch
  <1>2. /\ DOMAIN score \subseteq AllPaths
        /\ \A q \in DOMAIN score : score[q] \in Int
        /\ \A p \in L : /\ p \in DOMAIN score
                        /\ st[p] = "file" => score[p] = -1 /\ Front(p) \in DOMAIN score
                        /\ st[p] # "file" => score[p] >= DirVsFiles
        /\ \A q \in DOMAIN score \ L :
             /\ \E p \in L : st[p] = "file" /\ Front(p) = q
             /\ 1 <= score[q] /\ score[q] <= Cardinality(Below(L, q))
             /\ Cardinality(FilesOf(L, q, st)) <= score[q]
    BY <1>1 DEF Scored
  <1>3. /\ \A s \in scans : s \in DOMAIN score /\ ~TooFew(score[s])
        /\ \A q \in DOMAIN score : ~TooFew(score[q]) => \E s \in scans : IsPrefix(s, q)
    BY <1>2, ScansOfScores
  <1> HIDE DEF score, scans
  <1>4. DirVsFiles \in Nat /\ DirVsFiles >= 1
    BY DirVsFilesAssumption
  <1>5. \A p : p \in L /\ st[p] = "file" <=> p \in paths /\ st[p] = "file"
    BY <1>1 DEF Consistent
  <1>6. ASSUME NEW p \in paths \ {Dot} PROVE \E s \in scans : IsPrefix(s, p)
    <2>1. p \in DOMAIN score /\ (score[p] = -1 \/ score[p] >= DirVsFiles) /\ score[p] \in Int
      BY <1>1, <1>2
    <2>2. ~TooFew(score[p])
      BY <2>1, <1>4 DEF TooFew
    <2> QED BY <2>1, <2>2, <1>3
  <1>7. ASSUME NEW d, DirVsFiles <= Cardinality(FilesOf(paths, d, st))
        PROVE  \E s \in scans : IsPrefix(s, d)
    <2>1. FilesOf(paths, d, st) = FilesOf(L, d, st)
      BY <1>5 DEF FilesOf
    <2>2. FilesOf(L, d, st) # {}
      <3>1. Cardinality({}) = 0
        BY FS_EmptySet
      <3> QED BY <3>1, <2>1, <1>4, <1>7
    <2>3. PICK p \in L : st[p] = "file" /\ Front(p) = d
      BY <2>2 DEF FilesOf
    <2>4. d \in DOMAIN score /\ score[d] \in Int
      BY <2>3, <1>2
    <2>5. score[d] >= DirVsFiles
      <3>1. CASE d \in L
        <4>1. p \in paths /\ p # Root /\ p \in Seq(STRING)
          BY <2>3, <1>5, AllPathsClosed
        <4>2. IsStrictPrefix(d, p)
          BY <2>3, <4>1, FrontIsPrefix
        <4>3. st[d] # "file"
          BY <2>3, <3>1, <4>1, <4>2, <1>1 DEF Consistent
        <4> QED BY <3>1, <4>3, <1>2
      <3>2. CASE d \notin L
        <4>1. Cardinality(FilesOf(L, d, st)) <= score[d]
          BY <2>4, <3>2, <1>2
        <4>2. Cardinality(FilesOf(L, d, st)) \in Nat
          <5>1. FilesOf(L, d, st) \subseteq L
            BY DEF FilesOf
          <5>2. IsFiniteSet(FilesOf(L, d, st))
            BY <5>1, <1>1, FS_Subset
          <5> QED BY <5>2, FS_CardinalityType
        <4> QED BY <4>1, <4>2, <2>1, <2>4, <1>4, <1>7
      <3> QED BY <3>1, <3>2
    <2>6. ~TooFew(score[d])
      BY <2>4, <2>5, <1>4 DEF TooFew
    <2> QED BY <2>4, <2>6, <1>3
  <1>8. ASSUME NEW s \in scans \ paths, ~(s = Root /\ Dot \in paths)
        PROVE  /\ DirVsFiles <= Cardinality(Below(paths \ {Dot}, s))
               /\ \E p \in paths : st[p] = "file" /\ Front(p) = s
    <2>1. s \in DOMAIN score \ L /\ s \in Seq(STRING) /\ ~TooFew(score[s]) /\ score[s] \in Int
      BY <1>1, <1>2, <1>3, <1>8, AllPathsClosed
    <2>2. score[s] >= DirVsFiles /\ score[s] <= Cardinality(Below(L, s))
      <3>1. 1 <= score[s] /\ score[s] <= Cardinality(Below(L, s))
        BY <2>1, <1>2
      <3> QED BY <3>1, <2>1, <1>4 DEF TooFew
    <2>3. ~IsStrictPrefix(s, Root)
      <3>1. Root \in Seq(STRING) /\ Len(Root) = 0 /\ Len(s) \in Nat
        BY <2>1 DEF Root
      <3>2. IsPrefix(s, Root) => Len(s) <= 0
        BY <2>1, <3>1, PrefixItems
      <3>3. Len(s) = 0 => s = Root
        BY <2>1 DEF Root
      <3> QED BY <3>1, <3>2, <3>3 DEF IsStrictPrefix
    <2>4. Below(L, s) = Below(paths \ {Dot}, s)
      BY <2>3, <1>1 DEF Below
    <2>5. Cardinality(Below(L, s)) \in Nat
      <3>1. Below(L, s) \subseteq L
        BY DEF Below
      <3>2. IsFiniteSet(Below(L, s))
        BY <3>1, <1>1, FS_Subset
      <3> QED BY <3>2, FS_CardinalityType
    <2>6. DirVsFiles <= Cardinality(Below(paths \ {Dot}, s))
      BY <2>1, <2>2, <2>4, <2>5, <1>4
    <2>7. \E p \in L : st[p] = "file" /\ Front(p) = s
      BY <2>1, <1>2
    <2> QED BY <2>6, <2>7, <1>5
  <1> QED BY <1>6, <1>7, <1>8 DEF scans
=============================================================================
