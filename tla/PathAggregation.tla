--------------------------- MODULE PathAggregation ---------------------------
(***************************************************************************)
(* aggregateChanges (syncd-go.go:783-896): which paths a batch of changed  *)
(* paths is reduced to before it goes to the callback.                     *)
(*                                                                         *)
(* A path is the sequence of its names; Root stands for "" and Dot for     *)
(* ".", the relative path of the folder itself.  The two things the Go     *)
(* code takes from outside are parameters: the order of sort.Strings, as a *)
(* sequence of all paths (its definition is the library's), and the answer *)
(* of pathStatus, as a function st from paths to Statuses.                 *)
(***************************************************************************)
EXTENDS Naturals, Integers, SequencesExt, Subsequences

CONSTANTS
  SortOrder,   \* every path that can be a map key, in the order of sort.Strings
  DirVsFiles   \* dirVsFiles (65), 128 in the program

Root == <<>>
Dot == <<".">>

Statuses == {"deleted", "directory", "file"}

\* Every path has one place in the order, before its extensions; what is above a path can
\* be a key as well (851-858).
ASSUME SortOrderAssumption ==
  /\ SortOrder \in Seq(Seq(STRING))
  /\ \A i, j \in DOMAIN SortOrder :
       /\ SortOrder[i] = SortOrder[j] => i = j
       /\ IsStrictPrefix(SortOrder[i], SortOrder[j]) => i < j
  /\ \A i \in DOMAIN SortOrder : SortOrder[i] # Root =>
       \E j \in DOMAIN SortOrder : SortOrder[j] = Front(SortOrder[i])
ASSUME DirVsFilesAssumption == DirVsFiles \in Nat \ {0}

Sorted(paths) == Kept(SortOrder, paths)

\* strings.HasPrefix(p, d + "/"): d is a proper ancestor of p.  "" is nobody's
\* ancestor here, since no relative path starts with the separator.
Under(p, d) == d # Root /\ IsStrictPrefix(d, p)

\* filepath.Dir, with "." turned into "" (851-854).
Dir(path) == Front(path)

\* sortedUniqueAndCleanPaths (783-798) of distinct clean paths.  "." becomes "", but
\* is dropped as a duplicate of the initial previousPath when it sorts first.
SortedUniqueAndCleanPaths(paths) ==
  LET s == Sorted(paths)
  IN  IF s # <<>> /\ Head(s) = Dot THEN Tail(s)
      ELSE [i \in DOMAIN s |-> IF s[i] = Dot THEN Root ELSE s[i]]

\* One round of the scoring loop (831-867), on a record of the two Go maps:
\* score = trackedPaths (a file has -1, a directory the number of changes seen
\* below it) and dirs = trackedDirs.
Score(maps, path, st) ==
  LET isFile == st[path] = "file"
      dir    == IF isFile THEN Dir(path) ELSE path
      dirs   == IF st[path] = "deleted" THEN maps.dirs ELSE maps.dirs \cup {dir}
      before(q) == IF q \in DOMAIN maps.score THEN maps.score[q] ELSE 0
      own(q) == IF q = path THEN IF isFile THEN -1 ELSE DirVsFiles
                ELSE before(q) + IF isFile /\ q = dir THEN 1 ELSE 0
  IN  [ score |-> [ q \in DOMAIN maps.score \cup {path, dir} |->
                      own(q) + IF q \in dirs /\ Under(dir, q) THEN 1 ELSE 0 ],
        dirs  |-> dirs ]

\* The rounds of both loops are recursive functions, which can be reasoned about.
Scores(paths, st) ==
  LET list == SortedUniqueAndCleanPaths(paths)
      maps[n \in 0..Len(list)] ==
        IF n = 0 THEN [score |-> <<>>, dirs |-> {}]
        ELSE Score(maps[n - 1], list[n], st)
  IN  maps[Len(list)].score

\* Not enough changes for a scan of this directory, and not a file (883).  The faulty
\* variants forget the files, ask for one change more, and are content with one less.
TooFewOrFile(n) == n < DirVsFiles
TooFewOrEqual(n) == n <= DirVsFiles /\ n # -1
TooFewByTwo(n) == n < DirVsFiles - 1 /\ n # -1
TooFew(n) == n < DirVsFiles /\ n # -1

\* One round of the selection loop (876-894).  previousPath is the last path that
\* was appended; once that is "" after an append, the loop is left.
Select(sel, path, score) ==
  IF \/ sel.done
     \/ Under(path, sel.previousPath)
     \/ TooFew(score[path])
  THEN sel
  ELSE [scans |-> sel.scans \cup {path}, previousPath |-> path, done |-> path = Root]

\* The paths handed to the callback; their order is irrelevant to rsync's filter.
AggregateChanges(paths, st) ==
  LET score == Scores(paths, st)
      keys  == Sorted(DOMAIN score)
      sel[n \in 0..Len(keys)] ==
        IF n = 0 THEN [scans |-> {}, previousPath |-> Root, done |-> FALSE]
        ELSE Select(sel[n - 1], keys[n], score)
  IN  sel[Len(keys)].scans
=============================================================================
