----------------------------- MODULE ChangeBatch -----------------------------
(***************************************************************************)
(* AggregateChanges against what its comments promise, on every batch of   *)
(* the paths of SortOrder and every answer of pathStatus that a file       *)
(* system could give for it.  A behaviour builds a batch path by path.     *)
(***************************************************************************)
EXTENDS PathAggregation, FiniteSets

VARIABLES
  changed,   \* the paths of the batch
  st         \* what pathStatus answers for each of them

vars == <<changed, st>>

TreePaths == {SortOrder[i] : i \in DOMAIN SortOrder} \ {Root}

\* os.Stat("") always fails (809).
Init == changed = {} /\ st = [q \in {Root} |-> "deleted"]

\* Add a path; only a directory has existing files or directories below it, and
\* the folder itself is not a file.
Grow(p, s) ==
  /\ p \notin changed
  /\ p = Dot => s = "directory"
  /\ \A q \in changed :
       /\ IsStrictPrefix(p, q) /\ st[q] # "deleted" => s = "directory"
       /\ IsStrictPrefix(q, p) /\ s # "deleted" => st[q] = "directory"
  /\ changed' = changed \cup {p}
  /\ st' = [q \in DOMAIN st \cup {p} |-> IF q = p THEN s ELSE st[q]]

Next == \E p \in TreePaths, s \in Statuses : Grow(p, s)

Spec == Init /\ [][Next]_vars

-----------------------------------------------------------------------------
Scans == AggregateChanges(changed, st)

\* Files of the batch in d, and all paths of the batch strictly below d.
FilesIn(d) == {p \in changed : st[p] = "file" /\ Dir(p) = d}
ChangesBelow(d) == {p \in changed \ {Dot} : IsStrictPrefix(d, p)}

\* No change is aggregated away: each changed path other than the folder itself is
\* reported, or a directory above it is.  (The paths are untracked afterwards, 584,
\* so one that is not covered here is never looked at again.)
EveryChangeCovered ==
  \A p \in changed \ {Dot} : \E s \in Scans : IsPrefix(s, p)

\* "more than dirVsFiles changes in a directory" (821): a directory with that many
\* changed files of its own is scanned as a whole, or one above it is.
BusyDirectoryScanned ==
  \A d \in {Dir(p) : p \in changed \ {Root}} :
    Cardinality(FilesIn(d)) >= DirVsFiles => \E s \in Scans : IsPrefix(s, d)

\* Scanning more than what changed needs a reason: a reported path that is not
\* itself in the batch is a directory with dirVsFiles changes below it.
NoNeedlessScan ==
  \A s \in Scans \ changed :
    \/ s = Root /\ Dot \in changed
    \/ Cardinality(ChangesBelow(s)) >= DirVsFiles
=============================================================================
