---------------------------- MODULE RsyncFilter ----------------------------
(***************************************************************************)
(* getFullFilter (rsyncconfiguration.go:187-240), the --include-from list  *)
(* that Sync gives to rsync together with --exclude=*, and what rsync (an  *)
(* external program) selects for transfer with such a list.                *)
(*                                                                         *)
(* A path is the sequence of its names.  A pattern is a path with a flag:  *)
(* dir is TRUE when it is written with a trailing "/".                     *)
(***************************************************************************)
EXTENDS Naturals, Sequences

\* The first k names of p.
Prefix(p, k) == SubSeq(p, 1, k)

\* Every step on the way to each path, the directories with a trailing "/"; an
\* empty path ("") contributes nothing (216).  The faulty variant lists the paths only.
LeavesOnly(paths) == {[path |-> p, dir |-> FALSE] : p \in paths}

GetFullFilter(paths) ==
  UNION {{[path |-> Prefix(p, k), dir |-> k < Len(p)] : k \in 1..Len(p)} : p \in paths}

\* rsync matches a pattern that does not begin with "/" against the end of a name,
\* at a "/" boundary.
EndsWith(q, s) ==
  /\ Len(s) <= Len(q)
  /\ SubSeq(q, Len(q) - Len(s) + 1, Len(q)) = s

\* rsync descends from the root and drops a directory or file at once when no
\* include pattern matches it, because --exclude=* is the last rule.
Matches(pattern, q, isDir) ==
  /\ EndsWith(q, pattern.path)
  /\ pattern.dir => isDir

Transfers(patterns, file) ==
  \A k \in 1..Len(file) :
    \E pattern \in patterns : Matches(pattern, Prefix(file, k), k < Len(file))

\* The files that one call of Sync with these paths brings up to date.
Selected(paths, files) == {f \in files : Transfers(GetFullFilter(paths), f)}
=============================================================================
