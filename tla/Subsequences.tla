---------------------------- MODULE Subsequences ----------------------------
(***************************************************************************)
(* The loop that the code writes wherever it filters a list: the items     *)
(* that are kept are appended, one after the other, to a list of their     *)
(* own.  It is a function on the rounds of the loop rather than SelectSeq  *)
(* of the library, so that SubsequencesProofs can say what it returns.     *)
(***************************************************************************)
EXTENDS Naturals, Sequences

\* The items of s that are in keep, in their order (filterFolders, syncd-go.go:309-339).
Kept(s, keep) ==
  LET kept[n \in 0..Len(s)] ==
        IF n = 0 THEN <<>>
        ELSE IF s[n] \in keep THEN Append(kept[n - 1], s[n]) ELSE kept[n - 1]
  IN  kept[Len(s)]
=============================================================================
