------------------------------- MODULE Mirror -------------------------------
(***************************************************************************)
(* What syncd-go promises of one folder: the target follows the source.    *)
(*                                                                         *)
(* Each file of the source is rewritten at any time.  Its copy may skip    *)
(* versions, but it never goes back and never holds what the source did    *)
(* not.  The program may give up files (its channels and maps are bounded, *)
(* rsync fails, it starts to watch late); those that it has not given up   *)
(* reach the target in the end.  How it gets there (events, batches,       *)
(* filters, rsync processes) is FolderSync, which implements this module.  *)
(***************************************************************************)
EXTENDS Naturals

CONSTANTS
  Files,     \* the files of the folder
  Promised   \* those that are to be mirrored

VARIABLES
  source,    \* version of each file in the source
  target,    \* version of each file in the target
  givenUp    \* files that need not be mirrored for the time being

mirrorVars == <<source, target, givenUp>>

MirrorInit ==
  /\ source = [f \in Files |-> 0] /\ target = source
  /\ givenUp = {}

Write(f) ==
  /\ source' = [source EXCEPT ![f] = @ + 1]
  /\ givenUp' = givenUp \/ (f \in Promised /\ givenUp' = givenUp \cup {f})
  /\ UNCHANGED target

Copy(f) ==
  /\ \E v \in 0..source[f] :
       v > target[f] /\ target' = [target EXCEPT ![f] = v]
  /\ UNCHANGED <<source, givenUp>>

GiveUp ==
  /\ givenUp \subseteq givenUp' /\ givenUp' \subseteq Promised
  /\ UNCHANGED <<source, target>>

TakeUp(f) ==
  /\ givenUp' = givenUp \ {f}
  /\ UNCHANGED <<source, target>>

MirrorNext == GiveUp \/ \E f \in Files : Write(f) \/ Copy(f) \/ TakeUp(f)

MirrorSpec == MirrorInit /\ [][MirrorNext]_mirrorVars

\* A file that stays stale and is not given up is copied.
MirrorFairness == \A f \in Promised : WF_mirrorVars(f \notin givenUp /\ Copy(f))

FairMirrorSpec == MirrorSpec /\ MirrorFairness
=============================================================================
