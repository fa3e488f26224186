-------------------------- MODULE LifecycleProofs --------------------------
(***************************************************************************)
(* Theorems about Lifecycle, for any folders and any number of processes   *)
(* and edits.                                                              *)
(***************************************************************************)
EXTENDS Lifecycle, TLAPS

\* The inductive invariant: types, the chain of restarts, and what successors know.
LInv == TypeOK /\ HandedOver /\ NewerSuccessor

\* The history is about goroutines.
HistoryTyped == notRemoved \cup notWritten \cup disturbed \subseteq Procs \X Folders

\* A step of a folder's goroutine, Goes, ends in a state that keeps the types and
\* leaves the goroutine alive in a running process.
LEMMA GoesTypes ==
  ASSUME TypeOK, NEW p \in Procs, NEW f \in Folders,
         NEW from \in FolderStates, NEW to \in FolderStates, Goes(p, f, from, to)
  PROVE  /\ fol' \in [Procs -> [Folders -> FolderStates]]
         /\ Running(p) /\ fol[p][f] = from /\ fol'[p][f] = to
         /\ \A q \in Procs, g \in Folders : q # p \/ g # f => fol'[q][g] = fol[q][g]
  BY DEF TypeOK, Goes

LEMMA InitLInv == Init => LInv
  <1> SUFFICES ASSUME Init PROVE LInv
    OBVIOUS
  <1> USE LifecycleBounds DEF Init, Procs, Versions, NoVersion
  <1>1. TypeOK
    BY DEF TypeOK, MainStates, FolderStates
  <1>2. HandedOver
    BY DEF HandedOver, Restarting, Running
  <1>3. NewerSuccessor
    BY DEF NewerSuccessor
  <1> QED BY <1>1, <1>2, <1>3 DEF LInv

\* Steps that leave the processes alone: what is said of main, children, known and
\* started carries over, as long as goroutines go on within running processes.
LEMMA FolderStepLInv ==
  ASSUME LInv, NEW p \in Procs, NEW f \in Folders,
         NEW from \in FolderStates, NEW to \in FolderStates, Goes(p, f, from, to),
         from # "off", (to # "sending" \/ children[p] # {}),
         (to \in {"configSync", "restart", "sending"} => known[p] < file.edit),
         procVars' = procVars, file' = file,
         (pending' = pending \/ (pending[p][f] > 0 /\ pending' = [pending EXCEPT ![p][f] = @ - 1])),
         ignoreFile' \in [Folders -> Versions \cup {NoVersion, Stale}], HistoryTyped',
         rsync' \in [Folders -> SUBSET Procs]
  PROVE  LInv'
  <1>1. /\ started' = started /\ main' = main /\ known' = known
        /\ children' = children /\ toClean' = toClean
    BY DEF procVars
  <1>2. /\ fol' \in [Procs -> [Folders -> FolderStates]]
        /\ Running(p) /\ fol[p][f] = from /\ fol'[p][f] = to
        /\ \A q \in Procs, g \in Folders : q # p \/ g # f => fol'[q][g] = fol[q][g]
    BY GoesTypes DEF LInv
  <1>3. /\ pending' \in [Procs -> [Folders -> Nat]]
        /\ \A q \in Procs, g \in Folders : pending'[q][g] > 0 => pending[q][g] > 0
    <2>1. pending \in [Procs -> [Folders -> Nat]]
      BY DEF LInv, TypeOK
    <2>2. pending[p] \in [Folders -> Nat] /\ pending[p][f] \in Nat
      BY <2>1
    <2>3. CASE pending' = pending
      BY <2>1, <2>3
    <2>4. CASE pending[p][f] > 0 /\ pending' = [pending EXCEPT ![p][f] = @ - 1]
      <3> DEFINE row == [pending[p] EXCEPT ![f] = pending[p][f] - 1]
      <3>1. pending' = [pending EXCEPT ![p] = row]
        BY <2>4
      <3>2. row \in [Folders -> Nat]
        BY <2>2, <2>4
      <3>3. \A g \in Folders : row[g] > 0 => pending[p][g] > 0
        BY <2>2, <2>4
      <3> HIDE DEF row
      <3>4. pending'[p] = row /\ \A q \in Procs : q # p => pending'[q] = pending[q]
        BY <2>1, <3>1
      <3> QED BY <2>1, <3>1, <3>2, <3>3, <3>4
    <2> QED BY <2>3, <2>4
  <1>4. TypeOK'
    BY <1>1, <1>2, <1>3 DEF LInv, TypeOK, HistoryTyped
  <1>5. \A q \in Procs : Restarting(q)' => Restarting(q) \/ (q = p /\ known[q] < file.edit)
    <2> SUFFICES ASSUME NEW q \in Procs, Restarting(q)'
                 PROVE  Restarting(q) \/ (q = p /\ known[q] < file.edit)
      OBVIOUS
    <2>1. CASE children'[q] # {}
      BY <1>1, <2>1 DEF Restarting
    <2>2. CASE \E g \in Folders : \/ pending'[q][g] > 0
                                  \/ fol'[q][g] \in {"configSync", "restart", "sending"}
      <3> PICK g \in Folders : \/ pending'[q][g] > 0
                               \/ fol'[q][g] \in {"configSync", "restart", "sending"}
        BY <2>2
      <3>1. CASE pending'[q][g] > 0
        BY <1>3, <3>1 DEF Restarting
      <3>2. CASE fol'[q][g] \in {"configSync", "restart", "sending"}
        BY <1>2, <3>2 DEF Restarting
      <3> QED BY <3>1, <3>2
    <2> QED BY <2>1, <2>2 DEF Restarting
  <1>6. \A q \in Procs : Running(q)' = Running(q)
    BY <1>1 DEF Running
  <1>7. HandedOver'
    <2>1. \A q \in Procs, g \in Folders : fol'[q][g] # "off" => Running(q)'
      BY <1>2, <1>6 DEF LInv, HandedOver
    <2>2. \A q \in Procs, g \in Folders : fol'[q][g] = "sending" => children[q] # {}
      BY <1>2 DEF LInv, HandedOver
    <2>3. \A q \in Procs :
            Restarting(q)' => main[q] \in {"running", "leaving", "dead"} /\ known[q] < file.edit
      BY <1>2, <1>5 DEF LInv, HandedOver, Running
    <2> QED BY <1>1, <1>6, <2>1, <2>2, <2>3 DEF LInv, HandedOver
  <1>8. NewerSuccessor'
    BY <1>1, <1>6 DEF LInv, NewerSuccessor
  <1> QED BY <1>4, <1>7, <1>8 DEF LInv

\* A new content of a .syignore.
LEMMA BecomesTypes ==
  ASSUME TypeOK, NEW f \in Folders, NEW v \in Versions \cup {NoVersion, Stale},
         NEW others \in SUBSET Procs, Becomes(f, v, others),
         notRemoved' \cup notWritten' \subseteq Procs \X Folders
  PROVE  ignoreFile' \in [Folders -> Versions \cup {NoVersion, Stale}] /\ HistoryTyped'
  BY DEF TypeOK, Becomes, HistoryTyped

\* The steps of a goroutine that start no process.
LEMMA GoroutineLInv ==
  ASSUME LInv, NEW p \in Procs, NEW f \in Folders,
         \/ Resolve(p, f) \/ SetupFails(p, f) \/ FirstSyncDone(p, f)
         \/ RemoveIgnores(p, f) \/ WriteIgnores(p, f) \/ LoadIgnores(p, f)
         \/ InstallWatch(p, f) \/ StartSync(p, f) \/ SyncReturns(p, f)
         \/ TakeConfigEvent(p, f) \/ RestartFails(p, f)
  PROVE  LInv'
  <1> USE DEF FolderStates, fileVars, ignoreVars, history
  <1>1. /\ ignoreFile \in [Folders -> Versions \cup {NoVersion, Stale}] /\ HistoryTyped
        /\ rsync \in [Folders -> SUBSET Procs]
        /\ known[p] \in Versions \cup {NoVersion}
    BY DEF LInv, TypeOK, HistoryTyped
  <1>2. [rsync EXCEPT ![f] = @ \cup {p}] \in [Folders -> SUBSET Procs]
    BY <1>1
  <1>3. UNCHANGED ignoreVars => HistoryTyped'
    BY <1>1 DEF HistoryTyped
  <1>4. <<p, f>> \in Procs \X Folders
    OBVIOUS
  <1>5. fol[p][f] \in {"configSync", "restart", "sending"} \/ pending[p][f] > 0 => known[p] < file.edit
    BY DEF LInv, HandedOver, Restarting
  <1>6. CASE Resolve(p, f)
    BY <1>6, <1>1, <1>2, <1>3, FolderStepLInv DEF Resolve
  <1>7. CASE SetupFails(p, f)
    BY <1>7, <1>1, <1>3, FolderStepLInv DEF SetupFails
  <1>8. CASE FirstSyncDone(p, f)
    BY <1>8, <1>1, <1>3, FolderStepLInv DEF FirstSyncDone
  <1>9. CASE RemoveIgnores(p, f)
    <2>1. ignoreFile' \in [Folders -> Versions \cup {NoVersion, Stale}] /\ HistoryTyped'
      BY <1>1, <1>4, <1>9, BecomesTypes DEF RemoveIgnores, HistoryTyped, LInv
    <2> QED BY <1>1, <1>9, <2>1, FolderStepLInv DEF RemoveIgnores
  <1>10. CASE WriteIgnores(p, f)
    <2>1. ignoreFile' \in [Folders -> Versions \cup {NoVersion, Stale}] /\ HistoryTyped'
      BY <1>1, <1>4, <1>10, BecomesTypes DEF WriteIgnores, HistoryTyped, LInv
    <2> QED BY <1>1, <1>10, <2>1, FolderStepLInv DEF WriteIgnores
  <1>11. CASE LoadIgnores(p, f)
    <2>1. ignoreFile' = ignoreFile /\ HistoryTyped'
      BY <1>1, <1>11 DEF LoadIgnores, ForgetHistory, HistoryTyped
    <2> QED BY <1>1, <1>11, <2>1, FolderStepLInv DEF LoadIgnores
  <1>12. CASE InstallWatch(p, f)
    BY <1>12, <1>1, <1>3, FolderStepLInv DEF InstallWatch
  <1>13. CASE StartSync(p, f)
    BY <1>13, <1>1, <1>2, <1>3, FolderStepLInv DEF StartSync
  <1>14. CASE SyncReturns(p, f)
    BY <1>14, <1>1, <1>5, <1>3, FolderStepLInv DEF SyncReturns, Goes
  <1>15. CASE TakeConfigEvent(p, f)
    BY <1>15, <1>1, <1>2, <1>5, <1>3, FolderStepLInv DEF TakeConfigEvent
  <1>16. CASE RestartFails(p, f)
    BY <1>16, <1>1, <1>3, FolderStepLInv DEF RestartFails
  <1> QED
    BY <1>6, <1>7, <1>8, <1>9, <1>10, <1>11, <1>12, <1>13, <1>14, <1>15, <1>16

\* An edit is unread by every process that is running when it begins; a process that
\* runs when it ends has therefore not read it either, because a half-written file
\* cannot be read.
LEMMA EditLInv == LInv /\ (BeginEdit \/ EndEdit) => LInv'
  <1> SUFFICES ASSUME LInv, BeginEdit \/ EndEdit PROVE LInv'
    OBVIOUS
  <1>1. /\ UNCHANGED <<started, main, known, children, toClean, fol, ignoreVars, rsync>>
        /\ Notice
    BY DEF BeginEdit, EndEdit, procVars, ignoreVars
  <1>2. /\ file \in [edit : Versions, whole : BOOLEAN]
        /\ pending \in [Procs -> [Folders -> Nat]]
        /\ known \in [Procs -> Versions \cup {NoVersion}]
    BY DEF LInv, TypeOK
  <1>3. /\ file' \in [edit : Versions, whole : BOOLEAN] /\ file.edit \in Nat
        /\ \/ file'.edit = file.edit + 1
           \/ file'.edit = file.edit /\ ~file.whole /\ file'.whole
    <2>1. file.edit \in Versions /\ file.edit \in Nat
      BY <1>2, LifecycleBounds DEF Versions
    <2>2. CASE BeginEdit
      BY <2>1, <2>2, LifecycleBounds DEF BeginEdit, Versions
    <2>3. CASE EndEdit
      <3>1. file' = [file EXCEPT !.whole = TRUE] /\ ~file.whole
        BY <2>3 DEF EndEdit
      <3>2. file'.edit = file.edit /\ file'.whole = TRUE
        BY <1>2, <3>1
      <3> QED BY <1>2, <2>1, <3>1, <3>2
    <2> QED BY <2>2, <2>3
  <1>4. pending' \in [Procs -> [Folders -> Nat]]
    BY <1>1, <1>2 DEF Notice
  <1>5. \A p \in Procs, f \in Folders : pending'[p][f] > 0 => pending[p][f] > 0 \/ Running(p)
    <2> SUFFICES ASSUME NEW p \in Procs, NEW f \in Folders, pending'[p][f] > 0
                 PROVE  pending[p][f] > 0 \/ Running(p)
      OBVIOUS
    <2>1. CASE Watching(p, f)
      BY <2>1 DEF LInv, HandedOver, Watching
    <2>2. CASE ~Watching(p, f)
      BY <1>1, <2>2 DEF Notice
    <2> QED BY <2>1, <2>2
  <1>6. \A p \in Procs : Running(p) \/ known[p] < file.edit => known[p] < file'.edit
    <2> SUFFICES ASSUME NEW p \in Procs, Running(p) \/ known[p] < file.edit
                 PROVE  known[p] < file'.edit
      OBVIOUS
    <2>1. known[p] \in Nat
      BY <1>2, LifecycleBounds DEF Versions, NoVersion
    <2>2. known[p] < file.edit \/ (known[p] <= file.edit /\ (~file.whole => known[p] < file.edit))
      BY DEF LInv, HandedOver
    <2> QED BY <1>3, <2>1, <2>2
  <1>7. \A p \in Procs : Restarting(p)' => Restarting(p) \/ Running(p)
    BY <1>1, <1>5 DEF Restarting
  <1>8. \A p \in Procs : Running(p)' = Running(p)
    BY <1>1 DEF Running
  <1>9. TypeOK'
    BY <1>1, <1>3, <1>4 DEF LInv, TypeOK, ignoreVars, history
  <1>10. HandedOver'
    <2>1. \A p \in Procs :
            Restarting(p)' => main[p] \in {"running", "leaving", "dead"} /\ known[p] < file'.edit
      BY <1>6, <1>7 DEF LInv, HandedOver, Running
    <2>2. \A p \in Procs : Running(p) => known[p] < file'.edit
      BY <1>6
    <2>3. \A p \in Procs : Running(p) => known[p] <= file'.edit
      BY <2>2, <1>2, <1>3, LifecycleBounds DEF Versions, NoVersion
    <2> QED BY <1>1, <1>8, <2>1, <2>2, <2>3 DEF LInv, HandedOver
  <1>11. NewerSuccessor'
    BY <1>1, <1>8 DEF LInv, NewerSuccessor
  <1> QED BY <1>9, <1>10, <1>11 DEF LInv

\* A process reads the file: it is newer than all that its parent has read.
LEMMA LoadLInv ==
  ASSUME LInv, NEW p \in Procs, Load(p)
  PROVE  LInv'
  <1>1. /\ UNCHANGED <<file, pending, started, children, toClean, ignoreVars, rsync>>
        /\ main[p] = "loading"
    BY DEF Load, fileVars, ignoreVars
  <1>2. /\ file.edit \in Versions /\ file.whole \in BOOLEAN
        /\ main \in [Procs -> MainStates]
        /\ known \in [Procs -> Versions \cup {NoVersion}]
        /\ fol \in [Procs -> [Folders -> FolderStates]]
    BY DEF LInv, TypeOK
  <1>3. /\ ~Running(p) /\ p <= started /\ ~Restarting(p)
        /\ \A f \in Folders : fol[p][f] = "off"
    <2>1. ~Running(p)
      BY <1>1 DEF Running
    <2>2. ~Restarting(p)
      BY <1>1 DEF LInv, HandedOver
    <2> QED BY <1>1, <2>1, <2>2 DEF LInv, HandedOver
  <1>4. CASE file.whole
    <2>1. /\ main' = [main EXCEPT ![p] = "running"]
          /\ known' = [known EXCEPT ![p] = file.edit]
          /\ fol' = [fol EXCEPT ![p] = [f \in Folders |-> "resolve"]]
      BY <1>4 DEF Load
    <2>2. /\ main'[p] = "running" /\ known'[p] = file.edit
          /\ \A q \in Procs : q # p => main'[q] = main[q] /\ known'[q] = known[q] /\ fol'[q] = fol[q]
          /\ \A f \in Folders : fol'[p][f] = "resolve"
      BY <1>2, <2>1
    <2>3. TypeOK'
      BY <1>1, <1>2, <2>1 DEF LInv, TypeOK, MainStates, FolderStates, ignoreVars, history
    <2>4. Running(p)' /\ \A q \in Procs : q # p => Running(q)' = Running(q)
      BY <2>2 DEF Running
    <2>5. ~Restarting(p)' /\ \A q \in Procs : q # p => Restarting(q)' = Restarting(q)
      BY <1>1, <1>3, <2>2 DEF Restarting
    <2>6. file.edit <= file.edit
      BY <1>2, LifecycleBounds DEF Versions
    <2>7. HandedOver'
      <3>1. \A q \in Procs : (main'[q] # "none") = (q <= started)
        BY <1>1, <2>2 DEF LInv, HandedOver
      <3>2. \A q \in Procs, f \in Folders : fol'[q][f] # "off" => Running(q)'
        BY <2>2, <2>4 DEF LInv, HandedOver
      <3>3. \A q \in Procs : main'[q] \in {"leaving", "dead"} => children[q] # {}
        BY <2>2 DEF LInv, HandedOver
      <3>4. \A q \in Procs, f \in Folders : fol'[q][f] = "sending" => children[q] # {}
        BY <2>2 DEF LInv, HandedOver
      <3>5. \A q \in Procs :
              Running(q)' => known'[q] <= file.edit /\ (~file.whole => known'[q] < file.edit)
        BY <1>4, <2>2, <2>4, <2>6 DEF LInv, HandedOver
      <3>6. \A q \in Procs :
              Restarting(q)' => main'[q] \in {"running", "leaving", "dead"} /\ known'[q] < file.edit
        BY <2>2, <2>5 DEF LInv, HandedOver
      <3> QED BY <1>1, <3>1, <3>2, <3>3, <3>4, <3>5, <3>6 DEF LInv, HandedOver
    <2>8. NewerSuccessor'
      <3> SUFFICES ASSUME NEW r \in Procs, NEW q \in Procs, q \in children[r], Running(q)'
                   PROVE  known'[q] > known'[r]
        BY <1>1 DEF NewerSuccessor
      <3>1. Restarting(r)
        BY DEF Restarting
      <3>2. r # p /\ known[r] < file.edit
        BY <1>3, <3>1 DEF LInv, HandedOver
      <3>3. CASE q = p
        BY <2>2, <3>2, <3>3, <1>2, LifecycleBounds DEF Versions, NoVersion
      <3>4. CASE q # p
        BY <2>2, <2>4, <3>2, <3>4 DEF LInv, NewerSuccessor
      <3> QED BY <3>3, <3>4
    <2> QED BY <2>3, <2>7, <2>8 DEF LInv
  <1>5. CASE ~file.whole
    <2>1. main' = [main EXCEPT ![p] = "failed"] /\ UNCHANGED <<known, fol>>
      BY <1>5 DEF Load
    <2>2. main'[p] = "failed" /\ \A q \in Procs : q # p => main'[q] = main[q]
      BY <1>2, <2>1
    <2>3. TypeOK'
      BY <1>1, <1>2, <2>1 DEF LInv, TypeOK, MainStates, ignoreVars, history
    <2>4. \A q \in Procs : Running(q)' = Running(q)
      BY <1>1, <2>2 DEF Running
    <2>5. \A q \in Procs : Restarting(q)' = Restarting(q)
      BY <1>1, <2>1 DEF Restarting
    <2>6. HandedOver'
      BY <1>1, <1>3, <2>1, <2>2, <2>4, <2>5 DEF LInv, HandedOver
    <2>7. NewerSuccessor'
      BY <1>1, <2>1, <2>4 DEF LInv, NewerSuccessor
    <2> QED BY <2>3, <2>6, <2>7 DEF LInv
  <1> QED BY <1>2, <1>4, <1>5

\* main receives from a goroutine that has started a successor.
LEMMA ReceiveLInv ==
  ASSUME LInv, NEW p \in Procs, NEW f \in Folders, Receive(p, f)
  PROVE  LInv'
  <1>1. /\ UNCHANGED <<file, pending, started, known, children, ignoreVars, rsync>>
        /\ main[p] = "running" /\ fol[p][f] = "sending"
        /\ main' = [main EXCEPT ![p] = "leaving"]
        /\ toClean' = [toClean EXCEPT ![p] = Folders]
        /\ fol' = [fol EXCEPT ![p][f] = "watching"]
    BY DEF Receive, fileVars, ignoreVars
  <1>2. /\ main \in [Procs -> MainStates] /\ toClean \in [Procs -> SUBSET Folders]
        /\ fol \in [Procs -> [Folders -> FolderStates]]
    BY DEF LInv, TypeOK
  <1>3. /\ fol' \in [Procs -> [Folders -> FolderStates]] /\ fol'[p][f] = "watching"
        /\ \A q \in Procs, g \in Folders : q # p \/ g # f => fol'[q][g] = fol[q][g]
    BY <1>1, <1>2 DEF FolderStates
  <1>4. main'[p] = "leaving" /\ \A q \in Procs : q # p => main'[q] = main[q]
    BY <1>1, <1>2
  <1>5. children[p] # {}
    BY <1>1 DEF LInv, HandedOver
  <1>6. TypeOK'
    BY <1>1, <1>2, <1>3 DEF LInv, TypeOK, MainStates, ignoreVars, history
  <1>7. \A q \in Procs : Running(q)' = Running(q)
    BY <1>1, <1>4 DEF Running
  <1>8. \A q \in Procs : Restarting(q)' => Restarting(q)
    <2> SUFFICES ASSUME NEW q \in Procs, Restarting(q)' PROVE Restarting(q)
      OBVIOUS
    <2>1. CASE q = p
      BY <1>5, <2>1 DEF Restarting
    <2>2. CASE q # p
      BY <1>1, <1>3, <2>2 DEF Restarting
    <2> QED BY <2>1, <2>2
  <1>9. HandedOver'
    <2>1. \A q \in Procs, g \in Folders : fol'[q][g] # "off" => Running(q)'
      BY <1>1, <1>3, <1>7 DEF LInv, HandedOver
    <2>2. \A q \in Procs, g \in Folders : fol'[q][g] = "sending" => children[q] # {}
      BY <1>3, <1>5 DEF LInv, HandedOver
    <2>3. \A q \in Procs :
            Restarting(q)' => main'[q] \in {"running", "leaving", "dead"} /\ known[q] < file.edit
      BY <1>4, <1>8 DEF LInv, HandedOver
    <2> QED BY <1>1, <1>4, <1>5, <1>7, <2>1, <2>2, <2>3 DEF LInv, HandedOver
  <1>10. NewerSuccessor'
    BY <1>1, <1>7 DEF LInv, NewerSuccessor
  <1> QED BY <1>6, <1>9, <1>10 DEF LInv

\* os.Exit takes all goroutines of the process and their events with it.
LEMMA ExitLInv ==
  ASSUME LInv, NEW p \in Procs, Exit(p)
  PROVE  LInv'
  <1>1. /\ UNCHANGED <<file, started, known, children, toClean, ignoreFile, rsync>>
        /\ main[p] = "leaving"
        /\ main' = [main EXCEPT ![p] = "dead"]
        /\ fol' = [fol EXCEPT ![p] = [f \in Folders |-> "off"]]
        /\ pending' = [pending EXCEPT ![p] = [f \in Folders |-> 0]]
    BY DEF Exit
  <1>2. /\ main \in [Procs -> MainStates]
        /\ fol \in [Procs -> [Folders -> FolderStates]]
        /\ pending \in [Procs -> [Folders -> Nat]]
    BY DEF LInv, TypeOK
  <1>2a. notRemoved' \cup notWritten' \cup disturbed' \subseteq Procs \X Folders
    BY DEF Exit, ForgetHistory, LInv, TypeOK
  <1>3. /\ \A g \in Folders : fol'[p][g] = "off" /\ pending'[p][g] = 0
        /\ main'[p] = "dead"
        /\ \A q \in Procs : q # p => /\ main'[q] = main[q]
                                     /\ fol'[q] = fol[q] /\ pending'[q] = pending[q]
    BY <1>1, <1>2
  <1>4. TypeOK'
    BY <1>1, <1>2, <1>2a DEF LInv, TypeOK, MainStates, FolderStates
  <1>5. \A q \in Procs : Running(q)' => Running(q)
    BY <1>1, <1>3 DEF Running
  <1>6. ~Running(p)' /\ \A q \in Procs : q # p => Running(q)' = Running(q)
    BY <1>1, <1>3 DEF Running
  <1>7. \A q \in Procs : Restarting(q)' => Restarting(q)
    <2> SUFFICES ASSUME NEW q \in Procs, Restarting(q)' PROVE Restarting(q)
      OBVIOUS
    <2>1. CASE q = p
      BY <1>1, <1>3, <2>1 DEF Restarting
    <2>2. CASE q # p
      BY <1>1, <1>3, <2>2 DEF Restarting
    <2> QED BY <2>1, <2>2
  <1>8. HandedOver'
    <2>1. \A q \in Procs, g \in Folders : fol'[q][g] # "off" => Running(q)'
      BY <1>3, <1>6 DEF LInv, HandedOver
    <2>2. \A q \in Procs, g \in Folders : fol'[q][g] = "sending" => children[q] # {}
      BY <1>3 DEF LInv, HandedOver
    <2>3. \A q \in Procs :
            Restarting(q)' => main'[q] \in {"running", "leaving", "dead"} /\ known[q] < file.edit
      BY <1>3, <1>7 DEF LInv, HandedOver
    <2> QED BY <1>1, <1>3, <1>5, <2>1, <2>2, <2>3 DEF LInv, HandedOver
  <1>9. NewerSuccessor'
    BY <1>1, <1>5 DEF LInv, NewerSuccessor
  <1> QED BY <1>4, <1>8, <1>9 DEF LInv

\* A new process is younger than all others and has read nothing yet.
LEMMA StartSuccessorLInv ==
  ASSUME LInv, NEW p \in Procs, NEW f \in Folders, StartSuccessor(p, f)
  PROVE  LInv'
  <1> DEFINE new == started + 1
  <1>1. /\ UNCHANGED <<file, pending, known, toClean, ignoreVars, rsync>>
        /\ started < MaxProcs /\ started' = new
        /\ main' = [main EXCEPT ![new] = "loading"]
        /\ children' = [children EXCEPT ![p] = @ \cup {new}]
        /\ Goes(p, f, "restart", "sending")
    BY DEF StartSuccessor, Successor, fileVars, ignoreVars
  <1>2. /\ main \in [Procs -> MainStates] /\ children \in [Procs -> SUBSET Procs]
        /\ started \in Nat /\ new \in Procs /\ started < new
    BY <1>1, LifecycleBounds DEF LInv, TypeOK, Procs
  <1> HIDE DEF new
  <1>3. /\ fol' \in [Procs -> [Folders -> FolderStates]]
        /\ Running(p) /\ fol[p][f] = "restart" /\ fol'[p][f] = "sending"
        /\ \A q \in Procs, g \in Folders : q # p \/ g # f => fol'[q][g] = fol[q][g]
    BY <1>1, GoesTypes DEF LInv, FolderStates
  <1>4. main'[new] = "loading" /\ \A q \in Procs : q # new => main'[q] = main[q]
    BY <1>1, <1>2
  <1>5. /\ children'[p] = children[p] \cup {new}
        /\ \A q \in Procs : q # p => children'[q] = children[q]
    BY <1>1, <1>2
  <1>6. main[new] = "none"
    BY <1>2 DEF LInv, HandedOver, Procs
  <1>7. p # new /\ p <= started
    BY <1>2, <1>3, <1>6 DEF LInv, HandedOver, Running
  <1>8. \A q \in Procs : Running(q)' = Running(q)
    BY <1>4, <1>6 DEF Running
  <1>9. \A q \in Procs : Restarting(q)' => Restarting(q)
    <2> SUFFICES ASSUME NEW q \in Procs, Restarting(q)' PROVE Restarting(q)
      OBVIOUS
    <2>1. CASE q = p
      BY <1>3, <2>1 DEF Restarting
    <2>2. CASE q # p
      BY <1>1, <1>3, <1>5, <2>2 DEF Restarting
    <2> QED BY <2>1, <2>2
  <1>10. TypeOK'
    BY <1>1, <1>2, <1>3 DEF LInv, TypeOK, MainStates, ignoreVars, history
  <1>11. HandedOver'
    <2>1. \A q \in Procs : (main'[q] # "none") = (q <= started')
      <3>1. \A q \in Procs : q # new => (q <= new) = (q <= started)
        BY <1>2 DEF Procs, new
      <3>2. new <= new
        BY <1>2 DEF Procs
      <3> QED BY <1>1, <1>4, <3>1, <3>2 DEF LInv, HandedOver
    <2>2. \A q \in Procs : children'[q] \subseteq {r \in Procs : q < r /\ r <= started'}
      <3>1. \A q \in Procs : children[q] \subseteq {r \in Procs : q < r /\ r <= started}
        BY DEF LInv, HandedOver
      <3>2. \A r \in Procs : r <= started => r <= new
        BY <1>2 DEF Procs
      <3>3. p < new /\ new <= new
        BY <1>2, <1>7 DEF Procs
      <3> QED BY <1>1, <1>2, <1>5, <3>1, <3>2, <3>3
    <2>3. \A q \in Procs, g \in Folders : fol'[q][g] # "off" => Running(q)'
      BY <1>3, <1>8 DEF LInv, HandedOver
    <2>4. \A q \in Procs : children[q] # {} => children'[q] # {}
      BY <1>5
    <2>5. \A q \in Procs, g \in Folders : fol'[q][g] = "sending" => children'[q] # {}
      BY <1>3, <1>5, <2>4 DEF LInv, HandedOver
    <2>6. \A q \in Procs : main'[q] \in {"leaving", "dead"} => children'[q] # {}
      BY <1>4, <2>4 DEF LInv, HandedOver
    <2>7. \A q \in Procs :
            Restarting(q)' => main'[q] \in {"running", "leaving", "dead"} /\ known[q] < file.edit
      BY <1>4, <1>6, <1>9 DEF LInv, HandedOver
    <2> QED BY <1>1, <1>8, <2>1, <2>2, <2>3, <2>5, <2>6, <2>7 DEF LInv, HandedOver
  <1>12. NewerSuccessor'
    BY <1>1, <1>4, <1>5, <1>8 DEF LInv, NewerSuccessor, Running
  <1> QED BY <1>10, <1>11, <1>12 DEF LInv

\* What changes neither processes nor goroutines, nor adds events, is harmless.
LEMMA QuietLInv ==
  ASSUME LInv, file' = file, started' = started, main' = main, known' = known, fol' = fol,
         children' = children,
         toClean' \in [Procs -> SUBSET Folders],
         ignoreFile' \in [Folders -> Versions \cup {NoVersion, Stale}], HistoryTyped',
         rsync' \in [Folders -> SUBSET Procs],
         pending' \in [Procs -> [Folders -> Nat]],
         \A q \in Procs, g \in Folders : pending'[q][g] > 0 => pending[q][g] > 0
  PROVE  LInv'
  <1>1. \A q \in Procs : Restarting(q)' => Restarting(q)
    BY DEF Restarting
  <1>2. \A q \in Procs : Running(q)' = Running(q)
    BY DEF Running
  <1>3. TypeOK'
    BY DEF LInv, TypeOK, HistoryTyped
  <1>4. HandedOver'
    BY <1>1, <1>2 DEF LInv, HandedOver
  <1>5. NewerSuccessor'
    BY <1>2 DEF LInv, NewerSuccessor
  <1> QED BY <1>3, <1>4, <1>5 DEF LInv

LEMMA OthersLInv ==
  ASSUME LInv, NEW p \in Procs, NEW f \in Folders,
         CleanUp(p, f) \/ RsyncEnds(p, f) \/ LoseConfigEvent(p, f)
  PROVE  LInv'
  <1>1. /\ toClean \in [Procs -> SUBSET Folders] /\ rsync \in [Folders -> SUBSET Procs]
        /\ ignoreFile \in [Folders -> Versions \cup {NoVersion, Stale}] /\ HistoryTyped
        /\ pending \in [Procs -> [Folders -> Nat]]
        /\ UNCHANGED ignoreVars => HistoryTyped'
    BY DEF LInv, TypeOK, HistoryTyped, ignoreVars, history
  <1>2. CASE CleanUp(p, f)
    <2>1. [toClean EXCEPT ![p] = @ \ {f}] \in [Procs -> SUBSET Folders]
      BY <1>1
    <2>2. ignoreFile' \in [Folders -> Versions \cup {NoVersion, Stale}] /\ HistoryTyped'
      BY <1>1, <1>2, BecomesTypes DEF CleanUp, HistoryTyped, LInv
    <2> QED BY <1>1, <1>2, <2>1, <2>2, QuietLInv DEF CleanUp, fileVars
  <1>3. CASE RsyncEnds(p, f)
    <2>1. [rsync EXCEPT ![f] = @ \ {p}] \in [Folders -> SUBSET Procs]
      BY <1>1
    <2> QED BY <1>1, <1>3, <2>1, QuietLInv DEF RsyncEnds, fileVars, procVars, ignoreVars
  <1>4. CASE LoseConfigEvent(p, f)
    <2>1. pending[p][f] > 0 /\ pending' = [pending EXCEPT ![p][f] = @ - 1]
      BY <1>4 DEF LoseConfigEvent
    <2>2. pending[p] \in [Folders -> Nat] /\ pending[p][f] \in Nat
      BY <1>1
    <2> DEFINE row == [pending[p] EXCEPT ![f] = pending[p][f] - 1]
    <2>3. pending' = [pending EXCEPT ![p] = row]
      BY <2>1
    <2>4. row \in [Folders -> Nat] /\ \A g \in Folders : row[g] > 0 => pending[p][g] > 0
      BY <2>1, <2>2
    <2> HIDE DEF row
    <2>5. /\ pending' \in [Procs -> [Folders -> Nat]]
          /\ \A q \in Procs, g \in Folders : pending'[q][g] > 0 => pending[q][g] > 0
      BY <1>1, <2>3, <2>4
    <2> QED BY <1>1, <1>4, <2>5, QuietLInv DEF LoseConfigEvent, procVars, ignoreVars
  <1> QED BY <1>2, <1>3, <1>4

LEMMA NextLInv == LInv /\ [Next]_vars => LInv'
  <1> SUFFICES ASSUME LInv, [Next]_vars PROVE LInv'
    OBVIOUS
  <1>1. CASE BeginEdit \/ EndEdit
    BY <1>1, EditLInv
  <1>2. ASSUME NEW p \in Procs, MainStep(p) PROVE LInv'
    BY <1>2, LoadLInv, ReceiveLInv, ExitLInv, OthersLInv DEF MainStep
  <1>3. ASSUME NEW p \in Procs, NEW f \in Folders,
               \/ FolderStep(p, f) \/ SetupFails(p, f) \/ LoseConfigEvent(p, f)
               \/ RestartFails(p, f) \/ StartSync(p, f) \/ RsyncEnds(p, f)
        PROVE  LInv'
    BY <1>3, GoroutineLInv, StartSuccessorLInv, OthersLInv DEF FolderStep
  <1>4. CASE UNCHANGED vars
    <2>1. /\ UNCHANGED <<file, started, main, known, fol, pending, children, toClean>>
          /\ UNCHANGED <<ignoreVars, rsync>>
      BY <1>4 DEF vars, fileVars, procVars, ignoreVars
    <2> QED BY <2>1, QuietLInv DEF LInv, TypeOK, HistoryTyped, ignoreVars, history
  <1> QED BY <1>1, <1>2, <1>3, <1>4 DEF Next

\* LInv is an invariant of the life cycle, for any number of processes and folders.
THEOREM LifecycleInvariant == Spec => []LInv
  BY InitLInv, NextLInv, PTL DEF Spec

\* The life cycle keeps its types.
THEOREM LifecycleTypeCorrect == Spec => []TypeOK
  <1>1. LInv => TypeOK
    BY DEF LInv
  <1> QED BY <1>1, LifecycleInvariant, PTL

\* Every restart hands over to a younger process, which has an edit to read.
THEOREM RestartsHandOver == Spec => []HandedOver
  <1>1. LInv => HandedOver
    BY DEF LInv
  <1> QED BY <1>1, LifecycleInvariant, PTL

\* No restart is for nothing: a successor's configuration is newer than its parent's.
THEOREM SuccessorsAreNewer == Spec => []NewerSuccessor
  <1>1. LInv => NewerSuccessor
    BY DEF LInv
  <1> QED BY <1>1, LifecycleInvariant, PTL

\* The service ends only with a process that could not read a half-written
\* configuration: the youngest process has no child, so that it cannot have exited.
THEOREM ServiceGoesOn == Spec => []StillServed
  <1>1. LInv => StillServed
    <2> SUFFICES ASSUME LInv PROVE StillServed
      OBVIOUS
    <2>1. started \in Procs /\ started \in Nat /\ main[started] \in MainStates
      BY LifecycleBounds DEF LInv, TypeOK, Procs
    <2>2. main[started] # "none"
      BY <2>1 DEF LInv, HandedOver
    <2>3. children[started] = {}
      BY <2>1 DEF LInv, HandedOver, Procs
    <2>4. main[started] \notin {"leaving", "dead"}
      BY <2>1, <2>3 DEF LInv, HandedOver
    <2> QED BY <2>1, <2>2, <2>4 DEF StillServed, MainStates
  <1> QED BY <1>1, LifecycleInvariant, PTL
-----------------------------------------------------------------------------
(* The contents of .syignore.                                              *)

\* What a goroutine finds after its removal, and what it is about to load.
OwnIgnores(p, f) ==
  /\ fol[p][f] = "write" =>
       \/ ignoreFile[f] = NoVersion
       \/ <<p, f>> \in notRemoved
       \/ <<p, f>> \in disturbed /\ \E q \in Procs \ {p} : ignoreFile[f] = known[q]
  /\ fol[p][f] = "load" => AccountedFor(p, f, ignoreFile[f])

\* The inductive invariant.  A process that has read nothing yet is nobody's source.
IgnoreInv ==
  /\ \A q \in Procs : ~Running(q) /\ main[q] # "dead" => known[q] = NoVersion
  /\ \A p \in Procs, f \in Filtered : OwnIgnores(p, f)

\* Nothing changes for a goroutine as long as its .syignore, what is known of it and
\* what all processes have read stay.
LEMMA IgnoresKept ==
  ASSUME NEW p \in Procs, NEW f \in Folders, OwnIgnores(p, f),
         fol'[p][f] \in {"write", "load"} => /\ fol'[p][f] = fol[p][f]
                                             /\ ignoreFile'[f] = ignoreFile[f]
                                             /\ <<p, f>> \in notRemoved => <<p, f>> \in notRemoved'
                                             /\ <<p, f>> \in notWritten => <<p, f>> \in notWritten'
                                             /\ <<p, f>> \in disturbed => <<p, f>> \in disturbed',
         known'[p] = known[p],
         \A q \in Procs : known'[q] = known[q] \/ known[q] = NoVersion
  PROVE  OwnIgnores(p, f)'
  <1>1. CASE fol'[p][f] = "write"
    BY <1>1 DEF OwnIgnores
  <1>2. CASE fol'[p][f] = "load"
    BY <1>2 DEF OwnIgnores, AccountedFor
  <1> QED BY <1>1, <1>2 DEF OwnIgnores

\* Somebody changes a .syignore: the others whose goroutine is before its load are
\* disturbed, and find no patterns or those of another process.
LEMMA IgnoresDisturbed ==
  ASSUME TypeOK, IgnoreInv, NEW f \in Folders, NEW v, NEW others \in SUBSET Procs,
         Becomes(f, v, others), UNCHANGED known,
         notRemoved \subseteq notRemoved', notWritten \subseteq notWritten',
         NEW p \in others, NEW g \in Filtered, fol'[p][g] = fol[p][g],
         v = NoVersion \/ \E q \in Procs \ {p} : v = known[q]
  PROVE  OwnIgnores(p, g)'
  <1>1. p \in Procs /\ g \in Folders /\ OwnIgnores(p, g)
    BY FoldersAssumption DEF IgnoreInv
  <1>2. CASE g = f
    <2>1. ignoreFile'[g] = v
      BY <1>1, <1>2 DEF TypeOK, Becomes
    <2>2. fol[p][g] \in {"write", "load"} => <<p, g>> \in disturbed'
      BY <1>1, <1>2 DEF Becomes
    <2> QED BY <2>1, <2>2 DEF OwnIgnores, AccountedFor
  <1>3. CASE g # f
    <2>1. ignoreFile'[g] = ignoreFile[g]
      BY <1>1, <1>3 DEF TypeOK, Becomes
    <2>2. <<p, g>> \in disturbed => <<p, g>> \in disturbed'
      BY <1>1, <1>3 DEF Becomes
    <2> QED BY <1>1, <2>1, <2>2, IgnoresKept
  <1> QED BY <1>2, <1>3

\* The two actions of a goroutine that change .syignore.
LEMMA IgnoresRewritten ==
  ASSUME LInv, IgnoreInv, NEW p \in Procs, NEW f \in Folders,
         RemoveIgnores(p, f) \/ WriteIgnores(p, f)
  PROVE  IgnoreInv'
  <1>1. /\ fol' = [fol EXCEPT ![p][f] = fol'[p][f]]
        /\ \A q \in Procs, g \in Folders : q # p \/ g # f => fol'[q][g] = fol[q][g]
        /\ UNCHANGED <<main, known>>
        /\ notRemoved \subseteq notRemoved' /\ notWritten \subseteq notWritten'
        /\ fol \in [Procs -> [Folders -> FolderStates]]
        /\ ignoreFile \in [Folders -> Versions \cup {NoVersion, Stale}]
    BY DEF RemoveIgnores, WriteIgnores, Goes, procVars, LInv, TypeOK
  <1>2. \A q \in Procs : ~Running(q)' /\ main'[q] # "dead" => known'[q] = NoVersion
    BY <1>1 DEF IgnoreInv, Running
  <1> SUFFICES ASSUME NEW q \in Procs, NEW g \in Filtered PROVE OwnIgnores(q, g)'
    BY <1>2 DEF IgnoreInv
  <1>3. g \in Folders /\ OwnIgnores(q, g)
    BY FoldersAssumption DEF IgnoreInv
  <1>4. CASE q # p
    <2>1. fol'[q][g] = fol[q][g] /\ q \in Procs \ {p} /\ p \in Procs \ {q}
      BY <1>1, <1>3, <1>4
    <2>2. CASE UNCHANGED <<ignoreFile, disturbed>>
      BY <1>1, <1>3, <2>1, <2>2, IgnoresKept
    <2>3. CASE Becomes(f, NoVersion, Procs \ {p})
      BY <1>1, <2>1, <2>3, IgnoresDisturbed DEF LInv
    <2>4. CASE Becomes(f, known[p], Procs \ {p})
      BY <1>1, <2>1, <2>4, IgnoresDisturbed DEF LInv
    <2> QED BY <2>2, <2>3, <2>4 DEF RemoveIgnores, WriteIgnores
  <1>5. CASE q = p /\ g # f
    <2>1. fol'[p][g] = fol[p][g]
      BY <1>1, <1>3, <1>5
    <2>2. ignoreFile'[g] = ignoreFile[g] /\ (<<p, g>> \in disturbed => <<p, g>> \in disturbed')
      BY <1>1, <1>3, <1>5 DEF RemoveIgnores, WriteIgnores, Becomes
    <2> QED BY <1>1, <1>3, <1>5, <2>1, <2>2, IgnoresKept
  <1>6. CASE q = p /\ g = f
    <2>1. CASE RemoveIgnores(p, f)
      <3>1. fol'[p][f] = "write"
        BY <1>1, <2>1 DEF RemoveIgnores, Goes
      <3>2. ignoreFile'[f] = NoVersion \/ <<p, f>> \in notRemoved'
        BY <1>1, <2>1 DEF RemoveIgnores, Becomes
      <3> QED BY <1>6, <3>1, <3>2 DEF OwnIgnores
    <2>2. CASE WriteIgnores(p, f)
      <3>1. fol[p][f] = "write" /\ fol'[p][f] = "load"
        BY <1>1, <2>2 DEF WriteIgnores, Goes
      <3>2. CASE Becomes(f, known[p], Procs \ {p})
        <4>1. ignoreFile'[f] = known'[p]
          BY <1>1, <3>2 DEF Becomes
        <4> QED BY <1>6, <3>1, <4>1 DEF OwnIgnores, AccountedFor
      <3>3. CASE notWritten' = notWritten \cup {<<p, f>>} /\ UNCHANGED <<ignoreFile, disturbed>>
        <4>1. \/ ignoreFile'[f] = NoVersion
              \/ <<p, f>> \in notRemoved'
              \/ <<p, f>> \in disturbed' /\ \E r \in Procs \ {p} : ignoreFile'[f] = known'[r]
          BY <1>1, <1>3, <1>6, <3>1, <3>3 DEF OwnIgnores
        <4>2. <<p, f>> \in notWritten'
          BY <3>3
        <4> QED BY <1>6, <3>1, <4>1, <4>2 DEF OwnIgnores, AccountedFor
      <3> QED BY <2>2, <3>2, <3>3 DEF WriteIgnores
    <2> QED BY <2>1, <2>2
  <1> QED BY <1>4, <1>5, <1>6

\* The other actions of a goroutine leave every .syignore alone, and the only ones that
\* lead to a load lead there from a folder without filters or from a load just done.
LEMMA IgnoresOfGoroutine ==
  ASSUME LInv, IgnoreInv, NEW p \in Procs, NEW f \in Folders,
         NEW from, NEW to, Goes(p, f, from, to), UNCHANGED <<main, known, ignoreFile>>,
         to # "write", to = "load" => f \notin Filtered,
         UNCHANGED history \/ ForgetHistory({<<p, f>>})
  PROVE  IgnoreInv'
  <1>1. \A q \in Procs : ~Running(q)' /\ main'[q] # "dead" => known'[q] = NoVersion
    BY DEF IgnoreInv, Running
  <1> SUFFICES ASSUME NEW q \in Procs, NEW g \in Filtered PROVE OwnIgnores(q, g)'
    BY <1>1 DEF IgnoreInv
  <1>2. g \in Folders /\ OwnIgnores(q, g) /\ fol \in [Procs -> [Folders -> FolderStates]]
    BY FoldersAssumption DEF IgnoreInv, LInv, TypeOK
  <1>3. CASE q = p /\ g = f
    <2>1. fol'[q][g] \notin {"write", "load"}
      BY <1>2, <1>3 DEF Goes
    <2> QED BY <2>1 DEF OwnIgnores
  <1>4. CASE ~(q = p /\ g = f)
    <2>1. fol'[q][g] = fol[q][g]
      BY <1>2, <1>4 DEF Goes
    <2>2. /\ <<q, g>> \in notRemoved => <<q, g>> \in notRemoved'
          /\ <<q, g>> \in notWritten => <<q, g>> \in notWritten'
          /\ <<q, g>> \in disturbed => <<q, g>> \in disturbed'
      BY <1>4 DEF history, ForgetHistory
    <2> QED BY <1>2, <2>1, <2>2, IgnoresKept
  <1> QED BY <1>3, <1>4

LEMMA GoroutineIgnores ==
  ASSUME LInv, IgnoreInv, NEW p \in Procs, NEW f \in Folders,
         \/ Resolve(p, f) \/ SetupFails(p, f) \/ FirstSyncDone(p, f) \/ LoadIgnores(p, f)
         \/ InstallWatch(p, f) \/ StartSync(p, f) \/ SyncReturns(p, f)
         \/ TakeConfigEvent(p, f) \/ RestartFails(p, f)
  PROVE  IgnoreInv'
  <1> USE DEF ignoreVars, procVars
  <1>1. CASE Resolve(p, f)
    BY <1>1, IgnoresOfGoroutine DEF Resolve
  <1>2. CASE SetupFails(p, f)
    BY <1>2, IgnoresOfGoroutine DEF SetupFails
  <1>3. CASE FirstSyncDone(p, f)
    BY <1>3, IgnoresOfGoroutine DEF FirstSyncDone
  <1>4. CASE LoadIgnores(p, f)
    BY <1>4, IgnoresOfGoroutine DEF LoadIgnores
  <1>5. CASE InstallWatch(p, f)
    BY <1>5, IgnoresOfGoroutine DEF InstallWatch
  <1>6. CASE StartSync(p, f)
    BY <1>6, IgnoresOfGoroutine DEF StartSync
  <1>7. CASE SyncReturns(p, f)
    BY <1>7, IgnoresOfGoroutine DEF SyncReturns
  <1>8. CASE TakeConfigEvent(p, f)
    BY <1>8, IgnoresOfGoroutine DEF TakeConfigEvent
  <1>9. CASE RestartFails(p, f)
    BY <1>9, IgnoresOfGoroutine DEF RestartFails
  <1> QED BY <1>1, <1>2, <1>3, <1>4, <1>5, <1>6, <1>7, <1>8, <1>9

LEMMA StartSuccessorIgnores ==
  ASSUME LInv, IgnoreInv, NEW p \in Procs, NEW f \in Folders, StartSuccessor(p, f)
  PROVE  IgnoreInv'
  <1>1. /\ main' = [main EXCEPT ![started + 1] = "loading"] /\ known' = known
        /\ Goes(p, f, "restart", "sending") /\ UNCHANGED <<ignoreFile, history>>
        /\ started + 1 \in Procs
    BY LifecycleBounds DEF StartSuccessor, Successor, ignoreVars, LInv, TypeOK, Procs
  <1>2. main[started + 1] = "none"
    <2>1. ~(started + 1 <= started)
      BY LifecycleBounds DEF LInv, TypeOK, Procs
    <2> QED BY <1>1, <2>1 DEF LInv, HandedOver
  <1>3. \A q \in Procs : ~Running(q)' /\ main'[q] # "dead" => known'[q] = NoVersion
    BY <1>1, <1>2 DEF IgnoreInv, Running, LInv, TypeOK
  <1> SUFFICES ASSUME NEW q \in Procs, NEW g \in Filtered PROVE OwnIgnores(q, g)'
    BY <1>3 DEF IgnoreInv
  <1>4. g \in Folders /\ OwnIgnores(q, g)
    BY FoldersAssumption DEF IgnoreInv
  <1>5. fol'[q][g] = fol[q][g] \/ fol'[q][g] = "sending"
    BY <1>1, <1>4 DEF Goes, LInv, TypeOK
  <1> QED BY <1>1, <1>4, <1>5, IgnoresKept DEF history

\* main reads, receives, cleans up and exits.
LEMMA MainIgnores ==
  ASSUME LInv, IgnoreInv, NEW p \in Procs, MainStep(p)
  PROVE  IgnoreInv'
  <1>1. /\ main \in [Procs -> MainStates] /\ known \in [Procs -> Versions \cup {NoVersion}]
        /\ fol \in [Procs -> [Folders -> FolderStates]]
    BY DEF LInv, TypeOK
  <1>2. CASE Load(p)
    <2>1. /\ ~Running(p) /\ known[p] = NoVersion /\ \A f \in Folders : fol[p][f] = "off"
          /\ UNCHANGED <<ignoreFile, history>>
      BY <1>2 DEF Load, IgnoreInv, Running, LInv, HandedOver, ignoreVars
    <2>2. /\ main'[p] = "running" \/ (main'[p] = "failed" /\ known' = known)
          /\ \A q \in Procs : q # p => main'[q] = main[q] /\ known'[q] = known[q] /\ fol'[q] = fol[q]
          /\ \A f \in Folders : fol'[p][f] \notin {"write", "load"}
      BY <1>1, <1>2, <2>1 DEF Load
    <2>3. \A q \in Procs : ~Running(q)' /\ main'[q] # "dead" => known'[q] = NoVersion
      BY <2>1, <2>2 DEF IgnoreInv, Running
    <2> SUFFICES ASSUME NEW q \in Procs, NEW g \in Filtered PROVE OwnIgnores(q, g)'
      BY <2>3 DEF IgnoreInv
    <2>4. g \in Folders /\ OwnIgnores(q, g)
      BY FoldersAssumption DEF IgnoreInv
    <2>5. CASE q = p
      BY <2>2, <2>4, <2>5 DEF OwnIgnores
    <2>6. CASE q # p
      BY <2>1, <2>2, <2>4, <2>6, IgnoresKept DEF history
    <2> QED BY <2>5, <2>6
  <1>3. ASSUME NEW f \in Folders, Receive(p, f) PROVE IgnoreInv'
    <2>1. /\ main[p] = "running" /\ main' = [main EXCEPT ![p] = "leaving"]
          /\ fol' = [fol EXCEPT ![p][f] = "watching"]
          /\ UNCHANGED <<known, ignoreFile, history>>
      BY <1>3 DEF Receive, ignoreVars
    <2>2. \A q \in Procs : ~Running(q)' /\ main'[q] # "dead" => known'[q] = NoVersion
      BY <1>1, <2>1 DEF IgnoreInv, Running
    <2> SUFFICES ASSUME NEW q \in Procs, NEW g \in Filtered PROVE OwnIgnores(q, g)'
      BY <2>2 DEF IgnoreInv
    <2>3. g \in Folders /\ OwnIgnores(q, g)
      BY FoldersAssumption DEF IgnoreInv
    <2>4. fol'[q][g] = fol[q][g] \/ fol'[q][g] = "watching"
      BY <1>1, <2>1, <2>3
    <2> QED BY <2>1, <2>3, <2>4, IgnoresKept DEF history
  <1>4. ASSUME NEW f \in Folders, CleanUp(p, f) PROVE IgnoreInv'
    <2>1. UNCHANGED <<main, known, fol, notRemoved, notWritten>>
      BY <1>4 DEF CleanUp
    <2>2. \A q \in Procs : ~Running(q)' /\ main'[q] # "dead" => known'[q] = NoVersion
      BY <2>1 DEF IgnoreInv, Running
    <2> SUFFICES ASSUME NEW q \in Procs, NEW g \in Filtered PROVE OwnIgnores(q, g)'
      BY <2>2 DEF IgnoreInv
    <2>3. g \in Folders /\ OwnIgnores(q, g)
      BY FoldersAssumption DEF IgnoreInv
    <2>4. CASE Becomes(f, NoVersion, Procs)
      BY <2>1, <2>4, IgnoresDisturbed DEF LInv
    <2>5. CASE UNCHANGED <<ignoreFile, disturbed>>
      BY <2>1, <2>3, <2>5, IgnoresKept
    <2> QED BY <1>4, <2>4, <2>5 DEF CleanUp
  <1>5. CASE Exit(p)
    <2>1. /\ main' = [main EXCEPT ![p] = "dead"]
          /\ fol' = [fol EXCEPT ![p] = [f \in Folders |-> "off"]]
          /\ UNCHANGED <<known, ignoreFile>> /\ ForgetHistory({p} \X Folders)
      BY <1>5 DEF Exit
    <2>2. \A q \in Procs : ~Running(q)' /\ main'[q] # "dead" => known'[q] = NoVersion
      BY <1>1, <2>1 DEF IgnoreInv, Running
    <2> SUFFICES ASSUME NEW q \in Procs, NEW g \in Filtered PROVE OwnIgnores(q, g)'
      BY <2>2 DEF IgnoreInv
    <2>3. g \in Folders /\ OwnIgnores(q, g)
      BY FoldersAssumption DEF IgnoreInv
    <2>4. CASE q = p
      BY <1>1, <2>1, <2>3, <2>4 DEF OwnIgnores
    <2>5. CASE q # p
      <3>1. fol'[q][g] = fol[q][g] /\ <<q, g>> \notin {p} \X Folders
        BY <1>1, <2>1, <2>5
      <3> QED BY <2>1, <2>3, <3>1, IgnoresKept DEF ForgetHistory
    <2> QED BY <2>4, <2>5
  <1> QED BY <1>2, <1>3, <1>4, <1>5 DEF MainStep

LEMMA NextIgnores == LInv /\ IgnoreInv /\ [Next]_vars => IgnoreInv'
  <1> SUFFICES ASSUME LInv, IgnoreInv, [Next]_vars PROVE IgnoreInv'
    OBVIOUS
  <1>1. ASSUME UNCHANGED <<main, known, fol, ignoreFile, history>> PROVE IgnoreInv'
    BY <1>1 DEF IgnoreInv, OwnIgnores, AccountedFor, Running, history
  <1>2. CASE BeginEdit \/ EndEdit \/ UNCHANGED vars
    BY <1>1, <1>2 DEF BeginEdit, EndEdit, vars, procVars, ignoreVars
  <1>3. ASSUME NEW p \in Procs, NEW f \in Folders,
               LoseConfigEvent(p, f) \/ RsyncEnds(p, f)
        PROVE  IgnoreInv'
    BY <1>1, <1>3 DEF LoseConfigEvent, RsyncEnds, procVars, ignoreVars
  <1>4. ASSUME NEW p \in Procs, NEW f \in Folders,
               FolderStep(p, f) \/ SetupFails(p, f) \/ RestartFails(p, f) \/ StartSync(p, f)
        PROVE  IgnoreInv'
    BY <1>4, GoroutineIgnores, IgnoresRewritten, StartSuccessorIgnores DEF FolderStep
  <1> QED BY <1>2, <1>3, <1>4, MainIgnores DEF Next

\* Every .syignore that a goroutine loads is the one of its process, or a failure of its
\* own or another process accounts for what it is.
THEOREM PatternsExplained == Spec => []PatternsAccountedFor
  <1>1. Init => IgnoreInv
    BY FoldersAssumption DEF Init, IgnoreInv, OwnIgnores
  <1>2. IgnoreInv => PatternsAccountedFor
    BY DEF IgnoreInv, OwnIgnores, PatternsAccountedFor
  <1> QED BY <1>1, <1>2, NextIgnores, LifecycleInvariant, PTL DEF Spec
=============================================================================
