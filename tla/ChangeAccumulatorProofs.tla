----------------------- MODULE ChangeAccumulatorProofs -----------------------
(***************************************************************************)
(* Proofs about ChangeAccumulator, for every set of paths and every        *)
(* maxFiles.  AccInv is inductive; the invariants and the action property  *)
(* that the runs check follow from it.                                     *)
(***************************************************************************)
EXTENDS ChangeAccumulator, FiniteSetTheorems, TLAPS

\* Dropping paths from a finite map of tracked paths keeps it within its bound.
LEMMA SmallerIsBounded ==
  ASSUME NEW S, NEW T, IsFiniteSet(S), T \subseteq S, Cardinality(S) <= MaxFiles + 1
  PROVE  IsFiniteSet(T) /\ Cardinality(T) <= MaxFiles + 1
<1>1. IsFiniteSet(T) /\ Cardinality(T) <= Cardinality(S)
  BY FS_Subset
<1>2. Cardinality(S) \in Nat /\ Cardinality(T) \in Nat
  BY <1>1, FS_CardinalityType
<1> QED  BY <1>1, <1>2, MaxFilesAssumption

\* Adding one path to a map that holds no more than maxFiles keeps it in its bound.
LEMMA OneMoreIsBounded ==
  ASSUME NEW S, NEW p, IsFiniteSet(S), Cardinality(S) <= MaxFiles
  PROVE  IsFiniteSet(S \cup {p}) /\ Cardinality(S \cup {p}) <= MaxFiles + 1
<1>1. /\ IsFiniteSet(S \cup {p})
      /\ Cardinality(S \cup {p}) = IF p \in S THEN Cardinality(S) ELSE Cardinality(S) + 1
  BY FS_AddElement
<1>2. Cardinality(S) \in Nat
  BY FS_CardinalityType
<1> QED  BY <1>1, <1>2, MaxFilesAssumption

\* The goroutine starts with an empty map, so AccInv holds.
LEMMA InitInv == AccInit => AccInv
<1> SUFFICES ASSUME AccInit PROVE AccInv
  OBVIOUS
<1>1. IsFiniteSet(inProgress) /\ TrackedBound
  BY FS_EmptySet, MaxFilesAssumption DEF AccInit, TrackedBound
<1>2. AccTypeOK
  BY DEF AccInit, AccTypeOK, Intervals
<1>3. pc # "select" /\ pc # "report" /\ pc # "rescan" /\ currInterval # "debounce"
  BY DEF AccInit
<1> QED  BY <1>1, <1>2, <1>3 DEF AccInit, AccInv

\* Taking an event: the map grows by at most one path, and the timer is to be
\* restarted unless it already runs for the debounce interval.
LEMMA TakeEventInv ==
  ASSUME AccInv, NEW p \in Paths, TakeEvent(p)
  PROVE  AccInv'
<1> USE DEF AccInv
<1>1. IsFiniteSet(inProgress)' /\ TrackedBound'
  <2>1. CASE Reject(p)
    BY <2>1 DEF Reject, TrackedBound
  <2>2. CASE Track(p)
    <3>1. Cardinality(inProgress) <= MaxFiles
      BY <2>2, FS_CardinalityType, MaxFilesAssumption DEF Track, MapFull
    <3> QED  BY <2>2, <3>1, OneMoreIsBounded DEF Track, TrackedBound
  <2> QED  BY <2>1, <2>2 DEF TakeEvent
<1>2. AccTypeOK'
  BY DEF AccTypeOK, Intervals, TakeEvent, SpeedUp, Reject, Track
<1>3. pc' # "select" /\ pc' # "report" /\ pc' # "rescan"
  BY DEF TakeEvent, Reject, Track
<1>4. /\ currInterval' = "debounce"
      /\ ~flushTimerNeedsReset' => flushTimer' \in {"debounce", "fired"}
  BY DEF TakeEvent, SpeedUp, AccTypeOK
<1> QED  BY <1>1, <1>2, <1>3, <1>4

\* A successful callback drops its batch from the map.
LEMMA CallbackReturnsInv ==
  ASSUME AccInv, CallbackReturns
  PROVE  AccInv'
<1> USE DEF AccInv
<1>1. IsFiniteSet(inProgress)' /\ TrackedBound'
  <2>1. inProgress' \subseteq inProgress
    BY DEF CallbackReturns, Forget
  <2> QED  BY <2>1, SmallerIsBounded DEF TrackedBound
<1>2. AccTypeOK'
  BY DEF AccTypeOK, CallbackReturns, Forget, timerVars
<1> QED  BY <1>1, <1>2 DEF CallbackReturns, Forget, timerVars, AccTypeOK

\* The flush decides between four outcomes; the map itself does not change.
LEMMA FlushInv ==
  ASSUME AccInv, Flush
  PROVE  AccInv'
<1> USE DEF AccInv, Flush
<1>1. IsFiniteSet(inProgress)' /\ TrackedBound'
  BY DEF TrackedBound
<1>2. CASE SlowDown
  BY <1>1, <1>2 DEF SlowDown, AccTypeOK, Intervals
<1>3. CASE NothingSettled
  BY <1>1, <1>3 DEF NothingSettled, AccTypeOK
<1>4. CASE Report
  BY <1>1, <1>4 DEF Report, AccTypeOK
<1>5. CASE Rescan
  BY <1>1, <1>5 DEF Rescan, AccTypeOK
<1> QED  BY <1>2, <1>3, <1>4, <1>5

\* The process that replaces this one begins with an empty map.
LEMMA ProcessReplacedInv ==
  ASSUME AccInv, ProcessReplaced
  PROVE  AccInv'
<1>1. IsFiniteSet(inProgress)' /\ TrackedBound'
  BY FS_EmptySet, MaxFilesAssumption DEF ProcessReplaced, TrackedBound
<1>2. AccTypeOK'
  BY DEF ProcessReplaced, AccTypeOK, Intervals
<1>3. pc' # "select" /\ pc' # "report" /\ pc' # "rescan" /\ currInterval' # "debounce"
  BY DEF ProcessReplaced
<1> QED  BY <1>1, <1>2, <1>3 DEF ProcessReplaced, AccInv

\* Every step of the goroutine and of its environment preserves AccInv.
LEMMA NextInv == AccInv /\ [AccNext]_accVars => AccInv'
<1> SUFFICES ASSUME AccInv, [AccNext]_accVars PROVE AccInv'
  OBVIOUS
<1> USE DEF AccInv, TrackedBound, AccTypeOK, Intervals, timerVars
<1>1. CASE Started
  BY <1>1 DEF Started
<1>2. CASE LoopTop
  BY <1>2 DEF LoopTop
<1>3. CASE TakeTick
  BY <1>3 DEF TakeTick
<1>4. CASE RemindReturns
  BY <1>4 DEF RemindReturns
<1>5. CASE TimerFires
  BY <1>5 DEF TimerFires
<1>6. CASE ScanFallsDue
  BY <1>6 DEF ScanFallsDue
<1>7. ASSUME NEW p \in Paths, RipenPath(p) PROVE AccInv'
  BY <1>7 DEF RipenPath
<1>8. ASSUME NEW p \in Paths, TakeEvent(p) PROVE AccInv'
  BY <1>8, TakeEventInv
<1>9. CASE SyncReturns
  BY <1>9 DEF SyncReturns
<1>10. CASE RestartReturns
  BY <1>10 DEF RestartReturns
<1>11. CASE Flush
  BY <1>11, FlushInv
<1>12. CASE CallbackReturns
  BY <1>12, CallbackReturnsInv
<1>13. CASE CallbackFails
  BY <1>13 DEF CallbackFails
<1>14. CASE ProcessReplaced
  BY <1>14, ProcessReplacedInv
<1>15. CASE UNCHANGED accVars
  BY <1>15 DEF accVars
<1> QED  BY <1>1, <1>2, <1>3, <1>4, <1>5, <1>6, <1>7, <1>8, <1>9, <1>10, <1>11,
            <1>12, <1>13, <1>14, <1>15 DEF AccNext, AccLocal

\* AccInv is an invariant of the accumulator, for all Paths and MaxFiles.
THEOREM AccInvariant == AccSpec => []AccInv
<1>1. AccInit => AccInv
  BY InitInv
<1>2. AccInv /\ [AccNext]_accVars => AccInv'
  BY NextInv
<1> QED  BY <1>1, <1>2, PTL DEF AccSpec

\* Type correctness.
THEOREM AccTypeCorrect == AccSpec => []AccTypeOK
<1>1. AccInv => AccTypeOK
  BY DEF AccInv
<1> QED  BY <1>1, AccInvariant, PTL

\* The map of tracked paths never holds more than maxFiles + 1 paths (515-518).
THEOREM MapIsBounded == AccSpec => []TrackedBound
<1>1. AccInv => TrackedBound
  BY DEF AccInv
<1> QED  BY <1>1, AccInvariant, PTL

\* While something is tracked the select never waits for the slow timer (501-507).
THEOREM FlushIsPrompt == AccSpec => []PromptFlush
<1>1. AccInv => PromptFlush
  BY DEF AccInv, PromptFlush
<1> QED  BY <1>1, AccInvariant, PTL

\* An accepted path is forgotten only when the callback it was handed to has returned
\* nil (581-599); one that fails forgets nothing.
THEOREM NothingForgotten == AccSpec => ForgottenOnlyWhenInformed
<1> DEFINE Informed ==
      \A p \in inProgress \ inProgress' :
        \/ /\ err' = "nil" /\ p \in batch
           /\ \/ pc = "report" /\ p \in ripe
              \/ pc = "rescan" /\ Cardinality(inProgress) >= MaxFiles
        \/ restarting /\ ~restarting'
<1>1. AccInv /\ [AccNext]_accVars => [Informed]_accVars
  <2> SUFFICES ASSUME AccInv, AccNext PROVE Informed
    OBVIOUS
  <2>1. CASE CallbackReturns
    BY <2>1 DEF CallbackReturns, Forget, AccInv
  <2>2. CASE ProcessReplaced
    BY <2>2 DEF ProcessReplaced
  <2>3. CASE ~CallbackReturns /\ ~ProcessReplaced
    <3>1. inProgress \subseteq inProgress'
      BY <2>3 DEF AccNext, AccLocal, Started, LoopTop, TakeTick, RemindReturns,
         TimerFires, ScanFallsDue, RipenPath, TakeEvent, Reject, Track, SyncReturns,
         RestartReturns, Flush, CallbackFails
    <3> QED  BY <3>1
  <2> QED  BY <2>1, <2>2, <2>3
<1> QED  BY <1>1, AccInvariant, PTL DEF AccSpec, ForgottenOnlyWhenInformed
=============================================================================
