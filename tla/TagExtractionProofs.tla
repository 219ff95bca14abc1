------------------------- MODULE TagExtractionProofs -------------------------
(***************************************************************************)
(* Proofs about ExtractMultiTags, for any number of segments and any       *)
(* capacity of the channel sem.                                            *)
(***************************************************************************)
EXTENDS TagExtraction, FiniteSetTheorems, TLAPS

(* Sets of segments are finite, so the slots and the WaitGroup can be      *)
(* counted with Cardinality.                                               *)
LEMMA SegmentSetsFinite ==
  ASSUME NEW S \in SUBSET Segment
  PROVE  IsFiniteSet(S) /\ Cardinality(S) \in Nat
<1>1. IsFiniteSet(Segment)
  BY FS_Interval, ExtractionAssumption DEF Segment
<1>2. IsFiniteSet(S)
  BY <1>1, FS_Subset
<1> QED
  BY <1>2, FS_CardinalityType

(* Among sets of segments a subset has no more elements. *)
LEMMA SegmentSetsMonotone ==
  ASSUME NEW S \in SUBSET Segment, NEW T \in SUBSET S
  PROVE  Cardinality(T) <= Cardinality(S)
<1>1. IsFiniteSet(S)
  BY SegmentSetsFinite
<1> QED
  BY <1>1, FS_Subset

(* A goroutine that starts, or one that ends, changes the count by one. *)
LEMMA SegmentSetsStep ==
  ASSUME NEW S \in SUBSET Segment, NEW x \in Segment
  PROVE  /\ x \notin S => Cardinality(S \cup {x}) = Cardinality(S) + 1
         /\ x \in S => Cardinality(S \ {x}) = Cardinality(S) - 1
<1>1. IsFiniteSet(S)
  BY SegmentSetsFinite
<1> QED
  BY <1>1, FS_AddElement, FS_RemoveElement

(* The derived sets are sets of segments. *)
LEMMA DerivedSets ==
  /\ Failed \in SUBSET Segment
  /\ Holding \in SUBSET Segment
  /\ Running \in SUBSET Segment
  /\ Missed \in SUBSET Segment
  /\ Holding \subseteq Running
BY DEF Failed, Holding, Running, Missed

(* Before the call nothing is held, counted or missed. *)
LEMMA ExtractionInvInit == ExtractionInit => ExtractionInv
<1> SUFFICES ASSUME ExtractionInit PROVE ExtractionInv
  OBVIOUS
<1>1. Holding = {} /\ Running = {} /\ Missed = {}
  BY ExtractionAssumption DEF ExtractionInit, Holding, Running, Missed, Failed
<1>2. Cardinality({}) = 0
  BY FS_EmptySet
<1>3. ExtractionTypeOK
  BY ExtractionAssumption
  DEF ExtractionInit, ExtractionTypeOK, CallerState, GorState, TagLists
<1>4. SlotsCounted
  BY <1>1, <1>2 DEF ExtractionInit, SlotsCounted
<1>5. SpawnedPrefix /\ ErrorsFollowAnswers /\ ScanProgress
  BY ExtractionAssumption
  DEF ExtractionInit, SpawnedPrefix, ErrorsFollowAnswers, ScanProgress, Segment
<1>6. LateErrorsBounded
  BY <1>1, <1>2, ExtractionAssumption DEF LateErrorsBounded
<1> QED
  BY <1>3, <1>4, <1>5, <1>6 DEF ExtractionInv

(* Every step of the caller and of the goroutines preserves the invariant. *)
LEMMA ExtractionInvStep ==
  ExtractionInv /\ [ExtractionNext]_extractionVars => ExtractionInv'
<1> SUFFICES ASSUME ExtractionInv, [ExtractionNext]_extractionVars
             PROVE  ExtractionInv'
  OBVIOUS
<1> USE ExtractionAssumption
<1> USE DEF ExtractionInv
<1>1. ASSUME NEW k \in 0..MaxSegments, Call(k) PROVE ExtractionInv'
  <2>1. /\ Holding' = Holding /\ Running' = Running /\ Missed' = Missed
        /\ caller = "idle" /\ n = 0
    BY <1>1 DEF Call, Holding, Running, Missed, Failed, ScanProgress
  <2>2. spawned = 0 /\ wg = 0 /\ scanned = 0
    BY <2>1 DEF ExtractionTypeOK
  <2>3. ExtractionTypeOK'
    BY <1>1, <2>2 DEF Call, ExtractionTypeOK, CallerState
  <2>4. SlotsCounted' /\ SpawnedPrefix' /\ ErrorsFollowAnswers' /\ LateErrorsBounded'
    BY <1>1, <2>1
    DEF Call, SlotsCounted, SpawnedPrefix, ErrorsFollowAnswers, LateErrorsBounded
  <2>5. ScanProgress'
    BY <1>1, <2>2 DEF Call, ScanProgress
  <2> QED
    BY <2>3, <2>4, <2>5
<1>2. CASE Spawn
  <2> DEFINE j == spawned + 1
  <2>1. j \in Segment /\ gor[j] = "none"
    BY <1>2 DEF Spawn, ExtractionTypeOK, SpawnedPrefix, Segment
  <2>2. /\ Holding' = Holding \cup {j} /\ j \notin Holding
        /\ Running' = Running \cup {j} /\ j \notin Running
    BY <1>2, <2>1 DEF Spawn, Holding, Running, ExtractionTypeOK
  <2>3. SlotsCounted'
    <3> HIDE DEF j
    <3> QED
      BY <1>2, <2>1, <2>2, DerivedSets, SegmentSetsStep DEF Spawn, SlotsCounted
  <2>4. Running' \subseteq 1..(spawned + 1)
    BY <1>2, <2>2 DEF Running, SpawnedPrefix, ExtractionTypeOK, Segment
  <2>5. Cardinality(Running') <= spawned + 1
    <3>1. spawned \in Nat
      BY DEF ExtractionTypeOK
    <3>2. IsFiniteSet(1..(spawned + 1)) /\ Cardinality(1..(spawned + 1)) = spawned + 1
      BY <3>1, FS_Interval
    <3> QED
      BY <3>2, <2>4, FS_Subset
  <2>6. ExtractionTypeOK'
    <3>1. Running' \in SUBSET Segment
      BY DEF Running
    <3>2. wg' \in Nat
      BY <3>1, <2>3, SegmentSetsFinite DEF SlotsCounted
    <3> QED
      BY <1>2, <2>1, <2>3, <2>5, <3>2
      DEF Spawn, ExtractionTypeOK, SlotsCounted, GorState
  <2>7. SpawnedPrefix' /\ ErrorsFollowAnswers'
    BY <1>2, <2>1
    DEF Spawn, SpawnedPrefix, ErrorsFollowAnswers, ExtractionTypeOK, Segment
  <2>8. ScanProgress'
    BY <1>2 DEF Spawn, ScanProgress
  <2>9. LateErrorsBounded'
    <3>1. Missed' = {}
      BY <1>2 DEF Spawn, Missed, Failed, ScanProgress, Segment
    <3> QED
      BY <1>2, <3>1, <2>3, <2>6 DEF LateErrorsBounded, SlotsCounted, ExtractionTypeOK
  <2> QED
    BY <2>3, <2>6, <2>7, <2>8, <2>9
<1>3. CASE LoopDone \/ ScanDone \/ Wait
  <2>1. Holding' = Holding /\ Running' = Running /\ Missed' = Missed
    BY <1>3 DEF LoopDone, ScanDone, Wait, Holding, Running, Missed, Failed
  <2>2. ExtractionTypeOK'
    BY <1>3 DEF LoopDone, ScanDone, Wait, ExtractionTypeOK, CallerState
  <2>3. SlotsCounted' /\ SpawnedPrefix' /\ ErrorsFollowAnswers' /\ LateErrorsBounded'
    BY <1>3, <2>1
    DEF LoopDone, ScanDone, Wait, SlotsCounted, SpawnedPrefix,
        ErrorsFollowAnswers, LateErrorsBounded
  <2>4. ScanProgress'
    BY <1>3 DEF LoopDone, ScanDone, Wait, ScanProgress, ExtractionTypeOK
  <2> QED
    BY <2>2, <2>3, <2>4
<1>4. CASE Scan
  <2>1. Holding' = Holding /\ Running' = Running
    BY <1>4 DEF Scan, Holding, Running
  <2>2. Missed' \subseteq Missed
    BY <1>4 DEF Scan, Missed, Failed, ExtractionTypeOK, Segment
  <2>3. ExtractionTypeOK'
    BY <1>4 DEF Scan, ExtractionTypeOK, Segment
  <2>4. SlotsCounted' /\ SpawnedPrefix' /\ ErrorsFollowAnswers'
    BY <1>4, <2>1 DEF Scan, SlotsCounted, SpawnedPrefix, ErrorsFollowAnswers
  <2>5. ScanProgress'
    BY <1>4 DEF Scan, ScanProgress, ExtractionTypeOK, Segment
  <2>6. LateErrorsBounded'
    <3> DEFINE S == Holding \cup Missed
               T == (Holding \cup Missed)'
    <3>1. S \in SUBSET Segment /\ T \in SUBSET S
      BY <2>1, <2>2, DerivedSets
    <3>2. Cardinality(S) \in Nat /\ Cardinality(T) \in Nat
      BY <3>1, SegmentSetsFinite
    <3>3. Cardinality(T) <= Cardinality(S)
      BY <3>1, SegmentSetsMonotone
    <3> QED
      BY <3>2, <3>3 DEF LateErrorsBounded
  <2> QED
    BY <2>3, <2>4, <2>5, <2>6
<1>5. ASSUME NEW i \in Segment,
             (\E tags \in TagLists : ExtractTagsOk(i, tags)) \/ ExtractTagsErr(i)
      PROVE  ExtractionInv'
  <2>1. Holding' = Holding /\ Running' = Running
    BY <1>5 DEF ExtractTagsOk, ExtractTagsErr, Holding, Running, ExtractionTypeOK
  <2>2. Missed' \subseteq Missed \cup Holding
    BY <1>5
    DEF ExtractTagsOk, ExtractTagsErr, Missed, Failed, Holding, ExtractionTypeOK
  <2>3. ExtractionTypeOK'
    BY <1>5 DEF ExtractTagsOk, ExtractTagsErr, ExtractionTypeOK, GorState
  <2>4. SlotsCounted'
    BY <1>5, <2>1 DEF ExtractTagsOk, ExtractTagsErr, SlotsCounted
  <2>5. SpawnedPrefix' /\ ErrorsFollowAnswers'
    BY <1>5
    DEF ExtractTagsOk, ExtractTagsErr, SpawnedPrefix, ErrorsFollowAnswers, ExtractionTypeOK
  <2>6. ScanProgress'
    BY <1>5 DEF ExtractTagsOk, ExtractTagsErr, ScanProgress, ExtractionTypeOK
  <2>7. LateErrorsBounded'
    <3> DEFINE S == Holding \cup Missed
               T == (Holding \cup Missed)'
    <3>1. S \in SUBSET Segment /\ T \in SUBSET S
      BY <2>1, <2>2, DerivedSets
    <3>2. Cardinality(S) \in Nat /\ Cardinality(T) \in Nat
      BY <3>1, SegmentSetsFinite
    <3>3. Cardinality(T) <= Cardinality(S)
      BY <3>1, SegmentSetsMonotone
    <3> QED
      BY <3>2, <3>3 DEF LateErrorsBounded
  <2> QED
    BY <2>3, <2>4, <2>5, <2>6, <2>7
<1>6. ASSUME NEW i \in Segment, Release(i) PROVE ExtractionInv'
  <2>1. /\ Holding' = Holding \ {i} /\ i \in Holding
        /\ Running' = Running /\ Missed' = Missed
    BY <1>6 DEF Release, Holding, Running, Missed, Failed, ExtractionTypeOK
  <2>2. SlotsCounted'
    BY <1>6, <2>1, DerivedSets, SegmentSetsStep DEF Release, SlotsCounted
  <2>3. sem' \in Nat
    <3>1. Holding' \in SUBSET Segment
      BY DEF Holding
    <3> QED
      BY <3>1, <2>2, SegmentSetsFinite DEF SlotsCounted
  <2>4. ExtractionTypeOK'
    BY <1>6, <2>3 DEF Release, ExtractionTypeOK, GorState
  <2>5. SpawnedPrefix' /\ ErrorsFollowAnswers'
    BY <1>6 DEF Release, SpawnedPrefix, ErrorsFollowAnswers, ExtractionTypeOK
  <2>6. ScanProgress'
    BY <1>6 DEF Release, ScanProgress
  <2>7. LateErrorsBounded'
    <3> DEFINE S == Holding \cup Missed
               T == (Holding \cup Missed)'
    <3>1. S \in SUBSET Segment /\ T \in SUBSET S
      BY <2>1, DerivedSets
    <3>2. Cardinality(S) \in Nat /\ Cardinality(T) \in Nat
      BY <3>1, SegmentSetsFinite
    <3>3. Cardinality(T) <= Cardinality(S)
      BY <3>1, SegmentSetsMonotone
    <3> QED
      BY <3>2, <3>3 DEF LateErrorsBounded
  <2> QED
    BY <2>2, <2>4, <2>5, <2>6, <2>7
<1>7. ASSUME NEW i \in Segment, Done(i) PROVE ExtractionInv'
  <2>1. /\ Holding' = Holding /\ Missed' = Missed
        /\ Running' = Running \ {i} /\ i \in Running
    BY <1>7 DEF Done, Holding, Running, Missed, Failed, ExtractionTypeOK
  <2>2. SlotsCounted'
    BY <1>7, <2>1, DerivedSets, SegmentSetsStep DEF Done, SlotsCounted
  <2>3. wg' \in Nat
    <3>1. Running' \in SUBSET Segment
      BY DEF Running
    <3> QED
      BY <3>1, <2>2, SegmentSetsFinite DEF SlotsCounted
  <2>4. ExtractionTypeOK'
    BY <1>7, <2>3 DEF Done, ExtractionTypeOK, GorState
  <2>5. SpawnedPrefix' /\ ErrorsFollowAnswers' /\ LateErrorsBounded'
    BY <1>7, <2>1
    DEF Done, SpawnedPrefix, ErrorsFollowAnswers, ExtractionTypeOK, LateErrorsBounded
  <2>6. ScanProgress'
    BY <1>7, <2>3 DEF Done, ScanProgress, ExtractionTypeOK
  <2> QED
    BY <2>2, <2>4, <2>5, <2>6
<1>8. CASE UNCHANGED extractionVars
  <2>1. Holding' = Holding /\ Running' = Running /\ Missed' = Missed
    BY <1>8 DEF extractionVars, Holding, Running, Missed, Failed
  <2> QED
    BY <1>8, <2>1
    DEF extractionVars, ExtractionTypeOK, SlotsCounted, SpawnedPrefix,
        ErrorsFollowAnswers, ScanProgress, LateErrorsBounded
<1> QED
  BY <1>1, <1>2, <1>3, <1>4, <1>5, <1>6, <1>7, <1>8
  DEF ExtractionNext, CallerStep, GoroutineStep

(* ExtractionInv holds in every state of every call. *)
THEOREM ExtractionInvariance == ExtractionSpec => []ExtractionInv
BY ExtractionInvInit, ExtractionInvStep, PTL DEF ExtractionSpec

(* The slot and WaitGroup counters of ExtractMultiTags stay inside their   *)
(* ranges: sem is never below zero or above the capacity, wg never         *)
(* negative, whatever order goroutines end in.                             *)
THEOREM ExtractionTypeCorrect == ExtractionSpec => []ExtractionTypeOK
<1>1. ExtractionInv => ExtractionTypeOK
  BY DEF ExtractionInv
<1> QED
  BY <1>1, ExtractionInvariance, PTL

(* At most maxConcurrentRequests goroutines are inside ExtractTags. *)
THEOREM ExtractionConcurrencyBound == ExtractionSpec => []ConcurrencyBound
<1>1. ASSUME ExtractionInv PROVE ConcurrencyBound
  <2> DEFINE asking == {i \in Segment : gor[i] = "asking"}
  <2>1. asking \subseteq Holding
    BY DEF Holding
  <2>2. Cardinality(asking) <= Cardinality(Holding)
    BY <2>1, DerivedSets, SegmentSetsMonotone
  <2>3. Cardinality(asking) \in Nat /\ Cardinality(Holding) \in Nat
    BY <2>1, DerivedSets, SegmentSetsFinite
  <2>4. Cardinality(Holding) <= MaxConcurrentRequests
    BY <1>1, ExtractionAssumption DEF ExtractionInv, SlotsCounted, ExtractionTypeOK
  <2> QED
    BY <2>2, <2>3, <2>4, ExtractionAssumption DEF ConcurrencyBound
<1> QED
  BY <1>1, ExtractionInvariance, PTL

(* Every failure behind a nil error was missed by the scan. *)
LEMMA OkBoundsFailures ==
  ASSUME ExtractionInv, caller = "ok"
  PROVE  Cardinality(Failed) <= MaxConcurrentRequests
<1> USE ExtractionAssumption
<1>1. Failed \subseteq Missed
  BY DEF ExtractionInv, ExtractionTypeOK, SpawnedPrefix, ErrorsFollowAnswers,
         ScanProgress, Failed, Missed, Segment
<1>2. Failed \in SUBSET (Holding \cup Missed) /\ Holding \cup Missed \in SUBSET Segment
  BY <1>1, DerivedSets
<1>3. Cardinality(Failed) <= Cardinality(Holding \cup Missed)
  BY <1>2, SegmentSetsMonotone
<1>4. Cardinality(Failed) \in Nat /\ Cardinality(Holding \cup Missed) \in Nat
  BY <1>2, SegmentSetsFinite
<1> QED
  BY <1>3, <1>4 DEF ExtractionInv, LateErrorsBounded

(* A nil error hides at most maxConcurrentRequests failed segments: once   *)
(* the call returns "ok", everything that failed was missed by the scan.   *)
THEOREM ExtractionLostErrorsBounded == ExtractionSpec => []LostErrorsBounded
<1>1. ExtractionInv => LostErrorsBounded
  BY OkBoundsFailures DEF LostErrorsBounded
<1> QED
  BY <1>1, ExtractionInvariance, PTL

(* The error return names at least one segment, and only segments whose    *)
(* request really failed.                                                  *)
THEOREM ExtractionErrorsAreReal == ExtractionSpec => []ErrorsAreReal
<1>1. ExtractionInv => ErrorsAreReal
  BY DEF ExtractionInv, ExtractionTypeOK, ScanProgress, ErrorsAreReal, Failed
<1> QED
  BY <1>1, ExtractionInvariance, PTL

(* The WaitGroup has counted every goroutine down. *)
LEMMA OkEndsGoroutines ==
  ASSUME ExtractionInv, caller = "ok"
  PROVE  \A i \in Segment : gor[i] \in {"none", "done"}
<1>1. IsFiniteSet(Running) /\ Cardinality(Running) = 0
  BY DerivedSets, SegmentSetsFinite DEF ExtractionInv, ScanProgress, SlotsCounted
<1>2. Running = {}
  BY <1>1, FS_EmptySet
<1> QED
  BY <1>2 DEF Running, ExtractionInv, ExtractionTypeOK, GorState

(* After a nil-error return no step writes results or errs: no goroutine   *)
(* is left that could.                                                     *)
THEOREM ExtractionResultsFrozen == ExtractionSpec => ReturnedResultsFrozen
<1>1. ASSUME ExtractionInv, [ExtractionNext]_extractionVars, caller = "ok"
      PROVE  UNCHANGED <<results, errs>>
  <2>1. \A i \in Segment : gor[i] # "asking"
    BY <1>1, OkEndsGoroutines
  <2> QED
    BY <1>1, <2>1
    DEF ExtractionNext, CallerStep, GoroutineStep, extractionVars, Call, Spawn,
        LoopDone, Scan, ScanDone, Wait, ExtractTagsOk, ExtractTagsErr, Release, Done
<1>2. ExtractionInv /\ [ExtractionNext]_extractionVars
        => [caller = "ok" => UNCHANGED <<results, errs>>]_extractionVars
  BY <1>1
<1> QED
  BY <1>2, ExtractionInvariance, PTL DEF ExtractionSpec, ReturnedResultsFrozen

-----------------------------------------------------------------------------
(***************************************************************************)
(* GoroutinesDrain without its fairness: how much a call has still to do   *)
(* falls with every step, whatever the scheduler and Ollama do, and only a *)
(* call that has returned, with all its goroutines gone, has nothing left  *)
(* that it could do.                                                       *)
(***************************************************************************)
Asking == {i \in Segment : gor[i] = "asking"}

(* What the caller has still to do between the loops. *)
CallerWork ==
  CASE caller = "loop" -> 3
    [] caller = "scan" -> 2
    [] caller = "wait" -> 1
    [] OTHER -> 0

(* The steps a call may still take.  Before the call it may have           *)
(* MaxSegments segments; a segment still to be started costs four steps    *)
(* and the scan one more.                                                  *)
Work ==
  IF caller = "idle" THEN 5 * MaxSegments + 4
  ELSE 4 * (n - spawned) + (n - scanned) + Cardinality(Asking) + sem + wg + CallerWork

(* No guard of the caller and of the goroutines holds. *)
AtRest ==
  /\ caller = "loop" => spawned < n /\ sem = MaxConcurrentRequests
  /\ caller \notin {"idle", "scan"}
  /\ caller = "wait" => wg # 0
  /\ \A i \in Segment : gor[i] \in {"none", "done"}

(* The call has returned and left nothing behind. *)
Drained == caller \in {"ok", "error"} /\ wg = 0 /\ sem = 0

(* What the call has left is a number. *)
LEMMA WorkType == ExtractionInv => Work \in Nat
<1> SUFFICES ASSUME ExtractionInv PROVE Work \in Nat
  OBVIOUS
<1>1. Cardinality(Asking) \in Nat
  BY SegmentSetsFinite DEF Asking
<1>2. CallerWork \in Nat
  BY DEF CallerWork, ExtractionInv, ExtractionTypeOK, CallerState
<1>3. /\ n - spawned \in Nat /\ n - scanned \in Nat
      /\ sem \in Nat /\ wg \in Nat /\ MaxSegments \in Nat
  BY ExtractionAssumption DEF ExtractionInv, ExtractionTypeOK
<1> HIDE DEF CallerWork
<1> QED
  BY <1>1, <1>2, <1>3 DEF Work

(* Every step is one step less to take. *)
LEMMA WorkFalls ==
  ASSUME ExtractionInv, ExtractionNext
  PROVE  Work' < Work
<1> USE ExtractionAssumption
<1>1. /\ n \in Nat /\ spawned \in 0..n /\ scanned \in 0..n
      /\ sem \in Nat /\ wg \in Nat /\ MaxSegments \in Nat
      /\ gor \in [Segment -> GorState] /\ caller \in CallerState
  BY DEF ExtractionInv, ExtractionTypeOK
<1>2. Asking \in SUBSET Segment /\ Cardinality(Asking) \in Nat
  BY SegmentSetsFinite DEF Asking
<1>3. ASSUME NEW k \in 0..MaxSegments, Call(k) PROVE Work' < Work
  <2>1. Asking = {} /\ spawned = 0 /\ sem = 0 /\ wg = 0 /\ scanned = 0
    <3>1. spawned = 0 /\ wg = 0 /\ scanned = 0
      BY <1>1, <1>3 DEF Call, ExtractionInv, ExtractionTypeOK, ScanProgress
    <3>2. \A i \in Segment : gor[i] = "none"
      BY <3>1 DEF ExtractionInv, SpawnedPrefix, Segment
    <3>3. Holding = {} /\ Asking = {}
      BY <3>2 DEF Holding, Asking
    <3>4. sem = 0
      BY <3>3, FS_EmptySet DEF ExtractionInv, SlotsCounted
    <3> QED
      BY <3>1, <3>3, <3>4
  <2>2. Asking' = Asking
    BY <1>3 DEF Call, Asking
  <2>3. Cardinality(Asking') = 0
    BY <2>1, <2>2, FS_EmptySet
  <2>4. Work' = 4 * k + k + 3
    BY <1>1, <1>3, <2>1, <2>3 DEF Call, Work, CallerWork
  <2>5. Work = 5 * MaxSegments + 4
    BY <1>3 DEF Call, Work
  <2> QED
    BY <1>1, <2>4, <2>5
<1>4. CASE Spawn
  <2> DEFINE j == spawned + 1
  <2>1. j \in Segment /\ gor[j] = "none"
    BY <1>4 DEF Spawn, ExtractionInv, ExtractionTypeOK, SpawnedPrefix, Segment
  <2>2. Asking' = Asking \cup {j} /\ j \notin Asking
    BY <1>1, <1>4, <2>1 DEF Spawn, Asking
  <2>3. Cardinality(Asking') = Cardinality(Asking) + 1
    <3> HIDE DEF j
    <3> QED
      BY <1>2, <2>1, <2>2, SegmentSetsStep
  <2> QED
    BY <1>1, <1>2, <1>4, <2>3 DEF Spawn, Work, CallerWork
<1>5. CASE LoopDone \/ Scan \/ ScanDone \/ Wait
  <2>1. Asking' = Asking
    BY <1>5 DEF LoopDone, Scan, ScanDone, Wait, Asking
  <2> QED
    BY <1>1, <1>2, <1>5, <2>1 DEF LoopDone, Scan, ScanDone, Wait, Work, CallerWork
<1>6. ASSUME NEW i \in Segment, GoroutineStep(i) PROVE Work' < Work
  <2>1. gor[i] # "none" /\ caller # "idle" /\ caller' = caller
        /\ CallerWork \in Nat /\ CallerWork' = CallerWork
    <3>1. gor[i] # "none" /\ caller' = caller
      BY <1>6 DEF GoroutineStep, ExtractTagsOk, ExtractTagsErr, Release, Done
    <3>2. caller # "idle"
      BY <3>1 DEF ExtractionInv, ExtractionTypeOK, SpawnedPrefix, ScanProgress, Segment
    <3> QED
      BY <1>1, <3>1, <3>2 DEF CallerWork, CallerState
  <2>2. CASE (\E tags \in TagLists : ExtractTagsOk(i, tags)) \/ ExtractTagsErr(i)
    <3>1. Asking' = Asking \ {i} /\ i \in Asking
      BY <1>1, <2>2 DEF ExtractTagsOk, ExtractTagsErr, Asking
    <3>2. Cardinality(Asking') = Cardinality(Asking) - 1
      BY <1>2, <3>1, SegmentSetsStep
    <3>3. UNCHANGED <<n, spawned, scanned, sem, wg>>
      BY <2>2 DEF ExtractTagsOk, ExtractTagsErr
    <3> QED
      BY <1>1, <1>2, <2>1, <3>2, <3>3 DEF Work
  <2>3. CASE Release(i) \/ Done(i)
    <3>1. Asking' = Asking
      BY <1>1, <2>3 DEF Release, Done, Asking
    <3>2. /\ UNCHANGED <<n, spawned, scanned>>
          /\ \/ sem' = sem - 1 /\ wg' = wg
             \/ sem' = sem /\ wg' = wg - 1
      BY <2>3 DEF Release, Done
    <3>3. Cardinality(Asking') = Cardinality(Asking)
      BY <3>1
    <3> QED
      BY <1>1, <1>2, <2>1, <3>2, <3>3 DEF Work
  <2> QED
    BY <1>6, <2>2, <2>3 DEF GoroutineStep
<1> QED
  BY <1>3, <1>4, <1>5, <1>6 DEF ExtractionNext, CallerStep

(* A call ends: each step of it leaves less to do, from 5 * MaxSegments    *)
(* + 4 steps down (lines 96-141).                                          *)
THEOREM ExtractionEnds ==
  ExtractionSpec => [](Work \in Nat) /\ [][Work' < Work]_extractionVars
<1>1. ExtractionInv /\ [ExtractionNext]_extractionVars => [Work' < Work]_extractionVars
  BY WorkFalls
<1> QED
  BY <1>1, WorkType, ExtractionInvariance, PTL DEF ExtractionSpec

(* It ends nowhere else than with its result returned, each goroutine gone *)
(* and each slot given back: the loop does not block for ever on sem, nor  *)
(* Wait on the WaitGroup (lines 107-138).                                  *)
THEOREM ExtractionNeverStuck == ExtractionSpec => [](AtRest => Drained)
<1>1. ASSUME ExtractionInv, AtRest PROVE Drained
  <2>1. Holding = {} /\ Running = {}
    BY <1>1 DEF AtRest, Holding, Running
  <2>2. sem = 0 /\ wg = 0
    BY <1>1, <2>1, FS_EmptySet DEF ExtractionInv, SlotsCounted
  <2> QED
    BY <1>1, <2>2, ExtractionAssumption
    DEF AtRest, Drained, ExtractionInv, ExtractionTypeOK, CallerState
<1> QED
  BY <1>1, ExtractionInvariance, PTL
=============================================================================
