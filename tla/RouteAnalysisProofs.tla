-------------------------- MODULE RouteAnalysisProofs --------------------------
(***************************************************************************)
(* Proofs about POST /routes/analyze, for any number of segments and slots *)
(* and any tags.  The handler and ExtractMultiTags run together; every     *)
(* step of the two is a step of module TagExtraction or leaves its         *)
(* variables alone, so that what was proved there holds here too.          *)
(***************************************************************************)
EXTENDS RouteAnalysis, TagExtractionProofs

(* The handler begins the call or stutters with it. *)
LEMMA ExtractionSimulated ==
  [RouteAnalysisNext]_routeAnalysisVars => [ExtractionNext]_extractionVars
BY DEF RouteAnalysisNext, routeAnalysisVars, HandlerStep, BadBody, ParseBody,
       AllowedTagsFailed, AllowedTagsReady, StartExtraction, ExtractionFailed,
       AnswerTags, ExtractionNext

(* The composed system is an ExtractMultiTags call: whatever module        *)
(* TagExtraction promises of one holds of the one behind a request.        *)
THEOREM RouteAnalysisImplementsExtraction == RouteAnalysisSpec => ExtractionSpec
<1>1. RouteAnalysisInit => ExtractionInit
  BY DEF RouteAnalysisInit
<1> QED
  BY <1>1, ExtractionSimulated, PTL DEF RouteAnalysisSpec, ExtractionSpec

(* Where the handler is tells what the call may be doing. *)
HandlerAndCall ==
  /\ RouteAnalysisTypeOK
  /\ handler = "answered" <=> status # 0
  /\ allowErr => status = 500
  /\ handler \in {"parse", "allowedTags", "split"} => caller = "idle"
  /\ handler = "extract" => caller # "idle"
  /\ status = 200 => caller = "ok"
  /\ status = 400 => caller \in {"idle", "ok"}
  /\ status = 500 => allowErr \/ caller = "error"

(* A segment has tags only if its goroutine has stored them. *)
TagsAreStored ==
  \A i \in Segment : gor[i] \in {"none", "asking"} => results[i] = Nil

AnalysisInv ==
  /\ ExtractionInv
  /\ HandlerAndCall
  /\ TagsAreStored
  /\ RefusalMeansNoTags

(* The request starts with the invariant. *)
LEMMA AnalysisInvInit == RouteAnalysisInit => AnalysisInv
<1> SUFFICES ASSUME RouteAnalysisInit PROVE AnalysisInv
  OBVIOUS
<1>1. ExtractionInv
  BY ExtractionInvInit DEF RouteAnalysisInit
<1>2. HandlerAndCall
  <2>1. allowErr \in BOOLEAN /\ ~allowErr
    BY DEF RouteAnalysisInit
  <2>2. handler = "parse" /\ status = 0 /\ caller = "idle" /\ ExtractionTypeOK
    BY <1>1 DEF RouteAnalysisInit, ExtractionInit, ExtractionInv
  <2> QED
    BY <2>1, <2>2 DEF HandlerAndCall, RouteAnalysisTypeOK
<1>3. TagsAreStored /\ RefusalMeansNoTags
  BY DEF RouteAnalysisInit, ExtractionInit, TagsAreStored, RefusalMeansNoTags
<1> QED
  BY <1>1, <1>2, <1>3 DEF AnalysisInv

(* A call that has not begun, or one that has returned, has no goroutine   *)
(* that could still store tags.                                            *)
LEMMA NobodyStores ==
  ASSUME ExtractionInv, caller \in {"idle", "ok"}
  PROVE  \A i \in Segment : gor[i] \in {"none", "done"}
<1>1. CASE caller = "idle"
  BY <1>1 DEF ExtractionInv, ExtractionTypeOK, SpawnedPrefix, ScanProgress, Segment
<1>2. CASE caller = "ok"
  BY <1>2, OkEndsGoroutines
<1> QED
  BY <1>1, <1>2

(* Beyond the segments spawned there is neither goroutine nor tag. *)
LEMMA NothingBeyondSpawned ==
  ASSUME ExtractionInv, TagsAreStored
  PROVE  /\ \A i \in Segment : i > spawned => results[i] = Nil
         /\ spawned \in Nat /\ n \in Nat /\ spawned <= n
         /\ caller = "idle" => spawned = 0
<1>1. spawned \in Nat /\ n \in Nat /\ spawned <= n /\ (caller = "idle" => n = 0)
  BY ExtractionAssumption DEF ExtractionInv, ExtractionTypeOK, ScanProgress
<1>2. \A i \in Segment : i > spawned => results[i] = Nil
  BY DEF ExtractionInv, SpawnedPrefix, TagsAreStored
<1> QED
  BY <1>1, <1>2

(* Every step preserves AnalysisInv. *)
LEMMA AnalysisInvStep ==
  AnalysisInv /\ [RouteAnalysisNext]_routeAnalysisVars => AnalysisInv'
<1> SUFFICES ASSUME AnalysisInv, [RouteAnalysisNext]_routeAnalysisVars
             PROVE  AnalysisInv'
  OBVIOUS
<1>0. ExtractionInv /\ HandlerAndCall /\ TagsAreStored /\ RefusalMeansNoTags
  BY DEF AnalysisInv
<1>1. ExtractionInv'
  BY <1>0, ExtractionSimulated, ExtractionInvStep
<1>2. ExtractionTypeOK /\ ExtractionTypeOK'
  BY <1>0, <1>1 DEF ExtractionInv
<1> DEFINE Untagged == \A i \in Segment : results[i] \in {Nil, {}}
<1>3. caller = "idle" => Untagged
  BY <1>0, NothingBeyondSpawned DEF Segment
<1>4. CASE HandlerStep
  <2>1. CASE handler' # "answered"
    <3>1. /\ status = 0 /\ ~allowErr /\ status' = 0 /\ allowErr' = allowErr
          /\ UNCHANGED <<gor, results>>
      BY <1>0, <1>4, <2>1
      DEF HandlerStep, BadBody, ParseBody, AllowedTagsFailed, AllowedTagsReady,
          StartExtraction, ExtractionFailed, AnswerTags, Respond, Call,
          extractionVars, HandlerAndCall
    <3>2. \/ handler' \in {"allowedTags", "split"} /\ caller' = "idle"
          \/ handler' = "extract" /\ caller' # "idle"
      BY <1>0, <1>4, <2>1
      DEF HandlerStep, BadBody, ParseBody, AllowedTagsFailed, AllowedTagsReady,
          StartExtraction, ExtractionFailed, AnswerTags, Respond, Call,
          extractionVars, HandlerAndCall
    <3>3. HandlerAndCall'
      <4>1. ~allowErr' /\ allowErr' \in BOOLEAN
        BY <1>0, <3>1 DEF HandlerAndCall, RouteAnalysisTypeOK
      <4> QED
        BY <1>2, <3>1, <3>2, <4>1 DEF HandlerAndCall, RouteAnalysisTypeOK
    <3>4. TagsAreStored' /\ RefusalMeansNoTags'
      BY <1>0, <3>1 DEF TagsAreStored, RefusalMeansNoTags
    <3> QED
      BY <1>1, <3>3, <3>4 DEF AnalysisInv
  <2>2. CASE handler' = "answered"
    <3>1. /\ UNCHANGED extractionVars
          /\ \/ BadBody \/ AllowedTagsFailed
             \/ ExtractionFailed \/ AnswerTags
      BY <1>4, <2>2
      DEF HandlerStep, BadBody, ParseBody, AllowedTagsFailed, AllowedTagsReady,
          StartExtraction, ExtractionFailed, AnswerTags
    <3>2. HandlerAndCall'
      <4>1. status = 0 /\ handler # "answered"
        BY <1>0, <3>1
        DEF HandlerAndCall, BadBody, AllowedTagsFailed, ExtractionFailed, AnswerTags
      <4>2. ~allowErr /\ allowErr \in BOOLEAN
        BY <1>0, <4>1 DEF HandlerAndCall, RouteAnalysisTypeOK
      <4>3. CASE AllowedTagsFailed
        <5>1. allowErr' \in BOOLEAN /\ allowErr'
          BY <4>3 DEF AllowedTagsFailed
        <5>2. status' = 500 /\ handler' = "answered" /\ ExtractionTypeOK'
          BY <1>2, <4>3 DEF AllowedTagsFailed, Respond
        <5> QED
          BY <5>1, <5>2 DEF HandlerAndCall, RouteAnalysisTypeOK
      <4>4. CASE ~AllowedTagsFailed
        <5>1. /\ allowErr' = allowErr /\ caller' = caller /\ handler' = "answered"
              /\ \/ status' = 400 /\ caller = "idle"
                 \/ status' = 500 /\ caller = "error"
                 \/ status' \in {200, 400} /\ caller = "ok"
          BY <1>0, <3>1, <4>4
          DEF BadBody, ExtractionFailed, AnswerTags, Respond, extractionVars,
              HandlerAndCall
        <5>2. allowErr' \in BOOLEAN /\ ~allowErr'
          BY <4>2, <5>1
        <5> QED
          BY <1>2, <5>1, <5>2 DEF HandlerAndCall, RouteAnalysisTypeOK
      <4> QED
        BY <4>3, <4>4
    <3>3. TagsAreStored' /\ RefusalMeansNoTags'
      <4>1. TagsAreStored'
        BY <1>0, <3>1 DEF extractionVars, TagsAreStored
      <4>2. status' = 400 => Untagged
        <5>1. CASE BadBody
          BY <1>0, <1>3, <5>1 DEF BadBody, HandlerAndCall
        <5>2. CASE AnswerTags /\ status' = 400
          <6>1. ~hasTags
            BY <5>2 DEF AnswerTags, Respond
          <6>2. \A i \in 1..n : results[i] \in {Nil, {}}
            BY <6>1 DEF hasTags
          <6> QED
            BY <1>0, <6>2, NothingBeyondSpawned DEF Segment
        <5> QED
          BY <3>1, <5>1, <5>2 DEF AllowedTagsFailed, ExtractionFailed, Respond
      <4> QED
        BY <3>1, <4>1, <4>2 DEF extractionVars, RefusalMeansNoTags
    <3> QED
      BY <1>1, <3>2, <3>3 DEF AnalysisInv
  <2> QED
    BY <2>1, <2>2
<1>5. CASE CallerStep /\ UNCHANGED analysisVars
  <2>1. /\ caller \in {"loop", "scan", "wait"} /\ caller' # "idle"
        /\ UNCHANGED <<results, handler, status, allowErr>>
    BY <1>2, <1>5
    DEF CallerStep, Spawn, LoopDone, Scan, ScanDone, Wait, analysisVars
  <2>2. \A i \in Segment : gor'[i] \in {"none", "asking"} => gor[i] \in {"none", "asking"}
    BY <1>0, <1>2, <1>5
    DEF CallerStep, Spawn, LoopDone, Scan, ScanDone, Wait, ExtractionTypeOK,
        ExtractionInv, SpawnedPrefix, Segment
  <2>3. HandlerAndCall'
    BY <1>0, <1>2, <2>1 DEF HandlerAndCall, RouteAnalysisTypeOK
  <2>4. TagsAreStored' /\ RefusalMeansNoTags'
    BY <1>0, <2>1, <2>2 DEF TagsAreStored, RefusalMeansNoTags
  <2> QED
    BY <1>1, <2>3, <2>4 DEF AnalysisInv
<1>6. ASSUME NEW i \in Segment, GoroutineStep(i), UNCHANGED analysisVars
      PROVE  AnalysisInv'
  <2>1. UNCHANGED <<caller, handler, status, allowErr>>
    BY <1>6 DEF GoroutineStep, ExtractTagsOk, ExtractTagsErr, Release, Done, analysisVars
  <2>2. HandlerAndCall'
    BY <1>0, <1>2, <2>1 DEF HandlerAndCall, RouteAnalysisTypeOK
  <2>3. gor[i] \notin {"none", "done"} /\ gor'[i] \notin {"none", "asking"}
    BY <1>2, <1>6
    DEF GoroutineStep, ExtractTagsOk, ExtractTagsErr, Release, Done, ExtractionTypeOK
  <2>4. \A j \in Segment \ {i} : results'[j] = results[j] /\ gor'[j] = gor[j]
    BY <1>2, <1>6
    DEF GoroutineStep, ExtractTagsOk, ExtractTagsErr, Release, Done, ExtractionTypeOK
  <2>5. TagsAreStored'
    BY <1>0, <2>3, <2>4 DEF TagsAreStored
  <2>6. status' # 400
    BY <1>0, <2>1, <2>3, NobodyStores DEF HandlerAndCall
  <2>7. RefusalMeansNoTags'
    BY <2>6 DEF RefusalMeansNoTags
  <2> QED
    BY <1>1, <2>2, <2>5, <2>7 DEF AnalysisInv
<1>7. CASE UNCHANGED routeAnalysisVars
  BY <1>0, <1>1, <1>7
  DEF routeAnalysisVars, extractionVars, AnalysisInv, HandlerAndCall,
      RouteAnalysisTypeOK, ExtractionTypeOK, TagsAreStored, RefusalMeansNoTags
<1> QED
  BY <1>4, <1>5, <1>6, <1>7 DEF RouteAnalysisNext

-----------------------------------------------------------------------------
(* The inductive invariant of a request holds however its goroutines run.  *)
THEOREM RouteAnalysisInvariance == RouteAnalysisSpec => []AnalysisInv
BY AnalysisInvInit, AnalysisInvStep, PTL DEF RouteAnalysisSpec

(* Handler and call keep their types. *)
THEOREM RouteAnalysisTypeCorrect == RouteAnalysisSpec => []RouteAnalysisTypeOK
<1>1. AnalysisInv => RouteAnalysisTypeOK
  BY DEF AnalysisInv, HandlerAndCall
<1> QED
  BY <1>1, RouteAnalysisInvariance, PTL

(* Behind every 500 is a failure of the tag list, or of every segment that *)
(* the error names.                                                        *)
THEOREM RouteAnalysisInternalErrorIsReal == RouteAnalysisSpec => []InternalErrorIsReal
<1>1. AnalysisInv => InternalErrorIsReal
  BY DEF AnalysisInv, HandlerAndCall, ExtractionInv, ExtractionTypeOK,
         ScanProgress, InternalErrorIsReal, ErrorsAreReal, Failed
<1> QED
  BY <1>1, RouteAnalysisInvariance, PTL

(* Any other answer leaves no goroutine behind and hides no more failures  *)
(* than there are slots.                                                   *)
THEOREM RouteAnalysisOutageIsNoticed == RouteAnalysisSpec => []OutageIsNoticed
<1>1. ASSUME AnalysisInv, status \in {200, 400}
      PROVE  wg = 0 /\ Cardinality(Failed) <= MaxConcurrentRequests
  <2>1. ExtractionInv /\ caller \in {"idle", "ok"}
    BY <1>1 DEF AnalysisInv, HandlerAndCall
  <2>2. CASE caller = "ok"
    BY <2>1, <2>2, OkBoundsFailures DEF ExtractionInv, ScanProgress
  <2>3. CASE caller = "idle"
    <3>1. n = 0 /\ spawned = 0
      BY <2>1, <2>3 DEF ExtractionInv, ExtractionTypeOK, ScanProgress
    <3>2. wg = 0
      BY <2>1, <3>1 DEF ExtractionInv, ExtractionTypeOK
    <3>3. \A i \in Segment : gor[i] = "none"
      BY <2>1, <3>1 DEF ExtractionInv, SpawnedPrefix, Segment
    <3>4. Failed = {}
      BY <2>1, <3>3, ExtractionAssumption DEF ExtractionInv, ErrorsFollowAnswers, Failed
    <3> QED
      BY <3>2, <3>4, FS_EmptySet, ExtractionAssumption
  <2> QED
    BY <2>1, <2>2, <2>3
<1>2. AnalysisInv => OutageIsNoticed
  BY <1>1 DEF OutageIsNoticed
<1> QED
  BY <1>2, RouteAnalysisInvariance, PTL

(* A refusal means that no segment got a tag, early or late. *)
THEOREM RouteAnalysisRefusalMeansNoTags == RouteAnalysisSpec => []RefusalMeansNoTags
<1>1. AnalysisInv => RefusalMeansNoTags
  BY DEF AnalysisInv
<1> QED
  BY <1>1, RouteAnalysisInvariance, PTL

-----------------------------------------------------------------------------
(***************************************************************************)
(* RequestAnswered without its fairness: the steps of a request are        *)
(* numbered, and it comes to rest only answered, with nothing left behind. *)
(***************************************************************************)
HandlerWork ==
  CASE handler = "parse" -> 4
    [] handler = "allowedTags" -> 3
    [] handler = "split" -> 2
    [] handler = "extract" -> 1
    [] OTHER -> 0

(* The steps a request may still take, its goroutines included. *)
RequestWork == HandlerWork + Work

(* No guard of the handler, of the call and of its goroutines holds. *)
RequestAtRest ==
  /\ handler \in {"extract", "answered"}
  /\ handler = "extract" => caller \notin {"error", "ok"}
  /\ caller = "idle" \/ AtRest

(* What is left of a bound, and sums of what is left. *)
LEMMA LeftOver ==
  ASSUME NEW a \in Nat, NEW b \in 0..a
  PROVE  a - b \in Nat /\ b \in Nat
OBVIOUS

(* A sum falls with its first term, or with the second while the first     *)
(* stays.                                                                  *)
LEMMA SumFalls ==
  ASSUME NEW a \in Nat, NEW b \in Nat, NEW c \in Nat, NEW d \in Nat,
         (c < a /\ d <= b) \/ (c = a /\ d < b)
  PROVE  c + d < a + b
OBVIOUS

(* What the call has left is a number after a step as well. *)
LEMMA WorkTypeNext == ExtractionInv' => Work' \in Nat
<1> SUFFICES ASSUME ExtractionInv' PROVE Work' \in Nat
  OBVIOUS
<1>1. Asking' \in SUBSET Segment
  BY DEF Asking
<1>2. Cardinality(Asking') \in Nat
  BY <1>1, SegmentSetsFinite
<1>3. CallerWork' \in Nat
  BY DEF CallerWork, ExtractionInv, ExtractionTypeOK, CallerState
<1>4. /\ n' \in 0..MaxSegments /\ spawned' \in 0..n' /\ scanned' \in 0..n'
      /\ sem' \in 0..MaxConcurrentRequests /\ wg' \in 0..n'
      /\ MaxSegments \in Nat /\ MaxConcurrentRequests \in Nat
  BY ExtractionAssumption DEF ExtractionInv, ExtractionTypeOK
<1>5. n' \in Nat /\ sem' \in Nat
  BY <1>4
<1>6. n' - spawned' \in Nat /\ n' - scanned' \in Nat /\ wg' \in Nat
  BY <1>4, <1>5, LeftOver
<1> HIDE DEF CallerWork
<1> QED
  BY <1>2, <1>3, <1>4, <1>5, <1>6 DEF Work

(* Each step of the handler, the call and the goroutines leaves less. *)
LEMMA RequestWorkFalls ==
  ASSUME AnalysisInv, RouteAnalysisNext
  PROVE  RequestWork' < RequestWork
<1>1. ExtractionInv /\ ExtractionInv' /\ handler \in {"parse", "allowedTags", "split", "extract", "answered"}
  <2>1. ExtractionInv'
    BY ExtractionSimulated, ExtractionInvStep DEF AnalysisInv
  <2> QED
    BY <2>1 DEF AnalysisInv, HandlerAndCall, RouteAnalysisTypeOK
<1>2. Work \in Nat /\ Work' \in Nat /\ HandlerWork \in Nat
  <2>1. Work \in Nat
    BY <1>1, WorkType
  <2> QED
    BY <1>1, <2>1, WorkTypeNext DEF HandlerWork
<1>5. RequestWork = HandlerWork + Work /\ RequestWork' = HandlerWork' + Work'
  BY DEF RequestWork
<1>3. CASE HandlerStep
  <2>1. Work' <= Work
    <3>1. CASE UNCHANGED extractionVars
      <4>1. Work' = Work
        BY <3>1 DEF extractionVars, Work, Asking, CallerWork
      <4> QED
        BY <1>2, <4>1
    <3>2. CASE StartExtraction
      <4>1. ExtractionNext
        BY <3>2 DEF StartExtraction, ExtractionNext
      <4> QED
        BY <1>1, <1>2, <4>1, WorkFalls
    <3> QED
      BY <1>3, <3>1, <3>2
      DEF HandlerStep, BadBody, ParseBody, AllowedTagsFailed, AllowedTagsReady,
          ExtractionFailed, AnswerTags
  <2>2. HandlerWork' < HandlerWork /\ HandlerWork' \in Nat
    BY <1>3
    DEF HandlerStep, BadBody, ParseBody, AllowedTagsFailed, AllowedTagsReady,
        StartExtraction, ExtractionFailed, AnswerTags, Respond, HandlerWork
  <2> QED
    BY <1>2, <1>5, <2>1, <2>2, SumFalls
<1>4. CASE UNCHANGED analysisVars /\ (CallerStep \/ \E i \in Segment : GoroutineStep(i))
  <2>1. Work' < Work
    BY <1>1, <1>4, WorkFalls DEF ExtractionNext
  <2>2. HandlerWork' = HandlerWork
    BY <1>4 DEF analysisVars, HandlerWork
  <2> QED
    BY <1>2, <1>5, <2>1, <2>2, SumFalls
<1> QED
  BY <1>3, <1>4 DEF RouteAnalysisNext

(* A request takes a bounded number of steps, however its goroutines are   *)
(* scheduled (handler.go 31-57, ollama_tag_extractor.go 96-141).           *)
THEOREM RouteAnalysisEnds ==
  RouteAnalysisSpec =>
    [](RequestWork \in Nat) /\ [][RequestWork' < RequestWork]_routeAnalysisVars
<1>1. AnalysisInv => RequestWork \in Nat
  BY WorkType
  DEF AnalysisInv, HandlerAndCall, RouteAnalysisTypeOK, HandlerWork, RequestWork
<1>2. AnalysisInv /\ [RouteAnalysisNext]_routeAnalysisVars
        => [RequestWork' < RequestWork]_routeAnalysisVars
  BY RequestWorkFalls
<1> QED
  BY <1>1, <1>2, RouteAnalysisInvariance, PTL DEF RouteAnalysisSpec

(* Where it comes to rest it is answered, also when the call has returned  *)
(* the error of one segment while others were still asking: no goroutine,  *)
(* slot or WaitGroup keeps the client waiting or outlives the request for  *)
(* good (handler.go 41-57, ollama_tag_extractor.go 107-138).               *)
THEOREM RouteAnalysisNeverStuck ==
  RouteAnalysisSpec => [](RequestAtRest => status # 0 /\ wg = 0 /\ sem = 0)
<1>1. ASSUME AnalysisInv, RequestAtRest PROVE status # 0 /\ wg = 0 /\ sem = 0
  <2>1. ExtractionInv /\ HandlerAndCall
    BY <1>1 DEF AnalysisInv
  <2>2. CASE caller = "idle"
    <3>1. spawned = 0
      BY <2>1, <2>2 DEF ExtractionInv, ExtractionTypeOK, ScanProgress
    <3>2. \A i \in Segment : gor[i] = "none"
      BY <2>1, <3>1 DEF ExtractionInv, SpawnedPrefix, Segment
    <3>3. Holding = {} /\ Running = {}
      BY <3>2 DEF Holding, Running
    <3> QED
      BY <1>1, <2>1, <2>2, <3>3, FS_EmptySet
      DEF RequestAtRest, HandlerAndCall, ExtractionInv, SlotsCounted
  <2>3. CASE AtRest
    <3>1. Holding = {} /\ Running = {}
      BY <2>3 DEF AtRest, Holding, Running
    <3>2. sem = 0 /\ wg = 0
      BY <2>1, <3>1, FS_EmptySet DEF ExtractionInv, SlotsCounted
    <3>3. caller \in {"ok", "error"}
      BY <2>1, <2>3, <3>2, ExtractionAssumption
      DEF AtRest, ExtractionInv, ExtractionTypeOK, CallerState
    <3> QED
      BY <1>1, <2>1, <3>2, <3>3 DEF RequestAtRest, HandlerAndCall
  <2> QED
    BY <1>1, <2>2, <2>3 DEF RequestAtRest
<1> QED
  BY <1>1, RouteAnalysisInvariance, PTL
=============================================================================
