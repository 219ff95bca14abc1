---------------------------- MODULE RouteAnalysis ----------------------------
(***************************************************************************)
(* POST /routes/analyze: the handler and RouteService.AnalyzeRequest of    *)
(* internal/travelroutes, composed with one call of ExtractMultiTags       *)
(* (module TagExtraction).  GetAllowedTags is a single step that succeeds  *)
(* or fails here; module AllowedTags models what it does.                  *)
(***************************************************************************)
EXTENDS TagExtraction

VARIABLES
  handler,   \* control state of the request's handler
  status,    \* HTTP status of the answer, 0 before it is sent
  allowErr   \* GetAllowedTags returned an error

analysisVars == <<handler, status, allowErr>>
routeAnalysisVars == <<handler, status, allowErr, extractionVars>>

RouteAnalysisTypeOK ==
  /\ ExtractionTypeOK
  /\ handler \in {"parse", "allowedTags", "split", "extract", "answered"}
  /\ status \in {0, 200, 400, 500}
  /\ allowErr \in BOOLEAN

RouteAnalysisInit ==
  /\ ExtractionInit
  /\ handler = "parse"
  /\ status = 0
  /\ allowErr = FALSE

Respond(code) ==
  /\ handler' = "answered"
  /\ status' = code

(* c.BodyParser fails: er.InvalidJSON. *)
BadBody ==
  /\ handler = "parse"
  /\ Respond(400)
  /\ UNCHANGED <<allowErr, extractionVars>>

ParseBody ==
  /\ handler = "parse"
  /\ handler' = "allowedTags"
  /\ UNCHANGED <<status, allowErr, extractionVars>>

(* s.GetAllowedTags fails: the handler answers with er.InternalError. *)
AllowedTagsFailed ==
  /\ handler = "allowedTags"
  /\ allowErr' = TRUE
  /\ Respond(500)
  /\ UNCHANGED extractionVars

AllowedTagsReady ==
  /\ handler = "allowedTags"
  /\ handler' = "split"
  /\ UNCHANGED <<status, allowErr, extractionVars>>

(* splitSegments leaves k trimmed, non-empty segments; k = 0 for a blank   *)
(* text or one made of separators.                                         *)
StartExtraction ==
  /\ handler = "split"
  /\ handler' = "extract"
  /\ \E k \in 0..MaxSegments : Call(k)
  /\ UNCHANGED <<status, allowErr>>

ExtractionFailed ==
  /\ handler = "extract"
  /\ caller = "error"
  /\ Respond(500)
  /\ UNCHANGED <<allowErr, extractionVars>>

(* Mutant of hasTags: the loop returns after its first turn. *)
hasTagsFirst == n > 0 /\ results[1] \notin {Nil, {}}

(* Some segment has a non-empty tag list: len(tags) > 0. *)
hasTags == \E i \in 1..n : results[i] \notin {Nil, {}}

(* The results are answered if hasTags, ErrExtractionFailed otherwise. *)
AnswerTags ==
  /\ handler = "extract"
  /\ caller = "ok"
  /\ Respond(IF hasTags THEN 200 ELSE 400)
  /\ UNCHANGED <<allowErr, extractionVars>>

HandlerStep ==
  \/ BadBody \/ ParseBody
  \/ AllowedTagsFailed \/ AllowedTagsReady
  \/ StartExtraction
  \/ ExtractionFailed \/ AnswerTags

RouteAnalysisNext ==
  \/ HandlerStep
  \/ CallerStep /\ UNCHANGED analysisVars
  \/ \E i \in Segment : GoroutineStep(i) /\ UNCHANGED analysisVars

(* The Go scheduler runs every runnable goroutine, and the handler runs on *)
(* the caller's.  Cache and database calls return, with an error if need   *)
(* be; a request to Ollama ends because its agent is given a Timeout of    *)
(* 30 seconds.                                                             *)
RouteAnalysisSpec ==
  /\ RouteAnalysisInit
  /\ [][RouteAnalysisNext]_routeAnalysisVars
  /\ WF_routeAnalysisVars(HandlerStep)
  /\ WF_routeAnalysisVars(CallerStep /\ UNCHANGED analysisVars)
  /\ \A i \in Segment :
       WF_routeAnalysisVars(GoroutineStep(i) /\ UNCHANGED analysisVars)
-----------------------------------------------------------------------------
(* A 500 is never spurious: the tag list could not be read, or the call    *)
(* returned an error that blames at least one segment and only segments    *)
(* whose request failed (handler.go 46-51, ollama_tag_extractor.go         *)
(* 127-136).                                                               *)
InternalErrorIsReal == status = 500 => allowErr \/ (caller = "error" /\ ErrorsAreReal)

(* When the request is answered without an internal error, no goroutine    *)
(* works for it any more, and more failed segments than maxConcurrent-     *)
(* Requests cannot have gone unnoticed (ollama_tag_extractor.go 126-139).  *)
OutageIsNoticed ==
  status \in {200, 400} => wg = 0 /\ Cardinality(Failed) <= MaxConcurrentRequests

(* "Try to use more specific words" is answered only if no segment got a   *)
(* tag, also none whose reply came late (service.go 131-142).              *)
RefusalMeansNoTags == status = 400 => \A i \in Segment : results[i] \in {Nil, {}}

(* Every request is answered, with no slot, goroutine or WaitGroup left in *)
(* the way: also the goroutines an early 500 leaves behind end.            *)
RequestAnswered == <>(status # 0 /\ wg = 0)

(* api/openapi.yaml gives 400 the meaning "Invalid request" and 500        *)
(* "Internal server error": a request whose extraction failed inside the   *)
(* service should not be refused as invalid.                               *)
FailureIsNotBlamedOnInput == status = 400 => Failed = {}
=============================================================================
