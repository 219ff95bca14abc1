---------------------------- MODULE TagExtraction ----------------------------
(***************************************************************************)
(* LLMService.ExtractMultiTags of internal/llm/ollama_tag_extractor.go:    *)
(* one goroutine per text segment asks Ollama for that segment's tags,     *)
(* a buffered channel `sem' bounds how many run at a time, and the caller  *)
(* scans `errs' and only then waits on the WaitGroup.                      *)
(*                                                                         *)
(* The scan reads errs[i] while goroutine i may still write it.  A read    *)
(* that misses a concurrent write returns what a read scheduled before     *)
(* the write returns, so scanning one index per step covers every outcome  *)
(* of that data race.                                                      *)
(***************************************************************************)
EXTENDS Naturals, FiniteSets

CONSTANTS
  MaxSegments,            \* bound on the segments of one call
  MaxConcurrentRequests,  \* capacity of sem (10 in the code)
  Tag,                    \* strings the model may answer with
  Nil,                    \* Go's nil slice
  Err                     \* any error of ExtractTags

ASSUME ExtractionAssumption ==
  /\ MaxSegments \in Nat
  /\ MaxConcurrentRequests \in Nat \ {0}
  /\ Nil # Err
  /\ \A T \in SUBSET Tag : T # Nil

VARIABLES
  caller,    \* control state of the calling goroutine
  n,         \* len(segments)
  spawned,   \* segments the loop has started a goroutine for: 1..spawned
  gor,       \* control state of each segment's goroutine
  sem,       \* tokens in the channel
  wg,        \* WaitGroup counter
  results,   \* results[i]: the tags of segment i, or Nil
  errs,      \* errs[i]: Err, or Nil
  scanned,   \* the scan has read errs[1..scanned]
  errMsgs    \* segments the scan found an error for

extractionVars ==
  <<caller, n, spawned, gor, sem, wg, results, errs, scanned, errMsgs>>

Segment  == 1..MaxSegments
TagLists == (SUBSET Tag) \cup {Nil}

(***************************************************************************)
(* A goroutine is "none" before its `go' statement, "asking" while         *)
(* ExtractTags runs, "deferred" once it has stored its outcome,            *)
(* "released" after the deferred <-sem and "done" after wg.Done().         *)
(***************************************************************************)
GorState    == {"none", "asking", "deferred", "released", "done"}
CallerState == {"idle", "loop", "scan", "wait", "ok", "error"}

ExtractionTypeOK ==
  /\ caller \in CallerState
  /\ n \in 0..MaxSegments
  /\ spawned \in 0..n
  /\ gor \in [Segment -> GorState]
  /\ sem \in 0..MaxConcurrentRequests
  /\ wg \in 0..n
  /\ results \in [Segment -> TagLists]
  /\ errs \in [Segment -> {Nil, Err}]
  /\ scanned \in 0..n
  /\ errMsgs \in SUBSET Segment

ExtractionInit ==
  /\ caller = "idle"
  /\ n = 0
  /\ spawned = 0
  /\ gor = [i \in Segment |-> "none"]
  /\ sem = 0
  /\ wg = 0
  /\ results = [i \in Segment |-> Nil]
  /\ errs = [i \in Segment |-> Nil]
  /\ scanned = 0
  /\ errMsgs = {}

-----------------------------------------------------------------------------
(***************************************************************************)
(* Mutants: plausible bugs that the properties must notice.  Each stands   *)
(* for the action its name begins with.                                    *)
(***************************************************************************)
(* The send on sem is forgotten at the go statement. *)
SpawnUnbounded ==
  /\ caller = "loop" /\ spawned < n
  /\ wg' = wg + 1
  /\ spawned' = spawned + 1
  /\ gor' = [gor EXCEPT ![spawned + 1] = "asking"]
  /\ UNCHANGED <<caller, n, sem, results, errs, scanned, errMsgs>>

(* The error path gives the slot back, and so does the deferred call. *)
ExtractTagsErrReleasing(i) ==
  /\ gor[i] = "asking"
  /\ errs' = [errs EXCEPT ![i] = Err]
  /\ sem' = sem - 1
  /\ gor' = [gor EXCEPT ![i] = "deferred"]
  /\ UNCHANGED <<caller, n, spawned, wg, results, scanned, errMsgs>>

(* The error path returns without the cleanup, which is not deferred. *)
ExtractTagsErrLeaking(i) ==
  /\ gor[i] = "asking"
  /\ errs' = [errs EXCEPT ![i] = Err]
  /\ gor' = [gor EXCEPT ![i] = "done"]
  /\ UNCHANGED <<caller, n, spawned, sem, wg, results, scanned, errMsgs>>

(* wg.Done() is deferred, <-sem is not. *)
ReleaseNothing(i) ==
  /\ gor[i] = "deferred"
  /\ gor' = [gor EXCEPT ![i] = "released"]
  /\ UNCHANGED <<caller, n, spawned, sem, wg, results, errs, scanned, errMsgs>>

(* The scan takes a segment without tags for a failed one. *)
ScanResults ==
  /\ caller = "scan" /\ scanned < n
  /\ scanned' = scanned + 1
  /\ errMsgs' = IF results[scanned + 1] = Nil
                THEN errMsgs \cup {scanned + 1} ELSE errMsgs
  /\ UNCHANGED <<caller, n, spawned, gor, sem, wg, results, errs>>

(* wg.Wait() is forgotten. *)
WaitNot ==
  /\ caller = "wait"
  /\ caller' = "ok"
  /\ UNCHANGED <<n, spawned, gor, sem, wg, results, errs, scanned, errMsgs>>
-----------------------------------------------------------------------------

(* ExtractMultiTags(segments, _) with k segments: fresh slices of length k. *)
Call(k) ==
  /\ caller = "idle"
  /\ caller' = "loop"
  /\ n' = k
  /\ UNCHANGED <<spawned, gor, sem, wg, results, errs, scanned, errMsgs>>

(* One turn of the loop: wg.Add(1), the send on sem that blocks while the  *)
(* channel is full, the go statement.                                      *)
Spawn ==
  /\ caller = "loop"
  /\ spawned < n
  /\ sem < MaxConcurrentRequests
  /\ wg' = wg + 1
  /\ sem' = sem + 1
  /\ spawned' = spawned + 1
  /\ gor' = [gor EXCEPT ![spawned + 1] = "asking"]
  /\ UNCHANGED <<caller, n, results, errs, scanned, errMsgs>>

LoopDone ==
  /\ caller = "loop"
  /\ spawned = n
  /\ caller' = "scan"
  /\ UNCHANGED <<n, spawned, gor, sem, wg, results, errs, scanned, errMsgs>>

(* ExtractTags(text, allowedTags) returned tags.  The answer is whatever   *)
(* JSON the model produced: nothing keeps it inside the allowed list, and  *)
(* a reply without a "tags" array decodes to nil.                          *)
ExtractTagsOk(i, tags) ==
  /\ gor[i] = "asking"
  /\ results' = [results EXCEPT ![i] = tags]
  /\ gor' = [gor EXCEPT ![i] = "deferred"]
  /\ UNCHANGED <<caller, n, spawned, sem, wg, errs, scanned, errMsgs>>

(* ExtractTags returned an error: the request failed or timed out (30 s),  *)
(* the status was not 200, or the reply was not the JSON asked for.        *)
ExtractTagsErr(i) ==
  /\ gor[i] = "asking"
  /\ errs' = [errs EXCEPT ![i] = Err]
  /\ gor' = [gor EXCEPT ![i] = "deferred"]
  /\ UNCHANGED <<caller, n, spawned, sem, wg, results, scanned, errMsgs>>

(* Deferred calls run last in, first out: <-sem, then wg.Done(). *)
Release(i) ==
  /\ gor[i] = "deferred"
  /\ sem' = sem - 1
  /\ gor' = [gor EXCEPT ![i] = "released"]
  /\ UNCHANGED <<caller, n, spawned, wg, results, errs, scanned, errMsgs>>

Done(i) ==
  /\ gor[i] = "released"
  /\ wg' = wg - 1
  /\ gor' = [gor EXCEPT ![i] = "done"]
  /\ UNCHANGED <<caller, n, spawned, sem, results, errs, scanned, errMsgs>>

(* One turn of `for i, err := range errs'. *)
Scan ==
  /\ caller = "scan"
  /\ scanned < n
  /\ scanned' = scanned + 1
  /\ errMsgs' = IF errs[scanned + 1] = Err
                THEN errMsgs \cup {scanned + 1}
                ELSE errMsgs
  /\ UNCHANGED <<caller, n, spawned, gor, sem, wg, results, errs>>

(* len(errMsgs) > 0: return the error at once, without waiting. *)
ScanDone ==
  /\ caller = "scan"
  /\ scanned = n
  /\ caller' = IF errMsgs # {} THEN "error" ELSE "wait"
  /\ UNCHANGED <<n, spawned, gor, sem, wg, results, errs, scanned, errMsgs>>

(* wg.Wait(); return results, nil *)
Wait ==
  /\ caller = "wait"
  /\ wg = 0
  /\ caller' = "ok"
  /\ UNCHANGED <<n, spawned, gor, sem, wg, results, errs, scanned, errMsgs>>

CallerStep == Spawn \/ LoopDone \/ Scan \/ ScanDone \/ Wait

GoroutineStep(i) ==
  \/ \E tags \in TagLists : ExtractTagsOk(i, tags)
  \/ ExtractTagsErr(i)
  \/ Release(i)
  \/ Done(i)

ExtractionNext ==
  \/ \E k \in 0..MaxSegments : Call(k)
  \/ CallerStep
  \/ \E i \in Segment : GoroutineStep(i)

ExtractionSpec == ExtractionInit /\ [][ExtractionNext]_extractionVars
-----------------------------------------------------------------------------
Failed  == {i \in Segment : errs[i] = Err}
Holding == {i \in Segment : gor[i] \in {"asking", "deferred"}}
Running == {i \in Segment : gor[i] \in {"asking", "deferred", "released"}}

(* Segments whose error the scan has gone past without seeing it. *)
Missed == {i \in Failed : i <= scanned /\ i \notin errMsgs}

(* At most maxConcurrentRequests requests to Ollama are outstanding at a   *)
(* time, counted over the goroutines inside ExtractTags (lines 107-118).   *)
ConcurrencyBound ==
  Cardinality({i \in Segment : gor[i] = "asking"}) <= MaxConcurrentRequests

(* When ExtractMultiTags returns a nil error it may have lost the errors   *)
(* of at most maxConcurrentRequests segments: every other goroutine gave   *)
(* its slot back before the loop ended, so the scan saw its error.         *)
LostErrorsBounded ==
  caller = "ok" => Cardinality(Failed) <= MaxConcurrentRequests

(* An error return blames only segments whose extraction really failed,    *)
(* and it blames at least one (lines 127-136).                             *)
ErrorsAreReal ==
  /\ errMsgs \subseteq Failed
  /\ caller = "error" => errMsgs # {}

(* Once results are handed to the caller with a nil error no goroutine of  *)
(* the call writes them any more (wg.Wait before return, line 138).        *)
ReturnedResultsFrozen ==
  [][caller = "ok" => UNCHANGED <<results, errs>>]_extractionVars

-----------------------------------------------------------------------------
(***************************************************************************)
(* The inductive invariant behind LostErrorsBounded.  The segments that    *)
(* hold a slot, together with those whose error the scan has missed, never *)
(* outnumber the slots: inside the loop nothing has been missed yet, and   *)
(* after it no goroutine joins the set, for only a goroutine that still    *)
(* held its slot when the loop ended can store an error behind the scan.   *)
(***************************************************************************)
SlotsCounted ==
  /\ sem = Cardinality(Holding)
  /\ wg = Cardinality(Running)

SpawnedPrefix == \A i \in Segment : gor[i] = "none" <=> i > spawned

ErrorsFollowAnswers ==
  \A i \in Segment : errs[i] = Err => gor[i] \notin {"none", "asking"}

ScanProgress ==
  /\ \A i \in errMsgs : errs[i] = Err /\ i <= scanned
  /\ caller = "idle" => n = 0
  /\ caller \in {"idle", "loop"} => scanned = 0
  /\ caller \notin {"idle", "loop"} => spawned = n
  /\ caller \in {"wait", "ok"} => scanned = n /\ errMsgs = {}
  /\ caller = "error" => errMsgs # {}
  /\ caller = "ok" => wg = 0

LateErrorsBounded == Cardinality(Holding \cup Missed) <= MaxConcurrentRequests

(* What every step of ExtractMultiTags and its goroutines preserves. *)
ExtractionInv ==
  /\ ExtractionTypeOK
  /\ SlotsCounted
  /\ SpawnedPrefix
  /\ ErrorsFollowAnswers
  /\ ScanProgress
  /\ LateErrorsBounded
-----------------------------------------------------------------------------
(* Every call returns and no goroutine leaks: none keeps its slot, so the  *)
(* loop never blocks for good, Wait sees the counter fall to zero, and     *)
(* each goroutine ends also when the caller has already returned the error *)
(* of another segment without waiting (lines 110-138).                     *)
GoroutinesDrain ==
  caller = "loop" ~> caller \in {"ok", "error"} /\ wg = 0 /\ sem = 0
=============================================================================
