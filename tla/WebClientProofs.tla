--------------------------- MODULE WebClientProofs ---------------------------
(***************************************************************************)
(* WebClientInv is inductive, so the page keeps its properties however     *)
(* many analyses are in flight and however late the answers come.          *)
(***************************************************************************)
EXTENDS WebClient, TLAPS

(* The page starts with the invariant. *)
LEMMA WebClientInitInv == WebClientInit => WebClientInv
<1> SUFFICES ASSUME WebClientInit PROVE WebClientInv
  OBVIOUS
<1> USE DEF WebClientInit
<1>1. FlagsOK
  BY Zenon DEF FlagsOK
<1>2. CountsOK
  BY WebClientAssumption DEF CountsOK
<1>3. ConfirmFollowsBuild
  BY DEF ConfirmFollowsBuild
<1>4. LocationIsKept /\ BusyHasCause
  BY DEF LocationIsKept, BusyHasCause
<1>5. PageInOrder
  BY DEF PageInOrder
<1> QED
  BY <1>1, <1>2, <1>3, <1>4, <1>5 DEF WebClientInv, WebClientTypeOK

(* Every flag stays a Boolean. *)
LEMMA WebClientStepFlags ==
  WebClientInv /\ [WebClientNext]_webClientVars => FlagsOK'
<1> SUFFICES ASSUME WebClientInv, [WebClientNext]_webClientVars
             PROVE  FlagsOK'
  OBVIOUS
<1> USE DEF WebClientInv, WebClientTypeOK, FlagsOK
<1> USE DEF pageVars, buttonVars, fetchVars, ghostVars
<1>1. ASSUME NEW s \in {1, 2}, showStep(s) PROVE FlagsOK'
  BY <1>1, Zenon DEF showStep
<1>2. CASE enterSelectionMode
  BY <1>2, Zenon DEF enterSelectionMode
<1>3. CASE exitSelectionMode
  BY <1>3, Zenon DEF exitSelectionMode, SetTimer
<1>4. CASE TimerFires
  BY <1>4, Zenon DEF TimerFires
<1>5. CASE handleMapClick
  BY <1>5, Zenon DEF handleMapClick
<1>6. CASE InputRefused
  BY <1>6, Zenon DEF InputRefused
<1>7. CASE handleRouteRequest
  BY <1>7, Zenon DEF handleRouteRequest
<1>8. CASE renderTagEditor
  BY <1>8, Zenon DEF renderTagEditor
<1>9. CASE analyzeFailed
  BY <1>9, Zenon DEF analyzeFailed, resetRouteBtn
<1>10. CASE buildRoute
  BY <1>10, Zenon DEF buildRoute
<1>11. CASE cancelRoute
  BY <1>11, Zenon DEF cancelRoute, resetSteps, SetTimer
<1>12. CASE backBtn
  BY <1>12, Zenon DEF backBtn, resetSteps, SetTimer
<1>13. CASE toastGone
  BY <1>13, Zenon DEF toastGone
<1>14. ASSUME NEW drawn \in BOOLEAN, buildAnswered(drawn) PROVE FlagsOK'
  BY <1>14, Zenon DEF buildAnswered, BuildEnds, resetRouteBtn
<1>15. ASSUME NEW drawn \in BOOLEAN, buildFailed(drawn) PROVE FlagsOK'
  BY <1>15, Zenon DEF buildFailed, BuildEnds, resetRouteBtn
<1>16. CASE UNCHANGED webClientVars
  BY <1>16, Zenon DEF webClientVars
<1> QED
  BY <1>1, <1>2, <1>3, <1>4, <1>5, <1>6, <1>7, <1>8,
     <1>9, <1>10, <1>11, <1>12, <1>13, <1>14, <1>15, <1>16
  DEF WebClientNext

(* The other types. *)
LEMMA WebClientStepCounts ==
  WebClientInv /\ [WebClientNext]_webClientVars => CountsOK'
<1> SUFFICES ASSUME WebClientInv, [WebClientNext]_webClientVars
             PROVE  CountsOK'
  OBVIOUS
<1> USE WebClientAssumption DEF WebClientInv, WebClientTypeOK, CountsOK
<1> USE DEF pageVars, buttonVars, fetchVars, ghostVars
<1>1. ASSUME NEW s \in {1, 2}, showStep(s) PROVE CountsOK'
  BY <1>1 DEF showStep
<1>2. CASE enterSelectionMode
  BY <1>2 DEF enterSelectionMode
<1>3. CASE exitSelectionMode
  BY <1>3 DEF exitSelectionMode, SetTimer
<1>4. CASE TimerFires
  BY <1>4 DEF TimerFires
<1>5. CASE handleMapClick
  BY <1>5 DEF handleMapClick
<1>6. CASE InputRefused
  BY <1>6 DEF InputRefused
<1>7. CASE handleRouteRequest
  BY <1>7 DEF handleRouteRequest
<1>8. CASE renderTagEditor
  BY <1>8 DEF renderTagEditor
<1>9. CASE analyzeFailed
  BY <1>9 DEF analyzeFailed, resetRouteBtn
<1>10. CASE buildRoute
  BY <1>10 DEF buildRoute, ConfirmFollowsBuild
<1>11. CASE cancelRoute
  BY <1>11 DEF cancelRoute, resetSteps, SetTimer
<1>12. CASE backBtn
  BY <1>12 DEF backBtn, resetSteps, SetTimer
<1>13. CASE toastGone
  BY <1>13 DEF toastGone
<1>14. ASSUME NEW drawn \in BOOLEAN, buildAnswered(drawn) PROVE CountsOK'
  BY <1>14 DEF buildAnswered, BuildEnds, resetRouteBtn, ConfirmFollowsBuild
<1>15. ASSUME NEW drawn \in BOOLEAN, buildFailed(drawn) PROVE CountsOK'
  BY <1>15 DEF buildFailed, BuildEnds, resetRouteBtn, ConfirmFollowsBuild
<1>16. CASE UNCHANGED webClientVars
  BY <1>16 DEF webClientVars
<1> QED
  BY <1>1, <1>2, <1>3, <1>4, <1>5, <1>6, <1>7, <1>8,
     <1>9, <1>10, <1>11, <1>12, <1>13, <1>14, <1>15, <1>16
  DEF WebClientNext

(* A build is in flight exactly while the confirm button is disabled. *)
LEMMA WebClientStepBuild ==
  WebClientInv /\ [WebClientNext]_webClientVars => ConfirmFollowsBuild'
<1> SUFFICES ASSUME WebClientInv, [WebClientNext]_webClientVars
             PROVE  ConfirmFollowsBuild'
  OBVIOUS
<1> USE DEF WebClientInv, WebClientTypeOK, CountsOK, ConfirmFollowsBuild
<1> USE DEF pageVars, buttonVars, fetchVars, ghostVars
<1>1. ASSUME NEW s \in {1, 2}, showStep(s) PROVE ConfirmFollowsBuild'
  BY <1>1 DEF showStep
<1>2. CASE enterSelectionMode
  BY <1>2 DEF enterSelectionMode
<1>3. CASE exitSelectionMode
  BY <1>3 DEF exitSelectionMode, SetTimer
<1>4. CASE TimerFires
  BY <1>4 DEF TimerFires
<1>5. CASE handleMapClick
  BY <1>5 DEF handleMapClick
<1>6. CASE InputRefused
  BY <1>6 DEF InputRefused
<1>7. CASE handleRouteRequest
  BY <1>7 DEF handleRouteRequest
<1>8. CASE renderTagEditor
  BY <1>8 DEF renderTagEditor
<1>9. CASE analyzeFailed
  BY <1>9 DEF analyzeFailed, resetRouteBtn
<1>10. CASE buildRoute
  BY <1>10 DEF buildRoute
<1>11. CASE cancelRoute
  BY <1>11 DEF cancelRoute, resetSteps, SetTimer
<1>12. CASE backBtn
  BY <1>12 DEF backBtn, resetSteps, SetTimer
<1>13. CASE toastGone
  BY <1>13 DEF toastGone
<1>14. ASSUME NEW drawn \in BOOLEAN, buildAnswered(drawn) PROVE ConfirmFollowsBuild'
  BY <1>14 DEF buildAnswered, BuildEnds, resetRouteBtn
<1>15. ASSUME NEW drawn \in BOOLEAN, buildFailed(drawn) PROVE ConfirmFollowsBuild'
  BY <1>15 DEF buildFailed, BuildEnds, resetRouteBtn
<1>16. CASE UNCHANGED webClientVars
  BY <1>16 DEF webClientVars
<1> QED
  BY <1>1, <1>2, <1>3, <1>4, <1>5, <1>6, <1>7, <1>8,
     <1>9, <1>10, <1>11, <1>12, <1>13, <1>14, <1>15, <1>16
  DEF WebClientNext

(* No request leaves without a location. *)
LEMMA WebClientStepLocation ==
  WebClientInv /\ [WebClientNext]_webClientVars => LocationIsKept'
<1> SUFFICES ASSUME WebClientInv, [WebClientNext]_webClientVars
             PROVE  LocationIsKept'
  OBVIOUS
<1> USE WebClientAssumption DEF WebClientInv, WebClientTypeOK, CountsOK, LocationIsKept
<1> USE DEF pageVars, buttonVars, fetchVars, ghostVars
<1>1. ASSUME NEW s \in {1, 2}, showStep(s) PROVE LocationIsKept'
  BY <1>1 DEF showStep
<1>2. CASE enterSelectionMode
  BY <1>2 DEF enterSelectionMode
<1>3. CASE exitSelectionMode
  BY <1>3 DEF exitSelectionMode, SetTimer
<1>4. CASE TimerFires
  BY <1>4 DEF TimerFires
<1>5. CASE handleMapClick
  BY <1>5 DEF handleMapClick
<1>6. CASE InputRefused
  BY <1>6 DEF InputRefused
<1>7. CASE handleRouteRequest
  BY <1>7 DEF handleRouteRequest
<1>8. CASE renderTagEditor
  BY <1>8 DEF renderTagEditor
<1>9. CASE analyzeFailed
  BY <1>9 DEF analyzeFailed, resetRouteBtn
<1>10. CASE buildRoute
  BY <1>10 DEF buildRoute, EditorVisible
<1>11. CASE cancelRoute
  BY <1>11 DEF cancelRoute, resetSteps, SetTimer
<1>12. CASE backBtn
  BY <1>12 DEF backBtn, resetSteps, SetTimer
<1>13. CASE toastGone
  BY <1>13 DEF toastGone
<1>14. ASSUME NEW drawn \in BOOLEAN, buildAnswered(drawn) PROVE LocationIsKept'
  BY <1>14 DEF buildAnswered, BuildEnds, resetRouteBtn
<1>15. ASSUME NEW drawn \in BOOLEAN, buildFailed(drawn) PROVE LocationIsKept'
  BY <1>15 DEF buildFailed, BuildEnds, resetRouteBtn
<1>16. CASE UNCHANGED webClientVars
  BY <1>16 DEF webClientVars
<1> QED
  BY <1>1, <1>2, <1>3, <1>4, <1>5, <1>6, <1>7, <1>8,
     <1>9, <1>10, <1>11, <1>12, <1>13, <1>14, <1>15, <1>16
  DEF WebClientNext

(* A busy page waits for an analysis or shows the editor. *)
LEMMA WebClientStepBusy ==
  WebClientInv /\ [WebClientNext]_webClientVars => BusyHasCause'
<1> SUFFICES ASSUME WebClientInv, [WebClientNext]_webClientVars
             PROVE  BusyHasCause'
  OBVIOUS
<1> USE WebClientAssumption DEF WebClientInv, WebClientTypeOK, CountsOK, BusyHasCause
<1> USE DEF pageVars, buttonVars, fetchVars, ghostVars
<1>1. ASSUME NEW s \in {1, 2}, showStep(s) PROVE BusyHasCause'
  BY <1>1 DEF showStep
<1>2. CASE enterSelectionMode
  BY <1>2 DEF enterSelectionMode
<1>3. CASE exitSelectionMode
  BY <1>3 DEF exitSelectionMode, SetTimer
<1>4. CASE TimerFires
  BY <1>4 DEF TimerFires
<1>5. CASE handleMapClick
  BY <1>5 DEF handleMapClick
<1>6. CASE InputRefused
  BY <1>6 DEF InputRefused
<1>7. CASE handleRouteRequest
  BY <1>7 DEF handleRouteRequest
<1>8. CASE renderTagEditor
  BY <1>8 DEF renderTagEditor
<1>9. CASE analyzeFailed
  BY <1>9 DEF analyzeFailed, resetRouteBtn
<1>10. CASE buildRoute
  BY <1>10 DEF buildRoute
<1>11. CASE cancelRoute
  BY <1>11 DEF cancelRoute, resetSteps, SetTimer
<1>12. CASE backBtn
  BY <1>12 DEF backBtn, resetSteps, SetTimer
<1>13. CASE toastGone
  BY <1>13 DEF toastGone
<1>14. ASSUME NEW drawn \in BOOLEAN, buildAnswered(drawn) PROVE BusyHasCause'
  BY <1>14 DEF buildAnswered, BuildEnds, resetRouteBtn
<1>15. ASSUME NEW drawn \in BOOLEAN, buildFailed(drawn) PROVE BusyHasCause'
  BY <1>15 DEF buildFailed, BuildEnds, resetRouteBtn
<1>16. CASE UNCHANGED webClientVars
  BY <1>16 DEF webClientVars
<1> QED
  BY <1>1, <1>2, <1>3, <1>4, <1>5, <1>6, <1>7, <1>8,
     <1>9, <1>10, <1>11, <1>12, <1>13, <1>14, <1>15, <1>16
  DEF WebClientNext

(* A sequence that loses its first element keeps a last one that differs. *)
LEMMA LastOfTail ==
  ASSUME NEW S, NEW s \in Seq(S), s # <<>>, s[1] # s[Len(s)]
  PROVE  Tail(s) # <<>> /\ Tail(s)[Len(Tail(s))] = s[Len(s)]
<1>1. Len(s) \in Nat /\ Len(s) # 0 /\ Len(s) # 1
  OBVIOUS
<1>2. Len(Tail(s)) = Len(s) - 1 /\ Tail(s) \in Seq(S)
  OBVIOUS
<1>3. Tail(s)[Len(s) - 1] = s[Len(s)]
  BY <1>1
<1>4. Tail(s) # <<>>
  <2>1. Len(<<>>) = 0 /\ Len(Tail(s)) # 0
    BY <1>1, <1>2
  <2> QED
    BY <2>1, Zenon
<1> QED
  BY <1>2, <1>3, <1>4, Zenon

(* A page that is left without its landing page has the timer that brings it *)
(* back, last in the queue.                                                *)
LEMMA WebClientStepPage ==
  WebClientInv /\ [WebClientNext]_webClientVars => PageInOrder'
<1> SUFFICES ASSUME WebClientInv, [WebClientNext]_webClientVars
             PROVE  PageInOrder'
  OBVIOUS
<1> USE WebClientAssumption DEF WebClientInv, WebClientTypeOK, CountsOK, PageInOrder
<1> USE DEF pageVars, buttonVars, fetchVars, ghostVars
<1>1. ASSUME NEW s \in {1, 2}, showStep(s) PROVE PageInOrder'
  BY <1>1 DEF showStep
<1>2. CASE enterSelectionMode
  BY <1>2 DEF enterSelectionMode
<1>3. CASE exitSelectionMode
  BY <1>3 DEF exitSelectionMode, SetTimer, SelectionVisible, MapVisible, WindowReached
<1>4. CASE TimerFires
  <2> USE <1>4 DEF TimerFires, FlagsOK
  <2>1. timers # <<>> /\ UNCHANGED <<step, window, editor, analyses, lastFailed>>
    OBVIOUS
  <2>2. step' = 3 <=> "active" \in window'
    BY <2>1
  <2>3. "active" \in window' => overtaken'
    BY <2>1
  <2>4. ASSUME ~landing', "active" \notin window'
        PROVE  timers' # <<>> /\ timers'[Len(timers')] = "back"
    <3>1. ~landing /\ Head(timers) # "back"
      BY <2>4, Zenon
    <3>2. timers[Len(timers)] = "back"
      BY <2>1, <2>4, <3>1
    <3>3. timers[1] # "back" /\ timers' = Tail(timers)
      BY <2>1, <3>1
    <3> QED
      BY <2>1, <3>2, <3>3, LastOfTail
  <2>5. window' = {"active"} => analyses' > 0 \/ editor' \/ lastFailed'
    BY <2>1
  <2> QED
    BY <2>2, <2>3, <2>4, <2>5
<1>5. CASE handleMapClick
  BY <1>5 DEF handleMapClick
<1>6. CASE InputRefused
  BY <1>6 DEF InputRefused
<1>7. CASE handleRouteRequest
  BY <1>7 DEF handleRouteRequest
<1>8. CASE renderTagEditor
  BY <1>8 DEF renderTagEditor
<1>9. CASE analyzeFailed
  BY <1>9 DEF analyzeFailed, resetRouteBtn
<1>10. CASE buildRoute
  BY <1>10 DEF buildRoute
<1>11. CASE cancelRoute
  BY <1>11 DEF cancelRoute, resetSteps, SetTimer, EditorVisible, WindowReached
<1>12. CASE backBtn
  BY <1>12 DEF backBtn, resetSteps, SetTimer, ResultsVisible, MapVisible, WindowReached
<1>13. CASE toastGone
  BY <1>13 DEF toastGone
<1>14. ASSUME NEW drawn \in BOOLEAN, buildAnswered(drawn) PROVE PageInOrder'
  BY <1>14 DEF buildAnswered, BuildEnds, resetRouteBtn
<1>15. ASSUME NEW drawn \in BOOLEAN, buildFailed(drawn) PROVE PageInOrder'
  BY <1>15 DEF buildFailed, BuildEnds, resetRouteBtn
<1>16. CASE UNCHANGED webClientVars
  BY <1>16 DEF webClientVars
<1> QED
  BY <1>1, <1>2, <1>3, <1>4, <1>5, <1>6, <1>7, <1>8,
     <1>9, <1>10, <1>11, <1>12, <1>13, <1>14, <1>15, <1>16
  DEF WebClientNext

(* WebClientInv holds in every reachable state. *)
THEOREM WebClientInvariance == WebClientSpec => []WebClientInv
<1>1. WebClientInv /\ [WebClientNext]_webClientVars => WebClientInv'
  BY WebClientStepFlags, WebClientStepCounts, WebClientStepBuild,
     WebClientStepLocation, WebClientStepBusy,
     WebClientStepPage
  DEF WebClientInv, WebClientTypeOK
<1> QED
  BY WebClientInitInv, <1>1, PTL DEF WebClientSpec

(* Every variable of the page keeps its type: one build at a time. *)
THEOREM WebClientTypeCorrect == WebClientSpec => []WebClientTypeOK
<1>1. WebClientInv => WebClientTypeOK
  BY DEF WebClientInv
<1> QED
  BY WebClientInvariance, <1>1, PTL

(* The map never shows two routes, nor one while another is being built. *)
THEOREM WebClientOneRouteOnMap == WebClientSpec => []OneRouteOnMap
<1>1. WebClientInv => OneRouteOnMap
  BY DEF WebClientInv, ConfirmFollowsBuild, OneRouteOnMap
<1> QED
  BY WebClientInvariance, <1>1, PTL

(* Every build carries a location. *)
THEOREM WebClientBuildsHaveLocation == WebClientSpec => []BuildsHaveLocation
<1>1. WebClientInv => BuildsHaveLocation
  BY DEF WebClientInv, LocationIsKept, BuildsHaveLocation
<1> QED
  BY WebClientInvariance, <1>1, PTL

(* The map is not left refusing clicks. *)
THEOREM WebClientBusyHasCause == WebClientSpec => []BusyHasCause
<1>1. WebClientInv => BusyHasCause
  BY DEF WebClientInv
<1> QED
  BY WebClientInvariance, <1>1, PTL

(* A page at rest without a button was hidden by a timer after it was       *)
(* entered again, or is the window of a failed analysis.                   *)
THEOREM WebClientDeadEndsKnown == WebClientSpec => []DeadEndsKnown
<1>1. ASSUME WebClientInv, PageRests, ~AnyButton
      PROVE  \/ overtaken /\ (landing \/ ~shown)
             \/ lastFailed /\ ~landing /\ shown /\ window = {"active"}
  <2> USE DEF WebClientInv, WebClientTypeOK, CountsOK, PageInOrder
  <2>1. analyses = 0 /\ timers = <<>>
    BY <1>1, WebClientAssumption DEF PageRests
  <2>2. "active" \in window
    BY <1>1, <2>1 DEF AnyButton, FormVisible
  <2>3. CASE landing \/ ~shown
    BY <2>2, <2>3, <1>1
  <2>4. CASE ~landing /\ shown
    <3>1. ~editor /\ window = {"active"}
      BY <1>1, <2>2, <2>4
      DEF AnyButton, EditorVisible, SelectionVisible, ResultsVisible,
          MapVisible, WindowReached
    <3> QED
      BY <1>1, <2>1, <2>4, <3>1
  <2> QED
    BY <2>3, <2>4
<1>2. WebClientInv => DeadEndsKnown
  BY <1>1 DEF DeadEndsKnown
<1> QED
  BY WebClientInvariance, <1>2, PTL
=============================================================================
