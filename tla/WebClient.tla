------------------------------ MODULE WebClient ------------------------------
(***************************************************************************)
(* The page of public/app.js: two fetches, /routes/analyze and then, out   *)
(* of the tag editor, /routes/build, whose answers come at any later time. *)
(* The user presses whatever a pointer reaches: nothing disables the       *)
(* editor's cancel button while a build is under way, so an answer may     *)
(* find a page that was reset, or one that is busy with a newer request.   *)
(* Dragging and removing tags, login and the drawing itself are left out.  *)
(***************************************************************************)
EXTENDS Naturals, Sequences

CONSTANTS
  MaxAnalyses,  \* bound on the analyses in flight
  MaxTimers     \* bound on the pending timers

ASSUME WebClientAssumption == MaxAnalyses \in Nat \ {0} /\ MaxTimers \in Nat \ {0}

VARIABLES
  step,          \* currentStep: the active form step
  landing,       \* the landing page takes clicks
  shown,         \* the app window's inline display is flex
  window,        \* which of the classes active, selection-mode, app-ready it has
  editor,        \* the tag editor's mask is active
  located,       \* selectedLocation is set
  userLocated,   \* currentUserLocation is set
  isProcessing,
  sendDisabled,
  confirmDisabled,
  analyses,      \* calls of /routes/analyze in flight
  builds,        \* calls of /routes/build in flight
  payloadLocated,\* the last payload had a location
  routes,        \* routes on routeLayer, drawn in whole or in part
  timers,        \* pending timers: "exit" of exitSelectionMode, "back" of a reset
  toast,         \* the error toast on display
  overtaken,     \* ghost: a timer has hidden the window after it was entered again
  lastFailed     \* ghost: the last analysis to end has failed

pageVars == <<step, landing, shown, window>>
buttonVars == <<isProcessing, sendDisabled>>
fetchVars == <<analyses, builds, payloadLocated, confirmDisabled>>
ghostVars == <<overtaken, lastFailed>>
webClientVars == <<pageVars, editor, located, userLocated, buttonVars,
                   fetchVars, routes, timers, toast, ghostVars>>

FlagsOK ==
  /\ landing \in BOOLEAN /\ shown \in BOOLEAN /\ editor \in BOOLEAN
  /\ located \in BOOLEAN /\ userLocated \in BOOLEAN /\ payloadLocated \in BOOLEAN
  /\ isProcessing \in BOOLEAN
  /\ sendDisabled \in BOOLEAN /\ confirmDisabled \in BOOLEAN
  /\ overtaken \in BOOLEAN /\ lastFailed \in BOOLEAN

CountsOK ==
  /\ step \in 1..3
  /\ window \subseteq {"active", "selection-mode", "app-ready"}
  /\ analyses \in 0..MaxAnalyses
  /\ builds \in 0..1
  /\ routes \in 0..1
  /\ timers \in Seq({"exit", "back"}) /\ Len(timers) <= MaxTimers
  /\ toast \in {"none", "tryOtherWords", "other"}

WebClientTypeOK == FlagsOK /\ CountsOK

WebClientInit ==
  /\ step = 1 /\ landing = TRUE /\ shown = FALSE /\ window = {}
  /\ editor = FALSE
  /\ located = FALSE /\ userLocated = FALSE
  /\ isProcessing = FALSE /\ sendDisabled = TRUE /\ confirmDisabled = FALSE
  /\ analyses = 0 /\ builds = 0 /\ payloadLocated = FALSE
  /\ routes = 0
  /\ timers = <<>>
  /\ toast = "none"
  /\ overtaken = FALSE /\ lastFailed = FALSE

-----------------------------------------------------------------------------
(***************************************************************************)
(* What a pointer reaches.  The landing page lies above the window, the    *)
(* mask above the rest of the window.  A window that has lost its class    *)
(* active fades, but takes clicks until its timer hides it: the style      *)
(* sheet changes no more than its opacity.                                 *)
(***************************************************************************)
WindowReached == shown /\ ~landing

FormVisible      == landing /\ step \in {1, 2}
EditorVisible    == WindowReached /\ editor
MapVisible       == WindowReached /\ ~editor
SelectionVisible == MapVisible /\ "selection-mode" \in window
ResultsVisible   == MapVisible /\ "selection-mode" \notin window /\ "app-ready" \in window

AnyButton == FormVisible \/ EditorVisible \/ SelectionVisible \/ ResultsVisible

(* setTimeout for 500 ms: timers fire in the order they were set. *)
SetTimer(t) ==
  /\ Len(timers) < MaxTimers
  /\ timers' = Append(timers, t)

resetRouteBtn == isProcessing' = FALSE /\ sendDisabled' = FALSE

(* resetSteps, and the lines that follow it wherever it is called. *)
resetSteps ==
  /\ step' = 1
  /\ located' = FALSE
  /\ sendDisabled' = TRUE
  /\ routes' = 0
  /\ window' = {}
  /\ SetTimer("back")

showStep(s) ==
  /\ landing /\ step = 3 - s
  /\ step' = s
  /\ UNCHANGED <<landing, shown, window, editor, located, userLocated,
                 buttonVars, fetchVars, routes, timers, toast, ghostVars>>

enterSelectionMode ==
  /\ landing /\ step = 2
  /\ step' = 3
  /\ landing' = FALSE
  /\ shown' = TRUE
  /\ window' = window \cup {"active", "selection-mode"}
  /\ overtaken' = FALSE
  /\ UNCHANGED <<editor, located, userLocated, buttonVars, fetchVars, routes,
                 timers, toast, lastFailed>>

exitSelectionMode ==
  /\ SelectionVisible
  /\ SetTimer("exit")
  /\ step' = 2
  /\ landing' = TRUE
  /\ window' = window \ {"active", "selection-mode"}
  /\ UNCHANGED <<shown, editor, located, userLocated, buttonVars, fetchVars,
                 routes, toast, ghostVars>>

(* A timer hides the window, whatever happened since it was set; that of a *)
(* reset brings the landing page back.                                     *)
TimerFires ==
  /\ timers # <<>>
  /\ timers' = Tail(timers)
  /\ shown' = FALSE
  /\ landing' = (landing \/ Head(timers) = "back")
  /\ overtaken' = (overtaken \/ "active" \in window)
  /\ UNCHANGED <<step, window, editor, located, userLocated, buttonVars,
                 fetchVars, routes, toast, lastFailed>>

handleMapClick ==
  /\ MapVisible
  /\ ~isProcessing
  /\ located' = TRUE
  /\ sendDisabled' = FALSE
  /\ UNCHANGED <<pageVars, editor, userLocated, isProcessing, fetchVars,
                 routes, timers, toast, ghostVars>>

(* Fewer than three characters, or the send button without a location. *)
InputRefused ==
  /\ \/ landing /\ step = 1
     \/ SelectionVisible /\ ~sendDisabled /\ ~located
  /\ toast' = "other"
  /\ UNCHANGED <<pageVars, editor, located, userLocated, buttonVars,
                 fetchVars, routes, timers, ghostVars>>

(* Mutant of handleRouteRequest: it trusts the button to be disabled. *)
handleRouteRequestTrusting ==
  /\ SelectionVisible /\ ~sendDisabled
  /\ analyses < MaxAnalyses
  /\ analyses' = analyses + 1
  /\ isProcessing' = TRUE
  /\ sendDisabled' = TRUE
  /\ userLocated' = located
  /\ window' = window \ {"selection-mode"}
  /\ lastFailed' = FALSE
  /\ UNCHANGED <<step, landing, shown, editor, located, builds, payloadLocated,
                 confirmDisabled, routes, timers, toast, overtaken>>

handleRouteRequest ==
  /\ SelectionVisible /\ ~sendDisabled
  /\ located
  /\ analyses < MaxAnalyses
  /\ analyses' = analyses + 1
  /\ isProcessing' = TRUE
  /\ sendDisabled' = TRUE
  /\ userLocated' = located
  /\ window' = window \ {"selection-mode"}
  /\ lastFailed' = FALSE
  /\ UNCHANGED <<step, landing, shown, editor, located, builds, payloadLocated,
                 confirmDisabled, routes, timers, toast, overtaken>>
-----------------------------------------------------------------------------
(* analyzeRequest: the server answered with tags. *)
renderTagEditor ==
  /\ analyses > 0
  /\ analyses' = analyses - 1
  /\ editor' = TRUE
  /\ lastFailed' = FALSE
  /\ UNCHANGED <<pageVars, located, userLocated, buttonVars, builds,
                 payloadLocated, confirmDisabled, routes, timers, toast, overtaken>>

(* Mutant of analyzeFailed: one of its returns forgets resetRouteBtn. *)
analyzeFailedBusy ==
  /\ analyses > 0
  /\ analyses' = analyses - 1
  /\ toast' \in {"tryOtherWords", "other"}
  /\ lastFailed' = TRUE
  /\ UNCHANGED <<pageVars, editor, located, userLocated, buttonVars, builds,
                 payloadLocated, confirmDisabled, routes, timers, overtaken>>

(* analyzeRequest: an error status, no segments, or the fetch failed.  A   *)
(* refusal is translated to "try other words".                             *)
analyzeFailed ==
  /\ analyses > 0
  /\ analyses' = analyses - 1
  /\ toast' \in {"tryOtherWords", "other"}
  /\ lastFailed' = TRUE
  /\ resetRouteBtn
  /\ UNCHANGED <<pageVars, editor, located, userLocated, builds,
                 payloadLocated, confirmDisabled, routes, timers, overtaken>>

(* Mutant of buildRoute: the confirm button stays enabled. *)
buildRouteEnabled ==
  /\ EditorVisible
  /\ ~confirmDisabled
  /\ builds' = builds + 1
  /\ payloadLocated' = userLocated
  /\ routes' = 0
  /\ UNCHANGED <<pageVars, editor, located, userLocated, buttonVars, analyses,
                 confirmDisabled, timers, toast, ghostVars>>

(* buildRoute up to its await: the layers are cleared before the fetch. *)
buildRoute ==
  /\ EditorVisible
  /\ ~confirmDisabled
  /\ confirmDisabled' = TRUE
  /\ builds' = builds + 1
  /\ payloadLocated' = userLocated
  /\ routes' = 0
  /\ UNCHANGED <<pageVars, editor, located, userLocated, buttonVars, analyses,
                 timers, toast, ghostVars>>

(* Mutant of cancelRoute: it makes the editor ready for its next use. *)
cancelRouteConfirming ==
  /\ EditorVisible
  /\ editor' = FALSE
  /\ isProcessing' = FALSE
  /\ confirmDisabled' = FALSE
  /\ resetSteps
  /\ UNCHANGED <<landing, shown, userLocated, analyses, builds, payloadLocated,
                 toast, ghostVars>>

cancelRoute ==
  /\ EditorVisible
  /\ editor' = FALSE
  /\ isProcessing' = FALSE
  /\ resetSteps
  /\ UNCHANGED <<landing, shown, userLocated, fetchVars, toast, ghostVars>>

BuildEnds ==
  /\ builds > 0
  /\ builds' = builds - 1
  /\ confirmDisabled' = FALSE
  /\ resetRouteBtn
  /\ UNCHANGED <<step, landing, shown, located, userLocated, analyses,
                 payloadLocated, timers, ghostVars>>

(* Mutant of buildAnswered: the class app-ready is not added. *)
buildAnsweredHidden(drawn) ==
  /\ BuildEnds
  /\ editor' = FALSE
  /\ UNCHANGED window
  /\ routes' = IF drawn THEN routes + 1 ELSE routes
  /\ toast' = IF drawn THEN toast ELSE "other"

(* sendToRouteBackend drew the route, or showed the server's refusal. *)
buildAnswered(drawn) ==
  /\ BuildEnds
  /\ editor' = FALSE
  /\ window' = window \cup {"app-ready"}
  /\ routes' = IF drawn THEN routes + 1 ELSE routes
  /\ toast' = IF drawn THEN toast ELSE "other"

(* The fetch, its answer or the drawing failed, the last perhaps with some *)
(* of the segments on the map: the editor stays.                           *)
buildFailed(drawn) ==
  /\ BuildEnds
  /\ routes' = IF drawn THEN routes + 1 ELSE routes
  /\ toast' = "other"
  /\ UNCHANGED <<window, editor>>

backBtn ==
  /\ ResultsVisible
  /\ resetSteps
  /\ UNCHANGED <<landing, shown, editor, userLocated, isProcessing, fetchVars,
                 toast, ghostVars>>

toastGone ==
  /\ toast # "none"
  /\ toast' = "none"
  /\ UNCHANGED <<pageVars, editor, located, userLocated, buttonVars,
                 fetchVars, routes, timers, ghostVars>>

WebClientNext ==
  \/ \E s \in {1, 2} : showStep(s)
  \/ enterSelectionMode \/ exitSelectionMode \/ TimerFires
  \/ handleMapClick \/ InputRefused \/ handleRouteRequest
  \/ renderTagEditor \/ analyzeFailed
  \/ buildRoute \/ cancelRoute \/ backBtn
  \/ \E drawn \in BOOLEAN : buildAnswered(drawn) \/ buildFailed(drawn)
  \/ toastGone

WebClientSpec == WebClientInit /\ [][WebClientNext]_webClientVars
-----------------------------------------------------------------------------
(* Never two routes on the map, however late a build answers and whatever  *)
(* was cancelled or asked meanwhile: the confirm button stays disabled,    *)
(* across cancel and a new analysis, until the one build in flight ends.   *)
OneRouteOnMap == routes + builds <= 1

(* Every build carries a location, although a late answer enables the send *)
(* button of a page whose location was reset (lines 386-390, 773-780).     *)
BuildsHaveLocation == builds > 0 => payloadLocated

(* The map refuses clicks only while an analysis is under way or the       *)
(* editor is open: no path through the two awaits leaves it busy for good. *)
BusyHasCause == isProcessing => analyses > 0 \/ editor

PageRests == analyses + builds = 0 /\ timers = <<>>

(* translateError tells the user to try other words; so some button should *)
(* be there, unless a request or a timer is still to change the page.      *)
OtherWordsCanBeTried == toast = "tryOtherWords" /\ PageRests => AnyButton

(* A page that waits for nothing and has no button left got there in one   *)
(* of two ways.  A timer set when the page was left hid it after it was    *)
(* entered again (lines 100, 354, 498); or its analysis failed with the    *)
(* selection already taken away (lines 404-450).  No cancel, back, click   *)
(* on a fading window or late build leads to a third.                      *)
DeadEndsKnown ==
  PageRests /\ ~AnyButton =>
    \/ overtaken /\ (landing \/ ~shown)
    \/ lastFailed /\ ~landing /\ shown /\ window = {"active"}

-----------------------------------------------------------------------------
(* The inductive invariant behind the properties. *)
ConfirmFollowsBuild ==
  /\ builds = IF confirmDisabled THEN 1 ELSE 0
  /\ routes + builds <= 1

LocationIsKept ==
  /\ analyses > 0 \/ editor \/ builds > 0 => userLocated
  /\ builds > 0 => payloadLocated

(* Which of its two pages is up.  A window that was left is hidden, unless *)
(* the timer that does so is still the last one to fire.                   *)
PageInOrder ==
  /\ step = 3 <=> "active" \in window
  /\ "active" \in window /\ (landing \/ ~shown) => overtaken
  /\ ~landing /\ "active" \notin window =>
       timers # <<>> /\ timers[Len(timers)] = "back"
  /\ window = {"active"} => analyses > 0 \/ editor \/ lastFailed

WebClientInv ==
  /\ WebClientTypeOK
  /\ ConfirmFollowsBuild
  /\ LocationIsKept
  /\ BusyHasCause
  /\ PageInOrder
=============================================================================
