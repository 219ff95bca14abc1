--------------------------- MODULE LifecycleProofs ---------------------------
(***************************************************************************)
(* Proofs about the life cycle of the process, for any configuration       *)
(* fields, environments and number of concurrent requests.                 *)
(***************************************************************************)
EXTENDS Lifecycle, TLAPS

(* LoadConfig, when it does not panic, fills every field with a value of   *)
(* its kind.                                                               *)
LEMMA LoadedConfigWellTyped ==
  ASSUME NEW env \in Environment, ~mapEnvFails(env)
  PROVE  WellTyped(mapEnvToStruct(env))
BY ConfigurationAssumption
DEF Environment, mapEnvFails, mapEnvToStruct, WellTyped, EnvValue, ZeroValue

(* The process starts with an empty Config and no connection. *)
LEMMA LifecycleInvInit == LifecycleInit => LifecycleInv
<1> SUFFICES ASSUME LifecycleInit PROVE LifecycleInv
  OBVIOUS
<1>1. WellTyped(cfg)
  BY ConfigurationAssumption DEF LifecycleInit, WellTyped, ZeroValue
<1>2. LifecycleTypeOK
  <2>1. handler \in [Handler -> {"idle", "running"}]
    BY DEF LifecycleInit
  <2>2. /\ main \in MainState /\ signaller \in SignallerState
        /\ db \in Connection /\ rds \in Connection /\ store \in Connection
        /\ signalAt \in MainState \cup {"never"}
    BY DEF LifecycleInit, MainState, SignallerState, Connection
  <2>3. /\ pending \in 0..1
        /\ server \in {"new", "listening", "deaf", "stopped"}
        /\ warmup \in {"none", "running", "done"}
        /\ exit \in {"none", "ok", "error", "panic", "killed"}
        /\ shutdown \in {"none", "drained", "missed", "failed"}
    BY DEF LifecycleInit
  <2>4. idleConnsClosed \in BOOLEAN
    BY Zenon DEF LifecycleInit
  <2> QED
    BY <1>1, <2>1, <2>2, <2>3, <2>4, Zenon DEF LifecycleTypeOK
<1> QED
  BY <1>2
  DEF LifecycleInit, LifecycleInv, ClosedInOrder, ListeningInOrder,
      ShutdownInOrder, Past, Serving

(* The end of the process leaves everything else as it is. *)
LEMMA EndStep ==
  ASSUME LifecycleInv, NEW code \in {"ok", "error", "panic", "killed"}, End(code),
         code = "ok" => main = "waiting" /\ idleConnsClosed
  PROVE  LifecycleInv'
BY DEF End, LifecycleInv, LifecycleTypeOK, WellTyped, ClosedInOrder,
       ListeningInOrder, ShutdownInOrder, Past, Serving

(* The steps of the main goroutine. *)
LEMMA MainStepPreserves ==
  ASSUME LifecycleInv, MainStep \/ ListenBreaks
  PROVE  LifecycleInv'
<1> USE DEF Past, Serving
<1>1. CASE LoadConfig
  <2>1. WellTyped(cfg)'
    BY <1>1, LoadedConfigWellTyped DEF LoadConfig
  <2>2. LifecycleTypeOK'
    BY <1>1, <2>1 DEF LoadConfig, Advance, LifecycleInv, LifecycleTypeOK, MainState
  <2> QED
    BY <1>1, <2>2
    DEF LoadConfig, Advance, LifecycleInv, ClosedInOrder, ListeningInOrder, ShutdownInOrder
<1>2. CASE ConfigValid \/ InitDB \/ ConnectRedis \/ Wire
  <2> USE <1>2 DEF ConfigValid, InitDB, ConnectRedis, Wire, Advance, LifecycleInv
  <2>1. LifecycleTypeOK'
    BY DEF LifecycleTypeOK, WellTyped, MainState, SignallerState, Connection
  <2>2. ClosedInOrder'
    BY DEF ClosedInOrder, ListeningInOrder
  <2>3. ListeningInOrder'
    BY DEF ListeningInOrder
  <2>4. ShutdownInOrder'
    BY DEF ShutdownInOrder, ListeningInOrder, ClosedInOrder
  <2> QED
    BY <2>1, <2>2, <2>3, <2>4
<1>3. CASE Listen \/ ListenFails \/ ListenReturns \/ ListenBreaks
  <2> USE <1>3 DEF Listen, ListenFails, ListenReturns, ListenBreaks, Advance, LifecycleInv
  <2>1. LifecycleTypeOK'
    BY DEF LifecycleTypeOK, WellTyped, MainState
  <2>2. ClosedInOrder'
    BY DEF ClosedInOrder
  <2>3. ListeningInOrder'
    BY DEF ListeningInOrder, MainStep
  <2>4. ShutdownInOrder'
    BY DEF ShutdownInOrder, ListeningInOrder
  <2> QED
    BY <2>1, <2>2, <2>3, <2>4
<1>4. CASE LoadConfigPanics \/ ConnectRedisPanics
  BY <1>4, EndStep DEF LoadConfigPanics, ConnectRedisPanics
<1>5. CASE ConfigInvalid \/ InitDBFails
  BY <1>5, EndStep DEF ConfigInvalid, InitDBFails
<1>6. CASE MainEnds
  BY <1>6, EndStep DEF MainEnds
<1> QED
  BY <1>1, <1>2, <1>3, <1>4, <1>5, <1>6 DEF MainStep

(* The steps of the signal goroutine. *)
LEMMA SignallerStepPreserves ==
  ASSUME LifecycleInv, SignallerStep
  PROVE  LifecycleInv'
<1> USE DEF Past, Serving, Proceed, LifecycleInv
<1>1. CASE Notify \/ ReceiveSignal
  <2> USE <1>1 DEF Notify, ReceiveSignal
  <2>1. LifecycleTypeOK'
    BY DEF LifecycleTypeOK, WellTyped, SignallerState
  <2>2. ClosedInOrder' /\ ListeningInOrder'
    BY DEF ClosedInOrder, ListeningInOrder, SignallerStep
  <2>3. ShutdownInOrder'
    BY DEF ShutdownInOrder, LifecycleTypeOK
  <2> QED
    BY <2>1, <2>2, <2>3
<1>2. CASE Shutdown \/ ShutdownReturns \/ ShutdownMisses \/ ShutdownFails
  <2> USE <1>2 DEF Shutdown, ShutdownReturns, ShutdownMisses, ShutdownFails
  <2>1. LifecycleTypeOK'
    BY DEF LifecycleTypeOK, WellTyped, SignallerState
  <2>2. ClosedInOrder'
    BY DEF ClosedInOrder
  <2>3. ListeningInOrder'
    BY DEF ListeningInOrder, SignallerStep
  <2>4. ShutdownInOrder'
    BY DEF ShutdownInOrder, ClosedInOrder
  <2> QED
    BY <2>1, <2>2, <2>3, <2>4
<1>3. CASE CloseDB \/ CloseRedis \/ CloseStore \/ CloseIdle
  <2> USE <1>3 DEF CloseDB, CloseRedis, CloseStore, CloseIdle
  <2>1. LifecycleTypeOK'
    BY DEF LifecycleTypeOK, WellTyped, SignallerState, Connection
  <2>2. ClosedInOrder'
    BY DEF ClosedInOrder
  <2>3. ListeningInOrder'
    BY DEF ListeningInOrder, SignallerStep
  <2>4. ShutdownInOrder'
    BY DEF ShutdownInOrder
  <2> QED
    BY <2>1, <2>2, <2>3, <2>4
<1> QED
  BY <1>1, <1>2, <1>3 DEF SignallerStep

(* The requests. *)
LEMMA HandlerStepPreserves ==
  ASSUME LifecycleInv, NEW h \in Handler, Accept(h) \/ HandlerEnds(h)
  PROVE  LifecycleInv'
<1> USE DEF Past, LifecycleInv, Turn
<1>1. LifecycleTypeOK'
  BY DEF Accept, HandlerEnds, LifecycleTypeOK, WellTyped
<1>2. Serving' => Serving \/ server \in {"listening", "deaf"}
  BY DEF Accept, HandlerEnds, Serving, LifecycleTypeOK
<1>3. UNCHANGED <<main, signaller, pending, server, db, rds, store,
                  idleConnsClosed, exit, signalAt, shutdown>>
  BY DEF Accept, HandlerEnds
<1>4. ClosedInOrder'
  BY <1>3 DEF ClosedInOrder
<1>5. ListeningInOrder'
  BY <1>2, <1>3 DEF ListeningInOrder
<1>6. ShutdownInOrder'
  BY <1>2, <1>3 DEF ShutdownInOrder
<1> QED
  BY <1>1, <1>4, <1>5, <1>6

(* A signal, and the end of the warm-up. *)
LEMMA EnvironmentStepPreserves ==
  ASSUME LifecycleInv, Signal \/ WarmupEnds
  PROVE  LifecycleInv'
<1> USE DEF Past, Serving, LifecycleInv, Signal, WarmupEnds
<1>1. LifecycleTypeOK'
  BY DEF LifecycleTypeOK, WellTyped
<1>2. ClosedInOrder' /\ ListeningInOrder'
  BY DEF ClosedInOrder, ListeningInOrder
<1>3. ShutdownInOrder'
  BY DEF ShutdownInOrder, ClosedInOrder, ListeningInOrder, LifecycleTypeOK, MainState
<1> QED
  BY <1>1, <1>2, <1>3

(* Every step of the process preserves the invariant. *)
LEMMA LifecycleInvStep ==
  LifecycleInv /\ [LifecycleNext]_lifecycleVars => LifecycleInv'
<1> SUFFICES ASSUME LifecycleInv, [LifecycleNext]_lifecycleVars
             PROVE  LifecycleInv'
  OBVIOUS
<1>1. CASE SignalKills
  BY <1>1, EndStep DEF SignalKills
<1>2. ASSUME NEW h \in Handler, HandlerPanics(h)
      PROVE  LifecycleInv'
  BY <1>2, EndStep DEF HandlerPanics
<1>3. CASE UNCHANGED lifecycleVars
  BY <1>3
  DEF lifecycleVars, LifecycleInv, LifecycleTypeOK, WellTyped, ClosedInOrder,
      ListeningInOrder, ShutdownInOrder, Past, Serving
<1> QED
  BY <1>1, <1>2, <1>3, MainStepPreserves, SignallerStepPreserves,
     HandlerStepPreserves, EnvironmentStepPreserves DEF LifecycleNext

(* LifecycleInv holds whatever the configuration, whenever signals come    *)
(* and however requests interleave with the shutdown.                      *)
THEOREM LifecycleInvariance == LifecycleSpec => []LifecycleInv
BY LifecycleInvInit, LifecycleInvStep, PTL DEF LifecycleSpec

(* The variables of the process keep their types. *)
THEOREM LifecycleTypeCorrect == LifecycleSpec => []LifecycleTypeOK
<1>1. LifecycleInv => LifecycleTypeOK
  BY DEF LifecycleInv
<1> QED
  BY <1>1, LifecycleInvariance, PTL

(* No handler meets a closed connection, but for a signal handled before   *)
(* app.Listen and a failed app.Shutdown.                                   *)
THEOREM LifecycleHandlersKeepConnections ==
  LifecycleSpec => []HandlersKeepConnections
<1>1. LifecycleInv => HandlersKeepConnections
  BY DEF LifecycleInv, LifecycleTypeOK, ClosedInOrder, ListeningInOrder,
         ShutdownInOrder, Past, HandlersKeepConnections
<1> QED
  BY <1>1, LifecycleInvariance, PTL

(* A normal exit follows a signal, with every connection closed and no     *)
(* handler cut off.                                                        *)
THEOREM LifecycleCleanExit == LifecycleSpec => []CleanExit
<1>1. LifecycleInv => CleanExit
  BY DEF LifecycleInv, LifecycleTypeOK, ClosedInOrder, ListeningInOrder,
         ShutdownInOrder, Past, CleanExit
<1> QED
  BY <1>1, LifecycleInvariance, PTL

-----------------------------------------------------------------------------
(* What is started before what: the configuration is validated before the  *)
(* first connection, both connections are there before the server listens, *)
(* and the signal goroutine runs from then on.                             *)
StartedInOrder ==
  /\ main \notin {"load", "validate"} => ValidateConfig(cfg)
  /\ db = "absent" <=> main \in {"load", "validate", "database"}
  /\ rds = "absent" <=> main \in {"load", "validate", "database", "redis"}
  /\ store = "absent" <=> rds = "absent"
  /\ signaller = "none" <=> main \notin {"listen", "serving", "waiting"}
  /\ server = "stopped" =>
       ~Past({"none", "starting", "waiting", "shutdown"})
  /\ signaller = "done" => idleConnsClosed

(* Nothing has been started yet. *)
LEMMA StartedInOrderInit == LifecycleInit => StartedInOrder
BY DEF LifecycleInit, StartedInOrder, Past

(* The main goroutine starts things in that order. *)
LEMMA MainStartsInOrder ==
  ASSUME LifecycleInv, StartedInOrder, MainStep \/ ListenBreaks
  PROVE  StartedInOrder'
<1> USE DEF Past, Advance, StartedInOrder
<1>1. CASE LoadConfig \/ ConfigValid
  BY <1>1 DEF LoadConfig, ConfigValid
<1>2. CASE InitDB \/ ConnectRedis
  BY <1>2 DEF InitDB, ConnectRedis, ValidateConfig
<1>3. CASE Wire \/ Listen \/ ListenFails \/ ListenReturns \/ ListenBreaks
  BY <1>3
  DEF Wire, Listen, ListenFails, ListenReturns, ListenBreaks, ValidateConfig,
      LifecycleInv, ListeningInOrder
<1>4. CASE LoadConfigPanics \/ ConfigInvalid \/ InitDBFails
           \/ ConnectRedisPanics \/ MainEnds
  BY <1>4
  DEF LoadConfigPanics, ConfigInvalid, InitDBFails, ConnectRedisPanics,
      MainEnds, End, ValidateConfig
<1> QED
  BY <1>1, <1>2, <1>3, <1>4 DEF MainStep

(* The signal goroutine closes only what has been opened. *)
LEMMA SignallerStartsNothing ==
  ASSUME LifecycleInv, StartedInOrder, SignallerStep
  PROVE  StartedInOrder'
<1> USE DEF Past, Proceed, StartedInOrder
<1>1. UNCHANGED <<main, cfg>>
  BY DEF SignallerStep, Notify, ReceiveSignal, Shutdown, ShutdownReturns,
         ShutdownMisses, ShutdownFails, CloseDB, CloseRedis, CloseStore, CloseIdle
<1>2. ValidateConfig(cfg)' <=> ValidateConfig(cfg)
  BY <1>1 DEF ValidateConfig
<1>3. CASE Notify \/ ReceiveSignal \/ Shutdown \/ ShutdownReturns
           \/ ShutdownMisses \/ ShutdownFails
  BY <1>1, <1>2, <1>3
  DEF Notify, ReceiveSignal, Shutdown, ShutdownReturns, ShutdownMisses, ShutdownFails
<1>4. CASE CloseDB \/ CloseRedis \/ CloseStore \/ CloseIdle
  BY <1>1, <1>2, <1>4 DEF CloseDB, CloseRedis, CloseStore, CloseIdle
<1> QED
  BY <1>3, <1>4 DEF SignallerStep

(* Signals, requests and the warm-up start and stop nothing of it. *)
LEMMA StartedInOrderStep ==
  LifecycleInv /\ StartedInOrder /\ [LifecycleNext]_lifecycleVars
    => StartedInOrder'
<1> SUFFICES ASSUME LifecycleInv, StartedInOrder, [LifecycleNext]_lifecycleVars
             PROVE  StartedInOrder'
  OBVIOUS
<1>1. CASE UNCHANGED <<cfg, main, signaller, server, db, rds, store, idleConnsClosed>>
  BY <1>1 DEF StartedInOrder, Past, ValidateConfig
<1>2. SignalKills \/ Signal \/ WarmupEnds
        => UNCHANGED <<cfg, main, signaller, server, db, rds, store, idleConnsClosed>>
  BY DEF SignalKills, End, Signal, WarmupEnds
<1>3. ASSUME NEW h \in Handler, Accept(h) \/ HandlerEnds(h) \/ HandlerPanics(h)
      PROVE  UNCHANGED <<cfg, main, signaller, server, db, rds, store, idleConnsClosed>>
  BY <1>3 DEF Accept, HandlerEnds, HandlerPanics, Turn, End
<1>4. UNCHANGED lifecycleVars
        => UNCHANGED <<cfg, main, signaller, server, db, rds, store, idleConnsClosed>>
  BY DEF lifecycleVars
<1> QED
  BY <1>1, <1>2, <1>3, <1>4, MainStartsInOrder, SignallerStartsNothing
  DEF LifecycleNext

(* The order of the start holds with LifecycleInv throughout. *)
LEMMA StartedInOrderInvariance == LifecycleSpec => [](LifecycleInv /\ StartedInOrder)
BY LifecycleInvInit, LifecycleInvStep, StartedInOrderInit, StartedInOrderStep, PTL
DEF LifecycleSpec

(* A handler runs only with a Config that carries every required field and *)
(* with its three connections opened before (main.go 51-96).               *)
ReadyToServe ==
  Serving => "absent" \notin {db, rds, store} /\ ValidateConfig(cfg)

(* Requests meet a service that is configured and connected, however the   *)
(* start interleaves with signals (main.go 51-96).                         *)
THEOREM LifecycleReadyToServe == LifecycleSpec => []ReadyToServe
<1>1. LifecycleInv /\ StartedInOrder => ReadyToServe
  BY DEF LifecycleInv, ListeningInOrder, StartedInOrder, ReadyToServe
<1> QED
  BY <1>1, StartedInOrderInvariance, PTL

-----------------------------------------------------------------------------
(* How far each of the two goroutines is from its last state. *)
MainLeft ==
  CASE main = "load"     -> 7
    [] main = "validate" -> 6
    [] main = "database" -> 5
    [] main = "redis"    -> 4
    [] main = "wire"     -> 3
    [] main = "listen"   -> 2
    [] main = "serving"  -> 1
    [] main = "waiting"  -> 0

SignallerLeft ==
  CASE signaller = "none"       -> 9
    [] signaller = "starting"   -> 8
    [] signaller = "waiting"    -> 7
    [] signaller = "shutdown"   -> 6
    [] signaller = "draining"   -> 5
    [] signaller = "closeDB"    -> 4
    [] signaller = "closeRedis" -> 3
    [] signaller = "closeStore" -> 2
    [] signaller = "closeIdle"  -> 1
    [] signaller = "done"       -> 0

ExitLeft == IF exit = "none" THEN 1 ELSE 0

ProcessWork == MainLeft + SignallerLeft + ExitLeft

(* Each step of the two goroutines leaves less to do; signals, requests    *)
(* and the warm-up leave no more than there was.                           *)
ProcessAdvances ==
  /\ MainStep \/ ListenBreaks \/ SignallerStep => ProcessWork' < ProcessWork
  /\ ProcessWork' <= ProcessWork

(* A sum falls with one of its terms. *)
LEMMA LessOfThree ==
  ASSUME NEW a \in Nat, NEW b \in Nat, NEW c \in Nat,
         NEW d \in Nat, NEW e \in Nat, NEW f \in Nat,
         \/ d < a /\ e = b /\ f = c
         \/ d = a /\ e < b /\ f = c
         \/ d = a /\ e = b /\ f < c
  PROVE  d + e + f < a + b + c
OBVIOUS

(* What is left is a number, at most 7 + 9 + 1. *)
LEMMA ProcessWorkType == LifecycleTypeOK => ProcessWork \in 0..17
<1> SUFFICES ASSUME LifecycleTypeOK PROVE ProcessWork \in 0..17
  OBVIOUS
<1>1. MainLeft \in 0..7
  BY DEF LifecycleTypeOK, MainState, MainLeft
<1>2. SignallerLeft \in 0..9
  BY DEF LifecycleTypeOK, SignallerState, SignallerLeft
<1> QED
  BY <1>1, <1>2 DEF ProcessWork, ExitLeft

(* The main goroutine moves on or ends the process. *)
LEMMA MainStepAdvances ==
  ASSUME LifecycleInv, MainStep \/ ListenBreaks
  PROVE  ProcessWork' < ProcessWork
<1>1. SignallerLeft \in Nat
  BY DEF LifecycleInv, LifecycleTypeOK, SignallerState, SignallerLeft
<1>2. CASE Wire
  BY <1>2, SMTT(30) DEF Wire, Advance, LifecycleInv, ListeningInOrder,
     ProcessWork, MainLeft, SignallerLeft, ExitLeft
<1>3. ASSUME UNCHANGED <<signaller, exit>>,
             \/ main = "load" /\ main' = "validate"
             \/ main = "validate" /\ main' = "database"
             \/ main = "database" /\ main' = "redis"
             \/ main = "redis" /\ main' = "wire"
             \/ main = "listen" /\ main' \in {"serving", "waiting"}
             \/ main = "serving" /\ main' = "waiting"
      PROVE  ProcessWork' < ProcessWork
  <2>1. SignallerLeft' = SignallerLeft
    BY <1>3 DEF SignallerLeft
  <2>2. MainLeft \in Nat /\ MainLeft' \in Nat /\ MainLeft' < MainLeft
    BY <1>3 DEF MainLeft
  <2>3. ExitLeft \in Nat /\ ExitLeft' = ExitLeft
    BY <1>3 DEF ExitLeft
  <2> QED
    BY <1>1, <2>1, <2>2, <2>3, LessOfThree DEF ProcessWork
<1>4. ASSUME exit = "none", exit' # "none", UNCHANGED <<main, signaller>>
      PROVE  ProcessWork' < ProcessWork
  <2>1. MainLeft \in Nat /\ MainLeft' = MainLeft
    BY <1>4 DEF MainLeft, LifecycleInv, LifecycleTypeOK, MainState
  <2>2. SignallerLeft' = SignallerLeft
    BY <1>4 DEF SignallerLeft
  <2>3. ExitLeft = 1 /\ ExitLeft' = 0
    BY <1>4 DEF ExitLeft
  <2> QED
    BY <1>1, <2>1, <2>2, <2>3, LessOfThree DEF ProcessWork
<1>5. CASE LoadConfig \/ ConfigValid \/ InitDB \/ ConnectRedis
           \/ Listen \/ ListenFails \/ ListenReturns \/ ListenBreaks
  BY <1>3, <1>5
  DEF LoadConfig, ConfigValid, InitDB, ConnectRedis, Listen, ListenFails,
      ListenReturns, ListenBreaks, Advance
<1>6. CASE LoadConfigPanics \/ ConfigInvalid \/ InitDBFails
           \/ ConnectRedisPanics \/ MainEnds
  <2>1. exit = "none"
    BY DEF MainStep, ListenBreaks
  <2> QED
    BY <1>4, <1>6, <2>1
    DEF LoadConfigPanics, ConfigInvalid, InitDBFails, ConnectRedisPanics,
        MainEnds, End
<1> QED
  BY <1>2, <1>5, <1>6 DEF MainStep

(* The signal goroutine only moves on. *)
LEMMA SignallerStepAdvances ==
  ASSUME LifecycleInv, SignallerStep
  PROVE  ProcessWork' < ProcessWork
<1>1. UNCHANGED <<main, exit>>
  BY DEF SignallerStep, Proceed, Notify, ReceiveSignal, Shutdown, ShutdownReturns,
         ShutdownMisses, ShutdownFails, CloseDB, CloseRedis, CloseStore, CloseIdle
<1>2. MainLeft \in Nat /\ MainLeft' = MainLeft
  BY <1>1 DEF MainLeft, LifecycleInv, LifecycleTypeOK, MainState
<1>3. SignallerLeft \in Nat /\ SignallerLeft' \in Nat /\ SignallerLeft' < SignallerLeft
  BY DEF SignallerLeft, SignallerStep, Proceed, Notify, ReceiveSignal, Shutdown,
         ShutdownReturns, ShutdownMisses, ShutdownFails, CloseDB, CloseRedis,
         CloseStore, CloseIdle
<1>4. ExitLeft \in Nat /\ ExitLeft' = ExitLeft
  BY <1>1 DEF ExitLeft
<1> QED
  BY <1>2, <1>3, <1>4, LessOfThree DEF ProcessWork

(* All the others leave both goroutines where they are. *)
LEMMA OthersAdvanceNothing ==
  ASSUME LifecycleInv,
         \/ SignalKills \/ Signal \/ WarmupEnds \/ UNCHANGED lifecycleVars
         \/ \E h \in Handler : Accept(h) \/ HandlerEnds(h) \/ HandlerPanics(h)
  PROVE  ProcessWork' = ProcessWork \/ ProcessWork' < ProcessWork
<1>1. UNCHANGED <<main, signaller>> /\ (exit' = exit \/ exit' # "none")
  BY DEF SignalKills, Signal, WarmupEnds, lifecycleVars, Accept, HandlerEnds,
         HandlerPanics, Turn, End
<1>2. MainLeft \in Nat /\ MainLeft' = MainLeft
  BY <1>1 DEF MainLeft, LifecycleInv, LifecycleTypeOK, MainState
<1>3. SignallerLeft \in Nat /\ SignallerLeft' = SignallerLeft
  BY <1>1 DEF SignallerLeft, LifecycleInv, LifecycleTypeOK, SignallerState
<1>4. /\ ExitLeft \in Nat /\ ExitLeft' \in Nat
      /\ ExitLeft' = ExitLeft \/ ExitLeft' < ExitLeft
  BY <1>1 DEF ExitLeft
<1>5. CASE ExitLeft' = ExitLeft
  BY <1>2, <1>3, <1>4, <1>5 DEF ProcessWork
<1>6. CASE ExitLeft' < ExitLeft
  BY <1>2, <1>3, <1>4, <1>6, LessOfThree DEF ProcessWork
<1> QED
  BY <1>4, <1>5, <1>6

(* The two goroutines take at most 17 steps together, however many signals *)
(* and requests come: nothing in the start-up or the shutdown repeats.     *)
THEOREM LifecycleEnds ==
  LifecycleSpec =>
    /\ [](ProcessWork \in 0..17)
    /\ [][ProcessAdvances]_lifecycleVars
<1>1. LifecycleInv => ProcessWork \in 0..17
  BY ProcessWorkType DEF LifecycleInv
<1>2. LifecycleInv /\ (ProcessWork \in 0..17) /\ (ProcessWork \in 0..17)'
        /\ [LifecycleNext]_lifecycleVars => ProcessAdvances
  <2> SUFFICES ASSUME LifecycleInv, ProcessWork \in 0..17, ProcessWork' \in 0..17,
                      [LifecycleNext]_lifecycleVars
               PROVE  ProcessAdvances
    OBVIOUS
  <2>1. \A x, y \in 0..17 : x = y \/ x < y => x <= y
    OBVIOUS
  <2>2. MainStep \/ ListenBreaks \/ SignallerStep => ProcessWork' < ProcessWork
    BY MainStepAdvances, SignallerStepAdvances
  <2>3. ~(MainStep \/ ListenBreaks \/ SignallerStep) => ProcessWork' = ProcessWork \/ ProcessWork' < ProcessWork
    BY OthersAdvanceNothing DEF LifecycleNext
  <2> QED
    BY <2>1, <2>2, <2>3 DEF ProcessAdvances
<1> QED
  BY <1>1, <1>2, LifecycleInvariance, PTL DEF LifecycleSpec

(* Where each goroutine can stand without a step to take. *)
MainBlocked ==
  \/ main = "serving" /\ server # "stopped"
  \/ main = "waiting" /\ ~idleConnsClosed
SignallerBlocked ==
  \/ signaller \in {"none", "done"}
  \/ signaller = "waiting" /\ pending = 0
  \/ signaller = "shutdown" /\ server = "stopped"
  \/ signaller = "draining" /\ Serving

(* The process holds still for three reasons only: no signal has come, a   *)
(* handler that app.Shutdown waits for has not ended, or app.Shutdown left *)
(* the server listening -- it failed, or found no listener -- and nobody   *)
(* reads the next signal.                                                  *)
StandsStillFor ==
  exit = "none" /\ MainBlocked /\ SignallerBlocked =>
    \/ signaller = "waiting" /\ pending = 0
    \/ signaller = "draining" /\ Serving
    \/ /\ signaller = "done" /\ main = "serving" /\ server = "listening"
       /\ shutdown \in {"missed", "failed"}

(* There is no fourth reason: neither goroutine waits for the other in a   *)
(* circle (main.go 182-211).                                               *)
THEOREM LifecycleNeverStuck == LifecycleSpec => []StandsStillFor
<1>1. LifecycleInv /\ StartedInOrder => StandsStillFor
  BY DEF LifecycleInv, LifecycleTypeOK, ClosedInOrder, ListeningInOrder,
         ShutdownInOrder, StartedInOrder, Past, MainBlocked, SignallerBlocked,
         StandsStillFor
<1> QED
  BY <1>1, StartedInOrderInvariance, PTL
=============================================================================
