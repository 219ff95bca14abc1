------------------------------ MODULE Lifecycle ------------------------------
(***************************************************************************)
(* cmd/main.go: the process from its configuration to its exit.  The main  *)
(* goroutine starts up and listens; a second goroutine waits for a signal, *)
(* shuts the server down and closes the connections.  Handlers run in      *)
(* between on goroutines of the server.                                    *)
(***************************************************************************)
EXTENDS Configuration

CONSTANTS
  Handler,     \* requests that may be served at the same time
  ReqTimeout,  \* the field GEOAPIFY_REQ_TIMEOUT
  Port,        \* the field SERVER_PORT
  Listenable   \* texts of Port the system can listen on

ASSUME LifecycleAssumption ==
  /\ ReqTimeout \in IntField
  /\ Port \in Field \ IntField
  /\ Listenable \subseteq Text

VARIABLES
  cfg,        \* the Config structure
  main,       \* control state of the main goroutine
  signaller,  \* control state of the signal goroutine
  pending,    \* signals in the channel sigint
  server,     \* the fasthttp server: "new", "listening", "deaf" or "stopped"
  db,         \* the Postgres pool
  rds,        \* the Redis client of the tag cache
  store,      \* the Redis storage of the limiters
  idleConnsClosed,
  warmup,     \* the goroutine that warms the model up
  handler,    \* handler[h]: "idle" or "running"
  exit,       \* how the process has ended, "none" while it runs
  signalAt,   \* ghost: main's state when the first signal was delivered
  shutdown    \* ghost: what app.Shutdown did

lifecycleVars ==
  <<cfg, main, signaller, pending, server, db, rds, store, idleConnsClosed,
    warmup, handler, exit, signalAt, shutdown>>

MainState ==
  {"load", "validate", "database", "redis", "wire", "listen", "serving", "waiting"}
SignallerState ==
  {"none", "starting", "waiting", "shutdown", "draining",
   "closeDB", "closeRedis", "closeStore", "closeIdle", "done"}
Connection == {"absent", "open", "closed"}

LifecycleTypeOK ==
  /\ WellTyped(cfg)
  /\ main \in MainState
  /\ signaller \in SignallerState
  /\ pending \in 0..1
  /\ server \in {"new", "listening", "deaf", "stopped"}
  /\ db \in Connection /\ rds \in Connection /\ store \in Connection
  /\ idleConnsClosed \in BOOLEAN
  /\ warmup \in {"none", "running", "done"}
  /\ handler \in [Handler -> {"idle", "running"}]
  /\ exit \in {"none", "ok", "error", "panic", "killed"}
  /\ signalAt \in MainState \cup {"never"}
  /\ shutdown \in {"none", "drained", "missed", "failed"}

LifecycleInit ==
  /\ cfg = [f \in Field |-> ZeroValue(f)]
  /\ main = "load"
  /\ signaller = "none"
  /\ pending = 0
  /\ server = "new"
  /\ db = "absent" /\ rds = "absent" /\ store = "absent"
  /\ idleConnsClosed = FALSE
  /\ warmup = "none"
  /\ handler = [h \in Handler |-> "idle"]
  /\ exit = "none"
  /\ signalAt = "never"
  /\ shutdown = "none"

Serving == \E h \in Handler : handler[h] = "running"

-----------------------------------------------------------------------------
(* The main goroutine. *)

End(code) ==
  /\ exit' = code
  /\ UNCHANGED <<cfg, main, signaller, pending, server, db, rds, store,
                 idleConnsClosed, warmup, handler, signalAt, shutdown>>

(* main moves on and changes nothing else than what the caller says. *)
Advance(from, to) ==
  /\ main = from
  /\ main' = to
  /\ UNCHANGED <<pending, idleConnsClosed, handler, exit, signalAt, shutdown>>

LoadConfig ==
  \E env \in Environment :
    /\ ~mapEnvFails(env)
    /\ Advance("load", "validate")
    /\ cfg' = mapEnvToStruct(env)
    /\ UNCHANGED <<signaller, server, db, rds, store, warmup>>

LoadConfigPanics ==
  /\ main = "load"
  /\ \E env \in Environment : mapEnvFails(env)
  /\ End("panic")

ConfigValid ==
  /\ ValidateConfig(cfg)
  /\ Advance("validate", "database")
  /\ UNCHANGED <<cfg, signaller, server, db, rds, store, warmup>>

ConfigInvalid ==
  /\ main = "validate"
  /\ ~ValidateConfig(cfg)
  /\ End("error")

InitDB ==
  /\ Advance("database", "redis")
  /\ db' = "open"
  /\ UNCHANGED <<cfg, signaller, server, rds, store, warmup>>

(* Opening the database or migrating its tables failed. *)
InitDBFails ==
  /\ main = "database"
  /\ End("error")

ConnectRedis ==
  /\ Advance("redis", "wire")
  /\ rds' = "open" /\ store' = "open"
  /\ UNCHANGED <<cfg, signaller, server, db, warmup>>

(* fiberRedis.New pings the server and panics if it does not answer. *)
ConnectRedisPanics ==
  /\ main = "redis"
  /\ End("panic")

(* Mutant of Wire: the signal is awaited on the main goroutine. *)
WireWaits ==
  \/ /\ signaller = "none"
     /\ Advance("wire", "wire")
     /\ warmup' = "running"
     /\ signaller' = "starting"
     /\ UNCHANGED <<cfg, server, db, rds, store>>
  \/ /\ signaller = "done"
     /\ Advance("wire", "listen")
     /\ UNCHANGED <<cfg, signaller, server, db, rds, store, warmup>>

(* Services, handlers, middleware and routes; `go` starts the goroutine    *)
(* that warms the model up and the one that waits for a signal.            *)
Wire ==
  /\ Advance("wire", "listen")
  /\ warmup' = "running"
  /\ signaller' = "starting"
  /\ UNCHANGED <<cfg, server, db, rds, store>>

Listen ==
  /\ cfg[Port] \in Listenable
  /\ Advance("listen", "serving")
  /\ server' = "listening"
  /\ UNCHANGED <<cfg, signaller, db, rds, store, warmup>>

(* The port cannot be bound: the error is logged and main goes on to wait. *)
ListenFails ==
  /\ Advance("listen", "waiting")
  /\ UNCHANGED <<cfg, signaller, server, db, rds, store, warmup>>

(* app.Listen returns once its listener has been closed. *)
ListenReturns ==
  /\ server = "stopped"
  /\ Advance("serving", "waiting")
  /\ UNCHANGED <<cfg, signaller, server, db, rds, store, warmup>>

(* Accept fails for good: app.Listen returns although nobody has shut the  *)
(* server down.  The error is logged and main waits; connections that are  *)
(* open are served on.                                                     *)
ListenBreaks ==
  /\ exit = "none"
  /\ server = "listening"
  /\ Advance("serving", "waiting")
  /\ server' = "deaf"
  /\ UNCHANGED <<cfg, signaller, db, rds, store, warmup>>

(* Mutant of MainEnds: main does not wait for idleConnsClosed. *)
MainEndsAtOnce ==
  /\ main = "waiting"
  /\ End("ok")

MainEnds ==
  /\ main = "waiting"
  /\ idleConnsClosed
  /\ End("ok")

MainStep ==
  /\ exit = "none"
  /\ \/ LoadConfig \/ LoadConfigPanics
     \/ ConfigValid \/ ConfigInvalid
     \/ InitDB \/ InitDBFails
     \/ ConnectRedis \/ ConnectRedisPanics
     \/ Wire
     \/ Listen \/ ListenFails \/ ListenReturns
     \/ MainEnds

-----------------------------------------------------------------------------
(* The signal goroutine. *)

Proceed(from, to) ==
  /\ signaller = from
  /\ signaller' = to
  /\ UNCHANGED <<cfg, main, warmup, handler, exit, signalAt>>

(* signal.Notify: before it a signal has its default effect. *)
Notify ==
  /\ Proceed("starting", "waiting")
  /\ UNCHANGED <<pending, server, db, rds, store, idleConnsClosed, shutdown>>

ReceiveSignal ==
  /\ pending > 0
  /\ Proceed("waiting", "shutdown")
  /\ pending' = pending - 1
  /\ UNCHANGED <<server, db, rds, store, idleConnsClosed, shutdown>>

(* app.Shutdown closes the listener ... *)
Shutdown ==
  /\ server \in {"listening", "deaf"}
  /\ Proceed("shutdown", "draining")
  /\ server' = "stopped"
  /\ UNCHANGED <<pending, db, rds, store, idleConnsClosed, shutdown>>

(* Mutant of ShutdownReturns: the connections are closed without waiting   *)
(* for the handlers.                                                       *)
ShutdownReturnsEarly ==
  /\ Proceed("draining", "closeDB")
  /\ shutdown' = "drained"
  /\ UNCHANGED <<pending, server, db, rds, store, idleConnsClosed>>

(* ... and waits until no connection is active any more. *)
ShutdownReturns ==
  /\ ~Serving
  /\ Proceed("draining", "closeDB")
  /\ shutdown' = "drained"
  /\ UNCHANGED <<pending, server, db, rds, store, idleConnsClosed>>

(* With no listener registered yet, or none any more, app.Shutdown has     *)
(* nothing to close: it returns nil, and a later Listen is not prevented.  *)
ShutdownMisses ==
  /\ server = "new"
  /\ Proceed("shutdown", "closeDB")
  /\ shutdown' = "missed"
  /\ UNCHANGED <<pending, server, db, rds, store, idleConnsClosed>>

(* The listener could not be closed: the error is logged, nothing more. *)
ShutdownFails ==
  /\ server \in {"listening", "deaf"}
  /\ Proceed("shutdown", "closeDB")
  /\ shutdown' = "failed"
  /\ UNCHANGED <<pending, server, db, rds, store, idleConnsClosed>>

(* gormDB.DB() cannot fail for the pool that InitDB opened. *)
CloseDB ==
  /\ Proceed("closeDB", "closeRedis")
  /\ db' = "closed"
  /\ UNCHANGED <<pending, server, rds, store, idleConnsClosed, shutdown>>

CloseRedis ==
  /\ Proceed("closeRedis", "closeStore")
  /\ rds' = "closed"
  /\ UNCHANGED <<pending, server, db, store, idleConnsClosed, shutdown>>

CloseStore ==
  /\ Proceed("closeStore", "closeIdle")
  /\ store' = "closed"
  /\ UNCHANGED <<pending, server, db, rds, idleConnsClosed, shutdown>>

(* Mutant of CloseIdle: the channel is never closed. *)
CloseIdleNot ==
  /\ Proceed("closeIdle", "done")
  /\ UNCHANGED <<pending, server, db, rds, store, idleConnsClosed, shutdown>>

CloseIdle ==
  /\ Proceed("closeIdle", "done")
  /\ idleConnsClosed' = TRUE
  /\ UNCHANGED <<pending, server, db, rds, store, shutdown>>

SignallerStep ==
  /\ exit = "none"
  /\ \/ Notify \/ ReceiveSignal
     \/ Shutdown \/ ShutdownReturns \/ ShutdownMisses \/ ShutdownFails
     \/ CloseDB \/ CloseRedis \/ CloseStore \/ CloseIdle

-----------------------------------------------------------------------------
(* Everything else. *)

(* SIGINT or SIGTERM before Notify ends the process. *)
SignalKills ==
  /\ exit = "none"
  /\ signaller \in {"none", "starting"}
  /\ End("killed")

(* Mutant of Signal: an unbounded channel. *)
SignalUnbounded ==
  /\ exit = "none"
  /\ signaller \notin {"none", "starting"}
  /\ pending' = pending + 1
  /\ signalAt' = IF signalAt = "never" THEN main ELSE signalAt
  /\ UNCHANGED <<cfg, main, signaller, server, db, rds, store, idleConnsClosed,
                 warmup, handler, exit, shutdown>>

(* The channel has room for one signal; Notify drops what does not fit.    *)
Signal ==
  /\ exit = "none"
  /\ signaller \notin {"none", "starting"}
  /\ pending' = 1
  /\ signalAt' = IF signalAt = "never" THEN main ELSE signalAt
  /\ UNCHANGED <<cfg, main, signaller, server, db, rds, store, idleConnsClosed,
                 warmup, handler, exit, shutdown>>

(* LLMService.Warmup returns, after its 30 seconds at the latest; the      *)
(* outcome is only logged.                                                 *)
WarmupEnds ==
  /\ exit = "none"
  /\ warmup = "running"
  /\ warmup' = "done"
  /\ UNCHANGED <<cfg, main, signaller, pending, server, db, rds, store,
                 idleConnsClosed, handler, exit, signalAt, shutdown>>

Turn(h, from, to) ==
  /\ exit = "none"
  /\ handler[h] = from
  /\ handler' = [handler EXCEPT ![h] = to]
  /\ UNCHANGED <<cfg, main, signaller, pending, server, db, rds, store,
                 idleConnsClosed, warmup, exit, signalAt, shutdown>>

(* A request on a new connection or on one that was kept alive. *)
Accept(h) == server \in {"listening", "deaf"} /\ Turn(h, "idle", "running")

HandlerEnds(h) == Turn(h, "running", "idle")

(* A panic in a handler: no recover middleware is installed.  Module       *)
(* RouteBuilding shows one (LegPanics).                                    *)
HandlerPanics(h) ==
  /\ exit = "none"
  /\ handler[h] = "running"
  /\ End("panic")

LifecycleNext ==
  \/ MainStep \/ ListenBreaks
  \/ SignallerStep
  \/ SignalKills \/ Signal
  \/ WarmupEnds
  \/ \E h \in Handler : Accept(h) \/ HandlerEnds(h) \/ HandlerPanics(h)

LifecycleSpec == LifecycleInit /\ [][LifecycleNext]_lifecycleVars

(* Both goroutines run; the warm-up has a timeout.  A handler ends only if *)
(* each call it waits for does: fiber's agent applies no timeout unless it *)
(* is positive, and the database has to answer.  Nothing makes Accept      *)
(* fail.                                                                   *)
LifecycleFairness ==
  /\ WF_lifecycleVars(MainStep)
  /\ WF_lifecycleVars(SignallerStep)
  /\ WF_lifecycleVars(WarmupEnds)
  /\ \A h \in Handler : WF_lifecycleVars(cfg[ReqTimeout] > 0 /\ HandlerEnds(h))

FairLifecycleSpec == LifecycleSpec /\ LifecycleFairness
-----------------------------------------------------------------------------
(* A handler never meets a closed connection, whenever the signal comes    *)
(* (main.go 182-200).  The exceptions are a signal handled before app.     *)
(* Listen, after which the server listens with its connections closed, and *)
(* a failed app.Shutdown.                                                  *)
HandlersKeepConnections ==
  Serving /\ "closed" \in {db, rds, store} =>
    shutdown = "failed" \/ (shutdown = "missed" /\ signalAt = "listen")

(* The process ends normally only after a signal, with every connection    *)
(* closed and no handler cut off (main.go 202-211).  A handler is cut off  *)
(* after a failed app.Shutdown, or where one that came before app.Listen   *)
(* found no listener and Accept failed later.                              *)
CleanExit ==
  exit = "ok" =>
    /\ signalAt # "never"
    /\ {db, rds, store} = {"closed"}
    /\ Serving => shutdown = "failed" \/ (shutdown = "missed" /\ server = "deaf")

(* A signal that finds the server listening, or main waiting because       *)
(* Listen failed or broke off, ends the process: requests in flight do not *)
(* hold it for ever, as long as GEOAPIFY_REQ_TIMEOUT is positive.          *)
SignalEndsProcess ==
  signalAt \in {"serving", "waiting"} /\ cfg[ReqTimeout] > 0
    ~> exit # "none" \/ shutdown = "failed"

(* The service comes up, or fails to, without a signal: the goroutine that *)
(* waits for one does not hold main up (main.go 178-200).                  *)
StartupEnds == <>(main \in {"serving", "waiting"} \/ exit # "none")

Past(state) == signaller \in state

(* How far the signal goroutine is decides which connections are closed.   *)
ClosedInOrder ==
  /\ idleConnsClosed => signaller = "done"
  /\ db = "closed" <=> Past({"closeRedis", "closeStore", "closeIdle", "done"})
  /\ rds = "closed" <=> Past({"closeStore", "closeIdle", "done"})
  /\ store = "closed" <=> Past({"closeIdle", "done"})
  /\ shutdown = "none" <=>
       Past({"none", "starting", "waiting", "shutdown", "draining"})

(* main and the server it listens with. *)
ListeningInOrder ==
  /\ main \notin {"listen", "serving", "waiting"} => signaller = "none"
  /\ server # "new" => main \in {"serving", "waiting"}
  /\ main = "serving" => server # "new"
  /\ main = "waiting" => server # "listening"
  /\ server = "deaf" => main = "waiting"
  /\ Serving => server # "new"
  /\ exit = "ok" => main = "waiting" /\ idleConnsClosed

(* What app.Shutdown found depends on when the signal came. *)
ShutdownInOrder ==
  /\ pending > 0 \/ ~Past({"none", "starting", "waiting"}) => signalAt # "never"
  /\ signalAt \in {"never", "listen", "serving", "waiting"}
  /\ signalAt = "serving" => server # "new"
  /\ signalAt = "waiting" => main = "waiting"
  /\ signaller = "draining" => server = "stopped"
  /\ shutdown = "drained" => server = "stopped" /\ ~Serving
  /\ shutdown = "missed" => server # "stopped" /\ signalAt # "serving"
  /\ shutdown = "missed" /\ signalAt = "waiting" => server = "new"

(* The conjunction that every step preserves. *)
LifecycleInv ==
  /\ LifecycleTypeOK
  /\ ClosedInOrder
  /\ ListeningInOrder
  /\ ShutdownInOrder
=============================================================================
