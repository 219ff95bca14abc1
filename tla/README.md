# Route planner: verification project

TLA+ specifications of the route planner in `src/` (a Go service behind a small
web page), the TLC runs that check them on small instances, and the theorems
that TLAPS proves about them for every value of their constants. File paths
below are relative to `src/`.

## 1. The system

A user describes a walk in words. `POST /routes/analyze` cuts the text into
segments and asks a language model (Ollama) for the tags of each one. The page
lets the user edit the tags and sends them to `POST /routes/build`, which picks
one place per tag array from PostGIS and asks Geoapify for the walking legs
between them. Registered users add places.

### Components, their state and their operations

| Component | State | Operations | Interacts with |
|---|---|---|---|
| llm (`internal/llm/ollama_tag_extractor.go`) | per call: `results`, `errs`, semaphore, WaitGroup | `ExtractTags`, `ExtractMultiTags`, `Warmup` | Ollama over HTTP, one goroutine per segment |
| travelroutes, analyze (`internal/travelroutes/service.go`, `handler.go`) | none between requests | `AnalyzeRequest`, `splitSegments` | allowed tags, llm |
| travelroutes, allowed tags (`service.go`, `internal/cache/redis.go`) | Redis key `allowed_tags` with a time to live | `GetAllowedTags`, `Get`, `Set` | Redis, place repository |
| travelroutes, build (`service.go`, `handler.go`, `geoapify_client.go`) | per call: picked places, search centre, legs; a call counter | `BuildRouteFromTags`, `BuildRoute` | place repository, Geoapify |
| travelroutes and places, limiters (`internal/travelroutes/routes.go`, `internal/places/routes.go`) | counters in Redis | fixed and sliding windows | Fiber middleware, in front of the handlers |
| repository (`internal/repository`) | tables `users`, `places`, soft-deleted | create, read, update, delete, tag queries | Postgres |
| users (`internal/users`) | rows of `users` | register, login, create, read, update, delete | repository, auth |
| auth (`internal/auth`) | none: a token is signed, not recorded | `GenerateToken`, `ParseToken`, middleware | users, places |
| places (`internal/places`) | rows of `places` | create, read, update, delete | repository, auth |
| models, validation, errors | none | column and field rules, statuses | every handler |
| configs (`internal/configs/config.go`) | the configuration | environment to structure, validation | `cmd/main.go` |
| life cycle (`cmd/main.go`, `internal/router`, `pkg/db`) | connections, signal goroutine | start, listen, shut down | everything |
| web client (`public/app.js`, `styles.css`) | the page's step, its visible panels, timers, requests in flight, routes drawn | two requests with an editor between them | the HTTP API |

`GetByTags` of the service and of the repository is not reached by any handler.
Mocks, tests, Docker and monitoring files hold no state of the program.

### What is hard here

* `ExtractMultiTags` reads the error slots *before* it waits for the goroutines
  that write them. An error stored late is lost. Goroutines outlive the call on
  the error path.
* The tag list is cached without invalidation, and a slow request may write an
  older list over a newer one.
* The search of a route takes one query per tag array while places come and go.
  A tag array whose candidates are all used is passed over silently, but moves
  the search centre.
* A route is paid for leg by leg, and any leg may fail.
* Tokens are not recorded, rows are soft-deleted, and login takes several
  steps: an account may vanish between any two of them.
* Connections are closed by a signal goroutine while the main goroutine starts
  or stops to listen.
* The limiters keep their counters in Redis, where they outlive their windows;
  a limiter that cannot reach them lets requests through.
* Answers reach the web page after the user has moved on, and its timers change
  it half a second late.

`PROJECT.json` lists these hazards one by one, each at its line with the
properties that cover it, or the reason why none does.

### What makes each component correct

* llm: never more requests than slots; the call returns; no goroutine leaks;
  returned results do not change; few errors can be lost, and none is invented.
* analyze: the status tells the truth about the extraction behind it.
* allowed tags: never a tag no row has; a miss sees what was there when it
  began; a stale list does not stay.
* build: an ordered path without repetition, every array served, bounded steps,
  bounded cost, always an end.
* limiters: no refusal without cause, no double burst, no client that spends the
  budget of all, no client locked out for good.
* users, auth, places: references name rows that exist; an address never
  changes hands; access ends after deletion.
* life cycle: no handler meets a closed connection or is cut off, but in named
  cases; the process starts and ends.
* web client: one route on the map, a location in every request, no page that
  stays busy, no dead end but those with one of two known causes.

## 2. Modules

| Module | Models | Extends |
|---|---|---|
| `TagExtraction` | `ExtractMultiTags` and its goroutines | |
| `RouteAnalysis` | the handler and service of `/routes/analyze`, composed with one `ExtractMultiTags` call | `TagExtraction` |
| `TagCatalogue` | abstract: what `GetAllowedTags` promises, without cache or table | |
| `AllowedTags` | `GetAllowedTags`, the Redis key, row creation and deletion; implements `TagCatalogue` | |
| `RouteBuilding` | the handler and service of `/routes/build`, `FindOptimalPlaces`, the Geoapify client | |
| `Accounts` | users, tokens, places and their owners, over both repositories | |
| `RateLimits` | the three limiters and their entries in Redis | |
| `Configuration` | environment, defaults, validation | |
| `Lifecycle` | `cmd/main.go`: both goroutines, the warm-up, handlers, connections | `Configuration` |
| `WebClient` | the page between its requests, timers included | |
| `*Proofs` | theorems about the module of that name | that module, TLAPS |
| `MCAllowedTags`, `MCRouteBuilding`, `MCLifecycle` | constants of the model-checked instances that are functions | that module |

The other runs give their constants in the `.cfg` file alone. Components meet in
three more places: a limiter's refusal is a 429 that `Accounts` may answer, a
panic that `RouteBuilding` reaches (`LegPanics`) ends the process in
`Lifecycle`, and `WebClient` takes any answer that the analysis and build
handlers may give.

### How they correspond to the code

**TagExtraction.** One action per step another goroutine can see: a turn of the
spawning loop (`Spawn` blocks while the channel is full), the outcome of
`ExtractTags` stored in `results[i]` or `errs[i]`, the two deferred calls in
their order, each turn of the error scan, and `wg.Wait`. The unsynchronised
read of `errs[i]` is a data race; scanning one index per step gives every
outcome a racing read can have (the old value or the new). An answer is any set
of tags or `Nil`, for nothing in the code filters the model's reply. Tag lists
are sets: no property tells order or repetition apart.

**RouteAnalysis.** The handler's states around one extraction. `splitSegments`
leaves any number of segments up to the bound, zero included. `GetAllowedTags`
is one step that succeeds or fails; `AllowedTags` refines what happens inside.

**AllowedTags.** `cache` is the key, `None` when absent. A request goes through
get, query and set as separate steps. Redis failures are misses or a skipped
store, as in the code. `GetAllTags` counts soft-deleted rows because
`Table("places")` carries no model and hence no `deleted_at` filter. `since` and
`missed` are ghosts that remember what a request saw when it began. `Return`
makes the request's slot free, so the run covers any number of requests, two at
a time. A `TagsTTL` of zero or less disables `Expire`: go-redis then sends no
expiry. `versions` is a ghost, every value the query has had; with it the
refinement maps `get`, `query` and `set` to "asked" and a finished request to
"answered" with its list.

**RouteBuilding.** One request, each query and each Geoapify call a step, with
`CreatePlace` and `DeletePlace` by others between any two. `PickPlace` takes any
row that `ORDER BY match_count DESC` may put first, so ties are nondeterministic.
`AllUsed` is the branch in which no candidate is new: nothing is picked, but the
search centre moves. `LegPanics` is the reply `null`, which leaves the map nil.
`LegStep` is what ends a call of Geoapify, `HandlerStep` everything else, for the
two wait for different things. `seg` in a stop is a ghost: the tag array it was
picked for. The distance is any
function with the triangle inequality and zero on the diagonal; metres are
natural numbers, and the radius is a non-negative integer.

**Accounts.** A request takes one step or several (register and login sign the
token after the query; place creation follows the middleware). `token[u]` keeps
the best token issued for a user, since the server records none. Passwords stand
for their hashes. `UpdateUser` and `UpdatePlace` change nothing, as in the code:
`updates` is tested for emptiness before it is filled. A duplicate email is
answered 500, because the repository never returns `ErrConflict`. A token that
cannot be signed is a 500 after the row was written (`TokenNotSigned`). The
`GET` handlers answer from the live rows.

**RateLimits.** Fiber's limiter is not part of the repository; its fixed and
sliding windows are modelled from the way the routes configure them. It counts
under a lock of its own, so each limiter is one step. A build passes the limiter
of the group (`Build`), then waits in `waiting` while others take their turns and
time passes, then passes the daily one (`SpendBudget`), in the order in which the
routes register them. A refused request counts too, and so does a build that
fails in the handler: the daily counter bounds requests, not calls to Geoapify.
A refused build is an `Analyze`, for both leave the same counts. An access to Redis that fails makes the
limiter start from a new entry, or lose what it counted (`faults`). Redis holds
a sliding entry one window longer than its own, and the limiter's clock is up to
a second behind. `reached`, `used`, `carried`, `recent` and `last` are ghosts. The weight of
the previous window is an exact integer division; the library computes it in
floating point, which may differ by one for large counts.

**Configuration and Lifecycle.** `mapEnvToStruct` and `ValidateConfig` are
operators over any set of fields; `Lifecycle` starts from any environment. The
main goroutine and the signal goroutine each take one step per call. A signal
before `signal.Notify` kills the process; after it the channel holds one.
`app.Shutdown` closes the listener, then waits for the handlers; with no
listener registered it has nothing to close (`ShutdownMisses`) and a later
`Listen` is not prevented. `ListenFails` logs and goes on to wait, as the code
does. `ListenBreaks` is an `Accept` that fails for good: `app.Listen` returns
without a shutdown, `main` waits for a signal, and connections that are open are
served on (the server is "deaf"). The warm-up has a timeout of 30 seconds.

**WebClient.** The user presses only what the style sheet lets be pressed
(`EditorVisible` and its siblings, from the classes and the inline `display` that
`app.js` sets). The keyboard, with which a hidden button might still be reached,
is left out. A window that was left keeps `display: flex` until its timer fires;
the style sheet only fades its opacity in that time, so an editor or a results
panel in it can be pressed (`WindowReached`), and pressing sets a second timer.
`timers` is the queue of the timers set, each of 500 ms, in the order in which
they fire: "exit" hides the window, "back" also shows the landing page. Each
fetch is split at its `await`: any number of other handlers run before the
answer comes. A click on the send button can be repeated once a late answer has
enabled it again, so several analyses may be in flight. A drawing that throws
(`buildFailed`) may leave part of a route on the map, which counts as a route;
the editor then stays open.

Definitions marked as mutants in the modules are not part of any specification:
each is a plausible bug that one property is known to notice.

## 3. Runs

| Run | Instance | What it shows |
|---|---|---|
| `route_analysis` | 4 segments, 2 slots, 1 tag | slots, lost errors, frozen results, statuses against the extraction, termination, no leak |
| `allowed_tags` | 2 requests, 3 places with overlapping tags | phantom tags, freshness of a miss, eventual freshness, the refinement of `TagCatalogue` |
| `route_building` | up to 4 tag arrays, 3 places on a line, radius 1 or 2 | order, coverage, leg bound, continuity, cost, termination |
| `accounts` | 2 requests, 2 users, 2 emails, 2 passwords, 1 place | references, unique emails, access ends after deletion |
| `lifecycle` | 2 requests in flight, 3 fields of the configuration | connections under handlers, clean exit, start and end reached, a listener that fails at once or later |
| `rate_limits` | 1 client, 1 user, limits 2, 3 and 1, one fault of Redis | what the windows admit and refuse |
| `web_client` | 3 analyses in flight, 3 timers | late answers, double routes, busy pages, fading windows, dead ends |
| `analysis_blame` | 3 segments, 2 slots | *violated*: a failed extraction is answered 400 |
| `conflict_is_reported` | 1 request, 2 users | *violated*: a duplicate email is answered 500, not 409 |
| `update_takes_effect` | 1 request, 2 users | *violated*: `PATCH` answers 200 and changes nothing |
| `wait_is_enough` | 1 client, limit 1 | *violated*: who waits a window, as told, is refused again |
| `other_words` | 1 analysis | *violated*: a page that asks for other words has no button |

### Bounds

* `RouteAnalysis` needs more segments than slots, so that the loop blocks, and
  at least two slots, so that a slot is free while another goroutine fails. Four
  over two also leaves room for more failures than the bound on lost errors.
  Beyond that segments are interchangeable. The code's capacity is 10; the
  theorems hold for any.
* `RouteBuilding` needs four arrays: two picks, one passed over, and one more
  pick from the moved centre. The line of places has a stop out of reach of the
  start and one that can only be reached after the centre has moved; the run
  visits legs longer than the radius.
* `AllowedTags` needs two requests, the fast and the slow writer, and a tag that
  two places share. `Accounts` needs two requests to race and two users to
  compete for an email. Their request slots are reused, so these runs have no
  last request, and they check for deadlock.
* `RateLimits`: `Horizon` covers three windows of a client and the end of a day,
  `MaxHits` is one more than the limit, so that refused requests count too, and
  `MaxFaults` lets one access to Redis fail. `MaxWaiting` lets two builds stand
  between the limiters, so that one may wait across the end of the day while the
  other spends from it. Clients only meet in the daily
  counter, which `used` attributes to each; one client is enough to exhaust it.
* `Lifecycle`: three fields stand for the twenty of `Config` (a required
  string, a required number, a string with a default); two handlers, so that
  one may end while the other keeps the server draining.
* `WebClient`: with three analyses in flight (`MaxAnalyses`) an answer may find a
  page that was reset and is busy with a newer request; with three timers
  (`MaxTimers`) a page may be left, closed again while it fades, entered and left
  once more within half a second. The theorems hold for any value of both.

`RouteAnalysis` and `RouteBuilding` follow one call to its end, `Lifecycle` a
process to its exit, time in `RateLimits` is bounded, and the page of
`WebClient` may stop (a late timer hides a window that was entered again): these
runs do not check for deadlock. In the first three the liveness properties say
that the end is reached.

### Fairness

* Goroutines and handlers: weak fairness of each one's steps. The Go scheduler
  is fair to runnable goroutines, and a request to Ollama ends by its
  `Timeout(30 * time.Second)`. That Redis and Postgres answer, or their clients
  return an error, is assumed: the code sets no deadline for them.
* `LegStep` of `RouteBuilding`, the end of a call of Geoapify, is fair only when
  `GEOAPIFY_REQ_TIMEOUT` is positive: validation lets any number but zero pass,
  and fiber's agent applies no timeout unless it is positive. `BuildAnswered`
  says so: with another value a request may stay in a leg for ever. The run takes
  a positive one.
* `Expire`: Redis drops a key stored with a positive time to live.
* `TokenExpires`: time passes, and `NewJWTService` makes the lifetime positive.
* `MainStep`, `SignallerStep`: both goroutines run. `WarmupEnds`: the timeout of
  30 seconds. `HandlerEnds` is fair only when `GEOAPIFY_REQ_TIMEOUT` is positive,
  as above; the run includes the other values. `SignalEndsProcess` further rests
  on the database answering the handlers in flight, and on a positive
  `READ_TIMEOUT`, without which an idle connection could hold `app.Shutdown`.
  Nothing makes a signal come, or `Accept` fail.
* No fairness is given to whoever sends requests, creates or deletes, and none
  in `RateLimits` and `WebClient`, which state no liveness.

## 4. Proofs

Each theorem holds for every value of the constants the module's assumption
allows. In each case one conjunction is shown to hold initially and to be
preserved by every action; the properties follow from it. Every invariant and
every action property of the passing runs is the subject of a theorem.

### Safety

* `ExtractionInv` (`TagExtractionProofs`). Type correctness is not inductive
  alone: that `sem` and `wg` stay in range needs `SlotsCounted`, which ties both
  to the cardinalities of the sets of goroutines that hold a slot or have not
  called `wg.Done`. `LostErrorsBounded` needs `LateErrorsBounded`: the goroutines
  that hold a slot and the errors the scan has missed *together* never
  outnumber the slots. Inside the loop nothing has been missed; after it no
  goroutine joins that union, since only one that held its slot when the loop
  ended can store an error behind the scan. From it follow the concurrency
  bound, the bound on lost errors, that blame is real, and that returned
  results are frozen (at `ok` the counter is zero, so no goroutine can write).
* `AllowedTagsInv` (`AllowedTagsProofs`). The tags in the table only grow, for
  neither deletion nor update removes one. `NoPhantomTags` must cover the lists
  that requests carry between query and store, for they become the cache.
  The only assumptions are the types of the constants and `None` being no list.
  `AllowedTagsImplementCatalogue` is the refinement without its fairness: with
  `ListsAreVersions`, every step of the cache is a step of `TagCatalogue` or a
  stutter.
* `AnalysisInv` (`RouteAnalysisProofs`). `ExtractionSimulated` shows that the
  composed system is an `ExtractMultiTags` call, so that `ExtractionInv` holds
  of it without a second proof. `HandlerAndCall` ties the handler's state to the
  call's; `TagsAreStored` and the bound on missed errors give the statuses.
* `RouteBuildingInv` (`RouteBuildingProofs`). `LegBound` needs `SearchCentre`:
  the centre is within the radius times the arrays passed since the last pick,
  by the triangle inequality. `RouteContinuous` needs `LegOrigin`.
  `SegmentsCovered` uses that a non-empty candidate set inside `Used` holds a
  stop that matches the array.
* `AccountsInv` (`AccountsProofs`). `OwnersAreRows` for places needs to know that
  a request past the middleware speaks for a user who was given a token. Most
  requests end without touching a table; lemma `QuietStep` covers them at once.
* `LifecycleInv` (`LifecycleProofs`). Which connections are closed follows from
  how far the signal goroutine is (`ClosedInOrder`). That a handler meets a
  closed one only in the two named cases needs `ShutdownInOrder`: what
  `app.Shutdown` found depends on when the signal came. `CleanExit` names the two
  ways in which a handler is cut off: `app.Shutdown` failed, or it came before
  the server listened and `Accept` failed later.
* `RateLimitsInv` (`RateLimitsProofs`). `NoDoubleBurst` is not inductive: a burst
  may lie behind the window's end, inside it, or astride its beginning, and
  `SlidingCounted` says for each case which counter bounds it. The step that
  rolls the window needs the weight of the previous one at its very first
  second. `QuietClientIsAdmitted` follows from `SlidingAges`. `FairShare` is
  about sums over a day, so it needs an invariant that counts windows:
  `ShareCounted` says that what a client has spent of the day or still carries
  towards it (`Load`) is at most its limit times the windows that lie between the
  dawn and the beginning of its present one, plus what that window has admitted
  (`curr`). A step that opens a window moves one limit from the second term to
  the first, for a window begins no earlier than the end of the one before. A new
  day begins all clients at zero; the requests that stand between the limiters at
  that moment are counted by `carried`, for the window that let them through may
  have ended long ago. The theorems hold for any value of the four bounds.
* `WebClientInv` (`WebClientProofs`). `ConfirmFollowsBuild` says that the confirm
  button is the lock: `cancelRoute` does not release it, so a second build
  cannot start before the first has ended. `PageInOrder` says which of its two
  pages is up: a window that was left is hidden unless the last timer is still to
  bring the landing page back, a page with step 3 has its window, and a window
  with no panel is waiting for an analysis, has its editor open, or its last
  analysis failed. From it `DeadEndsKnown` follows: a quiet page without a button
  was hidden by a timer after it was entered again, or its last analysis failed
  with the selection taken away. The property speaks of causes: under the first
  fall both the blank page and the landing page without an active step that a
  second timer brings back.

Three theorems add to these invariants what they do not say themselves.
`RouteReachBound` extends `LegBound` from neighbours to any two stops, so that
no route leads farther from the start than one radius per tag array, whatever
was passed over. `RouteDelivered` says that a 200 has a leg for each stop and is
empty only when the request named no tag array. `LifecycleReadyToServe`
(from `StartedInOrder`) says that a handler runs only under a validated
configuration and with all three connections opened.

### What liveness rests on

A liveness property is an argument in two halves: the steps that remain get
fewer and end only in the right place, which is safety, and the scheduler lets
them happen, which is fairness. The first half is proved, for any constants:

| Liveness property | Proved half |
|---|---|
| `GoroutinesDrain` | `ExtractionEnds`: `Work`, which weighs segments to spawn and to scan, goroutines, slots and the WaitGroup, falls with every step from `5 * MaxSegments + 4`. `ExtractionNeverStuck`: when no guard holds (`AtRest`), the call has returned, the slots are back and the counter is zero. |
| `RequestAnswered` | `RouteAnalysisEnds` and `RouteAnalysisNeverStuck`, the same of the handler around the call, early errors included |
| `BuildAnswered` | `RouteBuildingEnds`: `StepsLeft`, two steps per tag array and two more; places created or deleted meanwhile do not change it |
| `DeletedLosesAccess` | `AccountsDeletedNeverGains`: once a row is deleted, no login of it begins, a token is signed only by a login begun before, a place is created only by a request let in before. `AccountsGoneForGood`: with those over, it stays so. |
| `EventuallyFresh` | `AllowedTagsStalenessDrains`: while the table stands still, the requests that may store an older list only get fewer, and the key turns stale by them alone |
| `SignalEndsProcess`, `StartupEnds` | `LifecycleEnds`: both goroutines have at most 17 steps (`ProcessWork`), and no signal or request adds one. `LifecycleNeverStuck`: they stand still only without a signal, for a handler that has not ended, or after an `app.Shutdown` that failed or found no listener. |

The predicates that say "no guard holds" (`AtRest`, `RequestAtRest`,
`MainBlocked`, `SignallerBlocked`) spell out the guards of the actions, since
the prover has no `ENABLED`.

### Only model-checked

The other half: that weak fairness turns the above into the liveness properties
(`GoroutinesDrain`, `RequestAnswered`, `EventuallyFresh`, `BuildAnswered`,
`DeletedLosesAccess`, `SignalEndsProcess`, `StartupEnds`), and the fair part of
`ImplementsCatalogue`. Fairness is defined by `ENABLED`, which the prover does
not reach.

## 5. Disagreements between code and documents

Shown by a run:

* A failure of the service can be answered 400 "Invalid request"
  (`api/openapi.yaml:600`), because the error scan runs before the wait.
* A duplicate email is never a 409 (`api/openapi.yaml:273`, `327`).
* `PATCH /users/{id}` and `PATCH /places/{id}` never update anything
  (`api/openapi.yaml:391`).
* The refusal says to wait 30 seconds (`internal/travelroutes/routes.go:41`);
  the hits of the window before may still be too many then.
* The page says to try other words (`public/app.js:808`) and shows no button to
  do so, for `handleRouteRequest` has hidden them all.

Met while modelling, without a run:

* `DELETE /users/{id}` and `DELETE /places/{id}` answer 200 with a body
  (`internal/users/handlers.go:124`, `internal/places/handlers.go:121`), not the
  204 of `api/openapi.yaml:426` and `566`. `Codes` of `Accounts` therefore
  has no 204.
* `/routes/analyze` may answer null for a segment (`api/openapi.yaml:188`).
* `/routes/build` may answer fewer places than tag arrays
  (`api/openapi.yaml:200`), a null `segments` (`api/openapi.yaml:243`), and 404,
  which its list of answers does not contain.
* If `app.Listen` fails, at once or later, the process waits for a signal
  instead of ending (`cmd/main.go:206`). A signal between `signal.Notify` and
  `app.Listen` leaves a server that listens with its connections closed.
* `README.md:28` speaks of sliding windows for place creation, which uses a
  fixed one (`internal/places/routes.go:24`).
* Leaving the map and entering it again within half a second hides it
  (`public/app.js:354`). Closing a late editor in the window that still fades
  sets a second timer, which shows the landing page over a page that was entered
  again, with no step active (`public/app.js:498`, `public/styles.css:138`).
  `DeadEndsKnown` counts both among the pages a timer took away.
* A build that is answered after cancel draws its route on the page that was
  reset (`public/app.js:596`), and a drawing that throws leaves part of it there
  (`public/app.js:671`).
* Statuses that `api/openapi.yaml` does not list: 429 of `POST /places`, which
  answers every error of the service 400 and never the 500 it promises; 400 and
  500 of `/auth/login`; 500 of `/auth/register`; 400 of `GET` and `DELETE` for an
  id that is no UUID.

## 6. Not modelled

* `GetByTags`: no route or handler reaches it.
* Conversions no property tells apart: the cutting of the text in
  `splitSegments` (kept: how many segments are left), `Location.Value` and
  `Location.Scan` between a point and its EWKB, JSON. Their loops run over
  characters and bytes, which a model would only transliterate.
* Which strings validation refuses, and the length of a password against
  bcrypt's limit: a 400 or a 500 may come for any request.
* Of the page: dragging and removing tags and the drawing of a route, which no
  request waits for; login and `add-place.html`, single requests whose server
  side is in `Accounts`.
* Prompt text and wording, logging and metrics, CORS, markup and styles beyond
  what makes a button visible, mocks, tests, images and monitoring files: no
  state of the running program.
