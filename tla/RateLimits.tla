------------------------------ MODULE RateLimits ------------------------------
(***************************************************************************)
(* The limiters in front of the handlers (travelroutes/routes.go,          *)
(* places/routes.go) with the counters they keep in Redis.  The limiter    *)
(* itself is Fiber's middleware: its fixed and sliding windows are modelled *)
(* from the way the routes configure them.  Each limiter counts a request  *)
(* under a lock of its own, so it is one step, and other requests and time *)
(* come between the two limiters of /routes/build.                         *)
(***************************************************************************)
EXTENDS Integers

CONSTANTS
  Client,      \* client addresses, the keys of /routes
  User,        \* authenticated users, the keys of place creation
  Global,      \* the key "global_geo_api_req_counter"
  UserLimit, DailyLimit, PlaceLimit,  \* limits as configured
  Window, Day, Hour,                  \* lengths of the windows
  Horizon,     \* bound on time
  MaxHits,     \* bound on the requests a client makes in a window
  MaxWaiting,  \* bound on the requests of a client between two limiters
  MaxFaults    \* bound on the accesses to Redis that fail

FixedKey == {Global} \cup User

ASSUME RateLimitsAssumption ==
  /\ Global \notin User
  /\ UserLimit \in Int /\ DailyLimit \in Int /\ PlaceLimit \in Int
  /\ Window \in Nat \ {0} /\ Day \in Nat \ {0} /\ Hour \in Nat \ {0}
  /\ Horizon \in Nat /\ MaxHits \in Nat /\ MaxWaiting \in Nat /\ MaxFaults \in Nat

VARIABLES
  now,      \* seconds
  sliding,  \* sliding[c]: hits before and in the window, and its end
  fixed,    \* fixed[k]: hits in the window, and its end
  waiting,  \* waiting[c]: requests that are past the first limiter of two
  faults,   \* accesses to Redis that have failed
  answer,   \* which limiter refused the last request, or that none did
  reached,  \* ghost: requests let through in the window of fixed[k]
  used,     \* ghost: hits of each client in the window of fixed[Global]
  carried,  \* ghost: waiting, as it was when that window was opened
  recent,   \* ghost: what each client was let through this second and last
  last      \* ghost: when each client made its last request

rateLimitsVars ==
  <<now, sliding, fixed, waiting, faults, answer, reached, used, carried, recent, last>>

SlidingEntry == [prev : Nat, curr : Nat, exp : Nat]
FixedEntry == [hits : Nat, exp : Nat]

RateLimitsTypeOK ==
  /\ now \in Nat
  /\ sliding \in [Client -> SlidingEntry]
  /\ fixed \in [FixedKey -> FixedEntry]
  /\ faults \in 0..MaxFaults
  /\ answer \in [by : {"none", "sliding", "fixed"},
                 key : Client \cup FixedKey, quiet : Nat]
  /\ reached \in [FixedKey -> Nat]
  /\ waiting \in [Client -> Nat]
  /\ used \in [Client -> Nat]
  /\ carried \in [Client -> Nat]
  /\ recent \in [Client -> [this : Nat, previous : Nat]]
  /\ last \in [Client -> Nat]

(* limiter's configDefault: a limit that is not positive becomes 5. *)
Effective(limit) == IF limit <= 0 THEN 5 ELSE limit
Limit(k) == Effective(IF k = Global THEN DailyLimit ELSE PlaceLimit)
Length(k) == IF k = Global THEN Day ELSE Hour

NewSlidingEntry == [prev |-> 0, curr |-> 0, exp |-> 0]
NewFixedEntry == [hits |-> 0, exp |-> 0]
NoRefusal == [by |-> "none", key |-> Global, quiet |-> 0]

RateLimitsInit ==
  /\ now = 0
  /\ sliding = [c \in Client |-> NewSlidingEntry]
  /\ fixed = [k \in FixedKey |-> NewFixedEntry]
  /\ faults = 0
  /\ answer = NoRefusal
  /\ reached = [k \in FixedKey |-> 0]
  /\ waiting = [c \in Client |-> 0]
  /\ used = [c \in Client |-> 0]
  /\ carried = [c \in Client |-> 0]
  /\ recent = [c \in Client |-> [this |-> 0, previous |-> 0]]
  /\ last = [c \in Client |-> 0]

-----------------------------------------------------------------------------
(* The windows.  A refused request counts as well. *)

(* Mutant of FixedHit: the counter counts down. *)
FixedHitDown(e, length) ==
  IF now >= e.exp THEN [hits |-> 0, exp |-> now + length]
  ELSE [e EXCEPT !.hits = @ - 1]

FixedHit(e, length) ==
  IF now >= e.exp THEN [hits |-> 1, exp |-> now + length]
  ELSE [e EXCEPT !.hits = @ + 1]

(* A window that has ended becomes the previous one.  The next begins      *)
(* where it ended, unless more than a whole window has gone by.            *)
SlidingHit(e) ==
  IF e.exp = 0 THEN [prev |-> 0, curr |-> 1, exp |-> now + Window]
  ELSE IF now >= e.exp
    THEN [prev |-> e.curr, curr |-> 1,
          exp |-> IF now - e.exp >= Window THEN now + Window ELSE e.exp + Window]
  ELSE [e EXCEPT !.curr = @ + 1]

(* Mutant of Rate: the hits before the window are forgotten. *)
RateUnweighted(e) == e.curr

(* The hits before the window count for the share of it that is left. *)
Rate(e) == (e.prev * (e.exp - now)) \div Window + e.curr

(* Mutant of Held: the entry is stored without a time to live. *)
HeldForever(e) == TRUE

(* Redis drops the entry one window after its own has ended; the clock of  *)
(* the limiter is up to a second behind.                                   *)
Held(e) == now <= e.exp + Window
Dropped(e) == now >= e.exp + Window

-----------------------------------------------------------------------------
(* The middlewares.  A limiter that cannot read its entry goes on with a   *)
(* new one, and that the entry cannot be written is not noticed.           *)

Count(b) == IF b THEN 1 ELSE 0

SlidingReads(c) == {e \in {sliding[c]} : Held(e)} \cup {NewSlidingEntry}
FixedReads(k) == {fixed[k], NewFixedEntry}

SlidingFaults(c, e, written) ==
  Count(e # sliding[c] /\ ~Dropped(sliding[c])) + Count(~written)
FixedFaults(k, e, written) == Count(e # fixed[k]) + Count(~written)

(* perUserSlidingLimiter lets c through, or refuses it. *)
SlidingPasses(e) == Rate(SlidingHit(e)) <= Effective(UserLimit)

(* It counts a request of c, having read e. *)
CountSliding(c, e, written) ==
  /\ sliding[c].curr < MaxHits
  /\ sliding' = IF written THEN [sliding EXCEPT ![c] = SlidingHit(e)] ELSE sliding
  /\ last' = [last EXCEPT ![c] = now]
  /\ recent' = [recent EXCEPT ![c].this = @ + Count(SlidingPasses(e))]

(* Mutant of FixedPasses: the last request within the limit is refused. *)
FixedPassesBelow(k, e) == FixedHit(e, Length(k)).hits < Limit(k)

(* globalDailyLimiter and placeCreateLimiter, for the key k. *)
FixedPasses(k, e) == FixedHit(e, Length(k)).hits <= Limit(k)

CountFixed(k, e, written) ==
  /\ fixed' = IF written THEN [fixed EXCEPT ![k] = FixedHit(e, Length(k))] ELSE fixed
  /\ reached' = [reached EXCEPT ![k] =
       (IF fixed'[k].exp = fixed[k].exp THEN @ ELSE 0) + Count(FixedPasses(k, e))]

Fault(n) ==
  /\ faults + n <= MaxFaults
  /\ faults' = faults + n

Refuse(by, key, quiet) == answer' = [by |-> by, key |-> key, quiet |-> quiet]
Admit == answer' = NoRefusal

(* POST /routes/analyze; a request to /routes/build that is refused here   *)
(* is the same to the counters.                                            *)
Analyze(c) ==
  \E e \in SlidingReads(c), written \in BOOLEAN :
    /\ Fault(SlidingFaults(c, e, written))
    /\ CountSliding(c, e, written)
    /\ IF SlidingPasses(e) THEN Admit ELSE Refuse("sliding", c, now - last[c])
    /\ UNCHANGED <<now, fixed, waiting, reached, used, carried>>

(* Mutant of Build: the daily limiter comes first, so every request gets   *)
(* to it.                                                                  *)
BuildDailyFirst(c) ==
  \E e \in SlidingReads(c), written \in BOOLEAN :
    /\ Fault(SlidingFaults(c, e, written))
    /\ CountSliding(c, e, written)
    /\ waiting[c] < MaxWaiting
    /\ waiting' = [waiting EXCEPT ![c] = @ + 1]
    /\ Admit
    /\ UNCHANGED <<now, fixed, reached, used, carried>>

(* POST /routes/build: the limiter of the group lets it through. *)
Build(c) ==
  \E e \in SlidingReads(c), written \in BOOLEAN :
    /\ SlidingPasses(e)
    /\ Fault(SlidingFaults(c, e, written))
    /\ CountSliding(c, e, written)
    /\ waiting[c] < MaxWaiting
    /\ waiting' = [waiting EXCEPT ![c] = @ + 1]
    /\ Admit
    /\ UNCHANGED <<now, fixed, reached, used, carried>>

(* The daily limiter counts a request that was let through.  What the      *)
(* handler does with it, also that it fails, is not counted.               *)
SpendBudget(c) ==
  \E d \in FixedReads(Global), noted \in BOOLEAN :
    /\ waiting[c] > 0
    /\ Fault(FixedFaults(Global, d, noted))
    /\ CountFixed(Global, d, noted)
    /\ waiting' = [waiting EXCEPT ![c] = @ - 1]
    /\ LET sameDay == fixed'[Global].exp = fixed[Global].exp IN
         /\ used' = [k \in Client |-> (IF sameDay THEN used[k] ELSE 0) + Count(k = c)]
         /\ carried' = IF sameDay THEN carried ELSE waiting
    /\ IF FixedPasses(Global, d) THEN Admit ELSE Refuse("fixed", Global, 0)
    /\ UNCHANGED <<now, sliding, recent, last>>

(* POST /places, behind the middleware that knows the user. *)
CreatePlace(u) ==
  \E d \in FixedReads(u), noted \in BOOLEAN :
    /\ fixed[u].hits < MaxHits
    /\ Fault(FixedFaults(u, d, noted))
    /\ CountFixed(u, d, noted)
    /\ IF FixedPasses(u, d) THEN Admit ELSE Refuse("fixed", u, 0)
    /\ UNCHANGED <<now, sliding, waiting, used, carried, recent, last>>

Tick ==
  /\ now < Horizon
  /\ now' = now + 1
  /\ recent' = [c \in Client |-> [this |-> 0, previous |-> recent[c].this]]
  /\ Admit
  /\ UNCHANGED <<sliding, fixed, waiting, faults, reached, used, carried, last>>

RateLimitsNext ==
  \/ \E c \in Client : Analyze(c) \/ Build(c) \/ SpendBudget(c)
  \/ \E u \in User : CreatePlace(u)
  \/ Tick

RateLimitsSpec == RateLimitsInit /\ [][RateLimitsNext]_rateLimitsVars
-----------------------------------------------------------------------------
(* A fixed window refuses only when the limit has really been reached in   *)
(* it, whatever becomes of the accesses to Redis, and as long as none      *)
(* fails it lets no more through (routes.go 15-26, places/routes.go        *)
(* 24-38).                                                                 *)
RefusalIsReal ==
  /\ answer.by = "fixed" => reached[answer.key] >= Limit(answer.key)
  /\ faults = 0 => \A k \in FixedKey : reached[k] <= Limit(k)

(* One client cannot use up the daily budget of all: it costs at most its  *)
(* own limit per window that the day has touched so far, and the requests  *)
(* that were between the limiters when the day began (routes.go 45-48).    *)
FairShare ==
  faults = 0 =>
    \A c \in Client :
      used[c] <= carried[c] +
        Effective(UserLimit) * ((now - (fixed[Global].exp - Day)) \div Window + 2)

(* The window of a client slides: no burst of more than the limit fits     *)
(* around the end of one (routes.go 28-43).                                *)
NoDoubleBurst ==
  faults = 0 =>
    \A c \in Client : recent[c].this + recent[c].previous <= Effective(UserLimit)

(* A client that stays away for more than two windows is let in again,     *)
(* however often it was refused before (routes.go 28-43).                  *)
QuietClientIsAdmitted ==
  answer.by = "sliding" => answer.quiet <= 2 * Window

(* The refusal tells the user to "Wait for 30 seconds and try again"       *)
(* (routes.go 41): a client whose last request was refused, the one beyond *)
(* the limit in the window before, is let in after such a wait.            *)
WaitIsEnough ==
  answer.by = "sliding" /\ sliding[answer.key].prev > Effective(UserLimit) =>
    answer.quiet < Window

(* The counter of a fixed window and what it has let through.              *)
FixedCounted ==
  \A k \in FixedKey :
    /\ reached[k] >= fixed[k].hits \/ reached[k] >= Limit(k)
    /\ faults = 0 => reached[k] <= fixed[k].hits /\ reached[k] <= Limit(k)

(* Where the last two seconds of a client lie: behind the end of its       *)
(* window, inside it, or astride its beginning.                            *)
SlidingCounted ==
  faults = 0 =>
    \A c \in Client :
      LET e == sliding[c]
          beginning == e.exp - Window
      IN /\ e.exp <= now => recent[c].this = 0 /\ recent[c].previous <= e.curr
         /\ e.exp < now => recent[c].previous = 0
         /\ beginning < now /\ now < e.exp =>
              recent[c].this + recent[c].previous <= e.curr
         /\ now = beginning =>
              recent[c].this <= e.curr /\ recent[c].previous <= e.prev
         /\ beginning <= now

(* An entry outlives the last request by two windows at most. *)
SlidingAges ==
  \A c \in Client :
    /\ last[c] <= now
    /\ sliding[c].exp <= last[c] + Window
    /\ sliding[c].exp = 0 => sliding[c] = NewSlidingEntry

(* What FairShare rests on.  The day begins at dawn.  A client whose window *)
(* began before it has sent no more than that window counts; a later       *)
(* window adds its own hits to a limit for each window that touched the    *)
(* day before.  A window that ended by dawn has sent nothing.              *)
Dawn == fixed[Global].exp - Day
Beginning(c) == sliding[c].exp - Window

Spent(dawn, beginning) ==
  IF beginning <= dawn THEN 0
  ELSE Effective(UserLimit) * ((beginning - dawn) \div Window + 1)

SpentBefore(c) == Spent(Dawn, Beginning(c))

(* Requests of the day that the first limiter has let through. *)
Load(c) == used[c] + waiting[c] - carried[c]

ShareCounted ==
  /\ Dawn <= now
  /\ \A c \in Client : carried[c] <= used[c] + waiting[c]
  /\ faults = 0 =>
       \A c \in Client :
         /\ Load(c) > 0 => Dawn < sliding[c].exp
         /\ Load(c) <= SpentBefore(c) + sliding[c].curr
         /\ Load(c) <= SpentBefore(c) + Effective(UserLimit)

(* The conjunction that every step preserves. *)
RateLimitsInv ==
  /\ RateLimitsTypeOK
  /\ FixedCounted
  /\ SlidingCounted
  /\ SlidingAges
  /\ RefusalIsReal
  /\ NoDoubleBurst
  /\ QuietClientIsAdmitted
=============================================================================
