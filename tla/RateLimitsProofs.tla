--------------------------- MODULE RateLimitsProofs ---------------------------
(***************************************************************************)
(* Proofs about the limiters, for any number of clients and users, any     *)
(* limits and any lengths of the windows.                                  *)
(***************************************************************************)
EXTENDS RateLimits, TLAPS

(* A limit that is in force is positive, also where the configured one is  *)
(* not.                                                                    *)
LEMMA LimitsPositive ==
  /\ Effective(UserLimit) \in Nat \ {0}
  /\ \A k \in FixedKey : Limit(k) \in Nat \ {0} /\ Length(k) \in Nat \ {0}
BY RateLimitsAssumption DEF Effective, Limit, Length, FixedKey

(* One more request in a sliding window: the entry stays one, and its      *)
(* window contains the present second.                                     *)
LEMMA SlidingHitType ==
  ASSUME now \in Nat, NEW e \in SlidingEntry
  PROVE  /\ SlidingHit(e) \in SlidingEntry
         /\ now < SlidingHit(e).exp
         /\ SlidingHit(e).exp <= e.exp \/ SlidingHit(e).exp <= now + Window
BY RateLimitsAssumption DEF SlidingHit, SlidingEntry

(* Whatever the share of the window before, the hits in the window count   *)
(* in full; at the beginning of a window so do those before it.            *)
LEMMA RateBounds ==
  ASSUME now \in Nat, NEW e \in SlidingEntry, now < e.exp
  PROVE  /\ Rate(e) >= e.curr
         /\ Rate(e) \in Nat
         /\ e.prev = 0 => Rate(e) = e.curr
         /\ e.exp - now = Window => Rate(e) = e.prev + e.curr
<1> DEFINE left == e.exp - now
<1>1. e.prev \in Nat /\ e.curr \in Nat /\ left \in Nat /\ Window \in Nat \ {0}
  BY RateLimitsAssumption DEF SlidingEntry
<1>2. e.prev * left \in Nat
  BY <1>1
<1>3. (e.prev * left) \div Window \in Nat
  BY <1>1, <1>2
<1>4. left = Window => (e.prev * left) \div Window = e.prev
  BY <1>1
<1>5. e.prev = 0 => (e.prev * left) \div Window = 0
  BY <1>1
<1>6. Rate(e) = (e.prev * left) \div Window + e.curr
  BY DEF Rate
<1> HIDE DEF left
<1>7. /\ Rate(e) >= e.curr
      /\ Rate(e) \in Nat
      /\ e.prev = 0 => Rate(e) = e.curr
      /\ left = Window => Rate(e) = e.prev + e.curr
  BY <1>1, <1>3, <1>4, <1>5, <1>6
<1> QED
  BY <1>7 DEF left

(* A new entry lets its first request through. *)
LEMMA NewEntryPasses == now \in Nat => SlidingPasses(NewSlidingEntry)
<1> SUFFICES ASSUME now \in Nat PROVE SlidingPasses(NewSlidingEntry)
  OBVIOUS
<1> DEFINE e == SlidingHit(NewSlidingEntry)
<1>1. e = [prev |-> 0, curr |-> 1, exp |-> now + Window]
  BY DEF SlidingHit, NewSlidingEntry
<1>2. e \in SlidingEntry /\ now < e.exp /\ e.prev = 0 /\ e.curr = 1
  BY <1>1, RateLimitsAssumption DEF SlidingEntry
<1> HIDE DEF e
<1>3. Rate(e) = 1
  BY <1>2, RateBounds
<1> QED
  BY <1>3, LimitsPositive DEF e, SlidingPasses

(* One request counted by perUserSlidingLimiter, with n faults. *)
LEMMA CountSlidingPreserves ==
  ASSUME RateLimitsTypeOK, SlidingCounted, SlidingAges, NoDoubleBurst,
         NEW c \in Client, NEW e \in SlidingReads(c), NEW written \in BOOLEAN,
         NEW n \in Nat, n >= SlidingFaults(c, e, written),
         CountSliding(c, e, written), Fault(n), UNCHANGED now
  PROVE  /\ sliding' \in [Client -> SlidingEntry]
         /\ last' \in [Client -> Nat]
         /\ recent' \in [Client -> [this : Nat, previous : Nat]]
         /\ faults' \in 0..MaxFaults
         /\ SlidingCounted' /\ SlidingAges' /\ NoDoubleBurst'
         /\ ~SlidingPasses(e) => now - last[c] \in 0..2 * Window
<1> DEFINE L == Effective(UserLimit)
           h == SlidingHit(e)
<1>1. /\ now \in Nat /\ faults \in Nat /\ MaxFaults \in Nat /\ Window \in Nat \ {0}
      /\ L \in Nat \ {0}
      /\ sliding[c] \in SlidingEntry /\ NewSlidingEntry \in SlidingEntry
      /\ e \in SlidingEntry
  BY RateLimitsAssumption, LimitsPositive
  DEF RateLimitsTypeOK, SlidingReads, SlidingEntry, NewSlidingEntry
<1>2. h \in SlidingEntry /\ now < h.exp
  BY <1>1, SlidingHitType
<1>3. /\ sliding' \in [Client -> SlidingEntry]
      /\ last' \in [Client -> Nat]
      /\ recent' \in [Client -> [this : Nat, previous : Nat]]
  <2>1. Count(SlidingPasses(e)) \in 0..1
    BY DEF Count
  <2>2. recent[c].this \in Nat
    BY DEF RateLimitsTypeOK
  <2> QED
    BY <1>1, <1>2, <2>1, <2>2 DEF RateLimitsTypeOK, CountSliding
<1>4. faults' \in 0..MaxFaults
  BY <1>1 DEF Fault
<1>5. faults' = 0 => /\ faults = 0 /\ written
                     /\ \/ e = sliding[c]
                        \/ e = NewSlidingEntry /\ Dropped(sliding[c])
  <2> DEFINE other == e # sliding[c] /\ ~Dropped(sliding[c])
             x == Count(other)
             y == Count(~written)
  <2>1. x \in Nat /\ (x = 0 => ~other)
    BY DEF Count
  <2>2. y \in Nat /\ (y = 0 => written)
    BY DEF Count
  <2>3. n >= x + y /\ faults' = faults + n
    BY DEF Fault, SlidingFaults
  <2>4. e = sliding[c] \/ e = NewSlidingEntry
    BY DEF SlidingReads
  <2> HIDE DEF x, y
  <2>5. faults' = 0 => faults = 0 /\ x = 0 /\ y = 0
    BY <1>1, <2>1, <2>2, <2>3
  <2> QED
    BY <2>1, <2>2, <2>4, <2>5, Zenon
<1>6. SlidingAges'
  <2>1. e.exp <= now + Window
    BY <1>1 DEF SlidingReads, SlidingAges, NewSlidingEntry, SlidingEntry, RateLimitsTypeOK
  <2>2. h.exp <= now + Window /\ h.exp > 0
    BY <1>1, <1>2, <2>1, SlidingHitType DEF SlidingEntry
  <2>3. sliding[c].exp <= now + Window
    BY <1>1 DEF SlidingAges, RateLimitsTypeOK, SlidingEntry
  <2>4. \A k \in Client \ {c} : sliding'[k] = sliding[k] /\ last'[k] = last[k]
    BY DEF CountSliding, RateLimitsTypeOK
  <2>5. last'[c] = now /\ sliding'[c] \in {sliding[c], h}
    BY DEF CountSliding, RateLimitsTypeOK
  <2> HIDE DEF h
  <2> QED
    BY <1>1, <1>2, <2>2, <2>3, <2>4, <2>5 DEF SlidingAges, SlidingEntry
<1>7. ~SlidingPasses(e) => now - last[c] \in 0..2 * Window
  <2> SUFFICES ASSUME ~SlidingPasses(e) PROVE now - last[c] \in 0..2 * Window
    OBVIOUS
  <2>1. e = sliding[c] /\ Held(e)
    BY <1>1, NewEntryPasses DEF SlidingReads
  <2>2. last[c] \in Nat
    BY DEF RateLimitsTypeOK
  <2> QED
    BY <1>1, <2>1, <2>2 DEF Held, SlidingAges, SlidingEntry
<1>8. SlidingCounted' /\ NoDoubleBurst'
  <2> SUFFICES ASSUME faults' = 0, NEW k \in Client
               PROVE  /\ LET w == sliding'[k]
                             beginning == w.exp - Window
                         IN /\ w.exp <= now => recent'[k].this = 0 /\ recent'[k].previous <= w.curr
                            /\ w.exp < now => recent'[k].previous = 0
                            /\ beginning < now /\ now < w.exp =>
                                 recent'[k].this + recent'[k].previous <= w.curr
                            /\ now = beginning =>
                                 recent'[k].this <= w.curr /\ recent'[k].previous <= w.prev
                            /\ beginning <= now
                      /\ recent'[k].this + recent'[k].previous <= L
    BY DEF SlidingCounted, NoDoubleBurst
  <2>1. CASE k # c
    BY <1>5, <2>1
    DEF SlidingCounted, NoDoubleBurst, CountSliding, RateLimitsTypeOK, SlidingEntry
  <2>2. CASE k = c
    <3> DEFINE old == sliding[c]
               t == recent[c].this
               p == recent[c].previous
    <3>1. /\ sliding'[k] = h
          /\ recent'[k].this = t + Count(SlidingPasses(e))
          /\ recent'[k].previous = p
          /\ t \in Nat /\ p \in Nat
      BY <1>5, <2>2 DEF CountSliding, RateLimitsTypeOK
    <3>2. /\ old.exp <= now => t = 0 /\ p <= old.curr
          /\ old.exp < now => p = 0
          /\ old.exp - Window < now /\ now < old.exp => t + p <= old.curr
          /\ now = old.exp - Window => t <= old.curr /\ p <= old.prev
          /\ old.exp - Window <= now
          /\ t + p <= L
          /\ old.exp = 0 => old.curr = 0
      BY <1>5 DEF SlidingCounted, NoDoubleBurst, SlidingAges, NewSlidingEntry
    <3>3. /\ Rate(h) >= h.curr
          /\ Rate(h) \in Nat
          /\ h.exp - now = Window => Rate(h) = h.prev + h.curr
      BY <1>1, <1>2, RateBounds
    <3>4. \/ /\ now < old.exp
             /\ h.prev = old.prev /\ h.curr = old.curr + 1 /\ h.exp = old.exp
          \/ /\ now >= old.exp /\ h.curr = 1
             /\ \/ h.exp = now + Window /\ h.prev = old.curr
                \/ h.exp = now + Window /\ h.prev = 0 /\ p = 0
                \/ h.exp = old.exp + Window /\ h.prev = old.curr
      <4>1. CASE e = old
        BY <1>1, <3>1, <3>2, <4>1 DEF SlidingHit, SlidingEntry
      <4>2. CASE e = NewSlidingEntry /\ Dropped(old)
        <5>1. now > old.exp
          BY <1>1, <4>2 DEF Dropped, SlidingEntry
        <5> QED
          BY <1>1, <3>2, <4>2, <5>1 DEF SlidingHit, NewSlidingEntry, SlidingEntry
      <4> QED
        BY <1>5, <4>1, <4>2
    <3>5. /\ old.prev \in Nat /\ old.curr \in Nat /\ old.exp \in Nat
          /\ h.prev \in Nat /\ h.curr \in Nat /\ h.exp \in Nat
      BY <1>1, <1>2 DEF SlidingEntry
    <3>6. Count(SlidingPasses(e)) = IF Rate(h) <= L THEN 1 ELSE 0
      BY DEF Count, SlidingPasses
    <3> DEFINE x == Count(SlidingPasses(e))
               r == Rate(h)
               begin == old.exp - Window
    <3>7. x \in Nat /\ x <= 1 /\ (x = 1 => r <= L) /\ r \in Nat
      BY <1>1, <3>3, <3>6
    <3> HIDE DEF h, old, t, p, L, x, r
    <3>8. /\ h.exp <= now => t + x = 0 /\ p <= h.curr
          /\ h.exp < now => p = 0
          /\ h.exp - Window < now /\ now < h.exp => t + x + p <= h.curr
          /\ now = h.exp - Window => t + x <= h.curr /\ p <= h.prev
          /\ h.exp - Window <= now
      <4>1. CASE now < old.exp
        BY <1>1, <1>2, <3>1, <3>2, <3>4, <3>5, <3>7, <4>1
      <4>2. CASE now >= old.exp
        BY <1>1, <1>2, <3>1, <3>2, <3>4, <3>5, <3>7, <4>2
      <4> QED
        BY <1>1, <3>5, <4>1, <4>2
    <3>9. t + x + p <= L
      <4>1. r >= h.curr /\ (h.exp - now = Window => r = h.prev + h.curr)
        BY <3>3 DEF r
      <4>2. CASE x = 0
        BY <1>1, <3>1, <3>2, <4>2
      <4>3. CASE x = 1
        BY <1>1, <1>2, <3>1, <3>5, <3>7, <3>8, <4>1, <4>3
      <4> QED
        BY <3>7, <4>2, <4>3
    <3> QED
      BY <3>1, <3>8, <3>9 DEF x
  <2> QED
    BY <2>1, <2>2
<1> QED
  BY <1>3, <1>4, <1>6, <1>7, <1>8

(* One request counted under k by a fixed window, having read d.           *)
LEMMA CountFixedPreserves ==
  ASSUME RateLimitsTypeOK, FixedCounted, RefusalIsReal,
         NEW k \in FixedKey, NEW d \in FixedReads(k), NEW noted \in BOOLEAN,
         NEW n \in Nat, n >= FixedFaults(k, d, noted),
         CountFixed(k, d, noted), Fault(n), UNCHANGED now
  PROVE  /\ fixed' \in [FixedKey -> FixedEntry]
         /\ reached' \in [FixedKey -> Nat]
         /\ FixedCounted'
         /\ faults' = 0 => \A j \in FixedKey : reached'[j] <= Limit(j)
         /\ ~FixedPasses(k, d) => reached'[k] >= Limit(k)
<1> DEFINE L == Limit(k)
           old == fixed[k]
           h == FixedHit(d, Length(k))
           x == Count(FixedPasses(k, d))
           base == IF fixed'[k].exp = old.exp THEN reached[k] ELSE 0
<1>1. /\ now \in Nat /\ faults \in Nat
      /\ L \in Nat \ {0} /\ Length(k) \in Nat \ {0}
      /\ old \in FixedEntry /\ d \in FixedEntry
      /\ reached[k] \in Nat
  BY LimitsPositive
  DEF RateLimitsTypeOK, FixedReads, FixedEntry, NewFixedEntry
<1>2. /\ h \in FixedEntry
      /\ now >= d.exp => h.hits = 1 /\ h.exp = now + Length(k)
      /\ now < d.exp => h.hits = d.hits + 1 /\ h.exp = d.exp
  BY <1>1 DEF FixedHit, FixedEntry
<1>3. x \in 0..1 /\ (x = 1 <=> h.hits <= L)
  BY DEF Count, FixedPasses
<1>4. base \in Nat
  BY <1>1
<1>5. /\ fixed' \in [FixedKey -> FixedEntry]
      /\ reached' \in [FixedKey -> Nat]
  BY <1>1, <1>2, <1>3, <1>4 DEF CountFixed, RateLimitsTypeOK
<1>6. /\ reached'[k] = base + x
      /\ fixed'[k] = IF noted THEN h ELSE old
      /\ \A j \in FixedKey \ {k} : reached'[j] = reached[j] /\ fixed'[j] = fixed[j]
  BY DEF CountFixed, RateLimitsTypeOK
<1>7. faults' = 0 => faults = 0 /\ noted /\ d = old
  <2> DEFINE u == Count(d # old)
             v == Count(~noted)
  <2>1. u \in Nat /\ (u = 0 => d = old)
    BY DEF Count
  <2>2. v \in Nat /\ (v = 0 => noted)
    BY DEF Count
  <2>3. n >= u + v /\ faults' = faults + n
    BY DEF Fault, FixedFaults
  <2> HIDE DEF u, v
  <2>4. faults' = 0 => faults = 0 /\ u = 0 /\ v = 0
    BY <1>1, <2>1, <2>2, <2>3
  <2> QED
    BY <2>1, <2>2, <2>4, Zenon
<1>8. /\ reached[k] >= old.hits \/ reached[k] >= L
      /\ faults = 0 => reached[k] <= old.hits /\ reached[k] <= L
  BY DEF FixedCounted
<1>9. /\ reached'[k] >= fixed'[k].hits \/ reached'[k] >= L
      /\ ~(h.hits <= L) => reached'[k] >= L
      /\ faults' = 0 => reached'[k] <= fixed'[k].hits /\ reached'[k] <= L
  <2>1. /\ old.hits \in Nat /\ old.exp \in Nat /\ d.exp \in Nat /\ d.hits \in Nat
        /\ h.hits \in Nat /\ h.exp \in Nat
    BY <1>1, <1>2 DEF FixedEntry
  <2>2. d = old \/ d.exp = 0
    BY DEF FixedReads, NewFixedEntry
  <2>3. base = IF fixed'[k].exp = old.exp THEN reached[k] ELSE 0
    OBVIOUS
  <2>4. now >= d.exp => x = 1
    BY <1>1, <1>2, <1>3
  <2> HIDE DEF h, x, L, old, base
  <2>5. CASE noted
    <3>1. fixed'[k] = h /\ base = (IF h.exp = old.exp THEN reached[k] ELSE 0)
      BY <1>6, <2>3, <2>5
    <3>2. CASE now < d.exp
      <4>1. d = old /\ h.exp = old.exp /\ h.hits = old.hits + 1 /\ base = reached[k]
        BY <1>1, <1>2, <2>1, <2>2, <3>1, <3>2
      <4> QED
        BY <1>1, <1>3, <1>6, <1>7, <1>8, <2>1, <3>1, <4>1
    <3>3. CASE now >= d.exp
      <4>1. h.hits = 1 /\ h.exp = now + Length(k) /\ x = 1
        BY <1>2, <2>4, <3>3
      <4>2. d = old => base = 0
        BY <1>1, <2>1, <3>1, <3>3, <4>1
      <4> QED
        BY <1>1, <1>4, <1>6, <1>7, <2>1, <3>1, <4>1, <4>2
    <3> QED
      BY <1>1, <2>1, <3>2, <3>3
  <2>6. CASE ~noted
    <3>1. fixed'[k] = old /\ base = reached[k] /\ ~(faults' = 0)
      BY <1>6, <1>7, <2>3, <2>6
    <3>2. x = 0 => d = old /\ h.hits = old.hits + 1
      BY <1>1, <1>2, <2>1, <2>2, <2>4
    <3> QED
      BY <1>1, <1>3, <1>6, <1>8, <2>1, <3>1, <3>2
  <2> QED
    BY <2>5, <2>6
<1>10. FixedCounted'
  BY <1>6, <1>7, <1>9 DEF FixedCounted, Limit
<1>11. faults' = 0 => \A j \in FixedKey : reached'[j] <= Limit(j)
  BY <1>6, <1>7, <1>9 DEF FixedCounted
<1>12. ~FixedPasses(k, d) => reached'[k] >= Limit(k)
  BY <1>9 DEF FixedPasses
<1> QED
  BY <1>5, <1>10, <1>11, <1>12

(* Faults are counted, and none is undone.                                 *)
LEMMA FaultsCounted ==
  ASSUME RateLimitsTypeOK, NEW n \in Nat, Fault(n)
  PROVE  faults' \in 0..MaxFaults /\ (faults' = 0 => faults = 0)
BY RateLimitsAssumption DEF RateLimitsTypeOK, Fault

(* What a request loses to Redis is counted in natural numbers. *)
LEMMA FaultsAreNatural ==
  /\ \A c, e, written : SlidingFaults(c, e, written) \in Nat
  /\ \A k, d, noted : FixedFaults(k, d, noted) \in Nat
<1>1. \A b : Count(b) \in Nat
  BY DEF Count
<1> QED
  BY <1>1 DEF SlidingFaults, FixedFaults

(* All counters start at zero. *)
LEMMA RateLimitsInvInit == RateLimitsInit => RateLimitsInv
<1> SUFFICES ASSUME RateLimitsInit PROVE RateLimitsInv
  OBVIOUS
<1>1. RateLimitsTypeOK
  BY RateLimitsAssumption
  DEF RateLimitsInit, RateLimitsTypeOK, SlidingEntry, FixedEntry,
      NewSlidingEntry, NewFixedEntry, NoRefusal, FixedKey
<1>2. FixedCounted
  BY LimitsPositive DEF RateLimitsInit, FixedCounted, NewFixedEntry
<1>3. SlidingCounted /\ SlidingAges
  BY RateLimitsAssumption
  DEF RateLimitsInit, SlidingCounted, SlidingAges, NewSlidingEntry
<1>4. RefusalIsReal /\ NoDoubleBurst /\ QuietClientIsAdmitted
  BY LimitsPositive
  DEF RateLimitsInit, RefusalIsReal, NoDoubleBurst, QuietClientIsAdmitted, NoRefusal
<1> QED
  BY <1>1, <1>2, <1>3, <1>4 DEF RateLimitsInv

(* What a request leaves of the invariant that the limiter of the group    *)
(* counts, if it touches no fixed window, and whatever is between them.    *)
LEMMA SlidingRequestPreserves ==
  ASSUME RateLimitsInv, NEW c \in Client,
         NEW e \in SlidingReads(c), NEW written \in BOOLEAN,
         Fault(SlidingFaults(c, e, written)),
         CountSliding(c, e, written),
         \/ Admit
         \/ ~SlidingPasses(e) /\ Refuse("sliding", c, now - last[c]),
         waiting' \in [Client -> Nat],
         UNCHANGED <<now, fixed, reached, used, carried>>
  PROVE  RateLimitsInv'
<1> DEFINE n == SlidingFaults(c, e, written)
<1>2. n \in Nat
  BY FaultsAreNatural
<1> HIDE DEF n
<1>3. /\ RateLimitsTypeOK /\ FixedCounted /\ SlidingCounted /\ SlidingAges
      /\ RefusalIsReal /\ NoDoubleBurst /\ QuietClientIsAdmitted
  BY DEF RateLimitsInv
<1>4. Fault(n) /\ n >= SlidingFaults(c, e, written)
  BY <1>2 DEF n
<1>5. /\ sliding' \in [Client -> SlidingEntry]
      /\ last' \in [Client -> Nat]
      /\ recent' \in [Client -> [this : Nat, previous : Nat]]
      /\ SlidingCounted' /\ SlidingAges' /\ NoDoubleBurst'
      /\ ~SlidingPasses(e) => now - last[c] \in 0..2 * Window
  BY <1>2, <1>3, <1>4, CountSlidingPreserves
<1>6. faults' \in 0..MaxFaults /\ (faults' = 0 => faults = 0)
  BY <1>2, <1>3, <1>4, FaultsCounted
<1>7. /\ answer' \in [by : {"none", "sliding"}, key : Client \cup FixedKey, quiet : Nat]
      /\ answer'.by = "sliding" => answer'.quiet <= 2 * Window
  <2>1. CASE Admit
    BY <2>1 DEF Admit, NoRefusal, FixedKey
  <2>2. CASE ~SlidingPasses(e) /\ Refuse("sliding", c, now - last[c])
    BY <1>5, <2>2, RateLimitsAssumption DEF Refuse
  <2> QED
    BY <2>1, <2>2
<1>8. RateLimitsTypeOK'
  BY <1>3, <1>5, <1>6, <1>7 DEF RateLimitsTypeOK
<1>9. FixedCounted' /\ RefusalIsReal'
  BY <1>3, <1>6, <1>7 DEF FixedCounted, RefusalIsReal
<1> QED
  BY <1>5, <1>7, <1>8, <1>9 DEF RateLimitsInv, QuietClientIsAdmitted

(* A request to /routes/analyze passes the sliding limiter alone. *)
LEMMA AnalyzePreserves ==
  ASSUME RateLimitsInv, NEW c \in Client, Analyze(c) PROVE RateLimitsInv'
<1>1. PICK e \in SlidingReads(c), written \in BOOLEAN :
        /\ Fault(SlidingFaults(c, e, written))
        /\ CountSliding(c, e, written)
        /\ IF SlidingPasses(e) THEN Admit ELSE Refuse("sliding", c, now - last[c])
        /\ UNCHANGED <<now, fixed, waiting, reached, used, carried>>
  BY DEF Analyze
<1>2. waiting' \in [Client -> Nat]
  BY <1>1 DEF RateLimitsInv, RateLimitsTypeOK
<1>3. Admit \/ (~SlidingPasses(e) /\ Refuse("sliding", c, now - last[c]))
  BY <1>1, Zenon
<1> QED
  BY <1>1, <1>2, <1>3, SlidingRequestPreserves

(* A request to /routes/build passes the sliding limiter first. *)
LEMMA BuildPreserves ==
  ASSUME RateLimitsInv, NEW c \in Client, Build(c) PROVE RateLimitsInv'
<1>1. PICK e \in SlidingReads(c), written \in BOOLEAN :
        /\ Fault(SlidingFaults(c, e, written))
        /\ CountSliding(c, e, written)
        /\ waiting' = [waiting EXCEPT ![c] = @ + 1]
        /\ Admit
        /\ UNCHANGED <<now, fixed, reached, used, carried>>
  BY DEF Build
<1>2. waiting' \in [Client -> Nat]
  BY <1>1 DEF RateLimitsInv, RateLimitsTypeOK
<1> QED
  BY <1>1, <1>2, SlidingRequestPreserves

(* The daily limiter counts a request that the first one let through. *)
LEMMA SpendBudgetPreserves ==
  ASSUME RateLimitsInv, NEW c \in Client, SpendBudget(c) PROVE RateLimitsInv'
<1>1. PICK d \in FixedReads(Global), noted \in BOOLEAN :
        /\ waiting[c] > 0
        /\ Fault(FixedFaults(Global, d, noted))
        /\ CountFixed(Global, d, noted)
        /\ waiting' = [waiting EXCEPT ![c] = @ - 1]
        /\ LET sameDay == fixed'[Global].exp = fixed[Global].exp IN
             /\ used' = [k \in Client |-> (IF sameDay THEN used[k] ELSE 0) + Count(k = c)]
             /\ carried' = IF sameDay THEN carried ELSE waiting
        /\ IF FixedPasses(Global, d) THEN Admit ELSE Refuse("fixed", Global, 0)
        /\ UNCHANGED <<now, sliding, recent, last>>
  BY DEF SpendBudget
<1> DEFINE n == FixedFaults(Global, d, noted)
<1>2. n \in Nat
  BY FaultsAreNatural
<1> HIDE DEF n
<1>3. /\ RateLimitsTypeOK /\ FixedCounted /\ SlidingCounted /\ SlidingAges
      /\ RefusalIsReal /\ NoDoubleBurst
  BY DEF RateLimitsInv
<1>4. Fault(n) /\ n >= FixedFaults(Global, d, noted) /\ Global \in FixedKey
  BY <1>1, <1>2 DEF n, FixedKey
<1>5. /\ fixed' \in [FixedKey -> FixedEntry]
      /\ reached' \in [FixedKey -> Nat]
      /\ FixedCounted'
      /\ faults' = 0 => \A j \in FixedKey : reached'[j] <= Limit(j)
      /\ ~FixedPasses(Global, d) => reached'[Global] >= Limit(Global)
  BY <1>1, <1>2, <1>3, <1>4, CountFixedPreserves
<1>6. faults' \in 0..MaxFaults /\ (faults' = 0 => faults = 0)
  BY <1>2, <1>3, <1>4, FaultsCounted
<1>7. used' \in [Client -> Nat] /\ carried' \in [Client -> Nat]
      /\ waiting' \in [Client -> Nat]
  <2>1. \A b : Count(b) \in Nat
    BY DEF Count
  <2>2. waiting[c] - 1 \in Nat
    BY <1>1, <1>3 DEF RateLimitsTypeOK
  <2> QED
    BY <1>1, <1>3, <2>1, <2>2 DEF RateLimitsTypeOK
<1>8. /\ answer' \in [by : {"none", "fixed"}, key : Client \cup FixedKey, quiet : Nat]
      /\ answer'.by = "fixed" => answer'.key = Global /\ ~FixedPasses(Global, d)
  BY <1>1 DEF Admit, NoRefusal, Refuse, FixedKey
<1>9. RateLimitsTypeOK'
  BY <1>1, <1>3, <1>5, <1>6, <1>7, <1>8 DEF RateLimitsTypeOK
<1>10. SlidingCounted' /\ SlidingAges' /\ NoDoubleBurst'
  BY <1>1, <1>3, <1>6 DEF SlidingCounted, SlidingAges, NoDoubleBurst
<1>11. RefusalIsReal' /\ QuietClientIsAdmitted'
  BY <1>5, <1>8 DEF RefusalIsReal, QuietClientIsAdmitted, Limit
<1> QED
  BY <1>5, <1>9, <1>10, <1>11 DEF RateLimitsInv

(* The creation of a place passes the hourly limiter of its user. *)
LEMMA CreatePlacePreserves ==
  ASSUME RateLimitsInv, NEW u \in User, CreatePlace(u) PROVE RateLimitsInv'
<1>1. PICK d \in FixedReads(u), noted \in BOOLEAN :
        /\ Fault(FixedFaults(u, d, noted))
        /\ CountFixed(u, d, noted)
        /\ IF FixedPasses(u, d) THEN Admit ELSE Refuse("fixed", u, 0)
        /\ UNCHANGED <<now, sliding, waiting, used, carried, recent, last>>
  BY DEF CreatePlace
<1> DEFINE n == FixedFaults(u, d, noted)
<1>2. n \in Nat
  BY FaultsAreNatural
<1> HIDE DEF n
<1>3. /\ RateLimitsTypeOK /\ FixedCounted /\ SlidingCounted /\ SlidingAges
      /\ RefusalIsReal /\ NoDoubleBurst
  BY DEF RateLimitsInv
<1>4. Fault(n) /\ n >= FixedFaults(u, d, noted) /\ u \in FixedKey
  BY <1>1, <1>2 DEF n, FixedKey
<1>5. /\ fixed' \in [FixedKey -> FixedEntry]
      /\ reached' \in [FixedKey -> Nat]
      /\ FixedCounted'
      /\ faults' = 0 => \A j \in FixedKey : reached'[j] <= Limit(j)
      /\ ~FixedPasses(u, d) => reached'[u] >= Limit(u)
  BY <1>1, <1>2, <1>3, <1>4, CountFixedPreserves
<1>6. faults' \in 0..MaxFaults /\ (faults' = 0 => faults = 0)
  BY <1>2, <1>3, <1>4, FaultsCounted
<1>7. /\ answer' \in [by : {"none", "fixed"}, key : Client \cup FixedKey, quiet : Nat]
      /\ answer'.by = "fixed" => answer'.key = u /\ ~FixedPasses(u, d)
  BY <1>1, <1>4 DEF Admit, NoRefusal, Refuse, FixedKey
<1>8. RateLimitsTypeOK'
  BY <1>1, <1>3, <1>5, <1>6, <1>7 DEF RateLimitsTypeOK
<1>9. SlidingCounted' /\ SlidingAges' /\ NoDoubleBurst'
  BY <1>1, <1>3, <1>6 DEF SlidingCounted, SlidingAges, NoDoubleBurst
<1>10. RefusalIsReal' /\ QuietClientIsAdmitted'
  BY <1>5, <1>7 DEF RefusalIsReal, QuietClientIsAdmitted, Limit
<1> QED
  BY <1>5, <1>8, <1>9, <1>10 DEF RateLimitsInv

(* A second passes. *)
LEMMA TickPreserves ==
  ASSUME RateLimitsInv, Tick PROVE RateLimitsInv'
<1>1. /\ RateLimitsTypeOK /\ FixedCounted /\ SlidingCounted /\ SlidingAges
      /\ RefusalIsReal /\ NoDoubleBurst
  BY DEF RateLimitsInv
<1>2. RateLimitsTypeOK'
  BY <1>1 DEF Tick, RateLimitsTypeOK, Admit, NoRefusal, FixedKey
<1>3. FixedCounted' /\ RefusalIsReal' /\ QuietClientIsAdmitted'
  BY <1>1 DEF Tick, FixedCounted, RefusalIsReal, QuietClientIsAdmitted, Admit, NoRefusal
<1>4. SlidingAges'
  BY <1>1 DEF Tick, SlidingAges, RateLimitsTypeOK
<1>5. NoDoubleBurst'
  BY <1>1, LimitsPositive DEF Tick, NoDoubleBurst, RateLimitsTypeOK
<1>6. SlidingCounted'
  <2> SUFFICES ASSUME faults' = 0, NEW c \in Client
               PROVE  LET e == sliding'[c]
                          beginning == e.exp - Window
                      IN /\ e.exp <= now' => recent'[c].this = 0 /\ recent'[c].previous <= e.curr
                         /\ e.exp < now' => recent'[c].previous = 0
                         /\ beginning < now' /\ now' < e.exp =>
                              recent'[c].this + recent'[c].previous <= e.curr
                         /\ now' = beginning =>
                              recent'[c].this <= e.curr /\ recent'[c].previous <= e.prev
                         /\ beginning <= now'
    BY DEF SlidingCounted
  <2> DEFINE e == sliding[c]
             t == recent[c].this
             p == recent[c].previous
  <2>1. /\ now \in Nat /\ now' = now + 1 /\ Window \in Nat \ {0}
        /\ e.prev \in Nat /\ e.curr \in Nat /\ e.exp \in Nat /\ t \in Nat /\ p \in Nat
    BY <1>1, RateLimitsAssumption DEF Tick, RateLimitsTypeOK, SlidingEntry
  <2>2. /\ e.exp <= now => t = 0 /\ p <= e.curr
        /\ e.exp < now => p = 0
        /\ e.exp - Window < now /\ now < e.exp => t + p <= e.curr
        /\ now = e.exp - Window => t <= e.curr /\ p <= e.prev
        /\ e.exp - Window <= now
    BY <1>1 DEF SlidingCounted, Tick
  <2>3. sliding'[c] = e /\ recent'[c].this = 0 /\ recent'[c].previous = t
    BY DEF Tick
  <2> HIDE DEF e, t, p
  <2> QED
    BY <2>1, <2>2, <2>3
<1> QED
  BY <1>2, <1>3, <1>4, <1>5, <1>6 DEF RateLimitsInv

(* Every step preserves RateLimitsInv. *)
LEMMA RateLimitsInvStep ==
  RateLimitsInv /\ [RateLimitsNext]_rateLimitsVars => RateLimitsInv'
<1> SUFFICES ASSUME RateLimitsInv, [RateLimitsNext]_rateLimitsVars
             PROVE  RateLimitsInv'
  OBVIOUS
<1>1. ASSUME NEW c \in Client, Analyze(c) PROVE RateLimitsInv'
  BY <1>1, AnalyzePreserves
<1>2. ASSUME NEW c \in Client, Build(c) PROVE RateLimitsInv'
  BY <1>2, BuildPreserves
<1>3. ASSUME NEW u \in User, CreatePlace(u) PROVE RateLimitsInv'
  BY <1>3, CreatePlacePreserves
<1>4. CASE Tick
  BY <1>4, TickPreserves
<1>5. CASE UNCHANGED rateLimitsVars
  BY <1>5
  DEF rateLimitsVars, RateLimitsInv, RateLimitsTypeOK, FixedCounted,
      SlidingCounted, SlidingAges, RefusalIsReal, NoDoubleBurst,
      QuietClientIsAdmitted
<1>6. ASSUME NEW c \in Client, SpendBudget(c) PROVE RateLimitsInv'
  BY <1>6, SpendBudgetPreserves
<1> QED
  BY <1>1, <1>2, <1>3, <1>4, <1>5, <1>6 DEF RateLimitsNext

-----------------------------------------------------------------------------
(* The inductive invariant holds, whatever the order of the requests, the  *)
(* passing of time and the accesses to Redis that fail.                    *)
THEOREM RateLimitsInvariance == RateLimitsSpec => []RateLimitsInv
BY RateLimitsInvInit, RateLimitsInvStep, PTL DEF RateLimitsSpec

(* The counters keep their types. *)
THEOREM RateLimitsTypeCorrect == RateLimitsSpec => []RateLimitsTypeOK
<1>1. RateLimitsInv => RateLimitsTypeOK
  BY DEF RateLimitsInv
<1> QED
  BY <1>1, RateLimitsInvariance, PTL

(* The daily limiter and the place limiter refuse only what exceeds their  *)
(* limits, and let no more through unless Redis fails.                     *)
THEOREM RateLimitsRefusalIsReal == RateLimitsSpec => []RefusalIsReal
<1>1. RateLimitsInv => RefusalIsReal
  BY DEF RateLimitsInv
<1> QED
  BY <1>1, RateLimitsInvariance, PTL

(* Any two consecutive seconds let a client make no more requests than one *)
(* window does.                                                            *)
THEOREM RateLimitsNoDoubleBurst == RateLimitsSpec => []NoDoubleBurst
<1>1. RateLimitsInv => NoDoubleBurst
  BY DEF RateLimitsInv
<1> QED
  BY <1>1, RateLimitsInvariance, PTL

(* Two windows without a request clear a client, also when Redis fails.    *)
THEOREM RateLimitsQuietClientIsAdmitted ==
  RateLimitsSpec => []QuietClientIsAdmitted
<1>1. RateLimitsInv => QuietClientIsAdmitted
  BY DEF RateLimitsInv
<1> QED
  BY <1>1, RateLimitsInvariance, PTL

-----------------------------------------------------------------------------
(* The share of one client in the budget of all.  Division by the length   *)
(* of a window, and multiplication with a limit, keep the order.           *)
LEMMA WindowsMonotone ==
  ASSUME NEW a \in Int, NEW b \in Int, NEW w \in Nat \ {0}, a <= b
  PROVE  a \div w \in Int /\ b \div w \in Int /\ a \div w <= b \div w
OBVIOUS

(* One window later is one more window counted. *)
LEMMA OneMoreWindow ==
  ASSUME NEW a \in Int, NEW w \in Nat \ {0}
  PROVE  (a + w) \div w = a \div w + 1
OBVIOUS

(* A span that is not negative holds a natural number of windows. *)
LEMMA NoWindowIsNegative ==
  ASSUME NEW a \in Nat, NEW w \in Nat \ {0}
  PROVE  a \div w \in Nat
OBVIOUS

(* More windows allow no less. *)
LEMMA LimitsMonotone ==
  ASSUME NEW m \in Nat, NEW a \in Int, NEW b \in Int, a <= b
  PROVE  m * a \in Int /\ m * b \in Int /\ m * a <= m * b
OBVIOUS

(* One more window allows one limit more. *)
LEMMA OneMoreLimit ==
  ASSUME NEW m \in Nat, NEW a \in Int
  PROVE  m * (a + 1) = m * a + m
OBVIOUS

(* What the windows before may have spent is a number. *)
LEMMA SpentType ==
  ASSUME NEW d \in Int, NEW b \in Int
  PROVE  Spent(d, b) \in Nat
<1> DEFINE m == Effective(UserLimit)
           x == (b - d) \div Window
<1>1. m \in Nat /\ Window \in Nat \ {0}
  BY LimitsPositive, RateLimitsAssumption
<1>2. CASE b <= d
  BY <1>2 DEF Spent
<1>3. CASE ~(b <= d)
  <2>1. x \in Nat
    BY <1>1, <1>3, NoWindowIsNegative
  <2>2. m * (x + 1) \in Nat
    BY <1>1, <2>1
  <2> QED
    BY <1>3, <2>2 DEF Spent
<1> QED
  BY <1>2, <1>3

(* A window that begins at least one window later allows one more limit.   *)
LEMMA SpentByOneMore ==
  ASSUME NEW d \in Int, NEW b \in Int, NEW c \in Int, b + Window <= c, d < c
  PROVE  Spent(d, c) >= Spent(d, b) + Effective(UserLimit)
<1> DEFINE m == Effective(UserLimit)
           x == (b - d) \div Window
           y == (c - d) \div Window
<1>1. m \in Nat /\ Window \in Nat \ {0}
  BY LimitsPositive, RateLimitsAssumption
<1>2. y \in Nat
  BY <1>1, NoWindowIsNegative
<1>3. Spent(d, c) = m * (y + 1)
  BY DEF Spent
<1>4. CASE b <= d
  <2>1. Spent(d, b) = 0
    BY <1>4 DEF Spent
  <2>2. m * (y + 1) = m * y + m /\ m * y \in Nat
    BY <1>1, <1>2, OneMoreLimit
  <2> QED
    BY <1>1, <1>3, <2>1, <2>2
<1>5. CASE ~(b <= d)
  <2>1. Spent(d, b) = m * (x + 1)
    BY <1>5 DEF Spent
  <2>2. x \in Int /\ x + 1 <= y
    <3> DEFINE z == b - d
    <3>1. z \in Int /\ z + Window \in Int /\ z + Window <= c - d /\ c - d \in Int
      BY <1>1
    <3> HIDE DEF z
    <3>2. (z + Window) \div Window = z \div Window + 1
      BY <1>1, <3>1, OneMoreWindow
    <3>3. (z + Window) \div Window <= (c - d) \div Window
      BY <1>1, <3>1, WindowsMonotone
    <3>4. z \div Window \in Int
      BY <1>1, <3>1, WindowsMonotone
    <3> QED
      BY <3>2, <3>3, <3>4 DEF z
  <2>4. m * ((x + 1) + 1) <= m * (y + 1)
    BY <1>1, <1>2, <2>2, LimitsMonotone
  <2>5. m * ((x + 1) + 1) = m * (x + 1) + m
    BY <1>1, <2>2, OneMoreLimit
  <2>6. m * (x + 1) \in Int /\ m * (y + 1) \in Int
    BY <1>1, <1>2, <2>2
  <2> HIDE DEF x, y, m
  <2> QED
    BY <1>1, <1>3, <2>1, <2>4, <2>5, <2>6 DEF m
<1> QED
  BY <1>4, <1>5

(* A request of c that the sliding window counts while Redis works: its    *)
(* entry goes on in the same window or begins one that is at least a       *)
(* window later, and a request let through is within the limit.            *)
LEMMA EntryAfterHit ==
  ASSUME RateLimitsInv, NEW c \in Client, NEW e \in SlidingReads(c),
         NEW written \in BOOLEAN, NEW n \in Nat,
         n >= SlidingFaults(c, e, written),
         CountSliding(c, e, written), Fault(n), faults' = 0
  PROVE  /\ faults = 0
         /\ sliding' = [sliding EXCEPT ![c] = SlidingHit(e)]
         /\ SlidingHit(e) \in SlidingEntry
         /\ now < SlidingHit(e).exp /\ SlidingHit(e).curr >= 1
         /\ \/ /\ SlidingHit(e).exp = sliding[c].exp
               /\ SlidingHit(e).curr = sliding[c].curr + 1
            \/ /\ SlidingHit(e).exp >= sliding[c].exp + Window
               /\ SlidingHit(e).curr = 1
         /\ SlidingPasses(e) => SlidingHit(e).curr <= Effective(UserLimit)
<1> DEFINE h == SlidingHit(e)
           old == sliding[c]
<1>1. /\ now \in Nat /\ faults \in Nat /\ Window \in Nat \ {0}
      /\ old \in SlidingEntry /\ e \in SlidingEntry
      /\ e = old \/ e = NewSlidingEntry
  BY RateLimitsAssumption
  DEF RateLimitsInv, RateLimitsTypeOK, SlidingReads, SlidingEntry, NewSlidingEntry
<1>2. h \in SlidingEntry /\ now < h.exp /\ h.curr >= 1
  <2>1. h.curr >= 1
    BY <1>1 DEF SlidingHit, SlidingEntry
  <2> QED
    BY <1>1, <2>1, SlidingHitType
<1>3. faults = 0 /\ written /\ (e = old \/ (e = NewSlidingEntry /\ Dropped(old)))
  <2> DEFINE other == e # old /\ ~Dropped(old)
             x == Count(other)
             y == Count(~written)
  <2>1. x \in Nat /\ (x = 0 => ~other)
    BY DEF Count
  <2>2. y \in Nat /\ (y = 0 => written)
    BY DEF Count
  <2>3. n >= x + y /\ faults' = faults + n
    BY DEF Fault, SlidingFaults
  <2> HIDE DEF x, y
  <2>4. faults = 0 /\ x = 0 /\ y = 0
    BY <1>1, <2>1, <2>2, <2>3
  <2> QED
    BY <1>1, <2>1, <2>2, <2>4, Zenon
<1>4. sliding' = [sliding EXCEPT ![c] = h]
  BY <1>3 DEF CountSliding
<1>5. \/ h.exp = old.exp /\ h.curr = old.curr + 1
      \/ h.exp >= old.exp + Window /\ h.curr = 1
  <2>1. CASE e = NewSlidingEntry /\ Dropped(old)
    BY <1>1, <2>1 DEF SlidingHit, NewSlidingEntry, Dropped, SlidingEntry
  <2>2. CASE e = old /\ old.exp = 0
    BY <1>1, <2>2 DEF SlidingHit, SlidingEntry
  <2>3. CASE e = old /\ old.exp # 0
    BY <1>1, <2>3 DEF SlidingHit, SlidingEntry
  <2> QED
    BY <1>3, <2>1, <2>2, <2>3
<1>6. SlidingPasses(e) => h.curr <= Effective(UserLimit)
  <2>1. Rate(h) >= h.curr /\ Rate(h) \in Nat /\ h.curr \in Nat
    BY <1>1, <1>2, RateBounds DEF SlidingEntry
  <2>2. SlidingPasses(e) => Rate(h) <= Effective(UserLimit)
    BY DEF SlidingPasses
  <2> QED
    BY <2>1, <2>2, LimitsPositive
<1> QED
  BY <1>2, <1>3, <1>4, <1>5, <1>6

(* The share of one client: d is dawn, b and e bound its window, v are the *)
(* hits it counts and u is what the client has spent.                      *)
ShareOf(u, v, d, b, e) ==
  /\ u > 0 => d < e
  /\ u <= Spent(d, b) + v
  /\ u <= Spent(d, b) + Effective(UserLimit)

(* A hit that spends x, nothing if it is refused, keeps the share.         *)
LEMMA ShareAfterHit ==
  ASSUME NEW d \in Int, NEW b \in Int, NEW c \in Int,
         NEW u \in Nat, NEW v \in Nat, NEW w \in Nat, NEW x \in {0, 1},
         ShareOf(u, v, d, b, b + Window),
         d < c + Window,
         x = 1 => w <= Effective(UserLimit),
         (c = b /\ w = v + 1) \/ (c >= b + Window /\ w = 1)
  PROVE  ShareOf(u + x, w, d, c, c + Window)
<1> DEFINE m == Effective(UserLimit)
           s == Spent(d, b)
           t == Spent(d, c)
<1>1. m \in Nat \ {0} /\ Window \in Nat \ {0} /\ s \in Nat /\ t \in Nat
  BY LimitsPositive, RateLimitsAssumption, SpentType
<1>2. (u > 0 => d < b + Window) /\ u <= s + v /\ u <= s + m
  BY DEF ShareOf
<1>3. CASE c = b /\ w = v + 1
  <2>1. t = s
    BY <1>3
  <2> HIDE DEF m, s, t
  <2>2. u + x <= t + w /\ u + x <= t + m
    <3>1. x = 1 => w <= m
      BY DEF m
    <3> QED
      BY <1>1, <1>2, <1>3, <2>1, <3>1
  <2> QED
    BY <2>2 DEF ShareOf, m, t
<1>4. CASE c >= b + Window /\ w = 1 /\ d < c
  <2>1. t >= s + m
    BY <1>4, SpentByOneMore
  <2> HIDE DEF m, s, t
  <2>2. u + x <= t + w /\ u + x <= t + m
    BY <1>1, <1>2, <1>4, <2>1
  <2> QED
    BY <2>2 DEF ShareOf, m, t
<1>5. CASE c >= b + Window /\ w = 1 /\ ~(d < c)
  <2>1. u = 0
    BY <1>1, <1>2, <1>5
  <2> HIDE DEF m, s, t
  <2>2. u + x <= t + w /\ u + x <= t + m
    BY <1>1, <1>5, <2>1
  <2> QED
    BY <2>2 DEF ShareOf, m, t
<1> QED
  BY <1>3, <1>4, <1>5

(* The day's window after a request: as it was, or one that begins now.    *)
LEMMA DawnAfterHit ==
  ASSUME RateLimitsInv, ShareCounted, NEW d \in FixedReads(Global),
         NEW noted \in BOOLEAN, CountFixed(Global, d, noted), UNCHANGED now
  PROVE  /\ Dawn \in Int /\ Dawn' \in Int
         /\ Dawn' <= now
         /\ fixed'[Global].exp = fixed[Global].exp => Dawn' = Dawn
         /\ fixed'[Global].exp # fixed[Global].exp => Dawn' = now
<1> DEFINE old == fixed[Global]
           h == FixedHit(d, Length(Global))
<1>1. /\ now \in Nat /\ Day \in Nat \ {0} /\ Length(Global) = Day
      /\ old \in FixedEntry /\ Global \in FixedKey
      /\ d = old \/ d = NewFixedEntry
  BY RateLimitsAssumption
  DEF RateLimitsInv, RateLimitsTypeOK, FixedReads, FixedKey, Length
<1>2. fixed'[Global] = IF noted THEN h ELSE old
  BY <1>1 DEF CountFixed, RateLimitsInv, RateLimitsTypeOK
<1>3. h.exp = old.exp \/ h.exp = now + Day
  BY <1>1 DEF FixedHit, FixedEntry, NewFixedEntry
<1>4. old.exp \in Nat /\ Dawn = old.exp - Day /\ Dawn' = fixed'[Global].exp - Day
  BY <1>1 DEF Dawn, FixedEntry
<1>5. Dawn <= now
  BY DEF ShareCounted
<1> HIDE DEF old, h
<1> QED
  BY <1>1, <1>2, <1>3, <1>4, <1>5 DEF old

(* ShareCounted, told of one client at a time. *)
LEMMA SharesOfClients ==
  ASSUME RateLimitsInv
  PROVE  ShareCounted <=>
           /\ Dawn <= now
           /\ \A c \in Client : carried[c] <= used[c] + waiting[c]
           /\ faults = 0 => \A c \in Client :
                ShareOf(Load(c), sliding[c].curr, Dawn, Beginning(c), Beginning(c) + Window)
<1>1. \A c \in Client : Beginning(c) + Window = sliding[c].exp
  BY RateLimitsAssumption
  DEF RateLimitsInv, RateLimitsTypeOK, SlidingEntry, Beginning
<1> QED
  BY <1>1 DEF ShareCounted, ShareOf, SpentBefore

(* A request counted by the sliding window of c joins its load, if x is 1. *)
LEMMA ShareAfterRequest ==
  ASSUME RateLimitsInv, RateLimitsInv', ShareCounted, UNCHANGED now,
         NEW c \in Client, NEW e \in SlidingReads(c), NEW written \in BOOLEAN,
         NEW n \in Nat, n >= SlidingFaults(c, e, written),
         CountSliding(c, e, written), Fault(n), faults' = 0,
         NEW x \in {0, 1}, x = 1 => SlidingPasses(e),
         Dawn \in Int,
         Dawn' = Dawn,
         \A k \in Client : Load(k)' = Load(k) + (IF k = c THEN x ELSE 0)
  PROVE  \A k \in Client :
           ShareOf(Load(k)', sliding'[k].curr, Dawn', Beginning(k)', Beginning(k)' + Window)
<1> DEFINE h == SlidingHit(e)
           old == sliding[c]
<1>1. /\ faults = 0
      /\ sliding' = [sliding EXCEPT ![c] = h]
      /\ h \in SlidingEntry
      /\ now < h.exp /\ h.curr >= 1
      /\ \/ h.exp = old.exp /\ h.curr = old.curr + 1
         \/ h.exp >= old.exp + Window /\ h.curr = 1
      /\ x = 1 => h.curr <= Effective(UserLimit)
  BY EntryAfterHit
<1>2. /\ now \in Nat /\ Window \in Nat \ {0} /\ Effective(UserLimit) \in Nat \ {0}
      /\ sliding \in [Client -> SlidingEntry] /\ used \in [Client -> Nat]
      /\ Dawn <= now
  BY RateLimitsAssumption, LimitsPositive DEF RateLimitsInv, RateLimitsTypeOK, ShareCounted
<1>3. \A k \in Client :
        ShareOf(Load(k), sliding[k].curr, Dawn, Beginning(k), Beginning(k) + Window)
  BY <1>1, SharesOfClients
<1>4. \A k \in Client : Beginning(k)' = sliding'[k].exp - Window /\ Beginning(k)' <= now
  BY <1>1, <1>2 DEF Beginning, RateLimitsInv, SlidingCounted
<1>5. \A k \in Client : Beginning(k) \in Int /\ Beginning(k)' \in Int
  BY <1>1, <1>2, <1>4 DEF Beginning, SlidingEntry
<1>6. /\ Dawn' = Dawn
      /\ \A k \in Client : Load(k) \in Nat /\ Load(k)' = Load(k) + (IF k = c THEN x ELSE 0)
  BY DEF Load, RateLimitsInv, RateLimitsTypeOK, ShareCounted
<1> SUFFICES ASSUME NEW k \in Client
             PROVE  ShareOf(Load(k)', sliding'[k].curr, Dawn', Beginning(k)',
                            Beginning(k)' + Window)
  OBVIOUS
<1>7. CASE k # c
  <2>1. sliding'[k] = sliding[k] /\ Beginning(k)' = Beginning(k) /\ Load(k)' = Load(k)
    BY <1>1, <1>2, <1>4, <1>6, <1>7 DEF Beginning
  <2> QED
    BY <1>3, <1>6, <2>1
<1>8. CASE k = c
  <2> DEFINE b == Beginning(c)
             b2 == Beginning(c)'
  <2>1. sliding'[c] = h /\ b2 = h.exp - Window /\ b = old.exp - Window
    BY <1>1, <1>2, <1>4 DEF Beginning
  <2>2. h.exp \in Nat /\ old.exp \in Nat /\ h.curr \in Nat /\ old.curr \in Nat
    BY <1>1, <1>2 DEF SlidingEntry
  <2>3. /\ \/ b2 = b /\ h.curr = old.curr + 1
           \/ b2 >= b + Window /\ h.curr = 1
        /\ Dawn < b2 + Window
        /\ b \in Int /\ b2 \in Int
    BY <1>1, <1>2, <2>1, <2>2
  <2>4. Load(c) \in Nat /\ Load(c)' = Load(c) + x
    BY <1>2, <1>6
  <2>5. ShareOf(Load(c), old.curr, Dawn, b, b + Window)
    BY <1>3
  <2> HIDE DEF h, old, b, b2
  <2>6. ShareOf(Load(c) + x, h.curr, Dawn, b2, b2 + Window)
    <3>1. x = 1 => h.curr <= Effective(UserLimit)
      BY <1>1
    <3> QED
      BY <2>2, <2>3, <2>4, <2>5, <3>1, ShareAfterHit
  <2> QED
    BY <1>6, <1>8, <2>1, <2>4, <2>6 DEF b2
<1> QED
  BY <1>7, <1>8

(* Every request and every tick keeps the count. *)
LEMMA ShareCountedStep ==
  ASSUME RateLimitsInv, RateLimitsInv', ShareCounted,
         [RateLimitsNext]_rateLimitsVars
  PROVE  ShareCounted'
<1>1. Dawn \in Int /\ now \in Nat /\ Dawn <= now
  BY RateLimitsAssumption
  DEF RateLimitsInv, RateLimitsTypeOK, FixedEntry, FixedKey, Dawn, ShareCounted
<1>2. SUFFICES /\ Dawn' <= now'
               /\ \A k \in Client : carried'[k] <= used'[k] + waiting'[k]
               /\ faults' = 0 => \A k \in Client :
                    ShareOf(Load(k)', sliding'[k].curr, Dawn', Beginning(k)',
                            Beginning(k)' + Window)
  <2>1. \A c \in Client : Beginning(c)' + Window = sliding'[c].exp
    BY RateLimitsAssumption
    DEF RateLimitsInv, RateLimitsTypeOK, SlidingEntry, Beginning
  <2> QED
    BY <2>1 DEF ShareCounted, ShareOf, SpentBefore
<1>3. faults = 0 => \A k \in Client :
        ShareOf(Load(k), sliding[k].curr, Dawn, Beginning(k), Beginning(k) + Window)
  BY SharesOfClients
<1>4. ASSUME NEW c \in Client, Analyze(c)
      PROVE  /\ Dawn' <= now'
             /\ \A k \in Client : carried'[k] <= used'[k] + waiting'[k]
             /\ faults' = 0 => \A k \in Client :
                  ShareOf(Load(k)', sliding'[k].curr, Dawn', Beginning(k)',
                          Beginning(k)' + Window)
  <2>1. PICK e \in SlidingReads(c), written \in BOOLEAN :
          /\ Fault(SlidingFaults(c, e, written))
          /\ CountSliding(c, e, written)
          /\ UNCHANGED <<now, fixed, waiting, reached, used, carried>>
    BY <1>4 DEF Analyze
  <2> DEFINE n == SlidingFaults(c, e, written)
  <2>2. Dawn' = Dawn /\ now' = now
    BY <2>1 DEF Dawn
  <2>3. n \in Nat
    BY FaultsAreNatural
  <2>4. \A k \in Client : /\ waiting'[k] = waiting[k] + (IF k = c THEN 0 ELSE 0)
                         /\ Load(k)' = Load(k) + (IF k = c THEN 0 ELSE 0)
                         /\ carried'[k] <= used'[k] + waiting'[k]
    BY <2>1 DEF Load, RateLimitsInv, RateLimitsTypeOK, ShareCounted
  <2>5. ASSUME faults' = 0
        PROVE  \A k \in Client :
                 ShareOf(Load(k)', sliding'[k].curr, Dawn', Beginning(k)',
                         Beginning(k)' + Window)
    <3> HIDE DEF n
    <3>1. Fault(n) /\ n >= SlidingFaults(c, e, written)
      BY <2>1, <2>3 DEF n
    <3> QED
      BY <1>1, <2>1, <2>2, <2>3, <2>4, <2>5, <3>1, ShareAfterRequest
  <2> QED
    BY <1>1, <2>2, <2>4, <2>5
<1>5. ASSUME NEW c \in Client, Build(c)
      PROVE  /\ Dawn' <= now'
             /\ \A k \in Client : carried'[k] <= used'[k] + waiting'[k]
             /\ faults' = 0 => \A k \in Client :
                  ShareOf(Load(k)', sliding'[k].curr, Dawn', Beginning(k)',
                          Beginning(k)' + Window)
  <2>1. PICK e \in SlidingReads(c), written \in BOOLEAN :
          /\ Fault(SlidingFaults(c, e, written))
          /\ CountSliding(c, e, written)
          /\ SlidingPasses(e)
          /\ waiting' = [waiting EXCEPT ![c] = @ + 1]
          /\ UNCHANGED <<now, fixed, reached, used, carried>>
    BY <1>5 DEF Build
  <2> DEFINE n == SlidingFaults(c, e, written)
  <2>2. Dawn' = Dawn /\ now' = now
    BY <2>1 DEF Dawn
  <2>3. n \in Nat
    BY FaultsAreNatural
  <2>4. \A k \in Client : /\ waiting'[k] = waiting[k] + (IF k = c THEN 1 ELSE 0)
                         /\ Load(k)' = Load(k) + (IF k = c THEN 1 ELSE 0)
                         /\ carried'[k] <= used'[k] + waiting'[k]
    BY <2>1 DEF Load, RateLimitsInv, RateLimitsTypeOK, ShareCounted
  <2>5. ASSUME faults' = 0
        PROVE  \A k \in Client :
                 ShareOf(Load(k)', sliding'[k].curr, Dawn', Beginning(k)',
                         Beginning(k)' + Window)
    <3> HIDE DEF n
    <3>1. Fault(n) /\ n >= SlidingFaults(c, e, written)
      BY <2>1, <2>3 DEF n
    <3> QED
      BY <1>1, <2>1, <2>2, <2>3, <2>4, <2>5, <3>1, ShareAfterRequest
  <2> QED
    BY <1>1, <2>2, <2>4, <2>5
<1>6. ASSUME NEW c \in Client, SpendBudget(c)
      PROVE  /\ Dawn' <= now'
             /\ \A k \in Client : carried'[k] <= used'[k] + waiting'[k]
             /\ faults' = 0 => \A k \in Client :
                  ShareOf(Load(k)', sliding'[k].curr, Dawn', Beginning(k)',
                          Beginning(k)' + Window)
  <2>1. PICK d \in FixedReads(Global), noted \in BOOLEAN :
          /\ waiting[c] > 0
          /\ Fault(FixedFaults(Global, d, noted))
          /\ CountFixed(Global, d, noted)
          /\ waiting' = [waiting EXCEPT ![c] = @ - 1]
          /\ LET sameDay == fixed'[Global].exp = fixed[Global].exp IN
               /\ used' = [k \in Client |-> (IF sameDay THEN used[k] ELSE 0) + Count(k = c)]
               /\ carried' = IF sameDay THEN carried ELSE waiting
          /\ UNCHANGED <<now, sliding>>
    BY <1>6 DEF SpendBudget
  <2>2. /\ Dawn' \in Int /\ Dawn' <= now
        /\ fixed'[Global].exp = fixed[Global].exp => Dawn' = Dawn
        /\ fixed'[Global].exp # fixed[Global].exp => Dawn' = now
    BY <2>1, DawnAfterHit
  <2>3. faults' = 0 => faults = 0
    BY <2>1, FaultsAreNatural, FaultsCounted DEF RateLimitsInv
  <2>4. \A k \in Client : /\ waiting[k] \in Nat /\ used[k] \in Nat /\ carried[k] \in Nat
                         /\ carried[k] <= used[k] + waiting[k]
                         /\ waiting'[k] = waiting[k] - (IF k = c THEN 1 ELSE 0)
    BY <2>1 DEF RateLimitsInv, RateLimitsTypeOK, ShareCounted
  <2>5. CASE fixed'[Global].exp = fixed[Global].exp
    <3>1. \A k \in Client : /\ used'[k] = used[k] + (IF k = c THEN 1 ELSE 0)
                           /\ carried'[k] = carried[k]
      BY <2>1, <2>5 DEF Count
    <3>2. \A k \in Client : /\ Load(k)' = Load(k)
                           /\ Beginning(k)' = Beginning(k) /\ sliding'[k] = sliding[k]
                           /\ carried'[k] <= used'[k] + waiting'[k]
      BY <2>1, <2>4, <3>1 DEF Load, Beginning
    <3> QED
      BY <1>3, <2>1, <2>2, <2>3, <2>5, <3>2
  <2>6. CASE fixed'[Global].exp # fixed[Global].exp
    <3>1. \A k \in Client : /\ used'[k] = (IF k = c THEN 1 ELSE 0)
                           /\ carried'[k] = waiting[k]
      BY <2>1, <2>6 DEF Count
    <3>2. \A k \in Client : Load(k)' = 0 /\ carried'[k] <= used'[k] + waiting'[k]
      BY <2>4, <3>1 DEF Load
    <3>3. \A k \in Client : Beginning(k)' \in Int /\ sliding'[k].curr \in Nat
      BY RateLimitsAssumption
      DEF RateLimitsInv, RateLimitsTypeOK, SlidingEntry, Beginning
    <3>4. \A k \in Client : Spent(Dawn', Beginning(k)') \in Nat
      BY <2>2, <3>3, SpentType
    <3>5. \A k \in Client :
            ShareOf(Load(k)', sliding'[k].curr, Dawn', Beginning(k)', Beginning(k)' + Window)
      BY <3>2, <3>3, <3>4, LimitsPositive DEF ShareOf
    <3> QED
      BY <2>1, <2>2, <3>2, <3>5
  <2> QED
    BY <2>5, <2>6
<1>7. CASE Tick \/ (\E u \in User : CreatePlace(u)) \/ UNCHANGED rateLimitsVars
  <2>1. /\ now' >= now /\ sliding' = sliding
        /\ UNCHANGED <<used, waiting, carried>>
        /\ fixed'[Global] = fixed[Global]
        /\ faults' = 0 => faults = 0
    <3>1. CASE Tick \/ UNCHANGED rateLimitsVars
      BY <1>1, <3>1 DEF Tick, rateLimitsVars
    <3>2. ASSUME NEW u \in User, CreatePlace(u)
          PROVE  /\ UNCHANGED <<now, sliding, used, waiting, carried>>
                 /\ fixed'[Global] = fixed[Global]
                 /\ faults' = 0 => faults = 0
      <4>1. PICK d \in FixedReads(u), noted \in BOOLEAN :
              Fault(FixedFaults(u, d, noted)) /\ CountFixed(u, d, noted)
        BY <3>2 DEF CreatePlace
      <4>2. faults' = 0 => faults = 0
        BY <4>1, FaultsAreNatural, FaultsCounted DEF RateLimitsInv
      <4>3. u # Global /\ Global \in FixedKey
        BY RateLimitsAssumption DEF FixedKey
      <4>4. fixed'[Global] = fixed[Global]
        BY <4>1, <4>3 DEF CountFixed, RateLimitsInv, RateLimitsTypeOK
      <4> QED
        BY <3>2, <4>2, <4>4 DEF CreatePlace
    <3> QED
      BY <1>1, <1>7, <3>1, <3>2
  <2>2. /\ Dawn' = Dawn
        /\ \A k \in Client : Beginning(k)' = Beginning(k) /\ Load(k)' = Load(k)
        /\ \A k \in Client : carried'[k] <= used'[k] + waiting'[k]
    BY <2>1 DEF Dawn, Beginning, Load, ShareCounted
  <2>3. Dawn' <= now'
    <3>1. now' \in Nat
      BY DEF RateLimitsInv, RateLimitsTypeOK
    <3> QED
      BY <1>1, <2>1, <2>2, <3>1
  <2> QED
    BY <1>3, <2>1, <2>2, <2>3
<1> QED
  BY <1>4, <1>5, <1>6, <1>7 DEF RateLimitsNext

(* Nobody has spent anything at the first dawn. *)
LEMMA ShareCountedInit == RateLimitsInit => ShareCounted
<1> SUFFICES ASSUME RateLimitsInit PROVE ShareCounted
  OBVIOUS
<1>1. /\ Dawn = 0 - Day /\ Day \in Nat \ {0} /\ Global \in FixedKey /\ now = 0
      /\ \A c \in Client : used[c] = 0 /\ waiting[c] = 0 /\ carried[c] = 0
      /\ \A c \in Client : sliding[c].curr = 0 /\ Beginning(c) = 0 - Window
      /\ Window \in Nat \ {0}
  BY RateLimitsAssumption
  DEF RateLimitsInit, Dawn, Beginning, NewFixedEntry, NewSlidingEntry, FixedKey
<1>2. \A c \in Client : SpentBefore(c) \in Nat
  <2>1. Dawn \in Int /\ \A c \in Client : Beginning(c) \in Int
    BY <1>1
  <2> QED
    BY <2>1, SpentType DEF SpentBefore
<1> QED
  BY <1>1, <1>2, LimitsPositive DEF ShareCounted, Load

(* One client spends at most its own limit of the daily budget for each    *)
(* window that the day has touched so far, besides what was between the    *)
(* limiters when the day began, as long as Redis works.                    *)
THEOREM RateLimitsFairShare == RateLimitsSpec => []FairShare
<1>1. RateLimitsSpec => []ShareCounted
  <2>1. RateLimitsInv /\ RateLimitsInv' /\ ShareCounted /\ [RateLimitsNext]_rateLimitsVars
          => ShareCounted'
    BY ShareCountedStep
  <2> QED
    BY <2>1, ShareCountedInit, RateLimitsInvariance, PTL DEF RateLimitsSpec
<1>2. ASSUME RateLimitsInv, ShareCounted, faults = 0, NEW c \in Client
      PROVE  used[c] <= carried[c] + Effective(UserLimit) * ((now - Dawn) \div Window + 2)
  <2> DEFINE m == Effective(UserLimit)
             x == (Beginning(c) - Dawn) \div Window
             y == (now - Dawn) \div Window
  <2>1. /\ m \in Nat \ {0} /\ Window \in Nat \ {0} /\ now \in Nat
        /\ Dawn \in Int /\ Beginning(c) \in Int /\ used[c] \in Nat
        /\ Dawn <= now /\ Beginning(c) <= now
        /\ carried[c] \in Nat /\ waiting[c] \in Nat
        /\ Load(c) <= SpentBefore(c) + m
    BY <1>2, RateLimitsAssumption, LimitsPositive
    DEF RateLimitsInv, RateLimitsTypeOK, SlidingEntry, FixedEntry, FixedKey,
        SlidingCounted, ShareCounted, Dawn, Beginning
  <2>2. y \in Nat
    BY <2>1, NoWindowIsNegative
  <2>3. m * (y + 2) = m * (y + 1) + m /\ m * (y + 1) = m * y + m /\ m * y \in Nat
    <3> HIDE DEF m, y
    <3>1. m * ((y + 1) + 1) = m * (y + 1) + m /\ m * (y + 1) = m * y + m
      BY <2>1, <2>2, OneMoreLimit
    <3>2. (y + 1) + 1 = y + 2 /\ m * y \in Nat
      BY <2>1, <2>2
    <3> QED
      BY <3>1, <3>2
  <2>4. SpentBefore(c) <= m * (y + 1)
    <3>1. CASE Beginning(c) <= Dawn
      BY <2>1, <2>2, <2>3, <3>1 DEF SpentBefore, Spent
    <3>2. CASE ~(Beginning(c) <= Dawn)
      <4>1. SpentBefore(c) = m * (x + 1)
        BY <3>2 DEF SpentBefore, Spent
      <4>2. x \in Int /\ x <= y
        <5> DEFINE z == Beginning(c) - Dawn
                   t == now - Dawn
        <5>1. z \in Int /\ t \in Int /\ z <= t
          BY <2>1
        <5> HIDE DEF z, t
        <5>2. z \div Window \in Int /\ z \div Window <= t \div Window
          BY <2>1, <5>1, WindowsMonotone
        <5> QED
          BY <5>2 DEF z, t
      <4>3. m * (x + 1) <= m * (y + 1)
        BY <2>1, <2>2, <4>2, LimitsMonotone
      <4> QED
        BY <4>1, <4>3
    <3> QED
      BY <3>1, <3>2
  <2>5. SpentBefore(c) \in Nat
    BY <2>1, SpentType DEF SpentBefore
  <2> HIDE DEF m, x, y
  <2>6. used[c] <= carried[c] + m * (y + 2)
    BY <2>1, <2>2, <2>3, <2>4, <2>5 DEF Load
  <2> QED
    BY <2>6 DEF m, y
<1>3. RateLimitsInv /\ ShareCounted => FairShare
  BY <1>2 DEF FairShare, Dawn
<1> QED
  BY <1>1, <1>3, RateLimitsInvariance, PTL
=============================================================================
