-------------------------- MODULE AllowedTagsProofs --------------------------
(***************************************************************************)
(* Proofs about GetAllowedTags, for any number of requests and places, any *)
(* tags and any time to live.                                              *)
(***************************************************************************)
EXTENDS AllowedTags, TLAPS

(* A list of tags is never None, so a cached list can be told from no      *)
(* list.                                                                   *)
LEMMA GetAllTagsType == GetAllTags \in TagSets
BY AllowedTagsAssumption DEF GetAllTags, TagSets

(* The query returns a set of tags, also after a step. *)
LEMMA GetAllTagsPrimed == GetAllTags' \in TagSets
BY AllowedTagsAssumption DEF GetAllTags, TagSets

(* The tags of the table only grow: a row once inserted keeps its tags and *)
(* keeps counting after its soft deletion.                                 *)
LEMMA TableGrows ==
  ASSUME AllowedTagsTypeOK, NEW p \in Place, CreatePlace(p) \/ DeletePlace(p)
  PROVE  GetAllTags \subseteq GetAllTags'
<1>1. \A q \in Place : row[q] # "absent" => row'[q] # "absent"
  BY DEF CreatePlace, DeletePlace, AllowedTagsTypeOK
<1> QED
  BY <1>1 DEF GetAllTags

(* Before the first request no list exists. *)
LEMMA AllowedTagsInvInit == AllowedTagsInit => AllowedTagsInv
<1> SUFFICES ASSUME AllowedTagsInit PROVE AllowedTagsInv
  OBVIOUS
<1>1. AllowedTagsTypeOK
  BY GetAllTagsType DEF AllowedTagsInit, AllowedTagsTypeOK, TagSets, PcState
<1> QED
  BY <1>1 DEF AllowedTagsInit, AllowedTagsInv, ListsAreVersions, MissIsFresh

(* Every step of the requests, of the table and of Redis preserves it. *)
LEMMA AllowedTagsInvStep ==
  AllowedTagsInv /\ [AllowedTagsNext]_allowedTagsVars => AllowedTagsInv'
<1> SUFFICES ASSUME AllowedTagsInv, [AllowedTagsNext]_allowedTagsVars
             PROVE  AllowedTagsInv'
  OBVIOUS
<1> USE AllowedTagsAssumption
<1> USE DEF AllowedTagsInv
<1>1. ASSUME NEW p \in Place, CreatePlace(p) \/ DeletePlace(p)
      PROVE  AllowedTagsInv'
  <2>1. GetAllTags \subseteq GetAllTags'
    BY <1>1, TableGrows
  <2>2. versions' = versions \cup {GetAllTags'} /\ GetAllTags' \in TagSets
    BY <1>1, GetAllTagsPrimed DEF CreatePlace, DeletePlace
  <2>3. AllowedTagsTypeOK'
    BY <1>1, <2>2 DEF CreatePlace, DeletePlace, AllowedTagsTypeOK
  <2>4. UNCHANGED <<cache, pc, tags, since, missed>>
    BY <1>1 DEF CreatePlace, DeletePlace
  <2>5. ListsAreVersions'
    BY <2>1, <2>2, <2>4 DEF ListsAreVersions
  <2> QED
    BY <2>1, <2>3, <2>4, <2>5 DEF MissIsFresh
<1>2. CASE Expire
  <2>1. GetAllTags' = GetAllTags
    BY <1>2 DEF Expire, GetAllTags
  <2> QED
    BY <1>2, <2>1 DEF Expire, AllowedTagsTypeOK, ListsAreVersions, MissIsFresh
<1>3. ASSUME NEW r \in Request, Begin(r) PROVE AllowedTagsInv'
  <2>1. GetAllTags' = GetAllTags
    BY <1>3 DEF Begin, GetAllTags
  <2>2. AllowedTagsTypeOK'
    BY <1>3, GetAllTagsType DEF Begin, AllowedTagsTypeOK, PcState
  <2>3. ListsAreVersions'
    BY <1>3, <2>1 DEF Begin, ListsAreVersions
  <2> QED
    BY <1>3, <2>1, <2>2, <2>3 DEF Begin, AllowedTagsTypeOK, MissIsFresh
<1>4. ASSUME NEW r \in Request, CacheHit(r) PROVE AllowedTagsInv'
  <2>1. GetAllTags' = GetAllTags
    BY <1>4 DEF CacheHit, GetAllTags
  <2>2. AllowedTagsTypeOK'
    BY <1>4 DEF CacheHit, AllowedTagsTypeOK, PcState
  <2>3. ListsAreVersions'
    BY <1>4, <2>1 DEF CacheHit, ListsAreVersions, AllowedTagsTypeOK
  <2> QED
    BY <1>4, <2>1, <2>2, <2>3 DEF CacheHit, AllowedTagsTypeOK, MissIsFresh
<1>5. ASSUME NEW r \in Request, CacheMiss(r) PROVE AllowedTagsInv'
  <2>1. GetAllTags' = GetAllTags
    BY <1>5 DEF CacheMiss, GetAllTags
  <2> QED
    BY <1>5, <2>1
    DEF CacheMiss, AllowedTagsTypeOK, PcState, ListsAreVersions, MissIsFresh
<1>6. ASSUME NEW r \in Request, Query(r) PROVE AllowedTagsInv'
  <2>1. GetAllTags' = GetAllTags /\ GetAllTags # None
    BY <1>6, GetAllTagsType DEF Query, GetAllTags, TagSets
  <2>2. AllowedTagsTypeOK'
    BY <1>6, GetAllTagsType DEF Query, AllowedTagsTypeOK, PcState
  <2>3. ListsAreVersions'
    BY <1>6, <2>1 DEF Query, ListsAreVersions, AllowedTagsTypeOK
  <2> QED
    BY <1>6, <2>1, <2>2, <2>3 DEF Query, AllowedTagsTypeOK, MissIsFresh
<1>7. ASSUME NEW r \in Request, QueryFailed(r) \/ StoreFailed(r)
      PROVE  AllowedTagsInv'
  <2>1. GetAllTags' = GetAllTags
    BY <1>7 DEF QueryFailed, StoreFailed, GetAllTags
  <2> QED
    BY <1>7, <2>1
    DEF QueryFailed, StoreFailed, AllowedTagsTypeOK, PcState, ListsAreVersions, MissIsFresh
<1>8. ASSUME NEW r \in Request, Store(r) PROVE AllowedTagsInv'
  <2>1. GetAllTags' = GetAllTags
    BY <1>8 DEF Store, GetAllTags
  <2>2. AllowedTagsTypeOK' /\ ListsAreVersions'
    BY <1>8, <2>1 DEF Store, AllowedTagsTypeOK, PcState, ListsAreVersions
  <2> QED
    BY <1>8, <2>1, <2>2 DEF Store, AllowedTagsTypeOK, MissIsFresh
<1>9. ASSUME NEW r \in Request, Return(r) PROVE AllowedTagsInv'
  <2>1. GetAllTags' = GetAllTags
    BY <1>9 DEF Return, GetAllTags
  <2>2. AllowedTagsTypeOK'
    BY <1>9 DEF Return, AllowedTagsTypeOK, PcState, TagSets
  <2> QED
    BY <1>9, <2>1, <2>2 DEF Return, AllowedTagsTypeOK, ListsAreVersions, MissIsFresh
<1>10. CASE UNCHANGED allowedTagsVars
  <2>1. GetAllTags' = GetAllTags
    BY <1>10 DEF allowedTagsVars, GetAllTags
  <2> QED
    BY <1>10, <2>1
    DEF allowedTagsVars, AllowedTagsTypeOK, ListsAreVersions, MissIsFresh
<1> QED
  BY <1>1, <1>2, <1>3, <1>4, <1>5, <1>6, <1>7, <1>8, <1>9, <1>10
  DEF AllowedTagsNext, RequestStep

(* AllowedTagsInv holds however requests, inserts, deletions and expiry    *)
(* interleave.                                                             *)
THEOREM AllowedTagsInvariance == AllowedTagsSpec => []AllowedTagsInv
BY AllowedTagsInvInit, AllowedTagsInvStep, PTL DEF AllowedTagsSpec

(* The variables of GetAllowedTags keep their types. *)
THEOREM AllowedTagsTypeCorrect == AllowedTagsSpec => []AllowedTagsTypeOK
<1>1. AllowedTagsInv => AllowedTagsTypeOK
  BY DEF AllowedTagsInv
<1> QED
  BY <1>1, AllowedTagsInvariance, PTL

(* The LLM is never offered a tag that no row of the places table carries. *)
THEOREM AllowedTagsNoPhantom == AllowedTagsSpec => []NoPhantomTags
<1>1. AllowedTagsInv => NoPhantomTags
  BY DEF AllowedTagsInv, ListsAreVersions, NoPhantomTags
<1> QED
  BY <1>1, AllowedTagsInvariance, PTL

(* A request that asked the database saw every tag there was when it       *)
(* began.                                                                  *)
THEOREM AllowedTagsMissIsFresh == AllowedTagsSpec => []MissIsFresh
<1>1. AllowedTagsInv => MissIsFresh
  BY DEF AllowedTagsInv
<1> QED
  BY <1>1, AllowedTagsInvariance, PTL

-----------------------------------------------------------------------------
(* GetAllowedTags implements the catalogue: the table's inserts grow it,   *)
(* a request is asked when it begins and answered when it has stored its   *)
(* list; the steps between, the cache and its expiry cannot be seen.       *)

(* The cache starts as the catalogue does. *)
LEMMA CatalogueInit == AllowedTagsInit => Catalogue!Init
<1> SUFFICES ASSUME AllowedTagsInit PROVE Catalogue!Init
  OBVIOUS
<1>1. GetAllTags \in SUBSET Tag
  BY GetAllTagsType DEF TagSets
<1> QED
  BY <1>1 DEF AllowedTagsInit, Catalogue!Init

(* Each step of the cache is a step of the catalogue or a stutter. *)
LEMMA CatalogueStep ==
  AllowedTagsInv /\ [AllowedTagsNext]_allowedTagsVars
    => [Catalogue!Next]_(Catalogue!catalogueVars)
<1> DEFINE state == [r \in Request |->
             CASE pc[r] = "idle" -> "idle"
               [] pc[r] = "done" -> "answered"
               [] pc[r] = "failed" -> "failed"
               [] OTHER -> "asked"]
           list == [r \in Request |-> IF pc[r] = "done" THEN tags[r] ELSE None]
<1> SUFFICES ASSUME AllowedTagsInv, [AllowedTagsNext]_allowedTagsVars
             PROVE  Catalogue!Next \/ UNCHANGED <<versions, state, list>>
  BY DEF Catalogue!catalogueVars
<1> USE DEF AllowedTagsInv, AllowedTagsTypeOK, ListsAreVersions, PcState
<1>1. ASSUME NEW p \in Place, CreatePlace(p) \/ DeletePlace(p)
      PROVE  Catalogue!Grow
  <2>1. GetAllTags \subseteq GetAllTags' /\ GetAllTags' \in SUBSET Tag
    BY <1>1, TableGrows, GetAllTagsPrimed DEF TagSets
  <2>2. UNCHANGED <<pc, tags>> /\ versions' = versions \cup {GetAllTags'}
    BY <1>1 DEF CreatePlace, DeletePlace
  <2>3. UNION versions \subseteq GetAllTags'
    BY <2>1
  <2> QED
    BY <2>1, <2>2, <2>3 DEF Catalogue!Grow
<1>2. ASSUME NEW r \in Request, Begin(r)
      PROVE  Catalogue!Ask(r)
  BY <1>2 DEF Begin, Catalogue!Ask, Catalogue!Move
<1>3. ASSUME NEW r \in Request, CacheHit(r) \/ Store(r) \/ StoreFailed(r)
      PROVE  Catalogue!Answer(r)
  <2>1. PICK T \in versions :
          /\ pc[r] \in {"get", "set"}
          /\ pc' = [pc EXCEPT ![r] = "done"]
          /\ tags' = [tags EXCEPT ![r] = T]
          /\ UNCHANGED versions
    <3>1. CASE CacheHit(r)
      BY <3>1 DEF CacheHit
    <3>2. CASE Store(r) \/ StoreFailed(r)
      <4>1. pc[r] = "set" /\ tags[r] \in versions
        BY <3>2 DEF Store, StoreFailed
      <4>2. tags = [tags EXCEPT ![r] = tags[r]]
        OBVIOUS
      <4> QED
        BY <3>2, <4>1, <4>2 DEF Store, StoreFailed
    <3> QED
      BY <1>3, <3>1, <3>2
  <2>2. state[r] = "asked" /\ state' = [state EXCEPT ![r] = "answered"]
    BY <2>1
  <2>3. list' = [list EXCEPT ![r] = T]
    BY <2>1
  <2> QED
    BY <2>1, <2>2, <2>3 DEF Catalogue!Answer, Catalogue!Move
<1>4. ASSUME NEW r \in Request, CacheMiss(r) \/ Query(r)
      PROVE  UNCHANGED <<versions, state, list>>
  BY <1>4 DEF CacheMiss, Query
<1>5. ASSUME NEW r \in Request, QueryFailed(r)
      PROVE  Catalogue!Fail(r)
  BY <1>5 DEF QueryFailed, Catalogue!Fail, Catalogue!Move
<1>6. ASSUME NEW r \in Request, Return(r)
      PROVE  Catalogue!Return(r)
  <2>1. state[r] \in {"answered", "failed"} /\ state' = [state EXCEPT ![r] = "idle"]
    BY <1>6 DEF Return
  <2>2. list' = [list EXCEPT ![r] = None] /\ UNCHANGED versions
    BY <1>6 DEF Return
  <2> QED
    BY <2>1, <2>2 DEF Catalogue!Return, Catalogue!Move
<1>7. CASE Expire \/ UNCHANGED allowedTagsVars
  BY <1>7 DEF Expire, allowedTagsVars
<1> QED
  BY <1>1, <1>2, <1>3, <1>4, <1>5, <1>6, <1>7
  DEF AllowedTagsNext, RequestStep, Catalogue!Next

(* For any requests, places and tags, whatever fails or expires, a request *)
(* gets one whole list that the table once was, or an error.               *)
THEOREM AllowedTagsImplementCatalogue == AllowedTagsSpec => Catalogue!Spec
<1>1. AllowedTagsInit => Catalogue!Init
  BY CatalogueInit
<1>2. AllowedTagsInv /\ [AllowedTagsNext]_allowedTagsVars
        => [Catalogue!Next]_(Catalogue!catalogueVars)
  BY CatalogueStep
<1> QED
  BY <1>1, <1>2, AllowedTagsInvariance, PTL DEF AllowedTagsSpec, Catalogue!Spec

-----------------------------------------------------------------------------
(***************************************************************************)
(* EventuallyFresh without its fairness: from which lists a stale one can  *)
(* still come once the table stands still.                                 *)
(***************************************************************************)
Stale(T) == T \notin {None, GetAllTags}
StaleWriters == {r \in Request : pc[r] = "set" /\ Stale(tags[r])}
StaleAnswers == {r \in Request : pc[r] = "done" /\ Stale(tags[r])}

(* While the table does not change, no request gets hold of a stale list   *)
(* to store, the key turns stale only by a request that had one and is     *)
(* done with it, and a stale answer comes from either of the two.          *)
StalenessDrains ==
  GetAllTags' = GetAllTags =>
    /\ StaleWriters' \subseteq StaleWriters
    /\ Stale(cache)' => Stale(cache) \/ StaleWriters' # StaleWriters
    /\ \A r \in StaleAnswers' : r \in StaleAnswers \/ r \in StaleWriters \/ Stale(cache)

(* Each step of a request, and each change of the table or the key, keeps  *)
(* to it.                                                                  *)
LEMMA StalenessDrainsStep ==
  ASSUME AllowedTagsTypeOK, AllowedTagsNext
  PROVE  StalenessDrains
<1> SUFFICES ASSUME GetAllTags' = GetAllTags
             PROVE  /\ StaleWriters' \subseteq StaleWriters
                    /\ Stale(cache)' => Stale(cache) \/ StaleWriters' # StaleWriters
                    /\ \A r \in StaleAnswers' :
                         r \in StaleAnswers \/ r \in StaleWriters \/ Stale(cache)
  BY DEF StalenessDrains
<1> DEFINE all == GetAllTags
<1>0. /\ Stale(cache) <=> cache \notin {None, all}
      /\ Stale(cache)' <=> cache' \notin {None, all}
      /\ \A r : r \in StaleWriters <=>
           r \in Request /\ pc[r] = "set" /\ tags[r] \notin {None, all}
      /\ \A r : r \in StaleWriters' <=>
           r \in Request /\ pc'[r] = "set" /\ tags'[r] \notin {None, all}
      /\ \A r : r \in StaleAnswers <=>
           r \in Request /\ pc[r] = "done" /\ tags[r] \notin {None, all}
      /\ \A r : r \in StaleAnswers' <=>
           r \in Request /\ pc'[r] = "done" /\ tags'[r] \notin {None, all}
  BY DEF Stale, StaleWriters, StaleAnswers
<1> USE DEF AllowedTagsTypeOK
<1>1. CASE (\E p \in Place : CreatePlace(p) \/ DeletePlace(p)) \/ Expire
  BY <1>0, <1>1 DEF CreatePlace, DeletePlace, Expire
<1>2. ASSUME NEW r \in Request, Begin(r) \/ CacheMiss(r) \/ QueryFailed(r)
      PROVE  /\ StaleWriters' \subseteq StaleWriters
             /\ Stale(cache)' => Stale(cache) \/ StaleWriters' # StaleWriters
             /\ \A s \in StaleAnswers' :
                  s \in StaleAnswers \/ s \in StaleWriters \/ Stale(cache)
  BY <1>0, <1>2 DEF Begin, CacheMiss, QueryFailed
<1>3. ASSUME NEW r \in Request, CacheHit(r)
      PROVE  /\ StaleWriters' \subseteq StaleWriters
             /\ Stale(cache)' => Stale(cache) \/ StaleWriters' # StaleWriters
             /\ \A s \in StaleAnswers' :
                  s \in StaleAnswers \/ s \in StaleWriters \/ Stale(cache)
  BY <1>0, <1>3 DEF CacheHit
<1>4. ASSUME NEW r \in Request, Query(r)
      PROVE  /\ StaleWriters' \subseteq StaleWriters
             /\ Stale(cache)' => Stale(cache) \/ StaleWriters' # StaleWriters
             /\ \A s \in StaleAnswers' :
                  s \in StaleAnswers \/ s \in StaleWriters \/ Stale(cache)
  BY <1>0, <1>4 DEF Query
<1>5. ASSUME NEW r \in Request, Store(r) \/ StoreFailed(r)
      PROVE  /\ StaleWriters' \subseteq StaleWriters
             /\ Stale(cache)' => Stale(cache) \/ StaleWriters' # StaleWriters
             /\ \A s \in StaleAnswers' :
                  s \in StaleAnswers \/ s \in StaleWriters \/ Stale(cache)
  <2>1. /\ pc[r] = "set" /\ pc'[r] = "done" /\ tags' = tags
        /\ \A s \in Request \ {r} : pc'[s] = pc[s]
        /\ cache' = cache \/ cache' = tags[r]
    BY <1>5 DEF Store, StoreFailed
  <2>2. r \notin StaleWriters'
    BY <1>0, <2>1
  <2> QED
    BY <1>0, <2>1, <2>2
<1>6. ASSUME NEW r \in Request, Return(r)
      PROVE  /\ StaleWriters' \subseteq StaleWriters
             /\ Stale(cache)' => Stale(cache) \/ StaleWriters' # StaleWriters
             /\ \A s \in StaleAnswers' :
                  s \in StaleAnswers \/ s \in StaleWriters \/ Stale(cache)
  BY <1>0, <1>6 DEF Return
<1> QED
  BY <1>1, <1>2, <1>3, <1>4, <1>5, <1>6 DEF AllowedTagsNext, RequestStep

(* Once the table stands still, staleness only drains, however slow        *)
(* requests store their lists (service.go 83-100).                         *)
THEOREM AllowedTagsStalenessDrains ==
  AllowedTagsSpec => [][StalenessDrains]_allowedTagsVars
<1>1. AllowedTagsInv /\ [AllowedTagsNext]_allowedTagsVars
        => [StalenessDrains]_allowedTagsVars
  BY StalenessDrainsStep DEF AllowedTagsInv
<1> QED
  BY <1>1, AllowedTagsInvariance, PTL DEF AllowedTagsSpec
=============================================================================
