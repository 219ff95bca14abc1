----------------------------- MODULE AllowedTags -----------------------------
(***************************************************************************)
(* RouteService.GetAllowedTags of internal/travelroutes/service.go: the    *)
(* list of tags is kept under one Redis key and read from the places table *)
(* on a miss.  Requests interleave with each other, with place creation    *)
(* and soft deletion and with the expiry of the key.  Nothing invalidates  *)
(* the key when a place is created.                                        *)
(***************************************************************************)
EXTENDS Integers

CONSTANTS
  Request,    \* concurrent requests of /routes/analyze
  Place,      \* rows that may come to exist in the places table
  Tag,
  PlaceTags,  \* PlaceTags[p]: the tags a place is created with
  TagsTTL,    \* CacheTagsRefreshTimeMin, minutes
  None        \* no value: the key is absent

ASSUME AllowedTagsAssumption ==
  /\ PlaceTags \in [Place -> SUBSET Tag]
  /\ TagsTTL \in Int
  /\ \A T \in SUBSET Tag : T # None

VARIABLES
  row,      \* row[p]: "absent", "live" or "deleted" (deleted_at is set)
  cache,    \* the value of the key "allowed_tags", or None
  pc,       \* control state of each request
  tags,     \* the request's local variable, None before it has a value
  since,    \* ghost: the tags in the table when the request began
  missed,   \* ghost: the request took the repository path
  versions  \* ghost: every value GetAllTags has had

allowedTagsVars == <<row, cache, pc, tags, since, missed, versions>>

TagSets == SUBSET Tag
PcState == {"idle", "get", "query", "set", "done", "failed"}

AllowedTagsTypeOK ==
  /\ row \in [Place -> {"absent", "live", "deleted"}]
  /\ cache \in TagSets \cup {None}
  /\ pc \in [Request -> PcState]
  /\ tags \in [Request -> TagSets \cup {None}]
  /\ since \in [Request -> TagSets]
  /\ missed \in [Request -> BOOLEAN]
  /\ versions \subseteq TagSets

(* Mutants of GetAllTags: a deleted_at filter; the arrays not flattened. *)
GetAllTagsLive == UNION {PlaceTags[p] : p \in {q \in Place : row[q] = "live"}}
GetAllTagsNested == {PlaceTags[p] : p \in {q \in Place : row[q] # "absent"}}

(* GetAllTags: DISTINCT over Table("places"), which knows no model and so  *)
(* adds no deleted_at filter: soft-deleted rows still count.               *)
GetAllTags == UNION {PlaceTags[p] : p \in {q \in Place : row[q] # "absent"}}

AllowedTagsInit ==
  /\ row \in [Place -> {"absent", "live"}]
  /\ cache = None
  /\ pc = [r \in Request |-> "idle"]
  /\ tags = [r \in Request |-> None]
  /\ since = [r \in Request |-> {}]
  /\ missed = [r \in Request |-> FALSE]
  /\ versions = {GetAllTags}

(* PostgresPlaceRepository.Create and Delete.  Update never touches tags:  *)
(* PlaceUpdateRequest has no such field.                                   *)
CreatePlace(p) ==
  /\ row[p] = "absent"
  /\ row' = [row EXCEPT ![p] = "live"]
  /\ versions' = versions \cup {GetAllTags'}
  /\ UNCHANGED <<cache, pc, tags, since, missed>>

DeletePlace(p) ==
  /\ row[p] = "live"
  /\ row' = [row EXCEPT ![p] = "deleted"]
  /\ versions' = versions \cup {GetAllTags'}
  /\ UNCHANGED <<cache, pc, tags, since, missed>>

(* Mutant of Expire: the key is stored without a time to live. *)
ExpireNever == FALSE /\ UNCHANGED allowedTagsVars

(* Redis drops the key.  go-redis sends no expiry for a duration <= 0, so  *)
(* with such a TagsTTL the key stays.                                      *)
Expire ==
  /\ TagsTTL > 0
  /\ cache # None
  /\ cache' = None
  /\ UNCHANGED <<row, pc, tags, since, missed, versions>>

(* A request enters GetAllowedTags. *)
Begin(r) ==
  /\ pc[r] = "idle"
  /\ pc' = [pc EXCEPT ![r] = "get"]
  /\ since' = [since EXCEPT ![r] = GetAllTags]
  /\ UNCHANGED <<row, cache, tags, missed, versions>>

(* Mutant of CacheHit: an absent key passes for an empty list. *)
CacheHitEmpty(r) ==
  /\ pc[r] = "get"
  /\ tags' = [tags EXCEPT ![r] = IF cache = None THEN {} ELSE cache]
  /\ pc' = [pc EXCEPT ![r] = "done"]
  /\ UNCHANGED <<row, cache, since, missed, versions>>

(* s.cache.Get returned a list. *)
CacheHit(r) ==
  /\ pc[r] = "get"
  /\ cache # None
  /\ tags' = [tags EXCEPT ![r] = cache]
  /\ pc' = [pc EXCEPT ![r] = "done"]
  /\ UNCHANGED <<row, cache, since, missed, versions>>

(* The key is absent, or Redis could not be asked: either is a miss. *)
CacheMiss(r) ==
  /\ pc[r] = "get"
  /\ pc' = [pc EXCEPT ![r] = "query"]
  /\ missed' = [missed EXCEPT ![r] = TRUE]
  /\ UNCHANGED <<row, cache, tags, since, versions>>

Query(r) ==
  /\ pc[r] = "query"
  /\ tags' = [tags EXCEPT ![r] = GetAllTags]
  /\ pc' = [pc EXCEPT ![r] = "set"]
  /\ UNCHANGED <<row, cache, since, missed, versions>>

QueryFailed(r) ==
  /\ pc[r] = "query"
  /\ pc' = [pc EXCEPT ![r] = "failed"]
  /\ UNCHANGED <<row, cache, tags, since, missed, versions>>

(* Mutant of Store: SETNX, and the list that won is returned. *)
StoreFirstWins(r) ==
  /\ pc[r] = "set"
  /\ cache' = IF cache = None THEN tags[r] ELSE cache
  /\ tags' = [tags EXCEPT ![r] = cache']
  /\ pc' = [pc EXCEPT ![r] = "done"]
  /\ UNCHANGED <<row, since, missed, versions>>

(* s.cache.Set overwrites whatever another request has stored meanwhile. *)
Store(r) ==
  /\ pc[r] = "set"
  /\ cache' = tags[r]
  /\ pc' = [pc EXCEPT ![r] = "done"]
  /\ UNCHANGED <<row, tags, since, missed, versions>>

(* Set failed: a warning is logged and the tags are returned all the same. *)
StoreFailed(r) ==
  /\ pc[r] = "set"
  /\ pc' = [pc EXCEPT ![r] = "done"]
  /\ UNCHANGED <<row, cache, tags, since, missed, versions>>

(* The request has used its list; its slot stands for a later request. *)
Return(r) ==
  /\ pc[r] \in {"done", "failed"}
  /\ pc' = [pc EXCEPT ![r] = "idle"]
  /\ tags' = [tags EXCEPT ![r] = None]
  /\ since' = [since EXCEPT ![r] = {}]
  /\ missed' = [missed EXCEPT ![r] = FALSE]
  /\ UNCHANGED <<row, cache, versions>>

RequestStep(r) ==
  \/ CacheHit(r) \/ CacheMiss(r)
  \/ Query(r) \/ QueryFailed(r)
  \/ Store(r) \/ StoreFailed(r)
  \/ Return(r)

AllowedTagsNext ==
  \/ \E p \in Place : CreatePlace(p) \/ DeletePlace(p)
  \/ Expire
  \/ \E r \in Request : Begin(r) \/ RequestStep(r)

AllowedTagsSpec == AllowedTagsInit /\ [][AllowedTagsNext]_allowedTagsVars

(* A request that has begun goes on (Redis and Postgres answer or fail),   *)
(* and Redis expires a key that was stored with a time to live.            *)
AllowedTagsFairness ==
  /\ WF_allowedTagsVars(Expire)
  /\ \A r \in Request : WF_allowedTagsVars(RequestStep(r))

FairAllowedTagsSpec == AllowedTagsSpec /\ AllowedTagsFairness
-----------------------------------------------------------------------------
(* No list, cached or about to be cached, ever names a tag that no row of  *)
(* the table carries, however old it is.  It rests on two facts about the  *)
(* repository: GetAllTags counts soft-deleted rows, and no update removes  *)
(* a tag from a row (postgresql_place_repository.go 72-85, 142-178).       *)
NoPhantomTags ==
  /\ cache # None => cache \subseteq GetAllTags
  /\ \A r \in Request : tags[r] # None => tags[r] \subseteq GetAllTags

(* A request that missed the cache sees every tag that was in the table    *)
(* when it began, whatever other requests store meanwhile                  *)
(* (service.go 91-100).                                                    *)
MissIsFresh ==
  \A r \in Request : pc[r] = "done" /\ missed[r] => since[r] \subseteq tags[r]

(* A tag list stored by a slow request after a newer one does not stay:    *)
(* once the table no longer changes, the key is eventually either absent   *)
(* or complete for good, and so is every list served from it.              *)
EventuallyFresh ==
  <>[](/\ cache # None => cache = GetAllTags
       /\ \A r \in Request : pc[r] = "done" => tags[r] = GetAllTags)

(* Whatever the cache does, a request sees what module TagCatalogue        *)
(* promises: one whole list that the table once was, or an error, and one  *)
(* of them in the end.  A list in a request's hands is not its answer yet. *)
Catalogue == INSTANCE TagCatalogue WITH
  state <- [r \in Request |->
              CASE pc[r] = "idle" -> "idle"
                [] pc[r] = "done" -> "answered"
                [] pc[r] = "failed" -> "failed"
                [] OTHER -> "asked"],
  list <- [r \in Request |-> IF pc[r] = "done" THEN tags[r] ELSE None]

(* GetAllowedTags implements the catalogue (service.go 83-101). *)
ImplementsCatalogue == Catalogue!FairSpec

(* Every list in the system is one that the table was, whole. *)
ListsAreVersions ==
  /\ GetAllTags \in versions
  /\ \A T \in versions : T \subseteq GetAllTags
  /\ cache # None => cache \in versions
  /\ \A r \in Request : tags[r] # None => tags[r] \in versions

(* The conjunction that every step preserves.  The lists that requests     *)
(* carry between Query and Store belong to it: they are what Store makes   *)
(* the cache of tomorrow.                                                  *)
AllowedTagsInv ==
  /\ AllowedTagsTypeOK
  /\ ListsAreVersions
  /\ \A r \in Request : since[r] \subseteq GetAllTags
  /\ \A r \in Request : pc[r] \in {"idle", "get", "query", "failed"} => tags[r] = None
  /\ \A r \in Request : pc[r] \in {"idle", "get"} => ~missed[r]
  /\ \A r \in Request : pc[r] = "set" => since[r] \subseteq tags[r]
  /\ \A r \in Request : pc[r] \in {"set", "done"} => tags[r] # None
  /\ MissIsFresh
=============================================================================
