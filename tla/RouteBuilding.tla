---------------------------- MODULE RouteBuilding ----------------------------
(***************************************************************************)
(* POST /routes/build: the handler, RouteService.BuildRouteFromTags, the   *)
(* query FindOptimalPlaces and the Geoapify client.  The service first     *)
(* picks one place per tag array, searching around the place it picked     *)
(* last, and then asks Geoapify for one leg per picked place.  Places are  *)
(* created and deleted by other requests between any two queries.          *)
(***************************************************************************)
EXTENDS Integers, Sequences, FiniteSets

CONSTANTS
  Place,      \* rows that may come to exist in the places table
  Tag,
  PlaceTags,  \* PlaceTags[p]: the jsonb array of a place, repetitions kept
  Location,
  PlaceLoc,   \* PlaceLoc[p]: where a place is
  Dist,       \* Dist[l][m]: geodesic distance in metres (PostGIS geography)
  TagArrays,  \* values of the request field "tags"
  Starts,     \* values of the request field "location"
  Radii,      \* values of the request field "radius"
  ReqTimeout  \* GEOAPIFY_REQ_TIMEOUT, in seconds

ASSUME RouteBuildingAssumption ==
  /\ PlaceTags \in [Place -> Seq(Tag)]
  /\ PlaceLoc \in [Place -> Location]
  /\ Dist \in [Location -> [Location -> Nat]]
  /\ \A l \in Location : Dist[l][l] = 0
  /\ \A l, m, o \in Location : Dist[l][o] <= Dist[l][m] + Dist[m][o]
  /\ TagArrays \subseteq Seq(SUBSET Tag)
  /\ Starts \subseteq Location
  /\ Radii \subseteq Nat
  /\ ReqTimeout \in Int

VARIABLES
  row,         \* row[p]: "absent", "live" or "deleted"
  pc,          \* control state of the request
  allTags,     \* req.Tags
  start,       \* req.StartCoords
  radius,      \* req.Radius
  k,           \* tag arrays the search loop is through with
  usedPlaces,  \* the picked places; seg (ghost) is the array each was picked for
  prevLoc,
  fullRoute,   \* the legs received so far, as <<origin, destination>>
  geoCalls,    \* GeoapiCounter
  status       \* HTTP status of the answer, 0 before it is sent

requestVars == <<pc, allTags, start, radius, k, usedPlaces, prevLoc, fullRoute, geoCalls, status>>
routeBuildingVars ==
  <<row, pc, allTags, start, radius, k, usedPlaces, prevLoc, fullRoute, geoCalls, status>>

Stop == [place : Place, seg : Nat]

RouteBuildingTypeOK ==
  /\ row \in [Place -> {"absent", "live", "deleted"}]
  /\ pc \in {"parse", "search", "route", "answered", "panic"}
  /\ allTags \in Seq(SUBSET Tag)
  /\ start \in Location
  /\ radius \in Nat
  /\ k \in 0..Len(allTags)
  /\ usedPlaces \in Seq(Stop)
  /\ prevLoc \in Location
  /\ fullRoute \in Seq(Location \X Location)
  /\ geoCalls \in Nat
  /\ status \in {0, 200, 400, 404, 500}

RouteBuildingInit ==
  /\ row \in [Place -> {"absent", "live"}]
  /\ pc = "parse"
  /\ allTags = <<>>
  /\ start \in Starts
  /\ radius \in Radii
  /\ k = 0
  /\ usedPlaces = <<>>
  /\ prevLoc = start
  /\ fullRoute = <<>>
  /\ geoCalls = 0
  /\ status = 0
-----------------------------------------------------------------------------
(* The elements of the place's array that the query counts: repeated tags  *)
(* count repeatedly.                                                       *)
MatchCount(p, tags) ==
  Cardinality({i \in DOMAIN PlaceTags[p] : PlaceTags[p][i] \in tags})

Matches(p, tags) == \E i \in DOMAIN PlaceTags[p] : PlaceTags[p][i] \in tags

(* Mutant of FindOptimalPlaces: ST_DWithin is missing from the query. *)
FindOptimalPlacesAnywhere(tags, loc) ==
  {p \in Place : row[p] = "live" /\ Matches(p, tags)}

(* FindOptimalPlaces: the live rows with a matching tag within the radius. *)
FindOptimalPlaces(tags, loc) ==
  {p \in Place : /\ row[p] = "live"
                 /\ Matches(p, tags)
                 /\ Dist[loc][PlaceLoc[p]] <= radius}

(* The rows that ORDER BY match_count DESC may put first; the order of     *)
(* rows with equal counts is the database's choice.                        *)
FirstOf(S, tags) ==
  {p \in S : \A q \in S : MatchCount(q, tags) <= MatchCount(p, tags)}

(* Mutant of Used: usedPlacesMap is never filled. *)
UsedNone == {}

Used == {usedPlaces[j].place : j \in 1..Len(usedPlaces)}
-----------------------------------------------------------------------------
Respond(code) ==
  /\ pc' = "answered"
  /\ status' = code

BadBody ==
  /\ pc = "parse"
  /\ Respond(400)
  /\ UNCHANGED <<row, allTags, start, radius, k, usedPlaces, prevLoc, fullRoute, geoCalls>>

(* The body parses.  Nothing validates it: tags may be empty or missing. *)
ParseBody ==
  /\ pc = "parse"
  /\ pc' = "search"
  /\ allTags' \in TagArrays
  /\ UNCHANGED <<row, start, radius, k, usedPlaces, prevLoc, fullRoute, geoCalls, status>>

SearchFailed ==
  /\ pc = "search"
  /\ k < Len(allTags)
  /\ Respond(500)
  /\ UNCHANGED <<row, allTags, start, radius, k, usedPlaces, prevLoc, fullRoute, geoCalls>>

(* len(places) == 0: ErrNoPlacesFound, which the handler maps to 404. *)
NoPlacesFound ==
  /\ pc = "search"
  /\ k < Len(allTags)
  /\ FindOptimalPlaces(allTags[k + 1], prevLoc) = {}
  /\ Respond(404)
  /\ UNCHANGED <<row, allTags, start, radius, k, usedPlaces, prevLoc, fullRoute, geoCalls>>

(* The first row that is not used yet is picked, and the next search is    *)
(* around it.                                                              *)
PickPlace ==
  /\ pc = "search"
  /\ k < Len(allTags)
  /\ \E p \in FirstOf(FindOptimalPlaces(allTags[k + 1], prevLoc) \ Used, allTags[k + 1]) :
       /\ usedPlaces' = Append(usedPlaces, [place |-> p, seg |-> k + 1])
       /\ prevLoc' = PlaceLoc[p]
  /\ k' = k + 1
  /\ UNCHANGED <<row, pc, allTags, start, radius, fullRoute, geoCalls, status>>

(* Mutant of AllUsed: an array without any candidate is skipped as well. *)
AllUsedOrNone ==
  /\ pc = "search"
  /\ k < Len(allTags)
  /\ FindOptimalPlaces(allTags[k + 1], prevLoc) \subseteq Used
  /\ k' = k + 1
  /\ UNCHANGED <<row, pc, allTags, start, radius, usedPlaces, prevLoc, fullRoute, geoCalls, status>>

(* Every row is used: nothing is picked, but the next search is around     *)
(* places[0] all the same.                                                 *)
AllUsed ==
  /\ pc = "search"
  /\ k < Len(allTags)
  /\ FindOptimalPlaces(allTags[k + 1], prevLoc) \subseteq Used
  /\ \E p \in FirstOf(FindOptimalPlaces(allTags[k + 1], prevLoc), allTags[k + 1]) :
       prevLoc' = PlaceLoc[p]
  /\ k' = k + 1
  /\ UNCHANGED <<row, pc, allTags, start, radius, usedPlaces, fullRoute, geoCalls, status>>

(* Mutant of StartRoute: the legs begin where the search has ended. *)
StartRouteHere ==
  /\ pc = "search"
  /\ k = Len(allTags)
  /\ pc' = "route"
  /\ UNCHANGED <<row, allTags, start, radius, k, usedPlaces, prevLoc, fullRoute, geoCalls, status>>

(* The search loop ends; prevLoc = startCoords. *)
StartRoute ==
  /\ pc = "search"
  /\ k = Len(allTags)
  /\ pc' = "route"
  /\ prevLoc' = start
  /\ UNCHANGED <<row, allTags, start, radius, k, usedPlaces, fullRoute, geoCalls, status>>

(* One call of GeoapifyClient.BuildRoute that returns a JSON object. *)
BuildLeg ==
  /\ pc = "route"
  /\ Len(fullRoute) < Len(usedPlaces)
  /\ LET loc == PlaceLoc[usedPlaces[Len(fullRoute) + 1].place] IN
       /\ fullRoute' = Append(fullRoute, <<prevLoc, loc>>)
       /\ prevLoc' = loc
  /\ geoCalls' = geoCalls + 1
  /\ UNCHANGED <<row, pc, allTags, start, radius, k, usedPlaces, status>>

(* Mutants of LegFailed: the error of the other service is passed on; the  *)
(* leg is asked for once more; the whole route is begun again.             *)
LegFailedBadGateway ==
  /\ pc = "route" /\ Len(fullRoute) < Len(usedPlaces)
  /\ geoCalls' = geoCalls + 1
  /\ Respond(502)
  /\ UNCHANGED <<row, allTags, start, radius, k, usedPlaces, prevLoc, fullRoute>>

LegFailedRetried ==
  /\ pc = "route" /\ Len(fullRoute) < Len(usedPlaces)
  /\ geoCalls' = geoCalls + 1
  /\ IF geoCalls > Len(fullRoute) THEN Respond(500) ELSE UNCHANGED <<pc, status>>
  /\ UNCHANGED <<row, allTags, start, radius, k, usedPlaces, prevLoc, fullRoute>>

LegFailedRestarted ==
  /\ pc = "route" /\ Len(fullRoute) < Len(usedPlaces)
  /\ geoCalls' = 0
  /\ fullRoute' = <<>>
  /\ prevLoc' = start
  /\ UNCHANGED <<row, pc, allTags, start, radius, k, usedPlaces, status>>

(* The request failed or timed out, the status was not 200, or the body    *)
(* was not a JSON object: the legs built so far are dropped.               *)
LegFailed ==
  /\ pc = "route"
  /\ Len(fullRoute) < Len(usedPlaces)
  /\ geoCalls' = geoCalls + 1
  /\ Respond(500)
  /\ UNCHANGED <<row, allTags, start, radius, k, usedPlaces, prevLoc, fullRoute>>

(* The body was the JSON null: the map stays nil, and storing the name in  *)
(* it panics.  No recover middleware is installed, so the process dies.    *)
LegPanics ==
  /\ pc = "route"
  /\ Len(fullRoute) < Len(usedPlaces)
  /\ geoCalls' = geoCalls + 1
  /\ pc' = "panic"
  /\ UNCHANGED <<row, allTags, start, radius, k, usedPlaces, prevLoc, fullRoute, status>>

AnswerRoute ==
  /\ pc = "route"
  /\ Len(fullRoute) = Len(usedPlaces)
  /\ Respond(200)
  /\ UNCHANGED <<row, allTags, start, radius, k, usedPlaces, prevLoc, fullRoute, geoCalls>>

(* PostgresPlaceRepository.Create and Delete, by other requests. *)
CreatePlace(p) ==
  /\ row[p] = "absent"
  /\ row' = [row EXCEPT ![p] = "live"]
  /\ UNCHANGED requestVars

DeletePlace(p) ==
  /\ row[p] = "live"
  /\ row' = [row EXCEPT ![p] = "deleted"]
  /\ UNCHANGED requestVars

HandlerStep ==
  \/ BadBody \/ ParseBody
  \/ SearchFailed \/ NoPlacesFound \/ PickPlace \/ AllUsed
  \/ StartRoute
  \/ AnswerRoute

(* What ends a call of Geoapify. *)
LegStep == BuildLeg \/ LegFailed \/ LegPanics

RouteBuildingNext ==
  \/ HandlerStep \/ LegStep
  \/ \E p \in Place : CreatePlace(p) \/ DeletePlace(p)

RouteBuildingSpec == RouteBuildingInit /\ [][RouteBuildingNext]_routeBuildingVars

(* The handler's goroutine runs and its queries return.  A call of         *)
(* Geoapify ends only by a positive GEOAPIFY_REQ_TIMEOUT: the agent takes  *)
(* any other value, which validation lets through, for no timeout at all.  *)
FairRouteBuildingSpec ==
  /\ RouteBuildingSpec
  /\ WF_routeBuildingVars(HandlerStep)
  /\ WF_routeBuildingVars(ReqTimeout > 0 /\ LegStep)
-----------------------------------------------------------------------------
(* The j-th stop of the route, stop 0 being the start, and the tag array   *)
(* it was picked for.                                                      *)
StopLoc(j) == IF j = 0 THEN start ELSE PlaceLoc[usedPlaces[j].place]
StopSeg(j) == IF j = 0 THEN 0 ELSE usedPlaces[j].seg

(* The route visits no place twice, and visits its places in the order of  *)
(* the tag arrays they were picked for (service.go 177-197).               *)
StopsOrderedAndDistinct ==
  \A i, j \in 1..Len(usedPlaces) :
    i < j => /\ usedPlaces[i].place # usedPlaces[j].place
             /\ usedPlaces[i].seg < usedPlaces[j].seg

(* Every tag array the search went through, also one nothing was picked    *)
(* for, is matched by a stop of the route: it is skipped only when all its *)
(* candidates are stops already (service.go 173-194).                      *)
SegmentsCovered ==
  \A i \in 1..k : \E j \in 1..Len(usedPlaces) : Matches(usedPlaces[j].place, allTags[i])

(* Two consecutive stops are within the radius of each other if they were  *)
(* picked for consecutive arrays; each array skipped between them lets     *)
(* the search centre move away by one more radius (service.go 192-196).    *)
LegBound ==
  \A j \in 1..Len(usedPlaces) :
    Dist[StopLoc(j - 1)][StopLoc(j)] <= radius * (StopSeg(j) - StopSeg(j - 1))

(* The legs asked of Geoapify form one path from the start through the     *)
(* stops in order, whatever place the search ended at (service.go 201-225).*)
RouteContinuous ==
  \A i \in 1..Len(fullRoute) : fullRoute[i] = <<StopLoc(i - 1), StopLoc(i)>>

(* A request costs at most one Geoapify call per tag array, and a route is *)
(* answered only when a leg for every stop has been paid for once          *)
(* (service.go 203-225, geoapify_client.go 70).                            *)
GeoCallsBounded ==
  /\ geoCalls <= Len(allTags)
  /\ status = 200 => geoCalls = Len(usedPlaces) /\ k = Len(allTags)

(* Every request ends, with an answer or the panic that ends the process,  *)
(* except that without a timeout a call of Geoapify may hold it for ever   *)
(* (geoapify_client.go 57-68).                                             *)
BuildAnswered ==
  <>(\/ pc \in {"answered", "panic"}
     \/ ReqTimeout <= 0 /\ pc = "route" /\ Len(fullRoute) < Len(usedPlaces))

(* What every step preserves: the properties above, and where the search   *)
(* centre and the origin of the next leg may be.                           *)
SearchCentre ==
  pc = "search" =>
    Dist[StopLoc(Len(usedPlaces))][prevLoc] <= radius * (k - StopSeg(Len(usedPlaces)))

LegOrigin == pc = "route" => prevLoc = StopLoc(Len(fullRoute))

StopsInRange ==
  /\ \A j \in 1..Len(usedPlaces) : usedPlaces[j].seg \in 1..k
  /\ Len(usedPlaces) <= k
  /\ Len(fullRoute) <= Len(usedPlaces)
  /\ pc # "answered" => status = 0
  /\ pc = "parse" => k = 0 /\ prevLoc = start
  /\ pc \in {"parse", "search"} => fullRoute = <<>> /\ geoCalls = 0
  /\ pc = "route" => k = Len(allTags) /\ geoCalls = Len(fullRoute)

RouteBuildingInv ==
  /\ RouteBuildingTypeOK
  /\ StopsInRange
  /\ StopsOrderedAndDistinct
  /\ SegmentsCovered
  /\ LegBound
  /\ RouteContinuous
  /\ GeoCallsBounded
  /\ SearchCentre
  /\ LegOrigin
=============================================================================
