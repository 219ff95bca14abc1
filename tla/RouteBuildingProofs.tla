------------------------- MODULE RouteBuildingProofs -------------------------
(***************************************************************************)
(* Proofs about BuildRouteFromTags, for any places, any metric and any     *)
(* request.                                                                *)
(***************************************************************************)
EXTENDS RouteBuilding, TLAPS

(* A radius more for every tag array that is passed. *)
LEMMA OneMoreRadius ==
  ASSUME NEW r \in Nat, NEW x \in Int
  PROVE  r * (x + 1) = r * x + r
OBVIOUS

(* What FindOptimalPlaces returns, whatever the database's order of ties. *)
LEMMA CandidateFacts ==
  ASSUME NEW tags, NEW loc, NEW S \in SUBSET FindOptimalPlaces(tags, loc),
         NEW p \in FirstOf(S, tags)
  PROVE  /\ p \in S
         /\ p \in Place
         /\ Matches(p, tags)
         /\ Dist[loc][PlaceLoc[p]] <= radius
BY DEF FindOptimalPlaces, FirstOf

(* Before the body is parsed there is neither a stop nor a leg. *)
LEMMA RouteBuildingInvInit == RouteBuildingInit => RouteBuildingInv
<1> SUFFICES ASSUME RouteBuildingInit PROVE RouteBuildingInv
  OBVIOUS
<1> USE RouteBuildingAssumption
<1>1. RouteBuildingTypeOK
  BY DEF RouteBuildingInit, RouteBuildingTypeOK
<1>2. Len(usedPlaces) = 0 /\ Len(fullRoute) = 0 /\ Len(allTags) = 0
  BY DEF RouteBuildingInit
<1> QED
  BY <1>1, <1>2
  DEF RouteBuildingInit, RouteBuildingInv, StopsInRange, StopsOrderedAndDistinct,
      SegmentsCovered, LegBound, RouteContinuous, GeoCallsBounded, SearchCentre, LegOrigin

(* A step that changes neither the stops nor the search centre leaves what *)
(* is said about them alone.                                               *)
LEMMA StopsUntouched ==
  ASSUME RouteBuildingInv, UNCHANGED <<allTags, start, radius, k, usedPlaces>>
  PROVE  StopsOrderedAndDistinct' /\ SegmentsCovered' /\ LegBound'
BY DEF RouteBuildingInv, StopsOrderedAndDistinct, SegmentsCovered, LegBound,
       StopLoc, StopSeg, Matches

(* Picking a place for array k + 1 extends the route within the bound. *)
LEMMA PickPlacePreserves ==
  ASSUME RouteBuildingInv, PickPlace
  PROVE  RouteBuildingInv'
<1> DEFINE tags == allTags[k + 1]
           found == FindOptimalPlaces(tags, prevLoc)
<1>L. PICK L : L = Len(usedPlaces)
  OBVIOUS
<1>0. /\ RouteBuildingTypeOK /\ StopsInRange /\ StopsOrderedAndDistinct
      /\ SegmentsCovered /\ LegBound /\ RouteContinuous /\ GeoCallsBounded
      /\ SearchCentre /\ LegOrigin
  BY DEF RouteBuildingInv
<1>1. PICK p \in FirstOf(found \ Used, tags) :
        /\ usedPlaces' = Append(usedPlaces, [place |-> p, seg |-> k + 1])
        /\ prevLoc' = PlaceLoc[p]
  BY DEF PickPlace
<1>2. p \in Place /\ p \notin Used /\ Matches(p, tags) /\ Dist[prevLoc][PlaceLoc[p]] <= radius
  BY CandidateFacts
<1>3. /\ UNCHANGED <<row, pc, allTags, start, radius, fullRoute, geoCalls, status>>
      /\ k' = k + 1
      /\ pc = "search"
  BY DEF PickPlace
<1>4. /\ usedPlaces \in Seq(Stop) /\ L \in Nat /\ k \in Nat /\ radius \in Nat
      /\ Len(allTags) \in Nat /\ k < Len(allTags)
      /\ prevLoc \in Location /\ PlaceLoc[p] \in Location
  <2>1. usedPlaces \in Seq(Stop) /\ allTags \in Seq(SUBSET Tag) /\ k \in 0..Len(allTags)
    BY <1>0 DEF RouteBuildingTypeOK
  <2>2. radius \in Nat /\ prevLoc \in Location /\ PlaceLoc[p] \in Location
    BY <1>0, <1>2, RouteBuildingAssumption DEF RouteBuildingTypeOK
  <2>3. k < Len(allTags)
    BY DEF PickPlace
  <2> QED
    BY <2>1, <2>2, <2>3, <1>L
<1>5. /\ Len(usedPlaces') = L + 1
      /\ usedPlaces'[L + 1] = [place |-> p, seg |-> k + 1]
      /\ \A j \in 1..L : usedPlaces'[j] = usedPlaces[j]
      /\ usedPlaces' \in Seq(Stop)
  <2>1. [place |-> p, seg |-> k + 1] \in Stop
    BY <1>2, <1>4 DEF Stop
  <2> QED
    BY <1>1, <1>L, <1>4, <2>1
<1>6. RouteBuildingTypeOK'
  BY <1>0, <1>1, <1>3, <1>4, <1>5 DEF RouteBuildingTypeOK
<1>7. StopsInRange'
  <2>1. \A j \in 1..L + 1 : usedPlaces'[j].seg \in 1..k + 1
    BY <1>0, <1>4, <1>5, <1>L DEF StopsInRange
  <2>2. Len(fullRoute) <= L /\ L <= k /\ Len(fullRoute) \in Nat
    BY <1>0, <1>L DEF StopsInRange, RouteBuildingTypeOK
  <2> QED
    BY <1>0, <1>3, <1>4, <1>5, <2>1, <2>2 DEF StopsInRange
<1>8. StopsOrderedAndDistinct'
  <2>1. \A j \in 1..L : usedPlaces[j].place # p /\ usedPlaces[j].seg < k + 1
    BY <1>0, <1>2, <1>4, <1>L DEF Used, StopsInRange
  <2>2. \A i, j \in 1..L + 1 : i < j => i \in 1..L /\ (j \in 1..L \/ j = L + 1)
    BY <1>4
  <2>3. \A i, j \in 1..L : i < j => /\ usedPlaces[i].place # usedPlaces[j].place
                                    /\ usedPlaces[i].seg < usedPlaces[j].seg
    BY <1>0, <1>L DEF StopsOrderedAndDistinct
  <2> QED
    BY <1>5, <2>1, <2>2, <2>3 DEF StopsOrderedAndDistinct
<1>9. SegmentsCovered'
  <2>1. ASSUME NEW i \in 1..k + 1
        PROVE  \E j \in 1..L + 1 : Matches(usedPlaces'[j].place, allTags[i])
    <3>1. CASE i = k + 1
      <4>1. L + 1 \in 1..L + 1 /\ usedPlaces'[L + 1].place = p
        BY <1>4, <1>5
      <4> QED
        BY <3>1, <4>1, <1>2
    <3>2. CASE i \in 1..k
      <4>1. PICK j \in 1..L : Matches(usedPlaces[j].place, allTags[i])
        BY <3>2, <1>0, <1>L DEF SegmentsCovered
      <4>2. j \in 1..L + 1 /\ usedPlaces'[j] = usedPlaces[j]
        BY <1>4, <1>5
      <4> QED
        BY <4>1, <4>2
    <3> QED
      BY <3>1, <3>2, <1>4
  <2> QED
    BY <1>3, <1>5, <2>1 DEF SegmentsCovered, Matches
<1>10. /\ \A j \in 0..L : StopLoc(j)' = StopLoc(j) /\ StopSeg(j)' = StopSeg(j)
       /\ StopLoc(L + 1)' = PlaceLoc[p] /\ StopSeg(L + 1)' = k + 1
  <2>1. \A j \in 0..L : j = 0 \/ j \in 1..L
    BY <1>4
  <2>2. L + 1 # 0
    BY <1>4
  <2> QED
    BY <1>3, <1>5, <2>1, <2>2 DEF StopLoc, StopSeg
<1>11. StopLoc(L) \in Location /\ StopSeg(L) \in Nat
  <2>1. start \in Location
    BY <1>0 DEF RouteBuildingTypeOK
  <2>2. L # 0 => usedPlaces[L] \in Stop
    BY <1>L, <1>4
  <2> QED
    BY <2>1, <2>2, RouteBuildingAssumption DEF StopLoc, StopSeg, Stop
<1>12. Dist[StopLoc(L)][PlaceLoc[p]] <= radius * (k + 1 - StopSeg(L))
  <2> DEFINE dAB == Dist[StopLoc(L)][prevLoc]
             dBC == Dist[prevLoc][PlaceLoc[p]]
             dAC == Dist[StopLoc(L)][PlaceLoc[p]]
             passed == k - StopSeg(L)
  <2>1. dAB <= radius * passed
    BY <1>0, <1>3, <1>L DEF SearchCentre
  <2>2. dAB \in Nat /\ dBC \in Nat /\ dAC \in Nat /\ dAC <= dAB + dBC
    BY <1>4, <1>11, RouteBuildingAssumption
  <2>3. dBC <= radius
    BY <1>2
  <2>4. passed \in Int /\ k + 1 - StopSeg(L) = passed + 1
    BY <1>4, <1>11
  <2> HIDE DEF dAB, dBC, dAC, passed
  <2>5. radius * (passed + 1) = radius * passed + radius /\ radius * passed \in Int
    BY <1>4, <2>4, OneMoreRadius
  <2>6. dAC <= radius * (k + 1 - StopSeg(L))
    BY <1>4, <2>1, <2>2, <2>3, <2>4, <2>5
  <2> QED
    BY <2>6 DEF dAC
<1>13. LegBound'
  <2>1. ASSUME NEW j \in 1..L + 1
        PROVE  Dist[StopLoc(j - 1)'][StopLoc(j)'] <= radius * (StopSeg(j)' - StopSeg(j - 1)')
    <3>1. CASE j = L + 1
      <4>1. j - 1 = L /\ L \in 0..L
        BY <3>1, <1>4
      <4>2. StopLoc(j)' = PlaceLoc[p] /\ StopSeg(j)' = k + 1
        BY <3>1, <1>4, <1>5, <1>3 DEF StopLoc, StopSeg
      <4>3. StopLoc(j - 1)' = StopLoc(L) /\ StopSeg(j - 1)' = StopSeg(L)
        <5>1. L = 0 \/ L \in 1..L
          BY <1>4
        <5> QED
          BY <4>1, <5>1, <1>3, <1>5 DEF StopLoc, StopSeg
      <4>4. Dist[StopLoc(j - 1)'][StopLoc(j)'] = Dist[StopLoc(L)][PlaceLoc[p]]
        BY <4>2, <4>3
      <4>5. StopSeg(j)' - StopSeg(j - 1)' = k + 1 - StopSeg(L)
        BY <4>2, <4>3, <1>4, <1>11
      <4> QED
        BY <4>4, <4>5, <1>12
    <3>2. CASE j \in 1..L
      <4>1. j \in 0..L /\ j - 1 \in 0..L
        BY <3>2, <1>4
      <4>2. Dist[StopLoc(j - 1)][StopLoc(j)] <= radius * (StopSeg(j) - StopSeg(j - 1))
        BY <3>2, <1>0, <1>L DEF LegBound
      <4> QED
        BY <4>1, <4>2, <1>10
    <3> QED
      BY <3>1, <3>2, <1>4
  <2>2. \A j \in 1..L + 1 :
          Dist[StopLoc(j - 1)'][StopLoc(j)'] <= radius' * (StopSeg(j)' - StopSeg(j - 1)')
    BY <2>1, <1>3
  <2> QED
    BY <2>2, <1>5 DEF LegBound, StopLoc, StopSeg
<1>14. SearchCentre'
  <2>1. StopLoc(Len(usedPlaces))' = PlaceLoc[p] /\ StopSeg(Len(usedPlaces))' = k + 1
    BY <1>5, <1>10 DEF StopLoc, StopSeg
  <2>2. Dist[PlaceLoc[p]][PlaceLoc[p]] = 0
    BY <1>4, RouteBuildingAssumption
  <2>3. (k + 1) - (k + 1) = 0 /\ radius * 0 = 0
    BY <1>4
  <2> QED
    BY <2>1, <2>2, <2>3, <1>1, <1>3 DEF SearchCentre
<1>15. RouteContinuous' /\ LegOrigin'
  BY <1>0, <1>3 DEF RouteContinuous, LegOrigin, StopsInRange
<1>16. GeoCallsBounded'
  BY <1>0, <1>3, <1>4 DEF GeoCallsBounded, StopsInRange
<1> QED
  BY <1>6, <1>7, <1>8, <1>9, <1>13, <1>14, <1>15, <1>16 DEF RouteBuildingInv

(* An array without a fresh candidate moves the search centre by at most   *)
(* one radius and is matched by a stop already on the route.               *)
LEMMA AllUsedPreserves ==
  ASSUME RouteBuildingInv, AllUsed
  PROVE  RouteBuildingInv'
<1> DEFINE tags == allTags[k + 1]
           found == FindOptimalPlaces(tags, prevLoc)
           last == StopLoc(Len(usedPlaces))
           lastSeg == StopSeg(Len(usedPlaces))
<1>0. /\ RouteBuildingTypeOK /\ StopsInRange /\ StopsOrderedAndDistinct
      /\ SegmentsCovered /\ LegBound /\ RouteContinuous /\ GeoCallsBounded
      /\ SearchCentre /\ LegOrigin
  BY DEF RouteBuildingInv
<1>1. PICK p \in FirstOf(found, tags) : prevLoc' = PlaceLoc[p]
  BY DEF AllUsed
<1>2. /\ p \in found /\ p \in Place /\ Matches(p, tags)
      /\ Dist[prevLoc][PlaceLoc[p]] <= radius
  BY CandidateFacts
<1>3. /\ UNCHANGED <<row, pc, allTags, start, radius, usedPlaces, fullRoute, geoCalls, status>>
      /\ k' = k + 1
      /\ pc = "search" /\ found \subseteq Used
  BY DEF AllUsed
<1>4. /\ usedPlaces \in Seq(Stop) /\ k \in Nat /\ radius \in Nat
      /\ Len(usedPlaces) \in Nat /\ Len(allTags) \in Nat /\ k < Len(allTags)
      /\ prevLoc \in Location /\ PlaceLoc[p] \in Location
  <2>1. usedPlaces \in Seq(Stop) /\ allTags \in Seq(SUBSET Tag) /\ k \in 0..Len(allTags)
    BY <1>0 DEF RouteBuildingTypeOK
  <2>2. radius \in Nat /\ prevLoc \in Location /\ PlaceLoc[p] \in Location
    BY <1>0, <1>2, RouteBuildingAssumption DEF RouteBuildingTypeOK
  <2>3. k < Len(allTags)
    BY DEF AllUsed
  <2> QED
    BY <2>1, <2>2, <2>3
<1>5. RouteBuildingTypeOK'
  BY <1>0, <1>1, <1>3, <1>4 DEF RouteBuildingTypeOK
<1>6. StopsInRange'
  BY <1>0, <1>3, <1>4 DEF StopsInRange
<1>7. StopsOrderedAndDistinct' /\ LegBound'
  BY <1>0, <1>3 DEF StopsOrderedAndDistinct, LegBound, StopLoc, StopSeg
<1>8. SegmentsCovered'
  <2>1. PICK j \in 1..Len(usedPlaces) : usedPlaces[j].place = p
    BY <1>2, <1>3 DEF Used
  <2>2. \A i \in 1..k + 1 : i \in 1..k \/ i = k + 1
    BY <1>4
  <2>3. \A i \in 1..k + 1 :
          \E m \in 1..Len(usedPlaces) : Matches(usedPlaces[m].place, allTags[i])
    BY <1>0, <1>2, <2>1, <2>2 DEF SegmentsCovered
  <2> QED
    BY <1>3, <2>3 DEF SegmentsCovered, Matches
<1>9. SearchCentre'
  <2> DEFINE dAB == Dist[last][prevLoc]
             dBC == Dist[prevLoc][PlaceLoc[p]]
             dAC == Dist[last][PlaceLoc[p]]
             passed == k - lastSeg
  <2>1. dAB <= radius * passed
    BY <1>0, <1>3 DEF SearchCentre
  <2>2. last \in Location /\ lastSeg \in Nat
    <3>1. start \in Location
      BY <1>0 DEF RouteBuildingTypeOK
    <3>2. Len(usedPlaces) # 0 => usedPlaces[Len(usedPlaces)] \in Stop
      BY <1>4
    <3> QED
      BY <3>1, <3>2, RouteBuildingAssumption DEF StopLoc, StopSeg, Stop
  <2>3. dAB \in Nat /\ dBC \in Nat /\ dAC \in Nat /\ dAC <= dAB + dBC
    BY <1>4, <2>2, RouteBuildingAssumption
  <2>4. dBC <= radius
    BY <1>2
  <2>5. passed \in Int /\ k + 1 - lastSeg = passed + 1
    BY <1>4, <2>2
  <2>6. last' = last /\ lastSeg' = lastSeg
    BY <1>3 DEF StopLoc, StopSeg
  <2> HIDE DEF dAB, dBC, dAC, passed, last, lastSeg
  <2>7. radius * (passed + 1) = radius * passed + radius /\ radius * passed \in Int
    BY <1>4, <2>5, OneMoreRadius
  <2>8. dAC <= radius * (k + 1 - lastSeg)
    BY <1>4, <2>1, <2>3, <2>4, <2>5, <2>7
  <2> QED
    BY <2>2, <2>6, <2>8, <1>1, <1>3, <1>4 DEF dAC, last, lastSeg, SearchCentre
<1>10. RouteContinuous' /\ LegOrigin'
  BY <1>0, <1>3 DEF RouteContinuous, LegOrigin, StopsInRange
<1>11. GeoCallsBounded'
  BY <1>0, <1>3, <1>4 DEF GeoCallsBounded, StopsInRange
<1> QED
  BY <1>5, <1>6, <1>7, <1>8, <1>9, <1>10, <1>11 DEF RouteBuildingInv

(* A leg starts where the one before it ended. *)
LEMMA BuildLegPreserves ==
  ASSUME RouteBuildingInv, BuildLeg
  PROVE  RouteBuildingInv'
<1>0. /\ RouteBuildingTypeOK /\ StopsInRange /\ StopsOrderedAndDistinct
      /\ SegmentsCovered /\ LegBound /\ RouteContinuous /\ GeoCallsBounded
      /\ SearchCentre /\ LegOrigin
  BY DEF RouteBuildingInv
<1>F. PICK F : F = Len(fullRoute)
  OBVIOUS
<1>1. /\ UNCHANGED <<row, pc, allTags, start, radius, k, usedPlaces, status>>
      /\ pc = "route" /\ F < Len(usedPlaces)
      /\ fullRoute' = Append(fullRoute, <<prevLoc, PlaceLoc[usedPlaces[F + 1].place]>>)
      /\ prevLoc' = PlaceLoc[usedPlaces[F + 1].place]
      /\ geoCalls' = geoCalls + 1
  BY <1>F DEF BuildLeg
<1>2. /\ usedPlaces \in Seq(Stop) /\ fullRoute \in Seq(Location \X Location)
      /\ F \in Nat /\ Len(usedPlaces) \in Nat /\ geoCalls \in Nat
      /\ prevLoc \in Location /\ k \in Nat /\ Len(allTags) \in Nat
  BY <1>0, <1>F DEF RouteBuildingTypeOK
<1>3. PlaceLoc[usedPlaces[F + 1].place] \in Location
  <2>1. F + 1 \in 1..Len(usedPlaces)
    BY <1>1, <1>2
  <2>2. usedPlaces[F + 1] \in Stop
    BY <2>1, <1>2
  <2> QED
    BY <2>2, RouteBuildingAssumption DEF Stop
<1>4. /\ Len(fullRoute') = F + 1
      /\ fullRoute'[F + 1] = <<prevLoc, PlaceLoc[usedPlaces[F + 1].place]>>
      /\ \A i \in 1..F : fullRoute'[i] = fullRoute[i]
      /\ fullRoute' \in Seq(Location \X Location)
  BY <1>1, <1>2, <1>3, <1>F
<1>5. RouteBuildingTypeOK'
  BY <1>0, <1>1, <1>2, <1>3, <1>4 DEF RouteBuildingTypeOK
<1>6. StopsInRange'
  BY <1>0, <1>1, <1>2, <1>4, <1>F DEF StopsInRange
<1>7. StopsOrderedAndDistinct' /\ SegmentsCovered' /\ LegBound'
  BY <1>1, StopsUntouched
<1>8. \A i \in 0..F + 1 : StopLoc(i)' = StopLoc(i)
  BY <1>1 DEF StopLoc
<1>9. RouteContinuous'
  <2>1. fullRoute'[F + 1] = <<StopLoc(F), StopLoc(F + 1)>>
    <3>1. prevLoc = StopLoc(F) /\ F + 1 # 0
      BY <1>0, <1>1, <1>2, <1>F DEF LegOrigin
    <3> QED
      BY <3>1, <1>4 DEF StopLoc
  <2>2. \A i \in 1..F : fullRoute'[i] = <<StopLoc(i - 1), StopLoc(i)>>
    BY <1>0, <1>4, <1>F DEF RouteContinuous
  <2>3. \A i \in 1..F + 1 : i \in 1..F \/ (i = F + 1 /\ i - 1 = F)
    BY <1>2
  <2>4. \A i \in 1..F + 1 : fullRoute'[i] = <<StopLoc(i - 1), StopLoc(i)>>
    BY <2>1, <2>2, <2>3
  <2> QED
    BY <2>4, <1>1, <1>4 DEF RouteContinuous, StopLoc
<1>10. GeoCallsBounded'
  <2>1. geoCalls = F /\ k = Len(allTags) /\ Len(usedPlaces) <= k
    BY <1>0, <1>1, <1>F DEF StopsInRange
  <2>2. status # 200
    BY <1>0, <2>1, <1>1, <1>2 DEF GeoCallsBounded
  <2> QED
    BY <2>1, <2>2, <1>1, <1>2 DEF GeoCallsBounded
<1>11. SearchCentre'
  BY <1>1 DEF SearchCentre
<1>12. LegOrigin'
  <2>1. F + 1 # 0
    BY <1>2
  <2> QED
    BY <1>1, <1>4, <2>1 DEF LegOrigin, StopLoc
<1> QED
  BY <1>5, <1>6, <1>7, <1>9, <1>10, <1>11, <1>12 DEF RouteBuildingInv

(* Steps that move only the control state, the origin, the counter of      *)
(* calls, the body of the request or the table.                            *)
LEMMA OtherStepsPreserve ==
  ASSUME RouteBuildingInv,
         \/ BadBody \/ ParseBody \/ SearchFailed \/ NoPlacesFound
         \/ StartRoute \/ LegFailed \/ LegPanics \/ AnswerRoute
         \/ \E p \in Place : CreatePlace(p) \/ DeletePlace(p)
         \/ UNCHANGED routeBuildingVars
  PROVE  RouteBuildingInv'
<1>0. /\ RouteBuildingTypeOK /\ StopsInRange /\ StopsOrderedAndDistinct
      /\ SegmentsCovered /\ LegBound /\ RouteContinuous /\ GeoCallsBounded
      /\ SearchCentre /\ LegOrigin
  BY DEF RouteBuildingInv
<1>L. /\ Len(allTags) \in Nat /\ Len(usedPlaces) \in Nat /\ Len(fullRoute) \in Nat
      /\ k \in Nat /\ geoCalls \in Nat
  BY <1>0 DEF RouteBuildingTypeOK
<1>1. CASE BadBody \/ SearchFailed \/ NoPlacesFound
  <2>1. /\ UNCHANGED <<row, allTags, start, radius, k, usedPlaces, prevLoc, fullRoute, geoCalls>>
        /\ pc' = "answered" /\ status' \in {400, 404, 500}
    BY <1>1 DEF BadBody, SearchFailed, NoPlacesFound, Respond
  <2>2. RouteBuildingTypeOK' /\ StopsInRange'
    <3>1. RouteBuildingTypeOK'
      BY <1>0, <2>1 DEF RouteBuildingTypeOK
    <3>2. StopsInRange'
      BY <1>0, <2>1, <1>L DEF StopsInRange
    <3> QED
      BY <3>1, <3>2
  <2>3. RouteContinuous' /\ GeoCallsBounded' /\ SearchCentre' /\ LegOrigin'
    BY <1>0, <2>1 DEF RouteContinuous, GeoCallsBounded, SearchCentre, LegOrigin, StopLoc
  <2> QED
    BY <2>1, <2>2, <2>3, StopsUntouched DEF RouteBuildingInv
<1>2. CASE ParseBody
  <2>1. /\ UNCHANGED <<row, start, radius, k, usedPlaces, prevLoc, fullRoute, geoCalls, status>>
        /\ pc = "parse" /\ pc' = "search" /\ allTags' \in Seq(SUBSET Tag)
        /\ k = 0 /\ fullRoute = <<>> /\ geoCalls = 0 /\ Len(usedPlaces) = 0
    BY <1>0, <1>2, <1>L, RouteBuildingAssumption DEF ParseBody, StopsInRange
  <2>2. Len(allTags') \in Nat
    BY <2>1
  <2>3. RouteBuildingTypeOK' /\ StopsInRange'
    <3>1. RouteBuildingTypeOK'
      BY <1>0, <2>1, <2>2 DEF RouteBuildingTypeOK
    <3>2. StopsInRange'
      BY <1>0, <2>1, <2>2, <1>L DEF StopsInRange
    <3> QED
      BY <3>1, <3>2
  <2>4. StopsOrderedAndDistinct' /\ SegmentsCovered' /\ LegBound' /\ RouteContinuous' /\ LegOrigin'
    BY <1>0, <2>1
    DEF StopsOrderedAndDistinct, SegmentsCovered, LegBound, RouteContinuous, LegOrigin
  <2>5. SearchCentre'
    <3>1. start \in Location /\ radius \in Nat /\ prevLoc = start
      BY <1>0, <2>1 DEF RouteBuildingTypeOK, StopsInRange
    <3>2. Dist[start][start] = 0 /\ 0 - 0 = 0 /\ radius * 0 = 0
      BY <3>1, RouteBuildingAssumption
    <3>3. StopLoc(Len(usedPlaces))' = start /\ StopSeg(Len(usedPlaces))' = 0
      BY <2>1 DEF StopLoc, StopSeg
    <3> QED
      BY <2>1, <3>1, <3>2, <3>3 DEF SearchCentre
  <2>6. GeoCallsBounded'
    <3>1. status # 200
      BY <1>0, <1>2 DEF StopsInRange, ParseBody
    <3> QED
      BY <2>1, <2>2, <3>1 DEF GeoCallsBounded
  <2> QED
    BY <2>3, <2>4, <2>5, <2>6 DEF RouteBuildingInv
<1>3. CASE StartRoute
  <2>1. /\ UNCHANGED <<row, allTags, start, radius, k, usedPlaces, fullRoute, geoCalls, status>>
        /\ pc = "search" /\ pc' = "route" /\ k = Len(allTags) /\ prevLoc' = start
        /\ fullRoute = <<>> /\ geoCalls = 0
    BY <1>0, <1>3 DEF StartRoute, StopsInRange
  <2>2. RouteBuildingTypeOK' /\ StopsInRange'
    <3>1. RouteBuildingTypeOK'
      BY <1>0, <2>1 DEF RouteBuildingTypeOK
    <3>2. StopsInRange'
      BY <1>0, <2>1, <1>L DEF StopsInRange
    <3> QED
      BY <3>1, <3>2
  <2>3. RouteContinuous' /\ GeoCallsBounded' /\ SearchCentre' /\ LegOrigin'
    BY <1>0, <2>1 DEF RouteContinuous, GeoCallsBounded, SearchCentre, LegOrigin, StopLoc
  <2> QED
    BY <2>1, <2>2, <2>3, StopsUntouched DEF RouteBuildingInv
<1>4. CASE LegFailed \/ LegPanics
  <2>1. /\ UNCHANGED <<row, allTags, start, radius, k, usedPlaces, prevLoc, fullRoute>>
        /\ pc = "route" /\ pc' \in {"answered", "panic"}
        /\ Len(fullRoute) < Len(usedPlaces)
        /\ geoCalls' = geoCalls + 1 /\ status' \in {status, 500}
        /\ pc' = "panic" => status' = status
    BY <1>4 DEF LegFailed, LegPanics, Respond
  <2>2. RouteBuildingTypeOK' /\ StopsInRange'
    <3>1. RouteBuildingTypeOK'
      BY <1>0, <2>1 DEF RouteBuildingTypeOK
    <3>2. StopsInRange'
      BY <1>0, <2>1, <1>L DEF StopsInRange
    <3> QED
      BY <3>1, <3>2
  <2>3. RouteContinuous' /\ SearchCentre' /\ LegOrigin'
    BY <1>0, <2>1 DEF RouteContinuous, SearchCentre, LegOrigin, StopLoc
  <2>4. GeoCallsBounded'
    BY <1>0, <1>L, <2>1 DEF GeoCallsBounded, StopsInRange
  <2> QED
    BY <2>1, <2>2, <2>3, <2>4, StopsUntouched DEF RouteBuildingInv
<1>5. CASE AnswerRoute
  <2>1. /\ UNCHANGED <<row, allTags, start, radius, k, usedPlaces, prevLoc, fullRoute, geoCalls>>
        /\ pc = "route" /\ pc' = "answered" /\ status' = 200
        /\ geoCalls = Len(usedPlaces) /\ k = Len(allTags)
    BY <1>0, <1>5 DEF AnswerRoute, Respond, StopsInRange
  <2>2. RouteBuildingTypeOK' /\ StopsInRange'
    <3>1. RouteBuildingTypeOK'
      BY <1>0, <2>1 DEF RouteBuildingTypeOK
    <3>2. StopsInRange'
      BY <1>0, <2>1, <1>L DEF StopsInRange
    <3> QED
      BY <3>1, <3>2
  <2>3. RouteContinuous' /\ GeoCallsBounded' /\ SearchCentre' /\ LegOrigin'
    BY <1>0, <2>1 DEF RouteContinuous, GeoCallsBounded, SearchCentre, LegOrigin, StopLoc
  <2> QED
    BY <2>1, <2>2, <2>3, StopsUntouched DEF RouteBuildingInv
<1>6. CASE \/ \E p \in Place : CreatePlace(p) \/ DeletePlace(p)
           \/ UNCHANGED routeBuildingVars
  <2>1. UNCHANGED requestVars /\ row' \in [Place -> {"absent", "live", "deleted"}]
    BY <1>0, <1>6
    DEF CreatePlace, DeletePlace, routeBuildingVars, requestVars, RouteBuildingTypeOK
  <2>2. RouteBuildingTypeOK' /\ StopsInRange'
    <3>1. RouteBuildingTypeOK'
      BY <1>0, <2>1 DEF requestVars, RouteBuildingTypeOK
    <3>2. StopsInRange'
      BY <1>0, <2>1, <1>L DEF requestVars, StopsInRange
    <3> QED
      BY <3>1, <3>2
  <2>3. RouteContinuous' /\ GeoCallsBounded' /\ SearchCentre' /\ LegOrigin'
    BY <1>0, <2>1
    DEF requestVars, RouteContinuous, GeoCallsBounded, SearchCentre, LegOrigin, StopLoc, StopSeg
  <2>4. UNCHANGED <<allTags, start, radius, k, usedPlaces>>
    BY <2>1 DEF requestVars
  <2> QED
    BY <2>2, <2>3, <2>4, StopsUntouched DEF RouteBuildingInv
<1> QED
  BY <1>1, <1>2, <1>3, <1>4, <1>5, <1>6

(* Every step preserves RouteBuildingInv. *)
LEMMA RouteBuildingInvStep ==
  RouteBuildingInv /\ [RouteBuildingNext]_routeBuildingVars => RouteBuildingInv'
BY PickPlacePreserves, AllUsedPreserves, BuildLegPreserves, OtherStepsPreserve
DEF RouteBuildingNext, HandlerStep, LegStep

(* RouteBuildingInv holds whatever the database returns first and whatever *)
(* other requests do to the table in between.                              *)
THEOREM RouteBuildingInvariance == RouteBuildingSpec => []RouteBuildingInv
BY RouteBuildingInvInit, RouteBuildingInvStep, PTL DEF RouteBuildingSpec

(* The request's variables keep their types: no index leaves its list.     *)
THEOREM RouteBuildingTypeCorrect == RouteBuildingSpec => []RouteBuildingTypeOK
<1>1. RouteBuildingInv => RouteBuildingTypeOK
  BY DEF RouteBuildingInv
<1> QED
  BY <1>1, RouteBuildingInvariance, PTL

(* No place is visited twice, and stops keep the order of the tag arrays.  *)
THEOREM RouteStopsOrderedAndDistinct == RouteBuildingSpec => []StopsOrderedAndDistinct
<1>1. RouteBuildingInv => StopsOrderedAndDistinct
  BY DEF RouteBuildingInv
<1> QED
  BY <1>1, RouteBuildingInvariance, PTL

(* No tag array is dropped without a stop on the route that matches it.    *)
THEOREM RouteSegmentsCovered == RouteBuildingSpec => []SegmentsCovered
<1>1. RouteBuildingInv => SegmentsCovered
  BY DEF RouteBuildingInv
<1> QED
  BY <1>1, RouteBuildingInvariance, PTL

(* The distance between consecutive stops is bounded by the radius times   *)
(* the number of arrays between them, in any metric.                       *)
THEOREM RouteLegBound == RouteBuildingSpec => []LegBound
<1>1. RouteBuildingInv => LegBound
  BY DEF RouteBuildingInv
<1> QED
  BY <1>1, RouteBuildingInvariance, PTL

(* The legs form one path from the start through the stops.                *)
THEOREM RouteIsContinuous == RouteBuildingSpec => []RouteContinuous
<1>1. RouteBuildingInv => RouteContinuous
  BY DEF RouteBuildingInv
<1> QED
  BY <1>1, RouteBuildingInvariance, PTL

(* A request never costs more Geoapify calls than it has tag arrays.       *)
THEOREM RouteGeoCallsBounded == RouteBuildingSpec => []GeoCallsBounded
<1>1. RouteBuildingInv => GeoCallsBounded
  BY DEF RouteBuildingInv
<1> QED
  BY <1>1, RouteBuildingInvariance, PTL

-----------------------------------------------------------------------------
(***************************************************************************)
(* BuildAnswered without its fairness: what other requests do to the table *)
(* cannot prolong a request.                                               *)
(***************************************************************************)
(* The steps a parsed request may still take: for each tag array that is   *)
(* left a search and a leg, a leg for each stop picked already, the reset  *)
(* of prevLoc and the answer.                                              *)
StepsLeft ==
  CASE pc = "search" -> 2 * (Len(allTags) - k) + Len(usedPlaces) + 2
    [] pc = "route" -> Len(usedPlaces) - Len(fullRoute) + 1
    [] OTHER -> 0

(* Parsing is the first step of a request, every other leaves less to do.  *)
StepsCounted ==
  \/ pc = "parse" /\ pc' # "parse"
  \/ pc # "parse" /\ pc' # "parse" /\ StepsLeft' < StepsLeft
  \/ UNCHANGED requestVars

(* What is left is a number. *)
LEMMA StepsLeftType == RouteBuildingInv => StepsLeft \in Nat
<1> SUFFICES ASSUME RouteBuildingInv PROVE StepsLeft \in Nat
  OBVIOUS
<1>1. /\ Len(allTags) \in Nat /\ Len(usedPlaces) \in Nat /\ Len(fullRoute) \in Nat
      /\ k \in 0..Len(allTags) /\ Len(fullRoute) <= Len(usedPlaces)
  BY DEF RouteBuildingInv, RouteBuildingTypeOK, StopsInRange
<1> QED
  BY <1>1 DEF StepsLeft

(* Each step of the request leaves less; the table has no part in it. *)
LEMMA StepsFall ==
  RouteBuildingInv /\ RouteBuildingNext => StepsCounted
<1> SUFFICES ASSUME RouteBuildingInv, RouteBuildingNext PROVE StepsCounted
  OBVIOUS
<1> DEFINE A == Len(allTags)
           U == Len(usedPlaces)
           F == Len(fullRoute)
<1>1. /\ A \in Nat /\ U \in Nat /\ F \in Nat /\ k \in 0..A /\ F <= U
      /\ usedPlaces \in Seq(Stop) /\ fullRoute \in Seq(Location \X Location)
      /\ pc = "search" => F = 0
  BY DEF RouteBuildingInv, RouteBuildingTypeOK, StopsInRange
<1>2. CASE BadBody \/ ParseBody
  BY <1>2 DEF BadBody, ParseBody, Respond, StepsCounted
<1>3. CASE PickPlace
  <2>1. PICK p : usedPlaces' = Append(usedPlaces, p)
    BY <1>3 DEF PickPlace
  <2>2. Len(usedPlaces') = U + 1
    BY <1>1, <2>1
  <2>3. pc = "search" /\ pc' = "search" /\ k' = k + 1 /\ allTags' = allTags
    BY <1>3 DEF PickPlace
  <2>4. StepsLeft = 2 * (A - k) + U + 2 /\ StepsLeft' = 2 * (A - (k + 1)) + (U + 1) + 2
    BY <2>2, <2>3 DEF StepsLeft
  <2>5. StepsLeft' < StepsLeft
    BY <1>1, <2>4
  <2> QED
    BY <2>3, <2>5 DEF StepsCounted
<1>4. CASE AllUsed
  <2>1. /\ pc = "search" /\ pc' = "search" /\ k' = k + 1
        /\ allTags' = allTags /\ usedPlaces' = usedPlaces
    BY <1>4 DEF AllUsed
  <2>2. StepsLeft = 2 * (A - k) + U + 2 /\ StepsLeft' = 2 * (A - (k + 1)) + U + 2
    BY <2>1 DEF StepsLeft
  <2>3. StepsLeft' < StepsLeft
    BY <1>1, <2>2
  <2> QED
    BY <2>1, <2>3 DEF StepsCounted
<1>5. CASE StartRoute
  <2>1. /\ pc = "search" /\ pc' = "route" /\ k = A
        /\ usedPlaces' = usedPlaces /\ fullRoute' = fullRoute
    BY <1>5 DEF StartRoute
  <2>2. StepsLeft = 2 * (A - k) + U + 2 /\ StepsLeft' = U - F + 1
    BY <2>1 DEF StepsLeft
  <2>3. StepsLeft' < StepsLeft
    BY <1>1, <2>1, <2>2
  <2> QED
    BY <2>1, <2>3 DEF StepsCounted
<1>6. CASE BuildLeg
  <2>1. PICK l : fullRoute' = Append(fullRoute, l)
    BY <1>6 DEF BuildLeg
  <2>2. Len(fullRoute') = F + 1
    BY <1>1, <2>1
  <2>3. pc = "route" /\ pc' = "route" /\ usedPlaces' = usedPlaces
    BY <1>6 DEF BuildLeg
  <2>4. StepsLeft = U - F + 1 /\ StepsLeft' = U - (F + 1) + 1
    BY <2>2, <2>3 DEF StepsLeft
  <2>5. StepsLeft' < StepsLeft
    BY <1>1, <2>4
  <2> QED
    BY <2>3, <2>5 DEF StepsCounted
<1>7. CASE SearchFailed \/ NoPlacesFound \/ LegFailed \/ LegPanics \/ AnswerRoute
  <2>1. pc \in {"search", "route"} /\ pc' \in {"answered", "panic"}
    BY <1>7 DEF SearchFailed, NoPlacesFound, LegFailed, LegPanics, AnswerRoute, Respond
  <2>2. StepsLeft > 0 /\ StepsLeft' = 0
    BY <1>1, <2>1 DEF StepsLeft
  <2>3. StepsLeft' < StepsLeft
    BY <2>2
  <2> QED
    BY <2>1, <2>3 DEF StepsCounted
<1>8. CASE \E p \in Place : CreatePlace(p) \/ DeletePlace(p)
  BY <1>8 DEF CreatePlace, DeletePlace, StepsCounted
<1> QED
  BY <1>2, <1>3, <1>4, <1>5, <1>6, <1>7, <1>8 DEF RouteBuildingNext, HandlerStep, LegStep

(* A parsed request takes at most two steps for each of its tag arrays and *)
(* two more, however often places are created and deleted meanwhile: no    *)
(* search or leg is ever begun again (service.go 169-225).                 *)
THEOREM RouteBuildingEnds ==
  RouteBuildingSpec =>
    [](StepsLeft \in Nat) /\ [][StepsCounted]_routeBuildingVars
<1>1. RouteBuildingInv /\ [RouteBuildingNext]_routeBuildingVars
        => [StepsCounted]_routeBuildingVars
  BY StepsFall
<1> QED
  BY <1>1, StepsLeftType, RouteBuildingInvariance, PTL DEF RouteBuildingSpec

-----------------------------------------------------------------------------
(***************************************************************************)
(* How far a route reaches, and what a 200 delivers.                       *)
(***************************************************************************)
(* Any two stops, the start included, are no farther apart than one radius *)
(* for each tag array from the one's to the other's.                       *)
ReachBound ==
  \A i, j \in 0..Len(usedPlaces) :
    i < j => Dist[StopLoc(i)][StopLoc(j)] <= radius * (StopSeg(j) - StopSeg(i))

(* The same of the search centre, which may have moved on without a stop.  *)
SearchReach ==
  pc = "search" =>
    \A i \in 0..Len(usedPlaces) :
      Dist[StopLoc(i)][prevLoc] <= radius * (k - StopSeg(i))

(* Stops are places on the map, picked for some array. *)
LEMMA StopsTyped ==
  ASSUME RouteBuildingInv, NEW i \in 0..Len(usedPlaces)
  PROVE  StopLoc(i) \in Location /\ StopSeg(i) \in Nat
<1>1. usedPlaces \in Seq(Stop) /\ start \in Location
  BY DEF RouteBuildingInv, RouteBuildingTypeOK
<1>2. i = 0 \/ usedPlaces[i] \in Stop
  BY <1>1
<1> QED
  BY <1>1, <1>2, RouteBuildingAssumption DEF StopLoc, StopSeg, Stop

(* A candidate of the search is within one radius more of every stop.      *)
LEMMA CandidateInReach ==
  ASSUME RouteBuildingInv, SearchReach, pc = "search",
         NEW p \in Place, Dist[prevLoc][PlaceLoc[p]] <= radius,
         NEW i \in 0..Len(usedPlaces)
  PROVE  Dist[StopLoc(i)][PlaceLoc[p]] <= radius * (k + 1 - StopSeg(i))
<1> DEFINE dAB == Dist[StopLoc(i)][prevLoc]
           dBC == Dist[prevLoc][PlaceLoc[p]]
           dAC == Dist[StopLoc(i)][PlaceLoc[p]]
           passed == k - StopSeg(i)
<1>1. /\ radius \in Nat /\ k \in Nat /\ prevLoc \in Location /\ PlaceLoc[p] \in Location
  <2>1. radius \in Nat /\ prevLoc \in Location /\ allTags \in Seq(SUBSET Tag)
        /\ k \in 0..Len(allTags)
    BY DEF RouteBuildingInv, RouteBuildingTypeOK
  <2> QED
    BY <2>1, RouteBuildingAssumption
<1>2. StopLoc(i) \in Location /\ StopSeg(i) \in Nat
  BY StopsTyped
<1>3. dAB \in Nat /\ dBC \in Nat /\ dAC \in Nat /\ dAC <= dAB + dBC
  BY <1>1, <1>2, RouteBuildingAssumption
<1>4. dAB <= radius * passed /\ dBC <= radius
  BY DEF SearchReach
<1>5. passed \in Int /\ k + 1 - StopSeg(i) = passed + 1
  BY <1>1, <1>2
<1> HIDE DEF dAB, dBC, dAC, passed
<1>6. radius * (passed + 1) = radius * passed + radius /\ radius * passed \in Int
  BY <1>1, <1>5, OneMoreRadius
<1>7. dAC <= radius * (k + 1 - StopSeg(i))
  BY <1>1, <1>3, <1>4, <1>5, <1>6
<1> QED
  BY <1>7 DEF dAC

(* The search extends the reach by one radius, with a stop or without.     *)
LEMMA PickPlaceReaches ==
  ASSUME RouteBuildingInv, ReachBound, SearchReach, PickPlace
  PROVE  ReachBound' /\ SearchReach'
<1>L. PICK L : L = Len(usedPlaces)
  OBVIOUS
<1>1. PICK p \in FirstOf(FindOptimalPlaces(allTags[k + 1], prevLoc) \ Used, allTags[k + 1]) :
        /\ usedPlaces' = Append(usedPlaces, [place |-> p, seg |-> k + 1])
        /\ prevLoc' = PlaceLoc[p]
  BY DEF PickPlace
<1>2. p \in Place /\ Dist[prevLoc][PlaceLoc[p]] <= radius
  BY CandidateFacts
<1>3. pc = "search" /\ k' = k + 1 /\ start' = start /\ radius' = radius
  BY DEF PickPlace
<1>4. L \in Nat /\ k \in Nat /\ usedPlaces \in Seq(Stop) /\ radius \in Nat
  <2>1. usedPlaces \in Seq(Stop) /\ allTags \in Seq(SUBSET Tag)
        /\ k \in 0..Len(allTags) /\ radius \in Nat
    BY DEF RouteBuildingInv, RouteBuildingTypeOK
  <2> QED
    BY <2>1, <1>L
<1>5. /\ Len(usedPlaces') = L + 1
      /\ usedPlaces'[L + 1] = [place |-> p, seg |-> k + 1]
      /\ \A j \in 1..L : usedPlaces'[j] = usedPlaces[j]
  BY <1>1, <1>L, <1>4
<1>6. /\ \A j \in 0..L : StopLoc(j)' = StopLoc(j) /\ StopSeg(j)' = StopSeg(j)
      /\ StopLoc(L + 1)' = PlaceLoc[p] /\ StopSeg(L + 1)' = k + 1
  <2>1. \A j \in 0..L : j = 0 \/ j \in 1..L
    BY <1>4
  <2>2. L + 1 # 0
    BY <1>4
  <2> QED
    BY <1>3, <1>5, <2>1, <2>2 DEF StopLoc, StopSeg
<1>7. \A i \in 0..L : Dist[StopLoc(i)][PlaceLoc[p]] <= radius * (k + 1 - StopSeg(i))
  BY <1>2, <1>3, <1>L, CandidateInReach
<1>8. ReachBound'
  <2>1. ASSUME NEW i \in 0..L + 1, NEW j \in 0..L + 1, i < j
        PROVE  Dist[StopLoc(i)'][StopLoc(j)'] <= radius * (StopSeg(j)' - StopSeg(i)')
    <3>1. i \in 0..L
      BY <2>1, <1>4
    <3>2. CASE j = L + 1
      <4>1. StopLoc(j)' = PlaceLoc[p] /\ StopSeg(j)' = k + 1
        BY <1>3, <1>4, <1>5, <3>2 DEF StopLoc, StopSeg
      <4>2. StopLoc(i)' = StopLoc(i) /\ StopSeg(i)' = StopSeg(i)
        BY <1>6, <3>1
      <4>3. Dist[StopLoc(i)'][StopLoc(j)'] = Dist[StopLoc(i)][PlaceLoc[p]]
        BY <4>1, <4>2
      <4>4. StopSeg(j)' - StopSeg(i)' = k + 1 - StopSeg(i)
        BY <4>1, <4>2, <3>1, <1>L, <1>4, StopsTyped
      <4> QED
        BY <4>3, <4>4, <1>7, <3>1
    <3>3. CASE j \in 0..L
      BY <1>6, <1>L, <2>1, <3>1, <3>3 DEF ReachBound
    <3> QED
      BY <3>2, <3>3, <1>4
  <2>2. \A i, j \in 0..L + 1 : i < j =>
          Dist[StopLoc(i)'][StopLoc(j)'] <= radius' * (StopSeg(j)' - StopSeg(i)')
    BY <2>1, <1>3
  <2> QED
    BY <2>2, <1>5 DEF ReachBound, StopLoc, StopSeg
<1>9. SearchReach'
  <2>1. ASSUME NEW i \in 0..L + 1
        PROVE  Dist[StopLoc(i)'][prevLoc'] <= radius' * (k' - StopSeg(i)')
    <3>1. CASE i = L + 1
      <4>1. StopLoc(i)' = PlaceLoc[p] /\ StopSeg(i)' = k + 1
        BY <1>3, <1>4, <1>5, <3>1 DEF StopLoc, StopSeg
      <4>2. Dist[PlaceLoc[p]][PlaceLoc[p]] = 0
        BY <1>2, RouteBuildingAssumption
      <4>3. (k + 1) - (k + 1) = 0 /\ radius * 0 = 0
        BY <1>4
      <4> QED
        BY <1>1, <1>3, <4>1, <4>2, <4>3
    <3>2. CASE i \in 0..L
      <4>1. StopLoc(i)' = StopLoc(i) /\ StopSeg(i)' = StopSeg(i)
        BY <1>6, <3>2
      <4>2. Dist[StopLoc(i)'][prevLoc'] = Dist[StopLoc(i)][PlaceLoc[p]]
        BY <1>1, <4>1
      <4>3. k' - StopSeg(i)' = k + 1 - StopSeg(i)
        BY <1>3, <4>1, <3>2, <1>L, <1>4, StopsTyped
      <4> QED
        BY <4>2, <4>3, <1>3, <1>7, <3>2
    <3> QED
      BY <3>1, <3>2, <1>4
  <2> QED
    BY <2>1, <1>5 DEF SearchReach, StopLoc, StopSeg
<1> QED
  BY <1>8, <1>9

(* An array that picks nothing still moves the centre by one radius. *)
LEMMA AllUsedReaches ==
  ASSUME RouteBuildingInv, ReachBound, SearchReach, AllUsed
  PROVE  ReachBound' /\ SearchReach'
<1>1. PICK p \in FirstOf(FindOptimalPlaces(allTags[k + 1], prevLoc), allTags[k + 1]) :
        prevLoc' = PlaceLoc[p]
  BY DEF AllUsed
<1>2. p \in Place /\ Dist[prevLoc][PlaceLoc[p]] <= radius
  BY CandidateFacts
<1>3. pc = "search" /\ k' = k + 1 /\ UNCHANGED <<start, radius, usedPlaces>>
  BY DEF AllUsed
<1>4. \A i \in 0..Len(usedPlaces) :
        Dist[StopLoc(i)][PlaceLoc[p]] <= radius * (k + 1 - StopSeg(i))
  BY <1>2, <1>3, CandidateInReach
<1>5. ReachBound'
  BY <1>3 DEF ReachBound, StopLoc, StopSeg
<1>6. \A i \in 0..Len(usedPlaces) : StopLoc(i)' = StopLoc(i) /\ StopSeg(i)' = StopSeg(i)
  BY <1>3 DEF StopLoc, StopSeg
<1>7. ASSUME NEW i \in 0..Len(usedPlaces)
      PROVE  Dist[StopLoc(i)'][prevLoc'] <= radius' * (k' - StopSeg(i)')
  <2>1. Dist[StopLoc(i)'][prevLoc'] = Dist[StopLoc(i)][PlaceLoc[p]]
    BY <1>1, <1>6
  <2>2. k' - StopSeg(i)' = k + 1 - StopSeg(i)
    <3>1. k \in Nat
      BY DEF RouteBuildingInv, RouteBuildingTypeOK
    <3> QED
      BY <1>3, <1>6, <3>1, StopsTyped
  <2> QED
    BY <2>1, <2>2, <1>3, <1>4
<1>8. SearchReach'
  BY <1>3, <1>7 DEF SearchReach, StopLoc, StopSeg
<1> QED
  BY <1>5, <1>8

(* Before the search there is only the start. *)
LEMMA ReachInit == RouteBuildingInit => ReachBound /\ SearchReach
BY DEF RouteBuildingInit, ReachBound, SearchReach

(* Every other step leaves stops and search centre alone or ends the       *)
(* search.                                                                 *)
LEMMA ReachStep ==
  RouteBuildingInv /\ ReachBound /\ SearchReach /\ [RouteBuildingNext]_routeBuildingVars
    => ReachBound' /\ SearchReach'
<1> SUFFICES ASSUME RouteBuildingInv, ReachBound, SearchReach,
                    [RouteBuildingNext]_routeBuildingVars
             PROVE  ReachBound' /\ SearchReach'
  OBVIOUS
<1>1. CASE ParseBody
  <2>1. /\ usedPlaces = <<>> /\ UNCHANGED <<start, radius, k, usedPlaces, prevLoc>>
        /\ k = 0 /\ prevLoc = start /\ start \in Location /\ radius \in Nat
    <3>1. k = 0 /\ prevLoc = start /\ Len(usedPlaces) <= k /\ usedPlaces \in Seq(Stop)
      BY <1>1 DEF ParseBody, RouteBuildingInv, RouteBuildingTypeOK, StopsInRange
    <3> QED
      BY <1>1, <3>1 DEF ParseBody, RouteBuildingInv, RouteBuildingTypeOK
  <2>2. Dist[start][start] = 0 /\ radius * (0 - 0) = 0
    BY <2>1, RouteBuildingAssumption
  <2> QED
    BY <2>1, <2>2 DEF ReachBound, SearchReach, StopLoc, StopSeg
<1>2. CASE PickPlace
  BY <1>2, PickPlaceReaches
<1>3. CASE AllUsed
  BY <1>3, AllUsedReaches
<1>4. ASSUME UNCHANGED <<start, radius, k, usedPlaces>>,
             UNCHANGED <<pc, prevLoc>> \/ pc' # "search"
      PROVE  ReachBound' /\ SearchReach'
  BY <1>4 DEF ReachBound, SearchReach, StopLoc, StopSeg
<1>5. CASE \/ BadBody \/ SearchFailed \/ NoPlacesFound \/ StartRoute
           \/ BuildLeg \/ LegFailed \/ LegPanics \/ AnswerRoute
  BY <1>4, <1>5
  DEF BadBody, SearchFailed, NoPlacesFound, StartRoute, BuildLeg, LegFailed,
      LegPanics, AnswerRoute, Respond
<1>6. CASE \/ \E p \in Place : CreatePlace(p) \/ DeletePlace(p)
           \/ UNCHANGED routeBuildingVars
  BY <1>4, <1>6 DEF CreatePlace, DeletePlace, requestVars, routeBuildingVars
<1> QED
  BY <1>1, <1>2, <1>3, <1>5, <1>6 DEF RouteBuildingNext, HandlerStep, LegStep

(* No stop is farther from the start, or from any other stop, than one     *)
(* radius per tag array between them: rounds of arrays that pick nothing,  *)
(* or go back and forth, cannot lead farther (service.go 169-197).         *)
THEOREM RouteReachBound == RouteBuildingSpec => []ReachBound
<1>1. RouteBuildingSpec => [](RouteBuildingInv /\ ReachBound /\ SearchReach)
  BY RouteBuildingInvInit, RouteBuildingInvStep, ReachInit, ReachStep, PTL
  DEF RouteBuildingSpec
<1> QED
  BY <1>1, PTL

(* A 200 carries a leg for every stop, and it is empty only if the request *)
(* named no tag array at all (service.go 199-235).                         *)
Delivered ==
  status = 200 =>
    /\ Len(fullRoute) = Len(usedPlaces)
    /\ fullRoute = <<>> <=> allTags = <<>>

(* A 200 is answered once, with all legs in, and nothing is changed after  *)
(* it.                                                                     *)
LEMMA DeliveredStep ==
  RouteBuildingInv /\ Delivered /\ [RouteBuildingNext]_routeBuildingVars => Delivered'
<1> SUFFICES ASSUME RouteBuildingInv, Delivered, [RouteBuildingNext]_routeBuildingVars
             PROVE  Delivered'
  OBVIOUS
<1>1. CASE AnswerRoute
  <2>1. /\ UNCHANGED <<allTags, usedPlaces, fullRoute>>
        /\ Len(fullRoute) = Len(usedPlaces) /\ k = Len(allTags)
    BY <1>1 DEF AnswerRoute, RouteBuildingInv, StopsInRange
  <2>2. /\ allTags \in Seq(SUBSET Tag) /\ fullRoute \in Seq(Location \X Location)
        /\ Len(usedPlaces) \in Nat /\ Len(usedPlaces) <= k /\ SegmentsCovered
    BY DEF RouteBuildingInv, RouteBuildingTypeOK, StopsInRange
  <2>3. ASSUME k # 0 PROVE Len(usedPlaces) # 0
    <3>1. 1 \in 1..k
      BY <2>1, <2>2, <2>3
    <3>2. PICK j \in 1..Len(usedPlaces) : TRUE
      BY <2>2, <3>1 DEF SegmentsCovered
    <3> QED
      BY <2>2, <3>2
  <2>4. k = 0 <=> Len(fullRoute) = 0
    BY <2>1, <2>2, <2>3
  <2>5. (k = 0 <=> allTags = <<>>) /\ (Len(fullRoute) = 0 <=> fullRoute = <<>>)
    BY <2>1, <2>2
  <2> QED
    BY <2>1, <2>4, <2>5 DEF Delivered
<1>2. CASE ~AnswerRoute
  <2>1. status' = 200 => status = 200 /\ pc = "answered"
    BY <1>2
    DEF RouteBuildingNext, HandlerStep, LegStep, BadBody, ParseBody, SearchFailed, NoPlacesFound,
        PickPlace, AllUsed, StartRoute, BuildLeg, LegFailed, LegPanics, Respond,
        CreatePlace, DeletePlace, requestVars, routeBuildingVars,
        RouteBuildingInv, StopsInRange
  <2>2. pc = "answered" => UNCHANGED <<allTags, usedPlaces, fullRoute>>
    BY DEF RouteBuildingNext, HandlerStep, LegStep, BadBody, ParseBody, SearchFailed, NoPlacesFound,
           PickPlace, AllUsed, StartRoute, BuildLeg, LegFailed, LegPanics, AnswerRoute,
           CreatePlace, DeletePlace, requestVars, routeBuildingVars
  <2> QED
    BY <2>1, <2>2 DEF Delivered
<1> QED
  BY <1>1, <1>2

(* No 200 lacks a leg or a stop that the request was owed (service.go      *)
(* 199-235).                                                               *)
THEOREM RouteDelivered == RouteBuildingSpec => []Delivered
<1>1. RouteBuildingInit => Delivered
  BY DEF RouteBuildingInit, Delivered
<1> QED
  BY <1>1, RouteBuildingInvInit, RouteBuildingInvStep, DeliveredStep, PTL
  DEF RouteBuildingSpec
=============================================================================
