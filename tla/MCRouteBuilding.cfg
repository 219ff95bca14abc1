\* Up to four tag arrays over three places, while places come and go.
CONSTANTS
  p1 = p1  p2 = p2  p3 = p3
  a = a  b = b
  MaxTagArrays = 4
  Place <- MCPlace
  Tag <- MCTag
  PlaceTags <- MCPlaceTags
  Location <- MCLocation
  PlaceLoc <- MCPlaceLoc
  Dist <- MCDist
  TagArrays <- MCTagArrays
  Starts = {1}
  Radii = {1, 2}
  ReqTimeout = 1
SPECIFICATION FairRouteBuildingSpec
CHECK_DEADLOCK FALSE
INVARIANTS
  RouteBuildingTypeOK
  StopsOrderedAndDistinct
  SegmentsCovered
  LegBound
  RouteContinuous
  GeoCallsBounded
PROPERTIES
  BuildAnswered
