\* Two requests race each other, three places come and go.
CONSTANTS
  p1 = p1  p2 = p2  p3 = p3
  a = a  b = b  c = c
  Request = {r1, r2}
  Place <- MCPlace
  Tag <- MCTag
  PlaceTags <- MCPlaceTags
  TagsTTL = 60
  None = None
SPECIFICATION FairAllowedTagsSpec
INVARIANTS
  AllowedTagsTypeOK
  NoPhantomTags
  MissIsFresh
PROPERTIES
  EventuallyFresh
  ImplementsCatalogue
