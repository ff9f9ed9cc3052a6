SPECIFICATION Spec
CONSTANTS
  Proc = {c1, c2}
  p1 = p1
  p2 = p2
  p3 = p3
  a1 = a1
  a2 = a2
  i1 = i1
  i2 = i2
  Profile = {p1, p2, p3}
  Agent = {a1, a2}
  Id = {i1, i2}
  Baked = p1
  None = None
  Failed = Failed
  Listing <- Listings
  Request <- Requests
SYMMETRY Alike
CHECK_DEADLOCK FALSE
INVARIANTS AdvertisedIsUsed
PROPERTIES OwnEntriesOnly
