SPECIFICATION Spec
CONSTANTS
  u1 = u1
  p1 = p1
  p2 = p2
  Users = {u1}
  Nobody = Nobody
  Shared = Shared
  Places = {p1, p2}
  NoKey = NoKey
  MaxAuth = 1
  MaxOpens = 1
  MaxPend = 2
  MaxQueue = 1
SYMMETRY PlaceIds
INVARIANTS
  TypeOK
  KeysKnown
  ListFresh
PROPERTIES
  ImplementsLife
