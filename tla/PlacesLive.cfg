SPECIFICATION FairSpec
CONSTANTS
  u1 = u1
  p1 = p1
  p2 = p2
  Users = {u1}
  Nobody = Nobody
  Shared = Shared
  Places = {p1}
  NoKey = NoKey
  MaxAuth = 1
  MaxOpens = 1
  MaxPend = 1
  MaxQueue = 2
PROPERTIES
  AccountShows
  ListConverges
  RowsRepaired
  DeleteCloses
