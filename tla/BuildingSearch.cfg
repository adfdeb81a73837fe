SPECIFICATION FairSpec
CONSTANTS
  s1 = s1
  s2 = s2
  t1 = t1
  t2 = t2
  bad = bad
  b1 = b1
  b2 = b2
  c1 = c1
  r1 = r1
  r2 = r2
  Streets = {s1, s2}
  Texts = {t1, t2, bad}
  NoText = NoText
  Encodable = {t1, t2}
  Buildings = {b1, b2, c1}
  NoBuilding = NoBuilding
  StreetOf <- OnStreets
  Answer <- Answers
  Slots = {r1, r2}
  Free = Free
  MaxReloads = 2
INVARIANTS
  OnStreet
  TableSettles
  ListMatchesText
PROPERTIES
  BuildingsShown
