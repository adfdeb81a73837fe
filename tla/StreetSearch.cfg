SPECIFICATION FairSpec
CONSTANTS
  s1 = s1
  s2 = s2
  s3 = s3
  t1 = t1
  t2 = t2
  Streets = {s1, s2, s3}
  Texts = {t1, t2}
  NoText = NoText
  NoStreet = NoStreet
  Directory <- AllStreets
  Matching <- Matches
INVARIANTS
  RowsInRange
  TableSettles
  NoOlderText
PROPERTIES
  PickIsShown
  StreetsShown
