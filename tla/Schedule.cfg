SPECIFICATION Spec
CONSTANTS
  k1 = k1
  k2 = k2
  Cities = {"kyiv", "kyivRegion", "odesaRegion", "other"}
  Kyiv = "kyiv"
  Bundled = {"kyiv", "kyivRegion", "odesaRegion"}
  Table <- MCTable
  Regions <- MCRegions
  BuildingGroups <- MCBuildingGroups
  Keys = {k1, k2}
  NoPlace = NoPlace
  NoCity = NoCity
  NoGroup = NoGroup
  Closed = Closed
SYMMETRY KeySymmetry
INVARIANTS
  TypeOK
  GroupWasOffered
  DrawnIsLit
PROPERTIES
  UndrawableStays
