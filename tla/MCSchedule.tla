------------------------------ MODULE MCSchedule ------------------------------
EXTENDS Schedule, TLC

CONSTANTS k1, k2

D(a, b) == [start |-> a, end |-> b, type |-> "definiteOutage"]
P(a, b) == [start |-> a, end |-> b, type |-> "possibleOutage"]

\* The days of the bundled tables.
K == << <<D(0,4), P(6,9), D(9,13), P(15,18), D(18,22)>>,
        <<P(0,3), D(3,7), P(9,12), D(12,16), P(18,21), D(21,24)>>,
        <<D(0,1), P(3,6), D(6,10), P(12,15), D(15,19), P(21,24)>> >>
R == << <<D(2,4), P(4,8), D(10,12), P(12,16), D(18,20), P(20,24)>>,
        <<D(0,2), P(2,6), D(8,10), P(10,14), D(16,18), P(18,22)>>,
        <<P(0,4), D(6,8), P(8,12), D(14,16), P(16,20), D(22,24)>>,
        <<P(0,2), D(4,6), P(6,10), D(12,14), P(14,18), D(20,22), P(22,24)>> >>
O == << <<D(3,6), P(6,9), D(12,15), P(15,18), D(21,24)>>,
        <<P(0,3), D(6,9), P(9,12), D(15,18), P(18,21)>>,
        <<D(0,3), P(3,6), D(9,12), P(12,15), D(18,21), P(21,24)>>,
        <<D(3,6), P(6,9), D(12,15), D(18,21), P(21,24)>>,
        <<P(0,3), D(6,9), P(9,12), P(15,18), D(21,24)>>,
        <<D(0,3), P(3,6), D(9,12), D(15,18), P(18,21)>> >>

Weeks(days, order) == [g \in DOMAIN order |-> [d \in 1..7 |-> days[order[g][d]]]]

\* kyiv.json, kyivRegion.json, odesaRegion.json
MCTable ==
  ("kyiv" :> Weeks(K, <<<<1,2,3,1,2,3,1>>, <<2,3,1,2,3,1,2>>, <<3,1,2,3,1,2,3>>>>)) @@
  ("kyivRegion" :> Weeks(R, <<<<1,2,3,4,1,1,1>>, <<4,1,2,3,4,4,4>>,
                              <<3,4,1,2,3,3,3>>, <<2,3,4,1,2,2,2>>>>)) @@
  ("odesaRegion" :> Weeks(O, <<<<1,2,3,1,2,3,4>>, <<2,3,1,2,3,1,5>>, <<3,1,2,3,1,2,6>>>>))

MCRegions ==
  {[name |-> "kyiv", groupsCount |-> 3, hasAddressSupport |-> TRUE],
   [name |-> "kyivRegion", groupsCount |-> 4, hasAddressSupport |-> FALSE],
   [name |-> "odesaRegion", groupsCount |-> 2, hasAddressSupport |-> FALSE],
   [name |-> "other", groupsCount |-> 1, hasAddressSupport |-> TRUE]}

\* A building may have a group the table lacks, or one below it.
MCBuildingGroups == {-1, 0, 3}

\* Sound for safety: the keys are interchangeable.
KeySymmetry == Permutations(Keys)
=============================================================================
