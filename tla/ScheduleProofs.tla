---------------------------- MODULE ScheduleProofs ----------------------------
(***************************************************************************)
(* Proofs about Schedule, for every catalogue of regions and every set of  *)
(* well-formed tables.                                                     *)
(***************************************************************************)
EXTENDS Schedule, SequenceTheorems, TLAPS

AddressRegion == \E region \in Regions : region.hasAddressSupport

\* A model that may be saved.
Justified(model) ==
  \/ \E region \in Regions : model.city = region.name /\ model.group \in Offered(region)
  \/ model.city = Kyiv /\ model.group \in BuildingGroups /\ AddressRegion

\* What each frame knows about the choices below it.
FrameInv(f) ==
  /\ f.screen \in {"address", "street"} =>
       \E region \in Regions : region.hasAddressSupport /\ f.model.city = region.name
  /\ f.screen \in {"address", "street", "group", "create"} => f.model \in PlaceModel
  /\ f.screen = "building" => AddressRegion
  /\ f.screen = "group" =>
       \E region \in Regions : f.model.city = region.name /\ 1..f.groups \subseteq Offered(region)
  /\ f.screen = "create" => f.model.group \in Int /\ Justified(f.model)

TrailInv == \A i \in DOMAIN trail : FrameInv(trail[i])

\* The details lie on the list, of a place that is still there or was
\* deleted from this screen.
DetailsInv ==
  details # Closed =>
    /\ trail = <<>>
    /\ places[details.key] \in {details.model, NoPlace}

PlacesInv == \A k \in Keys : places[k] # NoPlace => Justified(places[k])

IInv == TypeOK /\ TrailInv /\ DetailsInv /\ DrawnIsLit /\ PlacesInv

-----------------------------------------------------------------------------

\* The rows of a list of outages are intervals of the day.
LEMMA RowsType ==
  ASSUME NEW outages \in Seq(Interval)
  PROVE  Rows(outages) \in Seq(Interval)
<1>1. CASE outages # <<>> /\ outages[1].start # 0
  <2>1. outages[1] \in Interval
    <3> HIDE DEF Interval
    <3>1. outages # <<>>
      BY <1>1
    <3>2. Len(outages) # 0
      BY <3>1
    <3>3. Len(outages) \in Nat /\ 1 \in 1..Len(outages)
      BY <3>2
    <3> QED BY <3>3
  <2> DEFINE lead == [start |-> 0, end |-> outages[1].start, type |-> outages[1].type]
  <2>2. lead \in Interval
    BY <2>1 DEF Interval
  <2>3. <<lead>> \o outages \in Seq(Interval)
    <3> HIDE DEF lead
    <3> QED BY <2>2
  <2> QED BY <1>1, <2>3 DEF Rows
<1>2. CASE ~(outages # <<>> /\ outages[1].start # 0)
  BY <1>2 DEF Rows
<1> QED BY <1>1, <1>2

\* The table of a city is a list of weeks.
LEMMA DataType ==
  ASSUME TypeOK, NEW city \in Cities
  PROVE  /\ DataOf(city) \in Seq(Seq(Seq(Interval)))
         /\ \A g \in DOMAIN DataOf(city) : Len(DataOf(city)[g]) = 7
<1>1. CASE city \in Bundled
  BY <1>1, TableAssumption DEF DataOf, TableAssumption
<1>2. CASE city \notin Bundled /\ unnamed \in Bundled
  BY <1>2, TableAssumption DEF DataOf, TableAssumption
<1>3. CASE city \notin Bundled /\ unnamed \notin Bundled
  BY <1>3 DEF DataOf
<1> QED BY <1>1, <1>2, <1>3

\* A place with a schedule has one for each day.
LEMMA DaysInRange ==
  ASSUME TypeOK, NEW model \in PlaceModel, NEW d \in Days, NEW e \in Days, InRange(model, d)
  PROVE  /\ InRange(model, e)
         /\ Outages(model, e) \in Seq(Interval)
<1>1. model.city \in Cities
  BY DEF PlaceModel
<1> DEFINE data == DataOf(model.city)
           g == GroupIndex(model)
<1>2. data \in Seq(Seq(Seq(Interval))) /\ \A h \in DOMAIN data : Len(data[h]) = 7
  BY <1>1, DataType
<1>3. g \in 0..(Len(data) - 1)
  BY DEF InRange
<1>4. InRange(model, e) <=> g \in 0..(Len(data) - 1) /\ e \in 0..(Len(data[g + 1]) - 1)
  BY DEF InRange
<1>5. Outages(model, e) = data[g + 1][e + 1]
  BY DEF Outages
<1> HIDE DEF data, g
<1>6. g + 1 \in DOMAIN data
  BY <1>2, <1>3
<1>7. Len(data[g + 1]) = 7 /\ data[g + 1] \in Seq(Seq(Interval))
  BY <1>2, <1>6
<1>8. e \in 0..6
  BY DEF Days
<1>9. data[g + 1][e + 1] \in Seq(Interval)
  BY <1>7, <1>8
<1> QED BY <1>3, <1>4, <1>5, <1>7, <1>8, <1>9

-----------------------------------------------------------------------------

LEMMA ScheduleInit == Init => IInv
BY DEF Init, IInv, TypeOK, TrailInv, DetailsInv, DrawnIsLit, PlacesInv, Frame

\* Pushing a frame that knows its choices keeps the trail.
LEMMA PushInv ==
  ASSUME IInv, NEW f \in Frame, FrameInv(f), trail' = Append(trail, f)
  PROVE  trail' \in Seq(Frame) /\ TrailInv'
<1>1. trail \in Seq(Frame) /\ \A i \in DOMAIN trail : FrameInv(trail[i])
  BY DEF IInv, TypeOK, TrailInv
<1>2. trail' \in Seq(Frame)
  BY <1>1
<1>3. ASSUME NEW i \in DOMAIN trail' PROVE FrameInv(trail'[i])
  <2>1. i \in 1..(Len(trail) + 1)
    BY <1>1, <1>3
  <2>2. CASE i = Len(trail) + 1
    BY <1>1, <2>2
  <2>3. CASE i # Len(trail) + 1
    <3>1. i \in DOMAIN trail /\ trail'[i] = trail[i]
      BY <1>1, <2>1, <2>3
    <3> QED BY <1>1, <3>1
  <2> QED BY <2>2, <2>3
<1>4. TrailInv'
  <2>1. \A i \in DOMAIN trail' : FrameInv(trail'[i])
    BY <1>3
  <2> QED BY <2>1 DEF TrailInv, FrameInv, Justified, AddressRegion, Offered
<1> QED BY <1>2, <1>4

\* The frame on top.
LEMMA TopInv ==
  ASSUME IInv, trail # <<>>
  PROVE  Top \in Frame /\ FrameInv(Top) /\ Len(trail) \in DOMAIN trail /\ details = Closed
BY DEF IInv, TypeOK, TrailInv, DetailsInv, Top

\* A step that only pushes such a frame keeps the invariant.
LEMMA PushStep ==
  ASSUME IInv, NEW f \in Frame, FrameInv(f), trail' = Append(trail, f), details = Closed,
         UNCHANGED <<today, unnamed, places, details, running>>
  PROVE  IInv'
<1>1. trail' \in Seq(Frame) /\ TrailInv'
  BY PushInv
<1>2. TypeOK'
  BY <1>1 DEF IInv, TypeOK
<1>3. DetailsInv' /\ DrawnIsLit'
  BY DEF DetailsInv, DrawnIsLit
<1>4. PlacesInv'
  BY DEF IInv, PlacesInv, Justified, AddressRegion, Offered
<1> QED BY <1>1, <1>2, <1>3, <1>4 DEF IInv

LEMMA GoToFillAddressStep ==
  ASSUME IInv, NEW region \in Regions, GoToFillAddress(region)
  PROVE  IInv'
<1> DEFINE model == [city |-> region.name, group |-> NoGroup]
           f == [screen |-> "address", model |-> model, groups |-> 0]
           h == [screen |-> "group", model |-> model, groups |-> region.groupsCount]
<1>1. region \in RegionModel
  BY CityAssumption DEF CityAssumption
<1>2. model \in PlaceModel
  BY <1>1 DEF RegionModel, PlaceModel
<1>3. details = Closed /\ UNCHANGED <<today, unnamed, places, details, running>>
  BY TopInv DEF GoToFillAddress, At
<1>4. CASE region.hasAddressSupport /\ trail' = Append(trail, f)
  <2>1. f \in Frame /\ FrameInv(f)
    BY <1>2, <1>4 DEF Frame, FrameInv
  <2> QED BY <1>3, <1>4, <2>1, PushStep
<1>5. CASE ~region.hasAddressSupport /\ trail' = Append(trail, h)
  <2>1. h \in Frame
    BY <1>1, <1>2 DEF Frame, RegionModel, Stepper
  <2>2. 1..region.groupsCount \subseteq Offered(region)
    BY <1>5 DEF Offered
  <2>3. FrameInv(h)
    BY <1>2, <2>2 DEF FrameInv
  <2> QED BY <1>3, <1>5, <2>1, <2>3, PushStep
<1> QED BY <1>4, <1>5 DEF GoToFillAddress, Push

LEMMA GoToSelectRegionStep ==
  ASSUME IInv, GoToSelectRegion
  PROVE  IInv'
<1> DEFINE f == [screen |-> "region", model |-> NoPlace, groups |-> 0]
<1>1. f \in Frame /\ FrameInv(f)
  BY DEF Frame, FrameInv
<1>2. details = Closed /\ UNCHANGED <<today, unnamed, places, details, running>>
      /\ trail' = Append(trail, f)
  BY DEF GoToSelectRegion, AtList, Push
<1> QED BY <1>1, <1>2, PushStep

LEMMA GoToSelectGroupStep ==
  ASSUME IInv, GoToSelectGroup
  PROVE  IInv'
<1> DEFINE f == [screen |-> "group", model |-> Top.model, groups |-> 3]
<1>1. Top \in Frame /\ FrameInv(Top) /\ details = Closed /\ Top.screen = "address"
  BY TopInv DEF GoToSelectGroup, At
<1>2. PICK region \in Regions : region.hasAddressSupport /\ Top.model.city = region.name
  BY <1>1 DEF FrameInv
<1>3. 1..3 \subseteq Offered(region)
  BY <1>2 DEF Offered
<1>4. f \in Frame /\ FrameInv(f)
  <2>1. Top.model \in PlaceModel
    BY <1>1 DEF FrameInv
  <2>2. f \in Frame
    BY <2>1 DEF Frame
  <2>3. FrameInv(f)
    BY <1>2, <1>3, <2>1 DEF FrameInv
  <2> QED BY <2>2, <2>3
<1>5. UNCHANGED <<today, unnamed, places, details, running>> /\ trail' = Append(trail, f)
  BY DEF GoToSelectGroup, Push
<1> QED BY <1>1, <1>4, <1>5, PushStep

LEMMA GoToSelectAddressStep ==
  ASSUME IInv, GoToSelectAddress
  PROVE  IInv'
<1> DEFINE f == [screen |-> "street", model |-> Top.model, groups |-> 0]
<1>1. Top \in Frame /\ FrameInv(Top) /\ details = Closed /\ Top.screen = "address"
  BY TopInv DEF GoToSelectAddress, At
<1>2. f \in Frame /\ FrameInv(f)
  BY <1>1 DEF Frame, FrameInv
<1>3. UNCHANGED <<today, unnamed, places, details, running>> /\ trail' = Append(trail, f)
  BY DEF GoToSelectAddress, Push
<1> QED BY <1>1, <1>2, <1>3, PushStep

LEMMA GoToSelectBuildingStep ==
  ASSUME IInv, GoToSelectBuilding
  PROVE  IInv'
<1> DEFINE f == [screen |-> "building", model |-> NoPlace, groups |-> 0]
<1>1. Top \in Frame /\ FrameInv(Top) /\ details = Closed /\ Top.screen = "street"
  BY TopInv DEF GoToSelectBuilding, At
<1>2. f \in Frame /\ FrameInv(f)
  BY <1>1 DEF Frame, FrameInv, AddressRegion
<1>3. UNCHANGED <<today, unnamed, places, details, running>> /\ trail' = Append(trail, f)
  BY DEF GoToSelectBuilding, Push
<1> QED BY <1>1, <1>2, <1>3, PushStep

LEMMA SelectBuildingStep ==
  ASSUME IInv, NEW group \in BuildingGroups, SelectBuilding(group)
  PROVE  IInv'
<1> DEFINE model == [city |-> Kyiv, group |-> group]
           f == [screen |-> "create", model |-> model, groups |-> 0]
<1>1. Top \in Frame /\ FrameInv(Top) /\ details = Closed /\ Top.screen = "building"
  BY TopInv DEF SelectBuilding, At
<1>2. AddressRegion
  BY <1>1 DEF FrameInv
<1>3. model \in PlaceModel /\ model.group \in Int
  BY CityAssumption DEF CityAssumption, PlaceModel
<1>4. Justified(model)
  BY <1>2 DEF Justified
<1>5. f \in Frame /\ FrameInv(f)
  BY <1>3, <1>4 DEF Frame, FrameInv
<1>6. UNCHANGED <<today, unnamed, places, details, running>> /\ trail' = Append(trail, f)
  BY DEF SelectBuilding, Push
<1> QED BY <1>1, <1>5, <1>6, PushStep

\* The frame of SelectGroup is changed in place, then that of CreatePlace
\* is put on it.
LEMMA SelectGroupStep ==
  ASSUME IInv, NEW title \in Stepper, SelectGroup(title)
  PROVE  IInv'
<1> DEFINE model == [Top.model EXCEPT !.group = title]
           below == [trail EXCEPT ![Len(trail)].model = model]
           f == [screen |-> "create", model |-> model, groups |-> 0]
<1>1. Top \in Frame /\ FrameInv(Top) /\ details = Closed /\ Top.screen = "group"
      /\ Len(trail) \in DOMAIN trail /\ title \in 1..Top.groups
  BY TopInv DEF SelectGroup, At
<1>2. PICK region \in Regions : Top.model.city = region.name /\ 1..Top.groups \subseteq Offered(region)
  BY <1>1 DEF FrameInv
<1>3. Top.model \in PlaceModel
  BY <1>1 DEF FrameInv
<1>4. model \in PlaceModel /\ model.group = title /\ model.city = Top.model.city /\ title \in Int
  BY <1>3 DEF PlaceModel, Stepper
<1>5. Justified(model)
  BY <1>1, <1>2, <1>4 DEF Justified
<1> DEFINE top == [Top EXCEPT !.model = model]
<1>6. top \in Frame /\ FrameInv(top)
  <2>1. top \in Frame /\ top.screen = "group" /\ top.groups = Top.groups /\ top.model = model
    BY <1>1, <1>4 DEF Frame
  <2> HIDE DEF top
  <2> QED BY <1>2, <1>4, <2>1 DEF FrameInv
<1>7. below \in Seq(Frame) /\ Len(below) = Len(trail)
      /\ \A i \in DOMAIN below : FrameInv(below[i])
  <2>1. trail \in Seq(Frame) /\ \A i \in DOMAIN trail : FrameInv(trail[i])
    BY DEF IInv, TypeOK, TrailInv
  <2>2. below = [trail EXCEPT ![Len(trail)] = top]
    BY <2>1, <1>1 DEF Top
  <2> HIDE DEF below, top
  <2> QED BY <2>1, <2>2, <1>1, <1>6
<1>8. f \in Frame /\ FrameInv(f)
  <2> HIDE DEF model
  <2> QED BY <1>4, <1>5 DEF Frame, FrameInv
<1>9. trail' = Append(below, f) /\ UNCHANGED <<today, unnamed, places, details, running>>
  BY DEF SelectGroup
<1> HIDE DEF below, f
<1>10. trail' \in Seq(Frame)
  BY <1>7, <1>8, <1>9
<1>11. ASSUME NEW i \in DOMAIN trail' PROVE FrameInv(trail'[i])
  <2>1. i \in 1..(Len(below) + 1)
    BY <1>7, <1>9, <1>8, <1>11
  <2>2. CASE i = Len(below) + 1
    BY <1>7, <1>8, <1>9, <2>2
  <2>3. CASE i # Len(below) + 1
    <3>1. i \in DOMAIN below /\ trail'[i] = below[i]
      BY <1>7, <1>8, <1>9, <2>1, <2>3
    <3> QED BY <1>7, <3>1
  <2> QED BY <2>2, <2>3
<1>12. TrailInv'
  <2>1. \A i \in DOMAIN trail' : FrameInv(trail'[i])
    BY <1>11
  <2> QED BY <2>1 DEF TrailInv, FrameInv, Justified, AddressRegion, Offered
<1>13. TypeOK'
  BY <1>9, <1>10 DEF IInv, TypeOK
<1>14. DetailsInv' /\ DrawnIsLit'
  BY <1>1, <1>9 DEF DetailsInv, DrawnIsLit
<1>15. PlacesInv'
  BY <1>9 DEF IInv, PlacesInv, Justified, AddressRegion, Offered
<1> QED BY <1>12, <1>13, <1>14, <1>15 DEF IInv

LEMMA SaveStep ==
  ASSUME IInv, NEW k \in Keys, Save(k)
  PROVE  IInv'
<1>1. FrameInv(Top) /\ details = Closed /\ Top.screen = "create"
  BY TopInv DEF Save, At
<1>2. Top.model \in PlaceModel /\ Top.model.group \in Int /\ Justified(Top.model)
  BY <1>1 DEF FrameInv
<1>3. TypeOK'
  <2>1. places' \in [Keys -> PlaceModel \cup {NoPlace}]
    BY <1>2 DEF Save, IInv, TypeOK
  <2>2. \A j \in Keys : places'[j] # NoPlace => places'[j].group \in Int
    BY <1>2 DEF Save, IInv, TypeOK
  <2>3. trail' \in Seq(Frame)
    BY DEF Save
  <2> QED BY <2>1, <2>2, <2>3 DEF Save, IInv, TypeOK
<1>4. TrailInv' /\ DetailsInv' /\ DrawnIsLit'
  BY <1>1 DEF Save, TrailInv, DetailsInv, DrawnIsLit
<1>5. PlacesInv'
  <2>1. \A j \in Keys : places'[j] # NoPlace => Justified(places'[j])
    BY <1>2 DEF Save, IInv, TypeOK, PlacesInv
  <2> QED BY <2>1 DEF PlacesInv, Justified, AddressRegion, Offered
<1> QED BY <1>3, <1>4, <1>5 DEF IInv

LEMMA BackStep ==
  ASSUME IInv, Back
  PROVE  IInv'
<1>1. details = Closed
  BY TopInv DEF Back
<1>2. trail' \in Seq(Frame) /\ \A i \in DOMAIN trail' : FrameInv(trail'[i])
  <2>1. trail \in Seq(Frame) /\ trail # <<>> /\ \A i \in DOMAIN trail : FrameInv(trail[i])
    BY DEF Back, IInv, TypeOK, TrailInv
  <2>2. trail' = SubSeq(trail, 1, Len(trail) - 1)
    BY DEF Back
  <2>3. Len(trail) \in Nat \ {0}
    BY <2>1
  <2> DEFINE n == Len(trail) - 1
  <2>4. n \in Int /\ 1 \in Int /\ n >= 0 /\ \A i \in 1..n : i \in DOMAIN trail /\ trail[i] \in Frame
    BY <2>1, <2>3
  <2>5. /\ SubSeq(trail, 1, n) \in Seq(Frame)
        /\ Len(SubSeq(trail, 1, n)) = IF 1 <= n THEN n - 1 + 1 ELSE 0
        /\ \A i \in 1..(n - 1 + 1) : SubSeq(trail, 1, n)[i] = trail[1 + i - 1]
    <3> HIDE DEF n
    <3> QED BY <2>4, SubSeqProperties
  <2>6. trail' \in Seq(Frame) /\ Len(trail') = n /\ \A i \in 1..n : trail'[i] = trail[i]
    <3>1. trail' = SubSeq(trail, 1, n)
      BY <2>2
    <3> HIDE DEF n
    <3> QED BY <2>4, <2>5, <3>1
  <2> QED BY <2>1, <2>4, <2>6
<1>3. TypeOK'
  BY <1>2 DEF Back, IInv, TypeOK
<1>4. TrailInv'
  BY <1>2 DEF TrailInv, FrameInv, Justified, AddressRegion, Offered
<1>5. DetailsInv' /\ DrawnIsLit'
  BY <1>1 DEF Back, DetailsInv, DrawnIsLit
<1>6. PlacesInv'
  BY DEF Back, IInv, PlacesInv, Justified, AddressRegion, Offered
<1> QED BY <1>3, <1>4, <1>5, <1>6 DEF IInv

\* The parts about the way to a place do not notice what the details do.
LEMMA TrailKept ==
  ASSUME IInv, UNCHANGED <<trail, places>>
  PROVE  TrailInv' /\ PlacesInv'
BY DEF IInv, TrailInv, PlacesInv, FrameInv, Justified, AddressRegion, Offered

LEMMA OpenStep ==
  ASSUME IInv, NEW k \in Keys, Open(k)
  PROVE  IInv'
<1>1. TrailInv' /\ PlacesInv'
  BY TrailKept DEF Open
<1>2. CASE /\ InRange(places[k], today - 1)
           /\ details' = [key |-> k, model |-> places[k], dayIndex |-> today - 1,
                          currentSelectedDayIndex |-> today - 1, lit |-> {today - 1},
                          rows |-> Rows(Outages(places[k], today - 1))]
           /\ UNCHANGED running
  <2>1. places[k] \in PlaceModel /\ today - 1 \in Days
    BY DEF Open, IInv, TypeOK, Weekday, Days
  <2>2. Rows(Outages(places[k], today - 1)) \in Seq(Interval)
    BY <1>2, <2>1, DaysInRange, RowsType DEF IInv
  <2>3. details' \in Details
    BY <1>2, <2>1, <2>2 DEF Details
  <2>4. TypeOK'
    BY <1>2, <2>3 DEF Open, IInv, TypeOK
  <2>5. DetailsInv'
    BY <1>2 DEF Open, AtList, DetailsInv
  <2>6. DrawnIsLit'
    BY <1>2 DEF Open, DrawnIsLit, InRange, Outages, DataOf
  <2> QED BY <1>1, <2>4, <2>5, <2>6 DEF IInv
<1>3. CASE running' = FALSE /\ UNCHANGED details
  <2>1. details = Closed
    BY DEF Open, AtList
  <2> QED BY <1>1, <1>3, <2>1 DEF Open, IInv, TypeOK, DetailsInv, DrawnIsLit
<1> QED BY <1>2, <1>3 DEF Open

LEMMA PressDayStep ==
  ASSUME IInv, NEW tag \in Days, PressDay(tag)
  PROVE  IInv'
<1>1. TrailInv' /\ PlacesInv'
  BY TrailKept DEF PressDay
<1>2. details \in Details /\ details # Closed
  BY DEF PressDay, IInv, TypeOK
<1>3. details.model \in PlaceModel /\ details.currentSelectedDayIndex \in Days
  BY <1>2 DEF Details
<1>4. InRange(details.model, details.currentSelectedDayIndex)
  BY <1>2 DEF IInv, DrawnIsLit
<1>5. InRange(details.model, tag) /\ Rows(Outages(details.model, tag)) \in Seq(Interval)
  BY <1>3, <1>4, DaysInRange, RowsType DEF IInv
<1> DEFINE rows == Rows(Outages(details.model, tag))
<1>6. details' = [details EXCEPT !.currentSelectedDayIndex = tag, !.lit = {tag}, !.rows = rows]
  BY DEF PressDay
<1>7. /\ details' \in Details /\ details'.key = details.key /\ details'.model = details.model
      /\ details'.currentSelectedDayIndex = tag /\ details'.lit = {tag} /\ details'.rows = rows
  <2>1. rows \in Seq(Interval)
    BY <1>5
  <2> HIDE DEF rows
  <2> QED BY <1>2, <1>6, <2>1 DEF Details
<1>8. TypeOK'
  BY <1>7 DEF PressDay, IInv, TypeOK
<1>9. DetailsInv'
  BY <1>2, <1>7 DEF PressDay, IInv, DetailsInv
<1>10. DrawnIsLit'
  BY <1>5, <1>7 DEF PressDay, DrawnIsLit, InRange, Outages, DataOf
<1> QED BY <1>1, <1>8, <1>9, <1>10 DEF IInv

LEMMA DeletePlaceStep ==
  ASSUME IInv, DeletePlace
  PROVE  IInv'
<1>1. details \in Details /\ details # Closed
  BY DEF DeletePlace, IInv, TypeOK
<1>2. details.key \in Keys
  BY <1>1 DEF Details
<1>3. places' = [places EXCEPT ![details.key] = NoPlace]
  BY DEF DeletePlace
<1>4. \A k \in Keys : places'[k] \in {places[k], NoPlace}
  BY <1>2, <1>3 DEF IInv, TypeOK
<1>5. TypeOK'
  <2>1. places' \in [Keys -> PlaceModel \cup {NoPlace}]
    BY <1>3 DEF IInv, TypeOK
  <2>2. \A k \in Keys : places'[k] # NoPlace => places'[k].group \in Int
    BY <1>4 DEF IInv, TypeOK
  <2> QED BY <2>1, <2>2 DEF DeletePlace, IInv, TypeOK
<1>6. TrailInv'
  BY DEF DeletePlace, IInv, TrailInv, FrameInv, Justified, AddressRegion, Offered
<1>7. DetailsInv'
  BY <1>1, <1>2, <1>4 DEF DeletePlace, IInv, DetailsInv
<1>8. DrawnIsLit'
  BY DEF DeletePlace, IInv, DrawnIsLit, InRange, Outages, DataOf
<1>9. PlacesInv'
  <2>1. \A k \in Keys : places'[k] # NoPlace => Justified(places'[k])
    BY <1>4 DEF IInv, PlacesInv
  <2> QED BY <2>1 DEF PlacesInv, Justified, AddressRegion, Offered
<1> QED BY <1>5, <1>6, <1>7, <1>8, <1>9 DEF IInv

LEMMA ScheduleStep == IInv /\ [Next]_vars => IInv'
<1> SUFFICES ASSUME IInv, [Next]_vars PROVE IInv'
  OBVIOUS
<1>1. CASE CloseDetails
  <2>1. TrailInv' /\ PlacesInv'
    BY <1>1, TrailKept DEF CloseDetails
  <2> QED BY <1>1, <2>1 DEF CloseDetails, IInv, TypeOK, DetailsInv, DrawnIsLit
<1>2. CASE Midnight
  <2>1. TrailInv' /\ PlacesInv'
    BY <1>2, TrailKept DEF Midnight
  <2>2. today' \in Weekday
    BY <1>2 DEF Midnight, IInv, TypeOK, Weekday
  <2>3. TypeOK' /\ DetailsInv'
    BY <1>2, <2>2 DEF Midnight, IInv, TypeOK, DetailsInv
  <2>4. DrawnIsLit'
    BY <1>2 DEF Midnight, IInv, DrawnIsLit, InRange, Outages, DataOf
  <2> QED BY <2>1, <2>3, <2>4 DEF IInv
<1>3. CASE Relaunch
  <2>1. TypeOK' /\ TrailInv' /\ DetailsInv' /\ DrawnIsLit'
    BY <1>3 DEF Relaunch, IInv, TypeOK, TrailInv, DetailsInv, DrawnIsLit
  <2>2. PlacesInv'
    BY <1>3 DEF Relaunch, IInv, PlacesInv, Justified, AddressRegion, Offered
  <2> QED BY <2>1, <2>2 DEF IInv
<1>4. CASE UNCHANGED vars
  <2>1. TrailInv' /\ PlacesInv'
    BY <1>4, TrailKept DEF vars
  <2>2. TypeOK' /\ DetailsInv'
    BY <1>4 DEF vars, IInv, TypeOK, DetailsInv
  <2>3. DrawnIsLit'
    BY <1>4 DEF vars, IInv, DrawnIsLit, InRange, Outages, DataOf
  <2> QED BY <2>1, <2>2, <2>3 DEF IInv
<1> QED BY <1>1, <1>2, <1>3, <1>4, GoToSelectRegionStep, GoToSelectGroupStep,
           GoToSelectAddressStep, GoToSelectBuildingStep, GoToFillAddressStep,
           SelectBuildingStep, SelectGroupStep, SaveStep, OpenStep, PressDayStep,
           BackStep, DeletePlaceStep DEF Next

\* The inductive invariant holds in every behaviour of the screens.
LEMMA ScheduleInvariant == Spec => []IInv
BY ScheduleInit, ScheduleStep, PTL DEF Spec

-----------------------------------------------------------------------------

\* The type invariant holds in every behaviour.
THEOREM ScheduleTyped == Spec => []TypeOK
<1>1. IInv => TypeOK
  BY DEF IInv
<1> QED BY <1>1, ScheduleInvariant, PTL

\* Every saved place has a group that was offered for its own city, or that
\* of a building of Kyiv: SelectGroup, FillAddress and SelectBuilding never
\* mix two choices.
THEOREM ScheduleGroupOffered == Spec => []GroupWasOffered
<1>1. IInv => GroupWasOffered
  BY DEF IInv, PlacesInv, GroupWasOffered, Justified, AddressRegion
<1> QED BY <1>1, ScheduleInvariant, PTL

\* The dimmed button is the day drawn, and drawGraphics never reads past a
\* table once the details are open.
THEOREM ScheduleDrawnIsLit == Spec => []DrawnIsLit
<1>1. IInv => DrawnIsLit
  BY DEF IInv
<1> QED BY <1>1, ScheduleInvariant, PTL

\* A place without a schedule is never deleted.
THEOREM ScheduleUndrawableStays == Spec => UndrawableStays
<1> DEFINE A == \A k \in Keys :
                 places[k] # NoPlace /\ ~InRange(places[k], 0) => places'[k] = places[k]
<1>1. IInv /\ [Next]_vars => [A]_vars
  <2> SUFFICES ASSUME IInv, Next, NEW k \in Keys, places[k] # NoPlace, ~InRange(places[k], 0)
               PROVE  places'[k] = places[k]
    OBVIOUS
  <2>1. CASE DeletePlace
    <3>1. details \in Details /\ details # Closed
      BY <2>1 DEF DeletePlace, IInv, TypeOK
    <3>2. details.model \in PlaceModel /\ details.currentSelectedDayIndex \in Days
      BY <3>1 DEF Details
    <3>3. InRange(details.model, 0)
      BY <3>1, <3>2, DaysInRange DEF IInv, DrawnIsLit, Days
    <3>4. places[details.key] # places[k]
      BY <3>1, <3>3 DEF IInv, DetailsInv
    <3> QED BY <2>1, <3>4 DEF DeletePlace, IInv, TypeOK
  <2>2. ASSUME NEW j \in Keys, Save(j) PROVE places'[k] = places[k]
    BY <2>2 DEF Save, IInv, TypeOK
  <2>3. CASE UNCHANGED places
    BY <2>3
  <2> QED BY <2>1, <2>2, <2>3 DEF Next, GoToSelectRegion, GoToSelectGroup, GoToSelectAddress,
             GoToSelectBuilding, GoToFillAddress, SelectBuilding, SelectGroup, Open, PressDay,
             Back, CloseDetails, Midnight, Relaunch
<1> QED BY <1>1, ScheduleInvariant, PTL DEF Spec, UndrawableStays

=============================================================================
