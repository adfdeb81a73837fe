------------------------------- MODULE Schedule -------------------------------
(***************************************************************************)
(* From the choice of a region to the outage schedule of a place.  The     *)
(* screens between SelectRegion and CreatePlace pass a PlaceModel on by    *)
(* value, with the name of the region and the number of the group as text; *)
(* PlaceDetails turns the city into the name of a bundled table, the text  *)
(* of the group into the index of a schedule in it and the weekday into    *)
(* the index of a day in that, and traps when an index is out of range.    *)
(*                                                                         *)
(* The places are those of one account, in the state the server has        *)
(* acknowledged (PlacesList has the traffic); the search for a street and  *)
(* a building is reduced to the choice it ends in (StreetSearch,           *)
(* BuildingSearch); a screen is a frame of trail (Navigation has the       *)
(* router).  The text of a number is represented by the number, the empty  *)
(* text by NoGroup.                                                        *)
(***************************************************************************)
EXTENDS Integers, Sequences

CONSTANTS
  Cities,          \* names of regions
  Kyiv,            \* "м. Київ", the city of every building
  Bundled,         \* the cities getData knows
  Table,           \* their tables: group, then day, then the outages of the day
  Regions,         \* the regions of the catalogue
  BuildingGroups,  \* groups the address service gives to buildings
  Keys,            \* bound: keys of places
  NoPlace, NoCity, NoGroup, Closed

Days == 0..6
Weekday == 1..7    \* Calendar's weekday: 1 is Sunday
Interval == [start : 0..24, end : 0..24, type : {"definiteOutage", "possibleOutage"}]
Stepper == 1..8    \* the groups CreateRegion lets one choose

RegionModel == [name : Cities, groupsCount : Stepper, hasAddressSupport : BOOLEAN]
PlaceModel == [city : Cities, group : Int \cup {NoGroup}]

ASSUME CityAssumption ==
  /\ Kyiv \in Bundled
  /\ Bundled \subseteq Cities
  /\ NoCity \notin Cities
  /\ Regions \subseteq RegionModel
  /\ BuildingGroups \subseteq Int
  /\ NoGroup \notin Int
  /\ NoPlace \notin PlaceModel

\* Every group has the seven days, each with its outages in order.
ASSUME TableAssumption ==
  /\ Table \in [Bundled -> Seq(Seq(Seq(Interval)))]
  /\ \A city \in Bundled : \A g \in DOMAIN Table[city] :
       LET week == Table[city][g]
       IN  /\ Len(week) = 7
           /\ \A d \in DOMAIN week :
                /\ \A i \in DOMAIN week[d] : week[d][i].start < week[d][i].end
                /\ \A i, j \in DOMAIN week[d] : i < j => week[d][i].end <= week[d][j].start

\* A view model on its way to CreatePlace; groups is the length of the
\* dataToFill of SelectGroup.
Frame == [screen : {"region", "address", "street", "building", "group", "create"},
          model : PlaceModel \cup {NoPlace}, groups : 0..8]

\* PlaceDetails: controller and view model.  lit are the tags of the buttons
\* that are dimmed, rows the LightMissingViews.
Details == [key : Keys, model : PlaceModel, dayIndex : Days,
            currentSelectedDayIndex : Days, lit : SUBSET Days, rows : Seq(Interval)]

ASSUME ClosedAssumption == Closed \notin Details

VARIABLES
  today,     \* the weekday
  unnamed,   \* the table Bundle gives for the empty name, or NoCity
  places,    \* the places of the account
  trail,     \* the screens above the list on the way to a new place
  details,   \* the details on top of the list
  running    \* FALSE once an index was out of range

vars == <<today, unnamed, places, trail, details, running>>

\* Type invariant.  What is saved always has a number for a group, and what
\* is open has one as well.
TypeOK ==
  /\ today \in Weekday
  /\ unnamed \in Bundled \cup {NoCity}
  /\ places \in [Keys -> PlaceModel \cup {NoPlace}]
  /\ \A k \in Keys : places[k] # NoPlace => places[k].group \in Int
  /\ trail \in Seq(Frame)
  /\ details \in Details \cup {Closed}
  /\ running \in BOOLEAN

-----------------------------------------------------------------------------
(* What PlaceDetails draws.                                                *)

\* getData.  A city without a table asks for a resource with an empty name,
\* which Bundle may answer with any file of the type, always the same.
DataOf(city) ==
  IF city \in Bundled THEN Table[city]
  ELSE IF unnamed \in Bundled THEN Table[unnamed] ELSE <<>>

\* Int(group) ?? -1
GroupIndex(model) == IF model.group = NoGroup THEN -1 ELSE model.group

\* drawGraphics reads data[group][day]; tables count from 0.
InRange(model, day) ==
  /\ GroupIndex(model) \in 0..(Len(DataOf(model.city)) - 1)
  /\ day \in 0..(Len(DataOf(model.city)[GroupIndex(model) + 1]) - 1)

Outages(model, day) == DataOf(model.city)[GroupIndex(model) + 1][day + 1]

\* drawGraphics: a row for each outage, and when the first does not begin at
\* midnight one in front, over hours the table leaves free.
Rows(outages) ==
  IF outages # <<>> /\ outages[1].start # 0
  THEN <<[start |-> 0, end |-> outages[1].start, type |-> outages[1].type]>> \o outages
  ELSE outages

-----------------------------------------------------------------------------

Top == trail[Len(trail)]
At(screen) == running /\ trail # <<>> /\ Top.screen = screen
AtList == running /\ trail = <<>> /\ details = Closed

Push(screen, model, groups) ==
  trail' = Append(trail, [screen |-> screen, model |-> model, groups |-> groups])

Init ==
  /\ today \in Weekday
  /\ unnamed \in Bundled \cup {NoCity}
  /\ places = [k \in Keys |-> NoPlace]
  /\ trail = <<>>
  /\ details = Closed
  /\ running = TRUE

\* goToSelectRegion of the list.
GoToSelectRegion ==
  /\ AtList
  /\ Push("region", NoPlace, 0)
  /\ UNCHANGED <<today, unnamed, places, details, running>>

\* goToFillAddress of SelectRegion.
GoToFillAddress(region) ==
  LET model == [city |-> region.name, group |-> NoGroup]
  IN  /\ At("region")
      /\ \/ region.hasAddressSupport /\ Push("address", model, 0)
         \/ ~region.hasAddressSupport /\ Push("group", model, region.groupsCount)
      /\ UNCHANGED <<today, unnamed, places, details, running>>

\* A faulty goToSelectGroup: six groups, as many as the stepper starts with.
GoToSixGroups ==
  /\ At("address")
  /\ Push("group", Top.model, 6)
  /\ UNCHANGED <<today, unnamed, places, details, running>>

\* goToSelectGroup of FillAddress: three groups, whatever the region says.
GoToSelectGroup ==
  /\ At("address")
  /\ Push("group", Top.model, 3)
  /\ UNCHANGED <<today, unnamed, places, details, running>>

\* goToSelectAddress of FillAddress, then goToSelectBuilding of EnterStreet.
GoToSelectAddress ==
  /\ At("address")
  /\ Push("street", Top.model, 0)
  /\ UNCHANGED <<today, unnamed, places, details, running>>

GoToSelectBuilding ==
  /\ At("street")
  /\ Push("building", NoPlace, 0)
  /\ UNCHANGED <<today, unnamed, places, details, running>>

\* goToCreatePlace of SelectBuilding: the city is Kyiv, whatever the region.
SelectBuilding(group) ==
  /\ At("building")
  /\ Push("create", [city |-> Kyiv, group |-> group], 0)
  /\ UNCHANGED <<today, unnamed, places, details, running>>

\* A faulty goToCreatePlace: the model is sent without the title.
SelectNoGroup(title) ==
  /\ At("group")
  /\ title \in 1..Top.groups
  /\ Push("create", Top.model, 0)
  /\ UNCHANGED <<today, unnamed, places, details, running>>

\* goToCreatePlace of SelectGroup: the row holds its title, 1 to groups; the
\* view model keeps the title too.
SelectGroup(title) ==
  LET model == [Top.model EXCEPT !.group = title]
  IN  /\ At("group")
      /\ title \in 1..Top.groups
      /\ trail' = Append([trail EXCEPT ![Len(trail)].model = model],
                         [screen |-> "create", model |-> model, groups |-> 0])
      /\ UNCHANGED <<today, unnamed, places, details, running>>

\* save of CreatePlace, which closes every screen above the list.
Save(k) ==
  /\ At("create")
  /\ places[k] = NoPlace
  /\ places' = [places EXCEPT ![k] = Top.model]
  /\ trail' = <<>>
  /\ UNCHANGED <<today, unnamed, details, running>>

\* The back button (external).
Back ==
  /\ running /\ trail # <<>>
  /\ trail' = SubSeq(trail, 1, Len(trail) - 1)
  /\ UNCHANGED <<today, unnamed, places, details, running>>

\* A faulty drawGraphics: a place without a schedule shows no rows.
OpenBlank(k) ==
  /\ AtList
  /\ places[k] # NoPlace
  /\ details' = [key |-> k, model |-> places[k], dayIndex |-> today - 1,
                 currentSelectedDayIndex |-> today - 1, lit |-> {today - 1},
                 rows |-> IF InRange(places[k], today - 1)
                          THEN Rows(Outages(places[k], today - 1)) ELSE <<>>]
  /\ UNCHANGED <<today, unnamed, places, trail, running>>

\* The details of a place open: init of the view model with getData, and
\* viewDidLoad, which draws the day of the moment.
Open(k) ==
  /\ AtList
  /\ places[k] # NoPlace
  /\ \/ /\ InRange(places[k], today - 1)
        /\ details' = [key |-> k, model |-> places[k], dayIndex |-> today - 1,
                       currentSelectedDayIndex |-> today - 1, lit |-> {today - 1},
                       rows |-> Rows(Outages(places[k], today - 1))]
        /\ UNCHANGED running
     \/ /\ ~InRange(places[k], today - 1)
        /\ running' = FALSE
        /\ UNCHANGED details
  /\ UNCHANGED <<today, unnamed, places, trail>>

\* A faulty weekDayButtonPressed: it draws before it sets the day.
PressEarly(tag) ==
  /\ running /\ details # Closed
  /\ details' = [details EXCEPT
       !.currentSelectedDayIndex = tag, !.lit = {tag},
       !.rows = Rows(Outages(details.model, details.currentSelectedDayIndex))]
  /\ UNCHANGED <<today, unnamed, places, trail, running>>

\* weekDayButtonPressed.  It never traps: the table has the seven days and
\* the group of an open place is in it.
PressDay(tag) ==
  /\ running /\ details # Closed
  /\ details' = [details EXCEPT !.currentSelectedDayIndex = tag, !.lit = {tag},
                                !.rows = Rows(Outages(details.model, tag))]
  /\ UNCHANGED <<today, unnamed, places, trail, running>>

\* deletePlace; the screen stays until the answer.
DeletePlace ==
  /\ running /\ details # Closed
  /\ places' = [places EXCEPT ![details.key] = NoPlace]
  /\ UNCHANGED <<today, unnamed, trail, details, running>>

\* The back button, or the answer to deletePlace, closes the details.
CloseDetails ==
  /\ running /\ details # Closed
  /\ details' = Closed
  /\ UNCHANGED <<today, unnamed, places, trail, running>>

\* The clock (external); no screen follows it.
Midnight ==
  /\ today' = (today % 7) + 1
  /\ UNCHANGED <<unnamed, places, trail, details, running>>

\* The app starts again after a trap or a kill (external).
Relaunch ==
  /\ trail' = <<>>
  /\ details' = Closed
  /\ running' = TRUE
  /\ UNCHANGED <<today, unnamed, places>>

Next ==
  \/ GoToSelectRegion \/ GoToSelectGroup \/ GoToSelectAddress \/ GoToSelectBuilding
  \/ \E region \in Regions : GoToFillAddress(region)
  \/ \E group \in BuildingGroups : SelectBuilding(group)
  \/ \E title \in Stepper : SelectGroup(title)
  \/ \E k \in Keys : Save(k) \/ Open(k)
  \/ Back \/ DeletePlace \/ CloseDetails \/ Midnight \/ Relaunch
  \/ \E tag \in Days : PressDay(tag)

Spec == Init /\ [][Next]_vars

-----------------------------------------------------------------------------

\* The groups the app offers for a region: the number the region was created
\* with, but three when its addresses are supported.
Offered(region) == 1..(IF region.hasAddressSupport THEN 3 ELSE region.groupsCount)

\* Safety.  Through every way back and forth, a place gets a group that was
\* offered for a region of its own name, or the group of a building of Kyiv
\* reached from a region with addresses: no screen hands on the city of one
\* choice with the group of another.
GroupWasOffered ==
  \A k \in Keys : places[k] # NoPlace =>
    \/ \E region \in Regions : /\ places[k].city = region.name
                               /\ places[k].group \in Offered(region)
    \/ /\ places[k].city = Kyiv /\ places[k].group \in BuildingGroups
       /\ \E region \in Regions : region.hasAddressSupport

\* Safety.  After any number of presses, and past midnight, the one dimmed
\* button is the day of the rows, which are those of the place that is open.
DrawnIsLit ==
  details # Closed =>
    /\ details.lit = {details.currentSelectedDayIndex}
    /\ InRange(details.model, details.currentSelectedDayIndex)
    /\ details.rows = Rows(Outages(details.model, details.currentSelectedDayIndex))

\* Action property.  A place whose group has no schedule stays for good: the
\* only button that deletes it is on the screen that traps when it opens.
UndrawableStays ==
  [][\A k \in Keys : places[k] # NoPlace /\ ~InRange(places[k], 0) => places'[k] = places[k]]_vars

\* The titles of the buttons: tag 0 is Monday, tag 6 Sunday.
TitleOf(tag) == ((tag + 1) % 7) + 1

\* Violated.  Until another day is chosen, the dimmed button is titled with
\* the weekday on which the details were opened.
TodayIsLit ==
  details # Closed /\ details.currentSelectedDayIndex = details.dayIndex =>
    \A tag \in details.lit : TitleOf(tag) = details.dayIndex + 1

\* Violated.  The group titled n is the n-th of the table, as in the enum
\* Groups: first = 0 has the title 1.
GroupIsItsTable ==
  details # Closed /\ details.model.city \in Bundled
    /\ details.model.group \in 1..Len(Table[details.model.city]) =>
      details.rows = Rows(Table[details.model.city][details.model.group]
                               [details.currentSelectedDayIndex + 1])

=============================================================================
