# HomeLight: specifications

TLA+ models of HomeLight, an iOS app (Swift, UIKit, Firebase) that shows the
planned power outages of a place, and of the Firebase Realtime Database client
as far as the app depends on it. The app's own code is in
`src/HomeLight/HomeLight` (about 3200 lines); everything under
`src/HomeLight/Pods` is vendored.

## 1. Inventory

Below, a screen's three classes (`XCoordinator`, `XViewController`,
`XViewModel`) are called by the screen's name `X`.

| Part | State | Operations | Talks to |
|---|---|---|---|
| Router (`System/Router.swift`) | navigation stack, `closures`, `shouldPops` | `push`, `pop`, `popToRoot`, `didShow`, swipe delegate | UIKit; every coordinator |
| Coordinator base class (`System/Coordinator.swift`) | `childCoordinators` | `coordinate`, `store`, `free` | children through their `close` publisher |
| PlacesList (root) | `placesDict`, `places`, table rows | `fetchPlaces`, `reloadPlaces`, row selection, add, account button, `signUp` | Realtime Database, Auth, Google sign-in |
| PlaceDetails | place, key, schedule, selected day | `deletePlace`, `getData`, `drawGraphics` | Realtime Database, bundled JSON |
| CreatePlace | chosen city and group | `save` | Realtime Database |
| SelectRegion | `regions` | `fetchRegions`, choice | Realtime Database |
| CreateRegion | `regionsCount` | `createRegion` | Realtime Database |
| FillAddress, SelectGroup | chosen region, group | choice | the next screen |
| EnterStreet, SelectBuilding | streets, buildings, suggestions | load, filter, search per keystroke | a web service |
| Profile | none | `signOut`, three transitions | Auth |
| CreateReport | image, text | `createReport`, `uploadMedia` | Storage, Realtime Database |
| ReportsHistory, ReportDetails | `reports` | fetch, choice | Realtime Database |
| Realtime Database client (vendored) | server cache, pending writes, observers, main queue | observe, set/update/remove, acknowledge, revert, resend | server |
| AppDelegate | root coordinator | launch | all |

How they interact. The app runs on the main queue, except for the answers of the
web service, which EnterStreet and SelectBuilding handle on the queue of a
`URLSession`. A view model
observes a database node with a closure that is never removed; the client calls
it on the main queue with the server's data overlaid with the local writes that
are not acknowledged yet. Writes return at once; completions come later. A
coordinator wires a view model's publishers to `coordinate(to:)` and to the
router.

What is hard to test in it:

* observers of an earlier account or screen that still fire;
* values read from a snapshot and used later (`regionsCount`, a row's index, a
  place's key, the current user);
* writes that are lost in a restart, refused, or sent twice;
* answers that arrive after the screen is gone, or twice;
* a user signed out by FirebaseAuth itself, and observers the server cancels;
* a table that is not told of a change, before its screen has subscribed;
* pops done by UIKit, past router and coordinators;
* requests whose answers are applied in the order they arrive, off the main
  queue, before the table is told (street and building search);
* an upload that outlives the screen and the account it was started from;
* numbers of groups and days that are counted from different origins.

`PROJECT.json` lists each of these at its line (`hazards`), with the properties
aimed at it.

What makes each part correct:

* *Region catalogue*: keys without holes, since one hole makes `[RegionModel]`
  undecodable for everybody; an open list that ends up current.
* *Places*: list, keys and database view agree, and the rows in the end; the
  account's data takes over; a delete closes its screen.
* *Navigation*: the router's tables and the coordinator tree match UIKit's
  stack; late answers hit only the screen that asked; user screens only with a
  user, unless FirebaseAuth took the user away.
* *Searches*: suggestions belong to the street and the text; a row's index is in
  range; what is stored is shown in the end.
* *Reports*: a report stays with the account that sent it; the history follows
  its node.
* *Schedule*: a place gets a group that was offered for its city; the rows are
  those of the selected day; and they are those of the chosen group and of
  today, which the code does not achieve (section 4).

## 2. Plan

| # | Module | Of | State |
|---|---|---|---|
| 1 | `RegionCatalog`, `RegionCatalogProofs` | CreateRegion, SelectRegion and the database client, several devices | safety proved |
| 2 | `PlacesList`, `PlacesListProofs` | PlacesList, PlaceDetails (delete), CreatePlace, account | safety proved |
| 3 | `Navigation`, `NavigationProofs` | Router, coordinators, transitions of all screens | safety proved |
| 4 | `StreetSearch`, `StreetSearchProofs` | EnterStreet: a background load against typing | safety proved |
| 5 | `BuildingSearch`, `BuildingSearchProofs` | SelectBuilding: one request per keystroke | safety proved |
| 6 | `Reports`, `ReportsProofs` | CreateReport (upload, then write), ReportsHistory (decodes all or nothing), account | safety proved |
| 7 | `Schedule`, `ScheduleProofs` | SelectRegion to CreatePlace, `getData`, `drawGraphics`, the bundled tables | safety proved |
| 8 | `Catalogue`, `CatalogueProofs` | abstract: the list `/regions` is for its readers | refinement proved |
| 9 | `ReportLog` | abstract: the nodes of reports for whoever works through them | refinement proved |
| 10 | `PlaceLife` | abstract: what becomes of one place, over all nodes | refinement proved |

`MC*` modules give the constants for TLC. The modules meet in few places, each
kept on the side that needs it. `PlacesList` and `Reports` compose their screens
with the account and the database client; `Schedule` composes the seven screens
from the choice of a region to the schedule drawn; `Navigation` composes all
thirteen coordinators with the router and keeps of the rest only that a request
is answered late. One module of everything would add the product of their
states and no behaviour: what one hands to another is a value (a street, a
group, a place, a user).

## 3. The modules

### RegionCatalog

| Model | Code |
|---|---|
| `server` | the node `/regions` |
| `link`, `cache`, `pend`, `sent` | database client: observer state, server cache, outstanding writes, how many of them the server has applied |
| `screen`, `events` | the open screen, and the snapshots queued for its observer |
| `count`, `regions` | `regionsCount`, `regions` of the two view models |
| `heard`, `informed`, `id`, `author` | history, for properties only |
| `Open`, `Leave` | the screen is pushed with a new view model; left by the back button |
| `DeliverCount`, `DeliverRegions` | the observer closures, with the failing decode as the branch that changes nothing |
| `CreateRegion` | `createRegion` with its `close` |
| `Sync`, `Apply`, `Ack`, `Reject`, `Disconnect`, `Restart` | the client and the server |
| `Approve` | an operator sets `isProcessed`; the app never does |

`IsArray` is what the client does with integer keys (`FChildrenNode.valForExport`)
followed by the decode of `[RegionModel]`: a missing number becomes `null`, on
which the decode fails, and an empty node is no JSON object. A device outside
`Writers` is one whose writes the database rules refuse.

Abstractions. Name, group count and address flag of a region are left out, as
nothing depends on them; `createRegion` without a user does nothing, so such a
press is no step. Old view models keep their observers, but nobody reads
what they store. A write on its way when the app is killed either was applied
before (`Apply`) or is lost. An acknowledgement is processed only after the
server's data up to it (`Ack` moves the cache too).

`Catalogue` is what its readers may rely on: a list to which unprocessed regions
are entered one by one, at the end or over another, in which only the operator
marks a region as processed, and from which none disappears. `Exported` is the
refinement mapping: the array the client exports from the node.

`RegionsFresh` is about one device: the list is never stale without an event on
the main queue that will bring it up to date. `fetchRegions` skips a snapshot
without a value; that does no harm, because the catalogue never empties.

### PlacesList

| Model | Code |
|---|---|
| `user`, `auths` | `Auth.currentUser`, sign-ins under way |
| `server`, `cache`, `loaded`, `observed`, `pend`, `applied` | nodes `<uid>/places` and `/places`, the client's copy of them, its writes without an answer, and how many of those the server has applied |
| `queue` | main queue: value events and completions of `removeValue` |
| `placesDict`, `places`, `rows` | view model and table |
| `stage` | how far the list is since launch: loaded, laid out, appeared |
| `screen`, `details` | the screen on top; place and key given to the open details |
| `source` | history: node that filled `places` |
| `FetchPlaces`, `Complete` | the two branches of `fetchPlaces`, and the completion |
| `Layout`, `Appear`, `Return` | first layout of the table; first `viewDidAppear` (subscribes to `shouldReload`); `viewWillAppear` (observes again) |
| `DidSelectRow`, `AddButton`, `OpenProfile`, `SignUp`, `SignedIn`, `SignInFailed`, `SignOut`, `Save`, `DeletePlace`, `DeliverRemoved`, `Back` | the handlers of those names |
| `ForcedSignOut` | FirebaseAuth signs out a user whose account or token is invalid, on whatever screen |
| `Apply`, `Ack`, `Refuse`, `Disconnect`, `Sync`, `Cancel`, `RemoteAdd`, `RemoteRemove` | server, connection, rules and other people |

Abstractions. Observers of one node do the same, one after the other, so an
event is queued once per node, and equal events in a row are one. A place is its
id; the decode of a non-empty node always succeeds, as only this app writes
there. The region and group screens between list and save are one screen. The
alert that `addButton` shows has no state. A refusal changes nothing on the
server, so it is decided in the step in which it arrives (`Refuse`).

A snapshot that arrives after `Layout` and before `Appear` replaces `places`
under rows nobody reloads: `shouldReload` keeps no value and has no subscriber
yet. Rows and places then differ until the next completion; a tap on a row beyond
the new list ends the app, which `Relaunch` stands for. `RowsRepaired` says what
ends it for a user who is signed in: leaving the list and coming back, since
`viewWillAppear` observes again and so gets a snapshot. (An emptied shared node
brings none, see `ListFresh`.)

The server applies a write (`Apply`) before the client learns of it (`Ack`). When
the connection breaks in between (`Disconnect`), every write without an answer is
sent again. So a place that was stored, and deleted by another device before the
acknowledgement, comes back with the resend.

`PlaceLife` is what list, save and delete promise about a place in view of that:
its id is handed out once, it goes to one node, and there it is stored, perhaps
again and again while its save has no answer; from then on deleted or lost is for
good. The mapping: `free` are the ids outside `used`, `sent` the saves without an
answer, `stored` the server. That ids are fresh is the random UUID and the
automatic key of `save`, hence a guard of the model; that removals of an account
left behind, refusals, resends and restarts cannot undo it is the result.

### Navigation

| Model | Code |
|---|---|
| `made` | controllers and coordinators created: kind, parent, `shouldPop` |
| `stack`, `showing` | `viewControllers`; the controller that a running animation leaves |
| `closures`, `shouldPops` | the router's tables |
| `stored` | who is in its parent's `childCoordinators` |
| `awaited` | deletes and uploads without an answer |
| `...Opens` | the publishers wired in each coordinator's `start()` |
| `Push`, `Pop`, `PopToRoot`, `DidShow`, `ShouldBegin` | the router |
| `Coordinate`, `Close` | `coordinate(to:)` with `store`; `close` with `free` |
| `GoTo`, `Request`, `Answer`, `CreateRegion`, `SignOut`, `Save` | the view models' operations |
| `Back`, `SignUp`, `SignUpDone`, `ForcedSignOut`, `Relaunch` | UIKit, sign-in, sign-out by FirebaseAuth, launch |
| `forced` | history: the profile that was open at a forced sign-out |

Coordinator, controller and view model hold each other, so none is ever
deallocated and the `weak` references in the closures stay valid. UIKit ignores
touches during a transition (`Touchable`); answers arrive at any time.
`present` and `dismiss` of the router have no caller.

When a refresh of the token finds the account invalid, FirebaseAuth signs the
user out by force (`FIRUser.m`, `signOutIfTokenIsInvalidWithError`), and nothing
in the app listens. The screens about the user may then be open without one;
`UserScreensSignedIn` says that this is the only way, and that it ends with the
profile during which it happened. The profile reads `currentUser!` in
`viewDidLoad`, a moment after `openAccount` has looked at the user: a forced
sign-out on another thread between the two ends the app. The model takes
`openAccount` and the push as one step.

### StreetSearch

| Model | Code |
|---|---|
| `screen`, `load` | life of the controller; how far the completion of `loadJson` has come |
| `streets`, `filteredStreets` | the view model's lists |
| `text`, `main`, `filtered` | the text field; `textFieldDidChangeSelection` between filter, store and reload |
| `reload`, `table`, `chosen` | a queued `reloadData`; the rows, with their cells once seen; the street handed on |
| `Open`, `ViewDidLoad`, `Appear`, `Leave`, `Return` | creation with the request, subscription, first layout, back |
| `LoadStreets`, `LoadFiltered`, `LoadSend`, `LoadFails`, `LoadTraps` | the completion, one store at a time, on its own queue |
| `Type`, `TypeStore`, `TypeReload`, `Reload`, `ShowRow`, `Select` | the main queue |

Abstractions. The stores to the lists are atomic; in Swift, two queues that
write an array without a lock are a data race, whose other outcomes (a torn or
freed buffer) the model leaves out. Which names contain a text is the constant
`Matching`. A load needs no second screen: a view model that is left goes on
loading, but into lists nobody shows.

### BuildingSearch

| Model | Code |
|---|---|
| `screen`, `street`, `text`, `filteredBuildings` | controller and view model of the screen on top |
| `requests` | data tasks on the way, with the screen they belong to (`mine`) and the step between store and reload |
| `main`, `reloads`, `table`, `chosen` | as in `StreetSearch`; several reloads may be queued |
| `orderly` | history, for `ListMatchesText` |
| `Type`, `Send`, `Clear`, `TypeReload` | `textFieldDidChangeSelection`; a text without a URL sends nothing |
| `AnswerStore`, `AnswerQueue`, `AnswerFails`, `AnswerTraps` | the completions |
| `ShowRow`, `Select`, `RowTraps` | a row comes into sight, is tapped, or has no building any more |

Same abstractions; the answers of the service are the constant `Answer`, and
contain buildings of the street asked for. `buildings` and `shouldReload` of this
view model are used by nobody.

### Reports

| Model | Code |
|---|---|
| `account`, `late` | current user; a sign-in on the way |
| `owner`, `watched` | user whose node the open history asked for; does it still observe it? |
| `uploads`, `pressed` | `createReport` between the press and the write |
| `server`, `pend`, `loaded`, `events`, `written` | `/reports/<uid>`, and the client's part |
| `reports`, `viewed` | `ReportsHistoryViewModel.reports`, the report of ReportDetails |
| `CreateReport`, `UploadDone`, `UploadFails`, `UrlArrives`, `WriteReport` | `createReport`, `uploadMedia` and its completion, with `close` |
| `OpenHistory`, `Deliver`, `OpenDetails` | init with `fetchPlaces`, its observer, the choice |
| `SignUp`, `SignIn`, `SignInFails`, `SignOut`, `ForcedSignOut`, `OpenProfile`, `OpenCreate`, `Back`, `Restart` | account and screens |
| `Sync`, `Cancel`, `Accept`, `Refuse` | the client and the server; `Cancel` calls the error closure of `fetchPlaces`, which only logs |

A report is a number, its author and what became of its image: a URL, nothing
(`nil`, which the database drops) or the empty text; the last two do not decode
as `URL`. The history is compared as a set, since `[String : Report]` gives it no
order. An acknowledged write reaches the server and the cache in one step
(`RegionCatalog` and `PlacesList` have the steps in between): nobody removes a
report, so sending one again changes nothing.

The model is of one device: no other one writes under the accounts of this
device. `NothingAfterBad` and `ReportLog` depend on it, since reports are
numbered in the order in which this device writes them.

After a sign-in that answers late, or a forced sign-out, the open history is that
of another account than the current one, and the server may cancel its observer.
The history then stays as it is until it is opened again, without data or with a
report that was refused later; `HistoryCurrent` and `HistoryConverges` speak of
histories that are still observed. Without a user the history observes nothing,
and `createReport` does nothing.

`ReportLog` is what the reports are for whoever works through them: each is filed
under its author, after all older ones, and stays. The mapping is `server`.

### Schedule

| Model | Code |
|---|---|
| `trail` | the screens from SelectRegion to CreatePlace with their `placeModel`, and the length of `dataToFill` |
| `places` | the saved places, by key |
| `details` | PlaceDetails: model, `dayIndex`, `currentSelectedDayIndex`, the dimmed buttons, the rows |
| `today`, `unnamed`, `running` | weekday; the table `Bundle` may give for an empty name; no index was out of range |
| `GoTo...`, `SelectBuilding`, `SelectGroup`, `Save` | the view models' operations of those names |
| `DataOf`, `InRange`, `Outages`, `Rows` | `getData`; the index of `drawGraphics`; the rows it makes |
| `Open`, `PressDay`, `DeletePlace`, `CloseDetails` | `viewDidLoad`, `weekDayButtonPressed`, `deletePlace`, close |

A text that is a number is the number. The tables are those of the bundled
files. A group count below one, for which `1...regionsCount` traps, cannot be
entered in the app (the stepper's minimum is 1) and is excluded by `RegionModel`.

`Rows` does what `drawGraphics` does, and that is not what the table says: when
the first outage of a day does not begin at midnight, a row from midnight to that
outage is drawn with its type, over hours the table leaves free. No document,
comment or test says what those hours should show, so no run states it as a
disagreement.

## 4. Runs

| Run | Checks | Bounds | Shows |
|---|---|---|---|
| `region_catalog` | `TypeOK`, `Contiguous`, `SnapshotsDecode`, `OwnRegionsSurvive` | 2 accepted devices, 3 keys, 2 creations, 2 pending writes, 1 queued event before new data | stale and equal numbers, resends, restarts never make a hole |
| `region_list` | `RegionsFresh`, `ListConverges`, `ImplementsCatalogue` | 1 accepted and 1 refused device, 2 keys | a list without queued events shows what the device knows, and one left open becomes current, even after snapshots that do not decode; the server implements `Catalogue` |
| `places_list` | `TypeOK`, `KeysKnown`, `ListFresh`, `ImplementsLife` | 1 account and the shared node, 2 places, 1 details screen since launch, 2 pending writes, 1 queued event before new data | the list agrees with its keys and database view; the places implement `PlaceLife`, resends included |
| `places_live` | `AccountShows`, `ListConverges`, `RowsRepaired`, `DeleteCloses` | 1 place, 1 details screen, 1 pending write, 2 queued events before new data | the promises to the user |
| `anonymous_creation` | `AuthorizedCreation` (violated) | smallest | see below |
| `navigation` | `TypeOK`, `StackIsCoordinated`, `UserScreensSignedIn`, `ClosuresMatchStack`, `LateAnswersHarmless` | 6 screens since launch, 2 unanswered requests per screen, 1 sign-in | stack, tables, tree and account stay consistent |
| `street_search` | `RowsInRange`, `TableSettles`, `NoOlderText`, `PickIsShown`, `StreetsShown` | 3 streets, 2 texts | a load at any moment leaves indices in range, and is shown |
| `building_search` | `OnStreet`, `TableSettles`, `ListMatchesText`, `BuildingsShown` | 2 streets, 3 buildings, 3 texts (one without a URL), 2 requests, 2 reloads | overlapping answers do not mix streets; each store gets its reload |
| `reports` | `TypeOK`, `OwnReports`, `HistoryCurrent`, `NothingAfterBad`, `HistoryConverges`, `ImplementsLog` | 2 accounts, 2 uploads | reports stay with their author; the history follows its node; the server implements `ReportLog` |
| `schedule` | `TypeOK`, `GroupWasOffered`, `DrawnIsLit`, `UndrawableStays` | the bundled tables, 4 regions, 2 places, 7 days | cities and groups do not mix; rows, button and day agree |
| `schedule_day` | `TodayIsLit` (violated) | as `schedule` | see below |
| `schedule_group` | `GroupIsItsTable` (violated) | as `schedule` | see below |

Why the bounds are enough. Two devices are needed for equal numbers, two
creations for an overwrite, and three keys for a hole above one seeded region.
Two places and two nodes distinguish every mix of list and node; two pending
writes contain "save, then delete before the answer" and a resend of both. One
event queued before new data is not one event in the queue: answers are queued
past the bound, so an event of the account that was left can stand behind one of
the new account (and `places_live` has two). A details
screen may be opened at any time, so one is enough for its key; late answers to
an earlier screen while a later one is open are `Navigation`'s. The longest way through the
screens (list, region, address, street, building, create) has six controllers
(`NavigationShallow`).
Capacity bounds (`MaxEvents`, `MaxQueue`) only hold back new data and user
steps, and answers of the database are always accepted. In `BuildingSearch` an
answer of the open screen waits with its reload while `MaxReloads` are queued, as
it would on a slow queue. Two requests contain every order of two
answers, of the same screen or of one left and the next; two uploads a good and
a bad report in either order, and one upload that ends under another account.
The four regions are one with and without address support, with and without a
table, with as many and with fewer groups than their table; two places, one of which
cannot be drawn, are enough for a property of each place. Where an instance is
small, the theorems of section 6 speak for all sizes.

The findings.

* `anonymous_creation`: `addButton` tells somebody without an account that
  creating a location needs signing in, and opens the creation screens all the
  same; `save` writes the place under the shared node `/places`.
* `schedule_day`: `dayIndex` is the calendar's weekday minus one, so 0 is Sunday;
  the buttons (tag 0 is titled "Пн") and the enumeration `WeekDays`
  count from Monday. The details of a place open on the schedule of the day
  after today.
* `schedule_group`: groups are titled from 1 and saved by their title;
  `drawGraphics` uses the number as an index that counts from 0. Group 1 is drawn
  with the second schedule of the table, and the last group traps. The
  enumeration `Groups`, which maps 0 to "1", is used by nobody.

What the properties say by their exceptions or in so many words: an emptied shared node does
not clear the list (`ListFresh`, `ListConverges` of `PlacesList`), because the
branch of `fetchPlaces` without a user has no `else`; a device that has not
received a snapshot yet may number its region 0, over an existing one
(`OwnRegionsSurvive` speaks of informed devices only, and of a device's own
regions only: two devices with the same count overwrite each other); a late
answer to an earlier text replaces the suggestions of the text in the field
(`ListMatchesText` speaks of orderly typing), and a row may trap between a store
and its reload (`RowTraps`); one report without an image hides every later one
for good (`NothingAfterBad`); a deleted place comes back when its save is sent
again (`ImplementsLife`); a screen about the user may be left without one by
FirebaseAuth (`UserScreensSignedIn`); a place that cannot be drawn cannot be deleted
either (`UndrawableStays`); a building's place is in "м. Київ" and a region with
address support offers three groups, whatever region was chosen
(`GroupWasOffered`).

## 5. Fairness

The main queue runs what is queued (`Deliver...`, `Layout`, `Appear`), and the
network is up often enough for data and answers to arrive (`Sync`, `Apply`,
`Ack`, `Reject`, `Refuse`): the client reconnects and resends for ever.
Strong fairness stands where another step can disable the action again and
again: `Ack` (a connection that breaks before each acknowledgement) and
`PlacesList!Sync` (only because the model bounds its queue). In the searches a
request ends with an answer or an error, as `URLSession` times out; a completion
that has begun goes on; a screen that is created appears; a queued `Reload` has
strong fairness, since a user who types on and on keeps the main queue busy only
between the blocks queued on it. In `Reports` uploads, URLs and writes are
answered in the end. Users, the operator
and other devices owe nothing.

## 6. Proofs

`RegionCatalogProofs` proves, for any sets of devices, any capacity and any
bounds: `TypeCorrect`, `CatalogInvariant`, `CatalogContiguous`,
`CatalogSnapshotsDecode`, `OwnInvariant` and `CatalogOwnRegionsSurvive`. Assumptions: `CatalogAssumption` and
`NoRegionAssumption` of `RegionCatalog`.

`Contiguous` is not inductive: a stale count is safe only because the server
never loses a region. `CatalogInv` adds (`CacheBehind` and `SentApplied` for
every device, the others for each accepted one):

* `CacheBehind`: what is filled in its cache is filled on the server (the server
  never loses a key);
* `ViewIsArray`: its view, cache and pending writes together, has no hole;
* `PendOrdered`: the key below a pending write is in the cache or written by an
  earlier pending write;
* `SentApplied`: the keys of the writes already applied are on the server;
* `CountInView`, `EventsInView`: the count and every queued snapshot stay within
  the current view.

Every step then either leaves the view alone or extends it by one
(`ArrayExtend`, `QuietStep`), and `Ack` and `Sync` move the cache up to the
server (`CatchUp`). A refused device may see holes, but never writes.

`OwnRegionsSurvive` speaks of the moment a write is applied; what makes it safe
was settled when the write was numbered, several snapshots earlier. `OwnInv`
follows a device's own regions from there, where `Own` are the cells that hold
one on the server or are about to, by a pending write:

* `OwnInView`, `EventsCover`: its view, and every snapshot still queued, has a
  region in each of its own cells;
* `CountCovers`: so a count taken from a snapshot is above all of them, and a
  region numbered with it goes to a new cell;
* `PendIds`, `InformedAbove`: later writes carry younger regions; a write
  numbered with such a count is the first of its device to its cell, and what the
  device has there on the server when it is applied again, after a lost
  connection, is not older;
* `NotHeard`, `PendWritten`: a screen that is left forgets that it heard of a
  snapshot; every pending cell has a last write.

`PlacesListProofs` proves, for any accounts, any finite set of places and any
bounds: `ListInvariant`, `ListTypeCorrect`, `ListKeysKnown` and `ListIsFresh`.
Assumption: `PlacesAssumption` of `PlacesList`.

`ListFresh` speaks of a queue without events for the list's node, so the
invariant has to say what the events still queued will do. `ListInv` adds:

* `ViewsInStep`: the last event queued for a loaded node shows its present view,
  and a list filled from it shows the view when no event is queued;
* `LoadedObserved`: a node with data has an observer, so each change of its view
  is queued;
* `UsedPlaces`: ids in sight have been handed out, hence a new place is nowhere.

An answer is safe for it because the event it queues shows the data the answer
brings, with the writes that are left (`AnsweredInStep`).

`PlacesImplementLife` shows that `PlacesList` implements `PlaceLife`. Each change
of server, writes or ids is one move of the abstract places, or none when the
node a removal was sent to does not hold the place: an applied save is a `Store`,
also when it was applied before (`ApplyLives`), since the place is on its way
until the answer; an answer, and a relaunch, is a `Settle` (`SettleLives`).
`PlacesApart` reasons on `PlaceLife` alone: whatever is on its way to a node, or
stored there, is not under another node.

`CatalogueProofs` proves `RegionCatalogImplements`: `RegionCatalog` implements
`Catalogue` under `Exported`. Only `Apply` and `Approve` change the server; the
rest stutter. `Apply` is a `Submit` because the key of a pending write is at most
one beyond the server's (`PendOrdered` and `SentApplied` of `CatalogInv`) and its
region is unprocessed (`PendFresh`).

It also proves `CatalogRegionsFresh`. `ListCurrent` says that the last snapshot
queued, or else the list, is up to date. A snapshot without a value leaves the
list alone, so one has to know that there was nothing to clear: while a device's
cache is empty, nothing processed is listed or queued (`NothingListed`), as its
own pending regions are unprocessed (`OverlayUnprocessed`).

`NavigationProofs` proves the four invariants and the action property of
`Navigation` for any number of screens, presses and sign-ins. Its invariant adds
to them: who may have opened whom (`KindInv`); screens lie on the stack in the
order of their creation (`StackInv`), so none is there twice; a screen that waits
for an answer is of a kind that opens nothing, and no animation runs while it is
on top (`AwaitInv`), hence `pop` hits it or nothing; during an animation there is
one closure more (`ClosureInv`). `NavigationShallow` follows from it: every screen
lies on one that opens it, and each opening leads further from the list (`Level`),
so no more than six controllers are ever on the stack, however many were created.

`StreetSearchProofs` proves the type invariant, the three other invariants and `PickIsShown` for any
directory and any match of texts that gives no more streets than there are.
`RowsInRange` needs to know what the interrupted handler holds: it was computed
from the streets as they are or from the empty list (`HandlerHolds`), no list is
longer than the directory (`Bounded`), and which stages of screen, load and
handler go together (`Stages`).

`BuildingSearchProofs` proves the type invariant and the three others for any number of requests and
reloads. `RequestsHere` says that a task of the open screen asks for its street,
`OrderlyTexts` that in orderly typing every task on the way is for the text in
the field, `ClosedClean` and `HandlerOpen` that nothing outlives its screen.

`ReportsProofs` proves the four invariants and `ReportsImplementLog` for any
accounts and uploads.
`NodesInv`: reports lie under their author, and their numbers grow; `SeenInv`:
snapshots still queued are of the owner of the history, cancelled or not;
`LastInv`: while it is observed, the last one queued is the device's view of the
node; `BadInv`: a report without an image that
the device knows is younger than anything shown or still decodable. The
refinement of `ReportLog` needs `OrderInv`: writes wait in the order of their
numbers, behind everything that has arrived; only `Accept` files a report.

`ScheduleProofs` proves the three invariants and `UndrawableStays` for every
catalogue of regions and all tables of seven days with outages in order.
`TrailInv` says what each screen on the way knows of the choices below it,
`DetailsInv` that the open details are those of their key, or of a deleted place.

TLC has checked the invariants on the instances of the runs before they were
proved.

Only model-checked: the liveness properties, `RowsRepaired` among them (fairness
is out of the prover's reach). Every invariant, action property and refinement of a passing run is
proved. That `Matching` is what the filter of
`textFieldDidChangeSelection` computes is an assumption, not a result: it is a
library call.

## 7. Not modelled

* Views, layout, alerts' wording, cells and extensions: no state that another
  operation reads.
* Picking an image for a report, and downloading one for ReportDetails: each ends
  in an assignment to its own image view.
* The data race on the Swift arrays of the two searches beyond the order of whole
  stores (section 3).
* Auth, Google sign-in and Storage beyond "a call that answers late", and the
  forced sign-out beyond its effect on the current user.
* The database features the app does not use (queries, transactions, merges,
  persistence on disk).
* The vendored pods otherwise. They are more than 99% of the lines under `src`
  (gRPC, BoringSSL, Firestore, leveldb and others), third-party products with
  their own tests; the app's behaviour depends on them through the calls named
  here, and of their code only the part of the Realtime Database client listed in
  `PROJECT.json` is modelled.
