---------------------------- MODULE BuildingSearch ----------------------------
(***************************************************************************)
(* The screen SelectBuilding, opened for a street of EnterStreet again and *)
(* again.  Every change of the text or the cursor sends a request; none is *)
(* cancelled, each has a URLSession of its own, and the answers are stored *)
(* on its queue as they arrive, before the reload is queued on the main    *)
(* queue.  Rows and cells are as in StreetSearch.                          *)
(***************************************************************************)
EXTENDS Integers, Sequences

CONSTANTS
  Streets,    \* the streets a screen is opened for
  Texts,      \* the texts typed that are not empty
  NoText,     \* the empty text
  Encodable,  \* the texts for which URL(string:) gives a URL
  Buildings,  \* the BuildingElements of the service
  NoBuilding, \* no building chosen yet; also an empty cell
  StreetOf,   \* the streetID of a building
  Answer,     \* for a street and a text: the list the service answers with
  Slots,      \* bound: requests on the way at the same time
  MaxReloads, \* bound: reloads waiting on the main queue for one more to come
  Free        \* a slot that is not in use

ASSUME BuildingAssumption ==
  /\ NoText \notin Texts
  /\ Encodable \subseteq Texts
  /\ NoBuilding \notin Buildings
  /\ MaxReloads \in Nat \ {0}
  /\ StreetOf \in [Buildings -> Streets]
  /\ Answer \in [Streets -> [Texts -> Seq(Buildings)]]
  /\ \A s \in Streets, t \in Texts : \A i \in 1..Len(Answer[s][t]) :
       StreetOf[Answer[s][t][i]] = s

\* A data task: mine while the screen that started it is on the stack, stored
\* between the store and the queued reload.
Request == [street : Streets, text : Texts, mine : BOOLEAN, stage : {"flying", "stored"}]

ASSUME FreeAssumption == Free \notin Request

VARIABLES
  screen,             \* closed, on top, or covered by CreatePlace
  street,             \* SelectBuildingViewModel.street
  text,               \* the text of streetSearchTextField
  filteredBuildings,  \* SelectBuildingViewModel.filteredBuildings
  main,               \* is textFieldDidChangeSelection before its reloadData?
  reloads,            \* number of reloads queued on the main queue
  table,              \* the rows of tableView: a building, or NoBuilding if unseen
  requests,           \* the slots of the data tasks
  chosen,             \* the building whose group goes to CreatePlace
  orderly             \* history: was the last text typed with no request of
                      \* another text on the way, and has none failed since?

vars == <<screen, street, text, filteredBuildings, main, reloads, table, requests, chosen, orderly>>

TypeOK ==
  /\ screen \in {"closed", "open", "covered"}
  /\ street \in Streets
  /\ text \in Texts \cup {NoText}
  /\ filteredBuildings \in Seq(Buildings)
  /\ main \in {"free", "changed"}
  /\ reloads \in Nat
  /\ table \in Seq(Buildings \cup {NoBuilding})
  /\ requests \in [Slots -> Request \cup {Free}]
  /\ chosen \in Buildings \cup {NoBuilding}
  /\ orderly \in BOOLEAN

-----------------------------------------------------------------------------

\* The slots of the open screen's tasks in a stage.
Mine(stage) == {r \in Slots : requests[r] # Free /\ requests[r].mine /\ requests[r].stage = stage}

Rows(list) == [i \in 1..Len(list) |-> NoBuilding]

\* The list that belongs to the text in the field.
Wanted == IF text = NoText THEN <<>> ELSE Answer[street][text]

Init ==
  /\ screen = "closed"
  /\ street \in Streets
  /\ text = NoText
  /\ filteredBuildings = <<>>
  /\ main = "free"
  /\ reloads = 0
  /\ table = <<>>
  /\ requests = [r \in Slots |-> Free]
  /\ chosen = NoBuilding
  /\ orderly = TRUE

\* A fresh view model and controller for street s.
Open(s) ==
  /\ screen = "closed"
  /\ screen' = "open"
  /\ street' = s
  /\ UNCHANGED <<text, filteredBuildings, main, reloads, table, requests, chosen, orderly>>

\* Controller and view model are seen no more (nor freed: they and their
\* coordinator hold each other); the next ones start afresh.
Close ==
  /\ screen' = "closed"
  /\ text' = NoText
  /\ filteredBuildings' = <<>>
  /\ main' = "free"
  /\ reloads' = 0
  /\ table' = <<>>
  /\ chosen' = NoBuilding
  /\ orderly' = TRUE
  /\ UNCHANGED street

\* A faulty Leave: the tasks on the way share the view model with the next
\* screen.
LeaveStrong ==
  /\ screen # "closed" /\ main = "free"
  /\ Close
  /\ UNCHANGED requests

\* Back, or popToRoot from CreatePlace: the tasks on the way go on for a view
\* model that no screen shows.
Leave ==
  /\ screen # "closed" /\ main = "free"
  /\ Close
  /\ requests' = [r \in Slots |-> IF requests[r] = Free THEN Free
                                  ELSE [requests[r] EXCEPT !.mine = FALSE]]

-----------------------------------------------------------------------------
(* The completion handlers, each on the queue of its session.               *)

\* A faulty completion: the reload is not asked for.
AnswerSilently(r) ==
  /\ requests[r] # Free /\ requests[r].stage = "flying"
  /\ requests' = [requests EXCEPT ![r] = Free]
  /\ filteredBuildings' = IF requests[r].mine
                          THEN Answer[requests[r].street][requests[r].text]
                          ELSE filteredBuildings
  /\ UNCHANGED <<screen, street, text, main, reloads, table, chosen, orderly>>

\* An answer arrives and is stored in the view model of its own screen.
AnswerStore(r) ==
  /\ requests[r] # Free /\ requests[r].stage = "flying"
  /\ requests' = [requests EXCEPT ![r].stage = "stored"]
  /\ filteredBuildings' = IF requests[r].mine
                          THEN Answer[requests[r].street][requests[r].text]
                          ELSE filteredBuildings
  /\ UNCHANGED <<screen, street, text, main, reloads, table, chosen, orderly>>

\* DispatchQueue.main.async: the reload is queued.
AnswerQueue(r) ==
  /\ requests[r] # Free /\ requests[r].stage = "stored"
  /\ requests[r].mine => reloads < MaxReloads
  /\ requests' = [requests EXCEPT ![r] = Free]
  /\ reloads' = IF requests[r].mine THEN reloads + 1 ELSE reloads
  /\ UNCHANGED <<screen, street, text, filteredBuildings, main, table, chosen, orderly>>

\* The request fails; the error is only printed.
AnswerFails(r) ==
  /\ requests[r] # Free /\ requests[r].stage = "flying"
  /\ requests' = [requests EXCEPT ![r] = Free]
  /\ orderly' = (orderly /\ ~requests[r].mine)
  /\ UNCHANGED <<screen, street, text, filteredBuildings, main, reloads, table, chosen>>

\* The app ends and is started again: no task survives.
Relaunch ==
  /\ Close
  /\ requests' = [r \in Slots |-> Free]

\* try! decode of an answer that is not a list of buildings, also one nobody
\* waits for.
AnswerTraps(r) ==
  /\ requests[r] # Free /\ requests[r].stage = "flying"
  /\ Relaunch

-----------------------------------------------------------------------------
(* The main queue.                                                         *)

\* reloadData from a completion.
Reload ==
  /\ reloads > 0 /\ main = "free"
  /\ reloads' = reloads - 1
  /\ table' = Rows(filteredBuildings)
  /\ UNCHANGED <<screen, street, text, filteredBuildings, main, requests, chosen, orderly>>

\* loadJson puts a new task in slot r; without a URL it does nothing.
Send(r, t) ==
  /\ requests[r] = Free
  /\ requests' = [requests EXCEPT ![r] = [street |-> street, text |-> t,
                                          mine |-> TRUE, stage |-> "flying"]]

\* A faulty empty text: the old suggestions stay.
ClearNot ==
  /\ screen = "open" /\ main = "free"
  /\ text' = NoText
  /\ main' = "changed"
  /\ orderly' = (Mine("flying") = {})
  /\ UNCHANGED <<screen, street, filteredBuildings, reloads, table, requests, chosen>>

\* textFieldDidChangeSelection with an empty text.
Clear ==
  /\ screen = "open" /\ main = "free"
  /\ text' = NoText
  /\ filteredBuildings' = <<>>
  /\ main' = "changed"
  /\ orderly' = (Mine("flying") = {})
  /\ UNCHANGED <<screen, street, reloads, table, requests, chosen>>

\* textFieldDidChangeSelection with text t: one more request.
Type(t) ==
  /\ screen = "open" /\ main = "free"
  /\ text' = t
  /\ \/ t \in Encodable /\ \E r \in Slots : Send(r, t)
     \/ t \notin Encodable /\ UNCHANGED requests
  /\ main' = "changed"
  /\ orderly' = (t \in Encodable /\ \A r \in Mine("flying") : requests[r].text = t)
  /\ UNCHANGED <<screen, street, filteredBuildings, reloads, table, chosen>>

\* The reloadData at its end.
TypeReload ==
  /\ main = "changed"
  /\ main' = "free"
  /\ table' = Rows(filteredBuildings)
  /\ UNCHANGED <<screen, street, text, filteredBuildings, reloads, requests, chosen, orderly>>

\* cellForRowAt: row i comes into sight.
ShowRow(i) ==
  /\ screen = "open" /\ main = "free"
  /\ table[i] = NoBuilding /\ i <= Len(filteredBuildings)
  /\ table' = [table EXCEPT ![i] = filteredBuildings[i]]
  /\ UNCHANGED <<screen, street, text, filteredBuildings, main, reloads, requests, chosen, orderly>>

\* didSelectRowAt, goToCreatePlace: the place gets the group of the building
\* at that index of filteredBuildings.
Select(i) ==
  /\ screen = "open" /\ main = "free"
  /\ table[i] # NoBuilding /\ i <= Len(filteredBuildings)
  /\ chosen' = filteredBuildings[i]
  /\ screen' = "covered"
  /\ UNCHANGED <<street, text, filteredBuildings, main, reloads, table, requests, orderly>>

\* Either of them for a row that filteredBuildings no longer has: the index is
\* out of range.
RowTraps(i) ==
  /\ screen = "open" /\ main = "free"
  /\ i > Len(filteredBuildings)
  /\ Relaunch

\* Back from CreatePlace.
Return ==
  /\ screen = "covered"
  /\ screen' = "open"
  /\ chosen' = NoBuilding
  /\ UNCHANGED <<street, text, filteredBuildings, main, reloads, table, requests, orderly>>

Next ==
  \/ Leave \/ Return \/ Reload \/ Clear \/ TypeReload
  \/ \E s \in Streets : Open(s)
  \/ \E t \in Texts : Type(t)
  \/ \E r \in Slots : AnswerStore(r) \/ AnswerQueue(r) \/ AnswerFails(r) \/ AnswerTraps(r)
  \/ \E i \in 1..Len(table) : ShowRow(i) \/ Select(i) \/ RowTraps(i)

Spec == Init /\ [][Next]_vars

\* Every task ends (URLSession times out), what runs on a queue goes on, and
\* a queued reload gets its turn between the user's events.
Fairness ==
  /\ \A r \in Slots : /\ WF_vars(AnswerStore(r) \/ AnswerFails(r) \/ AnswerTraps(r))
                      /\ WF_vars(AnswerQueue(r))
  /\ WF_vars(TypeReload) /\ SF_vars(Reload)

FairSpec == Spec /\ Fairness

-----------------------------------------------------------------------------

\* Safety.  However many screens were opened and left before, and whatever
\* answers are still on their way to them, the suggestions, the cells and
\* the building handed on belong to the street of the open screen.
OnStreet ==
  screen # "closed" =>
    /\ \A i \in 1..Len(filteredBuildings) : StreetOf[filteredBuildings[i]] = street
    /\ \A i \in 1..Len(table) : table[i] # NoBuilding => StreetOf[table[i]] = street
    /\ chosen # NoBuilding => StreetOf[chosen] = street

\* The stored list and the table agree on every row that has a cell.
TableAgrees ==
  /\ Len(table) = Len(filteredBuildings)
  /\ \A i \in 1..Len(table) : table[i] \in {NoBuilding, filteredBuildings[i]}

\* Safety.  The table may be out of step with filteredBuildings, and an index
\* out of range, only between the store of an answer and the reload it asks
\* for, however many answers overlap with each other and with typing.
TableSettles ==
  screen # "closed" /\ main = "free" /\ reloads = 0 /\ Mine("stored") = {} => TableAgrees

\* Safety.  A user who lets the requests of one text end before typing the
\* next gets the suggestions of the text in the field, and none when the
\* field is empty, unless a request for the text fails or has no URL.
ListMatchesText ==
  screen # "closed" /\ orderly /\ Mine("flying") = {} => filteredBuildings = Wanted

\* Liveness.  When the text stays as it is, the table ends up with as many
\* rows as there are suggestions: every late answer has its reload.
BuildingsShown ==
  \A t \in Texts \cup {NoText} :
    <>[](screen = "open" /\ text = t) => <>[](Len(table) = Len(filteredBuildings))

=============================================================================
