----------------------------- MODULE StreetSearch -----------------------------
(***************************************************************************)
(* The screen EnterStreet.  Its view model requests the list of streets    *)
(* once, when it is created; the answer is handled on a background queue,  *)
(* which stores streets, then filteredStreets, then sends shouldReload,    *)
(* while the main queue may be in the middle of textFieldDidChangeSelection*)
(* (filter, store, reload).  Each read or assignment of a list is one step.*)
(*                                                                         *)
(* A table row gets its cell when it comes into sight, from the list as it *)
(* is then; until the next reloadData the table keeps its number of rows.  *)
(***************************************************************************)
EXTENDS Integers, Sequences

CONSTANTS
  Streets,    \* the StreetElements of the service
  Texts,      \* the texts typed in the search field that are not empty
  NoText,     \* the empty text
  NoStreet,   \* no street chosen yet; also an empty cell
  Directory,  \* the list the service answers with
  Matching    \* for a text: the streets of Directory whose name contains it

ASSUME StreetAssumption ==
  /\ NoText \notin Texts
  /\ NoStreet \notin Streets
  /\ Directory \in Seq(Streets)
  /\ Matching \in [Texts -> Seq(Streets)]
  /\ \A t \in Texts : Len(Matching[t]) <= Len(Directory)

VARIABLES
  screen,           \* whether the screen is created, loaded, on top, covered
  load,             \* how far the completion of loadJson has come
  streets,          \* EnterStreetViewModel.streets
  filteredStreets,  \* EnterStreetViewModel.filteredStreets
  text,             \* the text of streetSearchTextField
  main,             \* where textFieldDidChangeSelection is
  filtered,         \* the list it has computed and not yet stored
  reload,           \* is a reloadData queued on the main queue?
  table,            \* the rows of tableView: a street, or NoStreet if unseen
  chosen            \* the street handed to SelectBuilding

vars == <<screen, load, streets, filteredStreets, text, main, filtered, reload, table, chosen>>

Screens == {"closed", "created", "loaded", "open", "covered"}
Loads == {"none", "flying", "streets", "filtered", "over"}
Mains == {"free", "computed", "stored"}

TypeOK ==
  /\ screen \in Screens
  /\ load \in Loads
  /\ streets \in {<<>>, Directory}
  /\ filteredStreets \in Seq(Streets)
  /\ text \in Texts \cup {NoText}
  /\ main \in Mains
  /\ filtered \in Seq(Streets)
  /\ reload \in BOOLEAN
  /\ table \in Seq(Streets \cup {NoStreet})
  /\ chosen \in Streets \cup {NoStreet}

-----------------------------------------------------------------------------

\* The condition of textFieldDidChangeSelection and its filter: list is
\* streets, which is empty or the Directory.
Filter(list, t) == IF t = NoText \/ list = <<>> THEN list ELSE Matching[t]

\* What reloadData leaves: the rows are counted, no cell is made yet.
Rows(list) == [i \in 1..Len(list) |-> NoStreet]

NoScreen ==
  /\ screen' = "closed"
  /\ load' = "none"
  /\ streets' = <<>> /\ filteredStreets' = <<>> /\ filtered' = <<>>
  /\ text' = NoText
  /\ main' = "free"
  /\ reload' = FALSE
  /\ table' = <<>>

Init ==
  /\ screen = "closed"
  /\ load = "none"
  /\ streets = <<>> /\ filteredStreets = <<>> /\ filtered = <<>>
  /\ text = NoText
  /\ main = "free"
  /\ reload = FALSE
  /\ table = <<>>
  /\ chosen = NoStreet

\* The coordinator creates the view model, whose init sends the request.
Open ==
  /\ screen = "closed"
  /\ screen' = "created"
  /\ load' = "flying"
  /\ chosen' = NoStreet
  /\ UNCHANGED <<streets, filteredStreets, text, main, filtered, reload, table>>

\* viewDidLoad subscribes to shouldReload.
ViewDidLoad ==
  /\ screen = "created"
  /\ screen' = "loaded"
  /\ UNCHANGED <<load, streets, filteredStreets, text, main, filtered, reload, table, chosen>>

\* The screen is laid out for the first time: the table asks for its rows.
Appear ==
  /\ screen = "loaded"
  /\ screen' = "open"
  /\ table' = Rows(filteredStreets)
  /\ UNCHANGED <<load, streets, filteredStreets, text, main, filtered, reload, chosen>>

\* Back.  The view model that is left is never freed (coordinator, controller
\* and view model hold each other), but nobody sees what its completion stores:
\* the next screen has its own.
Leave ==
  /\ screen = "open" /\ main = "free"
  /\ NoScreen
  /\ UNCHANGED chosen

-----------------------------------------------------------------------------
(* The completion of loadJson, on the delegate queue of its URLSession.     *)

\* self?.streets = data
LoadStreets ==
  /\ load = "flying"
  /\ load' = "streets"
  /\ streets' = Directory
  /\ UNCHANGED <<screen, filteredStreets, text, main, filtered, reload, table, chosen>>

\* self?.filteredStreets = data
LoadFiltered ==
  /\ load = "streets"
  /\ load' = "filtered"
  /\ filteredStreets' = Directory
  /\ UNCHANGED <<screen, streets, text, main, filtered, reload, table, chosen>>

\* A faulty LoadSend: the list is shown without a reload.
LoadSendNothing ==
  /\ load = "filtered"
  /\ load' = "over"
  /\ UNCHANGED <<screen, streets, filteredStreets, text, main, filtered, reload, table, chosen>>

\* self?.shouldReload.send(): the sink, if there is one, queues a reload.
LoadSend ==
  /\ load = "filtered"
  /\ load' = "over"
  /\ reload' = (screen # "created")
  /\ UNCHANGED <<screen, streets, filteredStreets, text, main, filtered, table, chosen>>

\* An error is only printed.
LoadFails ==
  /\ load = "flying"
  /\ load' = "over"
  /\ UNCHANGED <<screen, streets, filteredStreets, text, main, filtered, reload, table, chosen>>

\* try! decode of an answer that is not a list of streets ends the app.
LoadTraps ==
  /\ load = "flying"
  /\ NoScreen
  /\ UNCHANGED chosen

\* The app ends and is started again: killed, or by the try! of an answer to
\* a screen that was left (external).
Relaunch ==
  /\ NoScreen
  /\ chosen' = NoStreet

-----------------------------------------------------------------------------
(* The main queue.                                                         *)

Reload ==
  /\ reload /\ main = "free"
  /\ reload' = FALSE
  /\ table' = Rows(filteredStreets)
  /\ UNCHANGED <<screen, load, streets, filteredStreets, text, main, filtered, chosen>>

\* A faulty filter: by the text that was there before.
TypePrevious(t) ==
  /\ screen = "open" /\ main = "free"
  /\ text' = t
  /\ filtered' = Filter(streets, text)
  /\ main' = "computed"
  /\ UNCHANGED <<screen, load, streets, filteredStreets, reload, table, chosen>>

\* textFieldDidChangeSelection, with t the text after the change (the same
\* as before when only the cursor has moved): the streets are filtered.
Type(t) ==
  /\ screen = "open" /\ main = "free"
  /\ text' = t
  /\ filtered' = Filter(streets, t)
  /\ main' = "computed"
  /\ UNCHANGED <<screen, load, streets, filteredStreets, reload, table, chosen>>

\* The result is stored in filteredStreets.
TypeStore ==
  /\ main = "computed"
  /\ filteredStreets' = filtered
  /\ main' = "stored"
  /\ UNCHANGED <<screen, load, streets, text, filtered, reload, table, chosen>>

\* A faulty end: the reload is left out.
TypeReloadNot ==
  /\ main = "stored"
  /\ main' = "free"
  /\ UNCHANGED <<screen, load, streets, filteredStreets, text, filtered, reload, table, chosen>>

\* tableView.reloadData()
TypeReload ==
  /\ main = "stored"
  /\ table' = Rows(filteredStreets)
  /\ main' = "free"
  /\ UNCHANGED <<screen, load, streets, filteredStreets, text, filtered, reload, chosen>>

\* cellForRowAt: row i comes into sight.
ShowRow(i) ==
  /\ screen = "open" /\ main = "free"
  /\ table[i] = NoStreet
  /\ table' = [table EXCEPT ![i] = filteredStreets[i]]
  /\ UNCHANGED <<screen, load, streets, filteredStreets, text, main, filtered, reload, chosen>>

\* A faulty didSelectRowAt: indexes the list behind the filtered one.
SelectUnfiltered(i) ==
  /\ screen = "open" /\ main = "free"
  /\ table[i] # NoStreet
  /\ chosen' = streets[i]
  /\ screen' = "covered"
  /\ UNCHANGED <<load, streets, filteredStreets, text, main, filtered, reload, table>>

\* didSelectRowAt: the street at that place of filteredStreets is handed on.
Select(i) ==
  /\ screen = "open" /\ main = "free"
  /\ table[i] # NoStreet
  /\ chosen' = filteredStreets[i]
  /\ screen' = "covered"
  /\ UNCHANGED <<load, streets, filteredStreets, text, main, filtered, reload, table>>

\* Back from SelectBuilding.
Return ==
  /\ screen = "covered"
  /\ screen' = "open"
  /\ chosen' = NoStreet
  /\ UNCHANGED <<load, streets, filteredStreets, text, main, filtered, reload, table>>

Next ==
  \/ Open \/ ViewDidLoad \/ Appear \/ Leave \/ Return
  \/ LoadStreets \/ LoadFiltered \/ LoadSend \/ LoadFails \/ LoadTraps
  \/ Relaunch \/ Reload \/ TypeStore \/ TypeReload
  \/ \E t \in Texts \cup {NoText} : Type(t)
  \/ \E i \in 1..Len(table) : ShowRow(i) \/ Select(i)

Spec == Init /\ [][Next]_vars

\* The request ends one way or the other (URLSession times out), what runs on
\* a queue goes on, a created screen appears, and a queued reload gets its
\* turn between the events of a user who types on and on.
Fairness ==
  /\ WF_vars(LoadStreets \/ LoadFails \/ LoadTraps)
  /\ WF_vars(LoadFiltered) /\ WF_vars(LoadSend)
  /\ WF_vars(ViewDidLoad) /\ WF_vars(Appear)
  /\ WF_vars(TypeStore) /\ WF_vars(TypeReload) /\ SF_vars(Reload)

FairSpec == Spec /\ Fairness

-----------------------------------------------------------------------------

\* Safety.  Whatever the completion of loadJson replaces behind the table's
\* back, a row of the table is never beyond the end of filteredStreets when
\* the main queue can make a cell or take a tap: the index of cellForRowAt
\* and didSelectRowAt does not trap.
RowsInRange == main = "free" => Len(table) <= Len(filteredStreets)

\* The stored list and the table agree on every row that has a cell.
TableAgrees ==
  /\ Len(table) = Len(filteredStreets)
  /\ \A i \in 1..Len(table) : table[i] \in {NoStreet, filteredStreets[i]}

\* Between the store of the loaded list and the reload it asks for.
Unsettled == load = "filtered" \/ reload

\* Safety.  The table shows filteredStreets at any other time, also when
\* shouldReload was sent before viewDidLoad subscribed to it or in the middle
\* of a keystroke.
TableSettles == screen \in {"open", "covered"} /\ main = "free" /\ ~Unsettled => TableAgrees

\* Safety.  The list is the whole directory, the matches of the text in the
\* field, or empty (a keystroke that was filtering when the load came in); it
\* is never what an earlier text matched.
NoOlderText ==
  main = "free" => filteredStreets \in {<<>>, streets, Filter(streets, text)}

\* Action property.  The street handed on is the one in the row that was
\* tapped, unless the reload of a list just stored is still to come.
PickIsShown ==
  [][\A i \in 1..Len(table) : Select(i) /\ ~Unsettled => chosen' = table[i]]_vars

\* Liveness.  Once the answer has come, the table of a screen that stays in
\* sight ends up with the list stored.
StreetsShown ==
  load = "streets" ~> screen = "closed" \/ (load = "over" /\ ~reload /\ TableAgrees)

=============================================================================
