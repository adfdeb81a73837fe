-------------------------- MODULE StreetSearchProofs --------------------------
(***************************************************************************)
(* Proofs about StreetSearch.  The lists never outgrow the directory, and  *)
(* what the keystroke handler still holds was computed from streets as it  *)
(* is now or from the empty list before the load: SearchInv says so, and   *)
(* is inductive.                                                           *)
(***************************************************************************)
EXTENDS StreetSearch, SequenceTheorems, TLAPS

\* Where the screen, the completion and the handler can be at the same time.
Stages ==
  /\ screen = "closed" <=> load = "none"
  /\ main # "free" => screen = "open"
  /\ load \in {"streets", "filtered"} => streets = Directory
  /\ load \in {"none", "flying"} => streets = <<>>
  /\ load = "none" => ~reload

\* The lists are no longer than the directory, and empty before it arrives.
Bounded ==
  /\ Len(filteredStreets) <= Len(Directory)
  /\ Len(filtered) <= Len(Directory)
  /\ streets = <<>> => filteredStreets = <<>> /\ filtered = <<>>

\* What the handler holds, and what it has stored.
HandlerHolds ==
  /\ main # "free" => filtered \in {<<>>, Filter(streets, text)}
  /\ main = "stored" => filteredStreets \in {filtered, streets}

SearchInv ==
  /\ TypeOK /\ Stages /\ Bounded /\ HandlerHolds
  /\ RowsInRange /\ TableSettles /\ NoOlderText

\* The rows of a freshly reloaded table match the list they count.
LEMMA RowsMatch ==
  ASSUME NEW list \in Seq(Streets)
  PROVE  /\ Rows(list) \in Seq(Streets \cup {NoStreet})
         /\ Len(Rows(list)) = Len(list)
         /\ \A i \in 1..Len(list) : Rows(list)[i] = NoStreet
BY DEF Rows

\* The empty list and the directory.
LEMMA Lists ==
  /\ <<>> \in Seq(Streets) /\ <<>> \in Seq(Streets \cup {NoStreet}) /\ Len(<<>>) = 0
  /\ Directory \in Seq(Streets) /\ Len(Directory) \in Nat
BY StreetAssumption DEF StreetAssumption

\* The filter gives a list of streets, no longer than the directory, and
\* nothing from the empty list.
LEMMA FilterBounded ==
  ASSUME TypeOK, NEW t \in Texts \cup {NoText}
  PROVE  /\ Filter(streets, t) \in Seq(Streets)
         /\ Len(Filter(streets, t)) <= Len(Directory)
         /\ streets = <<>> => Filter(streets, t) = <<>>
<1>1. streets \in Seq(Streets) /\ Len(streets) <= Len(Directory)
  <2>1. CASE streets = <<>>
    BY <2>1, Lists
  <2>2. CASE streets = Directory
    BY <2>2, Lists
  <2> QED
    BY <2>1, <2>2 DEF TypeOK
<1>2. CASE t = NoText \/ streets = <<>>
  BY <1>1, <1>2 DEF Filter
<1>3. CASE t \in Texts /\ t # NoText /\ streets # <<>>
  BY <1>3, StreetAssumption DEF StreetAssumption, Filter
<1> QED
  BY <1>2, <1>3

\* The initial state.
LEMMA SearchInit == Init => SearchInv
<1> SUFFICES ASSUME Init PROVE SearchInv
  OBVIOUS
<1> USE DEF Init
<1>0. TypeOK
  BY Lists, Zenon DEF TypeOK, Screens, Loads, Mains
<1>1. Bounded /\ RowsInRange
  <2>1. Len(filteredStreets) = 0 /\ Len(filtered) = 0 /\ Len(table) = 0
    BY Lists, Zenon
  <2> QED
    BY <2>1, Lists DEF Bounded, RowsInRange
<1>2. Stages /\ HandlerHolds /\ TableSettles /\ NoOlderText
  BY DEF Stages, HandlerHolds, TableSettles, NoOlderText
<1> QED
  BY <1>0, <1>1, <1>2 DEF SearchInv

LEMMA SearchStep == SearchInv /\ [Next]_vars => SearchInv'
<1> SUFFICES ASSUME SearchInv, [Next]_vars PROVE SearchInv'
  OBVIOUS
<1> USE StreetAssumption DEF StreetAssumption, SearchInv
<1>a. TypeOK /\ Stages /\ Bounded /\ HandlerHolds /\ RowsInRange /\ TableSettles /\ NoOlderText
  OBVIOUS
<1>1. CASE Open
  BY <1>a, <1>1 DEF Open, TypeOK, Stages, Bounded, HandlerHolds, RowsInRange, TableSettles,
       TableAgrees, Unsettled, NoOlderText, Screens, Loads, Mains, Filter
<1>2. CASE ViewDidLoad
  BY <1>a, <1>2 DEF ViewDidLoad, TypeOK, Stages, Bounded, HandlerHolds, RowsInRange, TableSettles,
       TableAgrees, Unsettled, NoOlderText, Screens, Loads, Mains, Filter
<1>3. CASE Appear
  <2>1. table' = Rows(filteredStreets)
    BY <1>3 DEF Appear
  <2>2. TypeOK'
    BY <1>a, <1>3, <2>1, RowsMatch DEF Appear, TypeOK, Screens
  <2>3. RowsInRange' /\ TableAgrees'
    BY <1>a, <1>3, <2>1, RowsMatch DEF Appear, TypeOK, RowsInRange, TableAgrees
  <2> QED
    BY <1>a, <1>3, <2>2, <2>3 DEF Appear, Stages, Bounded, HandlerHolds, TableSettles,
       NoOlderText, Filter
<1>4. CASE Leave \/ LoadTraps \/ Relaunch
  <2>1. NoScreen /\ chosen' \in {chosen, NoStreet}
    BY <1>4 DEF Leave, LoadTraps, Relaunch
  <2>2. TypeOK'
    BY <1>a, <2>1, Lists, Zenon DEF NoScreen, TypeOK, Screens, Loads, Mains
  <2>3. Len(filteredStreets') = 0 /\ Len(filtered') = 0 /\ Len(table') = 0
    BY <2>1, Lists, Zenon DEF NoScreen
  <2>4. Bounded' /\ RowsInRange'
    BY <2>1, <2>3, Lists DEF NoScreen, Bounded, RowsInRange
  <2>5. Stages' /\ HandlerHolds' /\ TableSettles' /\ NoOlderText'
    BY <2>1 DEF NoScreen, Stages, HandlerHolds, TableSettles, NoOlderText
  <2> QED
    BY <2>2, <2>4, <2>5
<1>5. CASE Return
  BY <1>a, <1>5 DEF Return, TypeOK, Stages, Bounded, HandlerHolds, RowsInRange, TableSettles,
       TableAgrees, Unsettled, NoOlderText, Screens, Loads, Mains, Filter
<1>6. CASE LoadStreets
  <2>1. filteredStreets = <<>> /\ filtered = <<>>
    BY <1>a, <1>6 DEF LoadStreets, Stages, Bounded
  <2>2. TypeOK' /\ Stages' /\ Bounded'
    BY <1>a, <1>6, <2>1 DEF LoadStreets, TypeOK, Stages, Bounded, Loads
  <2>3. RowsInRange' /\ TableSettles'
    BY <1>a, <1>6 DEF LoadStreets, RowsInRange, TableSettles, TableAgrees, Unsettled
  <2> QED
    BY <1>6, <2>1, <2>2, <2>3 DEF LoadStreets, HandlerHolds, NoOlderText
<1>7. CASE LoadFiltered
  <2>1. streets = Directory
    BY <1>a, <1>7 DEF LoadFiltered, Stages
  <2>2. TypeOK' /\ Stages' /\ Bounded' /\ HandlerHolds' /\ NoOlderText'
    BY <1>a, <1>7, <2>1 DEF LoadFiltered, TypeOK, Stages, Bounded, HandlerHolds, NoOlderText,
         Loads, Filter
  <2>3. RowsInRange' /\ TableSettles'
    BY <1>a, <1>7 DEF LoadFiltered, TypeOK, Bounded, RowsInRange, TableSettles, Unsettled
  <2> QED
    BY <2>2, <2>3
<1>8. CASE LoadSend
  BY <1>a, <1>8 DEF LoadSend, TypeOK, Stages, Bounded, HandlerHolds, RowsInRange, TableSettles,
       TableAgrees, Unsettled, NoOlderText, Screens, Loads, Mains, Filter
<1>9. CASE LoadFails
  BY <1>a, <1>9 DEF LoadFails, TypeOK, Stages, Bounded, HandlerHolds, RowsInRange, TableSettles,
       TableAgrees, Unsettled, NoOlderText, Screens, Loads, Mains, Filter
<1>10. CASE Reload
  <2>1. table' = Rows(filteredStreets)
    BY <1>10 DEF Reload
  <2>2. TypeOK'
    BY <1>a, <1>10, <2>1, RowsMatch DEF Reload, TypeOK
  <2>3. RowsInRange' /\ TableAgrees'
    BY <1>a, <1>10, <2>1, RowsMatch DEF Reload, TypeOK, RowsInRange, TableAgrees
  <2> QED
    BY <1>a, <1>10, <2>2, <2>3 DEF Reload, Stages, Bounded, HandlerHolds, TableSettles,
       NoOlderText, Filter
<1>11. CASE TypeStore
  BY <1>a, <1>11 DEF TypeStore, TypeOK, Stages, Bounded, HandlerHolds, RowsInRange, TableSettles,
       NoOlderText, Mains, Filter
<1>12. CASE TypeReload
  <2>1. table' = Rows(filteredStreets)
    BY <1>12 DEF TypeReload
  <2>2. TypeOK'
    BY <1>a, <1>12, <2>1, RowsMatch DEF TypeReload, TypeOK, Mains
  <2>3. RowsInRange' /\ TableAgrees'
    BY <1>a, <1>12, <2>1, RowsMatch DEF TypeReload, TypeOK, RowsInRange, TableAgrees
  <2>4. NoOlderText'
    BY <1>a, <1>12 DEF TypeReload, HandlerHolds, NoOlderText, Filter
  <2> QED
    BY <1>a, <1>12, <2>2, <2>3, <2>4 DEF TypeReload, Stages, Bounded, HandlerHolds, TableSettles
<1>13. ASSUME NEW t \in Texts \cup {NoText}, Type(t) PROVE SearchInv'
  <2>1. /\ filtered' \in Seq(Streets)
        /\ Len(filtered') <= Len(Directory)
        /\ streets = <<>> => filtered' = <<>>
    BY <1>a, <1>13, FilterBounded DEF Type
  <2>2. filtered' = Filter(streets, text)'
    BY <1>13 DEF Type, Filter
  <2> QED
    BY <1>a, <1>13, <2>1, <2>2 DEF Type, TypeOK, Stages, Bounded, HandlerHolds, RowsInRange,
         TableSettles, NoOlderText, Mains
<1>14. ASSUME NEW i \in 1..Len(table), ShowRow(i) PROVE SearchInv'
  <2>1. i \in 1..Len(filteredStreets) /\ filteredStreets[i] \in Streets
    BY <1>a, <1>14 DEF ShowRow, TypeOK, RowsInRange
  <2>2. /\ table' \in Seq(Streets \cup {NoStreet})
        /\ Len(table') = Len(table)
        /\ \A j \in 1..Len(table) : table'[j] = IF j = i THEN filteredStreets[i] ELSE table[j]
    BY <1>a, <1>14, <2>1 DEF ShowRow, TypeOK
  <2>3. TypeOK' /\ RowsInRange'
    BY <1>a, <1>14, <2>2 DEF ShowRow, TypeOK, RowsInRange
  <2>4. TableSettles'
    BY <1>a, <1>14, <2>2 DEF ShowRow, TableSettles, TableAgrees, Unsettled
  <2> QED
    BY <1>a, <1>14, <2>3, <2>4 DEF ShowRow, Stages, Bounded, HandlerHolds, NoOlderText, Filter
<1>15. ASSUME NEW i \in 1..Len(table), Select(i) PROVE SearchInv'
  <2>1. filteredStreets[i] \in Streets
    BY <1>a, <1>15 DEF Select, TypeOK, RowsInRange
  <2> QED
    BY <1>a, <1>15, <2>1 DEF Select, TypeOK, Stages, Bounded, HandlerHolds, RowsInRange,
         TableSettles, TableAgrees, Unsettled, NoOlderText, Screens, Filter
<1>16. CASE UNCHANGED vars
  BY <1>a, <1>16 DEF vars, TypeOK, Stages, Bounded, HandlerHolds, RowsInRange, TableSettles,
       TableAgrees, Unsettled, NoOlderText, Filter
<1> QED
  BY <1>1, <1>2, <1>3, <1>4, <1>5, <1>6, <1>7, <1>8, <1>9, <1>10, <1>11, <1>12, <1>13, <1>14,
     <1>15, <1>16 DEF Next

LEMMA SearchInvariant == Spec => []SearchInv
BY SearchInit, SearchStep, PTL DEF Spec

\* Type correctness of the street search.
THEOREM SearchTyped == Spec => []TypeOK
<1> SearchInv => TypeOK
  BY DEF SearchInv
<1> QED
  BY SearchInvariant, PTL

\* No cell and no tap of EnterStreet indexes beyond filteredStreets, for any
\* directory, however the load and the typing interleave.
THEOREM SearchRowsInRange == Spec => []RowsInRange
<1> SearchInv => RowsInRange
  BY DEF SearchInv
<1> QED
  BY SearchInvariant, PTL

\* The table shows filteredStreets except between a store and its reload.
THEOREM SearchTableSettles == Spec => []TableSettles
<1> SearchInv => TableSettles
  BY DEF SearchInv
<1> QED
  BY SearchInvariant, PTL

\* The list is never the matches of a text typed earlier.
THEOREM SearchNoOlderText == Spec => []NoOlderText
<1> SearchInv => NoOlderText
  BY DEF SearchInv
<1> QED
  BY SearchInvariant, PTL

\* The street that is handed on is the street that was tapped, but for the
\* window before a reload.
THEOREM SearchPickIsShown == Spec => PickIsShown
<1>1. ASSUME SearchInv, NEW i \in 1..Len(table), Select(i), ~Unsettled
      PROVE  chosen' = table[i]
  <2>1. TableAgrees
    BY <1>1 DEF SearchInv, TableSettles, Select
  <2> QED
    BY <1>1, <2>1 DEF TableAgrees, Select
<1>2. SearchInv /\ [Next]_vars
        => [\A i \in 1..Len(table) : Select(i) /\ ~Unsettled => chosen' = table[i]]_vars
  BY <1>1
<1> QED
  BY <1>2, SearchInvariant, PTL DEF Spec, PickIsShown

=============================================================================
