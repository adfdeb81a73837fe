------------------------- MODULE BuildingSearchProofs -------------------------
(***************************************************************************)
(* Proofs about BuildingSearch, for any number of streets, texts, requests *)
(* on the way and queued reloads.  BuildingInv is inductive: a request of  *)
(* the open screen carries its street, a closed screen has no request of   *)
(* its own, and while the user is orderly every request on the way asks    *)
(* for the text in the field.                                              *)
(***************************************************************************)
EXTENDS BuildingSearch, TLAPS

\* A request on the way that the open screen waits for.
Awaited(r, stage) == requests[r] # Free /\ requests[r].mine /\ requests[r].stage = stage

\* A closed screen has left nothing behind but requests of nobody.
ClosedClean ==
  screen = "closed" =>
    /\ \A r \in Slots : requests[r] # Free => ~requests[r].mine
    /\ filteredBuildings = <<>> /\ table = <<>> /\ chosen = NoBuilding
    /\ text = NoText /\ main = "free"

\* The handler runs on the open screen only.
HandlerOpen == main = "changed" => screen = "open"

\* The requests of the open screen ask for its street.
RequestsHere == \A r \in Slots : requests[r] # Free /\ requests[r].mine => requests[r].street = street

\* An orderly user has only requests for the present text on the way.
OrderlyTexts == orderly => \A r \in Slots : Awaited(r, "flying") => requests[r].text = text

BuildingInv ==
  /\ TypeOK /\ ClosedClean /\ HandlerOpen /\ RequestsHere /\ OrderlyTexts
  /\ OnStreet /\ TableSettles /\ ListMatchesText

\* The empty list.
LEMMA EmptyLists ==
  /\ <<>> \in Seq(Buildings) /\ <<>> \in Seq(Buildings \cup {NoBuilding}) /\ Len(<<>>) = 0
OBVIOUS

\* The rows of a freshly reloaded table.
LEMMA RowsMatch ==
  ASSUME NEW list \in Seq(Buildings)
  PROVE  /\ Rows(list) \in Seq(Buildings \cup {NoBuilding})
         /\ Len(Rows(list)) = Len(list)
         /\ \A i \in 1..Len(list) : Rows(list)[i] = NoBuilding
BY DEF Rows

\* Nobody awaits anything exactly when no slot is awaited.
LEMMA MineEmpty ==
  ASSUME NEW stage
  PROVE  Mine(stage) = {} <=> \A r \in Slots : ~Awaited(r, stage)
BY DEF Mine, Awaited

\* What an answer for street s looks like.
LEMMA AnswerOnStreet ==
  ASSUME NEW s \in Streets, NEW t \in Texts
  PROVE  /\ Answer[s][t] \in Seq(Buildings)
         /\ \A i \in 1..Len(Answer[s][t]) : StreetOf[Answer[s][t][i]] = s
BY BuildingAssumption DEF BuildingAssumption

\* The initial state.
LEMMA BuildingInit == Init => BuildingInv
<1> SUFFICES ASSUME Init PROVE BuildingInv
  OBVIOUS
<1> USE DEF Init
<1>1. TypeOK
  BY EmptyLists, Zenon DEF TypeOK
<1>2. ClosedClean /\ HandlerOpen /\ RequestsHere /\ OrderlyTexts
  BY DEF ClosedClean, HandlerOpen, RequestsHere, OrderlyTexts, Awaited
<1>3. OnStreet /\ TableSettles /\ ListMatchesText
  BY DEF OnStreet, TableSettles, ListMatchesText
<1> QED
  BY <1>1, <1>2, <1>3 DEF BuildingInv

\* Leaving the screen, or the end of the app, from any state.
LEMMA CloseStep ==
  ASSUME TypeOK, Close, requests' \in [Slots -> Request \cup {Free}],
         \A r \in Slots : requests'[r] # Free => ~requests'[r].mine
  PROVE  BuildingInv'
<1>1. TypeOK'
  BY EmptyLists, Zenon DEF TypeOK, Close
<1>2. ClosedClean' /\ HandlerOpen' /\ RequestsHere' /\ OrderlyTexts'
  BY DEF Close, ClosedClean, HandlerOpen, RequestsHere, OrderlyTexts, Awaited
<1>3. OnStreet' /\ TableSettles' /\ ListMatchesText'
  BY DEF Close, OnStreet, TableSettles, ListMatchesText
<1> QED
  BY <1>1, <1>2, <1>3 DEF BuildingInv

\* The steps of the completions keep the invariant.
LEMMA AnswerStep ==
  ASSUME BuildingInv, NEW r \in Slots,
         AnswerStore(r) \/ AnswerQueue(r) \/ AnswerFails(r) \/ AnswerTraps(r)
  PROVE  BuildingInv'
<1> USE DEF BuildingInv
<1>a. requests[r] \in Request
  BY FreeAssumption DEF AnswerStore, AnswerQueue, AnswerFails, AnswerTraps, TypeOK
<1>b. /\ requests[r].street \in Streets /\ requests[r].text \in Texts
      /\ requests[r].mine \in BOOLEAN /\ requests[r].stage \in {"flying", "stored"}
  BY <1>a DEF Request
<1>c. requests[r].mine => screen # "closed" /\ requests[r].street = street
  BY <1>a, FreeAssumption DEF ClosedClean, RequestsHere
<1>1. CASE AnswerStore(r)
  <2> DEFINE ans == Answer[requests[r].street][requests[r].text]
  <2>1. ans \in Seq(Buildings) /\ \A i \in 1..Len(ans) : StreetOf[ans[i]] = requests[r].street
    BY <1>b, AnswerOnStreet
  <2>2. /\ requests' \in [Slots -> Request \cup {Free}]
        /\ requests'[r] = [requests[r] EXCEPT !.stage = "stored"]
        /\ \A q \in Slots \ {r} : requests'[q] = requests[q]
    BY <1>1, <1>a DEF AnswerStore, TypeOK, Request
  <2>3. /\ requests'[r] # Free /\ requests'[r].mine = requests[r].mine
        /\ requests'[r].stage = "stored" /\ requests'[r].street = requests[r].street
    BY <2>2, <1>a, FreeAssumption DEF Request
  <2>4. filteredBuildings' = IF requests[r].mine THEN ans ELSE filteredBuildings
    BY <1>1 DEF AnswerStore
  <2>5. TypeOK'
    BY <1>1, <2>1, <2>2, <2>4 DEF AnswerStore, TypeOK
  <2>6. ClosedClean' /\ HandlerOpen' /\ RequestsHere'
    BY <1>1, <1>c, <2>2, <2>3, <2>4 DEF AnswerStore, ClosedClean, HandlerOpen, RequestsHere
  <2>7. OrderlyTexts'
    BY <1>1, <2>2, <2>3 DEF AnswerStore, OrderlyTexts, Awaited
  <2>8. OnStreet'
    BY <1>1, <1>c, <2>1, <2>4 DEF AnswerStore, OnStreet
  <2>9. TableSettles' /\ ListMatchesText'
    <3>1. CASE requests[r].mine
      <4>1. Awaited(r, "stored")'
        BY <2>3, <3>1 DEF Awaited
      <4>2. Mine("stored")' # {}
        BY <4>1 DEF Awaited, Mine
      <4>3. orderly => requests[r].text = text
        BY <1>1, <1>a, <3>1, FreeAssumption DEF AnswerStore, OrderlyTexts, Awaited
      <4>4. text # NoText \/ ~orderly
        BY <4>3, <1>b, BuildingAssumption DEF BuildingAssumption
      <4>5. TableSettles'
        BY <4>2 DEF TableSettles
      <4>6. filteredBuildings' = Answer[street][requests[r].text]
        BY <1>c, <2>4, <3>1
      <4>7. street' = street /\ text' = text /\ orderly' = orderly
        BY <1>1 DEF AnswerStore
      <4>8. ListMatchesText'
        <5> SUFFICES ASSUME orderly PROVE filteredBuildings' = Wanted'
          BY <4>7 DEF ListMatchesText
        <5>1. text = requests[r].text /\ text # NoText
          BY <4>3, <4>4
        <5>2. Wanted' = Answer[street][text]
          BY <4>7, <5>1, Zenon DEF Wanted
        <5> QED
          BY <4>6, <5>1, <5>2
      <4> QED
        BY <4>5, <4>8
    <3>2. CASE ~requests[r].mine
      <4>1. ~requests'[r].mine
        BY <2>3, <3>2
      <4>2. Mine("stored")' = Mine("stored")
        BY <2>2, <3>2, <4>1 DEF Mine
      <4>3. Mine("flying")' = Mine("flying")
        BY <2>2, <3>2, <4>1 DEF Mine
      <4> QED
        BY <1>1, <2>4, <3>2, <4>2, <4>3
           DEF AnswerStore, TableSettles, TableAgrees, ListMatchesText, Wanted
    <3> QED
      BY <1>b, <3>1, <3>2
  <2> QED
    BY <2>5, <2>6, <2>7, <2>8, <2>9
<1>2. CASE AnswerQueue(r)
  <2>1. /\ requests' \in [Slots -> Request \cup {Free}]
        /\ requests'[r] = Free
        /\ \A q \in Slots \ {r} : requests'[q] = requests[q]
    BY <1>2 DEF AnswerQueue, TypeOK
  <2>2. TypeOK'
    BY <1>2, <2>1 DEF AnswerQueue, TypeOK
  <2>3. ClosedClean' /\ HandlerOpen' /\ RequestsHere' /\ OrderlyTexts' /\ OnStreet'
    BY <1>2, <2>1 DEF AnswerQueue, ClosedClean, HandlerOpen, RequestsHere, OrderlyTexts, Awaited,
         OnStreet
  <2>4. Mine("flying")' = Mine("flying")
    BY <1>2, <2>1 DEF AnswerQueue, Mine
  <2>5. ListMatchesText'
    BY <1>2, <2>4 DEF AnswerQueue, ListMatchesText, Wanted
  <2>6. TableSettles'
    <3>1. CASE requests[r].mine
      BY <1>2, <3>1 DEF AnswerQueue, TypeOK, TableSettles
    <3>2. CASE ~requests[r].mine
      <4>1. Mine("stored")' = Mine("stored")
        BY <2>1, <3>2 DEF Mine
      <4> QED
        BY <1>2, <3>2, <4>1 DEF AnswerQueue, TableSettles, TableAgrees
    <3> QED
      BY <1>b, <3>1, <3>2
  <2> QED
    BY <2>2, <2>3, <2>5, <2>6
<1>3. CASE AnswerFails(r)
  <2>1. /\ requests' \in [Slots -> Request \cup {Free}]
        /\ requests'[r] = Free
        /\ \A q \in Slots \ {r} : requests'[q] = requests[q]
    BY <1>3 DEF AnswerFails, TypeOK
  <2>2. TypeOK'
    BY <1>3, <1>b, <2>1 DEF AnswerFails, TypeOK
  <2>3. ClosedClean' /\ HandlerOpen' /\ RequestsHere' /\ OrderlyTexts' /\ OnStreet'
    BY <1>3, <2>1 DEF AnswerFails, ClosedClean, HandlerOpen, RequestsHere, OrderlyTexts, Awaited,
         OnStreet
  <2>4. Mine("stored")' = Mine("stored")
    BY <1>3, <2>1 DEF AnswerFails, Mine
  <2>5. TableSettles'
    BY <1>3, <2>4 DEF AnswerFails, TableSettles, TableAgrees
  <2>6. ListMatchesText'
    <3>1. CASE requests[r].mine
      BY <1>3, <3>1 DEF AnswerFails, ListMatchesText
    <3>2. CASE ~requests[r].mine
      <4>1. Mine("flying")' = Mine("flying")
        BY <2>1, <3>2 DEF Mine
      <4> QED
        BY <1>3, <3>2, <4>1 DEF AnswerFails, ListMatchesText, Wanted
    <3> QED
      BY <1>b, <3>1, <3>2
  <2> QED
    BY <2>2, <2>3, <2>5, <2>6
<1>4. CASE AnswerTraps(r)
  BY <1>4, CloseStep DEF AnswerTraps, Relaunch
<1> QED
  BY <1>1, <1>2, <1>3, <1>4

\* The events of the main queue that touch no table keep the invariant.
LEMMA TypingStep ==
  ASSUME BuildingInv, Clear \/ \E t \in Texts : Type(t)
  PROVE  BuildingInv'
<1> USE DEF BuildingInv
<1>1. CASE Clear
  <2>1. TypeOK'
    BY <1>1, EmptyLists DEF Clear, TypeOK
  <2>2. ClosedClean' /\ HandlerOpen' /\ RequestsHere' /\ TableSettles'
    BY <1>1 DEF Clear, ClosedClean, HandlerOpen, RequestsHere, TableSettles
  <2>3. orderly' => \A r \in Slots : ~Awaited(r, "flying")'
    BY <1>1, MineEmpty DEF Clear, Awaited
  <2>4. OrderlyTexts'
    BY <2>3 DEF OrderlyTexts
  <2>5. OnStreet'
    BY <1>1, EmptyLists DEF Clear, OnStreet
  <2>6. ListMatchesText'
    BY <1>1 DEF Clear, ListMatchesText, Wanted
  <2> QED
    BY <2>1, <2>2, <2>4, <2>5, <2>6
<1>2. ASSUME NEW t \in Texts, Type(t) PROVE BuildingInv'
  <2>1. /\ screen = "open" /\ screen' = screen /\ street' = street /\ text' = t
        /\ filteredBuildings' = filteredBuildings /\ main' = "changed" /\ reloads' = reloads
        /\ table' = table /\ chosen' = chosen
        /\ orderly' = (t \in Encodable /\ \A q \in Mine("flying") : requests[q].text = t)
    BY <1>2 DEF Type
  <2>2. CASE t \notin Encodable /\ requests' = requests
    BY <2>1, <2>2 DEF TypeOK, ClosedClean, HandlerOpen, RequestsHere, OrderlyTexts, OnStreet,
         TableSettles, ListMatchesText
  <2>3. ASSUME NEW r \in Slots, Send(r, t), t \in Encodable PROVE BuildingInv'
    <3> DEFINE req == [street |-> street, text |-> t, mine |-> TRUE, stage |-> "flying"]
    <3>1. req \in Request
      BY DEF Request, TypeOK
    <3>2. /\ requests' \in [Slots -> Request \cup {Free}]
          /\ requests'[r] = req
          /\ \A q \in Slots \ {r} : requests'[q] = requests[q]
      BY <2>3, <3>1 DEF Send, TypeOK
    <3>3. TypeOK'
      BY <2>1, <3>2 DEF TypeOK
    <3>4. ClosedClean' /\ HandlerOpen' /\ TableSettles' /\ OnStreet'
      BY <2>1 DEF ClosedClean, HandlerOpen, TableSettles, OnStreet
    <3>5. RequestsHere'
      BY <2>1, <3>2 DEF RequestsHere
    <3>6. OrderlyTexts'
      <4>1. ASSUME NEW q \in Slots, orderly', Awaited(q, "flying")' PROVE requests'[q].text = t
        <5>1. CASE q = r
          BY <3>2, <5>1
        <5>2. CASE q # r
          <6>1. q \in Mine("flying")
            BY <3>2, <4>1, <5>2 DEF Awaited, Mine
          <6> QED
            BY <2>1, <3>2, <4>1, <5>2, <6>1
        <5> QED
          BY <5>1, <5>2
      <4> QED
        BY <2>1, <4>1 DEF OrderlyTexts
    <3>7. r \in Mine("flying")'
      <4>1. req # Free
        BY <3>1, FreeAssumption
      <4>2. requests'[r] # Free /\ requests'[r].mine /\ requests'[r].stage = "flying"
        <5> HIDE DEF req
        <5>1. requests'[r] # Free
          BY <3>2, <4>1
        <5>2. requests'[r].mine /\ requests'[r].stage = "flying"
          BY <3>2 DEF req
        <5> QED
          BY <5>1, <5>2
      <4> QED
        BY <4>2 DEF Mine
    <3>8. ListMatchesText'
      BY <3>7 DEF ListMatchesText
    <3> QED
      BY <3>3, <3>4, <3>5, <3>6, <3>8
  <2> QED
    BY <1>2, <2>2, <2>3 DEF Type
<1> QED
  BY <1>1, <1>2

\* The two reloads keep the invariant.
LEMMA ReloadStep ==
  ASSUME BuildingInv, Reload \/ TypeReload
  PROVE  BuildingInv'
<1> USE DEF BuildingInv
<1>0. filteredBuildings \in Seq(Buildings)
  BY DEF TypeOK
<1>1. /\ table' = Rows(filteredBuildings) /\ filteredBuildings' = filteredBuildings
      /\ screen' = screen /\ street' = street /\ text' = text /\ requests' = requests
      /\ chosen' = chosen /\ orderly' = orderly /\ main' = "free"
  BY DEF Reload, TypeReload
<1>2. /\ table' \in Seq(Buildings \cup {NoBuilding}) /\ Len(table') = Len(filteredBuildings)
      /\ \A i \in 1..Len(filteredBuildings) : table'[i] = NoBuilding
  BY <1>0, <1>1, RowsMatch
<1>3. reloads' \in Nat
  BY DEF Reload, TypeReload, TypeOK
<1>4. TypeOK'
  BY <1>1, <1>2, <1>3 DEF TypeOK
<1>5. ClosedClean'
  <2> SUFFICES ASSUME screen = "closed" PROVE table' = <<>>
    BY <1>1 DEF ClosedClean
  <2>1. Len(table') = 0
    BY <1>2, EmptyLists DEF ClosedClean
  <2> QED
    BY <1>2, <2>1
<1>6. HandlerOpen' /\ RequestsHere' /\ OrderlyTexts'
  BY <1>1 DEF HandlerOpen, RequestsHere, OrderlyTexts, Awaited
<1>7. OnStreet'
  BY <1>1, <1>2 DEF OnStreet
<1>8. TableSettles'
  BY <1>1, <1>2 DEF TableSettles, TableAgrees
<1>9. ListMatchesText'
  BY <1>1 DEF ListMatchesText, Wanted, Mine
<1> QED
  BY <1>4, <1>5, <1>6, <1>7, <1>8, <1>9

\* A cell, a tap and the return from the next screen keep the invariant.
LEMMA RowStep ==
  ASSUME BuildingInv, NEW i \in 1..Len(table), ShowRow(i) \/ Select(i) \/ RowTraps(i)
  PROVE  BuildingInv'
<1> USE DEF BuildingInv
<1>1. CASE ShowRow(i)
  <2>1. filteredBuildings[i] \in Buildings /\ i \in 1..Len(filteredBuildings)
    BY <1>1 DEF ShowRow, TypeOK
  <2>2. /\ table' \in Seq(Buildings \cup {NoBuilding})
        /\ Len(table') = Len(table)
        /\ \A j \in 1..Len(table) : table'[j] = IF j = i THEN filteredBuildings[i] ELSE table[j]
    BY <1>1, <2>1 DEF ShowRow, TypeOK
  <2>3. TypeOK'
    BY <1>1, <2>2 DEF ShowRow, TypeOK
  <2>4. ClosedClean' /\ HandlerOpen' /\ RequestsHere' /\ OrderlyTexts'
    BY <1>1 DEF ShowRow, ClosedClean, HandlerOpen, RequestsHere, OrderlyTexts, Awaited
  <2>5. OnStreet'
    BY <1>1, <2>1, <2>2 DEF ShowRow, OnStreet
  <2>6. TableSettles'
    BY <1>1, <2>2 DEF ShowRow, TableSettles, TableAgrees, Mine
  <2>7. ListMatchesText'
    BY <1>1 DEF ShowRow, ListMatchesText, Wanted, Mine
  <2> QED
    BY <2>3, <2>4, <2>5, <2>6, <2>7
<1>2. CASE Select(i)
  <2>1. filteredBuildings[i] \in Buildings /\ i \in 1..Len(filteredBuildings)
    BY <1>2 DEF Select, TypeOK
  <2>2. TypeOK' /\ ClosedClean' /\ HandlerOpen' /\ RequestsHere' /\ OrderlyTexts'
    BY <1>2, <2>1 DEF Select, TypeOK, ClosedClean, HandlerOpen, RequestsHere, OrderlyTexts, Awaited
  <2>3. OnStreet'
    BY <1>2, <2>1 DEF Select, OnStreet
  <2>4. TableSettles' /\ ListMatchesText'
    BY <1>2 DEF Select, TableSettles, TableAgrees, ListMatchesText, Wanted, Mine
  <2> QED
    BY <2>2, <2>3, <2>4
<1>3. CASE RowTraps(i)
  BY <1>3, CloseStep DEF RowTraps, Relaunch
<1> QED
  BY <1>1, <1>2, <1>3

LEMMA BuildingStep == BuildingInv /\ [Next]_vars => BuildingInv'
<1> SUFFICES ASSUME BuildingInv, [Next]_vars PROVE BuildingInv'
  OBVIOUS
<1>1. CASE Leave
  <2>1. /\ requests' \in [Slots -> Request \cup {Free}]
        /\ \A r \in Slots : requests'[r] # Free => ~requests'[r].mine
    <3>1. ASSUME NEW r \in Slots
          PROVE  /\ requests'[r] \in Request \cup {Free}
                 /\ requests'[r] # Free => ~requests'[r].mine
      <4>1. CASE requests[r] = Free
        BY <1>1, <4>1 DEF Leave
      <4>2. CASE requests[r] \in Request /\ requests[r] # Free
        BY <1>1, <4>2 DEF Leave, Request
      <4> QED
        BY <4>1, <4>2 DEF BuildingInv, TypeOK
    <3> QED
      BY <1>1, <3>1 DEF Leave
  <2> QED
    BY <1>1, <2>1, CloseStep DEF Leave, BuildingInv
<1>2. CASE Return \/ \E s \in Streets : Open(s)
  <2> USE DEF BuildingInv
  <2>1. CASE Return
    BY <2>1 DEF Return, TypeOK, ClosedClean, HandlerOpen, RequestsHere, OrderlyTexts, Awaited,
         OnStreet, TableSettles, TableAgrees, ListMatchesText, Wanted, Mine
  <2>2. ASSUME NEW s \in Streets, Open(s) PROVE BuildingInv'
    <3>1. TypeOK' /\ ClosedClean' /\ HandlerOpen' /\ RequestsHere' /\ OrderlyTexts'
      BY <2>2 DEF Open, TypeOK, ClosedClean, HandlerOpen, RequestsHere, OrderlyTexts, Awaited
    <3>2. Len(filteredBuildings') = 0 /\ Len(table') = 0
      BY <2>2, EmptyLists, Zenon DEF Open, ClosedClean
    <3>3. OnStreet' /\ TableSettles' /\ ListMatchesText'
      BY <2>2, <3>2 DEF Open, ClosedClean, OnStreet, TableSettles, TableAgrees, ListMatchesText,
           Wanted
    <3> QED
      BY <3>1, <3>3
  <2> QED
    BY <1>2, <2>1, <2>2
<1>3. CASE UNCHANGED vars
  BY <1>3 DEF BuildingInv, vars, TypeOK, ClosedClean, HandlerOpen, RequestsHere, OrderlyTexts,
       Awaited, OnStreet, TableSettles, TableAgrees, ListMatchesText, Wanted, Mine
<1> QED
  BY <1>1, <1>2, <1>3, AnswerStep, TypingStep, ReloadStep, RowStep DEF Next

LEMMA BuildingInvariant == Spec => []BuildingInv
BY BuildingInit, BuildingStep, PTL DEF Spec

\* Type correctness of the building search.
THEOREM BuildingTyped == Spec => []TypeOK
<1> BuildingInv => TypeOK
  BY DEF BuildingInv
<1> QED
  BY BuildingInvariant, PTL

\* No late answer to an earlier screen puts a building of another street on
\* the open one, or in the place created from it.
THEOREM BuildingOnStreet == Spec => []OnStreet
<1> BuildingInv => OnStreet
  BY DEF BuildingInv
<1> QED
  BY BuildingInvariant, PTL

\* The table is out of step only between a stored answer and its reload.
THEOREM BuildingTableSettles == Spec => []TableSettles
<1> BuildingInv => TableSettles
  BY DEF BuildingInv
<1> QED
  BY BuildingInvariant, PTL

\* An orderly user sees the suggestions of the text in the field.
THEOREM BuildingListMatchesText == Spec => []ListMatchesText
<1> BuildingInv => ListMatchesText
  BY DEF BuildingInv
<1> QED
  BY BuildingInvariant, PTL

=============================================================================
