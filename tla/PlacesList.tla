----------------------------- MODULE PlacesList -----------------------------
(***************************************************************************)
(* The locations ("places") of one installation: the root list, the        *)
(* details screen with its delete button, the screen that saves a new      *)
(* place, signing in and out, and the part of the Realtime Database they   *)
(* use.  A place lives under <uid>/places, or under the shared node        *)
(* /places when nobody is signed in.                                       *)
(*                                                                         *)
(* The list observes a node each time it is about to appear and never      *)
(* removes an observer.  All observers of a node do the same thing and are *)
(* called one after the other, so a change of a node is one entry of the   *)
(* main queue here however many observers it has.                          *)
(***************************************************************************)
EXTENDS Integers, Sequences, FiniteSets, Functions

CONSTANTS
  Users,      \* the accounts the person at the device may sign in with
  Nobody,     \* currentUser = nil
  Shared,     \* the node /places
  Places,     \* place ids (UUIDs); a place keeps one key for its whole life
  NoKey,      \* the empty key string
  MaxAuth,    \* bound: sign-ins under way
  MaxOpens,   \* bound: details screens opened since launch
  MaxPend,    \* bound: unacknowledged writes
  MaxQueue    \* bound: events waiting while another is raised by a change

ASSUME PlacesAssumption ==
  /\ Nobody \notin Users /\ Shared \notin Users /\ NoKey \notin Places
  /\ IsFiniteSet(Places)
  /\ MaxAuth \in Nat /\ MaxOpens \in Nat /\ MaxPend \in Nat /\ MaxQueue \in Nat

Nodes == Users \cup {Shared}

\* The node of the current user, as fetchPlaces, save and deletePlace pick it.
NodeOf(u) == IF u = Nobody THEN Shared ELSE u

VARIABLES
  user,         \* Auth.currentUser
  auths,        \* sign-ins that have not called back
  server,       \* node |-> the places stored there
  used,         \* place ids handed out so far
  cache,        \* node |-> the server data the device has
  loaded,       \* the nodes whose data has arrived
  observed,     \* the nodes with an observer
  pend,         \* local writes without an answer, in order
  applied,      \* how many of them, from the first, the server has applied
  queue,        \* main queue: value events and completions of removeValue
  placesDict,   \* PlacesListViewModel.placesDict, by place id
  places,       \* PlacesListViewModel.places
  source,       \* history: the node that places was last taken from
  rows,         \* the rows of the table view
  stage,        \* how far the list has come: loaded, laid out, appeared
  screen,       \* the top screen
  details,      \* the open details screen: its serial number, place and key
  opens         \* number of details screens opened

database == <<server, used, cache, loaded, pend, applied>>
list == <<placesDict, places, source, rows>>
vars == <<user, auths, database, observed, queue, list, stage, screen, details, opens>>

Write == [op : {"add", "remove"}, node : Nodes, place : Places, screen : Nat]
Event == [kind : {"value"}, node : Nodes, snapshot : SUBSET Places]
           \cup [kind : {"removed"}, screen : Nat]
Details == [serial : Nat, place : Places, key : Places \cup {NoKey}]
NoDetails == [serial |-> 0, place |-> NoKey, key |-> NoKey]

TypeOK ==
  /\ user \in Users \cup {Nobody}
  /\ auths \in Nat
  /\ server \in [Nodes -> SUBSET Places]
  /\ used \in SUBSET Places
  /\ cache \in [Nodes -> SUBSET Places]
  /\ loaded \in SUBSET Nodes
  /\ observed \in SUBSET Nodes
  /\ pend \in Seq(Write)
  /\ applied \in 0..Len(pend)
  /\ queue \in Seq(Event)
  /\ placesDict \in SUBSET Places
  /\ places \in Seq(Places)
  /\ source \in Nodes \cup {Nobody}
  /\ rows \in Seq(Places)
  /\ stage \in {"loaded", "laidOut", "appeared"}
  /\ screen \in {"list", "details", "create", "profile"}
  /\ details \in IF screen = "details" THEN Details ELSE {NoDetails}
  /\ opens \in Nat

-----------------------------------------------------------------------------
(* The database client (external): snapshots and the events they raise.    *)

Snapshot(node, data, writes) ==
  LET of(op) == {writes[k].place : k \in {l \in DOMAIN writes :
                                           writes[l].op = op /\ writes[l].node = node}}
  IN  (data \cup of("add")) \ of("remove")

View(node) == Snapshot(node, cache[node], pend)

Value(node, snapshot) == [kind |-> "value", node |-> node, snapshot |-> snapshot]

\* A snapshot is queued for the observers of a node; equal events in a row
\* are one.
Post(q, node, snapshot) ==
  IF q # <<>> /\ q[Len(q)] = Value(node, snapshot) THEN q
  ELSE Append(q, Value(node, snapshot))

\* The queue after the view of node becomes snapshot.
Changed(q, node, snapshot) ==
  IF node \in observed /\ node \in loaded /\ snapshot # View(node)
  THEN Post(q, node, snapshot) ELSE q

\* The queue after one more observer of node: an event at once if its data
\* is there.
Observed(q, node, snapshot) ==
  IF node \in loaded THEN Post(q, node, snapshot) ELSE q

-----------------------------------------------------------------------------

\* The state of the app right after launch: the view model and the first
\* viewWillAppear have observed the node of the signed-in user.
Launched(u) ==
  /\ user' = u
  /\ auths' = 0
  /\ cache' = [n \in Nodes |-> {}]
  /\ loaded' = {}
  /\ observed' = {NodeOf(u)}
  /\ pend' = <<>> /\ applied' = 0
  /\ queue' = <<>>
  /\ placesDict' = {} /\ places' = <<>> /\ source' = Nobody /\ rows' = <<>>
  /\ stage' = "loaded"
  /\ screen' = "list"
  /\ details' = NoDetails
  /\ opens' = 0

Init ==
  /\ user \in Users \cup {Nobody}
  /\ auths = 0
  /\ server \in [Nodes -> SUBSET Places]
  /\ \A m, n \in Nodes : m # n => server[m] \cap server[n] = {}
  /\ used = UNION {server[n] : n \in Nodes}
  /\ cache = [n \in Nodes |-> {}]
  /\ loaded = {}
  /\ observed = {NodeOf(user)}
  /\ pend = <<>> /\ applied = 0
  /\ queue = <<>>
  /\ placesDict = {} /\ places = <<>> /\ source = Nobody /\ rows = <<>>
  /\ stage = "loaded"
  /\ screen = "list"
  /\ details = NoDetails
  /\ opens = 0

\* The app is killed and started again; the sign-in is kept, writes are not.
Relaunch ==
  /\ Launched(user)
  /\ UNCHANGED <<server, used>>

\* The first layout of the table reads places; no reload follows it until
\* shouldReload has a subscriber.
Layout ==
  /\ stage = "loaded"
  /\ stage' = "laidOut"
  /\ rows' = places
  /\ UNCHANGED <<user, auths, database, observed, queue, placesDict, places, source, screen,
                 details, opens>>

\* viewDidAppear subscribes to shouldReload.
Appear ==
  /\ stage = "laidOut"
  /\ stage' = "appeared"
  /\ UNCHANGED <<user, auths, database, observed, queue, list, screen, details, opens>>

\* The list comes back on top: viewWillAppear calls reloadPlaces, which
\* observes the node of the user of that moment.
Return(u, q, snapshot) ==
  /\ screen' = "list"
  /\ observed' = observed \cup {NodeOf(u)}
  /\ queue' = Observed(q, NodeOf(u), snapshot)
  /\ details' = NoDetails

\* The orders in which a Swift dictionary may yield its values.
Orders(S) == Bijection(1..Cardinality(S), S)

\* A faulty completion: shouldReload is not sent.
CompleteSilently(node, s) ==
  /\ places' = s
  /\ source' = node
  /\ UNCHANGED rows

\* completion of fetchPlaces: places is replaced, shouldReload sent, and the
\* table reloaded if the list has subscribed.
Complete(node, s) ==
  /\ places' = s
  /\ source' = node
  /\ rows' = IF stage = "appeared" THEN s ELSE rows

\* A faulty fetchPlaces: the branch without a user does not keep the keys.
FetchPlacesKeyless(node, snapshot) ==
  /\ placesDict' = IF snapshot = {} \/ node = Shared THEN placesDict ELSE snapshot
  /\ \E s \in Orders(snapshot) : Complete(node, s)

\* A faulty fetchPlaces: no completion for an account without places.
FetchPlacesNonEmpty(node, snapshot) ==
  \/ /\ snapshot # {}
     /\ placesDict' = snapshot
     /\ \E s \in Orders(snapshot) : Complete(node, s)
  \/ /\ snapshot = {}
     /\ UNCHANGED list

\* A faulty fetchPlaces: only the first snapshot of a node is used.
FetchPlacesOnce(node, snapshot) ==
  \/ /\ source # node
     /\ placesDict' = snapshot
     /\ \E s \in Orders(snapshot) : Complete(node, s)
  \/ /\ source = node
     /\ UNCHANGED list

\* The observer of fetchPlaces takes a snapshot.  An empty node is not a
\* JSON object: the signed-in branch completes with [], the other does nothing.
FetchPlaces(node, snapshot) ==
  \/ /\ snapshot # {}
     /\ placesDict' = snapshot
     /\ \E s \in Orders(snapshot) : Complete(node, s)
  \/ /\ snapshot = {} /\ node # Shared
     /\ Complete(node, <<>>)
     /\ UNCHANGED placesDict
  \/ /\ snapshot = {} /\ node = Shared
     /\ UNCHANGED list

DeliverValue ==
  /\ queue # <<>> /\ Head(queue).kind = "value"
  /\ queue' = Tail(queue)
  /\ FetchPlaces(Head(queue).node, Head(queue).snapshot)
  /\ UNCHANGED <<user, auths, database, observed, stage, screen, details, opens>>

\* A faulty completion of removeValue: close is not sent.
DeliverRemovedUnseen ==
  /\ queue # <<>> /\ Head(queue).kind = "removed"
  /\ queue' = Tail(queue)
  /\ UNCHANGED <<user, auths, database, observed, list, stage, screen, details, opens>>

\* The completion of removeValue: routing.close, and router.pop if that
\* details screen is still on top.
DeliverRemoved ==
  /\ queue # <<>> /\ Head(queue).kind = "removed"
  /\ \/ /\ screen = "details" /\ details.serial = Head(queue).screen
        /\ Return(user, Tail(queue), View(NodeOf(user)))
     \/ /\ ~(screen = "details" /\ details.serial = Head(queue).screen)
        /\ queue' = Tail(queue)
        /\ UNCHANGED <<screen, observed, details>>
  /\ UNCHANGED <<user, auths, database, list, stage, opens>>

-----------------------------------------------------------------------------
(* The list.                                                               *)

KeyOf(p) == IF p \in placesDict THEN p ELSE NoKey

\* A row is tapped: places[indexPath.item] opens with the key looked up in
\* placesDict.  An index that a stale table has and places has not ends the
\* app, which is Relaunch.
DidSelectRow(i) ==
  /\ stage = "appeared" /\ screen = "list"
  /\ opens < MaxOpens
  /\ i \in DOMAIN rows /\ i \in DOMAIN places
  /\ screen' = "details"
  /\ opens' = opens + 1
  /\ details' = [serial |-> opens + 1, place |-> places[i], key |-> KeyOf(places[i])]
  /\ UNCHANGED <<user, auths, database, observed, queue, list, stage>>

\* addButton, whoever is signed in; the screens between the list and the
\* last one only collect the region and the group.
AddButton ==
  /\ stage = "appeared" /\ screen = "list"
  /\ screen' = "create"
  /\ UNCHANGED <<user, auths, database, observed, queue, list, stage, details, opens>>

\* openAccount with a user: the profile.
OpenProfile ==
  /\ stage = "appeared" /\ screen = "list"
  /\ user # Nobody
  /\ screen' = "profile"
  /\ UNCHANGED <<user, auths, database, observed, queue, list, stage, details, opens>>

\* openAccount without one: signUp, up to the call of Auth.signIn.
SignUp ==
  /\ stage = "appeared" /\ screen = "list"
  /\ user = Nobody
  /\ auths < MaxAuth
  /\ auths' = auths + 1
  /\ UNCHANGED <<user, database, observed, queue, list, stage, screen, details, opens>>

\* Auth.signIn calls back on whatever screen is open by then; only the icon
\* of the list is refreshed.
SignedIn(u) ==
  /\ auths > 0
  /\ auths' = auths - 1
  /\ user' = u
  /\ UNCHANGED <<database, observed, queue, list, stage, screen, details, opens>>

SignInFailed ==
  /\ auths > 0
  /\ auths' = auths - 1
  /\ UNCHANGED <<user, database, observed, queue, list, stage, screen, details, opens>>

\* FirebaseAuth signs the user out by itself, on whatever screen, when the
\* server says that the account or its token is not valid.  The app listens to
\* no change of the user.
ForcedSignOut ==
  /\ user # Nobody
  /\ user' = Nobody
  /\ UNCHANGED <<auths, database, observed, queue, list, stage, screen, details, opens>>

\* signOut of the profile, which then closes; when Auth.signOut throws nothing
\* changes.
SignOut ==
  /\ screen = "profile"
  /\ Len(queue) < MaxQueue
  /\ user' = Nobody
  /\ Return(Nobody, queue, View(Shared))
  /\ UNCHANGED <<auths, database, list, stage, opens>>

\* The back button of the navigation bar.
Back ==
  /\ screen # "list"
  /\ Len(queue) < MaxQueue
  /\ Return(user, queue, View(NodeOf(user)))
  /\ UNCHANGED <<user, auths, database, list, stage, opens>>

-----------------------------------------------------------------------------
(* The writes.                                                             *)

\* The main queue once the write w has been applied to the local view.
AfterWrite(w) == Changed(queue, w.node, Snapshot(w.node, cache[w.node], Append(pend, w)))

\* A faulty save: the id of a place that exists is used again.
SaveAgain(p) ==
  /\ screen = "create"
  /\ Len(pend) < MaxPend /\ Len(queue) < MaxQueue
  /\ used' = used \cup {p}
  /\ LET n == NodeOf(user)
         w == [op |-> "add", node |-> n, place |-> p, screen |-> 0]
     IN  /\ pend' = Append(pend, w)
         /\ Return(user, AfterWrite(w), Snapshot(n, cache[n], Append(pend, w)))
  /\ UNCHANGED <<user, auths, server, applied, cache, loaded, list, stage, opens>>

\* save: a new place at the node of the current user, then popToRoot.
Save(p) ==
  /\ screen = "create"
  /\ p \notin used
  /\ Len(pend) < MaxPend /\ Len(queue) < MaxQueue
  /\ used' = used \cup {p}
  /\ LET n == NodeOf(user)
         w == [op |-> "add", node |-> n, place |-> p, screen |-> 0]
     IN  /\ pend' = Append(pend, w)
         /\ Return(user, AfterWrite(w), Snapshot(n, cache[n], Append(pend, w)))
  /\ UNCHANGED <<user, auths, server, applied, cache, loaded, list, stage, opens>>

\* A faulty deletePlace: the key was not handed to the details screen.
DeletePlaceKeyless ==
  /\ screen = "details"
  /\ Len(pend) < MaxPend /\ Len(queue) < MaxQueue
  /\ pend' = Append(pend, [op |-> "remove", node |-> NodeOf(user), place |-> NoKey,
                           screen |-> details.serial])
  /\ UNCHANGED <<user, auths, server, used, cache, loaded, applied, observed, queue, list,
                 stage, screen, details, opens>>

\* deletePlace: the key under the node of the current user; the screen stays
\* open until the server has answered, and the button stays enabled.
DeletePlace ==
  /\ screen = "details"
  /\ Len(pend) < MaxPend /\ Len(queue) < MaxQueue
  /\ LET w == [op |-> "remove", node |-> NodeOf(user), place |-> details.key,
               screen |-> details.serial]
     IN  pend' = Append(pend, w) /\ queue' = AfterWrite(w)
  /\ UNCHANGED <<user, auths, server, used, cache, loaded, applied, observed, list, stage,
                 screen, details, opens>>

-----------------------------------------------------------------------------
(* The server and its answers (external).                                  *)

Removed(w, q) ==
  IF w.op = "remove" THEN Append(q, [kind |-> "removed", screen |-> w.screen]) ELSE q

\* The server applies the next write.
Apply ==
  /\ applied < Len(pend)
  /\ LET w == pend[applied + 1]
     IN  server' = [server EXCEPT ![w.node] = IF w.op = "add" THEN @ \cup {w.place}
                                              ELSE @ \ {w.place}]
  /\ applied' = applied + 1
  /\ UNCHANGED <<user, auths, used, cache, loaded, pend, observed, queue, list, stage, screen,
                 details, opens>>

\* The oldest write w has its answer; the client's view of w.node rests on data.
Answered(w, data) ==
  /\ pend' = Tail(pend)
  /\ queue' = Removed(w, Changed(queue, w.node, Snapshot(w.node, data, Tail(pend))))

\* The oldest applied write is acknowledged.  The data the server pushed up
\* to that write arrives before the acknowledgement.
Ack ==
  /\ applied > 0
  /\ applied' = applied - 1
  /\ LET n == Head(pend).node
     IN  /\ cache' = IF n \in loaded THEN [cache EXCEPT ![n] = server[n]] ELSE cache
         /\ Answered(Head(pend), server[n])
  /\ UNCHANGED <<user, auths, server, used, loaded, observed, list, stage, screen, details, opens>>

\* The server refuses the oldest write, which changes nothing there, so that
\* the refusal may be decided when it arrives; the client takes the write back.
Refuse ==
  /\ pend # <<>> /\ applied = 0
  /\ Answered(Head(pend), cache[Head(pend).node])
  /\ UNCHANGED <<user, auths, server, used, cache, loaded, applied, observed, list, stage, screen,
                 details, opens>>

\* The connection breaks before the acknowledgements: every write without an
\* answer is sent again, and what the server makes of it is open again.
Disconnect ==
  /\ applied > 0
  /\ applied' = 0
  /\ UNCHANGED <<user, auths, server, used, cache, loaded, pend, observed, queue, list, stage,
                 screen, details, opens>>

\* The device receives the current data of an observed node.
Sync(n) ==
  /\ n \in observed
  /\ n \notin loaded \/ cache[n] # server[n]
  /\ Len(queue) < MaxQueue
  /\ cache' = [cache EXCEPT ![n] = server[n]]
  /\ loaded' = loaded \cup {n}
  /\ queue' = LET s == Snapshot(n, server[n], pend)
              IN  IF n \notin loaded THEN Post(queue, n, s) ELSE Changed(queue, n, s)
  /\ UNCHANGED <<user, auths, server, used, pend, applied, observed, list, stage, screen, details,
                 opens>>

\* The rules may deny a node to the user of the moment; the observer is then
\* cancelled (the error closures of fetchPlaces only log).
Cancel(n) ==
  /\ n \in observed /\ n # NodeOf(user)
  /\ observed' = observed \ {n}
  /\ loaded' = loaded \ {n}
  /\ cache' = [cache EXCEPT ![n] = {}]
  /\ UNCHANGED <<user, auths, server, used, pend, applied, queue, list, stage, screen, details,
                 opens>>

\* Another device of the account, or another person, changes a node.
RemoteAdd(n, p) ==
  /\ p \notin used
  /\ used' = used \cup {p}
  /\ server' = [server EXCEPT ![n] = @ \cup {p}]
  /\ UNCHANGED <<user, auths, cache, loaded, pend, applied, observed, queue, list, stage, screen,
                 details, opens>>

RemoteRemove(n, p) ==
  /\ p \in server[n]
  /\ server' = [server EXCEPT ![n] = @ \ {p}]
  /\ UNCHANGED <<user, auths, used, cache, loaded, pend, applied, observed, queue, list, stage,
                 screen, details, opens>>

-----------------------------------------------------------------------------

Next ==
  \/ Relaunch \/ Layout \/ Appear
  \/ DeliverValue \/ DeliverRemoved
  \/ \E i \in DOMAIN rows : DidSelectRow(i)
  \/ AddButton \/ OpenProfile \/ SignUp \/ SignInFailed \/ SignOut \/ ForcedSignOut \/ Back
  \/ \E u \in Users : SignedIn(u)
  \/ \E p \in Places : Save(p)
  \/ DeletePlace
  \/ Apply \/ Ack \/ Refuse \/ Disconnect
  \/ \E n \in Nodes : Sync(n) \/ Cancel(n)
  \/ \E n \in Nodes, p \in Places : RemoteAdd(n, p) \/ RemoteRemove(n, p)

Spec == Init /\ [][Next]_vars

\* The main queue runs, and the network is there: data and answers arrive.
\* Users owe nothing, and neither does anybody else who changes the data.
\* Sync is strongly fair because MaxQueue, a bound of the model, may disable it
\* again and again while the device is used; Ack, because a connection that
\* breaks disables it, and one does not break before every acknowledgement.
Fairness ==
  /\ WF_vars(Layout) /\ WF_vars(Appear)
  /\ WF_vars(DeliverValue \/ DeliverRemoved)
  /\ WF_vars(Apply \/ Refuse) /\ SF_vars(Ack)
  /\ \A n \in Nodes : SF_vars(Sync(n))

FairSpec == Spec /\ Fairness

-----------------------------------------------------------------------------

\* Safety.  Every listed place has its key in placesDict, whichever branch
\* of fetchPlaces filled the list and whatever account came before: the ""
\* of goToPlaceDetails, on which child() raises, is never used.
KeysKnown == Range(places) \subseteq placesDict /\ details.key = details.place

\* Safety.  With no event left to deliver for the node the list was filled
\* from, the list shows the device's view of it, pending writes included.
\* The one exception is in the code: an emptied shared node is ignored.
ListFresh ==
  /\ source \in loaded
  /\ \A k \in DOMAIN queue : queue[k].kind = "value" => queue[k].node # source
  => Range(places) = View(source) \/ (source = Shared /\ View(Shared) = {})

\* The places whose save under node n has no answer.
Sent(n) == {pend[k].place : k \in {l \in DOMAIN pend : pend[l].op = "add" /\ pend[l].node = n}}

P == INSTANCE PlaceLife WITH free <- Places \ used, sent <- [n \in Nodes |-> Sent(n)],
                             stored <- server

\* Refinement.  Every place has one life (module PlaceLife): whatever account
\* is signed in when a save or a delete is pressed, refused, sent again or lost,
\* a place is never under two nodes, and only a save that still waits for its
\* answer can bring back a place that was deleted.
ImplementsLife == P!Spec

\* Liveness.  An account whose data is awaited takes the list over sooner or
\* later, also when it has no places, unless its observer is cancelled.
AccountShows ==
  \A u \in Users :
    (u \in observed \ loaded) ~> (source = u \/ u \notin observed \/ stage # "appeared")

\* Liveness.  A list that is not filled from another node any more (a late
\* event of an account that was left would do that) ends up with exactly the
\* server's places of its node, after whatever writes, refusals and changes
\* by others.
ListConverges ==
  \A n \in Nodes :
    <>[](stage = "appeared" /\ source = n /\ n \in observed)
      => <>[](Range(places) = server[n] \/ (n = Shared /\ server[n] = {}))

\* Liveness.  An event between the first layout and the subscription leaves the
\* table with the rows of an older list.  It does not stay so for a user who
\* leaves the list and comes back: the observer that viewWillAppear adds always
\* brings a snapshot of an account, and with it a reload.
RowsRepaired ==
  \A u \in Users :
    /\ <>[](stage = "appeared" /\ user = u)
    /\ []<>(screen # "list") /\ []<>(screen = "list")
    => <>[](rows = places)

\* Liveness.  A details screen whose delete was pressed closes, whether the
\* server accepts the removal or not.
DeleteCloses ==
  \A s \in 1..MaxOpens :
    (\E k \in DOMAIN pend : pend[k].op = "remove" /\ pend[k].screen = s)
      ~> ~(screen = "details" /\ details.serial = s)

\* What the alert of the list says: a place is only created by a user who is
\* signed in.
AuthorizedCreation ==
  \A k \in DOMAIN pend : pend[k].op = "add" => pend[k].node # Shared

=============================================================================
