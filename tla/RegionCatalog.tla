---------------------------- MODULE RegionCatalog ----------------------------
(***************************************************************************)
(* The region catalogue /regions of the Realtime Database, shared by every *)
(* installation of HomeLight.  A region is stored under an integer key;    *)
(* CreateRegionViewModel numbers a new region with the length of the last  *)
(* array it decoded (regionsCount, 0 until a snapshot arrives), and        *)
(* SelectRegionViewModel lists the regions an operator has processed.      *)
(*                                                                         *)
(* A device keeps the database client of FirebaseDatabase (external): a    *)
(* cache of the node, the local writes the server has not acknowledged,    *)
(* and the value events queued on the main queue for the observer of the   *)
(* screen that is open.  A screen never removes its observer, so the cache *)
(* stays in sync once the first screen has opened; the events that still   *)
(* go to view models of closed screens have no visible effect.             *)
(***************************************************************************)
EXTENDS Integers, Sequences

CONSTANTS
  Clients,      \* installations of the app
  Writers,      \* those whose writes the database rules accept
  Operator,     \* the author of the regions seeded by hand
  NoRegion,     \* what an empty cell holds
  Cap,          \* bound: number of integer keys
  Seeds,        \* the numbers of regions the catalogue may start with
  MaxRegions,   \* bound: regions created in a behaviour
  MaxPend,      \* bound: unacknowledged writes of one device
  MaxEvents     \* bound: events waiting on a main queue for new data to come in

ASSUME CatalogAssumption ==
  /\ Writers \subseteq Clients
  /\ Operator \notin Clients
  /\ Cap \in Nat \ {0}
  /\ Seeds \subseteq 0..Cap
  /\ MaxRegions \in Nat /\ MaxPend \in Nat /\ MaxEvents \in Nat

Idx == 0..(Cap - 1)

\* RegionModel; id and author identify the region for the properties only.
RegionModel == [id : Nat, author : Clients \cup {Operator}, isProcessed : BOOLEAN]

ASSUME NoRegionAssumption == NoRegion \notin RegionModel

Cell == RegionModel \cup {NoRegion}
Node == [Idx -> Cell]

\* A local write of createRegion; informed is history: had the view model
\* that issued it received a value event before?
Write == [idx : Idx, region : RegionModel, informed : BOOLEAN]

EmptyNode == [i \in Idx |-> NoRegion]

VARIABLES
  server,   \* the node /regions on the server
  created,  \* number of regions created so far (source of ids)
  link,     \* per device: no observer yet, waiting for data, or synced
  cache,    \* per device: the last server data received
  pend,     \* per device: local writes without an acknowledgement
  sent,     \* per device: how many of pend the server has applied
  screen,   \* per device: the open screen
  events,   \* per device: snapshots queued for the observer of that screen
  heard,    \* per device: has that observer received a snapshot?
  count,    \* per device: CreateRegionViewModel.regionsCount
  regions   \* per device: SelectRegionViewModel.regions, as the set listed

device == <<link, cache, pend, sent, screen, events, heard, count, regions>>
vars == <<server, created, device>>

Links == {"idle", "waiting", "synced"}
Screens == {"none", "create", "select"}

TypeOK ==
  /\ server \in Node
  /\ created \in Nat
  /\ link \in [Clients -> Links]
  /\ cache \in [Clients -> Node]
  /\ pend \in [Clients -> Seq(Write)]
  /\ sent \in [Clients -> Nat]
  /\ \A c \in Clients : sent[c] <= IF c \in Writers THEN Len(pend[c]) ELSE 0
  /\ screen \in [Clients -> Screens]
  /\ events \in [Clients -> Seq(Node)]
  /\ heard \in [Clients -> BOOLEAN]
  /\ count \in [Clients -> 0..Cap]
  /\ regions \in [Clients -> SUBSET RegionModel]

-----------------------------------------------------------------------------
(* The snapshot an observer sees: the cached server data with the local    *)
(* writes applied over it, the latest write of a cell winning.             *)

LastWrite(p, i, k) ==
  /\ p[k].idx = i
  /\ \A l \in DOMAIN p : l > k => p[l].idx # i

Overlay(node, p) ==
  [i \in Idx |->
     IF \E k \in DOMAIN p : LastWrite(p, i, k)
     THEN p[CHOOSE k \in DOMAIN p : LastWrite(p, i, k)].region
     ELSE node[i]]

View(c) == Overlay(cache[c], pend[c])

\* FChildrenNode exports integer keys as an array; [RegionModel] decodes it
\* only when it has no null: the keys are exactly 0..n-1.
IsArray(node, n) == \A i \in Idx : node[i] # NoRegion <=> i < n

\* The events the observer of c gets when what it sees becomes node: one
\* if this is the first complete data or if it differs from before.
Raise(c, node) ==
  IF screen[c] # "none" /\ (link[c] # "synced" \/ node # View(c))
  THEN Append(events[c], node) ELSE events[c]

-----------------------------------------------------------------------------

Init ==
  /\ \E n \in Seeds, done \in BOOLEAN :
       server = [i \in Idx |-> IF i < n
                   THEN [id |-> 0, author |-> Operator, isProcessed |-> done]
                   ELSE NoRegion]
  /\ created = 0
  /\ link = [c \in Clients |-> "idle"]
  /\ cache = [c \in Clients |-> EmptyNode]
  /\ pend = [c \in Clients |-> <<>>]
  /\ sent = [c \in Clients |-> 0]
  /\ screen = [c \in Clients |-> "none"]
  /\ events = [c \in Clients |-> <<>>]
  /\ heard = [c \in Clients |-> FALSE]
  /\ count = [c \in Clients |-> 0]
  /\ regions = [c \in Clients |-> {}]

\* The view model of a screen that closes is out of reach, and the next one
\* starts from regionsCount = 0 and regions = [].
CloseScreen(c) ==
  /\ screen' = [screen EXCEPT ![c] = "none"]
  /\ events' = [events EXCEPT ![c] = <<>>]
  /\ heard' = [heard EXCEPT ![c] = FALSE]
  /\ count' = [count EXCEPT ![c] = 0]
  /\ regions' = [regions EXCEPT ![c] = {}]

\* A screen opens with a fresh view model, which observes /regions: an event
\* at once when the node is already complete on the device.
Open(c, s) ==
  /\ screen[c] = "none"
  /\ screen' = [screen EXCEPT ![c] = s]
  /\ link' = [link EXCEPT ![c] = IF @ = "idle" THEN "waiting" ELSE @]
  /\ events' = [events EXCEPT ![c] = IF link[c] = "synced" THEN <<View(c)>> ELSE <<>>]
  /\ UNCHANGED <<server, created, cache, pend, sent, heard, count, regions>>

\* The open screen is left by the back button.
Leave(c) ==
  /\ screen[c] # "none"
  /\ CloseScreen(c)
  /\ UNCHANGED <<server, created, link, cache, pend, sent>>

\* A faulty DeliverCount: counts from one.
DeliverCountOffByOne(c) ==
  /\ screen[c] = "create" /\ events[c] # <<>>
  /\ events' = [events EXCEPT ![c] = Tail(@)]
  /\ heard' = [heard EXCEPT ![c] = TRUE]
  /\ \E n \in 1..Cap : /\ IsArray(Head(events[c]), n)
                       /\ count' = [count EXCEPT ![c] = n + 1]
  /\ UNCHANGED <<server, created, link, cache, pend, sent, screen, regions>>

\* The observer of CreateRegionViewModel takes the next snapshot.
DeliverCount(c) ==
  /\ screen[c] = "create" /\ events[c] # <<>>
  /\ events' = [events EXCEPT ![c] = Tail(@)]
  /\ heard' = [heard EXCEPT ![c] = TRUE]
  /\ \/ \E n \in 1..Cap : /\ IsArray(Head(events[c]), n)
                          /\ count' = [count EXCEPT ![c] = n]
     \/ /\ \A n \in 1..Cap : ~IsArray(Head(events[c]), n)
        /\ count' = count
  /\ UNCHANGED <<server, created, link, cache, pend, sent, screen, regions>>

Processed(node) == {node[i] : i \in {j \in Idx : node[j] # NoRegion /\ node[j].isProcessed}}

\* A faulty DeliverRegions: only the first snapshot is used.
DeliverRegionsOnce(c) ==
  /\ screen[c] = "select" /\ events[c] # <<>>
  /\ events' = [events EXCEPT ![c] = Tail(@)]
  /\ heard' = [heard EXCEPT ![c] = TRUE]
  /\ regions' = IF heard[c] THEN regions
                ELSE [regions EXCEPT ![c] = Processed(Head(events[c]))]
  /\ UNCHANGED <<server, created, link, cache, pend, sent, screen, count>>

\* The observer of SelectRegionViewModel takes the next snapshot; the
\* reloadData of its controller follows in the same turn of the main queue.
DeliverRegions(c) ==
  /\ screen[c] = "select" /\ events[c] # <<>>
  /\ events' = [events EXCEPT ![c] = Tail(@)]
  /\ heard' = [heard EXCEPT ![c] = TRUE]
  /\ \/ /\ \E n \in 1..Cap : IsArray(Head(events[c]), n)
        /\ regions' = [regions EXCEPT ![c] = Processed(Head(events[c]))]
     \/ /\ \A n \in 1..Cap : ~IsArray(Head(events[c]), n)
        /\ regions' = regions
  /\ UNCHANGED <<server, created, link, cache, pend, sent, screen, count>>

\* A faulty NewRegion: the region is listed without the operator.
NewRegionProcessed(c) == [id |-> created + 1, author |-> c, isProcessed |-> TRUE]

\* A faulty NewRegion: isProcessed is left out of the dictionary.
NewRegionUnmarked(c) == [id |-> created + 1, author |-> c]

NewRegion(c) == [id |-> created + 1, author |-> c, isProcessed |-> FALSE]

\* A faulty createRegion: the number after the next free one.
CreateRegionBeyond(c) ==
  /\ screen[c] = "create"
  /\ count[c] + 1 < Cap /\ created < MaxRegions /\ Len(pend[c]) < MaxPend
  /\ pend' = [pend EXCEPT ![c] = Append(@, [idx |-> count[c] + 1, region |-> NewRegion(c),
                                            informed |-> heard[c]])]
  /\ created' = created + 1
  /\ CloseScreen(c)
  /\ UNCHANGED <<server, link, cache, sent>>

\* A faulty createRegion: the screen stays open after the write.
CreateRegionStay(c) ==
  /\ screen[c] = "create"
  /\ count[c] < Cap /\ created < MaxRegions /\ Len(pend[c]) < MaxPend
  /\ pend' = [pend EXCEPT ![c] = Append(@, [idx |-> count[c], region |-> NewRegion(c),
                                            informed |-> heard[c]])]
  /\ created' = created + 1
  /\ UNCHANGED <<server, link, cache, sent, screen, events, heard, count, regions>>

\* createRegion: the region is written under the number regionsCount, and
\* the screen closes without waiting for the server.
CreateRegion(c) ==
  /\ screen[c] = "create"
  /\ count[c] < Cap /\ created < MaxRegions /\ Len(pend[c]) < MaxPend
  /\ pend' = [pend EXCEPT ![c] = Append(@, [idx |-> count[c], region |-> NewRegion(c),
                                            informed |-> heard[c]])]
  /\ created' = created + 1
  /\ CloseScreen(c)
  /\ UNCHANGED <<server, link, cache, sent>>

-----------------------------------------------------------------------------
(* The database client and the server (external).                          *)

\* The device receives the current data of the node.
Sync(c) ==
  /\ link[c] # "idle"
  /\ link[c] = "waiting" \/ cache[c] # server
  /\ Len(events[c]) < MaxEvents
  /\ cache' = [cache EXCEPT ![c] = server]
  /\ link' = [link EXCEPT ![c] = "synced"]
  /\ events' = [events EXCEPT ![c] = Raise(c, Overlay(server, pend[c]))]
  /\ UNCHANGED <<server, created, pend, sent, screen, heard, count, regions>>

\* The server applies the next write of an accepted device.
Apply(c) ==
  /\ c \in Writers
  /\ sent[c] < Len(pend[c])
  /\ LET w == pend[c][sent[c] + 1]
     IN  server' = [server EXCEPT ![w.idx] = w.region]
  /\ sent' = [sent EXCEPT ![c] = @ + 1]
  /\ UNCHANGED <<created, link, cache, pend, screen, events, heard, count, regions>>

\* The oldest applied write is acknowledged.  The data the server pushed up
\* to that write arrives before the acknowledgement.
Ack(c) ==
  /\ sent[c] > 0
  /\ cache' = [cache EXCEPT ![c] = server]
  /\ link' = [link EXCEPT ![c] = "synced"]
  /\ pend' = [pend EXCEPT ![c] = Tail(@)]
  /\ sent' = [sent EXCEPT ![c] = @ - 1]
  /\ events' = [events EXCEPT ![c] = Raise(c, Overlay(server, Tail(pend[c])))]
  /\ UNCHANGED <<server, created, screen, heard, count, regions>>

\* The server refuses a write; the client takes it back.
Reject(c) ==
  /\ c \notin Writers
  /\ pend[c] # <<>>
  /\ pend' = [pend EXCEPT ![c] = Tail(@)]
  /\ events' = [events EXCEPT ![c] =
                  IF link[c] = "synced" THEN Raise(c, Overlay(cache[c], Tail(pend[c]))) ELSE @]
  /\ UNCHANGED <<server, created, link, cache, sent, screen, heard, count, regions>>

\* The connection breaks before the acknowledgements: every outstanding
\* write is sent again.
Disconnect(c) ==
  /\ sent[c] > 0
  /\ sent' = [sent EXCEPT ![c] = 0]
  /\ UNCHANGED <<server, created, link, cache, pend, screen, events, heard, count, regions>>

\* The app is killed and started again.  Nothing is kept on disk.
Restart(c) ==
  /\ link' = [link EXCEPT ![c] = "idle"]
  /\ cache' = [cache EXCEPT ![c] = EmptyNode]
  /\ pend' = [pend EXCEPT ![c] = <<>>]
  /\ sent' = [sent EXCEPT ![c] = 0]
  /\ CloseScreen(c)
  /\ UNCHANGED <<server, created>>

\* The operator marks a region as processed.
Approve(i) ==
  /\ server[i] # NoRegion /\ ~server[i].isProcessed
  /\ server' = [server EXCEPT ![i].isProcessed = TRUE]
  /\ UNCHANGED <<created, device>>

Next ==
  \/ \E c \in Clients :
       \/ Open(c, "create") \/ Open(c, "select") \/ Leave(c)
       \/ DeliverCount(c) \/ DeliverRegions(c) \/ CreateRegion(c)
       \/ Sync(c) \/ Apply(c) \/ Ack(c) \/ Reject(c) \/ Disconnect(c)
       \/ Restart(c)
  \/ \E i \in Idx : Approve(i)

Spec == Init /\ [][Next]_vars

\* The main queue runs what is queued on it; the network is up often enough
\* for the server's data, its acknowledgements and its refusals to arrive.
\* Users and the operator owe nothing.
Fairness ==
  \A c \in Clients :
    /\ WF_vars(DeliverCount(c)) /\ WF_vars(DeliverRegions(c))
    /\ WF_vars(Sync(c)) /\ WF_vars(Apply(c)) /\ SF_vars(Ack(c)) /\ WF_vars(Reject(c))

FairSpec == Spec /\ Fairness

-----------------------------------------------------------------------------

\* Safety.  The keys of /regions are always 0..n-1, whatever the devices
\* write from stale counts, resend or lose: [RegionModel] decodes on the
\* server's data, so no device is left with a catalogue it cannot read.
Contiguous == \E n \in 0..Cap : IsArray(server, n)

\* Safety.  Every snapshot queued for a device whose writes are accepted is
\* an array as well, its own unacknowledged regions included: the decode of
\* init and fetchRegions never fails there, and regionsCount follows every
\* event.
SnapshotsDecode ==
  \A c \in Writers : \A k \in DOMAIN events[c] :
    \E n \in 0..Cap : IsArray(events[c][k], n)

\* Safety.  When no event is left on the main queue, the region list offers
\* exactly the processed regions of what the device knows, if that decodes:
\* server data, acknowledgements and refusals that change what it knows were
\* all raised, and fetchRegions used the last of them.  An emptied catalogue
\* is no exception, although fetchRegions skips a snapshot with no value.
RegionsFresh ==
  \A c \in Clients :
    /\ screen[c] = "select" /\ link[c] = "synced" /\ events[c] = <<>>
    /\ \E n \in 0..Cap : IsArray(View(c), n)
    => regions[c] = Processed(View(c))

\* Action property.  A device that has received a snapshot since it opened the
\* screen never numbers its region over an older region of its own: only
\* an uninformed count (regionsCount still 0) or another device can.
OwnRegionsSurvive ==
  [][\A c \in Clients : sent'[c] = sent[c] + 1 =>
       LET w   == pend[c][sent'[c]]
           old == server[w.idx]
       IN  w.informed /\ old # NoRegion /\ old.author = c
             => old.id >= w.region.id]_vars

\* The list a snapshot exports: up to its last key, with a null wherever a
\* key is missing.
Exported(node) ==
  LET n == CHOOSE n \in 0..Cap : /\ n # 0 => node[n - 1] # NoRegion
                                 /\ \A i \in Idx : i >= n => node[i] = NoRegion
  IN  [i \in 1..n |-> node[i - 1]]

C == INSTANCE Catalogue WITH catalogue <- Exported(server)

\* Refinement.  Whatever the devices count, write, resend and lose, the server
\* behaves as one list to which unprocessed regions are entered one by one.
ImplementsCatalogue == C!Spec

\* Liveness.  A device that stays on the region list ends up offering exactly
\* the processed regions of the server, refused and resent writes of its own
\* and snapshots that do not decode notwithstanding.
ListConverges ==
  \A c \in Clients :
    <>[](screen[c] = "select") => <>[](regions[c] = Processed(server))

=============================================================================
