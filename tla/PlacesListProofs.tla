-------------------------- MODULE PlacesListProofs --------------------------
(***************************************************************************)
(* Proofs about PlacesList for every set of accounts and places and every  *)
(* value of the bounds.                                                    *)
(***************************************************************************)
EXTENDS PlacesList, FiniteSetTheorems, TLAPS

-----------------------------------------------------------------------------
(* The inductive invariant.  The list is current once the queue holds no   *)
(* event of its node, because the last event queued for a node always      *)
(* shows the present view of it: every step that changes a view, the       *)
(* answers to writes included, queues the new one.                         *)

IsValue(e, n) == e.kind = "value" /\ e.node = n

Quiet(q, n) == \A k \in DOMAIN q : ~IsValue(q[k], n)

IsLast(q, n, k) ==
  /\ k \in DOMAIN q /\ IsValue(q[k], n)
  /\ \A l \in DOMAIN q : l > k => ~IsValue(q[l], n)

\* The last event queued for n shows v.
LastShows(q, n, v) == \A k \in DOMAIN q : IsLast(q, n, k) => q[k].snapshot = v

\* Of a node n whose view is v: the last event queued for it shows v, and a
\* list filled from it shows v when no event is left (an emptied shared node
\* apart).
InStep(q, n, v, src, shown) ==
  /\ LastShows(q, n, v)
  /\ Quiet(q, n) /\ src = n => Range(shown) = v \/ (n = Shared /\ v = {})

ViewsInStep == \A n \in loaded : InStep(queue, n, View(n), source, places)

LoadedObserved == loaded \subseteq observed

Within(q, S) == \A k \in DOMAIN q : q[k].kind = "value" => q[k].snapshot \subseteq S

\* Every place in sight has been handed out.
UsedPlaces ==
  /\ \A n \in Nodes : server[n] \subseteq used /\ cache[n] \subseteq used
  /\ \A k \in DOMAIN pend : pend[k].place \in used
  /\ Within(queue, used)
  /\ placesDict \subseteq used
  /\ screen = "details" => details.place \in used

ListInv ==
  /\ TypeOK
  /\ KeysKnown
  /\ LoadedObserved
  /\ UsedPlaces
  /\ ViewsInStep

-----------------------------------------------------------------------------
(* Snapshots.                                                              *)

\* The places that the writes p name with op at node n.
Named(op, n, p) ==
  {p[k].place : k \in {l \in DOMAIN p : p[l].op = op /\ p[l].node = n}}

\* A snapshot is the data with the saves added and the removals taken out.
LEMMA SnapshotNamed ==
  ASSUME NEW n, NEW data, NEW p
  PROVE  Snapshot(n, data, p) = (data \cup Named("add", n, p)) \ Named("remove", n, p)
BY DEF Snapshot, Named

LEMMA NamedAppend ==
  ASSUME NEW p \in Seq(Write), NEW w \in Write, NEW op, NEW n
  PROVE  Named(op, n, Append(p, w)) =
           Named(op, n, p) \cup (IF w.op = op /\ w.node = n THEN {w.place} ELSE {})
<1> DEFINE q == Append(p, w)
<1>1. /\ DOMAIN p = 1..Len(p) /\ Len(p) \in Nat
      /\ DOMAIN q = 1..(Len(p) + 1)
      /\ q[Len(p) + 1] = w
      /\ \A k \in DOMAIN p : q[k] = p[k]
  OBVIOUS
<1> HIDE DEF q
<1>2. \A k : k \in DOMAIN q <=> k \in DOMAIN p \/ k = Len(p) + 1
  BY <1>1
<1> QED
  BY <1>1, <1>2 DEF Named, q

LEMMA NamedTail ==
  ASSUME NEW p \in Seq(Write), p # <<>>, NEW op, NEW n
  PROVE  Named(op, n, p) =
           Named(op, n, Tail(p))
             \cup (IF Head(p).op = op /\ Head(p).node = n THEN {Head(p).place} ELSE {})
<1> DEFINE q == Tail(p)
<1>1. /\ DOMAIN p = 1..Len(p) /\ Len(p) \in Nat \ {0}
      /\ DOMAIN q = 1..(Len(p) - 1)
      /\ \A k \in DOMAIN q : q[k] = p[k + 1]
      /\ Head(p) = p[1]
  OBVIOUS
<1> HIDE DEF q
<1>2. ASSUME NEW x \in Named(op, n, p)
      PROVE  x \in Named(op, n, q) \/ (p[1].op = op /\ p[1].node = n /\ x = p[1].place)
  <2>1. PICK k \in DOMAIN p : p[k].op = op /\ p[k].node = n /\ p[k].place = x
    BY <1>2 DEF Named
  <2>2. CASE k = 1
    BY <2>1, <2>2
  <2>3. CASE k # 1
    <3>1. k - 1 \in DOMAIN q /\ q[k - 1] = p[k]
      BY <1>1, <2>3
    <3> QED
      BY <2>1, <3>1 DEF Named
  <2> QED
    BY <2>2, <2>3
<1>3. ASSUME NEW x \in Named(op, n, q) PROVE x \in Named(op, n, p)
  <2>1. PICK k \in DOMAIN q : q[k].op = op /\ q[k].node = n /\ q[k].place = x
    BY <1>3 DEF Named
  <2>2. k + 1 \in DOMAIN p /\ q[k] = p[k + 1]
    BY <1>1
  <2> QED
    BY <2>1, <2>2 DEF Named
<1>4. p[1].op = op /\ p[1].node = n => p[1].place \in Named(op, n, p)
  BY <1>1 DEF Named
<1> QED
  BY <1>1, <1>2, <1>3, <1>4 DEF q

\* A snapshot holds nothing but the data and places that were written.
LEMMA SnapshotBounds ==
  ASSUME NEW S, NEW n, NEW data \in SUBSET S, NEW p,
         \A k \in DOMAIN p : p[k].place \in S
  PROVE  Snapshot(n, data, p) \in SUBSET S
BY SnapshotNamed DEF Named

LEMMA SnapshotType ==
  ASSUME NEW n, NEW data \in SUBSET Places, NEW p \in Seq(Write)
  PROVE  Snapshot(n, data, p) \in SUBSET Places
<1>1. \A k \in DOMAIN p : p[k] \in Write
  OBVIOUS
<1>2. \A k \in DOMAIN p : p[k].place \in Places
  BY <1>1 DEF Write
<1> QED
  BY <1>2, SnapshotBounds

\* A write changes the snapshot of its own node only.
LEMMA SnapshotOther ==
  ASSUME NEW p \in Seq(Write), NEW w \in Write, NEW n, NEW data, w.node # n
  PROVE  Snapshot(n, data, Append(p, w)) = Snapshot(n, data, p)
<1>1. ASSUME NEW op PROVE Named(op, n, Append(p, w)) = Named(op, n, p)
  <2>1. Named(op, n, Append(p, w)) =
          Named(op, n, p) \cup (IF w.op = op /\ w.node = n THEN {w.place} ELSE {})
    BY NamedAppend, Zenon
  <2> QED
    BY <2>1
<1>2. /\ Named("add", n, Append(p, w)) = Named("add", n, p)
      /\ Named("remove", n, Append(p, w)) = Named("remove", n, p)
  BY <1>1
<1> QED
  BY <1>2, SnapshotNamed, Zenon

LEMMA SnapshotTailOther ==
  ASSUME NEW p \in Seq(Write), p # <<>>, NEW n, NEW data, Head(p).node # n
  PROVE  Snapshot(n, data, Tail(p)) = Snapshot(n, data, p)
<1>1. ASSUME NEW op PROVE Named(op, n, p) = Named(op, n, Tail(p))
  <2>1. Named(op, n, p) =
          Named(op, n, Tail(p))
            \cup (IF Head(p).op = op /\ Head(p).node = n THEN {Head(p).place} ELSE {})
    BY NamedTail, Zenon
  <2> QED
    BY <2>1
<1>2. /\ Named("add", n, Tail(p)) = Named("add", n, p)
      /\ Named("remove", n, Tail(p)) = Named("remove", n, p)
  BY <1>1
<1> QED
  BY <1>2, SnapshotNamed, Zenon

-----------------------------------------------------------------------------
(* The main queue.                                                         *)

LEMMA ValueType ==
  ASSUME NEW n \in Nodes, NEW v \in SUBSET Places
  PROVE  Value(n, v) \in Event /\ IsValue(Value(n, v), n) /\ Value(n, v).snapshot = v
BY DEF Value, Event, IsValue

LEMMA PostType ==
  ASSUME NEW q \in Seq(Event), NEW n \in Nodes, NEW v \in SUBSET Places
  PROVE  Post(q, n, v) \in Seq(Event)
BY ValueType DEF Post

\* An event of another node, or a completion, disturbs nothing.
LEMMA AppendOther ==
  ASSUME NEW q \in Seq(Event), NEW e \in Event, NEW n, ~IsValue(e, n),
         NEW v, NEW src, NEW shown, InStep(q, n, v, src, shown)
  PROVE  InStep(Append(q, e), n, v, src, shown)
<1> DEFINE r == Append(q, e)
<1>1. /\ DOMAIN q = 1..Len(q) /\ Len(q) \in Nat
      /\ DOMAIN r = 1..(Len(q) + 1)
      /\ r[Len(q) + 1] = e
      /\ \A k \in DOMAIN q : k \in DOMAIN r /\ r[k] = q[k]
  OBVIOUS
<1> HIDE DEF r
<1>2. LastShows(r, n, v)
  <2> SUFFICES ASSUME NEW k \in DOMAIN r, IsLast(r, n, k) PROVE r[k].snapshot = v
    BY DEF LastShows
  <2>1. k \in DOMAIN q
    BY <1>1 DEF IsLast
  <2>2. IsLast(q, n, k)
    BY <1>1, <2>1 DEF IsLast
  <2> QED
    BY <1>1, <2>1, <2>2 DEF InStep, LastShows
<1>3. Quiet(r, n) => Quiet(q, n)
  BY <1>1 DEF Quiet
<1> QED
  BY <1>2, <1>3 DEF InStep, r

\* Once its view is posted, a node is in step.
LEMMA PostShows ==
  ASSUME NEW q \in Seq(Event), NEW n \in Nodes, NEW v \in SUBSET Places, NEW src, NEW shown
  PROVE  InStep(Post(q, n, v), n, v, src, shown)
<1> DEFINE r == Post(q, n, v)
<1>1. r \in Seq(Event) /\ r # <<>> /\ r[Len(r)] = Value(n, v)
  <2>1. Value(n, v) \in Event
    BY ValueType
  <2>2. CASE q # <<>> /\ q[Len(q)] = Value(n, v)
    BY <2>2 DEF Post
  <2>3. CASE ~(q # <<>> /\ q[Len(q)] = Value(n, v))
    <3>1. r = Append(q, Value(n, v))
      BY <2>3 DEF Post
    <3> QED
      BY <2>1, <3>1
  <2> QED
    BY <2>2, <2>3
<1> HIDE DEF r
<1>2. Len(r) \in DOMAIN r /\ DOMAIN r = 1..Len(r) /\ Len(r) \in Nat
  BY <1>1
<1>3. ~Quiet(r, n)
  BY <1>1, <1>2, ValueType DEF Quiet
<1>4. LastShows(r, n, v)
  <2> SUFFICES ASSUME NEW k \in DOMAIN r, IsLast(r, n, k) PROVE r[k].snapshot = v
    BY DEF LastShows
  <2>1. k = Len(r)
    <3>1. IsValue(r[Len(r)], n)
      BY <1>1, ValueType
    <3>2. ~(Len(r) > k)
      BY <1>2, <3>1 DEF IsLast
    <3> QED
      BY <1>2, <3>2
  <2> QED
    BY <1>1, <2>1, ValueType
<1> QED
  BY <1>3, <1>4 DEF InStep, r

LEMMA PostOther ==
  ASSUME NEW q \in Seq(Event), NEW n \in Nodes, NEW v \in SUBSET Places,
         NEW m, m # n, NEW u, NEW src, NEW shown, InStep(q, m, u, src, shown)
  PROVE  InStep(Post(q, n, v), m, u, src, shown)
<1>1. ~IsValue(Value(n, v), m)
  BY DEF Value, IsValue
<1>2. InStep(Append(q, Value(n, v)), m, u, src, shown)
  BY <1>1, ValueType, AppendOther
<1> QED
  BY <1>2 DEF Post

\* The delivered event was the last of its node, or is still followed by it.
LEMMA TailInStep ==
  ASSUME NEW q \in Seq(Event), q # <<>>, NEW n, NEW v, LastShows(q, n, v)
  PROVE  /\ LastShows(Tail(q), n, v)
         /\ Quiet(Tail(q), n) /\ ~IsValue(Head(q), n) => Quiet(q, n)
         /\ Quiet(Tail(q), n) /\ IsValue(Head(q), n) => Head(q).snapshot = v
<1> DEFINE r == Tail(q)
<1>1. /\ DOMAIN q = 1..Len(q) /\ Len(q) \in Nat \ {0}
      /\ DOMAIN r = 1..(Len(q) - 1)
      /\ \A k \in DOMAIN r : r[k] = q[k + 1]
      /\ Head(q) = q[1]
  OBVIOUS
<1> HIDE DEF r
<1>2. \A l \in DOMAIN q : l = 1 \/ (l - 1 \in DOMAIN r /\ r[l - 1] = q[l])
  BY <1>1
<1>3. ASSUME NEW k \in DOMAIN r, IsLast(r, n, k) PROVE r[k].snapshot = v
  <2>1. k + 1 \in DOMAIN q /\ q[k + 1] = r[k]
    BY <1>1
  <2>2. ASSUME NEW l \in DOMAIN q, l > k + 1 PROVE ~IsValue(q[l], n)
    <3>1. l - 1 \in DOMAIN r /\ l - 1 > k /\ r[l - 1] = q[l]
      BY <1>1, <2>2
    <3> QED
      BY <1>3, <3>1 DEF IsLast
  <2>3. IsLast(q, n, k + 1)
    BY <1>3, <2>1, <2>2 DEF IsLast
  <2> QED
    BY <2>1, <2>3 DEF LastShows
<1>4. ASSUME Quiet(r, n), NEW l \in DOMAIN q, l # 1 PROVE ~IsValue(q[l], n)
  BY <1>2, <1>4 DEF Quiet
<1>5. Quiet(r, n) /\ ~IsValue(q[1], n) => Quiet(q, n)
  BY <1>4 DEF Quiet
<1>6. ASSUME Quiet(r, n), IsValue(q[1], n) PROVE q[1].snapshot = v
  <2>1. 1 \in DOMAIN q
    BY <1>1
  <2>2. \A l \in DOMAIN q : l > 1 => ~IsValue(q[l], n)
    BY <1>1, <1>4, <1>6
  <2>3. IsLast(q, n, 1)
    BY <1>6, <2>1, <2>2 DEF IsLast
  <2> QED
    BY <2>1, <2>3 DEF LastShows
<1> QED
  BY <1>1, <1>3, <1>5, <1>6 DEF LastShows, r

LEMMA ChangedType ==
  ASSUME NEW q \in Seq(Event), NEW n \in Nodes, NEW v \in SUBSET Places
  PROVE  Changed(q, n, v) \in Seq(Event) /\ Observed(q, n, v) \in Seq(Event)
BY PostType DEF Changed, Observed

\* After a change of one view the loaded nodes are in step again.
LEMMA ChangedInStep ==
  ASSUME TypeOK, LoadedObserved, ViewsInStep,
         NEW n \in Nodes, NEW v \in SUBSET Places, NEW m \in loaded
  PROVE  InStep(Changed(queue, n, v), m, IF m = n THEN v ELSE View(m), source, places)
<1>1. queue \in Seq(Event) /\ InStep(queue, m, View(m), source, places)
  BY DEF TypeOK, ViewsInStep
<1>2. CASE m = n
  <2>1. CASE v = View(n)
    BY <1>1, <1>2, <2>1 DEF Changed
  <2>2. CASE v # View(n)
    <3>1. Changed(queue, n, v) = Post(queue, n, v)
      BY <1>2, <2>2 DEF Changed, LoadedObserved
    <3> QED
      BY <1>1, <1>2, <3>1, PostShows
  <2> QED
    BY <2>1, <2>2
<1>3. CASE m # n
  <2>1. InStep(Post(queue, n, v), m, View(m), source, places)
    BY <1>1, <1>3, PostOther
  <2> QED
    BY <1>1, <1>3, <2>1 DEF Changed
<1> QED
  BY <1>2, <1>3

LEMMA ObservedInStep ==
  ASSUME NEW q \in Seq(Event), NEW n \in Nodes, NEW v \in SUBSET Places, NEW m \in loaded,
         NEW u, NEW src, NEW shown, InStep(q, m, u, src, shown), m = n => u = v
  PROVE  InStep(Observed(q, n, v), m, u, src, shown)
<1>1. CASE m = n
  BY <1>1, PostShows DEF Observed
<1>2. CASE m # n
  BY <1>2, PostOther DEF Observed
<1> QED
  BY <1>1, <1>2

LEMMA RemovedInStep ==
  ASSUME NEW q \in Seq(Event), NEW w \in Write
  PROVE  /\ Removed(w, q) \in Seq(Event)
         /\ \A n, v, src, shown :
              InStep(q, n, v, src, shown) => InStep(Removed(w, q), n, v, src, shown)
<1> DEFINE e == [kind |-> "removed", screen |-> w.screen]
<1>1. e \in Event
  BY DEF Write, Event
<1>2. \A n : ~IsValue(e, n)
  BY DEF IsValue
<1> HIDE DEF e
<1>3. Append(q, e) \in Seq(Event)
  BY <1>1
<1>4. \A n, v, src, shown : InStep(q, n, v, src, shown) => InStep(Append(q, e), n, v, src, shown)
  BY <1>1, <1>2, AppendOther
<1> QED
  BY <1>3, <1>4 DEF Removed, e

-----------------------------------------------------------------------------
(* Types.                                                                  *)

LEMMA NodeOfType ==
  ASSUME NEW u \in Users \cup {Nobody}
  PROVE  NodeOf(u) \in Nodes
BY DEF NodeOf, Nodes

LEMMA ViewType ==
  ASSUME TypeOK, NEW n \in Nodes
  PROVE  View(n) \in SUBSET Places
BY SnapshotType DEF TypeOK, View

\* An order of a set of places lists exactly these.
LEMMA OrdersType ==
  ASSUME NEW S \in SUBSET Places, NEW s \in Orders(S)
  PROVE  s \in Seq(Places) /\ Range(s) = S
<1>1. Cardinality(S) \in Nat
  BY FS_Subset, FS_CardinalityType, PlacesAssumption
<1>2. s \in [1..Cardinality(S) -> S] /\ \A p \in S : \E k \in 1..Cardinality(S) : s[k] = p
  BY DEF Orders, Bijection, Injection, Surjection
<1>3. s \in Seq(Places)
  BY <1>1, <1>2
<1> QED
  BY <1>2, <1>3 DEF Range

\* What the list takes from a snapshot.
LEMMA FetchType ==
  ASSUME TypeOK, NEW n \in Nodes, NEW v \in SUBSET Places, FetchPlaces(n, v)
  PROVE  /\ placesDict' \in SUBSET Places /\ places' \in Seq(Places)
         /\ source' \in Nodes \cup {Nobody} /\ rows' \in Seq(Places)
<1>1. ASSUME NEW s \in Orders(v), Complete(n, s)
      PROVE  places' \in Seq(Places) /\ source' = n /\ rows' \in Seq(Places)
  BY <1>1, OrdersType DEF Complete, TypeOK
<1>2. ASSUME Complete(n, <<>>)
      PROVE  places' \in Seq(Places) /\ source' = n /\ rows' \in Seq(Places)
  BY <1>2 DEF Complete, TypeOK
<1>3. CASE v # {} /\ placesDict' = v /\ \E s \in Orders(v) : Complete(n, s)
  BY <1>1, <1>3
<1>4. CASE Complete(n, <<>>) /\ UNCHANGED placesDict
  BY <1>2, <1>4 DEF TypeOK
<1>5. CASE UNCHANGED list
  BY <1>5 DEF list, TypeOK
<1> QED
  BY <1>3, <1>4, <1>5 DEF FetchPlaces

LEMMA ReturnType ==
  ASSUME TypeOK, NEW u \in Users \cup {Nobody}, NEW q \in Seq(Event),
         NEW v \in SUBSET Places, Return(u, q, v)
  PROVE  /\ screen' \in {"list", "details", "create", "profile"}
         /\ observed' \in SUBSET Nodes
         /\ queue' \in Seq(Event)
         /\ details' \in IF screen' = "details" THEN Details ELSE {NoDetails}
<1>1. NodeOf(u) \in Nodes
  BY NodeOfType
<1>2. Observed(q, NodeOf(u), v) \in Seq(Event)
  BY <1>1, ChangedType
<1> QED
  BY <1>1, <1>2 DEF Return, TypeOK

LEMMA TypeInit == Init => TypeOK
<1> SUFFICES ASSUME Init PROVE TypeOK
  OBVIOUS
<1>1. NodeOf(user) \in Nodes
  BY NodeOfType DEF Init
<1>2. used \in SUBSET Places
  BY DEF Init
<1>3. /\ auths \in Nat /\ opens \in Nat
      /\ cache \in [Nodes -> SUBSET Places]
      /\ pend \in Seq(Write) /\ applied \in 0..Len(pend) /\ queue \in Seq(Event)
      /\ places \in Seq(Places) /\ rows \in Seq(Places)
  BY DEF Init
<1>4. /\ screen = "list"
      /\ details \in IF screen = "details" THEN Details ELSE {NoDetails}
  BY DEF Init
<1> QED
  BY <1>1, <1>2, <1>3, <1>4 DEF Init, TypeOK

LEMMA OldestWrite ==
  ASSUME TypeOK, pend # <<>>
  PROVE  Head(pend) \in Write /\ Head(pend).node \in Nodes
<1>1. Head(pend) \in Write
  BY DEF TypeOK
<1> QED
  BY <1>1 DEF Write

\* The answer to the oldest write, whatever data the client then has.
LEMMA AnsweredType ==
  ASSUME TypeOK, pend # <<>>, NEW data \in SUBSET Places, Answered(Head(pend), data)
  PROVE  /\ pend' \in Seq(Write) /\ Len(pend') = Len(pend) - 1 /\ Len(pend') \in Nat
         /\ queue' \in Seq(Event)
<1>w. PICK w \in Write : w = Head(pend)
  BY DEF TypeOK
<1> DEFINE v == Snapshot(w.node, data, Tail(pend))
           q == Changed(queue, w.node, v)
<1>1. /\ pend' = Tail(pend) /\ queue' = Removed(w, q)
      /\ Tail(pend) \in Seq(Write) /\ Len(Tail(pend)) = Len(pend) - 1 /\ Len(Tail(pend)) \in Nat
  BY <1>w DEF Answered, TypeOK
<1>2. w.node \in Nodes
  BY DEF Write
<1>3. v \in SUBSET Places
  BY <1>1, SnapshotType
<1>4. q \in Seq(Event)
  BY <1>2, <1>3, ChangedType DEF TypeOK
<1> HIDE DEF q
<1>5. Removed(w, q) \in Seq(Event)
  BY <1>4, RemovedInStep
<1> QED
  BY <1>1, <1>5

LEMMA TypeStep ==
  ASSUME TypeOK, KeysKnown, [Next]_vars
  PROVE  TypeOK'
<1>1. CASE Relaunch
  <2>1. NodeOf(user) \in Nodes
    BY NodeOfType DEF TypeOK
  <2>2. /\ auths' \in Nat /\ opens' \in Nat
        /\ cache' \in [Nodes -> SUBSET Places]
        /\ pend' \in Seq(Write) /\ applied' \in 0..Len(pend') /\ queue' \in Seq(Event)
        /\ places' \in Seq(Places) /\ rows' \in Seq(Places)
    BY <1>1 DEF Relaunch, Launched
  <2>3. /\ screen' = "list"
        /\ details' \in IF screen' = "details" THEN Details ELSE {NoDetails}
    BY <1>1 DEF Relaunch, Launched
  <2> QED
    BY <1>1, <2>1, <2>2, <2>3 DEF Relaunch, Launched, TypeOK
<1>2. CASE Layout \/ Appear
  BY <1>2 DEF Layout, Appear, TypeOK, database, list
<1>3. CASE DeliverValue
  <2>1. Head(queue) \in Event /\ Tail(queue) \in Seq(Event)
    BY <1>3 DEF DeliverValue, TypeOK
  <2>2. Head(queue).node \in Nodes /\ Head(queue).snapshot \in SUBSET Places
    BY <1>3, <2>1 DEF DeliverValue, Event
  <2>3. /\ placesDict' \in SUBSET Places /\ places' \in Seq(Places)
        /\ source' \in Nodes \cup {Nobody} /\ rows' \in Seq(Places)
    BY <1>3, <2>2, FetchType DEF DeliverValue
  <2> QED
    BY <1>3, <2>1, <2>3 DEF DeliverValue, TypeOK, database
<1>4. CASE DeliverRemoved
  <2>1. Tail(queue) \in Seq(Event)
    BY <1>4 DEF DeliverRemoved, TypeOK
  <2>2. CASE Return(user, Tail(queue), View(NodeOf(user)))
    <3>1. user \in Users \cup {Nobody} /\ View(NodeOf(user)) \in SUBSET Places
      BY NodeOfType, ViewType DEF TypeOK
    <3> QED
      BY <1>4, <2>1, <2>2, <3>1, ReturnType DEF DeliverRemoved, TypeOK, database, list
  <2>3. CASE queue' = Tail(queue) /\ UNCHANGED <<screen, observed, details>>
    BY <1>4, <2>1, <2>3 DEF DeliverRemoved, TypeOK, database, list
  <2> QED
    BY <1>4, <2>2, <2>3 DEF DeliverRemoved
<1>5. ASSUME NEW i \in DOMAIN rows, DidSelectRow(i) PROVE TypeOK'
  <2>1. places[i] \in Places
    BY <1>5 DEF DidSelectRow, TypeOK
  <2>2. details' \in Details /\ opens' \in Nat
    BY <1>5, <2>1 DEF DidSelectRow, Details, KeyOf, TypeOK
  <2> QED
    BY <1>5, <2>2 DEF DidSelectRow, TypeOK, database, list
<1>6. CASE AddButton \/ OpenProfile
  BY <1>6 DEF AddButton, OpenProfile, TypeOK, database, list
<1>7. CASE SignUp \/ SignInFailed \/ ForcedSignOut
  BY <1>7 DEF SignUp, SignInFailed, ForcedSignOut, TypeOK, database, list
<1>8. ASSUME NEW u \in Users, SignedIn(u) PROVE TypeOK'
  BY <1>8 DEF SignedIn, TypeOK, database, list
<1>9. CASE SignOut
  <2>1. Shared \in Nodes
    BY DEF Nodes
  <2>2. View(Shared) \in SUBSET Places
    BY <2>1, ViewType
  <2> QED
    BY <1>9, <2>2, ReturnType DEF SignOut, TypeOK, database, list
<1>10. CASE Back
  <2>1. user \in Users \cup {Nobody} /\ View(NodeOf(user)) \in SUBSET Places
    BY NodeOfType, ViewType DEF TypeOK
  <2> QED
    BY <1>10, <2>1, ReturnType DEF Back, TypeOK, database, list
<1>11. ASSUME NEW p \in Places, Save(p) PROVE TypeOK'
  <2> DEFINE n == NodeOf(user)
             w == [op |-> "add", node |-> n, place |-> p, screen |-> 0]
  <2>1. n \in Nodes /\ user \in Users \cup {Nobody}
    BY NodeOfType DEF TypeOK
  <2>2. w \in Write
    BY <2>1 DEF Write
  <2>3. Append(pend, w) \in Seq(Write) /\ applied \in 0..Len(Append(pend, w))
    BY <2>2 DEF TypeOK
  <2>4. Snapshot(n, cache[n], Append(pend, w)) \in SUBSET Places
    BY <2>1, <2>3, SnapshotType DEF TypeOK
  <2>5. AfterWrite(w) \in Seq(Event)
    BY <2>1, <2>4, ChangedType DEF AfterWrite, TypeOK
  <2>6. Return(user, AfterWrite(w), Snapshot(n, cache[n], Append(pend, w))) /\ pend' = Append(pend, w)
    BY <1>11 DEF Save
  <2> HIDE DEF w, n
  <2> QED
    BY <1>11, <2>1, <2>3, <2>4, <2>5, <2>6, ReturnType DEF Save, TypeOK, list
<1>12. CASE DeletePlace
  <2> DEFINE n == NodeOf(user)
             w == [op |-> "remove", node |-> n, place |-> details.key, screen |-> details.serial]
  <2>1. n \in Nodes
    BY NodeOfType DEF TypeOK
  <2>2. details \in Details /\ details.key = details.place
    BY <1>12 DEF DeletePlace, TypeOK, KeysKnown
  <2>3. w \in Write
    BY <2>1, <2>2 DEF Write, Details
  <2>4. Append(pend, w) \in Seq(Write) /\ applied \in 0..Len(Append(pend, w))
    BY <2>3 DEF TypeOK
  <2>5. Snapshot(n, cache[n], Append(pend, w)) \in SUBSET Places
    BY <2>1, <2>4, SnapshotType DEF TypeOK
  <2>6. AfterWrite(w) \in Seq(Event)
    BY <2>1, <2>5, ChangedType DEF AfterWrite, TypeOK
  <2>7. pend' = Append(pend, w) /\ queue' = AfterWrite(w)
    BY <1>12 DEF DeletePlace
  <2> HIDE DEF w, n
  <2> QED
    BY <1>12, <2>4, <2>6, <2>7 DEF DeletePlace, TypeOK, list
<1>13. CASE Apply
  <2>1. pend[applied + 1] \in Write /\ applied + 1 \in 0..Len(pend)
    BY <1>13 DEF Apply, TypeOK
  <2>2. pend[applied + 1].place \in Places
    BY <2>1 DEF Write
  <2> QED
    BY <1>13, <2>1, <2>2 DEF Apply, TypeOK, list
<1>14. CASE Ack
  <2>1. pend # <<>> /\ applied \in 1..Len(pend)
    BY <1>14 DEF Ack, TypeOK
  <2>2. PICK n \in Nodes : n = Head(pend).node
    BY <2>1, OldestWrite
  <2>3. PICK data \in SUBSET Places : data = server[n]
    BY DEF TypeOK
  <2>4. Answered(Head(pend), data)
    BY <1>14, <2>2, <2>3 DEF Ack
  <2>5. pend' \in Seq(Write) /\ Len(pend') = Len(pend) - 1 /\ queue' \in Seq(Event)
    BY <2>1, <2>4, AnsweredType
  <2>6. applied' \in 0..Len(pend')
    BY <1>14, <2>1, <2>5 DEF Ack, TypeOK
  <2>7. cache' \in [Nodes -> SUBSET Places]
    BY <1>14, <2>2 DEF Ack, TypeOK
  <2> QED
    BY <1>14, <2>5, <2>6, <2>7 DEF Ack, TypeOK, list
<1>19. CASE Refuse
  <2>1. pend # <<>> /\ applied = 0
    BY <1>19 DEF Refuse
  <2>2. PICK data \in SUBSET Places : data = cache[Head(pend).node]
    BY <2>1, OldestWrite DEF TypeOK
  <2>3. Answered(Head(pend), data)
    BY <1>19, <2>2 DEF Refuse
  <2>4. pend' \in Seq(Write) /\ Len(pend') \in Nat /\ queue' \in Seq(Event)
    BY <2>1, <2>3, AnsweredType
  <2> QED
    BY <1>19, <2>1, <2>4 DEF Refuse, TypeOK, list
<1>20. CASE Disconnect
  BY <1>20 DEF Disconnect, TypeOK, list
<1>15. ASSUME NEW n \in Nodes, Sync(n) PROVE TypeOK'
  <2>1. Snapshot(n, server[n], pend) \in SUBSET Places
    BY SnapshotType DEF TypeOK
  <2>2. queue' \in Seq(Event)
    BY <1>15, <2>1, PostType, ChangedType DEF Sync, TypeOK
  <2> QED
    BY <1>15, <2>2 DEF Sync, TypeOK, list
<1>16. ASSUME NEW n \in Nodes, Cancel(n) PROVE TypeOK'
  BY <1>16 DEF Cancel, TypeOK, list
<1>17. ASSUME NEW n \in Nodes, NEW p \in Places, RemoteAdd(n, p) \/ RemoteRemove(n, p) PROVE TypeOK'
  BY <1>17 DEF RemoteAdd, RemoteRemove, TypeOK, list
<1>18. CASE UNCHANGED vars
  BY <1>18 DEF vars, TypeOK, database, list
<1> QED
  BY <1>1, <1>2, <1>3, <1>4, <1>5, <1>6, <1>7, <1>8, <1>9, <1>10, <1>11, <1>12, <1>13, <1>14,
     <1>15, <1>16, <1>17, <1>18, <1>19, <1>20 DEF Next

-----------------------------------------------------------------------------
(* Keys and ids.                                                           *)

LEMMA KeysInit == Init => KeysKnown
BY DEF Init, KeysKnown, NoDetails, Range

LEMMA KeysStep ==
  ASSUME TypeOK, KeysKnown, [Next]_vars
  PROVE  KeysKnown'
<1> USE DEF KeysKnown
<1>1. CASE Relaunch
  BY <1>1 DEF Relaunch, Launched, NoDetails, Range
<1>2. CASE Layout \/ Appear
  BY <1>2 DEF Layout, Appear, list
<1>3. CASE DeliverValue
  <2> DEFINE n == Head(queue).node
             v == Head(queue).snapshot
  <2>1. n \in Nodes /\ v \in SUBSET Places
    <3>1. Head(queue) \in Event
      BY <1>3 DEF DeliverValue, TypeOK
    <3> QED
      BY <1>3, <3>1 DEF DeliverValue, Event
  <2>2. FetchPlaces(n, v) /\ details' = details
    BY <1>3 DEF DeliverValue
  <2> HIDE DEF n, v
  <2>3. ASSUME NEW s, Complete(n, s), Range(s) \subseteq placesDict'
        PROVE  KeysKnown'
    BY <2>2, <2>3 DEF Complete
  <2>4. CASE v # {} /\ placesDict' = v /\ \E s \in Orders(v) : Complete(n, s)
    <3>1. PICK s \in Orders(v) : Complete(n, s)
      BY <2>4
    <3>2. Range(s) = v
      BY <2>1, OrdersType
    <3> QED
      BY <2>3, <2>4, <3>1, <3>2
  <2>5. CASE Complete(n, <<>>)
    <3>1. Range(<<>>) \subseteq placesDict'
      BY DEF Range
    <3> QED
      BY <2>3, <2>5, <3>1
  <2>6. CASE UNCHANGED list
    BY <2>2, <2>6 DEF list
  <2> QED
    BY <2>2, <2>4, <2>5, <2>6 DEF FetchPlaces
<1>4. CASE DeliverRemoved
  BY <1>4 DEF DeliverRemoved, Return, NoDetails, list
<1>5. ASSUME NEW i \in DOMAIN rows, DidSelectRow(i) PROVE KeysKnown'
  <2>1. places[i] \in Range(places)
    BY <1>5 DEF DidSelectRow, Range
  <2>2. KeyOf(places[i]) = places[i]
    BY <2>1 DEF KeyOf
  <2> QED
    BY <1>5, <2>2 DEF DidSelectRow, list
<1>6. CASE AddButton \/ OpenProfile \/ SignUp \/ SignInFailed \/ ForcedSignOut
  BY <1>6 DEF AddButton, OpenProfile, SignUp, SignInFailed, ForcedSignOut, list
<1>7. ASSUME NEW u \in Users, SignedIn(u) PROVE KeysKnown'
  BY <1>7 DEF SignedIn, list
<1>8. CASE SignOut \/ Back
  BY <1>8 DEF SignOut, Back, Return, NoDetails, list
<1>9. ASSUME NEW p \in Places, Save(p) PROVE KeysKnown'
  BY <1>9 DEF Save, Return, NoDetails, list
<1>10. CASE DeletePlace \/ Apply \/ Ack \/ Refuse \/ Disconnect
  BY <1>10 DEF DeletePlace, Apply, Ack, Refuse, Disconnect, list
<1>11. ASSUME NEW n \in Nodes, Sync(n) \/ Cancel(n) PROVE KeysKnown'
  BY <1>11 DEF Sync, Cancel, list
<1>12. ASSUME NEW n \in Nodes, NEW p \in Places, RemoteAdd(n, p) \/ RemoteRemove(n, p)
       PROVE  KeysKnown'
  BY <1>12 DEF RemoteAdd, RemoteRemove, list
<1>13. CASE UNCHANGED vars
  BY <1>13 DEF vars, list
<1> QED
  BY <1>1, <1>2, <1>3, <1>4, <1>5, <1>6, <1>7, <1>8, <1>9, <1>10, <1>11, <1>12, <1>13 DEF Next

\* Posting places that have been handed out keeps the queue within them.
LEMMA WithinAppend ==
  ASSUME NEW q \in Seq(Event), NEW S, Within(q, S),
         NEW e \in Event, e.kind = "value" => e.snapshot \subseteq S
  PROVE  Within(Append(q, e), S)
<1>1. \A k \in DOMAIN Append(q, e) :
        Append(q, e)[k] = e \/ (k \in DOMAIN q /\ Append(q, e)[k] = q[k])
  OBVIOUS
<1> QED
  BY <1>1 DEF Within

LEMMA WithinQueue ==
  ASSUME NEW q \in Seq(Event), NEW S, Within(q, S), NEW n \in Nodes,
         NEW v \in SUBSET Places, v \subseteq S
  PROVE  /\ Within(Post(q, n, v), S)
         /\ Within(Changed(q, n, v), S)
         /\ Within(Observed(q, n, v), S)
<1>1. Within(Post(q, n, v), S)
  BY WithinAppend, ValueType DEF Post
<1> QED
  BY <1>1 DEF Changed, Observed

LEMMA WithinRemoved ==
  ASSUME NEW q \in Seq(Event), NEW S, Within(q, S), NEW w \in Write
  PROVE  Within(Removed(w, q), S)
<1>1. [kind |-> "removed", screen |-> w.screen] \in Event
  BY DEF Write, Event
<1> QED
  BY <1>1, WithinAppend DEF Removed

LEMMA WithinTail ==
  ASSUME NEW q \in Seq(Event), q # <<>>, NEW S, Within(q, S)
  PROVE  /\ Within(Tail(q), S)
         /\ Head(q).kind = "value" => Head(q).snapshot \subseteq S
<1>1. /\ \A k \in DOMAIN Tail(q) : k + 1 \in DOMAIN q /\ Tail(q)[k] = q[k + 1]
      /\ 1 \in DOMAIN q /\ Head(q) = q[1]
  OBVIOUS
<1> QED
  BY <1>1 DEF Within

LEMMA WithinMore ==
  ASSUME NEW q, NEW S, NEW T, S \subseteq T, Within(q, S)
  PROVE  Within(q, T)
BY DEF Within

LEMMA ViewUsed ==
  ASSUME UsedPlaces, NEW n \in Nodes
  PROVE  View(n) \subseteq used
<1>1. cache[n] \in SUBSET used /\ \A k \in DOMAIN pend : pend[k].place \in used
  BY DEF UsedPlaces
<1> QED
  BY <1>1, SnapshotBounds DEF View

LEMMA AppendSnapshot ==
  ASSUME TypeOK, UsedPlaces, NEW n \in Nodes, NEW w \in Write, NEW S, used \subseteq S, w.place \in S
  PROVE  Snapshot(n, cache[n], Append(pend, w)) \in (SUBSET S) \cap (SUBSET Places)
<1> DEFINE p == Append(pend, w)
<1>1. p \in Seq(Write) /\ cache[n] \in SUBSET S /\ cache[n] \in SUBSET Places
  BY DEF TypeOK, UsedPlaces
<1>2. \A k \in DOMAIN p : p[k] = w \/ (k \in DOMAIN pend /\ p[k] = pend[k])
  BY DEF TypeOK
<1> HIDE DEF p
<1>3. \A k \in DOMAIN p : p[k].place \in S
  BY <1>2 DEF UsedPlaces
<1>4. Snapshot(n, cache[n], p) \in SUBSET S
  BY <1>1, <1>3, SnapshotBounds
<1>5. Snapshot(n, cache[n], p) \in SUBSET Places
  BY <1>1, SnapshotType
<1> QED
  BY <1>4, <1>5 DEF p

LEMMA WriteUsed ==
  ASSUME TypeOK, UsedPlaces, NEW w \in Write,
         pend' = Append(pend, w), used \subseteq used', w.place \in used'
  PROVE  \A k \in DOMAIN pend' : pend'[k].place \in used'
<1>1. \A k \in DOMAIN pend' : pend'[k] = w \/ (k \in DOMAIN pend /\ pend'[k] = pend[k])
  BY DEF TypeOK
<1> QED
  BY <1>1 DEF UsedPlaces

LEMMA AnsweredUsed ==
  ASSUME TypeOK, UsedPlaces, pend # <<>>, NEW data \in SUBSET Places, data \subseteq used,
         Answered(Head(pend), data), used' = used
  PROVE  /\ Within(queue', used)
         /\ \A k \in DOMAIN pend' : pend'[k].place \in used'
<1>w. PICK w \in Write : w = Head(pend)
  BY DEF TypeOK
<1> DEFINE p == Tail(pend)
           v == Snapshot(w.node, data, p)
           q == Changed(queue, w.node, v)
<1>1. pend' = p /\ queue' = Removed(w, q)
  BY <1>w DEF Answered
<1>2. p \in Seq(Write) /\ \A k \in DOMAIN p : k + 1 \in DOMAIN pend /\ p[k] = pend[k + 1]
  BY DEF TypeOK
<1> HIDE DEF p
<1>3. \A k \in DOMAIN p : p[k].place \in used
  BY <1>2 DEF UsedPlaces
<1>4. v \in SUBSET used
  BY <1>3, SnapshotBounds
<1>5. v \in SUBSET Places
  BY <1>2, SnapshotType
<1>6. w.node \in Nodes
  BY DEF Write
<1>7. q \in Seq(Event) /\ Within(q, used)
  BY <1>4, <1>5, <1>6, WithinQueue, ChangedType DEF UsedPlaces, TypeOK
<1> HIDE DEF q
<1>8. Within(Removed(w, q), used)
  BY <1>7, WithinRemoved
<1> QED
  BY <1>1, <1>3, <1>8

LEMMA UsedInit == Init => LoadedObserved /\ UsedPlaces
<1> SUFFICES ASSUME Init PROVE LoadedObserved /\ UsedPlaces
  OBVIOUS
<1>1. \A n \in Nodes : server[n] \subseteq used /\ cache[n] \subseteq used
  BY DEF Init
<1>2. screen # "details"
  BY DEF Init
<1> QED
  BY <1>1, <1>2 DEF Init, LoadedObserved, UsedPlaces, Within

LEMMA UsedStep ==
  ASSUME TypeOK, KeysKnown, LoadedObserved, UsedPlaces, [Next]_vars
  PROVE  LoadedObserved' /\ UsedPlaces'
<1>1. CASE Relaunch
  <2>1. screen' # "details"
    BY <1>1 DEF Relaunch, Launched
  <2> QED
    BY <1>1, <2>1 DEF Relaunch, Launched, LoadedObserved, UsedPlaces, Within
<1>2. CASE Layout \/ Appear
  BY <1>2 DEF Layout, Appear, list, LoadedObserved, UsedPlaces, database
<1>3. CASE DeliverValue
  <2>1. queue \in Seq(Event) /\ queue # <<>>
    BY <1>3 DEF DeliverValue, TypeOK
  <2>2. Within(queue', used) /\ Head(queue).snapshot \subseteq used
    BY <1>3, <2>1, WithinTail DEF DeliverValue, UsedPlaces
  <2>3. placesDict' \subseteq used
    BY <1>3, <2>2 DEF DeliverValue, FetchPlaces, list, UsedPlaces
  <2> QED
    BY <1>3, <2>2, <2>3 DEF DeliverValue, LoadedObserved, UsedPlaces, database
<1>4. CASE DeliverRemoved
  <2>1. queue \in Seq(Event) /\ queue # <<>> /\ Tail(queue) \in Seq(Event)
    BY <1>4 DEF DeliverRemoved, TypeOK
  <2>2. Within(Tail(queue), used)
    BY <2>1, WithinTail DEF UsedPlaces
  <2>3. NodeOf(user) \in Nodes
    BY NodeOfType DEF TypeOK
  <2>4. Within(Observed(Tail(queue), NodeOf(user), View(NodeOf(user))), used)
    BY <2>1, <2>2, <2>3, WithinQueue, ViewUsed, ViewType
  <2>5. Within(queue', used)
    BY <1>4, <2>2, <2>4 DEF DeliverRemoved, Return
  <2>6. observed \subseteq observed' /\ (screen' = "details" => screen = "details" /\ details' = details)
    BY <1>4 DEF DeliverRemoved, Return
  <2> QED
    BY <1>4, <2>5, <2>6 DEF DeliverRemoved, LoadedObserved, UsedPlaces, database, list
<1>5. ASSUME NEW i \in DOMAIN rows, DidSelectRow(i)
      PROVE  LoadedObserved' /\ UsedPlaces'
  <2>1. places[i] \in Range(places)
    BY <1>5 DEF DidSelectRow, Range
  <2>2. details'.place \in used
    BY <1>5, <2>1 DEF DidSelectRow, KeysKnown, UsedPlaces
  <2> QED
    BY <1>5, <2>2 DEF DidSelectRow, LoadedObserved, UsedPlaces, database, list
<1>6. CASE AddButton \/ OpenProfile \/ SignUp \/ SignInFailed \/ ForcedSignOut
  BY <1>6 DEF AddButton, OpenProfile, SignUp, SignInFailed, ForcedSignOut, LoadedObserved,
              UsedPlaces, database, list
<1>7. ASSUME NEW u \in Users, SignedIn(u) PROVE LoadedObserved' /\ UsedPlaces'
  BY <1>7 DEF SignedIn, LoadedObserved, UsedPlaces, database, list
<1>8. CASE SignOut \/ Back
  <2>1. \A u \in Users \cup {Nobody} : NodeOf(u) \in Nodes
    BY NodeOfType
  <2>2. \A n \in Nodes : Within(Observed(queue, n, View(n)), used)
    BY WithinQueue, ViewUsed, ViewType DEF UsedPlaces, TypeOK
  <2>3. NodeOf(Nobody) = Shared
    BY DEF NodeOf
  <2>4. Within(queue', used)
    BY <1>8, <2>1, <2>2, <2>3 DEF SignOut, Back, Return, TypeOK
  <2>5. screen' # "details" /\ observed \subseteq observed'
    BY <1>8 DEF SignOut, Back, Return
  <2> QED
    BY <1>8, <2>4, <2>5 DEF SignOut, Back, LoadedObserved, UsedPlaces, database, list
<1>9. ASSUME NEW p \in Places, Save(p) PROVE LoadedObserved' /\ UsedPlaces'
  <2> DEFINE n == NodeOf(user)
             w == [op |-> "add", node |-> n, place |-> p, screen |-> 0]
             v == Snapshot(n, cache[n], Append(pend, w))
  <2>1. n \in Nodes
    BY NodeOfType DEF TypeOK
  <2>2. w \in Write /\ w.op = "add" /\ w.place = p /\ w.node = n
    BY <2>1 DEF Write
  <2>3. /\ pend' = Append(pend, w) /\ used' = used \cup {p} /\ p \notin used
        /\ Return(user, AfterWrite(w), v)
    BY <1>9 DEF Save
  <2>4. \A k \in DOMAIN pend' : pend'[k].place \in used'
    BY <2>2, <2>3, WriteUsed
  <2>5. v \in SUBSET used' /\ v \in SUBSET Places
    BY <2>1, <2>2, <2>3, AppendSnapshot
  <2>6. AfterWrite(w) = Changed(queue, n, v)
    BY <2>2 DEF AfterWrite
  <2> HIDE DEF n, w, v
  <2>7. queue \in Seq(Event) /\ Within(queue, used')
    BY <2>3, WithinMore DEF UsedPlaces, TypeOK
  <2>8. Changed(queue, n, v) \in Seq(Event) /\ Within(Changed(queue, n, v), used')
    BY <2>1, <2>5, <2>7, ChangedType, WithinQueue
  <2>9. Within(queue', used')
    BY <2>1, <2>3, <2>5, <2>6, <2>8, WithinQueue DEF Return, n
  <2>10. screen' # "details" /\ observed \subseteq observed'
    BY <2>3 DEF Return
  <2> QED
    BY <1>9, <2>3, <2>4, <2>9, <2>10 DEF Save, LoadedObserved, UsedPlaces, list
<1>10. CASE DeletePlace
  <2> DEFINE n == NodeOf(user)
             w == [op |-> "remove", node |-> n, place |-> details.key, screen |-> details.serial]
             v == Snapshot(n, cache[n], Append(pend, w))
  <2>1. n \in Nodes
    BY NodeOfType DEF TypeOK
  <2>2. details \in Details /\ details.key = details.place /\ details.key \in used
    BY <1>10 DEF DeletePlace, TypeOK, KeysKnown, UsedPlaces
  <2>3. w \in Write /\ w.op = "remove" /\ w.place \in used /\ w.node = n
    BY <2>1, <2>2 DEF Write, Details
  <2>4. pend' = Append(pend, w) /\ used' = used /\ queue' = AfterWrite(w)
    BY <1>10 DEF DeletePlace
  <2>5. \A k \in DOMAIN pend' : pend'[k].place \in used'
    BY <2>3, <2>4, WriteUsed
  <2>6. v \in SUBSET used /\ v \in SUBSET Places
    BY <2>1, <2>3, AppendSnapshot
  <2>7. AfterWrite(w) = Changed(queue, n, v)
    BY <2>3 DEF AfterWrite
  <2> HIDE DEF n, w, v
  <2>8. Within(queue', used)
    BY <2>1, <2>4, <2>6, <2>7, WithinQueue DEF UsedPlaces, TypeOK
  <2> QED
    BY <1>10, <2>4, <2>5, <2>8 DEF DeletePlace, LoadedObserved, UsedPlaces, list
<1>11. CASE Apply
  <2>1. pend[applied + 1] \in Write /\ applied + 1 \in DOMAIN pend
    BY <1>11 DEF Apply, TypeOK
  <2>2. pend[applied + 1].place \in used
    BY <2>1 DEF UsedPlaces
  <2>3. \A n \in Nodes : server'[n] \subseteq used
    BY <1>11, <2>2 DEF Apply, TypeOK, UsedPlaces
  <2> QED
    BY <1>11, <2>3 DEF Apply, LoadedObserved, UsedPlaces, list
<1>12. CASE Ack
  <2>1. pend # <<>> /\ used' = used
    BY <1>12 DEF Ack, TypeOK
  <2>2. PICK n \in Nodes : n = Head(pend).node
    BY <2>1, OldestWrite
  <2>3. PICK data \in SUBSET Places : data = server[n] /\ data \subseteq used
    BY DEF TypeOK, UsedPlaces
  <2>4. Answered(Head(pend), data)
    BY <1>12, <2>2, <2>3 DEF Ack
  <2>5. Within(queue', used) /\ \A k \in DOMAIN pend' : pend'[k].place \in used'
    BY <2>1, <2>3, <2>4, AnsweredUsed
  <2>6. \A m \in Nodes : cache'[m] \subseteq used
    BY <1>12, <2>2, <2>3 DEF Ack, TypeOK, UsedPlaces
  <2> QED
    BY <1>12, <2>1, <2>5, <2>6 DEF Ack, LoadedObserved, UsedPlaces, list
<1>18. CASE Refuse
  <2>1. pend # <<>> /\ used' = used
    BY <1>18 DEF Refuse
  <2>2. PICK n \in Nodes : n = Head(pend).node
    BY <2>1, OldestWrite
  <2>3. PICK data \in SUBSET Places : data = cache[n] /\ data \subseteq used
    BY DEF TypeOK, UsedPlaces
  <2>4. Answered(Head(pend), data)
    BY <1>18, <2>2, <2>3 DEF Refuse
  <2>5. Within(queue', used) /\ \A k \in DOMAIN pend' : pend'[k].place \in used'
    BY <2>1, <2>3, <2>4, AnsweredUsed
  <2> QED
    BY <1>18, <2>1, <2>5 DEF Refuse, LoadedObserved, UsedPlaces, list
<1>19. CASE Disconnect
  BY <1>19 DEF Disconnect, LoadedObserved, UsedPlaces, list
<1>13. ASSUME NEW n \in Nodes, Sync(n) PROVE LoadedObserved' /\ UsedPlaces'
  <2>1. Snapshot(n, server[n], pend) \in SUBSET Places
    BY SnapshotType DEF TypeOK
  <2>2. Snapshot(n, server[n], pend) \in SUBSET used
    <3>1. server[n] \in SUBSET used /\ \A k \in DOMAIN pend : pend[k].place \in used
      BY DEF UsedPlaces
    <3> QED
      BY <3>1, SnapshotBounds
  <2>3. Within(queue', used)
    BY <1>13, <2>1, <2>2, WithinQueue DEF Sync, TypeOK, UsedPlaces
  <2> QED
    BY <1>13, <2>3 DEF Sync, LoadedObserved, UsedPlaces, TypeOK, list
<1>14. ASSUME NEW n \in Nodes, Cancel(n) PROVE LoadedObserved' /\ UsedPlaces'
  BY <1>14 DEF Cancel, LoadedObserved, UsedPlaces, TypeOK, list
<1>15. ASSUME NEW n \in Nodes, NEW p \in Places, RemoteAdd(n, p)
       PROVE  LoadedObserved' /\ UsedPlaces'
  BY <1>15, WithinMore DEF RemoteAdd, LoadedObserved, UsedPlaces, TypeOK, list
<1>16. ASSUME NEW n \in Nodes, NEW p \in Places, RemoteRemove(n, p)
       PROVE  LoadedObserved' /\ UsedPlaces'
  BY <1>16 DEF RemoteRemove, LoadedObserved, UsedPlaces, TypeOK, list
<1>17. CASE UNCHANGED vars
  BY <1>17 DEF vars, LoadedObserved, UsedPlaces, database, list
<1> QED
  BY <1>1, <1>2, <1>3, <1>4, <1>5, <1>6, <1>7, <1>8, <1>9, <1>10, <1>11, <1>12, <1>13, <1>14,
     <1>15, <1>16, <1>17, <1>18, <1>19 DEF Next

-----------------------------------------------------------------------------
(* The list and the views.                                                 *)

\* A step that leaves queue, list and views alone.
LEMMA StillInStep ==
  ASSUME ViewsInStep, loaded' \subseteq loaded, queue' = queue, source' = source, places' = places,
         \A m \in loaded' : View(m)' = View(m)
  PROVE  ViewsInStep'
BY DEF ViewsInStep

\* The list observes a node again.
LEMMA ReturnInStep ==
  ASSUME TypeOK, NEW n \in Nodes, NEW v \in SUBSET Places, NEW q \in Seq(Event),
         queue' = Observed(q, n, v), loaded' = loaded, source' = source, places' = places,
         View(n)' = v,
         \A m \in loaded : InStep(q, m, View(m)', source, places)
  PROVE  ViewsInStep'
<1> SUFFICES ASSUME NEW m \in loaded PROVE InStep(queue', m, View(m)', source, places)
  BY DEF ViewsInStep
<1>1. m = n => View(m)' = v
  OBVIOUS
<1> QED
  BY <1>1, ObservedInStep

\* A local write shows in the queue.
LEMMA WriteInStep ==
  ASSUME TypeOK, LoadedObserved, UsedPlaces, ViewsInStep, NEW w \in Write,
         pend' = Append(pend, w), cache' = cache
  PROVE  /\ View(w.node)' = Snapshot(w.node, cache[w.node], Append(pend, w))
         /\ View(w.node)' \in SUBSET Places
         /\ AfterWrite(w) \in Seq(Event)
         /\ \A m \in loaded : InStep(AfterWrite(w), m, View(m)', source, places)
<1> DEFINE v == Snapshot(w.node, cache[w.node], Append(pend, w))
<1>1. w.node \in Nodes /\ w.place \in Places
  BY DEF Write
<1>2. View(w.node)' = v
  BY DEF View
<1>3. v \in SUBSET Places
  <2>1. Append(pend, w) \in Seq(Write) /\ cache[w.node] \in SUBSET Places
    BY <1>1 DEF TypeOK
  <2> QED
    BY <2>1, SnapshotType
<1>4. \A m \in loaded : m # w.node => View(m)' = View(m)
  BY SnapshotOther DEF View, TypeOK
<1>5. AfterWrite(w) = Changed(queue, w.node, v)
  BY DEF AfterWrite
<1> HIDE DEF v
<1>6. AfterWrite(w) \in Seq(Event)
  BY <1>1, <1>3, <1>5, ChangedType DEF TypeOK
<1>7. ASSUME NEW m \in loaded PROVE InStep(AfterWrite(w), m, View(m)', source, places)
  <2>1. InStep(AfterWrite(w), m, IF m = w.node THEN v ELSE View(m), source, places)
    BY <1>1, <1>3, <1>5, ChangedInStep
  <2>2. View(m)' = IF m = w.node THEN v ELSE View(m)
    BY <1>2, <1>4
  <2> QED
    BY <2>1, <2>2
<1> QED
  BY <1>2, <1>3, <1>6, <1>7 DEF v

\* The list takes the oldest event.
LEMMA DeliverInStep ==
  ASSUME TypeOK, ViewsInStep, DeliverValue
  PROVE  ViewsInStep'
<1> DEFINE n == Head(queue).node
           v == Head(queue).snapshot
<1>1. /\ queue \in Seq(Event) /\ queue # <<>> /\ queue' = Tail(queue)
      /\ Head(queue).kind = "value" /\ FetchPlaces(n, v)
      /\ loaded' = loaded /\ cache' = cache /\ pend' = pend
  BY DEF DeliverValue, TypeOK, database
<1>2. n \in Nodes /\ v \in SUBSET Places
  <2>1. Head(queue) \in Event
    BY <1>1
  <2> QED
    BY <1>1, <2>1 DEF Event
<1>3. IsValue(Head(queue), n) /\ \A m : m # n => ~IsValue(Head(queue), m)
  BY <1>1 DEF IsValue
<1> SUFFICES ASSUME NEW m \in loaded
             PROVE  InStep(Tail(queue), m, View(m), source', places')
  BY <1>1 DEF ViewsInStep, View
<1>4. InStep(queue, m, View(m), source, places)
  BY DEF ViewsInStep
<1>5. /\ LastShows(Tail(queue), m, View(m))
      /\ Quiet(Tail(queue), m) /\ ~IsValue(Head(queue), m) => Quiet(queue, m)
      /\ Quiet(Tail(queue), m) /\ IsValue(Head(queue), m) => Head(queue).snapshot = View(m)
  BY <1>1, <1>4, TailInStep DEF InStep
<1> SUFFICES ASSUME Quiet(Tail(queue), m), source' = m
             PROVE  Range(places') = View(m) \/ (m = Shared /\ View(m) = {})
  BY <1>5 DEF InStep
<1> HIDE DEF n, v
<1>6. CASE m = n
  <2>1. v = View(m)
    BY <1>3, <1>5, <1>6 DEF v
  <2>2. ASSUME NEW s \in Orders(v), Complete(n, s) PROVE Range(places') = View(m)
    BY <1>2, <2>1, <2>2, OrdersType DEF Complete
  <2>3. CASE v = {} /\ Complete(n, <<>>)
    BY <2>1, <2>3 DEF Complete, Range
  <2>4. CASE v = {} /\ n = Shared
    BY <1>6, <2>1, <2>4
  <2> QED
    BY <1>1, <2>2, <2>3, <2>4 DEF FetchPlaces
<1>7. CASE m # n
  <2>1. Quiet(queue, m)
    BY <1>3, <1>5, <1>7
  <2>2. source' = n \/ UNCHANGED list
    BY <1>1 DEF FetchPlaces, Complete
  <2>3. source = m /\ places' = places
    BY <1>7, <2>2 DEF list
  <2> QED
    BY <1>4, <2>1, <2>3 DEF InStep
<1> QED
  BY <1>6, <1>7

\* The answer to the oldest write shows in the queue.
LEMMA AnsweredInStep ==
  ASSUME TypeOK, LoadedObserved, ViewsInStep, pend # <<>>,
         NEW w \in Write, w = Head(pend), NEW data \in SUBSET Places, Answered(w, data),
         loaded' = loaded, source' = source, places' = places,
         \A m \in loaded : cache'[m] = IF m = w.node THEN data ELSE cache[m]
  PROVE  ViewsInStep'
<1> DEFINE v == Snapshot(w.node, data, Tail(pend))
           q == Changed(queue, w.node, v)
<1>1. pend \in Seq(Write) /\ pend' = Tail(pend) /\ queue' = Removed(w, q)
  BY DEF Answered, TypeOK
<1>2. w.node \in Nodes
  BY DEF Write
<1>3. ASSUME NEW m \in loaded PROVE View(m)' = IF m = w.node THEN v ELSE View(m)
  <2>1. CASE m = w.node
    BY <1>1, <2>1 DEF View
  <2>2. CASE m # w.node
    <3>1. Snapshot(m, cache[m], Tail(pend)) = Snapshot(m, cache[m], pend)
      BY <1>1, <2>2, SnapshotTailOther
    <3> QED
      BY <1>1, <2>2, <3>1 DEF View
  <2> QED
    BY <2>1, <2>2
<1>4. v \in SUBSET Places
  <2>1. Tail(pend) \in Seq(Write)
    BY <1>1
  <2> QED
    BY <2>1, SnapshotType
<1> HIDE DEF v
<1>5. q \in Seq(Event)
  BY <1>2, <1>4, ChangedType DEF TypeOK
<1>6. ASSUME NEW m \in loaded PROVE InStep(queue', m, View(m)', source, places)
  <2>1. InStep(q, m, IF m = w.node THEN v ELSE View(m), source, places)
    BY <1>2, <1>4, ChangedInStep
  <2>2. InStep(q, m, View(m)', source, places)
    BY <1>3, <2>1
  <2> HIDE DEF q
  <2> QED
    BY <1>1, <1>5, <2>2, RemovedInStep
<1> QED
  BY <1>6 DEF ViewsInStep

LEMMA ViewsStep ==
  ASSUME ListInv, [Next]_vars
  PROVE  ViewsInStep'
<1> USE DEF ListInv
<1>1. CASE Relaunch
  BY <1>1 DEF Relaunch, Launched, ViewsInStep
<1>2. CASE Layout \/ Appear
  BY <1>2, StillInStep DEF Layout, Appear, database, list, View
<1>3. CASE DeliverValue
  BY <1>3, DeliverInStep
<1>4. CASE DeliverRemoved
  <2> DEFINE n == NodeOf(user)
  <2>1. /\ queue \in Seq(Event) /\ queue # <<>> /\ Tail(queue) \in Seq(Event)
        /\ \A m : ~IsValue(Head(queue), m)
        /\ loaded' = loaded /\ cache' = cache /\ pend' = pend
        /\ source' = source /\ places' = places
    BY <1>4 DEF DeliverRemoved, TypeOK, IsValue, database, list
  <2>2. \A m : View(m)' = View(m)
    BY <2>1 DEF View
  <2>3. ASSUME NEW m \in loaded PROVE InStep(Tail(queue), m, View(m)', source, places)
    <3>1. InStep(queue, m, View(m), source, places)
      BY DEF ViewsInStep
    <3>2. /\ LastShows(Tail(queue), m, View(m))
          /\ Quiet(Tail(queue), m) => Quiet(queue, m)
      BY <2>1, <3>1, TailInStep DEF InStep
    <3> QED
      BY <2>2, <3>1, <3>2 DEF InStep
  <2>4. CASE Return(user, Tail(queue), View(n))
    <3>1. n \in Nodes
      BY NodeOfType DEF TypeOK
    <3>2. View(n) \in SUBSET Places
      BY <3>1, ViewType
    <3>3. queue' = Observed(Tail(queue), n, View(n))
      BY <2>4 DEF Return
    <3> QED
      BY <2>1, <2>2, <2>3, <3>1, <3>2, <3>3, ReturnInStep
  <2>5. CASE queue' = Tail(queue)
    BY <2>1, <2>3, <2>5 DEF ViewsInStep
  <2> QED
    BY <1>4, <2>4, <2>5 DEF DeliverRemoved
<1>5. ASSUME NEW i \in DOMAIN rows, DidSelectRow(i) PROVE ViewsInStep'
  BY <1>5, StillInStep DEF DidSelectRow, database, list, View
<1>6. CASE AddButton \/ OpenProfile \/ SignUp \/ SignInFailed \/ ForcedSignOut
  BY <1>6, StillInStep DEF AddButton, OpenProfile, SignUp, SignInFailed, ForcedSignOut, database,
                           list, View
<1>7. ASSUME NEW u \in Users, SignedIn(u) PROVE ViewsInStep'
  BY <1>7, StillInStep DEF SignedIn, database, list, View
<1>8. ASSUME NEW u \in Users \cup {Nobody}, Return(u, queue, View(NodeOf(u))),
             UNCHANGED <<database, list>>
      PROVE  ViewsInStep'
  <2> DEFINE n == NodeOf(u)
  <2>1. n \in Nodes
    BY NodeOfType
  <2>2. View(n) \in SUBSET Places
    BY <2>1, ViewType
  <2>3. /\ queue' = Observed(queue, n, View(n)) /\ loaded' = loaded
        /\ source' = source /\ places' = places /\ \A m : View(m)' = View(m)
    BY <1>8 DEF Return, database, list, View
  <2>4. \A m \in loaded : InStep(queue, m, View(m)', source, places)
    BY <2>3 DEF ViewsInStep
  <2> QED
    BY <2>1, <2>2, <2>3, <2>4, ReturnInStep DEF TypeOK
<1>9. CASE SignOut
  <2>1. NodeOf(Nobody) = Shared
    BY DEF NodeOf
  <2> QED
    BY <1>8, <1>9, <2>1 DEF SignOut
<1>10. CASE Back
  BY <1>8, <1>10 DEF Back, TypeOK
<1>11. ASSUME NEW p \in Places, Save(p) PROVE ViewsInStep'
  <2>1. PICK n \in Nodes : n = NodeOf(user)
    BY NodeOfType DEF TypeOK
  <2>2. PICK w \in Write : w = [op |-> "add", node |-> n, place |-> p, screen |-> 0]
    BY DEF Write
  <2> DEFINE v == Snapshot(n, cache[n], Append(pend, w))
  <2>3. /\ pend' = Append(pend, w) /\ cache' = cache /\ loaded' = loaded
        /\ source' = source /\ places' = places /\ queue' = Observed(AfterWrite(w), n, v)
    BY <1>11, <2>1, <2>2 DEF Save, Return, list
  <2>4. w.node = n
    BY <2>2
  <2>5. /\ View(w.node)' = Snapshot(w.node, cache[w.node], Append(pend, w))
        /\ View(w.node)' \in SUBSET Places
        /\ AfterWrite(w) \in Seq(Event)
        /\ \A m \in loaded : InStep(AfterWrite(w), m, View(m)', source, places)
    BY <2>3, WriteInStep
  <2>6. View(n)' = v /\ v \in SUBSET Places
    BY <2>4, <2>5
  <2> QED
    BY <2>3, <2>5, <2>6, ReturnInStep
<1>12. CASE DeletePlace
  <2> DEFINE n == NodeOf(user)
             w == [op |-> "remove", node |-> n, place |-> details.key, screen |-> details.serial]
  <2>1. n \in Nodes
    BY NodeOfType DEF TypeOK
  <2>2. details \in Details /\ details.key = details.place
    BY <1>12 DEF DeletePlace, TypeOK, KeysKnown
  <2>3. w \in Write
    BY <2>1, <2>2 DEF Write, Details
  <2>4. /\ pend' = Append(pend, w) /\ cache' = cache /\ loaded' = loaded
        /\ source' = source /\ places' = places /\ queue' = AfterWrite(w)
    BY <1>12 DEF DeletePlace, list
  <2> HIDE DEF w, n
  <2>5. \A m \in loaded : InStep(AfterWrite(w), m, View(m)', source, places)
    BY <2>3, <2>4, WriteInStep
  <2> QED
    BY <2>4, <2>5 DEF ViewsInStep
<1>13. CASE Ack
  <2>1. pend # <<>>
    BY <1>13 DEF Ack, TypeOK
  <2>2. PICK w \in Write : w = Head(pend)
    BY <2>1 DEF TypeOK
  <2>3. PICK data \in SUBSET Places : data = server[w.node]
    BY DEF TypeOK, Write
  <2>4. Answered(w, data) /\ loaded' = loaded /\ source' = source /\ places' = places
    BY <1>13, <2>2, <2>3 DEF Ack, list
  <2>5. \A m \in loaded : cache'[m] = IF m = w.node THEN data ELSE cache[m]
    BY <1>13, <2>2, <2>3 DEF Ack, TypeOK
  <2> QED
    BY <2>1, <2>2, <2>4, <2>5, AnsweredInStep
<1>14. CASE Refuse
  <2>1. pend # <<>>
    BY <1>14 DEF Refuse
  <2>2. PICK w \in Write : w = Head(pend)
    BY <2>1 DEF TypeOK
  <2>3. PICK data \in SUBSET Places : data = cache[w.node]
    BY DEF TypeOK, Write
  <2>4. /\ Answered(w, data) /\ loaded' = loaded /\ source' = source /\ places' = places
        /\ cache' = cache
    BY <1>14, <2>2, <2>3 DEF Refuse, list
  <2> QED
    BY <2>1, <2>2, <2>3, <2>4, AnsweredInStep
<1>19. CASE Apply \/ Disconnect
  BY <1>19, StillInStep DEF Apply, Disconnect, list, View
<1>15. ASSUME NEW n \in Nodes, Sync(n) PROVE ViewsInStep'
  <2> DEFINE v == Snapshot(n, server[n], pend)
  <2>1. /\ pend' = pend /\ loaded' = loaded \cup {n} /\ source' = source /\ places' = places
        /\ cache' = [cache EXCEPT ![n] = server[n]]
        /\ queue' = IF n \notin loaded THEN Post(queue, n, v) ELSE Changed(queue, n, v)
    BY <1>15 DEF Sync, list
  <2>2. v \in SUBSET Places /\ queue \in Seq(Event)
    BY SnapshotType DEF TypeOK
  <2>3. View(n)' = v /\ \A m \in Nodes : m # n => View(m)' = View(m)
    BY <2>1 DEF View, TypeOK
  <2> HIDE DEF v
  <2>4. CASE n \notin loaded
    <3> SUFFICES ASSUME NEW m \in loaded \cup {n}
                 PROVE  InStep(Post(queue, n, v), m, View(m)', source, places)
      BY <2>1, <2>4 DEF ViewsInStep
    <3>1. CASE m = n
      BY <2>2, <2>3, <3>1, PostShows
    <3>2. CASE m # n
      <4>1. InStep(queue, m, View(m), source, places) /\ m \in Nodes
        BY <3>2 DEF ViewsInStep, TypeOK
      <4>2. InStep(Post(queue, n, v), m, View(m), source, places)
        BY <2>2, <3>2, <4>1, PostOther
      <4> QED
        BY <2>3, <3>2, <4>1, <4>2
    <3> QED
      BY <3>1, <3>2
  <2>5. CASE n \in loaded
    <3> SUFFICES ASSUME NEW m \in loaded
                 PROVE  InStep(Changed(queue, n, v), m, View(m)', source, places)
      BY <2>1, <2>5 DEF ViewsInStep
    <3>1. InStep(Changed(queue, n, v), m, IF m = n THEN v ELSE View(m), source, places)
      BY <2>2, ChangedInStep
    <3>2. View(m)' = IF m = n THEN v ELSE View(m)
      BY <2>3 DEF TypeOK
    <3> QED
      BY <3>1, <3>2
  <2> QED
    BY <2>4, <2>5
<1>16. ASSUME NEW n \in Nodes, Cancel(n) PROVE ViewsInStep'
  <2>1. \A m \in loaded' : View(m)' = View(m)
    BY <1>16 DEF Cancel, View, TypeOK
  <2> QED
    BY <1>16, <2>1, StillInStep DEF Cancel, list
<1>17. ASSUME NEW n \in Nodes, NEW p \in Places, RemoteAdd(n, p) \/ RemoteRemove(n, p)
       PROVE  ViewsInStep'
  BY <1>17, StillInStep DEF RemoteAdd, RemoteRemove, list, View
<1>18. CASE UNCHANGED vars
  BY <1>18, StillInStep DEF vars, database, list, View
<1> QED
  BY <1>1, <1>2, <1>3, <1>4, <1>5, <1>6, <1>7, <1>9, <1>10, <1>11, <1>12, <1>13, <1>14, <1>15,
     <1>16, <1>17, <1>18, <1>19 DEF Next

-----------------------------------------------------------------------------

\* The inductive invariant of the list holds in every reachable state.
THEOREM ListInvariant == Spec => []ListInv
<1>1. Init => ListInv
  <2>1. Init => ViewsInStep
    BY DEF Init, ViewsInStep
  <2> QED
    BY <2>1, TypeInit, KeysInit, UsedInit DEF ListInv
<1>2. ListInv /\ [Next]_vars => ListInv'
  BY TypeStep, KeysStep, UsedStep, ViewsStep DEF ListInv
<1> QED
  BY <1>1, <1>2, PTL DEF Spec

\* TypeOK: the types of the list, the queue, the writes and the details
\* screen; a delete is only ever sent with the key of a place.
THEOREM ListTypeCorrect == Spec => []TypeOK
<1>1. ListInv => TypeOK
  BY DEF ListInv
<1> QED
  BY <1>1, ListInvariant, PTL

\* KeysKnown: goToPlaceDetails finds a key for every listed place, so the
\* details screen never holds the empty key on which child() raises.
THEOREM ListKeysKnown == Spec => []KeysKnown
<1>1. ListInv => KeysKnown
  BY DEF ListInv
<1> QED
  BY <1>1, ListInvariant, PTL

\* ListFresh: with no event left for its node the list shows the device's
\* view of it, whatever accounts, saves, deletes, refusals and lost connections
\* came before.
THEOREM ListIsFresh == Spec => []ListFresh
<1>1. ListInv => ListFresh
  <2> SUFFICES ASSUME ListInv, source \in loaded,
                      \A k \in DOMAIN queue : queue[k].kind = "value" => queue[k].node # source
               PROVE  Range(places) = View(source) \/ (source = Shared /\ View(Shared) = {})
    BY DEF ListFresh
  <2>1. InStep(queue, source, View(source), source, places)
    BY DEF ListInv, ViewsInStep
  <2>2. Quiet(queue, source)
    BY DEF Quiet, IsValue
  <2> QED
    BY <2>1, <2>2 DEF InStep
<1> QED
  BY <1>1, ListInvariant, PTL

-----------------------------------------------------------------------------
(* One life for each place.                                                *)

LEMMA SentNamed ==
  \A n : Sent(n) = Named("add", n, pend) /\ Sent(n)' = Named("add", n, pend')
BY DEF Sent, Named

\* The steps that leave the writes, the server and the ids alone.
LEMMA QuietLife ==
  ASSUME [Next]_vars
  PROVE  \/ UNCHANGED <<server, used, pend>>
         \/ Relaunch \/ DeletePlace \/ Apply \/ Ack \/ Refuse
         \/ \E p \in Places : Save(p)
         \/ \E n \in Nodes, p \in Places : RemoteAdd(n, p) \/ RemoteRemove(n, p)
<1>1. Layout \/ Appear \/ DeliverValue \/ DeliverRemoved \/ AddButton \/ OpenProfile \/ SignUp
        \/ SignInFailed \/ SignOut \/ ForcedSignOut \/ Back \/ Disconnect
      => UNCHANGED <<server, used, pend>>
  BY DEF Layout, Appear, DeliverValue, DeliverRemoved, AddButton, OpenProfile, SignUp, SignInFailed,
         SignOut, ForcedSignOut, Back, Disconnect, database
<1>2. \A i \in DOMAIN rows : DidSelectRow(i) => UNCHANGED <<server, used, pend>>
  BY DEF DidSelectRow, database
<1>3. \A u \in Users : SignedIn(u) => UNCHANGED <<server, used, pend>>
  BY DEF SignedIn, database
<1>4. \A n \in Nodes : Sync(n) \/ Cancel(n) => UNCHANGED <<server, used, pend>>
  BY DEF Sync, Cancel
<1>5. UNCHANGED vars => UNCHANGED <<server, used, pend>>
  BY DEF vars, database
<1> QED
  BY <1>1, <1>2, <1>3, <1>4, <1>5 DEF Next

\* A removal names a place that has been handed out.
LEMMA DeleteWrites ==
  ASSUME TypeOK, KeysKnown, UsedPlaces, DeletePlace
  PROVE  \E w \in Write : w.op = "remove" /\ pend' = Append(pend, w)
<1> DEFINE w == [op |-> "remove", node |-> NodeOf(user), place |-> details.key,
                 screen |-> details.serial]
<1>1. details \in Details /\ details.key = details.place
  BY DEF DeletePlace, TypeOK, KeysKnown
<1>2. w \in Write
  BY <1>1, NodeOfType DEF Write, Details, TypeOK
<1> QED
  BY <1>2 DEF DeletePlace

LEMMA SaveWrites ==
  ASSUME TypeOK, NEW p \in Places, Save(p)
  PROVE  \E w \in Write : /\ w.op = "add" /\ w.place = p /\ w.node \in Nodes
                         /\ pend' = Append(pend, w)
<1> DEFINE w == [op |-> "add", node |-> NodeOf(user), place |-> p, screen |-> 0]
<1>1. w \in Write /\ w.node \in Nodes
  BY NodeOfType DEF Write, TypeOK
<1> QED
  BY <1>1 DEF Save

\* The server stores a place that is on its way, or deletes one, or finds
\* nothing to delete.
LEMMA ApplyLives ==
  ASSUME TypeOK, Apply
  PROVE  [P!Next]_P!lives
<1>w. PICK w \in Write : w = pend[applied + 1] /\ applied + 1 \in DOMAIN pend
  BY DEF Apply, TypeOK
<1>n. PICK n \in Nodes, p \in Places : n = w.node /\ p = w.place
  BY DEF Write
<1>1. /\ pend' = pend /\ used' = used
      /\ server' = [server EXCEPT ![n] = IF w.op = "add" THEN @ \cup {p} ELSE @ \ {p}]
  BY <1>w, <1>n DEF Apply
<1>2. w.op \in {"add", "remove"}
  BY DEF Write
<1>3. [m \in Nodes |-> Sent(m)]' = [m \in Nodes |-> Sent(m)]
  BY <1>1 DEF Sent
<1>4. CASE w.op = "add"
  <2>1. p \in Sent(n)
    BY <1>w, <1>n, <1>4 DEF Sent
  <2>2. P!Store(n, p)
    BY <1>1, <1>3, <1>4, <2>1 DEF P!Store
  <2> QED
    BY <2>2 DEF P!Next
<1>5. CASE w.op = "remove"
  <2>1. server' = [server EXCEPT ![n] = @ \ {p}]
    BY <1>1, <1>5
  <2>2. CASE p \in server[n]
    <3>1. P!Delete(n, p)
      BY <1>1, <1>3, <2>1, <2>2 DEF P!Delete
    <3> QED
      BY <3>1 DEF P!Next
  <2>3. CASE p \notin server[n]
    <3>1. server' = server
      BY <2>1, <2>3 DEF TypeOK
    <3> QED
      BY <1>1, <1>3, <3>1 DEF P!lives
  <2> QED
    BY <2>2, <2>3
<1> QED
  BY <1>2, <1>4, <1>5

\* An answered write, and all writes of an app that ended, are on their way
\* no more.
LEMMA SettleLives ==
  ASSUME TypeOK, Ack \/ Refuse \/ Relaunch
  PROVE  P!Settle
<1>1. used' = used /\ server' = server
  BY DEF Ack, Refuse, Relaunch
<1>2. pend' \in Seq(Write) /\ \A n : Sent(n)' \subseteq Sent(n)
  <2>1. CASE Ack \/ Refuse
    <3>1. pend \in Seq(Write) /\ pend # <<>> /\ pend' = Tail(pend)
      BY <2>1 DEF Ack, Refuse, Answered, TypeOK
    <3> QED
      BY <3>1, SentNamed, NamedTail
  <2>2. CASE Relaunch
    <3>1. pend' = <<>>
      BY <2>2 DEF Relaunch, Launched
    <3> QED
      BY <3>1 DEF Sent
  <2> QED
    BY <2>1, <2>2
<1>3. ASSUME NEW n PROVE Sent(n)' \subseteq Places
  <2>1. \A k \in DOMAIN pend' : pend'[k] \in Write
    BY <1>2
  <2> QED
    BY <2>1 DEF Sent, Write
<1> QED
  BY <1>1, <1>2, <1>3 DEF P!Settle

LEMMA LifeStep ==
  ASSUME ListInv, [Next]_vars
  PROVE  [P!Next]_P!lives
<1> USE DEF ListInv
<1>1. CASE UNCHANGED <<server, used, pend>>
  BY <1>1 DEF P!lives, Sent
<1>2. CASE Ack \/ Refuse \/ Relaunch
  BY <1>2, SettleLives DEF P!Next
<1>3. CASE DeletePlace
  <2>1. PICK w \in Write : w.op = "remove" /\ pend' = Append(pend, w)
    BY <1>3, DeleteWrites
  <2>2. ASSUME NEW n PROVE Sent(n)' = Sent(n)
    <3>1. Named("add", n, Append(pend, w))
            = Named("add", n, pend) \cup (IF w.op = "add" /\ w.node = n THEN {w.place} ELSE {})
      BY NamedAppend DEF TypeOK
    <3> QED
      BY <2>1, <3>1, SentNamed
  <2> QED
    BY <1>3, <2>2 DEF DeletePlace, P!lives
<1>4. CASE Apply
  BY <1>4, ApplyLives
<1>5. ASSUME NEW p \in Places, Save(p) PROVE [P!Next]_P!lives
  <2>1. PICK w \in Write : /\ w.op = "add" /\ w.place = p /\ w.node \in Nodes
                           /\ pend' = Append(pend, w)
    BY <1>5, SaveWrites
  <2>2. \A n : Sent(n)' = Sent(n) \cup (IF n = w.node THEN {p} ELSE {})
    BY <2>1, SentNamed, NamedAppend DEF TypeOK
  <2>3. [n \in Nodes |-> Sent(n)]'
          = [[n \in Nodes |-> Sent(n)] EXCEPT ![w.node] = @ \cup {p}]
    BY <2>1, <2>2
  <2>4. P!Send(w.node, p)
    BY <1>5, <2>3 DEF Save, P!Send
  <2> QED
    BY <2>1, <2>4 DEF P!Next
<1>6. ASSUME NEW n \in Nodes, NEW p \in Places, RemoteAdd(n, p) PROVE [P!Next]_P!lives
  <2>1. P!Enter(n, p)
    BY <1>6 DEF RemoteAdd, P!Enter, Sent
  <2> QED
    BY <2>1 DEF P!Next
<1>7. ASSUME NEW n \in Nodes, NEW p \in Places, RemoteRemove(n, p) PROVE [P!Next]_P!lives
  <2>1. P!Delete(n, p)
    BY <1>7 DEF RemoteRemove, P!Delete, Sent
  <2> QED
    BY <2>1 DEF P!Next
<1> QED
  BY <1>1, <1>2, <1>3, <1>4, <1>5, <1>6, <1>7, QuietLife

LEMMA LifeInit == Init => P!Init
<1> SUFFICES ASSUME Init PROVE P!Init
  OBVIOUS
<1>1. \A n : Sent(n) = {}
  BY DEF Init, Sent
<1> QED
  BY <1>1 DEF Init, P!Init

\* ImplementsLife: save, deletePlace, their answers, lost connections, relaunches
\* and other devices take a place through one life under one node; what was
\* deleted comes back only through a save that still waits for its answer.
THEOREM PlacesImplementLife == Spec => ImplementsLife
<1>1. ListInv /\ [Next]_vars => [P!Next]_P!lives
  BY LifeStep
<1> QED
  BY <1>1, ListInvariant, LifeInit, PTL DEF Spec, ImplementsLife, P!Spec

\* A step of PlaceLife keeps the sets apart.
LEMMA ApartStep ==
  ASSUME TypeOK, P!Apart, [P!Next]_P!lives
  PROVE  P!Apart'
<1> DEFINE S == [n \in Nodes |-> Sent(n)]
<1>1. CASE UNCHANGED P!lives
  BY <1>1 DEF P!lives, P!Apart
<1>2. CASE P!Settle
  BY <1>2 DEF P!Settle, P!Apart
<1>3. ASSUME NEW n \in Nodes, NEW p \in Places,
             P!Send(n, p) \/ P!Store(n, p) \/ P!Enter(n, p) \/ P!Delete(n, p)
      PROVE  P!Apart'
  <2> HIDE DEF S
  <2>1. CASE P!Send(n, p)
    <3>1. S' = [S EXCEPT ![n] = @ \cup {p}]
      BY <2>1 DEF P!Send, S
    <3>2. \A m \in Nodes : Sent(m)' = IF m = n THEN Sent(m) \cup {p} ELSE Sent(m)
      BY <3>1 DEF S
    <3> QED
      BY <2>1, <3>2 DEF P!Send, P!Apart
  <2>2. CASE P!Store(n, p)
    <3>1. S' = S
      BY <2>2 DEF P!Store, S
    <3>2. \A m \in Nodes : Sent(m)' = Sent(m)
      BY <3>1 DEF S
    <3>3. \A m \in Nodes : server'[m] = IF m = n THEN server[m] \cup {p} ELSE server[m]
      BY <2>2 DEF P!Store, TypeOK
    <3>4. p \in Sent(n)
      BY <2>2 DEF P!Store
    <3> QED
      BY <2>2, <3>2, <3>3, <3>4 DEF P!Store, P!Apart
  <2>3. CASE P!Enter(n, p)
    BY <2>3 DEF P!Enter, P!Apart, TypeOK, S
  <2>4. CASE P!Delete(n, p)
    BY <2>4 DEF P!Delete, P!Apart, TypeOK, S
  <2> QED
    BY <1>3, <2>1, <2>2, <2>3, <2>4
<1> QED
  BY <1>1, <1>2, <1>3 DEF P!Next

\* No place is ever under, or on its way to, two nodes, although saves are sent
\* again after a lost connection and the account may change in between.
THEOREM PlacesApart == Spec => []P!Apart
<1>1. P!Init => P!Apart
  BY DEF P!Init, P!Apart
<1>2. ListInv => TypeOK
  BY DEF ListInv
<1>3. TypeOK /\ P!Apart /\ [P!Next]_P!lives => P!Apart'
  BY ApartStep
<1> QED
  BY <1>1, <1>2, <1>3, ListInvariant, PlacesImplementLife, PTL DEF ImplementsLife, P!Spec

=============================================================================
