------------------------- MODULE RegionCatalogProofs -------------------------
(***************************************************************************)
(* Proofs about RegionCatalog for every set of devices, every choice of    *)
(* accepted writers and every value of the bounds.                         *)
(***************************************************************************)
EXTENDS RegionCatalog, TLAPS

-----------------------------------------------------------------------------
(* The inductive invariant behind Contiguous and SnapshotsDecode.  A count *)
(* is read from a snapshot and used later, over server data that has moved *)
(* on; what makes the write land at or below the end of the server's array *)
(* is that everything a snapshot showed is still in the device's view, and *)
(* that the view consists of data the server has and of writes that it     *)
(* will apply before the new one.                                          *)

Filled(node, i) == node[i] # NoRegion

\* The server never loses a key.
CacheBehind ==
  \A c \in Clients, i \in Idx : Filled(cache[c], i) => Filled(server, i)

ViewIsArray == \A c \in Writers : \E n \in 0..Cap : IsArray(View(c), n)

\* regionsCount does not exceed the end of the view.
CountInView ==
  \A c \in Writers : count[c] # 0 => Filled(View(c), count[c] - 1)

EventsInView ==
  \A c \in Writers : \A k \in DOMAIN events[c], i \in Idx :
    Filled(events[c][k], i) => Filled(View(c), i)

\* The key below a pending write is known to the server, or written earlier.
PendOrdered ==
  \A c \in Writers : \A k \in DOMAIN pend[c] :
    LET m == pend[c][k].idx
    IN  m # 0 => \/ Filled(cache[c], m - 1)
                 \/ \E j \in DOMAIN pend[c] : j < k /\ pend[c][j].idx = m - 1

SentApplied ==
  \A c \in Clients : \A k \in DOMAIN pend[c] :
    k <= sent[c] => Filled(server, pend[c][k].idx)

CatalogInv ==
  /\ TypeOK
  /\ Contiguous
  /\ SnapshotsDecode
  /\ CacheBehind
  /\ ViewIsArray
  /\ CountInView
  /\ EventsInView
  /\ PendOrdered
  /\ SentApplied

-----------------------------------------------------------------------------

\* The snapshot a device assembles from a node and its writes is a node.
LEMMA OverlayType ==
  ASSUME NEW node \in Node, NEW p \in Seq(Write)
  PROVE  Overlay(node, p) \in Node
<1> SUFFICES ASSUME NEW i \in Idx
             PROVE  Overlay(node, p)[i] \in Cell
  BY DEF Overlay, Node
<1>1. CASE \E k \in DOMAIN p : LastWrite(p, i, k)
  <2> DEFINE k == CHOOSE k \in DOMAIN p : LastWrite(p, i, k)
  <2>1. k \in DOMAIN p
    BY <1>1
  <2>2. p[k] \in Write
    BY <2>1
  <2> QED
    BY <1>1, <2>2 DEF Overlay, Write, Cell
<1>2. CASE ~\E k \in DOMAIN p : LastWrite(p, i, k)
  BY <1>2 DEF Overlay, Node
<1> QED
  BY <1>1, <1>2

-----------------------------------------------------------------------------

\* The initial states are well typed.
LEMMA TypeInit == Init => TypeOK
<1> USE CatalogAssumption, NoRegionAssumption
<1> SUFFICES ASSUME Init PROVE TypeOK
  OBVIOUS
<1>1. server \in Node
  BY DEF Init, Node, Cell, RegionModel, Idx
<1>2. cache \in [Clients -> Node]
  BY DEF Init, Node, Cell, EmptyNode
<1> QED
  BY <1>1, <1>2 DEF Init, TypeOK, Links, Screens

\* Every step keeps the variables well typed.
LEMMA TypeStep == TypeOK /\ [Next]_vars => TypeOK'
<1> USE CatalogAssumption, NoRegionAssumption
<1> SUFFICES ASSUME TypeOK, [Next]_vars PROVE TypeOK'
  OBVIOUS
<1> USE DEF TypeOK
<1>0. ASSUME NEW c \in Clients PROVE View(c) \in Node
  BY OverlayType DEF View
<1>1. ASSUME NEW c \in Clients, NEW s \in {"create", "select"}, Open(c, s) PROVE TypeOK'
  BY <1>1, <1>0 DEF Open, Links, Screens
<1>2. ASSUME NEW c \in Clients, Leave(c) PROVE TypeOK'
  BY <1>2 DEF Leave, CloseScreen, Screens
<1>3. ASSUME NEW c \in Clients, DeliverCount(c) PROVE TypeOK'
  BY <1>3 DEF DeliverCount
<1>4. ASSUME NEW c \in Clients, DeliverRegions(c) PROVE TypeOK'
  <2>1. Head(events[c]) \in Node
    BY <1>4 DEF DeliverRegions
  <2>2. Processed(Head(events[c])) \subseteq RegionModel
    BY <2>1 DEF Processed, Node, Cell
  <2>3. regions' \in [Clients -> SUBSET RegionModel]
    BY <1>4, <2>2 DEF DeliverRegions
  <2>4. events' \in [Clients -> Seq(Node)] /\ heard' \in [Clients -> BOOLEAN]
    BY <1>4 DEF DeliverRegions
  <2> QED
    BY <1>4, <2>3, <2>4 DEF DeliverRegions
<1>5. ASSUME NEW c \in Clients, CreateRegion(c) PROVE TypeOK'
  <2>1. NewRegion(c) \in RegionModel
    BY DEF NewRegion, RegionModel
  <2>2. [idx |-> count[c], region |-> NewRegion(c), informed |-> heard[c]] \in Write
    BY <1>5, <2>1 DEF CreateRegion, Write, Idx
  <2>3. pend' \in [Clients -> Seq(Write)]
    BY <1>5, <2>2 DEF CreateRegion
  <2> QED
    BY <1>5, <2>3 DEF CreateRegion, CloseScreen, Screens
<1>6. ASSUME NEW c \in Clients, Sync(c) PROVE TypeOK'
  <2>1. Overlay(server, pend[c]) \in Node
    BY OverlayType
  <2>2. events' \in [Clients -> Seq(Node)]
    BY <1>6, <2>1 DEF Sync, Raise
  <2> QED
    BY <1>6, <2>2 DEF Sync, Links
<1>7. ASSUME NEW c \in Clients, Apply(c) PROVE TypeOK'
  <2>1. pend[c][sent[c] + 1] \in Write
    BY <1>7 DEF Apply
  <2>2. server' \in Node
    BY <1>7, <2>1 DEF Apply, Write, Node, Cell
  <2> QED
    BY <1>7, <2>2 DEF Apply
<1>8. ASSUME NEW c \in Clients, Ack(c) PROVE TypeOK'
  <2>1. Tail(pend[c]) \in Seq(Write) /\ Len(Tail(pend[c])) = Len(pend[c]) - 1
    <3>1. Len(pend[c]) > 0 /\ pend[c] \in Seq(Write)
      <4>1. sent[c] \in Nat /\ sent[c] > 0 /\ pend[c] \in Seq(Write)
        BY <1>8 DEF Ack
      <4>2. sent[c] <= IF c \in Writers THEN Len(pend[c]) ELSE 0
        OBVIOUS
      <4>3. CASE c \in Writers
        BY <4>1, <4>2, <4>3
      <4>4. CASE c \notin Writers
        BY <4>1, <4>2, <4>4
      <4> QED
        BY <4>3, <4>4
    <3> QED
      BY <3>1
  <2>2. Overlay(server, Tail(pend[c])) \in Node
    BY <2>1, OverlayType
  <2>3. events' \in [Clients -> Seq(Node)]
    BY <1>8, <2>2 DEF Ack, Raise
  <2> QED
    BY <1>8, <2>1, <2>3 DEF Ack, Links
<1>9. ASSUME NEW c \in Clients, Reject(c) PROVE TypeOK'
  <2>1. Tail(pend[c]) \in Seq(Write) /\ Len(Tail(pend[c])) = Len(pend[c]) - 1
    BY <1>9 DEF Reject
  <2>2. Overlay(cache[c], Tail(pend[c])) \in Node
    BY <2>1, OverlayType
  <2>3. events' \in [Clients -> Seq(Node)]
    BY <1>9, <2>2 DEF Reject, Raise
  <2> QED
    BY <1>9, <2>1, <2>3 DEF Reject
<1>10. ASSUME NEW c \in Clients, Disconnect(c) PROVE TypeOK'
  BY <1>10 DEF Disconnect
<1>11. ASSUME NEW c \in Clients, Restart(c) PROVE TypeOK'
  <2>1. EmptyNode \in Node
    BY DEF EmptyNode, Node, Cell
  <2> QED
    BY <1>11, <2>1 DEF Restart, CloseScreen, Links, Screens
<1>12. ASSUME NEW i \in Idx, Approve(i) PROVE TypeOK'
  <2>1. server[i] \in RegionModel
    BY <1>12 DEF Approve, Node, Cell
  <2>2. [server[i] EXCEPT !.isProcessed = TRUE] \in RegionModel
    BY <2>1 DEF RegionModel
  <2>3. server' = [server EXCEPT ![i] = [server[i] EXCEPT !.isProcessed = TRUE]]
    BY <1>12 DEF Approve
  <2>4. server' \in Node
    BY <2>2, <2>3 DEF Node, Cell
  <2> QED
    BY <1>12, <2>4 DEF Approve, device
<1>13. CASE UNCHANGED vars
  BY <1>13 DEF vars, device
<1> QED
  BY <1>1, <1>2, <1>3, <1>4, <1>5, <1>6, <1>7, <1>8, <1>9, <1>10, <1>11, <1>12, <1>13 DEF Next

\* TypeOK: the type invariant of the catalogue holds in every reachable state.
THEOREM TypeCorrect == Spec => []TypeOK
  BY TypeInit, TypeStep, PTL DEF Spec

-----------------------------------------------------------------------------
(* What is filled in a snapshot: the filled cells of the node and those    *)
(* with a last write.                                                      *)

Written(p, i) == \E k \in DOMAIN p : LastWrite(p, i, k)

\* A cell of a snapshot is filled by the node or by a write.
LEMMA OverlayFilled ==
  ASSUME NEW node \in Node, NEW p \in Seq(Write), NEW i \in Idx
  PROVE  Filled(Overlay(node, p), i) <=> Filled(node, i) \/ Written(p, i)
<1>1. CASE Written(p, i)
  <2> DEFINE k == CHOOSE k \in DOMAIN p : LastWrite(p, i, k)
  <2>1. k \in DOMAIN p
    BY <1>1 DEF Written
  <2>2. p[k] \in Write
    BY <2>1
  <2>3. p[k].region # NoRegion
    BY <2>2, NoRegionAssumption DEF Write
  <2> QED
    BY <1>1, <2>3 DEF Overlay, Written, Filled
<1>2. CASE ~Written(p, i)
  BY <1>2 DEF Overlay, Written, Filled
<1> QED
  BY <1>1, <1>2

\* A new write fills its own cell and no other.
LEMMA WrittenAppend ==
  ASSUME NEW p \in Seq(Write), NEW w \in Write, NEW i \in Idx
  PROVE  Written(Append(p, w), i) <=> i = w.idx \/ Written(p, i)
<1> DEFINE q == Append(p, w)
<1>1. /\ DOMAIN p = 1..Len(p) /\ Len(p) \in Nat
      /\ DOMAIN q = 1..(Len(p) + 1)
      /\ q[Len(p) + 1] = w
      /\ \A k \in DOMAIN p : q[k] = p[k]
  OBVIOUS
<1> HIDE DEF q
<1>2. CASE i = w.idx
  <2>1. LastWrite(q, i, Len(p) + 1)
    BY <1>1, <1>2 DEF LastWrite
  <2> QED
    BY <1>1, <1>2, <2>1 DEF Written, q
<1>3. CASE i # w.idx
  <2>1. ASSUME NEW k \in DOMAIN p PROVE LastWrite(q, i, k) <=> LastWrite(p, i, k)
    BY <1>1, <1>3 DEF LastWrite
  <2>2. ~LastWrite(q, i, Len(p) + 1)
    BY <1>1, <1>3 DEF LastWrite
  <2>3. \A k \in DOMAIN q : k \in DOMAIN p \/ k = Len(p) + 1
    BY <1>1
  <2>4. DOMAIN p \subseteq DOMAIN q
    BY <1>1
  <2> QED
    BY <1>3, <2>1, <2>2, <2>3, <2>4 DEF Written, q
<1> QED
  BY <1>2, <1>3

\* Dropping the oldest write can only empty its own cell.
LEMMA WrittenTail ==
  ASSUME NEW p \in Seq(Write), p # <<>>, NEW i \in Idx
  PROVE  /\ Written(Tail(p), i) => Written(p, i)
         /\ Written(p, i) => i = p[1].idx \/ Written(Tail(p), i)
<1> DEFINE q == Tail(p)
<1>1. /\ DOMAIN p = 1..Len(p) /\ Len(p) \in Nat \ {0}
      /\ DOMAIN q = 1..(Len(p) - 1)
      /\ \A k \in DOMAIN q : q[k] = p[k + 1]
  OBVIOUS
<1> HIDE DEF q
<1>2. ASSUME NEW k \in DOMAIN q PROVE LastWrite(q, i, k) <=> LastWrite(p, i, k + 1)
  <2>1. ASSUME LastWrite(q, i, k), NEW l \in DOMAIN p, l > k + 1 PROVE p[l].idx # i
    <3>1. l - 1 \in DOMAIN q /\ l - 1 > k /\ q[l - 1] = p[l]
      BY <1>1, <2>1
    <3> QED
      BY <2>1, <3>1 DEF LastWrite
  <2>2. ASSUME LastWrite(p, i, k + 1), NEW l \in DOMAIN q, l > k PROVE q[l].idx # i
    <3>1. l + 1 \in DOMAIN p /\ l + 1 > k + 1 /\ q[l] = p[l + 1]
      BY <1>1, <2>2
    <3> QED
      BY <2>2, <3>1 DEF LastWrite
  <2> QED
    BY <1>1, <2>1, <2>2 DEF LastWrite
<1>3. Written(q, i) => Written(p, i)
  <2> SUFFICES ASSUME Written(q, i) PROVE Written(p, i)
    OBVIOUS
  <2>1. PICK k \in DOMAIN q : LastWrite(q, i, k)
    BY DEF Written
  <2>2. k + 1 \in DOMAIN p
    BY <1>1
  <2> QED
    BY <1>2, <2>1, <2>2 DEF Written
<1>4. Written(p, i) => i = p[1].idx \/ Written(q, i)
  <2> SUFFICES ASSUME Written(p, i), i # p[1].idx PROVE Written(q, i)
    OBVIOUS
  <2>1. PICK k \in DOMAIN p : LastWrite(p, i, k)
    BY DEF Written
  <2>2. k # 1
    BY <2>1 DEF LastWrite
  <2>3. k - 1 \in DOMAIN q /\ (k - 1) + 1 = k
    BY <1>1, <2>2
  <2> QED
    BY <1>2, <2>1, <2>3 DEF Written
<1> QED
  BY <1>3, <1>4 DEF q

-----------------------------------------------------------------------------
(* Facts shared by the steps.  ViewGrows: what a writer sees only grows.   *)

ViewGrows == \A d \in Writers, i \in Idx : Filled(View(d), i) => Filled(View(d)', i)

\* The queued snapshots stay readable and within the view when the view
\* grows and only the new view is queued.
LEMMA EventsKept ==
  ASSUME SnapshotsDecode, EventsInView, ViewIsArray', ViewGrows,
         \A d \in Writers : \A k \in DOMAIN events'[d] :
            \/ events'[d][k] = View(d)'
            \/ \E l \in DOMAIN events[d] : events'[d][k] = events[d][l]
  PROVE  SnapshotsDecode' /\ EventsInView'
<1> SUFFICES ASSUME NEW d \in Writers, NEW k \in DOMAIN events'[d]
             PROVE  /\ \E n \in 0..Cap : IsArray(events'[d][k], n)
                    /\ \A i \in Idx : Filled(events'[d][k], i) => Filled(View(d)', i)
  BY DEF SnapshotsDecode, EventsInView
<1>1. CASE events'[d][k] = View(d)'
  BY <1>1 DEF ViewIsArray
<1>2. CASE \E l \in DOMAIN events[d] : events'[d][k] = events[d][l]
  BY <1>2 DEF SnapshotsDecode, EventsInView, ViewGrows
<1> QED
  BY <1>1, <1>2

\* Taking the oldest event leaves events that were queued before.
LEMMA TailFromEvents ==
  ASSUME TypeOK, NEW c \in Clients, events[c] # <<>>,
         events' = [events EXCEPT ![c] = Tail(@)]
  PROVE  \A d \in Clients : \A k \in DOMAIN events'[d] :
            \E l \in DOMAIN events[d] : events'[d][k] = events[d][l]
<1> SUFFICES ASSUME NEW d \in Clients, NEW k \in DOMAIN events'[d]
             PROVE  \E l \in DOMAIN events[d] : events'[d][k] = events[d][l]
  OBVIOUS
<1>1. events[c] \in Seq(Node) /\ events \in [Clients -> Seq(Node)]
  BY DEF TypeOK
<1>2. CASE d # c
  BY <1>1, <1>2
<1>3. CASE d = c
  <2>1. events'[c] = Tail(events[c])
    BY <1>1
  <2>2. k + 1 \in DOMAIN events[c] /\ events'[c][k] = events[c][k + 1]
    BY <1>1, <1>3, <2>1
  <2> QED
    BY <1>3, <2>2
<1> QED
  BY <1>2, <1>3

\* A count that is kept or reset stays within a view that grows.
LEMMA CountKept ==
  ASSUME TypeOK, CountInView, ViewGrows,
         \A d \in Writers : count'[d] = count[d] \/ count'[d] = 0
  PROVE  CountInView'
<1> SUFFICES ASSUME NEW d \in Writers, count'[d] # 0
             PROVE  Filled(View(d)', count'[d] - 1)
  BY DEF CountInView
<1>1. count'[d] = count[d] /\ count[d] \in 0..Cap /\ count[d] # 0
  BY CatalogAssumption DEF TypeOK
<1>2. count[d] - 1 \in Idx
  BY <1>1, CatalogAssumption DEF Idx
<1> QED
  BY <1>1, <1>2 DEF CountInView, ViewGrows

\* A step that leaves the database client alone.
LEMMA QuietStep ==
  ASSUME CatalogInv, UNCHANGED <<server, cache, pend, sent>>
  PROVE  /\ Contiguous' /\ CacheBehind' /\ ViewIsArray' /\ PendOrdered' /\ SentApplied'
         /\ ViewGrows
         /\ \A d \in Clients : View(d)' = View(d)
<1>1. \A d : View(d)' = View(d)
  BY DEF View
<1>2. Contiguous' /\ CacheBehind' /\ PendOrdered' /\ SentApplied'
  BY DEF CatalogInv, Contiguous, CacheBehind, PendOrdered, SentApplied
<1>3. ViewIsArray' /\ ViewGrows
  BY <1>1 DEF CatalogInv, ViewIsArray, ViewGrows
<1> QED
  BY <1>1, <1>2, <1>3

\* The events after new data has come in: those queued before, and the view.
LEMMA RaiseFromEvents ==
  ASSUME TypeOK, NEW c \in Clients, NEW node,
         node = View(c)', events' = [events EXCEPT ![c] = Raise(c, node)]
  PROVE  \A d \in Clients : \A k \in DOMAIN events'[d] :
            \/ events'[d][k] = View(d)'
            \/ \E l \in DOMAIN events[d] : events'[d][k] = events[d][l]
<1> SUFFICES ASSUME NEW d \in Clients, NEW k \in DOMAIN events'[d]
             PROVE  \/ events'[d][k] = View(d)'
                    \/ \E l \in DOMAIN events[d] : events'[d][k] = events[d][l]
  OBVIOUS
<1>1. events \in [Clients -> Seq(Node)] /\ events[c] \in Seq(Node)
  BY DEF TypeOK
<1>2. CASE events'[d] = events[d]
  BY <1>2
<1>3. CASE events'[d] # events[d]
  <2>1. d = c
    BY <1>1, <1>3
  <2>2. events'[c] = Append(events[c], node)
    BY <1>1, <1>3, <2>1 DEF Raise
  <2>3. CASE k = Len(events[c]) + 1
    BY <1>1, <2>1, <2>2, <2>3
  <2>4. CASE k # Len(events[c]) + 1
    BY <1>1, <2>1, <2>2, <2>4
  <2> QED
    BY <2>3, <2>4
<1> QED
  BY <1>2, <1>3

\* Joining two arrays gives an array.
LEMMA ArrayUnion ==
  ASSUME NEW f, NEW g, NEW h,
         \E n \in 0..Cap : IsArray(f, n), \E n \in 0..Cap : IsArray(g, n),
         \A i \in Idx : Filled(h, i) <=> Filled(f, i) \/ Filled(g, i)
  PROVE  \E n \in 0..Cap : IsArray(h, n)
<1>1. PICK m \in 0..Cap : IsArray(f, m)
  OBVIOUS
<1>2. PICK n \in 0..Cap : IsArray(g, n)
  OBVIOUS
<1>3. IsArray(h, IF m < n THEN n ELSE m)
  BY <1>1, <1>2, CatalogAssumption DEF IsArray, Filled, Idx
<1> QED
  BY <1>3

\* Filling the cell after a filled one, or the first, extends an array.
LEMMA ArrayExtend ==
  ASSUME NEW f, NEW h, NEW m \in Idx,
         \E n \in 0..Cap : IsArray(f, n),
         m # 0 => Filled(f, m - 1),
         \A i \in Idx : Filled(h, i) <=> i = m \/ Filled(f, i)
  PROVE  \E n \in 0..Cap : IsArray(h, n)
<1>1. PICK n \in 0..Cap : IsArray(f, n)
  OBVIOUS
<1>2. m <= n
  BY <1>1, CatalogAssumption DEF IsArray, Filled, Idx
<1>3. IsArray(h, IF m < n THEN n ELSE m + 1)
  BY <1>1, <1>2, CatalogAssumption DEF IsArray, Filled, Idx
<1>4. (IF m < n THEN n ELSE m + 1) \in 0..Cap
  BY CatalogAssumption DEF Idx
<1> QED
  BY <1>3, <1>4

\* A device that receives the server's data, and whose writes still cover
\* what they covered beyond it, sees the union of the two.
LEMMA CatchUp ==
  ASSUME CatalogInv, NEW c \in Clients, NEW q \in Seq(Write),
         server' = server,
         cache' = [cache EXCEPT ![c] = server],
         pend' = [pend EXCEPT ![c] = q],
         \A i \in Idx : Written(q, i) => Written(pend[c], i),
         \A i \in Idx : Written(pend[c], i) => Filled(server, i) \/ Written(q, i)
  PROVE  /\ View(c)' = Overlay(server, q)
         /\ Contiguous' /\ CacheBehind' /\ ViewIsArray' /\ ViewGrows
<1>0. TypeOK /\ server \in Node /\ cache[c] \in Node /\ pend[c] \in Seq(Write)
  BY DEF CatalogInv, TypeOK
<1>1. View(c)' = Overlay(server, q)
  BY <1>0 DEF View, TypeOK
<1>2. Contiguous'
  BY DEF CatalogInv, Contiguous
<1>3. CacheBehind'
  BY <1>0 DEF CatalogInv, CacheBehind, TypeOK
<1>4. ASSUME NEW i \in Idx
      PROVE  Filled(View(c)', i) <=> Filled(server, i) \/ Filled(View(c), i)
  <2>1. Filled(View(c)', i) <=> Filled(server, i) \/ Written(q, i)
    BY <1>0, <1>1, OverlayFilled
  <2>2. Filled(View(c), i) <=> Filled(cache[c], i) \/ Written(pend[c], i)
    BY <1>0, OverlayFilled DEF View
  <2>3. Filled(cache[c], i) => Filled(server, i)
    BY DEF CatalogInv, CacheBehind
  <2> QED
    BY <2>1, <2>2, <2>3
<1>5. ASSUME NEW d \in Clients, d # c PROVE View(d)' = View(d)
  BY <1>0, <1>5 DEF View, TypeOK
<1>6. ViewGrows
  BY <1>4, <1>5, CatalogAssumption DEF ViewGrows
<1>7. ViewIsArray'
  <2> SUFFICES ASSUME NEW d \in Writers PROVE \E n \in 0..Cap : IsArray(View(d)', n)
    BY DEF ViewIsArray
  <2>1. \E n \in 0..Cap : IsArray(View(d), n)
    BY DEF CatalogInv, ViewIsArray
  <2>2. CASE d = c
    <3>1. \E n \in 0..Cap : IsArray(server, n)
      BY DEF CatalogInv, Contiguous
    <3> QED
      BY <1>4, <2>1, <2>2, <3>1, ArrayUnion
  <2>3. CASE d # c
    BY <1>5, <2>1, <2>3, CatalogAssumption
  <2> QED
    BY <2>2, <2>3
<1> QED
  BY <1>1, <1>2, <1>3, <1>6, <1>7

-----------------------------------------------------------------------------

\* The initial states satisfy the inductive invariant.
LEMMA CatalogInit == Init => CatalogInv
<1> SUFFICES ASSUME Init PROVE CatalogInv
  OBVIOUS
<1> USE CatalogAssumption, NoRegionAssumption
<1>1. TypeOK
  BY TypeInit
<1>2. Contiguous
  <2>1. PICK n \in Seeds, done \in BOOLEAN :
          server = [i \in Idx |-> IF i < n
                      THEN [id |-> 0, author |-> Operator, isProcessed |-> done]
                      ELSE NoRegion]
    BY DEF Init
  <2>2. [id |-> 0, author |-> Operator, isProcessed |-> done] # NoRegion
    BY DEF RegionModel
  <2>3. IsArray(server, n) /\ n \in 0..Cap
    BY <2>1, <2>2 DEF IsArray
  <2> QED
    BY <2>3 DEF Contiguous
<1>3. ASSUME NEW c \in Clients PROVE View(c) = EmptyNode
  BY DEF View, Overlay, Init, EmptyNode
<1>4. ViewIsArray
  <2>1. IsArray(EmptyNode, 0)
    BY DEF IsArray, EmptyNode, Idx
  <2>2. \A c \in Writers : View(c) = EmptyNode
    BY <1>3
  <2>3. 0 \in 0..Cap
    OBVIOUS
  <2> QED
    BY <2>1, <2>2, <2>3 DEF ViewIsArray
<1>5. SnapshotsDecode /\ CacheBehind /\ CountInView /\ EventsInView /\ PendOrdered /\ SentApplied
  BY DEF Init, SnapshotsDecode, CacheBehind, CountInView, EventsInView, PendOrdered, SentApplied,
         EmptyNode, Filled
<1> QED
  BY <1>1, <1>2, <1>4, <1>5 DEF CatalogInv

\* Every step preserves the inductive invariant.
LEMMA CatalogStep == CatalogInv /\ [Next]_vars => CatalogInv'
<1> SUFFICES ASSUME CatalogInv, [Next]_vars PROVE CatalogInv'
  OBVIOUS
<1> USE CatalogAssumption
<1>t. TypeOK /\ TypeOK'
  BY TypeStep DEF CatalogInv
<1>1. ASSUME NEW c \in Clients, NEW s \in {"create", "select"}, Open(c, s) PROVE CatalogInv'
  <2>1. UNCHANGED <<server, cache, pend, sent>> /\ count' = count
    BY <1>1 DEF Open
  <2>2. \A d \in Writers : \A k \in DOMAIN events'[d] :
            \/ events'[d][k] = View(d)'
            \/ \E l \in DOMAIN events[d] : events'[d][k] = events[d][l]
    <3> SUFFICES ASSUME NEW d \in Writers, NEW k \in DOMAIN events'[d]
                 PROVE  \/ events'[d][k] = View(d)'
                        \/ \E l \in DOMAIN events[d] : events'[d][k] = events[d][l]
      OBVIOUS
    <3>1. CASE d # c
      BY <1>1, <1>t, <3>1 DEF Open, TypeOK
    <3>2. CASE d = c
      <4>1. events'[c] = <<View(c)>> \/ events'[c] = <<>>
        BY <1>1, <1>t DEF Open, TypeOK
      <4>2. events'[c] = <<View(c)>> /\ k = 1
        BY <3>2, <4>1
      <4> QED
        BY <3>2, <4>2, <2>1, QuietStep
    <3> QED
      BY <3>1, <3>2
  <2> QED
    BY <1>t, <2>1, <2>2, QuietStep, EventsKept, CountKept DEF CatalogInv
<1>2. ASSUME NEW c \in Clients, Leave(c) PROVE CatalogInv'
  <2>1. UNCHANGED <<server, cache, pend, sent>>
    BY <1>2 DEF Leave
  <2>2. \A d \in Writers : count'[d] = count[d] \/ count'[d] = 0
    BY <1>2, <1>t DEF Leave, CloseScreen, TypeOK
  <2>3. \A d \in Writers : \A k \in DOMAIN events'[d] :
            \/ events'[d][k] = View(d)'
            \/ \E l \in DOMAIN events[d] : events'[d][k] = events[d][l]
    BY <1>2, <1>t DEF Leave, CloseScreen, TypeOK
  <2> QED
    BY <1>t, <2>1, <2>2, <2>3, QuietStep, EventsKept, CountKept DEF CatalogInv
<1>3. ASSUME NEW c \in Clients, DeliverCount(c) PROVE CatalogInv'
  <2>1. UNCHANGED <<server, cache, pend, sent>>
    BY <1>3 DEF DeliverCount
  <2>2. events[c] \in Seq(Node) /\ events[c] # <<>> /\ events' = [events EXCEPT ![c] = Tail(@)]
    BY <1>3, <1>t DEF DeliverCount, TypeOK
  <2>3. \A d \in Writers : \A k \in DOMAIN events'[d] :
            \/ events'[d][k] = View(d)'
            \/ \E l \in DOMAIN events[d] : events'[d][k] = events[d][l]
    BY <2>2, <1>t, TailFromEvents
  <2>4. CountInView'
    <3> SUFFICES ASSUME NEW d \in Writers, count'[d] # 0
                 PROVE  Filled(View(d)', count'[d] - 1)
      BY DEF CountInView
    <3>1. View(d)' = View(d)
      BY <2>1, QuietStep
    <3>2. CASE count'[d] = count[d]
      BY <3>1, <3>2 DEF CatalogInv, CountInView
    <3>3. CASE count'[d] # count[d]
      <4>1. d = c
        BY <1>3, <1>t, <3>3 DEF DeliverCount, TypeOK
      <4>2. PICK n \in 1..Cap : IsArray(Head(events[c]), n) /\ count'[c] = n
        BY <1>3, <1>t, <3>3, <4>1 DEF DeliverCount, TypeOK
      <4>3. n - 1 \in Idx /\ Filled(Head(events[c]), n - 1)
        BY <4>2 DEF IsArray, Idx, Filled
      <4>4. 1 \in DOMAIN events[c] /\ Head(events[c]) = events[c][1]
        BY <2>2
      <4>5. Filled(View(c), n - 1)
        BY <4>1, <4>3, <4>4 DEF CatalogInv, EventsInView
      <4> QED
        BY <3>1, <4>1, <4>2, <4>5
    <3> QED
      BY <3>2, <3>3
  <2> QED
    BY <1>t, <2>1, <2>3, <2>4, QuietStep, EventsKept DEF CatalogInv
<1>4. ASSUME NEW c \in Clients, DeliverRegions(c) PROVE CatalogInv'
  <2>1. UNCHANGED <<server, cache, pend, sent>> /\ count' = count
    BY <1>4 DEF DeliverRegions
  <2>2. events[c] \in Seq(Node) /\ events[c] # <<>> /\ events' = [events EXCEPT ![c] = Tail(@)]
    BY <1>4, <1>t DEF DeliverRegions, TypeOK
  <2>3. \A d \in Writers : \A k \in DOMAIN events'[d] :
            \/ events'[d][k] = View(d)'
            \/ \E l \in DOMAIN events[d] : events'[d][k] = events[d][l]
    BY <2>2, <1>t, TailFromEvents
  <2> QED
    BY <1>t, <2>1, <2>3, QuietStep, EventsKept, CountKept DEF CatalogInv
<1>5. ASSUME NEW c \in Clients, Sync(c) PROVE CatalogInv'
  <2>1. /\ UNCHANGED <<server, pend, sent, count>>
        /\ cache' = [cache EXCEPT ![c] = server]
        /\ pend[c] \in Seq(Write) /\ pend' = [pend EXCEPT ![c] = pend[c]]
    BY <1>5, <1>t DEF Sync, TypeOK
  <2>2. /\ View(c)' = Overlay(server, pend[c])
        /\ Contiguous' /\ CacheBehind' /\ ViewIsArray' /\ ViewGrows
    BY <2>1, CatchUp
  <2>3. events' = [events EXCEPT ![c] = Raise(c, Overlay(server, pend[c]))]
    BY <1>5 DEF Sync
  <2>4. SnapshotsDecode' /\ EventsInView'
    BY <1>t, <2>2, <2>3, RaiseFromEvents, EventsKept DEF CatalogInv
  <2>5. CountInView'
    BY <1>t, <2>1, <2>2, CountKept DEF CatalogInv
  <2>6. PendOrdered'
    <3> SUFFICES ASSUME NEW d \in Writers, NEW k \in DOMAIN pend[d], pend[d][k].idx # 0
                 PROVE  \/ Filled(cache'[d], pend[d][k].idx - 1)
                        \/ \E j \in DOMAIN pend[d] : j < k /\ pend[d][j].idx = pend[d][k].idx - 1
      BY <2>1 DEF PendOrdered
    <3>1. pend[d][k].idx - 1 \in Idx
      <4>1. pend[d] \in Seq(Write)
        BY <1>t DEF TypeOK
      <4>2. pend[d][k] \in Write
        BY <4>1
      <4> QED
        BY <4>2 DEF Write, Idx
    <3>2. Filled(cache[d], pend[d][k].idx - 1) => Filled(cache'[d], pend[d][k].idx - 1)
      BY <1>t, <2>1, <3>1 DEF CatalogInv, CacheBehind, TypeOK
    <3> QED
      BY <3>2 DEF CatalogInv, PendOrdered
  <2>7. SentApplied'
    BY <2>1 DEF CatalogInv, SentApplied
  <2> QED
    BY <1>t, <2>2, <2>4, <2>5, <2>6, <2>7 DEF CatalogInv
<1>6. ASSUME NEW c \in Clients, Ack(c) PROVE CatalogInv'
  <2> DEFINE p == pend[c]
             q == Tail(pend[c])
  <2>1. /\ UNCHANGED <<server, count>>
        /\ cache' = [cache EXCEPT ![c] = server]
        /\ pend' = [pend EXCEPT ![c] = q]
        /\ sent' = [sent EXCEPT ![c] = sent[c] - 1]
        /\ events' = [events EXCEPT ![c] = Raise(c, Overlay(server, q))]
    BY <1>6 DEF Ack
  <2>2. sent[c] \in Nat \ {0} /\ sent[c] <= IF c \in Writers THEN Len(p) ELSE 0
    BY <1>6, <1>t DEF Ack, TypeOK
  <2>3. c \in Writers /\ p \in Seq(Write) /\ Len(p) > 0
    <3>1. p \in Seq(Write)
      BY <1>t DEF TypeOK
    <3>2. c \in Writers
      BY <2>2
    <3> QED
      BY <2>2, <3>1, <3>2
  <2>4. /\ q \in Seq(Write) /\ p # <<>> /\ 1 \in DOMAIN p
        /\ DOMAIN p = 1..Len(p) /\ Len(p) \in Nat
        /\ DOMAIN q = 1..(Len(p) - 1)
        /\ \A k \in DOMAIN q : k + 1 \in DOMAIN p /\ q[k] = p[k + 1]
    BY <2>3
  <2>5. Filled(server, p[1].idx)
    BY <2>2, <2>4 DEF CatalogInv, SentApplied
  <2>6. ASSUME NEW i \in Idx
        PROVE  /\ Written(q, i) => Written(p, i)
               /\ Written(p, i) => Filled(server, i) \/ Written(q, i)
    BY <2>3, <2>4, <2>5, WrittenTail
  <2>7. /\ View(c)' = Overlay(server, q)
        /\ Contiguous' /\ CacheBehind' /\ ViewIsArray' /\ ViewGrows
    <3> HIDE DEF q
    <3> QED
      BY <2>1, <2>4, <2>6, CatchUp
  <2>8. SnapshotsDecode' /\ EventsInView'
    <3> HIDE DEF q
    <3> QED
      BY <1>t, <2>1, <2>7, RaiseFromEvents, EventsKept DEF CatalogInv
  <2>9. CountInView'
    BY <1>t, <2>1, <2>7, CountKept DEF CatalogInv
  <2>u. /\ \A d \in Clients : d # c => pend'[d] = pend[d] /\ cache'[d] = cache[d] /\ sent'[d] = sent[d]
        /\ pend'[c] = q /\ cache'[c] = server /\ sent'[c] = sent[c] - 1
    BY <1>t, <2>1 DEF TypeOK
  <2>10. PendOrdered'
    <3> SUFFICES ASSUME NEW d \in Writers, NEW k \in DOMAIN pend'[d], pend'[d][k].idx # 0
                 PROVE  \/ Filled(cache'[d], pend'[d][k].idx - 1)
                        \/ \E j \in DOMAIN pend'[d] : j < k /\ pend'[d][j].idx = pend'[d][k].idx - 1
      BY DEF PendOrdered
    <3>1. CASE d # c
      BY <2>u, <3>1 DEF CatalogInv, PendOrdered
    <3>2. CASE d = c
      <4> DEFINE m == q[k].idx
      <4>0. k \in DOMAIN q /\ m # 0 /\ m \in Idx
        <5>1. k \in DOMAIN q /\ q[k].idx # 0
          BY <2>u, <3>2
        <5>2. q[k] \in Write
          <6> HIDE DEF q
          <6> QED
            BY <2>4, <5>1
        <5> QED
          BY <5>1, <5>2 DEF Write
      <4> HIDE DEF q
      <4>1. k + 1 \in DOMAIN p /\ m = p[k + 1].idx
        BY <2>4, <4>0
      <4>2. \/ Filled(cache[c], m - 1)
            \/ \E j \in DOMAIN p : j < k + 1 /\ p[j].idx = m - 1
        BY <2>3, <4>0, <4>1 DEF CatalogInv, PendOrdered
      <4>3. CASE Filled(cache[c], m - 1)
        <5>1. m - 1 \in Idx
          BY <4>0 DEF Idx
        <5> QED
          BY <2>u, <3>2, <4>3, <5>1 DEF CatalogInv, CacheBehind
      <4>4. ASSUME NEW j \in DOMAIN p, j < k + 1, p[j].idx = m - 1
            PROVE  \/ Filled(server, m - 1)
                   \/ \E l \in DOMAIN q : l < k /\ q[l].idx = m - 1
        <5>1. CASE j = 1
          BY <2>5, <4>4, <5>1
        <5>2. CASE j # 1
          <6>1. j - 1 \in DOMAIN q /\ j - 1 < k
            BY <2>4, <4>0, <4>4, <5>2
          <6>2. q[j - 1] = p[j]
            BY <2>4, <6>1
          <6> QED
            BY <4>4, <6>1, <6>2
        <5> QED
          BY <5>1, <5>2
      <4> QED
        BY <2>u, <3>2, <4>2, <4>3, <4>4
    <3> QED
      BY <3>1, <3>2
  <2>11. SentApplied'
    <3> SUFFICES ASSUME NEW d \in Clients, NEW k \in DOMAIN pend'[d], k <= sent'[d]
                 PROVE  Filled(server, pend'[d][k].idx)
      BY <2>1 DEF SentApplied
    <3>1. CASE d # c
      BY <2>u, <3>1 DEF CatalogInv, SentApplied
    <3>2. CASE d = c
      <4>1. k \in DOMAIN q /\ k + 1 \in DOMAIN p /\ q[k] = p[k + 1] /\ k + 1 <= sent[c]
        BY <2>2, <2>4, <2>u, <3>2
      <4> QED
        BY <2>u, <3>2, <4>1 DEF CatalogInv, SentApplied
    <3> QED
      BY <3>1, <3>2
  <2> QED
    BY <1>t, <2>7, <2>8, <2>9, <2>10, <2>11 DEF CatalogInv
<1>7. ASSUME NEW c \in Clients, CreateRegion(c) PROVE CatalogInv'
  <2> DEFINE p == pend[c]
             w == [idx |-> count[c], region |-> NewRegion(c), informed |-> heard[c]]
             q == Append(p, w)
  <2>1. /\ UNCHANGED <<server, cache, sent>>
        /\ pend' = [pend EXCEPT ![c] = q]
        /\ events' = [events EXCEPT ![c] = <<>>]
        /\ count' = [count EXCEPT ![c] = 0]
        /\ count[c] \in Idx
    BY <1>7, <1>t DEF CreateRegion, CloseScreen, TypeOK, Idx
  <2>2. p \in Seq(Write) /\ w \in Write /\ w.idx = count[c]
    <3>1. NewRegion(c) \in RegionModel
      BY <1>t DEF NewRegion, RegionModel, TypeOK
    <3> QED
      BY <1>t, <2>1, <3>1 DEF TypeOK, Write
  <2> HIDE DEF w
  <2>3. /\ q \in Seq(Write)
        /\ DOMAIN p = 1..Len(p) /\ Len(p) \in Nat
        /\ DOMAIN q = 1..(Len(p) + 1)
        /\ q[Len(p) + 1] = w
        /\ \A k \in DOMAIN p : q[k] = p[k]
    BY <2>2
  <2>4. \A i \in Idx : Written(q, i) <=> i = count[c] \/ Written(p, i)
    BY <2>2, WrittenAppend
  <2> HIDE DEF q
  <2>u. /\ \A d \in Clients : d # c => pend'[d] = pend[d] /\ View(d)' = View(d)
        /\ pend'[c] = q /\ View(c)' = Overlay(cache[c], q)
        /\ cache[c] \in Node
    BY <1>t, <2>1 DEF TypeOK, View
  <2>5. ASSUME NEW i \in Idx
        PROVE  Filled(View(c)', i) <=> i = count[c] \/ Filled(View(c), i)
    <3>1. Filled(View(c)', i) <=> Filled(cache[c], i) \/ Written(q, i)
      BY <2>3, <2>u, OverlayFilled
    <3>2. Filled(View(c), i) <=> Filled(cache[c], i) \/ Written(p, i)
      BY <2>2, <2>u, OverlayFilled DEF View
    <3> QED
      BY <2>4, <3>1, <3>2
  <2>6. ViewGrows
    BY <2>5, <2>u DEF ViewGrows
  <2>7. ViewIsArray'
    <3> SUFFICES ASSUME NEW d \in Writers PROVE \E n \in 0..Cap : IsArray(View(d)', n)
      BY DEF ViewIsArray
    <3>1. \E n \in 0..Cap : IsArray(View(d), n)
      BY DEF CatalogInv, ViewIsArray
    <3>2. CASE d = c
      <4>1. count[c] # 0 => Filled(View(c), count[c] - 1)
        BY <3>2 DEF CatalogInv, CountInView
      <4> QED
        BY <2>1, <2>5, <3>1, <3>2, <4>1, ArrayExtend
    <3>3. CASE d # c
      BY <2>u, <3>1, <3>3
    <3> QED
      BY <3>2, <3>3
  <2>8. SnapshotsDecode' /\ EventsInView'
    <3>1. \A d \in Writers : \A k \in DOMAIN events'[d] :
              \E l \in DOMAIN events[d] : events'[d][k] = events[d][l]
      BY <1>t, <2>1 DEF TypeOK
    <3> QED
      BY <2>6, <2>7, <3>1, EventsKept DEF CatalogInv
  <2>9. CountInView'
    <3>1. \A d \in Writers : count'[d] = count[d] \/ count'[d] = 0
      BY <1>t, <2>1 DEF TypeOK
    <3> QED
      BY <1>t, <2>6, <3>1, CountKept DEF CatalogInv
  <2>10. PendOrdered'
    <3> SUFFICES ASSUME NEW d \in Writers, NEW k \in DOMAIN pend'[d], pend'[d][k].idx # 0
                 PROVE  \/ Filled(cache[d], pend'[d][k].idx - 1)
                        \/ \E j \in DOMAIN pend'[d] : j < k /\ pend'[d][j].idx = pend'[d][k].idx - 1
      BY <2>1 DEF PendOrdered
    <3>1. CASE d # c
      BY <2>u, <3>1 DEF CatalogInv, PendOrdered
    <3>2. CASE d = c /\ k # Len(p) + 1
      <4>1. k \in DOMAIN p /\ q[k] = p[k]
        BY <2>3, <2>u, <3>2
      <4>2. p[k].idx # 0
        BY <2>u, <3>2, <4>1
      <4>3. \/ Filled(cache[c], p[k].idx - 1)
            \/ \E j \in DOMAIN p : j < k /\ p[j].idx = p[k].idx - 1
        BY <3>2, <4>1, <4>2 DEF CatalogInv, PendOrdered
      <4>4. \A j \in DOMAIN p : j \in DOMAIN q /\ q[j] = p[j]
        BY <2>3
      <4> QED
        BY <2>u, <3>2, <4>1, <4>3, <4>4
    <3>3. CASE d = c /\ k = Len(p) + 1
      <4>1. q[k].idx = count[c] /\ count[c] # 0 /\ count[c] - 1 \in Idx
        BY <2>1, <2>2, <2>3, <2>u, <3>3 DEF Idx
      <4>2. Filled(View(c), count[c] - 1)
        BY <3>3, <4>1 DEF CatalogInv, CountInView
      <4>3. Filled(cache[c], count[c] - 1) \/ Written(p, count[c] - 1)
        BY <2>2, <2>u, <4>1, <4>2, OverlayFilled DEF View
      <4>4. CASE Written(p, count[c] - 1)
        <5>1. PICK j \in DOMAIN p : p[j].idx = count[c] - 1
          BY <4>4 DEF Written, LastWrite
        <5>2. j \in DOMAIN q /\ j < k /\ q[j] = p[j]
          BY <2>3, <3>3
        <5> QED
          BY <2>u, <3>3, <4>1, <5>1, <5>2
      <4> QED
        BY <2>u, <3>3, <4>1, <4>3, <4>4
    <3> QED
      BY <3>1, <3>2, <3>3
  <2>11. SentApplied'
    <3> SUFFICES ASSUME NEW d \in Clients, NEW k \in DOMAIN pend'[d], k <= sent[d]
                 PROVE  Filled(server, pend'[d][k].idx)
      BY <2>1 DEF SentApplied
    <3>1. CASE d # c
      BY <2>u, <3>1 DEF CatalogInv, SentApplied
    <3>2. CASE d = c
      <4>1. sent[c] <= IF c \in Writers THEN Len(p) ELSE 0
        BY <1>t DEF TypeOK
      <4>2. sent[c] \in Nat
        BY <1>t DEF TypeOK
      <4>3. sent[c] <= Len(p)
        BY <2>3, <4>1, <4>2
      <4>4. k \in DOMAIN p /\ q[k] = p[k]
        BY <2>3, <2>u, <3>2, <4>2, <4>3
      <4> QED
        BY <2>u, <3>2, <4>4 DEF CatalogInv, SentApplied
    <3> QED
      BY <3>1, <3>2
  <2>12. Contiguous' /\ CacheBehind'
    BY <2>1 DEF CatalogInv, Contiguous, CacheBehind
  <2> QED
    BY <1>t, <2>7, <2>8, <2>9, <2>10, <2>11, <2>12 DEF CatalogInv
<1>8. ASSUME NEW c \in Clients, Apply(c) PROVE CatalogInv'
  <2> DEFINE k == sent[c] + 1
             w == pend[c][k]
  <2>1. /\ UNCHANGED <<cache, pend, events, count>>
        /\ server' = [server EXCEPT ![w.idx] = w.region]
        /\ sent' = [sent EXCEPT ![c] = k]
        /\ c \in Writers
    BY <1>8, <1>t DEF Apply, TypeOK
  <2>2. k \in DOMAIN pend[c] /\ pend[c] \in Seq(Write) /\ sent[c] \in Nat
    BY <1>8, <1>t DEF Apply, TypeOK
  <2>3. w \in Write
    BY <2>2
  <2>4. w.idx \in Idx /\ w.region # NoRegion
    BY <2>3, NoRegionAssumption DEF Write
  <2>5. \A i \in Idx : Filled(server', i) <=> i = w.idx \/ Filled(server, i)
    BY <1>t, <2>1, <2>4 DEF Filled, TypeOK, Node
  <2>6. w.idx # 0 => Filled(server, w.idx - 1)
    <3> SUFFICES ASSUME w.idx # 0 PROVE Filled(server, w.idx - 1)
      OBVIOUS
    <3>0. w.idx - 1 \in Idx
      BY <2>4 DEF Idx
    <3>1. \/ Filled(cache[c], w.idx - 1)
          \/ \E j \in DOMAIN pend[c] : j < k /\ pend[c][j].idx = w.idx - 1
      BY <2>1, <2>2 DEF CatalogInv, PendOrdered
    <3>2. ASSUME NEW j \in DOMAIN pend[c], j < k, pend[c][j].idx = w.idx - 1
          PROVE  Filled(server, w.idx - 1)
      <4>1. j <= sent[c]
        BY <2>2, <3>2
      <4>2. Filled(server, pend[c][j].idx)
        BY <4>1 DEF CatalogInv, SentApplied
      <4> QED
        BY <3>2, <4>2
    <3> QED
      BY <3>0, <3>1, <3>2 DEF CatalogInv, CacheBehind
  <2> HIDE DEF w
  <2>7. Contiguous'
    <3>1. \E n \in 0..Cap : IsArray(server, n)
      BY DEF CatalogInv, Contiguous
    <3>2. \E n \in 0..Cap : IsArray(server', n)
      BY <2>4, <2>5, <2>6, <3>1, ArrayExtend
    <3> QED
      BY <3>2 DEF Contiguous
  <2>8. CacheBehind'
    BY <2>1, <2>5 DEF CatalogInv, CacheBehind
  <2>9. \A d : View(d)' = View(d)
    BY <2>1 DEF View
  <2>10. ViewIsArray' /\ CountInView' /\ EventsInView' /\ SnapshotsDecode' /\ PendOrdered'
    BY <2>1, <2>9 DEF CatalogInv, ViewIsArray, CountInView, EventsInView, SnapshotsDecode, PendOrdered
  <2>11. SentApplied'
    <3> SUFFICES ASSUME NEW d \in Clients, NEW l \in DOMAIN pend[d], l <= sent'[d]
                 PROVE  Filled(server', pend[d][l].idx)
      BY <2>1 DEF SentApplied
    <3>0. pend[d][l].idx \in Idx
      <4>1. pend[d] \in Seq(Write)
        BY <1>t DEF TypeOK
      <4>2. pend[d][l] \in Write
        BY <4>1
      <4> QED
        BY <4>2 DEF Write
    <3>1. CASE l <= sent[d]
      BY <2>5, <3>0, <3>1 DEF CatalogInv, SentApplied
    <3>2. CASE ~(l <= sent[d])
      <4>1. d = c
        BY <1>t, <2>1, <3>2 DEF TypeOK
      <4>2. l \in Nat /\ sent'[c] = k
        BY <1>t, <2>1, <2>2, <4>1 DEF TypeOK
      <4>3. l = k
        BY <2>2, <3>2, <4>1, <4>2
      <4> QED
        BY <2>5, <3>0, <4>1, <4>3 DEF w
    <3> QED
      BY <3>1, <3>2
  <2> QED
    BY <1>t, <2>7, <2>8, <2>10, <2>11 DEF CatalogInv
<1>9. ASSUME NEW c \in Clients, Reject(c) PROVE CatalogInv'
  <2>1. /\ UNCHANGED <<server, cache, sent, count>>
        /\ c \notin Writers /\ sent[c] \in Nat
        /\ \A d \in Clients : d # c => pend'[d] = pend[d] /\ events'[d] = events[d]
    BY <1>9, <1>t DEF Reject, TypeOK
  <2>2. sent[c] <= IF c \in Writers THEN Len(pend[c]) ELSE 0
    BY <1>t DEF TypeOK
  <2>3. sent[c] = 0
    BY <2>1, <2>2
  <2>4. \A d \in Writers : pend'[d] = pend[d] /\ events'[d] = events[d] /\ View(d)' = View(d)
    BY <2>1 DEF View
  <2>5. SnapshotsDecode' /\ ViewIsArray' /\ CountInView' /\ EventsInView' /\ PendOrdered'
    BY <2>1, <2>4 DEF CatalogInv, SnapshotsDecode, ViewIsArray, CountInView, EventsInView, PendOrdered
  <2>6. Contiguous' /\ CacheBehind'
    BY <2>1 DEF CatalogInv, Contiguous, CacheBehind
  <2>7. SentApplied'
    <3> SUFFICES ASSUME NEW d \in Clients, NEW k \in DOMAIN pend'[d], k <= sent[d]
                 PROVE  Filled(server, pend'[d][k].idx)
      BY <2>1 DEF SentApplied
    <3>1. d # c
      <4>1. pend'[d] \in Seq(Write)
        BY <1>t DEF TypeOK
      <4>2. k \in Nat /\ k > 0
        BY <4>1
      <4> QED
        BY <2>3, <4>2
    <3> QED
      BY <2>1, <3>1 DEF CatalogInv, SentApplied
  <2> QED
    BY <1>t, <2>5, <2>6, <2>7 DEF CatalogInv
<1>10. ASSUME NEW c \in Clients, Disconnect(c) PROVE CatalogInv'
  <2>1. /\ UNCHANGED <<server, cache, pend, events, count>>
        /\ sent' = [sent EXCEPT ![c] = 0]
    BY <1>10 DEF Disconnect
  <2>2. \A d : View(d)' = View(d)
    BY <2>1 DEF View
  <2>3. /\ Contiguous' /\ SnapshotsDecode' /\ CacheBehind' /\ ViewIsArray'
        /\ CountInView' /\ EventsInView' /\ PendOrdered'
    BY <2>1, <2>2 DEF CatalogInv, Contiguous, SnapshotsDecode, CacheBehind, ViewIsArray,
                      CountInView, EventsInView, PendOrdered
  <2>4. SentApplied'
    <3> SUFFICES ASSUME NEW d \in Clients, NEW k \in DOMAIN pend[d], k <= sent'[d]
                 PROVE  Filled(server, pend[d][k].idx)
      BY <2>1 DEF SentApplied
    <3>1. k > 0 /\ k \in Nat
      <4>1. pend[d] \in Seq(Write)
        BY <1>t DEF TypeOK
      <4> QED
        BY <4>1
    <3>2. sent'[d] = sent[d]
      BY <1>t, <2>1, <3>1 DEF TypeOK
    <3> QED
      BY <3>2 DEF CatalogInv, SentApplied
  <2> QED
    BY <1>t, <2>3, <2>4 DEF CatalogInv
<1>11. ASSUME NEW c \in Clients, Restart(c) PROVE CatalogInv'
  <2>1. /\ server' = server
        /\ cache'[c] = EmptyNode /\ pend'[c] = <<>> /\ events'[c] = <<>> /\ count'[c] = 0
        /\ \A d \in Clients : d # c => /\ cache'[d] = cache[d] /\ pend'[d] = pend[d]
                                     /\ events'[d] = events[d] /\ count'[d] = count[d]
                                     /\ sent'[d] = sent[d]
    BY <1>11, <1>t DEF Restart, CloseScreen, TypeOK
  <2>2. View(c)' = EmptyNode /\ \A d \in Clients : d # c => View(d)' = View(d)
    <3>1. View(c)' = Overlay(EmptyNode, <<>>)
      BY <2>1 DEF View
    <3>2. Overlay(EmptyNode, <<>>) = EmptyNode
      BY DEF Overlay, EmptyNode
    <3>3. ASSUME NEW d \in Clients, d # c PROVE View(d)' = View(d)
      BY <2>1, <3>3 DEF View
    <3> QED
      BY <3>1, <3>2, <3>3
  <2>3. ViewIsArray'
    <3>1. IsArray(EmptyNode, 0) /\ 0 \in 0..Cap
      BY DEF IsArray, EmptyNode, Idx
    <3> QED
      BY <2>2, <3>1 DEF CatalogInv, ViewIsArray
  <2>4. Contiguous' /\ CacheBehind'
    BY <2>1 DEF CatalogInv, Contiguous, CacheBehind, EmptyNode, Filled
  <2>5. SnapshotsDecode' /\ EventsInView' /\ CountInView'
    BY <2>1, <2>2 DEF CatalogInv, SnapshotsDecode, EventsInView, CountInView
  <2>6. PendOrdered' /\ SentApplied'
    BY <2>1 DEF CatalogInv, PendOrdered, SentApplied
  <2> QED
    BY <1>t, <2>3, <2>4, <2>5, <2>6 DEF CatalogInv
<1>12. ASSUME NEW i \in Idx, Approve(i) PROVE CatalogInv'
  <2>1. /\ UNCHANGED <<cache, pend, sent, events, count>>
        /\ server[i] # NoRegion
        /\ server' = [server EXCEPT ![i] = [server[i] EXCEPT !.isProcessed = TRUE]]
    BY <1>12 DEF Approve, device
  <2>2. [server[i] EXCEPT !.isProcessed = TRUE] # NoRegion
    BY <1>t, <2>1, NoRegionAssumption DEF TypeOK, Node, Cell, RegionModel
  <2>3. \A j \in Idx : Filled(server', j) <=> Filled(server, j)
    BY <1>t, <2>1, <2>2 DEF TypeOK, Node, Filled
  <2>4. Contiguous'
    BY <2>3 DEF CatalogInv, Contiguous, IsArray, Filled
  <2>5. \A d : View(d)' = View(d)
    BY <2>1 DEF View
  <2>6. /\ SnapshotsDecode' /\ ViewIsArray' /\ CountInView' /\ EventsInView' /\ PendOrdered'
    BY <2>1, <2>5 DEF CatalogInv, SnapshotsDecode, ViewIsArray, CountInView, EventsInView, PendOrdered
  <2>7. CacheBehind'
    BY <2>1, <2>3 DEF CatalogInv, CacheBehind
  <2>8. SentApplied'
    <3> SUFFICES ASSUME NEW d \in Clients, NEW k \in DOMAIN pend[d], k <= sent[d]
                 PROVE  Filled(server', pend[d][k].idx)
      BY <2>1 DEF SentApplied
    <3>1. pend[d][k].idx \in Idx
      <4>1. pend[d] \in Seq(Write)
        BY <1>t DEF TypeOK
      <4>2. pend[d][k] \in Write
        BY <4>1
      <4> QED
        BY <4>2 DEF Write
    <3> QED
      BY <2>3, <3>1 DEF CatalogInv, SentApplied
  <2> QED
    BY <1>t, <2>4, <2>6, <2>7, <2>8 DEF CatalogInv
<1>13. CASE UNCHANGED vars
  <2>1. UNCHANGED <<server, cache, pend, sent, events, count>>
    BY <1>13 DEF vars, device
  <2>2. SnapshotsDecode' /\ EventsInView' /\ CountInView'
    BY <2>1, QuietStep DEF CatalogInv, SnapshotsDecode, EventsInView, CountInView
  <2> QED
    BY <1>t, <2>1, <2>2, QuietStep DEF CatalogInv
<1> QED
  BY <1>1, <1>2, <1>3, <1>4, <1>5, <1>6, <1>7, <1>8, <1>9, <1>10, <1>11, <1>12, <1>13 DEF Next

\* CatalogInv: the inductive invariant holds in every reachable state.
THEOREM CatalogInvariant == Spec => []CatalogInv
  BY CatalogInit, CatalogStep, PTL DEF Spec

\* Contiguous: the numbering of createRegion never leaves a gap in /regions,
\* for any number of devices, refusals, resends and restarts.
THEOREM CatalogContiguous == Spec => []Contiguous
<1>1. CatalogInv => Contiguous
  BY DEF CatalogInv
<1> QED
  BY <1>1, CatalogInvariant, PTL

\* SnapshotsDecode: the array decode of the two view models succeeds on every
\* snapshot of a device whose writes are accepted.
THEOREM CatalogSnapshotsDecode == Spec => []SnapshotsDecode
<1>1. CatalogInv => SnapshotsDecode
  BY DEF CatalogInv
<1> QED
  BY <1>1, CatalogInvariant, PTL

-----------------------------------------------------------------------------
(* Why a device that has heard of the catalogue does not number a region   *)
(* over one of its own.  The catalogue's keys say nothing about authors;   *)
(* what carries the argument is that a snapshot shows at least the cells   *)
(* the device itself has filled or is about to fill, that those cells stop *)
(* growing while the snapshot waits and while the form is open, and that a *)
(* write sent twice never comes after a later write of the same cell.      *)

OwnCell(c, i) == Filled(server, i) /\ server[i].author = c

\* The cells that hold, or will hold, a region of c.
Own(c, i) == OwnCell(c, i) \/ Written(pend[c], i)

\* A device's writes are its own, in the order of their regions' creation.
PendIds ==
  \A c \in Clients : \A k \in DOMAIN pend[c] :
    /\ pend[c][k].region.author = c
    /\ pend[c][k].region.id <= created
    /\ \A j \in DOMAIN pend[c] : j < k => pend[c][j].region.id < pend[c][k].region.id

\* Every cell a device is about to write has a last write.
PendWritten ==
  \A c \in Clients : \A k \in DOMAIN pend[c] : Written(pend[c], pend[c][k].idx)

NotHeard == \A c \in Clients : screen[c] = "none" => ~heard[c]

OwnInView ==
  \A c \in Writers : link[c] = "synced" =>
    \A i \in Idx : OwnCell(c, i) => Filled(View(c), i)

EventsCover ==
  \A c \in Writers : \A k \in DOMAIN events[c], i \in Idx :
    Own(c, i) => Filled(events[c][k], i)

CountCovers ==
  \A c \in Writers : screen[c] = "create" /\ heard[c] =>
    \A i \in Idx : Own(c, i) => i < count[c]

\* An informed write is the first of its device to its cell, and what the
\* device has there on the server is not older.
InformedAbove ==
  \A c \in Writers : \A k \in DOMAIN pend[c] : pend[c][k].informed =>
    /\ \A j \in DOMAIN pend[c] : j < k => pend[c][j].idx # pend[c][k].idx
    /\ OwnCell(c, pend[c][k].idx) => server[pend[c][k].idx].id >= pend[c][k].region.id

OwnInv ==
  /\ PendIds
  /\ PendWritten
  /\ NotHeard
  /\ OwnInView
  /\ EventsCover
  /\ CountCovers
  /\ InformedAbove

OwnShrinks == \A d \in Writers, i \in Idx : Own(d, i)' => Own(d, i)

\* Dropping the oldest write keeps the last write of every later one's cell.
LEMMA WrittenLater ==
  ASSUME NEW p \in Seq(Write), p # <<>>, NEW i \in Idx, Written(p, i),
         NEW k \in DOMAIN Tail(p), Tail(p)[k].idx = i
  PROVE  Written(Tail(p), i)
<1> DEFINE q == Tail(p)
<1>1. /\ DOMAIN p = 1..Len(p) /\ Len(p) \in Nat \ {0}
      /\ DOMAIN q = 1..(Len(p) - 1)
      /\ \A j \in DOMAIN q : q[j] = p[j + 1]
      /\ k \in DOMAIN q /\ q[k].idx = i
  OBVIOUS
<1> HIDE DEF q
<1>2. PICK l \in DOMAIN p : LastWrite(p, i, l)
  BY DEF Written
<1>3. k + 1 \in DOMAIN p /\ p[k + 1].idx = i
  BY <1>1
<1>4. l >= k + 1
  BY <1>1, <1>2, <1>3 DEF LastWrite
<1>5. l - 1 \in DOMAIN q /\ q[l - 1].idx = i
  <2>1. l - 1 \in DOMAIN q /\ (l - 1) + 1 = l
    BY <1>1, <1>4
  <2> QED
    BY <1>1, <1>2, <2>1 DEF LastWrite
<1>6. ASSUME NEW j \in DOMAIN q, j > l - 1 PROVE q[j].idx # i
  <2>1. j + 1 \in DOMAIN p /\ j + 1 > l
    BY <1>1, <1>6
  <2> QED
    BY <1>1, <1>2, <2>1 DEF LastWrite
<1> QED
  BY <1>5, <1>6 DEF Written, LastWrite, q

\* A device whose oldest write is taken off keeps the order of the others.
LEMMA PendTail ==
  ASSUME TypeOK, PendIds, PendWritten, NEW c \in Clients, pend[c] # <<>>,
         created' = created, pend' = [pend EXCEPT ![c] = Tail(@)]
  PROVE  PendIds' /\ PendWritten'
<1> DEFINE p == pend[c]
           q == Tail(p)
<1>0. p \in Seq(Write) /\ pend'[c] = q /\ \A d \in Clients : d # c => pend'[d] = pend[d]
  BY DEF TypeOK
<1>1. /\ DOMAIN p = 1..Len(p) /\ Len(p) \in Nat \ {0}
      /\ DOMAIN q = 1..(Len(p) - 1)
      /\ \A k \in DOMAIN q : k + 1 \in DOMAIN p /\ q[k] = p[k + 1] /\ k \in Nat
  BY <1>0
<1>2. PendWritten'
  <2> SUFFICES ASSUME NEW d \in Clients, NEW k \in DOMAIN pend'[d]
               PROVE  Written(pend'[d], pend'[d][k].idx)
    BY DEF PendWritten
  <2>1. CASE d # c
    BY <1>0, <2>1 DEF PendWritten
  <2>2. CASE d = c
    <3>1. k \in DOMAIN q /\ q[k] = p[k + 1] /\ k + 1 \in DOMAIN p
      BY <1>0, <1>1, <2>2
    <3>2. p[k + 1] \in Write
      BY <1>0, <3>1
    <3>3. Written(p, q[k].idx) /\ q[k].idx \in Idx
      BY <3>1, <3>2 DEF PendWritten, Write
    <3> QED
      BY <1>0, <2>2, <3>1, <3>3, WrittenLater
  <2> QED
    BY <2>1, <2>2
<1> HIDE DEF q
<1>3. PendIds'
  <2> SUFFICES ASSUME NEW d \in Clients, NEW k \in DOMAIN pend'[d]
               PROVE  /\ pend'[d][k].region.author = d
                      /\ pend'[d][k].region.id <= created
                      /\ \A j \in DOMAIN pend'[d] :
                           j < k => pend'[d][j].region.id < pend'[d][k].region.id
    BY DEF PendIds
  <2>1. CASE d # c
    BY <1>0, <2>1 DEF PendIds
  <2>2. CASE d = c
    <3>1. k \in DOMAIN q
      BY <1>0, <2>2
    <3>2. \A j \in DOMAIN q : j < k => j + 1 < k + 1
      BY <1>1, <3>1
    <3> QED
      BY <1>0, <1>1, <2>2, <3>1, <3>2 DEF PendIds
  <2> QED
    BY <2>1, <2>2
<1> QED
  BY <1>2, <1>3

\* A synced device sees every cell it owns.
LEMMA OwnViewed ==
  ASSUME TypeOK, OwnInView, NEW d \in Writers, NEW i \in Idx, link[d] = "synced", Own(d, i)
  PROVE  Filled(View(d), i)
<1>1. cache[d] \in Node /\ pend[d] \in Seq(Write)
  BY CatalogAssumption DEF TypeOK
<1>2. Written(pend[d], i) => Filled(View(d), i)
  BY <1>1, OverlayFilled DEF View
<1> QED
  BY <1>2 DEF Own, OwnInView

\* Queued snapshots keep covering the device's cells when these do not grow
\* and only a synced view is queued.
LEMMA EventsCovered ==
  ASSUME TypeOK', OwnInView', EventsCover, OwnShrinks,
         \A d \in Writers : \A k \in DOMAIN events'[d] :
            \/ events'[d][k] = View(d)' /\ link'[d] = "synced"
            \/ \E l \in DOMAIN events[d] : events'[d][k] = events[d][l]
  PROVE  EventsCover'
<1> SUFFICES ASSUME NEW d \in Writers, NEW k \in DOMAIN events'[d], NEW i \in Idx, Own(d, i)'
             PROVE  Filled(events'[d][k], i)
  BY DEF EventsCover
<1>1. CASE events'[d][k] = View(d)' /\ link'[d] = "synced"
  <2>1. Written(pend'[d], i) => Filled(View(d)', i)
    <3>1. cache'[d] \in Node /\ pend'[d] \in Seq(Write)
      BY CatalogAssumption DEF TypeOK
    <3> QED
      BY <3>1, OverlayFilled DEF View
  <2>2. OwnCell(d, i)' => Filled(View(d)', i)
    BY <1>1 DEF OwnInView
  <2> QED
    BY <1>1, <2>1, <2>2 DEF Own
<1>2. CASE \E l \in DOMAIN events[d] : events'[d][k] = events[d][l]
  BY <1>2 DEF EventsCover, OwnShrinks
<1> QED
  BY <1>1, <1>2

\* A count that is kept, or whose form is closed or has heard nothing, stays
\* beyond the device's cells when these do not grow.
LEMMA CountCovered ==
  ASSUME CountCovers, OwnShrinks,
         \A d \in Writers : screen'[d] = "create" /\ heard'[d] =>
            screen[d] = "create" /\ heard[d] /\ count'[d] = count[d]
  PROVE  CountCovers'
  BY DEF CountCovers, OwnShrinks

\* A step that leaves the server and the writes alone moves nobody's cells.
LEMMA OwnQuiet ==
  ASSUME OwnInv, UNCHANGED <<server, created, pend>>
  PROVE  /\ PendIds' /\ PendWritten' /\ InformedAbove' /\ OwnShrinks
         /\ \A d, i : OwnCell(d, i)' <=> OwnCell(d, i)
<1>1. \A d, i : OwnCell(d, i)' <=> OwnCell(d, i)
  BY DEF OwnCell, Filled
<1>2. PendIds' /\ PendWritten'
  BY DEF OwnInv, PendIds, PendWritten
<1>3. InformedAbove'
  BY <1>1 DEF OwnInv, InformedAbove
<1>4. OwnShrinks
  BY <1>1 DEF OwnShrinks, Own
<1> QED
  BY <1>1, <1>2, <1>3, <1>4

\* No device owns a cell before the first region is created.
LEMMA OwnInit == Init => OwnInv
<1> SUFFICES ASSUME Init PROVE OwnInv
  OBVIOUS
<1> USE CatalogAssumption, NoRegionAssumption
<1>1. PendIds /\ PendWritten /\ NotHeard /\ EventsCover /\ CountCovers /\ InformedAbove
  BY DEF Init, PendIds, PendWritten, NotHeard, EventsCover, CountCovers, InformedAbove
<1>2. OwnInView
  BY DEF Init, OwnInView
<1> QED
  BY <1>1, <1>2 DEF OwnInv

\* Every step preserves the invariant about a device's own regions.
LEMMA OwnStep == CatalogInv /\ OwnInv /\ [Next]_vars => OwnInv'
<1> SUFFICES ASSUME CatalogInv, OwnInv, [Next]_vars PROVE OwnInv'
  OBVIOUS
<1> USE CatalogAssumption
<1>t. TypeOK /\ TypeOK'
  BY TypeStep DEF CatalogInv
<1>o. /\ PendIds /\ PendWritten /\ NotHeard /\ OwnInView /\ EventsCover /\ CountCovers /\ InformedAbove
      /\ SnapshotsDecode
  BY DEF OwnInv, CatalogInv
<1>w. ASSUME NEW d \in Clients, NEW k \in DOMAIN pend[d]
      PROVE  /\ pend[d] \in Seq(Write) /\ k \in Nat /\ pend[d][k] \in Write
             /\ pend[d][k].idx \in Idx /\ pend[d][k].region # NoRegion
             /\ pend[d][k].region.id \in Nat
  <2>1. pend[d] \in Seq(Write)
    BY <1>t DEF TypeOK
  <2>2. pend[d][k] \in Write /\ k \in Nat
    BY <2>1
  <2> QED
    BY <2>1, <2>2, NoRegionAssumption DEF Write, RegionModel
<1>1. ASSUME NEW c \in Clients, NEW s \in {"create", "select"}, Open(c, s) PROVE OwnInv'
  <2>1. /\ UNCHANGED <<server, created, cache, pend, heard, count>>
        /\ screen[c] = "none"
        /\ \A d \in Clients : d # c => /\ screen'[d] = screen[d] /\ link'[d] = link[d]
                                     /\ events'[d] = events[d]
        /\ link'[c] = "synced" <=> link[c] = "synced"
        /\ events'[c] = IF link[c] = "synced" THEN <<View(c)>> ELSE <<>>
    BY <1>1, <1>t DEF Open, TypeOK
  <2>2. /\ PendIds' /\ PendWritten' /\ InformedAbove' /\ OwnShrinks
        /\ \A d, i : OwnCell(d, i)' <=> OwnCell(d, i)
    BY <2>1, OwnQuiet
  <2>3. \A d : View(d)' = View(d)
    BY <2>1 DEF View
  <2>4. ~heard[c]
    BY <1>o, <2>1 DEF NotHeard
  <2>5. NotHeard'
    BY <1>o, <2>1, <2>4 DEF NotHeard
  <2>6. OwnInView'
    BY <1>o, <2>1, <2>2, <2>3 DEF OwnInView
  <2>7. EventsCover'
    <3>1. \A d \in Writers : \A k \in DOMAIN events'[d] :
             \/ events'[d][k] = View(d)' /\ link'[d] = "synced"
             \/ \E l \in DOMAIN events[d] : events'[d][k] = events[d][l]
      <4> SUFFICES ASSUME NEW d \in Writers, NEW k \in DOMAIN events'[d]
                   PROVE  \/ events'[d][k] = View(d)' /\ link'[d] = "synced"
                          \/ \E l \in DOMAIN events[d] : events'[d][k] = events[d][l]
        OBVIOUS
      <4>1. CASE d # c
        BY <2>1, <4>1
      <4>2. CASE d = c
        <5>1. link[c] = "synced" /\ events'[c] = <<View(c)>> /\ k = 1
          BY <2>1, <4>2
        <5> QED
          BY <2>1, <2>3, <4>2, <5>1
      <4> QED
        BY <4>1, <4>2
    <3> QED
      BY <1>t, <1>o, <2>2, <2>6, <3>1, EventsCovered
  <2>8. CountCovers'
    <3>1. \A d \in Writers : screen'[d] = "create" /\ heard'[d] =>
             screen[d] = "create" /\ heard[d] /\ count'[d] = count[d]
      BY <2>1, <2>4
    <3> QED
      BY <1>o, <2>2, <3>1, CountCovered
  <2> QED
    BY <2>2, <2>5, <2>6, <2>7, <2>8 DEF OwnInv
<1>2. ASSUME NEW c \in Clients, Leave(c) PROVE OwnInv'
  <2>1. /\ UNCHANGED <<server, created, cache, pend, link>>
        /\ screen'[c] = "none" /\ ~heard'[c] /\ events'[c] = <<>>
        /\ \A d \in Clients : d # c => /\ screen'[d] = screen[d] /\ heard'[d] = heard[d]
                                     /\ events'[d] = events[d] /\ count'[d] = count[d]
    BY <1>2, <1>t DEF Leave, CloseScreen, TypeOK
  <2>2. /\ PendIds' /\ PendWritten' /\ InformedAbove' /\ OwnShrinks
        /\ \A d, i : OwnCell(d, i)' <=> OwnCell(d, i)
    BY <2>1, OwnQuiet
  <2>3. \A d : View(d)' = View(d)
    BY <2>1 DEF View
  <2>4. NotHeard' /\ OwnInView'
    BY <1>o, <2>1, <2>2, <2>3 DEF NotHeard, OwnInView
  <2>5. \A d \in Writers : \A k \in DOMAIN events'[d] :
           \E l \in DOMAIN events[d] : events'[d][k] = events[d][l]
    BY <2>1
  <2>6. EventsCover'
    BY <1>t, <1>o, <2>2, <2>4, <2>5, EventsCovered
  <2>7. CountCovers'
    BY <1>o, <2>1, <2>2, CountCovered
  <2> QED
    BY <2>2, <2>4, <2>6, <2>7 DEF OwnInv
<1>3. ASSUME NEW c \in Clients, DeliverCount(c) PROVE OwnInv'
  <2>1. /\ UNCHANGED <<server, created, cache, pend, link, screen>>
        /\ screen[c] = "create" /\ events[c] # <<>> /\ events[c] \in Seq(Node)
        /\ events' = [events EXCEPT ![c] = Tail(@)]
        /\ \A d \in Clients : d # c => heard'[d] = heard[d] /\ count'[d] = count[d]
    BY <1>3, <1>t DEF DeliverCount, TypeOK
  <2>2. /\ PendIds' /\ PendWritten' /\ InformedAbove' /\ OwnShrinks
        /\ \A d, i : OwnCell(d, i)' <=> OwnCell(d, i)
    BY <2>1, OwnQuiet
  <2>3. \A d : View(d)' = View(d)
    BY <2>1 DEF View
  <2>4. NotHeard' /\ OwnInView'
    BY <1>o, <2>1, <2>2, <2>3 DEF NotHeard, OwnInView
  <2>5. \A d \in Writers : \A k \in DOMAIN events'[d] :
           \E l \in DOMAIN events[d] : events'[d][k] = events[d][l]
    BY <1>t, <2>1, TailFromEvents
  <2>6. EventsCover'
    BY <1>t, <1>o, <2>2, <2>4, <2>5, EventsCovered
  <2>7. CountCovers'
    <3> SUFFICES ASSUME NEW d \in Writers, screen[d] = "create", heard'[d],
                        NEW i \in Idx, Own(d, i)
                 PROVE  i < count'[d]
      BY <2>1, <2>2 DEF CountCovers, OwnShrinks
    <3>1. CASE d # c
      BY <1>o, <2>1, <3>1 DEF CountCovers
    <3>2. CASE d = c
      <4>1. 1 \in DOMAIN events[c] /\ Head(events[c]) = events[c][1]
        BY <2>1
      <4>2. Filled(Head(events[c]), i)
        BY <1>o, <3>2, <4>1 DEF EventsCover
      <4>3. PICK m \in 0..Cap : IsArray(Head(events[c]), m)
        BY <1>o, <3>2, <4>1 DEF SnapshotsDecode
      <4>4. i < m /\ m \in 1..Cap
        BY <4>2, <4>3 DEF IsArray, Filled, Idx
      <4>5. PICK n \in 1..Cap : IsArray(Head(events[c]), n) /\ count' = [count EXCEPT ![c] = n]
        BY <1>3, <4>3, <4>4 DEF DeliverCount
      <4>6. i < n
        BY <4>2, <4>5 DEF IsArray, Filled
      <4> QED
        BY <1>t, <3>2, <4>5, <4>6 DEF TypeOK
    <3> QED
      BY <3>1, <3>2
  <2> QED
    BY <2>2, <2>4, <2>6, <2>7 DEF OwnInv
<1>4. ASSUME NEW c \in Clients, DeliverRegions(c) PROVE OwnInv'
  <2>1. /\ UNCHANGED <<server, created, cache, pend, link, screen, count>>
        /\ screen[c] = "select" /\ events[c] # <<>> /\ events[c] \in Seq(Node)
        /\ events' = [events EXCEPT ![c] = Tail(@)]
        /\ \A d \in Clients : d # c => heard'[d] = heard[d]
    BY <1>4, <1>t DEF DeliverRegions, TypeOK
  <2>2. /\ PendIds' /\ PendWritten' /\ InformedAbove' /\ OwnShrinks
        /\ \A d, i : OwnCell(d, i)' <=> OwnCell(d, i)
    BY <2>1, OwnQuiet
  <2>3. \A d : View(d)' = View(d)
    BY <2>1 DEF View
  <2>4. NotHeard' /\ OwnInView'
    BY <1>o, <2>1, <2>2, <2>3 DEF NotHeard, OwnInView
  <2>5. \A d \in Writers : \A k \in DOMAIN events'[d] :
           \E l \in DOMAIN events[d] : events'[d][k] = events[d][l]
    BY <1>t, <2>1, TailFromEvents
  <2>6. EventsCover'
    BY <1>t, <1>o, <2>2, <2>4, <2>5, EventsCovered
  <2>7. CountCovers'
    BY <1>o, <2>1, <2>2, CountCovered
  <2> QED
    BY <2>2, <2>4, <2>6, <2>7 DEF OwnInv
<1>5. ASSUME NEW c \in Clients, Sync(c) PROVE OwnInv'
  <2>1. /\ UNCHANGED <<server, created, pend, screen, heard, count>>
        /\ cache'[c] = server /\ pend[c] \in Seq(Write) /\ server \in Node
        /\ events' = [events EXCEPT ![c] = Raise(c, Overlay(server, pend[c]))]
        /\ link'[c] = "synced"
        /\ \A d \in Clients : d # c => /\ cache'[d] = cache[d] /\ link'[d] = link[d]
                                     /\ events'[d] = events[d]
    BY <1>5, <1>t DEF Sync, TypeOK
  <2>2. /\ PendIds' /\ PendWritten' /\ InformedAbove' /\ OwnShrinks
        /\ \A d, i : OwnCell(d, i)' <=> OwnCell(d, i)
    BY <2>1, OwnQuiet
  <2>3. /\ View(c)' = Overlay(server, pend[c])
        /\ \A d \in Clients : d # c => View(d)' = View(d)
    BY <2>1 DEF View
  <2>4. NotHeard'
    BY <1>o, <2>1 DEF NotHeard
  <2>5. OwnInView'
    <3> SUFFICES ASSUME NEW d \in Writers, link'[d] = "synced", NEW i \in Idx, OwnCell(d, i)
                 PROVE  Filled(View(d)', i)
      BY <2>2 DEF OwnInView
    <3>1. CASE d # c
      BY <1>o, <2>1, <2>3, <3>1 DEF OwnInView
    <3>2. CASE d = c
      BY <2>1, <2>3, <3>2, OverlayFilled DEF OwnCell
    <3> QED
      BY <3>1, <3>2
  <2>6. EventsCover'
    <3>1. \A d \in Clients : \A k \in DOMAIN events'[d] :
            \/ events'[d][k] = View(d)'
            \/ \E l \in DOMAIN events[d] : events'[d][k] = events[d][l]
      BY <1>t, <2>1, <2>3, RaiseFromEvents
    <3>2. \A d \in Writers : \A k \in DOMAIN events'[d] :
            \/ events'[d][k] = View(d)' /\ link'[d] = "synced"
            \/ \E l \in DOMAIN events[d] : events'[d][k] = events[d][l]
      BY <2>1, <3>1
    <3> QED
      BY <1>t, <1>o, <2>2, <2>5, <3>2, EventsCovered
  <2>7. CountCovers'
    BY <1>o, <2>1, <2>2, CountCovered
  <2> QED
    BY <2>2, <2>4, <2>5, <2>6, <2>7 DEF OwnInv
<1>6. ASSUME NEW c \in Clients, Apply(c) PROVE OwnInv'
  <2> DEFINE m == sent[c] + 1
             w == pend[c][m]
  <2>1. /\ UNCHANGED <<created, cache, pend, link, screen, events, heard, count>>
        /\ server' = [server EXCEPT ![w.idx] = w.region]
        /\ c \in Writers /\ sent[c] \in Nat
    BY <1>6, <1>t DEF Apply, TypeOK
  <2>2. m \in DOMAIN pend[c]
    BY <1>6, <1>t DEF Apply, TypeOK
  <2>3. /\ w.idx \in Idx /\ w.region # NoRegion /\ w.region.author = c
        /\ w.region.id \in Nat /\ Written(pend[c], w.idx)
    BY <1>o, <1>w, <2>2 DEF PendIds, PendWritten
  <2> HIDE DEF w
  <2>4. /\ server'[w.idx] = w.region
        /\ \A i \in Idx : i # w.idx => server'[i] = server[i]
    BY <1>t, <2>1, <2>3 DEF TypeOK, Node
  <2>5. ASSUME NEW d \in Clients, NEW i \in Idx, OwnCell(d, i)'
        PROVE  OwnCell(d, i) \/ (i = w.idx /\ d = c)
    <3>1. CASE i = w.idx
      <4>1. server'[i].author = d /\ server'[i] = w.region
        BY <2>4, <2>5, <3>1 DEF OwnCell
      <4> QED
        BY <2>3, <3>1, <4>1
    <3>2. CASE i # w.idx
      <4>1. server'[i] = server[i]
        BY <2>4, <3>2
      <4> QED
        BY <2>5, <4>1 DEF OwnCell, Filled
    <3> QED
      BY <3>1, <3>2
  <2>6. OwnShrinks
    BY <2>1, <2>3, <2>5 DEF OwnShrinks, Own
  <2>7. \A d : View(d)' = View(d)
    BY <2>1 DEF View
  <2>8. OwnInView'
    <3> SUFFICES ASSUME NEW d \in Writers, link[d] = "synced", NEW i \in Idx, OwnCell(d, i)'
                 PROVE  Filled(View(d), i)
      BY <2>1, <2>7 DEF OwnInView
    <3>1. Own(d, i)
      BY <2>3, <2>5 DEF Own
    <3> QED
      BY <1>t, <1>o, <3>1, OwnViewed
  <2>9. EventsCover' /\ CountCovers'
    BY <1>o, <2>1, <2>6 DEF EventsCover, CountCovers, OwnShrinks
  <2>10. InformedAbove'
    <3> SUFFICES ASSUME NEW d \in Writers, NEW k \in DOMAIN pend[d], pend[d][k].informed
                 PROVE  /\ \A j \in DOMAIN pend[d] : j < k => pend[d][j].idx # pend[d][k].idx
                        /\ OwnCell(d, pend[d][k].idx)' =>
                             server'[pend[d][k].idx].id >= pend[d][k].region.id
      BY <2>1 DEF InformedAbove
    <3>1. \A j \in DOMAIN pend[d] : j < k => pend[d][j].idx # pend[d][k].idx
      BY <1>o DEF InformedAbove
    <3>2. ASSUME OwnCell(d, pend[d][k].idx)'
          PROVE  server'[pend[d][k].idx].id >= pend[d][k].region.id
      <4>0. /\ pend[d][k].idx \in Idx /\ pend[d][k].region.id \in Nat
            /\ k \in Nat /\ m \in Nat
        BY <1>w, <2>1
      <4>1. CASE pend[d][k].idx # w.idx
        <5>1. OwnCell(d, pend[d][k].idx) /\ server'[pend[d][k].idx] = server[pend[d][k].idx]
          BY <2>1, <2>4, <2>5, <3>2, <4>0, <4>1
        <5> QED
          BY <1>o, <5>1 DEF InformedAbove
      <4>2. CASE pend[d][k].idx = w.idx
        <5>1. d = c
          BY <2>1, <2>3, <2>4, <3>2, <4>2 DEF OwnCell
        <5>2. ~(m < k)
          BY <2>2, <3>1, <4>2, <5>1 DEF w
        <5>3. CASE m = k
          BY <2>4, <4>0, <4>2, <5>1, <5>3 DEF w
        <5>4. CASE m > k
          <6>1. pend[c][k].region.id < w.region.id
            BY <1>o, <2>2, <5>1, <5>4 DEF PendIds, w
          <6> QED
            BY <2>3, <2>4, <4>0, <4>2, <5>1, <6>1
        <5> QED
          BY <4>0, <5>2, <5>3, <5>4
      <4> QED
        BY <4>1, <4>2
    <3> QED
      BY <3>1, <3>2
  <2>11. PendIds' /\ PendWritten' /\ NotHeard'
    BY <1>o, <2>1 DEF PendIds, PendWritten, NotHeard
  <2> QED
    BY <2>8, <2>9, <2>10, <2>11 DEF OwnInv
<1>7. ASSUME NEW c \in Clients, Ack(c) PROVE OwnInv'
  <2> DEFINE p == pend[c]
             q == Tail(p)
  <2>1. /\ UNCHANGED <<server, created, screen, heard, count>>
        /\ pend' = [pend EXCEPT ![c] = Tail(@)]
        /\ events' = [events EXCEPT ![c] = Raise(c, Overlay(server, q))]
        /\ cache'[c] = server /\ link'[c] = "synced" /\ pend'[c] = q /\ server \in Node
        /\ \A d \in Clients : d # c => /\ cache'[d] = cache[d] /\ link'[d] = link[d]
                                     /\ pend'[d] = pend[d]
    BY <1>7, <1>t DEF Ack, TypeOK
  <2>2. sent[c] \in Nat \ {0} /\ sent[c] <= (IF c \in Writers THEN Len(p) ELSE 0) /\ p \in Seq(Write)
    BY <1>7, <1>t DEF Ack, TypeOK
  <2>3. p # <<>>
    <3>1. Len(p) > 0
      BY <2>2
    <3> QED
      BY <3>1
  <2>4. /\ q \in Seq(Write)
        /\ DOMAIN p = 1..Len(p) /\ Len(p) \in Nat \ {0}
        /\ DOMAIN q = 1..(Len(p) - 1)
        /\ \A k \in DOMAIN q : k + 1 \in DOMAIN p /\ q[k] = p[k + 1] /\ k \in Nat
    BY <2>2, <2>3
  <2>5. \A i \in Idx : Written(q, i) => Written(p, i)
    BY <2>2, <2>3, WrittenTail
  <2>6. PendIds' /\ PendWritten'
    BY <1>t, <1>o, <2>1, <2>3, PendTail
  <2> HIDE DEF q
  <2>7. \A d, i : OwnCell(d, i)' <=> OwnCell(d, i)
    BY <2>1 DEF OwnCell, Filled
  <2>8. OwnShrinks
    BY <2>1, <2>5, <2>7 DEF OwnShrinks, Own
  <2>9. /\ View(c)' = Overlay(server, q)
        /\ \A d \in Clients : d # c => View(d)' = View(d)
    BY <2>1 DEF View
  <2>10. OwnInView'
    <3> SUFFICES ASSUME NEW d \in Writers, link'[d] = "synced", NEW i \in Idx, OwnCell(d, i)
                 PROVE  Filled(View(d)', i)
      BY <2>7 DEF OwnInView
    <3>1. CASE d # c
      BY <1>o, <2>1, <2>9, <3>1 DEF OwnInView
    <3>2. CASE d = c
      BY <2>1, <2>4, <2>9, <3>2, OverlayFilled DEF OwnCell
    <3> QED
      BY <3>1, <3>2
  <2>11. EventsCover'
    <3>1. \A d \in Clients : \A k \in DOMAIN events'[d] :
            \/ events'[d][k] = View(d)'
            \/ \E l \in DOMAIN events[d] : events'[d][k] = events[d][l]
      BY <1>t, <2>1, <2>9, RaiseFromEvents
    <3>2. \A d \in Clients : d # c => events'[d] = events[d]
      BY <1>t, <2>1 DEF TypeOK
    <3>3. \A d \in Writers : \A k \in DOMAIN events'[d] :
            \/ events'[d][k] = View(d)' /\ link'[d] = "synced"
            \/ \E l \in DOMAIN events[d] : events'[d][k] = events[d][l]
      BY <2>1, <3>1, <3>2
    <3> QED
      BY <1>t, <1>o, <2>8, <2>10, <3>3, EventsCovered
  <2>12. CountCovers' /\ NotHeard'
    BY <1>o, <2>1, <2>8, CountCovered DEF NotHeard
  <2>13. InformedAbove'
    <3> SUFFICES ASSUME NEW d \in Writers, NEW k \in DOMAIN pend'[d], pend'[d][k].informed
                 PROVE  /\ \A j \in DOMAIN pend'[d] : j < k => pend'[d][j].idx # pend'[d][k].idx
                        /\ OwnCell(d, pend'[d][k].idx) =>
                             server[pend'[d][k].idx].id >= pend'[d][k].region.id
      BY <2>1, <2>7 DEF InformedAbove
    <3>1. CASE d # c
      BY <1>o, <2>1, <3>1 DEF InformedAbove
    <3>2. CASE d = c
      <4>1. k \in DOMAIN q /\ k + 1 \in DOMAIN p /\ q[k] = p[k + 1] /\ p[k + 1].informed
        BY <2>1, <2>4, <3>2
      <4>2. /\ \A j \in DOMAIN p : j < k + 1 => p[j].idx # p[k + 1].idx
            /\ OwnCell(c, p[k + 1].idx) => server[p[k + 1].idx].id >= p[k + 1].region.id
        BY <1>o, <3>2, <4>1 DEF InformedAbove
      <4>3. \A j \in DOMAIN q : j < k => j + 1 < k + 1
        BY <2>4, <4>1
      <4> QED
        BY <2>1, <2>4, <3>2, <4>1, <4>2, <4>3
    <3> QED
      BY <3>1, <3>2
  <2> QED
    BY <2>6, <2>10, <2>11, <2>12, <2>13 DEF OwnInv
<1>8. ASSUME NEW c \in Clients, CreateRegion(c) PROVE OwnInv'
  <2> DEFINE p == pend[c]
             w == [idx |-> count[c], region |-> NewRegion(c), informed |-> heard[c]]
             q == Append(p, w)
  <2>1. /\ UNCHANGED <<server, link, cache>>
        /\ screen[c] = "create" /\ count[c] \in Idx
        /\ created \in Nat /\ created' = created + 1
        /\ pend'[c] = q /\ screen'[c] = "none" /\ ~heard'[c] /\ events'[c] = <<>>
        /\ \A d \in Clients : d # c => /\ screen'[d] = screen[d] /\ heard'[d] = heard[d]
                                     /\ events'[d] = events[d] /\ count'[d] = count[d]
                                     /\ pend'[d] = pend[d]
    BY <1>8, <1>t DEF CreateRegion, CloseScreen, TypeOK, Idx
  <2>2. /\ p \in Seq(Write) /\ cache[c] \in Node /\ w \in Write
        /\ w.idx = count[c] /\ w.informed = heard[c]
        /\ w.region.author = c /\ w.region.id = created + 1
    <3>1. NewRegion(c) \in RegionModel
      BY <1>t DEF NewRegion, RegionModel, TypeOK
    <3> QED
      BY <1>t, <2>1, <3>1 DEF TypeOK, Write, NewRegion
  <2> HIDE DEF w
  <2>3. /\ q \in Seq(Write)
        /\ DOMAIN p = 1..Len(p) /\ Len(p) \in Nat
        /\ DOMAIN q = 1..(Len(p) + 1)
        /\ q[Len(p) + 1] = w
        /\ \A k \in DOMAIN p : q[k] = p[k] /\ k \in DOMAIN q
    BY <2>2
  <2>4. \A i \in Idx : Written(q, i) <=> i = count[c] \/ Written(p, i)
    BY <2>2, WrittenAppend
  <2> HIDE DEF q
  <2>5. \A k \in DOMAIN q : k \in DOMAIN p \/ k = Len(p) + 1
    BY <2>3
  <2>6. \A d, i : OwnCell(d, i)' <=> OwnCell(d, i)
    BY <2>1 DEF OwnCell, Filled
  <2>7. PendIds'
    <3> SUFFICES ASSUME NEW d \in Clients, NEW k \in DOMAIN pend'[d]
                 PROVE  /\ pend'[d][k].region.author = d
                        /\ pend'[d][k].region.id <= created + 1
                        /\ \A j \in DOMAIN pend'[d] :
                             j < k => pend'[d][j].region.id < pend'[d][k].region.id
      BY <2>1 DEF PendIds
    <3>0. \A e \in Clients : \A j \in DOMAIN pend[e] :
             /\ pend[e][j].region.id \in Nat
             /\ pend[e][j].region.id <= created /\ pend[e][j].region.id < created + 1
      BY <1>o, <1>w, <2>1 DEF PendIds
    <3>1. CASE d # c
      BY <1>o, <2>1, <3>0, <3>1 DEF PendIds
    <3>2. CASE d = c /\ k \in DOMAIN p
      <4>1. \A j \in DOMAIN q : j < k => j \in DOMAIN p /\ q[j] = p[j]
        BY <2>3, <2>5, <3>2
      <4>2. q[k] = p[k]
        BY <2>3, <3>2
      <4> QED
        BY <1>o, <2>1, <3>0, <3>2, <4>1, <4>2 DEF PendIds
    <3>3. CASE d = c /\ k = Len(p) + 1
      <4>1. \A j \in DOMAIN q : j < k => j \in DOMAIN p /\ q[j] = p[j]
        BY <2>3, <2>5, <3>3
      <4>2. q[k].region.author = c /\ q[k].region.id = created + 1 /\ created + 1 \in Nat
        BY <2>1, <2>2, <2>3, <3>3
      <4>3. \A j \in DOMAIN q : j < k => q[j].region.id < created + 1
        BY <3>0, <4>1
      <4> QED
        BY <2>1, <3>3, <4>2, <4>3
    <3> QED
      BY <2>1, <2>5, <3>1, <3>2, <3>3
  <2>8. PendWritten'
    <3> SUFFICES ASSUME NEW d \in Clients, NEW k \in DOMAIN pend'[d]
                 PROVE  Written(pend'[d], pend'[d][k].idx)
      BY DEF PendWritten
    <3>1. CASE d # c
      BY <1>o, <2>1, <3>1 DEF PendWritten
    <3>2. CASE d = c /\ k \in DOMAIN p
      <4>1. Written(p, p[k].idx) /\ p[k].idx \in Idx /\ q[k] = p[k]
        BY <1>o, <1>w, <2>3, <3>2 DEF PendWritten
      <4> QED
        BY <2>1, <2>4, <3>2, <4>1
    <3>3. CASE d = c /\ k = Len(p) + 1
      BY <2>1, <2>2, <2>3, <2>4, <3>3
    <3> QED
      BY <2>1, <2>5, <3>1, <3>2, <3>3
  <2>9. NotHeard'
    BY <1>o, <2>1 DEF NotHeard
  <2>10. OwnInView'
    <3> SUFFICES ASSUME NEW d \in Writers, link[d] = "synced", NEW i \in Idx, OwnCell(d, i)
                 PROVE  Filled(View(d)', i)
      BY <2>1, <2>6 DEF OwnInView
    <3>1. Filled(View(d), i)
      BY <1>o DEF OwnInView
    <3>2. CASE d # c
      <4>1. View(d)' = View(d)
        BY <2>1, <3>2 DEF View
      <4> QED
        BY <3>1, <4>1
    <3>3. CASE d = c
      <4>1. Filled(cache[c], i) \/ Written(p, i)
        BY <2>2, <3>1, <3>3, OverlayFilled DEF View
      <4>2. Filled(cache[c], i) \/ Written(q, i)
        BY <2>4, <4>1
      <4>3. View(c)' = Overlay(cache[c], q)
        BY <2>1 DEF View
      <4> QED
        BY <2>2, <2>3, <3>3, <4>2, <4>3, OverlayFilled
    <3> QED
      BY <3>2, <3>3
  <2>11. \A d \in Writers, i \in Idx : d # c => (Own(d, i)' <=> Own(d, i))
    BY <2>1, <2>6 DEF Own
  <2>12. EventsCover' /\ CountCovers'
    BY <1>o, <2>1, <2>11 DEF EventsCover, CountCovers
  <2>13. InformedAbove'
    <3> SUFFICES ASSUME NEW d \in Writers, NEW k \in DOMAIN pend'[d], pend'[d][k].informed
                 PROVE  /\ \A j \in DOMAIN pend'[d] : j < k => pend'[d][j].idx # pend'[d][k].idx
                        /\ OwnCell(d, pend'[d][k].idx) =>
                             server[pend'[d][k].idx].id >= pend'[d][k].region.id
      BY <2>1, <2>6 DEF InformedAbove
    <3>1. CASE d # c
      BY <1>o, <2>1, <3>1 DEF InformedAbove
    <3>2. CASE d = c /\ k \in DOMAIN p
      <4>1. \A j \in DOMAIN q : j < k => j \in DOMAIN p /\ q[j] = p[j]
        BY <2>3, <2>5, <3>2
      <4>2. q[k] = p[k]
        BY <2>3, <3>2
      <4> QED
        BY <1>o, <2>1, <3>2, <4>1, <4>2 DEF InformedAbove
    <3>3. CASE d = c /\ k = Len(p) + 1
      <4>1. heard[c] /\ q[k].idx = count[c]
        BY <2>1, <2>2, <2>3, <3>3
      <4>2. \A i \in Idx : Own(c, i) => i < count[c]
        BY <1>o, <2>1, <3>3, <4>1 DEF CountCovers
      <4>3. ~OwnCell(c, count[c])
        BY <2>1, <4>2 DEF Own, Idx
      <4>4. ASSUME NEW j \in DOMAIN q, j < k PROVE q[j].idx # count[c]
        <5>1. j \in DOMAIN p /\ q[j] = p[j]
          BY <2>3, <2>5, <3>3, <4>4
        <5>2. Own(c, p[j].idx) /\ p[j].idx \in Idx
          BY <1>o, <1>w, <5>1 DEF PendWritten, Own
        <5>3. p[j].idx < count[c]
          BY <4>2, <5>2
        <5> QED
          BY <2>1, <5>1, <5>2, <5>3 DEF Idx
      <4> QED
        BY <2>1, <3>3, <4>1, <4>3, <4>4
    <3> QED
      BY <2>1, <2>5, <3>1, <3>2, <3>3
  <2> QED
    BY <2>7, <2>8, <2>9, <2>10, <2>12, <2>13 DEF OwnInv
<1>9. ASSUME NEW c \in Clients, Reject(c) PROVE OwnInv'
  <2>1. /\ UNCHANGED <<server, created, link, cache, screen, heard, count>>
        /\ c \notin Writers /\ pend[c] # <<>>
        /\ pend' = [pend EXCEPT ![c] = Tail(@)]
        /\ \A d \in Clients : d # c => pend'[d] = pend[d] /\ events'[d] = events[d]
    BY <1>9, <1>t DEF Reject, TypeOK
  <2>2. PendIds' /\ PendWritten'
    BY <1>t, <1>o, <2>1, PendTail
  <2>3. \A d, i : OwnCell(d, i)' <=> OwnCell(d, i)
    BY <2>1 DEF OwnCell, Filled
  <2>4. \A d \in Writers : pend'[d] = pend[d] /\ events'[d] = events[d] /\ View(d)' = View(d)
    BY <2>1 DEF View
  <2>5. \A d \in Writers, i \in Idx : Own(d, i)' <=> Own(d, i)
    BY <2>3, <2>4 DEF Own
  <2>6. NotHeard' /\ OwnInView' /\ EventsCover' /\ CountCovers'
    BY <1>o, <2>1, <2>3, <2>4, <2>5 DEF NotHeard, OwnInView, EventsCover, CountCovers
  <2>7. InformedAbove'
    BY <1>o, <2>1, <2>3, <2>4 DEF InformedAbove
  <2> QED
    BY <2>2, <2>6, <2>7 DEF OwnInv
<1>10. ASSUME NEW c \in Clients, Disconnect(c) PROVE OwnInv'
  <2>1. UNCHANGED <<server, created, link, cache, pend, screen, events, heard, count>>
    BY <1>10 DEF Disconnect
  <2>2. PendIds' /\ PendWritten' /\ InformedAbove' /\ OwnShrinks
    BY <2>1, OwnQuiet
  <2>3. \A d, i : (OwnCell(d, i)' <=> OwnCell(d, i)) /\ View(d)' = View(d)
    BY <2>1, OwnQuiet DEF View
  <2>4. NotHeard' /\ OwnInView' /\ EventsCover' /\ CountCovers'
    BY <1>o, <2>1, <2>2, <2>3 DEF NotHeard, OwnInView, EventsCover, CountCovers, OwnShrinks
  <2> QED
    BY <2>2, <2>4 DEF OwnInv
<1>11. ASSUME NEW c \in Clients, Restart(c) PROVE OwnInv'
  <2>1. /\ UNCHANGED <<server, created>>
        /\ link'[c] = "idle" /\ pend'[c] = <<>> /\ events'[c] = <<>>
        /\ screen'[c] = "none" /\ ~heard'[c]
        /\ \A d \in Clients : d # c => /\ cache'[d] = cache[d] /\ pend'[d] = pend[d]
                                     /\ events'[d] = events[d] /\ count'[d] = count[d]
                                     /\ link'[d] = link[d] /\ screen'[d] = screen[d]
                                     /\ heard'[d] = heard[d]
    BY <1>11, <1>t DEF Restart, CloseScreen, TypeOK
  <2>2. \A d, i : OwnCell(d, i)' <=> OwnCell(d, i)
    BY <2>1 DEF OwnCell, Filled
  <2>3. \A d \in Clients : d # c => View(d)' = View(d)
    BY <2>1 DEF View
  <2>4. \A d \in Writers, i \in Idx : d # c => (Own(d, i)' <=> Own(d, i))
    BY <2>1, <2>2 DEF Own
  <2>5. PendIds' /\ PendWritten' /\ NotHeard'
    BY <1>o, <2>1 DEF PendIds, PendWritten, NotHeard
  <2>6. OwnInView'
    BY <1>o, <2>1, <2>2, <2>3 DEF OwnInView
  <2>7. EventsCover' /\ CountCovers'
    BY <1>o, <2>1, <2>4 DEF EventsCover, CountCovers
  <2>8. InformedAbove'
    BY <1>o, <2>1, <2>2 DEF InformedAbove
  <2> QED
    BY <2>5, <2>6, <2>7, <2>8 DEF OwnInv
<1>12. ASSUME NEW i \in Idx, Approve(i) PROVE OwnInv'
  <2>1. /\ UNCHANGED <<created, link, cache, pend, screen, events, heard, count>>
        /\ server[i] # NoRegion
        /\ server' = [server EXCEPT ![i] = [server[i] EXCEPT !.isProcessed = TRUE]]
    BY <1>12 DEF Approve, device
  <2>2. server[i] \in RegionModel
    BY <1>t, <2>1 DEF TypeOK, Node, Cell
  <2>3. \A j \in Idx : Filled(server', j) => /\ Filled(server, j)
                                            /\ server'[j].author = server[j].author
                                            /\ server'[j].id = server[j].id
    BY <1>t, <2>1, <2>2 DEF TypeOK, Node, Filled, RegionModel
  <2>4. \A d, j : j \in Idx /\ OwnCell(d, j)' => OwnCell(d, j) /\ server'[j].id = server[j].id
    BY <2>3 DEF OwnCell
  <2>5. OwnShrinks
    BY <2>1, <2>4 DEF OwnShrinks, Own
  <2>6. \A d : View(d)' = View(d)
    BY <2>1 DEF View
  <2>7. PendIds' /\ PendWritten' /\ NotHeard'
    BY <1>o, <2>1 DEF PendIds, PendWritten, NotHeard
  <2>8. OwnInView'
    BY <1>o, <2>1, <2>4, <2>6 DEF OwnInView
  <2>9. EventsCover' /\ CountCovers'
    BY <1>o, <2>1, <2>5 DEF EventsCover, CountCovers, OwnShrinks
  <2>10. InformedAbove'
    <3>1. \A d \in Writers : \A k \in DOMAIN pend[d] : pend[d][k].idx \in Idx
      BY <1>w
    <3> QED
      BY <1>o, <2>1, <2>4, <3>1 DEF InformedAbove
  <2> QED
    BY <2>7, <2>8, <2>9, <2>10 DEF OwnInv
<1>13. CASE UNCHANGED vars
  <2>1. UNCHANGED <<server, created, link, cache, pend, screen, events, heard, count>>
    BY <1>13 DEF vars, device
  <2>2. PendIds' /\ PendWritten' /\ InformedAbove' /\ OwnShrinks
    BY <2>1, OwnQuiet
  <2>3. \A d, i : (OwnCell(d, i)' <=> OwnCell(d, i)) /\ View(d)' = View(d)
    BY <2>1, OwnQuiet DEF View
  <2>4. NotHeard' /\ OwnInView' /\ EventsCover' /\ CountCovers'
    BY <1>o, <2>1, <2>2, <2>3 DEF NotHeard, OwnInView, EventsCover, CountCovers, OwnShrinks
  <2> QED
    BY <2>2, <2>4 DEF OwnInv
<1> QED
  BY <1>1, <1>2, <1>3, <1>4, <1>5, <1>6, <1>7, <1>8, <1>9, <1>10, <1>11, <1>12, <1>13 DEF Next

\* OwnInv: every state keeps the invariant about a device's own regions.
THEOREM OwnInvariant == Spec => []OwnInv
<1>1. CatalogInv /\ OwnInv /\ [Next]_vars => OwnInv'
  BY OwnStep
<1> QED
  BY <1>1, OwnInit, CatalogInvariant, PTL DEF Spec

\* OwnRegionsSurvive: when the server applies a region that was numbered by a
\* form that had received a snapshot, it overwrites no older region of the
\* same device, whatever was resent, lost or numbered by others meanwhile.
THEOREM CatalogOwnRegionsSurvive == Spec => OwnRegionsSurvive
<1> DEFINE Survives ==
      \A c \in Clients : sent'[c] = sent[c] + 1 =>
        LET w   == pend[c][sent'[c]]
            old == server[w.idx]
        IN  w.informed /\ old # NoRegion /\ old.author = c => old.id >= w.region.id
<1>1. CatalogInv /\ OwnInv /\ [Next]_vars => [Survives]_vars
  <2> SUFFICES ASSUME CatalogInv, OwnInv, Next, NEW c \in Clients, sent'[c] = sent[c] + 1,
                      pend[c][sent'[c]].informed,
                      server[pend[c][sent'[c]].idx] # NoRegion,
                      server[pend[c][sent'[c]].idx].author = c
               PROVE  server[pend[c][sent'[c]].idx].id >= pend[c][sent'[c]].region.id
    OBVIOUS
  <2>t. sent \in [Clients -> Nat] /\ pend[c] \in Seq(Write)
    BY DEF CatalogInv, TypeOK
  <2>1. sent' # sent /\ sent'[c] # 0 /\ sent'[c] # sent[c] - 1
    BY <2>t
  <2>2. ASSUME NEW d \in Clients, Ack(d) \/ Disconnect(d) \/ Restart(d) PROVE FALSE
    <3>1. d = c => sent'[c] = sent[c] - 1 \/ sent'[c] = 0
      BY <2>2, <2>t DEF Ack, Disconnect, Restart
    <3>2. d # c => sent'[c] = sent[c]
      BY <2>2, <2>t DEF Ack, Disconnect, Restart
    <3> QED
      BY <2>t, <2>1, <3>1, <3>2
  <2>3. \E d \in Clients : Apply(d)
    BY <2>1, <2>2 DEF Next, Open, Leave, DeliverCount, DeliverRegions, CreateRegion, Sync, Reject,
                      Approve, device
  <2>4. PICK d \in Clients : Apply(d)
    BY <2>3
  <2>5. d = c
    <3>1. d # c => sent'[c] = sent[c]
      BY <2>4, <2>t DEF Apply
    <3> QED
      BY <2>t, <3>1
  <2>6. c \in Writers /\ sent[c] + 1 \in DOMAIN pend[c]
    BY <2>4, <2>5, <2>t DEF Apply
  <2> QED
    BY <2>6 DEF OwnInv, InformedAbove, OwnCell, Filled
<1> QED
  BY <1>1, CatalogInvariant, OwnInvariant, PTL DEF Spec, OwnRegionsSurvive

=============================================================================
