---------------------------- MODULE CatalogueProofs ----------------------------
(***************************************************************************)
(* RegionCatalog implements Catalogue: the node the devices write to by    *)
(* number is, for its readers, one list.  Built on the invariant of        *)
(* RegionCatalogProofs, which keeps the keys contiguous.  The second part  *)
(* is about a reader: the region list shows what its device knows.         *)
(***************************************************************************)
EXTENDS RegionCatalogProofs

\* No pending write enters a region that claims to be processed.
PendFresh == \A c \in Clients : \A k \in DOMAIN pend[c] : ~pend[c][k].region.isProcessed

-----------------------------------------------------------------------------

\* A step that drops or keeps the writes of a device keeps them unprocessed.
LEMMA FreshStep == TypeOK /\ PendFresh /\ [Next]_vars => PendFresh'
<1> SUFFICES ASSUME TypeOK, PendFresh, [Next]_vars PROVE PendFresh'
  OBVIOUS
<1>1. ASSUME NEW c \in Clients, CreateRegion(c) PROVE PendFresh'
  <2> DEFINE w == [idx |-> count[c], region |-> NewRegion(c), informed |-> heard[c]]
  <2>1. pend' = [pend EXCEPT ![c] = Append(pend[c], w)]
    BY <1>1 DEF CreateRegion
  <2>2. ~w.region.isProcessed
    BY DEF NewRegion
  <2> HIDE DEF w
  <2> SUFFICES ASSUME NEW d \in Clients, NEW k \in DOMAIN pend'[d]
               PROVE  ~pend'[d][k].region.isProcessed
    BY DEF PendFresh
  <2>3. pend \in [Clients -> Seq(Write)]
    BY DEF TypeOK
  <2>4. CASE d # c
    BY <2>1, <2>3, <2>4 DEF PendFresh
  <2>5. CASE d = c
    <3>1. pend[c] \in Seq(Write) /\ pend'[c] = Append(pend[c], w) /\ k \in DOMAIN pend'[c]
      BY <2>1, <2>3, <2>5
    <3>2. k \in 1..(Len(pend[c]) + 1)
      BY <3>1
    <3>3. CASE k = Len(pend[c]) + 1
      <4>1. pend'[c][k] = w
        BY <3>1, <3>3
      <4> QED BY <2>2, <2>5, <4>1
    <3>4. CASE k # Len(pend[c]) + 1
      <4>1. k \in DOMAIN pend[c] /\ pend'[c][k] = pend[c][k]
        BY <3>1, <3>2, <3>4
      <4> QED BY <2>5, <4>1 DEF PendFresh
    <3> QED BY <3>3, <3>4
  <2> QED BY <2>4, <2>5
<1>2. ASSUME NEW c \in Clients, pend[c] # <<>>, pend' = [pend EXCEPT ![c] = Tail(@)]
      PROVE  PendFresh'
  <2> SUFFICES ASSUME NEW d \in Clients, NEW k \in DOMAIN pend'[d]
               PROVE  ~pend'[d][k].region.isProcessed
    BY DEF PendFresh
  <2>1. pend \in [Clients -> Seq(Write)]
    BY DEF TypeOK
  <2>2. CASE d # c
    BY <1>2, <2>1, <2>2 DEF PendFresh
  <2>3. CASE d = c
    <3>1. pend[c] \in Seq(Write) /\ pend'[c] = Tail(pend[c]) /\ k \in DOMAIN pend'[c]
      BY <1>2, <2>1, <2>3
    <3>2. Len(pend[c]) \in Nat \ {0} /\ Len(pend'[c]) = Len(pend[c]) - 1
      <4>1. pend[c] # <<>>
        BY <1>2
      <4>2. Len(pend[c]) \in Nat \ {0}
        BY <3>1, <4>1
      <4> QED BY <3>1, <4>2
    <3>3. k \in 1..(Len(pend[c]) - 1)
      BY <3>1, <3>2
    <3>4. k + 1 \in DOMAIN pend[c] /\ pend'[c][k] = pend[c][k + 1]
      BY <3>1, <3>2, <3>3
    <3> QED BY <2>3, <3>4 DEF PendFresh
  <2> QED BY <2>2, <2>3
<1>3. ASSUME NEW c \in Clients, Ack(c) PROVE PendFresh'
  <2>1. sent[c] > 0 /\ sent[c] <= Len(pend[c])
    BY <1>3 DEF Ack, TypeOK
  <2>2. pend[c] # <<>>
    BY <2>1 DEF TypeOK
  <2> QED BY <1>2, <1>3, <2>2 DEF Ack
<1>4. ASSUME NEW c \in Clients, Reject(c) PROVE PendFresh'
  BY <1>2, <1>4 DEF Reject
<1>5. ASSUME NEW c \in Clients, Restart(c) PROVE PendFresh'
  <2>1. pend' = [pend EXCEPT ![c] = <<>>] /\ pend \in [Clients -> Seq(Write)]
    BY <1>5 DEF Restart, TypeOK
  <2> QED BY <2>1 DEF PendFresh
<1>6. CASE UNCHANGED pend
  BY <1>6 DEF PendFresh
<1> QED BY <1>1, <1>3, <1>4, <1>5, <1>6
           DEF Next, vars, device, Open, Leave, DeliverCount, DeliverRegions, Sync, Apply,
               Disconnect, Approve

-----------------------------------------------------------------------------

\* Where the keys are 0..n-1, the exported list is that array.
LEMMA ExportedArray ==
  ASSUME NEW node, NEW n \in 0..Cap, IsArray(node, n)
  PROVE  Exported(node) = [i \in 1..n |-> node[i - 1]]
<1> DEFINE Ends(m) == /\ m # 0 => node[m - 1] # NoRegion
                      /\ \A i \in Idx : i >= m => node[i] = NoRegion
<1>0. Cap \in Nat
  BY CatalogAssumption DEF CatalogAssumption
<1>1. Ends(n)
  BY <1>0 DEF IsArray, Idx
<1>2. ASSUME NEW m \in 0..Cap, Ends(m) PROVE m = n
  <2>1. CASE m < n
    <3>1. m \in Idx
      BY <1>0, <2>1 DEF Idx
    <3> QED BY <1>0, <1>2, <2>1, <3>1 DEF IsArray
  <2>2. CASE m > n
    <3>1. m - 1 \in Idx /\ m - 1 >= n /\ m # 0
      BY <1>0, <2>2 DEF Idx
    <3> QED BY <1>0, <1>2, <2>2, <3>1 DEF IsArray
  <2> QED BY <1>0, <2>1, <2>2
<1>3. (CHOOSE m \in 0..Cap : Ends(m)) = n
  <2> HIDE DEF Ends
  <2> QED BY <1>1, <1>2
<1> QED BY <1>3 DEF Exported

\* The exported list of a contiguous catalogue is a list of regions.
LEMMA ExportedType ==
  ASSUME NEW node \in Node, NEW n \in 0..Cap, IsArray(node, n)
  PROVE  /\ Exported(node) \in Seq(RegionModel)
         /\ Len(Exported(node)) = n /\ DOMAIN Exported(node) = 1..n
         /\ \A i \in 1..n : Exported(node)[i] = node[i - 1]
<1>0. Cap \in Nat
  BY CatalogAssumption DEF CatalogAssumption
<1>1. \A i \in 1..n : node[i - 1] \in RegionModel
  BY <1>0 DEF Node, Cell, IsArray, Idx
<1>2. Exported(node) = [i \in 1..n |-> node[i - 1]]
  BY ExportedArray
<1>3. n \in Nat
  BY <1>0
<1> DEFINE a == [i \in 1..n |-> node[i - 1]]
<1>4. a \in Seq(RegionModel) /\ Len(a) = n /\ DOMAIN a = 1..n
  BY <1>1, <1>3
<1> QED BY <1>2, <1>4

LEMMA CatalogueInit == Init => C!Init
<1> SUFFICES ASSUME Init PROVE C!Init
  OBVIOUS
<1>1. CatalogInv
  BY CatalogInit
<1>2. PICK n \in 0..Cap : IsArray(server, n)
  BY <1>1 DEF CatalogInv, Contiguous
<1> QED BY <1>1, <1>2, ExportedType DEF CatalogInv, TypeOK, C!Init

\* The server applies a write at or below the end of the list.
LEMMA ApplySubmits ==
  ASSUME CatalogInv, CatalogInv', PendFresh, NEW c \in Clients, Apply(c)
  PROVE  \E i \in 1..(Len(Exported(server)) + 1) : C!Submit(i)
<1>0. Cap \in Nat
  BY CatalogAssumption DEF CatalogAssumption
<1>1. PICK n \in 0..Cap : IsArray(server, n)
  BY DEF CatalogInv, Contiguous
<1>2. PICK m \in 0..Cap : IsArray(server', m)
  BY DEF CatalogInv, Contiguous
<1> DEFINE w == pend[c][sent[c] + 1]
<1>3. sent[c] + 1 \in DOMAIN pend[c] /\ w \in Write
  <2>1. pend[c] \in Seq(Write) /\ sent[c] \in Nat /\ sent[c] < Len(pend[c])
    BY DEF Apply, CatalogInv, TypeOK
  <2> QED BY <2>1
<1>4. w.idx \in Idx /\ w.region \in RegionModel /\ ~w.region.isProcessed
  BY <1>3 DEF Write, PendFresh
<1>5. server' = [server EXCEPT ![w.idx] = w.region] /\ server \in [Idx -> Cell]
  BY DEF Apply, CatalogInv, TypeOK, Node
<1> HIDE DEF w
<1>6. server'[w.idx] = w.region /\ \A j \in Idx \ {w.idx} : server'[j] = server[j]
  BY <1>4, <1>5
<1>7. w.region # NoRegion
  BY <1>4, NoRegionAssumption
<1>8. w.idx \in 0..n /\ w.idx \in Nat /\ n \in Nat /\ m \in Nat
      /\ 1..m = (1..n) \cup {w.idx + 1}
  <2>1. w.idx \in Nat /\ w.idx < Cap
    BY <1>0, <1>4 DEF Idx
  <2>2. w.idx < m
    BY <1>2, <1>4, <1>6, <1>7 DEF IsArray
  <2>3. CASE w.idx < n
    <3>1. \A j \in Idx : server'[j] # NoRegion <=> server[j] # NoRegion
      BY <1>1, <1>4, <1>6, <1>7, <2>3 DEF IsArray
    <3>2. \A j \in Idx : j < m <=> j < n
      BY <1>1, <1>2, <3>1 DEF IsArray
    <3>3. m = n
      <4>1. CASE m < n
        <5>1. m \in Idx
          BY <1>0, <4>1 DEF Idx
        <5> QED BY <3>2, <4>1, <5>1
      <4>2. CASE n < m
        <5>1. n \in Idx
          BY <1>0, <4>2 DEF Idx
        <5> QED BY <3>2, <4>2, <5>1
      <4> QED BY <1>0, <4>1, <4>2
    <3> QED BY <1>0, <2>1, <2>3, <3>3
  <2>4. CASE w.idx >= n
    <3>1. \A j \in Idx : j < m <=> (j < n \/ j = w.idx)
      BY <1>1, <1>2, <1>4, <1>6, <1>7 DEF IsArray
    <3>2. w.idx = n
      <4>1. n \in Idx
        BY <1>0, <2>1, <2>4 DEF Idx
      <4> QED BY <1>0, <2>1, <2>2, <2>4, <3>1, <4>1
    <3>3. m = n + 1
      <4>1. CASE m > n + 1
        <5>1. n + 1 \in Idx
          BY <1>0, <4>1 DEF Idx
        <5> QED BY <1>0, <2>1, <3>1, <3>2, <4>1, <5>1
      <4> QED BY <1>0, <2>2, <3>2, <4>1
    <3> QED BY <1>0, <2>1, <3>2, <3>3
  <2> QED BY <1>0, <2>1, <2>3, <2>4
<1> DEFINE i == w.idx + 1
<1>9. /\ Len(Exported(server)) = n /\ DOMAIN Exported(server) = 1..n
      /\ \A j \in 1..n : Exported(server)[j] = server[j - 1]
  BY <1>1, ExportedType DEF CatalogInv, TypeOK
<1>10. /\ DOMAIN Exported(server') = 1..m /\ \A j \in 1..m : Exported(server')[j] = server'[j - 1]
  BY <1>2, ExportedType DEF CatalogInv, TypeOK
<1>11. i \in 1..(n + 1) /\ i \in 1..m /\ i - 1 = w.idx
  BY <1>8
<1>12. Exported(server')[i] = w.region
  BY <1>6, <1>10, <1>11
<1>13. \A j \in DOMAIN Exported(server) \ {i} : Exported(server')[j] = Exported(server)[j]
  <2> SUFFICES ASSUME NEW j \in 1..n, j # i PROVE Exported(server')[j] = Exported(server)[j]
    BY <1>9
  <2>1. j \in 1..m /\ j - 1 \in Idx /\ j - 1 # w.idx
    BY <1>0, <1>8, <1>11 DEF Idx
  <2> QED BY <1>6, <1>9, <1>10, <2>1
<1>14. C!Submit(i)
  BY <1>4, <1>8, <1>9, <1>10, <1>11, <1>12, <1>13 DEF C!Submit
<1> QED BY <1>9, <1>11, <1>14

\* The operator's approval is that of the list.
LEMMA ApproveApproves ==
  ASSUME CatalogInv, NEW k \in Idx, Approve(k)
  PROVE  \E i \in 1..(Len(Exported(server)) + 1) : C!Approve(i)
<1>0. Cap \in Nat
  BY CatalogAssumption DEF CatalogAssumption
<1>1. PICK n \in 0..Cap : IsArray(server, n)
  BY DEF CatalogInv, Contiguous
<1> DEFINE r == [server[k] EXCEPT !.isProcessed = TRUE]
<1>2. server[k] # NoRegion /\ ~server[k].isProcessed /\ server' = [server EXCEPT ![k] = r]
  BY DEF Approve
<1>3. server \in [Idx -> Cell] /\ server[k] \in RegionModel
  BY <1>2 DEF CatalogInv, TypeOK, Node, Cell
<1>4. r \in RegionModel /\ r # NoRegion
  BY <1>3, NoRegionAssumption DEF RegionModel
<1> HIDE DEF r
<1>5. server'[k] = r /\ \A j \in Idx \ {k} : server'[j] = server[j]
  BY <1>2, <1>3
<1>6. server' \in Node /\ IsArray(server', n)
  BY <1>1, <1>2, <1>3, <1>4, <1>5 DEF Node, Cell, IsArray
<1>7. /\ Exported(server) \in Seq(RegionModel) /\ Len(Exported(server)) = n
      /\ DOMAIN Exported(server) = 1..n
      /\ \A j \in 1..n : Exported(server)[j] = server[j - 1]
  BY <1>1, ExportedType DEF CatalogInv, TypeOK
<1>8. Exported(server') = [j \in 1..n |-> server'[j - 1]]
  BY <1>6, ExportedArray
<1>9. k \in Nat /\ k < n /\ k + 1 \in 1..n /\ n \in Nat
  BY <1>0, <1>1, <1>2 DEF IsArray, Idx
<1>10. Exported(server') = [Exported(server) EXCEPT ![k + 1] = r]
  <2>1. ASSUME NEW j \in 1..n
        PROVE  server'[j - 1] = IF j = k + 1 THEN r ELSE Exported(server)[j]
    <3>1. j - 1 \in Idx /\ (j - 1 = k <=> j = k + 1)
      BY <1>0, <1>9 DEF Idx
    <3> QED BY <1>5, <1>7, <3>1
  <2> QED BY <1>7, <1>8, <2>1
<1>11. Exported(server)[k + 1] = server[k]
  BY <1>7, <1>9
<1>12. C!Approve(k + 1)
  BY <1>2, <1>7, <1>9, <1>10, <1>11 DEF C!Approve, r
<1> QED BY <1>7, <1>9, <1>12

LEMMA CatalogueStep ==
  CatalogInv /\ CatalogInv' /\ PendFresh /\ [Next]_vars => [C!Next]_(Exported(server))
<1> SUFFICES ASSUME CatalogInv, CatalogInv', PendFresh, [Next]_vars
             PROVE  C!Next \/ UNCHANGED Exported(server)
  OBVIOUS
<1>1. ASSUME NEW c \in Clients, Apply(c) PROVE C!Next
  BY <1>1, ApplySubmits DEF C!Next
<1>2. ASSUME NEW i \in Idx, Approve(i) PROVE C!Next
  BY <1>2, ApproveApproves DEF C!Next
<1>3. CASE UNCHANGED server
  BY <1>3
<1> QED BY <1>1, <1>2, <1>3
           DEF Next, vars, Open, Leave, DeliverCount, DeliverRegions, CreateRegion, Sync, Ack,
               Reject, Disconnect, Restart

\* The server implements the list: createRegion's numbering from stale,
\* resent or lost snapshots never shows to a reader as anything else than
\* an unprocessed region entered at the end or in place of another.
THEOREM RegionCatalogImplements == Spec => ImplementsCatalogue
<1>1. Init => C!Init
  BY CatalogueInit
<1>2. Init => PendFresh
  BY DEF Init, PendFresh
<1>3. TypeOK /\ PendFresh /\ [Next]_vars => PendFresh'
  BY FreshStep
<1>4. CatalogInv /\ CatalogInv' /\ PendFresh /\ [Next]_vars => [C!Next]_(Exported(server))
  BY CatalogueStep
<1>5. CatalogInv => TypeOK
  BY DEF CatalogInv
<1> QED
  BY <1>1, <1>2, <1>3, <1>4, <1>5, CatalogInvariant, PTL DEF Spec, ImplementsCatalogue, C!Spec

-----------------------------------------------------------------------------
(* The list a device shows.  RegionsFresh alone is not inductive: an event *)
(* that is still queued must end up as the list, so the last one has to be *)
(* what the device knows; and a snapshot without a value leaves the list   *)
(* alone, which is right only if nothing processed was listed before.      *)

\* The last queued snapshot, or else the list, is up to date.
ListCurrent ==
  \A c \in Clients : screen[c] = "select" /\ link[c] = "synced" =>
    IF events[c] # <<>>
    THEN events[c][Len(events[c])] = View(c)
    ELSE (\E n \in 0..Cap : IsArray(View(c), n)) => regions[c] = Processed(View(c))

NothingCached(c) == \A i \in Idx : ~Filled(cache[c], i)

\* While the server has sent no region, none is listed or about to be.
NothingListed ==
  \A c \in Clients : NothingCached(c) =>
    /\ regions[c] = {}
    /\ \A k \in DOMAIN events[c] : Processed(events[c][k]) = {}

ListInv == PendFresh /\ ListCurrent /\ NothingListed

\* A device's own writes add no processed region to what it sees.
LEMMA OverlayUnprocessed ==
  ASSUME NEW node \in Node, NEW p \in Seq(Write),
         \A i \in Idx : ~Filled(node, i),
         \A k \in DOMAIN p : ~p[k].region.isProcessed
  PROVE  Processed(Overlay(node, p)) = {}
<1> SUFFICES ASSUME NEW i \in Idx, Overlay(node, p)[i] # NoRegion
             PROVE  ~Overlay(node, p)[i].isProcessed
  BY DEF Processed
<1>1. Written(p, i)
  BY OverlayFilled DEF Filled
<1> DEFINE k == CHOOSE k \in DOMAIN p : LastWrite(p, i, k)
<1>2. k \in DOMAIN p /\ Overlay(node, p)[i] = p[k].region
  BY <1>1 DEF Overlay, Written
<1> QED
  BY <1>2

\* A device whose view is replaced, with the event that announces it.
LEMMA ViewReplaced ==
  ASSUME TypeOK, ListCurrent, NothingListed, NEW c \in Clients, NEW node,
         node = View(c)', link'[c] = "synced",
         events' = [events EXCEPT ![c] = Raise(c, node)],
         UNCHANGED <<screen, regions>>,
         \A d \in Clients : d # c => /\ View(d)' = View(d) /\ link'[d] = link[d]
                                   /\ cache'[d] = cache[d],
         NothingCached(c)' => NothingCached(c) /\ Processed(node) = {}
  PROVE  ListCurrent' /\ NothingListed'
<1>1. /\ events[c] \in Seq(Node)
      /\ events'[c] = Raise(c, node)
      /\ \A d \in Clients : d # c => events'[d] = events[d]
  BY DEF TypeOK
<1>2. ListCurrent'
  <2> SUFFICES ASSUME NEW d \in Clients, screen[d] = "select", link'[d] = "synced"
               PROVE  IF events'[d] # <<>>
                      THEN events'[d][Len(events'[d])] = View(d)'
                      ELSE (\E n \in 0..Cap : IsArray(View(d)', n)) => regions[d] = Processed(View(d)')
    BY DEF ListCurrent
  <2>1. CASE d # c
    BY <1>1, <2>1 DEF ListCurrent
  <2>2. CASE d = c /\ (link[c] # "synced" \/ node # View(c))
    <3>1. events'[c] = Append(events[c], node)
      BY <1>1, <2>2 DEF Raise
    <3>2. events'[c] # <<>> /\ events'[c][Len(events'[c])] = node
      BY <1>1, <3>1
    <3> QED
      BY <2>2, <3>2
  <2>3. CASE d = c /\ link[c] = "synced" /\ node = View(c)
    <3>1. events'[c] = events[c]
      BY <1>1, <2>3 DEF Raise
    <3> QED
      BY <2>3, <3>1 DEF ListCurrent
  <2> QED
    BY <2>1, <2>2, <2>3
<1>3. NothingListed'
  <2> SUFFICES ASSUME NEW d \in Clients, NothingCached(d)'
               PROVE  /\ regions[d] = {}
                      /\ \A k \in DOMAIN events'[d] : Processed(events'[d][k]) = {}
    BY DEF NothingListed
  <2>1. CASE d # c
    BY <1>1, <2>1 DEF NothingListed, NothingCached
  <2>2. CASE d = c
    <3>1. NothingCached(c) /\ Processed(node) = {}
      BY <2>2
    <3>2. /\ regions[c] = {}
          /\ \A k \in DOMAIN events[c] : Processed(events[c][k]) = {}
      BY <3>1 DEF NothingListed
    <3>3. ASSUME NEW k \in DOMAIN events'[c] PROVE Processed(events'[c][k]) = {}
      <4>1. \/ events'[c][k] = View(c)'
            \/ \E l \in DOMAIN events[c] : events'[c][k] = events[c][l]
        BY RaiseFromEvents
      <4> QED
        BY <3>1, <3>2, <4>1
    <3> QED
      BY <2>2, <3>2, <3>3
  <2> QED
    BY <2>1, <2>2
<1> QED
  BY <1>2, <1>3

\* At the start nothing is shown.
LEMMA ListInit == Init => ListInv
  BY DEF Init, ListInv, PendFresh, ListCurrent, NothingListed

\* Every step keeps the list, or the queue that leads to it, up to date.
LEMMA ListStep == CatalogInv /\ ListInv /\ [Next]_vars => ListInv'
<1> SUFFICES ASSUME CatalogInv, ListInv, [Next]_vars PROVE ListInv'
  OBVIOUS
<1>t. TypeOK /\ TypeOK' /\ CacheBehind
  BY TypeStep DEF CatalogInv
<1>l. ListCurrent /\ NothingListed /\ PendFresh
  BY DEF ListInv
<1>f. PendFresh'
  BY <1>t, <1>l, FreshStep
<1> SUFFICES ListCurrent' /\ NothingListed'
  BY <1>f DEF ListInv
<1>1. ASSUME NEW c \in Clients, NEW s \in {"create", "select"}, Open(c, s)
      PROVE  ListCurrent' /\ NothingListed'
  <2>1. /\ UNCHANGED <<cache, pend, regions>>
        /\ \A d \in Clients : d # c => /\ screen'[d] = screen[d] /\ link'[d] = link[d]
                                     /\ events'[d] = events[d]
        /\ link'[c] = "synced" <=> link[c] = "synced"
        /\ events'[c] = IF link[c] = "synced" THEN <<View(c)>> ELSE <<>>
    BY <1>1, <1>t DEF Open, TypeOK
  <2>2. \A d : View(d)' = View(d)
    BY <2>1 DEF View
  <2>3. link'[c] = "synced" => /\ events'[c] # <<>>
                               /\ events'[c][Len(events'[c])] = View(c)'
    BY <2>1, <2>2
  <2>4. ListCurrent'
    BY <1>l, <2>1, <2>2, <2>3 DEF ListCurrent
  <2>5. NothingListed'
    <3>1. ASSUME NothingCached(c) PROVE Processed(View(c)) = {}
      BY <1>t, <1>l, <3>1, OverlayUnprocessed DEF View, PendFresh, NothingCached, TypeOK
    <3>2. ASSUME NothingCached(c), NEW k \in DOMAIN events'[c] PROVE Processed(events'[c][k]) = {}
      <4>1. events'[c] = <<View(c)>> /\ k = 1
        BY <2>1, <3>2
      <4> QED
        BY <3>1, <3>2, <4>1
    <3>3. \A d : NothingCached(d)' <=> NothingCached(d)
      BY <2>1 DEF NothingCached
    <3> QED
      BY <1>l, <2>1, <3>2, <3>3 DEF NothingListed
  <2> QED
    BY <2>4, <2>5
<1>2. ASSUME NEW c \in Clients, Leave(c) \/ CreateRegion(c) \/ Restart(c)
      PROVE  ListCurrent' /\ NothingListed'
  <2>1. /\ screen'[c] = "none" /\ events'[c] = <<>> /\ regions'[c] = {}
        /\ \A d \in Clients : d # c => /\ screen'[d] = screen[d] /\ link'[d] = link[d]
                                     /\ events'[d] = events[d] /\ regions'[d] = regions[d]
                                     /\ cache'[d] = cache[d] /\ pend'[d] = pend[d]
    BY <1>2, <1>t DEF Leave, CreateRegion, Restart, CloseScreen, TypeOK
  <2>2. \A d \in Clients : d # c => View(d)' = View(d)
    BY <2>1 DEF View
  <2>3. ListCurrent'
    BY <1>l, <2>1, <2>2 DEF ListCurrent
  <2>4. NothingListed'
    <3> SUFFICES ASSUME NEW d \in Clients, NothingCached(d)'
                 PROVE  /\ regions'[d] = {}
                        /\ \A k \in DOMAIN events'[d] : Processed(events'[d][k]) = {}
      BY DEF NothingListed
    <3>1. CASE d = c
      BY <2>1, <3>1
    <3>2. CASE d # c
      <4>1. NothingCached(d)
        BY <2>1, <3>2 DEF NothingCached
      <4> QED
        BY <1>l, <2>1, <3>2, <4>1 DEF NothingListed
    <3> QED
      BY <3>1, <3>2
  <2> QED
    BY <2>3, <2>4
<1>3. ASSUME NEW c \in Clients, DeliverCount(c) PROVE ListCurrent' /\ NothingListed'
  <2>1. /\ UNCHANGED <<cache, pend, link, screen, regions>>
        /\ screen[c] = "create" /\ events[c] # <<>>
        /\ events' = [events EXCEPT ![c] = Tail(@)]
        /\ \A d \in Clients : d # c => events'[d] = events[d]
    BY <1>3, <1>t DEF DeliverCount, TypeOK
  <2>2. \A d : View(d)' = View(d)
    BY <2>1 DEF View
  <2>3. \A d \in Clients : \A k \in DOMAIN events'[d] :
           \E l \in DOMAIN events[d] : events'[d][k] = events[d][l]
    BY <1>t, <2>1, TailFromEvents
  <2>4. ListCurrent'
    BY <1>l, <2>1, <2>2 DEF ListCurrent
  <2>5. NothingListed'
    <3>1. \A d : NothingCached(d)' <=> NothingCached(d)
      BY <2>1 DEF NothingCached
    <3>2. regions' = regions
      BY <2>1
    <3> QED
      BY <1>l, <2>3, <3>1, <3>2 DEF NothingListed
  <2> QED
    BY <2>4, <2>5
<1>4. ASSUME NEW c \in Clients, DeliverRegions(c) PROVE ListCurrent' /\ NothingListed'
  <2> DEFINE e == events[c]
             node == Head(e)
  <2>1. /\ UNCHANGED <<cache, pend, link, screen>>
        /\ screen[c] = "select" /\ e # <<>> /\ e \in Seq(Node)
        /\ events' = [events EXCEPT ![c] = Tail(@)]
        /\ events'[c] = Tail(e)
        /\ \A d \in Clients : d # c => events'[d] = events[d] /\ regions'[d] = regions[d]
        /\ \/ regions'[c] = Processed(node)
           \/ /\ \A n \in 1..Cap : ~IsArray(node, n)
              /\ regions'[c] = regions[c]
    BY <1>4, <1>t DEF DeliverRegions, TypeOK
  <2>2. \A d : View(d)' = View(d)
    BY <2>1 DEF View
  <2>3. \A d \in Clients : \A k \in DOMAIN events'[d] :
           \E l \in DOMAIN events[d] : events'[d][k] = events[d][l]
    BY <1>t, <2>1, TailFromEvents
  <2>4. 1 \in DOMAIN e /\ node = e[1]
    BY <2>1
  <2>5. NothingListed'
    <3>1. \A d : NothingCached(d)' <=> NothingCached(d)
      BY <2>1 DEF NothingCached
    <3>2. NothingCached(c) => regions[c] = {} /\ Processed(node) = {}
      BY <1>l, <2>4 DEF NothingListed
    <3>3. \A d \in Clients : NothingCached(d) => regions'[d] = {}
      BY <1>l, <2>1, <3>2 DEF NothingListed
    <3> QED
      BY <1>l, <2>3, <3>1, <3>3 DEF NothingListed
  <2>6. ListCurrent'
    <3> SUFFICES ASSUME NEW d \in Clients, screen[d] = "select", link[d] = "synced"
                 PROVE  IF events'[d] # <<>>
                        THEN events'[d][Len(events'[d])] = View(d)
                        ELSE (\E n \in 0..Cap : IsArray(View(d), n)) => regions'[d] = Processed(View(d))
      BY <2>1, <2>2 DEF ListCurrent
    <3>1. CASE d # c
      BY <1>l, <2>1, <3>1 DEF ListCurrent
    <3>2. CASE d = c /\ Tail(e) # <<>>
      <4>1. Tail(e)[Len(Tail(e))] = e[Len(e)]
        BY <2>1, <3>2
      <4> QED
        BY <1>l, <2>1, <3>2, <4>1 DEF ListCurrent
    <3>3. CASE d = c /\ Tail(e) = <<>>
      <4>1. Len(e) = 1
        <5>1. Len(Tail(e)) = Len(e) - 1 /\ Len(e) \in Nat
          <6> HIDE DEF e
          <6>1. Len(e) \in Nat \ {0}
            BY <2>1
          <6> QED
            BY <2>1, <6>1
        <5>2. Len(Tail(e)) = 0
          <6> DEFINE rest == Tail(e)
          <6>1. rest = <<>>
            BY <3>3
          <6> HIDE DEF rest
          <6>2. Len(rest) = 0
            BY <6>1
          <6> QED
            BY <6>2 DEF rest
        <5> QED
          BY <5>1, <5>2
      <4>2. node = View(c)
        BY <1>l, <2>1, <2>4, <3>3, <4>1 DEF ListCurrent
      <4>3. ASSUME NEW n \in 0..Cap, IsArray(node, n), \A m \in 1..Cap : ~IsArray(node, m)
            PROVE  regions[c] = Processed(node)
        <5>1. n = 0
          BY <4>3, CatalogAssumption
        <5>2. \A i \in Idx : node[i] = NoRegion
          BY <4>3, <5>1, CatalogAssumption DEF IsArray, Idx
        <5>3. NothingCached(c)
          <6>1. cache[c] \in Node /\ pend[c] \in Seq(Write)
            BY <1>t DEF TypeOK
          <6> QED
            BY <4>2, <5>2, <6>1, OverlayFilled DEF View, NothingCached, Filled
        <5>4. Processed(node) = {}
          BY <5>2 DEF Processed
        <5> QED
          BY <1>l, <5>3, <5>4 DEF NothingListed
      <4> QED
        BY <2>1, <3>3, <4>2, <4>3
    <3> QED
      BY <3>1, <3>2, <3>3
  <2> QED
    BY <2>5, <2>6
<1>5. ASSUME NEW c \in Clients, NEW q \in Seq(Write), NEW node \in Node,
             cache' = [cache EXCEPT ![c] = node],
             pend' = [pend EXCEPT ![c] = q],
             link' = [link EXCEPT ![c] = "synced"],
             events' = [events EXCEPT ![c] = Raise(c, Overlay(node, q))],
             UNCHANGED <<screen, regions>>,
             \A i \in Idx : Filled(cache[c], i) => Filled(node, i)
      PROVE  ListCurrent' /\ NothingListed'
  <2>1. /\ cache'[c] = node /\ pend'[c] = q /\ link'[c] = "synced"
        /\ \A d \in Clients : d # c => /\ cache'[d] = cache[d] /\ pend'[d] = pend[d]
                                     /\ link'[d] = link[d]
    BY <1>5, <1>t DEF TypeOK
  <2>2. View(c)' = Overlay(node, q) /\ \A d \in Clients : d # c => View(d)' = View(d)
    BY <2>1 DEF View
  <2>3. NothingCached(c)' => NothingCached(c) /\ Processed(Overlay(node, q)) = {}
    BY <1>5, <1>f, <2>1, OverlayUnprocessed DEF NothingCached, PendFresh
  <2> QED
    BY <1>5, <1>t, <1>l, <2>1, <2>2, <2>3, ViewReplaced
<1>6. ASSUME NEW c \in Clients, Sync(c) PROVE ListCurrent' /\ NothingListed'
  <2>1. /\ server \in Node /\ pend[c] \in Seq(Write)
        /\ pend' = [pend EXCEPT ![c] = pend[c]]
        /\ cache' = [cache EXCEPT ![c] = server]
        /\ link' = [link EXCEPT ![c] = "synced"]
        /\ events' = [events EXCEPT ![c] = Raise(c, Overlay(server, pend[c]))]
        /\ UNCHANGED <<screen, regions>>
    BY <1>6, <1>t DEF Sync, TypeOK
  <2>2. \A i \in Idx : Filled(cache[c], i) => Filled(server, i)
    BY <1>t DEF CacheBehind
  <2> QED
    BY <1>5, <2>1, <2>2
<1>7. ASSUME NEW c \in Clients, Ack(c) PROVE ListCurrent' /\ NothingListed'
  <2>1. /\ server \in Node /\ pend'[c] = Tail(pend[c]) /\ pend'[c] \in Seq(Write)
        /\ pend' = [pend EXCEPT ![c] = Tail(pend[c])]
        /\ cache' = [cache EXCEPT ![c] = server]
        /\ link' = [link EXCEPT ![c] = "synced"]
        /\ events' = [events EXCEPT ![c] = Raise(c, Overlay(server, Tail(pend[c])))]
        /\ UNCHANGED <<screen, regions>>
    BY <1>7, <1>t DEF Ack, TypeOK
  <2>2. \A i \in Idx : Filled(cache[c], i) => Filled(server, i)
    BY <1>t DEF CacheBehind
  <2> QED
    BY <1>5, <2>1, <2>2
<1>8. ASSUME NEW c \in Clients, Reject(c) PROVE ListCurrent' /\ NothingListed'
  <2>1. /\ UNCHANGED <<cache, link, screen, regions>>
        /\ pend' = [pend EXCEPT ![c] = Tail(pend[c])]
        /\ pend'[c] = Tail(pend[c]) /\ pend'[c] \in Seq(Write) /\ cache[c] \in Node
        /\ \A d \in Clients : d # c => pend'[d] = pend[d]
    BY <1>8, <1>t DEF Reject, TypeOK
  <2>2. CASE link[c] = "synced"
    <3>1. /\ cache' = [cache EXCEPT ![c] = cache[c]]
          /\ link' = [link EXCEPT ![c] = "synced"]
          /\ events' = [events EXCEPT ![c] = Raise(c, Overlay(cache[c], Tail(pend[c])))]
      BY <1>8, <1>t, <2>1, <2>2 DEF Reject, TypeOK
    <3> QED
      BY <1>5, <2>1, <3>1
  <2>3. CASE link[c] # "synced"
    <3>1. events' = events
      BY <1>8, <1>t, <2>3 DEF Reject, TypeOK
    <3>2. \A d \in Clients : d # c => View(d)' = View(d)
      BY <2>1 DEF View
    <3>3. ListCurrent'
      BY <1>l, <2>1, <2>3, <3>1, <3>2 DEF ListCurrent
    <3>4. NothingListed'
      BY <1>l, <2>1, <3>1 DEF NothingListed, NothingCached
    <3> QED
      BY <3>3, <3>4
  <2> QED
    BY <2>2, <2>3
<1>9. CASE UNCHANGED <<link, cache, pend, screen, events, regions>>
  <2>1. \A d : View(d)' = View(d)
    BY <1>9 DEF View
  <2> QED
    BY <1>l, <1>9, <2>1 DEF ListCurrent, NothingListed, NothingCached
<1>10. ASSUME NEW c \in Clients, Apply(c) \/ Disconnect(c)
       PROVE  UNCHANGED <<link, cache, pend, screen, events, regions>>
  BY <1>10 DEF Apply, Disconnect
<1>11. ASSUME NEW i \in Idx, Approve(i)
       PROVE  UNCHANGED <<link, cache, pend, screen, events, regions>>
  BY <1>11 DEF Approve, device
<1>12. CASE UNCHANGED vars
  BY <1>9, <1>12 DEF vars, device
<1> QED
  BY <1>1, <1>2, <1>3, <1>4, <1>6, <1>7, <1>8, <1>9, <1>10, <1>11, <1>12 DEF Next

\* RegionsFresh: a region list whose main queue has run out shows exactly the
\* processed regions its device knows of, for any refusals and resends.
THEOREM CatalogRegionsFresh == Spec => []RegionsFresh
<1>1. ListInv => RegionsFresh
  BY DEF ListInv, ListCurrent, RegionsFresh
<1>2. CatalogInv /\ ListInv /\ [Next]_vars => ListInv'
  BY ListStep
<1> QED
  BY <1>1, <1>2, ListInit, CatalogInvariant, PTL DEF Spec
=============================================================================
