----------------------------- MODULE ReportsProofs -----------------------------
(***************************************************************************)
(* Proofs about Reports, for any number of accounts and uploads.           *)
(***************************************************************************)
EXTENDS Reports, SequenceTheorems, TLAPS

Known(u) == View(server, pend, u)

\* Every stored and pending report lies under the account that sent it, and
\* is numbered below the next write.
NodesInv ==
  /\ \A u \in Accounts : \A r \in server[u] : r.author = u /\ r.id <= written
  /\ \A k \in DOMAIN pend : /\ pend[k].report.author = pend[k].node
                            /\ pend[k].report.id <= written

\* Nothing of a history outlives it.
ClosedInv ==
  /\ ~InHistory => events = <<>> /\ reports = {}
  /\ screen # "details" => viewed = NoReport

\* An upload is its screen's own only while that screen is open.
MineInv == \A k \in Uploads : uploads[k] # Idle /\ uploads[k].mine => screen = "create"

Seen(s) == \A r \in s : r.author = owner /\ r.id <= written

\* What the history shows, and will show, is of its owner.
SeenInv ==
  /\ Seen(reports)
  /\ viewed # NoReport => viewed.author = owner
  /\ \A k \in DOMAIN events : Seen(events[k])

\* The last snapshot on its way to the history is what the device knows.
LastInv ==
  InHistory =>
    /\ watched /\ owner \notin loaded => events = <<>>
    /\ owner \in loaded =>
         IF events = <<>> THEN Decodes(Known(owner)) => reports = Known(owner)
                          ELSE events[Len(events)] = Known(owner)

Before(s, t) == \A r \in s, b \in t : b.image # "url" => r.id < b.id

\* A report without an image that the device knows is younger than whatever
\* the history shows or can still decode.
BadInv ==
  InHistory /\ owner \in Accounts =>
    /\ Before(reports, Known(owner))
    /\ \A k \in DOMAIN events : Decodes(events[k]) => Before(events[k], Known(owner))

IInv == TypeOK /\ NodesInv /\ ClosedInv /\ MineInv /\ SeenInv /\ LastInv /\ BadInv

-----------------------------------------------------------------------------
(* Nodes with writes over them.                                            *)

LEMMA ViewElement ==
  ASSUME NEW nodes, NEW p, NEW u, NEW r
  PROVE  r \in View(nodes, p, u) <=>
           r \in nodes[u] \/ \E l \in DOMAIN p : p[l].node = u /\ p[l].report = r
BY DEF View

LEMMA ViewType ==
  ASSUME TypeOK, NEW p \in Seq(Write), NEW u \in Accounts
  PROVE  View(server, p, u) \subseteq Report
<1> SUFFICES ASSUME NEW r \in View(server, p, u) PROVE r \in Report
  OBVIOUS
<1>1. CASE r \in server[u]
  BY <1>1 DEF TypeOK
<1>2. CASE \E l \in DOMAIN p : p[l].node = u /\ p[l].report = r
  <2>1. PICK l \in DOMAIN p : p[l].report = r
    BY <1>2
  <2>2. p[l] \in Write
    BY <2>1
  <2> QED BY <2>1, <2>2 DEF Write
<1> QED BY <1>1, <1>2, ViewElement

\* Appending a write adds its report to its node, and to no other.
LEMMA ViewAppend ==
  ASSUME NEW nodes, NEW p \in Seq(Write), NEW w \in Write, NEW u
  PROVE  View(nodes, Append(p, w), u) =
           View(nodes, p, u) \cup (IF w.node = u THEN {w.report} ELSE {})
<1> DEFINE q == Append(p, w)
<1>1. DOMAIN q = 1..(Len(p) + 1) /\ DOMAIN p = 1..Len(p) /\ Len(p) \in Nat
      /\ q[Len(p) + 1] = w /\ \A l \in 1..Len(p) : q[l] = p[l]
  OBVIOUS
<1> HIDE DEF q
<1>2. ASSUME NEW r
      PROVE (\E l \in DOMAIN q : q[l].node = u /\ q[l].report = r) <=>
              \/ \E l \in DOMAIN p : p[l].node = u /\ p[l].report = r
              \/ w.node = u /\ w.report = r
  <2>1. ASSUME NEW l \in DOMAIN q, q[l].node = u, q[l].report = r
        PROVE  (\E k \in DOMAIN p : p[k].node = u /\ p[k].report = r) \/ (w.node = u /\ w.report = r)
    <3>1. CASE l = Len(p) + 1
      BY <1>1, <2>1, <3>1
    <3>2. CASE l # Len(p) + 1
      <4>1. l \in 1..Len(p)
        BY <1>1, <3>2
      <4> QED BY <1>1, <2>1, <4>1
    <3> QED BY <3>1, <3>2
  <2>2. ASSUME NEW l \in DOMAIN p, p[l].node = u, p[l].report = r
        PROVE  \E k \in DOMAIN q : q[k].node = u /\ q[k].report = r
    <3>1. l \in DOMAIN q /\ q[l] = p[l]
      BY <1>1
    <3> QED BY <2>2, <3>1
  <2>3. ASSUME w.node = u, w.report = r
        PROVE  \E k \in DOMAIN q : q[k].node = u /\ q[k].report = r
    <3>1. Len(p) + 1 \in DOMAIN q
      BY <1>1
    <3> QED BY <1>1, <2>3, <3>1
  <2> QED BY <2>1, <2>2, <2>3
<1>3. ASSUME NEW r
      PROVE  r \in View(nodes, q, u) <=>
               r \in View(nodes, p, u) \/ (w.node = u /\ w.report = r)
  BY <1>2, ViewElement
<1> QED BY <1>3 DEF q

\* Taking the head off leaves the other writes, in order.
LEMMA HeadAndTail ==
  ASSUME NEW p \in Seq(Write), p # <<>>
  PROVE  /\ Head(p) = p[1] /\ 1 \in DOMAIN p /\ Head(p) \in Write /\ Tail(p) \in Seq(Write)
         /\ DOMAIN p = 1..Len(p) /\ Len(p) \in Nat /\ DOMAIN Tail(p) = 1..(Len(p) - 1)
         /\ \A k \in DOMAIN Tail(p) : k + 1 \in DOMAIN p /\ Tail(p)[k] = p[k + 1]
<1>1. Len(p) \in Nat \ {0} /\ DOMAIN p = 1..Len(p)
  OBVIOUS
<1>2. Head(p) = p[1] /\ 1 \in DOMAIN p /\ Head(p) \in Write /\ Tail(p) \in Seq(Write)
  BY <1>1
<1>3. Len(Tail(p)) = Len(p) - 1 /\ DOMAIN Tail(p) = 1..(Len(p) - 1)
  BY <1>1
<1>4. \A k \in DOMAIN Tail(p) : k + 1 \in DOMAIN p /\ Tail(p)[k] = p[k + 1]
  BY <1>1, <1>3
<1> QED BY <1>1, <1>2, <1>3, <1>4

\* The view is that of the tail, with the report of the head.
LEMMA ViewTail ==
  ASSUME NEW nodes, NEW p \in Seq(Write), p # <<>>, NEW u, NEW r
  PROVE  r \in View(nodes, p, u) <=>
           r \in View(nodes, Tail(p), u) \/ (Head(p).node = u /\ r = Head(p).report)
<1> DEFINE q == Tail(p)
<1>1. /\ Head(p) = p[1] /\ 1 \in DOMAIN p /\ DOMAIN p = 1..Len(p) /\ Len(p) \in Nat
      /\ DOMAIN q = 1..(Len(p) - 1)
      /\ \A k \in DOMAIN q : k + 1 \in DOMAIN p /\ q[k] = p[k + 1]
  BY HeadAndTail
<1> HIDE DEF q
<1>2. (\E l \in DOMAIN p : p[l].node = u /\ p[l].report = r) <=>
        (\E l \in DOMAIN q : q[l].node = u /\ q[l].report = r)
          \/ (Head(p).node = u /\ Head(p).report = r)
  <2>1. ASSUME NEW l \in DOMAIN p, p[l].node = u, p[l].report = r, l # 1
        PROVE  \E k \in DOMAIN q : q[k].node = u /\ q[k].report = r
    <3>1. l - 1 \in DOMAIN q /\ q[l - 1] = p[(l - 1) + 1] /\ (l - 1) + 1 = l
      BY <1>1, <2>1
    <3> QED BY <2>1, <3>1
  <2>2. ASSUME NEW l \in DOMAIN q, q[l].node = u, q[l].report = r
        PROVE  \E k \in DOMAIN p : p[k].node = u /\ p[k].report = r
    BY <1>1, <2>2
  <2> QED BY <1>1, <2>1, <2>2
<1>3. r \in View(nodes, p, u) <=>
        r \in nodes[u] \/ \E l \in DOMAIN p : p[l].node = u /\ p[l].report = r
  BY ViewElement
<1>4. r \in View(nodes, q, u) <=>
        r \in nodes[u] \/ \E l \in DOMAIN q : q[l].node = u /\ q[l].report = r
  BY ViewElement
<1>5. r \in View(nodes, p, u) <=>
        r \in View(nodes, q, u) \/ (Head(p).node = u /\ r = Head(p).report)
  BY <1>2, <1>3, <1>4
<1> QED BY <1>5 DEF q

\* What the device knows of a node is by its owner and already numbered.
LEMMA KnownSeen ==
  ASSUME IInv, NEW u \in Accounts
  PROVE  \A r \in Known(u) : r \in Report /\ r.author = u /\ r.id <= written
<1> SUFFICES ASSUME NEW r \in Known(u) PROVE r \in Report /\ r.author = u /\ r.id <= written
  OBVIOUS
<1>1. r \in Report
  BY ViewType DEF Known, IInv, TypeOK
<1>2. r \in server[u] \/ \E l \in DOMAIN pend : pend[l].node = u /\ pend[l].report = r
  BY ViewElement DEF Known
<1> QED BY <1>1, <1>2 DEF IInv, NodesInv

-----------------------------------------------------------------------------

LEMMA ReportsInit == Init => IInv
<1> SUFFICES ASSUME Init PROVE IInv
  OBVIOUS
<1>1. TypeOK
  <2>1. late \in BOOLEAN /\ watched \in BOOLEAN /\ ~watched
    BY Zenon DEF Init
  <2>2. pend \in Seq(Write) /\ events \in Seq(SUBSET Report)
    BY DEF Init
  <2> QED BY <2>1, <2>2 DEF Init, TypeOK, Screens, InHistory
<1>2. NodesInv /\ ClosedInv /\ MineInv /\ SeenInv
  BY DEF Init, NodesInv, ClosedInv, MineInv, SeenInv, Seen
<1>3. LastInv /\ BadInv
  BY DEF Init, LastInv, BadInv, InHistory
<1> QED BY <1>1, <1>2, <1>3 DEF IInv

\* A change of the local writes, with the snapshot it queues: whatever is
\* new in the node is numbered after all that was seen.
LEMMA Raised ==
  ASSUME IInv, NEW p \in Seq(Write), pend' = p, events' = Raise(p), InHistory' <=> InHistory,
         UNCHANGED <<server, owner, watched, loaded, reports, viewed>>,
         written' \in Nat, written' >= written,
         InHistory /\ owner \in Accounts => \A r \in View(server, p, owner) :
           /\ r \in Report /\ r.author = owner /\ r.id <= written'
           /\ r \in Known(owner) \/ r.id > written
  PROVE  /\ events' \in Seq(SUBSET Report) /\ (~InHistory => events' = events)
         /\ SeenInv' /\ LastInv' /\ BadInv'
<1> DEFINE v == View(server, p, owner)
           grown == InHistory /\ owner \in loaded /\ v # Known(owner)
<1>1. TypeOK /\ events \in Seq(SUBSET Report) /\ written \in Nat
  BY DEF IInv, TypeOK
<1>2. events' = IF grown THEN Append(events, v) ELSE events
  BY DEF Raise, Known
<1>3. Known(owner)' = v
  BY DEF Known
<1>o. loaded \subseteq Accounts
  BY DEF IInv, TypeOK
<1>4. grown => v \in SUBSET Report /\ InHistory /\ owner \in Accounts
  BY <1>o
<1>v. InHistory /\ owner \in Accounts => \A r \in v :
        /\ r \in Report /\ r.author = owner /\ r.id <= written'
        /\ r \in Known(owner) \/ r.id > written
  OBVIOUS
<1> HIDE DEF v
<1>5. events' \in Seq(SUBSET Report)
  BY <1>1, <1>2, <1>4
<1>6. ASSUME NEW k \in DOMAIN events'
      PROVE  \/ k \in DOMAIN events /\ events'[k] = events[k]
             \/ grown /\ events'[k] = v
  <2>1. CASE ~grown
    BY <1>2, <2>1
  <2>2. CASE grown
    <3>1. events' = Append(events, v)
      BY <1>2, <2>2
    <3> HIDE DEF grown
    <3>2. k \in 1..(Len(events) + 1) /\ Len(events) \in Nat
      BY <1>1, <3>1
    <3>3. CASE k = Len(events) + 1
      BY <1>1, <2>2, <3>1, <3>3
    <3>4. CASE k # Len(events) + 1
      <4>1. k \in 1..Len(events)
        BY <3>2, <3>4
      <4> QED BY <1>1, <3>1, <4>1
    <3> QED BY <3>3, <3>4
  <2> QED BY <2>1, <2>2
<1>7. SeenInv'
  <2>2. Seen(reports)'
    <3>1. \A r \in reports : r.id \in Nat /\ r.id <= written /\ r.author = owner
      BY DEF IInv, SeenInv, TypeOK, Seen, Report
    <3> QED BY <1>1, <3>1 DEF Seen
  <2>3. viewed' # NoReport => viewed'.author = owner'
    BY DEF IInv, SeenInv
  <2>4. ASSUME NEW k \in DOMAIN events' PROVE Seen(events[k])'
    <3>1. CASE k \in DOMAIN events /\ events'[k] = events[k]
      <4>1. events[k] \subseteq Report /\ Seen(events[k])
        BY <1>1, <3>1 DEF IInv, SeenInv
      <4>2. \A r \in events[k] : r.id \in Nat /\ r.id <= written /\ r.author = owner
        BY <4>1 DEF Seen, Report
      <4> QED BY <1>1, <3>1, <4>2 DEF Seen
    <3>2. CASE grown /\ events'[k] = v
      BY <1>4, <1>v, <3>2 DEF Seen
    <3> QED BY <1>6, <3>1, <3>2
  <2> QED BY <2>2, <2>3, <2>4 DEF SeenInv
<1>8. LastInv'
  <2> SUFFICES ASSUME InHistory
               PROVE  /\ watched /\ owner \notin loaded => events' = <<>>
                      /\ owner \in loaded =>
                           IF events' = <<>> THEN Decodes(v) => reports = v
                                             ELSE events'[Len(events')] = v
    BY <1>3 DEF LastInv
  <2>1. CASE grown
    <3>1. events' = Append(events, v) /\ owner \in loaded
      BY <1>2, <2>1
    <3>2. events' # <<>> /\ events'[Len(events')] = v
      BY <1>1, <3>1
    <3> QED BY <3>1, <3>2
  <2>2. CASE ~grown
    <3>1. events' = events
      BY <1>2, <2>2
    <3>2. owner \in loaded => v = Known(owner)
      BY <2>2
    <3> QED BY <3>1, <3>2 DEF IInv, LastInv
  <2> QED BY <2>1, <2>2
<1>9. BadInv'
  <2> SUFFICES ASSUME InHistory, owner \in Accounts
               PROVE  /\ Before(reports, v)
                      /\ \A k \in DOMAIN events' : Decodes(events'[k]) => Before(events'[k], v)
    BY <1>3 DEF BadInv
  <2>1. ASSUME NEW t, t \subseteq Report, Seen(t), Before(t, Known(owner))
        PROVE  Before(t, v)
    <3> SUFFICES ASSUME NEW r \in t, NEW b \in v, b.image # "url" PROVE r.id < b.id
      BY DEF Before
    <3>1. r.id \in Nat /\ r.id <= written
      BY <2>1 DEF Seen, Report
    <3>2. b.id \in Nat
      BY <1>v DEF Report
    <3>3. CASE b \in Known(owner)
      BY <2>1, <3>3 DEF Before
    <3>4. CASE b.id > written
      BY <1>1, <3>1, <3>2, <3>4
    <3> QED BY <1>v, <3>3, <3>4
  <2>2. Before(reports, v)
    <3>1. reports \subseteq Report /\ Seen(reports) /\ Before(reports, Known(owner))
      BY DEF IInv, TypeOK, SeenInv, BadInv
    <3> QED BY <2>1, <3>1
  <2>3. ASSUME NEW k \in DOMAIN events', Decodes(events'[k]) PROVE Before(events'[k], v)
    <3>1. CASE k \in DOMAIN events /\ events'[k] = events[k]
      <4>1. events[k] \subseteq Report /\ Seen(events[k]) /\ Before(events[k], Known(owner))
        BY <1>1, <2>3, <3>1 DEF IInv, SeenInv, BadInv
      <4> QED BY <2>1, <3>1, <4>1
    <3>2. CASE grown /\ events'[k] = v
      BY <2>3, <3>2 DEF Decodes, Before
    <3> QED BY <1>6, <3>1, <3>2
  <2> QED BY <2>2, <2>3
<1>10. ~InHistory => events' = events
  BY <1>2
<1> QED BY <1>5, <1>7, <1>8, <1>9, <1>10


\* Uploads whose screen has gone are uploads that close nothing.
LEMMA OrphanedType ==
  ASSUME TypeOK
  PROVE  /\ Orphaned \in [Uploads -> Upload \cup {Idle}]
         /\ \A j \in Uploads : Orphaned[j] # Idle => ~Orphaned[j].mine
<1>1. \A j \in Uploads : uploads[j] # Idle =>
        [uploads[j] EXCEPT !.mine = FALSE] \in Upload /\ ~[uploads[j] EXCEPT !.mine = FALSE].mine
  BY DEF TypeOK, Upload
<1> QED BY <1>1 DEF Orphaned

\* The parts that a step without new data, events or writes leaves alone.
LEMMA Quiet ==
  ASSUME IInv, UNCHANGED <<owner, watched, server, pend, written, loaded, events, reports>>,
         InHistory' => InHistory
  PROVE  NodesInv' /\ LastInv' /\ BadInv'
<1>1. Known(owner)' = Known(owner)
  BY DEF Known
<1>2. NodesInv'
  BY DEF IInv, NodesInv
<1>3. LastInv' /\ BadInv'
  BY <1>1 DEF IInv, LastInv, BadInv
<1> QED BY <1>2, <1>3

\* completion of an upload: the report goes under the account read at the
\* press, with the next number.
LEMMA WriteStep ==
  ASSUME IInv, NEW k \in Uploads, uploads[k] # Idle, NEW image \in Images, WriteReport(k, image)
  PROVE  IInv'
<1> DEFINE r == NewReport(k, image)
           w == [node |-> uploads[k].author, report |-> r]
           p == Append(pend, w)
<1>1. TypeOK /\ uploads[k] \in Upload /\ pend \in Seq(Write) /\ written \in Nat
  BY DEF IInv, TypeOK
<1>2. r \in Report /\ r.id = written + 1 /\ r.author = uploads[k].author
  BY <1>1 DEF NewReport, Report, Upload
<1>3. w \in Write /\ w.node = uploads[k].author /\ w.report = r /\ r.author = w.node
  <2> HIDE DEF r
  <2> QED BY <1>1, <1>2 DEF Write, Upload
<1>4. /\ pend' = p /\ events' = Raise(p) /\ written' = written + 1
      /\ UNCHANGED <<account, late, owner, watched, pressed, server, loaded, reports, viewed>>
      /\ screen' = IF uploads[k].mine THEN "profile" ELSE screen
      /\ uploads' = [(IF uploads[k].mine THEN Orphaned ELSE uploads) EXCEPT ![k] = Idle]
  BY DEF WriteReport
<1> HIDE DEF r, w
<1>5. p \in Seq(Write)
  BY <1>1, <1>3
<1>6. InHistory' <=> InHistory
  BY <1>4 DEF IInv, MineInv, InHistory
<1>7. ASSUME InHistory, owner \in Accounts, NEW q \in View(server, p, owner)
      PROVE  /\ q \in Report /\ q.author = owner /\ q.id <= written'
             /\ q \in Known(owner) \/ q.id > written
  <2>1. q \in Known(owner) \/ (w.node = owner /\ q = w.report)
    BY <1>1, <1>3, <1>7, ViewAppend DEF Known
  <2>2. CASE q \in Known(owner)
    <3>1. q \in Report /\ q.author = owner /\ q.id <= written
      BY <1>7, <2>2, KnownSeen
    <3> QED BY <1>1, <1>4, <2>2, <3>1 DEF Report
  <2>3. CASE w.node = owner /\ q = w.report
    BY <1>1, <1>2, <1>3, <1>4, <2>3
  <2> QED BY <2>1, <2>2, <2>3
<1>8. /\ events' \in Seq(SUBSET Report) /\ (~InHistory => events' = events)
      /\ SeenInv' /\ LastInv' /\ BadInv'
  <2> HIDE DEF p
  <2>1. written' \in Nat /\ written' >= written
    BY <1>1, <1>4
  <2> QED BY <1>4, <1>5, <1>6, <1>7, <2>1, Raised
<1>9. Orphaned \in [Uploads -> Upload \cup {Idle}]
      /\ \A j \in Uploads : Orphaned[j] # Idle => ~Orphaned[j].mine
  BY <1>1, OrphanedType
<1>10. uploads' \in [Uploads -> Upload \cup {Idle}] /\ screen' \in Screens
       /\ (watched' => InHistory' /\ owner' # NoAccount)
  BY <1>1, <1>4, <1>6, <1>9 DEF TypeOK, Screens
<1>11. TypeOK'
  BY <1>1, <1>4, <1>5, <1>8, <1>10 DEF TypeOK
<1>12. NodesInv'
  <2>1. \A u \in Accounts : \A q \in server'[u] : q.author = u /\ q.id <= written'
    <3>1. \A u \in Accounts : \A q \in server[u] : q.author = u /\ q.id <= written /\ q.id \in Nat
      BY <1>1 DEF IInv, NodesInv, TypeOK, Report
    <3> QED BY <1>1, <1>4, <3>1
  <2>2. ASSUME NEW j \in DOMAIN pend'
        PROVE  pend'[j].report.author = pend'[j].node /\ pend'[j].report.id <= written'
    <3>1. pend' = Append(pend, w) /\ j \in 1..(Len(pend) + 1)
      BY <1>1, <1>4, <2>2
    <3>2. CASE j = Len(pend) + 1
      <4>1. pend'[j] = w
        BY <1>1, <3>1, <3>2
      <4> QED BY <1>1, <1>2, <1>3, <1>4, <4>1
    <3>3. CASE j # Len(pend) + 1
      <4>1. j \in DOMAIN pend /\ pend'[j] = pend[j] /\ pend[j] \in Write
        BY <1>1, <3>1, <3>3
      <4>2. pend[j].report.id \in Nat /\ pend[j].report.id <= written
            /\ pend[j].report.author = pend[j].node
        BY <4>1 DEF IInv, NodesInv, Write, Report
      <4> QED BY <1>1, <1>4, <4>1, <4>2
    <3> QED BY <3>2, <3>3
  <2> QED BY <2>1, <2>2 DEF NodesInv
<1>13. ClosedInv'
  BY <1>4, <1>6, <1>8 DEF IInv, ClosedInv, MineInv
<1>14. MineInv'
  <2>1. CASE uploads[k].mine
    <3>1. uploads' = [Orphaned EXCEPT ![k] = Idle]
      BY <1>4, <2>1
    <3> QED BY <1>9, <3>1 DEF MineInv
  <2>2. CASE ~uploads[k].mine
    <3>1. uploads' = [uploads EXCEPT ![k] = Idle] /\ screen' = screen
      BY <1>4, <2>2
    <3> QED BY <1>1, <3>1 DEF IInv, MineInv, TypeOK
  <2> QED BY <2>1, <2>2
<1> QED BY <1>8, <1>11, <1>12, <1>13, <1>14 DEF IInv

LEMMA RefuseStep ==
  ASSUME IInv, Refuse
  PROVE  IInv'
<1> DEFINE p == Tail(pend)
<1>1. TypeOK /\ pend \in Seq(Write) /\ pend # <<>> /\ written \in Nat
  BY DEF IInv, TypeOK, Refuse
<1>2. p \in Seq(Write) /\ \A j \in DOMAIN p : j + 1 \in DOMAIN pend /\ p[j] = pend[j + 1]
  BY <1>1, HeadAndTail
<1>3. View(server, p, owner) \subseteq Known(owner)
  BY <1>1, ViewTail DEF Known
<1>4. /\ pend' = p /\ events' = Raise(p) /\ (InHistory' <=> InHistory)
      /\ UNCHANGED <<account, late, owner, watched, screen, uploads, pressed, server, written,
                     loaded, reports, viewed>>
  BY DEF Refuse, InHistory
<1> HIDE DEF p
<1>5. ASSUME InHistory, owner \in Accounts, NEW q \in View(server, p, owner)
      PROVE  /\ q \in Report /\ q.author = owner /\ q.id <= written'
             /\ q \in Known(owner) \/ q.id > written
  <2> QED BY <1>3, <1>4, <1>5, KnownSeen
<1>6. /\ events' \in Seq(SUBSET Report) /\ (~InHistory => events' = events)
      /\ SeenInv' /\ LastInv' /\ BadInv'
  <2>1. written' \in Nat /\ written' >= written
    BY <1>1, <1>4
  <2> QED BY <1>2, <1>4, <1>5, <2>1, Raised
<1>7. TypeOK'
  BY <1>1, <1>2, <1>4, <1>6 DEF TypeOK
<1>8. NodesInv'
  BY <1>2, <1>4 DEF IInv, NodesInv
<1>9. ClosedInv' /\ MineInv'
  BY <1>4, <1>6 DEF IInv, ClosedInv, MineInv
<1> QED BY <1>6, <1>7, <1>8, <1>9 DEF IInv

\* An acknowledged write moves to the server; the view stays.
LEMMA AcceptStep ==
  ASSUME IInv, Accept
  PROVE  IInv'
<1> DEFINE w == Head(pend)
           p == Tail(pend)
<1>1. TypeOK /\ pend \in Seq(Write) /\ pend # <<>> /\ server \in [Accounts -> SUBSET Report]
  BY DEF IInv, TypeOK, Accept
<1>2. /\ w = pend[1] /\ 1 \in DOMAIN pend /\ w \in Write /\ p \in Seq(Write)
      /\ \A j \in DOMAIN p : j + 1 \in DOMAIN pend /\ p[j] = pend[j + 1]
  BY <1>1, HeadAndTail
<1>3. ASSUME NEW u, NEW q
      PROVE  q \in Known(u) <=> q \in View(server, p, u) \/ (w.node = u /\ q = w.report)
  BY <1>1, ViewTail DEF Known
<1>4. /\ server' = [server EXCEPT ![w.node] = server[w.node] \cup {w.report}] /\ pend' = p
      /\ UNCHANGED <<account, late, owner, watched, screen, uploads, pressed, written, loaded,
                     events, reports, viewed>>
  BY DEF Accept
<1>5. w.node \in Accounts /\ w.report \in Report /\ w.report.author = w.node /\ w.report.id <= written
  BY <1>2 DEF Write, IInv, NodesInv
<1> HIDE DEF w, p
<1>6. ASSUME NEW u \in Accounts
      PROVE  server'[u] = server[u] \cup (IF w.node = u THEN {w.report} ELSE {})
  BY <1>1, <1>4, <1>5
<1>7. ASSUME NEW u \in Accounts PROVE Known(u)' = Known(u)
  <2>1. ASSUME NEW q PROVE q \in View(server', p, u) <=> q \in Known(u)
    <3>1. q \in View(server', p, u) <=>
            q \in server'[u] \/ \E l \in DOMAIN p : p[l].node = u /\ p[l].report = q
      BY ViewElement
    <3>2. q \in View(server, p, u) <=>
            q \in server[u] \/ \E l \in DOMAIN p : p[l].node = u /\ p[l].report = q
      BY ViewElement
    <3> QED BY <1>3, <1>6, <3>1, <3>2
  <2>2. Known(u)' = View(server', p, u)
    BY <1>4 DEF Known
  <2> QED BY <2>1, <2>2
<1>8. TypeOK'
  <2>1. server' \in [Accounts -> SUBSET Report]
    BY <1>1, <1>4, <1>5
  <2> QED BY <1>1, <1>2, <1>4, <2>1 DEF TypeOK, InHistory
<1>9. NodesInv'
  <2>1. \A u \in Accounts : \A q \in server'[u] : q.author = u /\ q.id <= written
    BY <1>5, <1>6 DEF IInv, NodesInv
  <2> QED BY <1>2, <1>4, <2>1 DEF IInv, NodesInv
<1>10. ClosedInv' /\ MineInv' /\ SeenInv'
  BY <1>4 DEF IInv, ClosedInv, MineInv, SeenInv, Seen, InHistory
<1>11. LastInv' /\ BadInv'
  <2>1. loaded \subseteq Accounts
    BY DEF IInv, TypeOK
  <2>2. owner \in Accounts => Known(owner)' = Known(owner)
    BY <1>4, <1>7
  <2> QED BY <1>4, <2>1, <2>2 DEF IInv, LastInv, BadInv, InHistory
<1> QED BY <1>8, <1>9, <1>10, <1>11 DEF IInv

\* The observer takes the oldest snapshot.
LEMMA DeliverStep ==
  ASSUME IInv, Deliver
  PROVE  IInv'
<1> DEFINE e == Head(events)
           rest == Tail(events)
<1>1. TypeOK /\ events \in Seq(SUBSET Report) /\ events # <<>> /\ InHistory
  BY DEF IInv, TypeOK, Deliver
<1>2. Len(events) \in Nat \ {0} /\ DOMAIN events = 1..Len(events)
  BY <1>1
<1>3. e = events[1] /\ 1 \in DOMAIN events /\ e \in SUBSET Report /\ rest \in Seq(SUBSET Report)
  BY <1>1, <1>2
<1>4. Len(rest) = Len(events) - 1 /\ DOMAIN rest = 1..(Len(events) - 1)
  BY <1>1, <1>2
<1>5. \A k \in DOMAIN rest : k + 1 \in DOMAIN events /\ rest[k] = events[k + 1]
  BY <1>1, <1>2, <1>4
<1>6. /\ events' = rest /\ reports' = IF Decodes(e) THEN e ELSE reports
      /\ UNCHANGED <<account, late, owner, watched, screen, uploads, pressed, server, pend,
                     written, loaded, viewed>>
  BY DEF Deliver
<1>7. /\ watched => owner \in loaded
      /\ owner \in loaded => events[Len(events)] = Known(owner)
  BY <1>1 DEF IInv, LastInv
<1>8. Known(owner)' = Known(owner)
  BY <1>6 DEF Known
<1> HIDE DEF e, rest
<1>9. TypeOK'
  BY <1>1, <1>3, <1>6 DEF TypeOK, InHistory
<1>10. NodesInv' /\ ClosedInv' /\ MineInv'
  BY <1>1, <1>6 DEF IInv, NodesInv, ClosedInv, MineInv, InHistory
<1>11. SeenInv'
  <2>1. Seen(e) /\ Seen(reports) /\ \A k \in DOMAIN rest : Seen(rest[k])
    BY <1>3, <1>5 DEF IInv, SeenInv
  <2>2. \A r \in reports' : r.author = owner /\ r.id <= written
    BY <1>6, <2>1 DEF Seen
  <2> QED BY <1>6, <2>1, <2>2 DEF IInv, SeenInv, Seen
<1>12. LastInv'
  <2>1. CASE rest = <<>>
    <3>1. Len(rest) = 0
      BY <2>1
    <3>2. Len(events) = 1
      <4>1. Len(events) - 1 = 0
        BY <1>4, <3>1
      <4> QED BY <1>2, <4>1
    <3>3. owner \in loaded => e = Known(owner)
      BY <1>3, <1>7, <3>2
    <3>4. owner \in loaded /\ Decodes(Known(owner)) => reports' = Known(owner)
      BY <1>6, <3>3
    <3> QED BY <1>6, <1>7, <1>8, <2>1, <3>4 DEF LastInv, Decodes
  <2>2. CASE rest # <<>>
    <3>1. Len(rest) \in DOMAIN rest
      <4>1. Len(rest) \in Nat \ {0}
        BY <1>3, <2>2
      <4> QED BY <1>2, <1>4, <4>1
    <3>2. rest[Len(rest)] = events[Len(events)]
      BY <1>2, <1>4, <1>5, <3>1
    <3> QED BY <1>6, <1>7, <1>8, <2>2, <3>2 DEF LastInv
  <2> QED BY <2>1, <2>2
<1>13. BadInv'
  <2> SUFFICES ASSUME owner \in Accounts PROVE BadInv'
    BY <1>6 DEF BadInv
  <2>1. /\ Before(reports, Known(owner)) /\ (Decodes(e) => Before(e, Known(owner)))
        /\ \A k \in DOMAIN rest : Decodes(rest[k]) => Before(rest[k], Known(owner))
    BY <1>1, <1>3, <1>5 DEF IInv, BadInv
  <2>2. Before(reports', Known(owner))
    BY <1>6, <2>1
  <2> QED BY <1>6, <1>8, <2>1, <2>2 DEF BadInv, Before, Decodes
<1> QED BY <1>9, <1>10, <1>11, <1>12, <1>13 DEF IInv

\* The first data of the node, and a history that opens on complete data,
\* both bring the whole view.
LEMMA FirstEvent ==
  ASSUME IInv, NEW o \in Accounts, owner' = o, o \in loaded', InHistory',
         o = owner \/ (reports = {} /\ viewed = NoReport),
         events' = <<Known(o)>>, Before(reports, Known(o)),
         UNCHANGED <<server, pend, written, reports, viewed>>
  PROVE  events' \in Seq(SUBSET Report) /\ SeenInv' /\ LastInv' /\ BadInv'
<1> DEFINE v == Known(o)
<1>1. v \in SUBSET Report /\ \A r \in v : r.author = o /\ r.id <= written
  BY KnownSeen
<1>2. Known(owner)' = v
  BY DEF Known
<1>3. events' = <<v>>
  OBVIOUS
<1> HIDE DEF v
<1>4. events' \in Seq(SUBSET Report) /\ DOMAIN events' = {1} /\ events'[1] = v
      /\ events' # <<>> /\ Len(events') = 1
  BY <1>1, <1>3
<1>5. SeenInv'
  BY <1>1, <1>4 DEF IInv, SeenInv, Seen
<1>6. LastInv'
  BY <1>2, <1>4 DEF LastInv
<1>7. BadInv'
  <2>1. Decodes(v) => Before(v, v)
    BY DEF Decodes, Before
  <2>2. Before(reports, v)
    BY DEF v
  <2> QED BY <1>2, <1>4, <2>1, <2>2 DEF BadInv, Before, Decodes
<1> QED BY <1>4, <1>5, <1>6, <1>7

LEMMA SyncStep ==
  ASSUME IInv, Sync
  PROVE  IInv'
<1>1. watched /\ InHistory /\ InHistory' /\ owner \in Accounts /\ events = <<>>
  BY DEF Sync, IInv, TypeOK, LastInv, InHistory
<1>2. /\ events' = <<Known(owner)>> /\ loaded' = loaded \cup {owner}
      /\ UNCHANGED <<account, late, owner, watched, screen, uploads, pressed, server, pend,
                     written, reports, viewed>>
  BY <1>1 DEF Sync, Known
<1>3. Before(reports, Known(owner))
  BY <1>1 DEF IInv, BadInv
<1>4. events' \in Seq(SUBSET Report) /\ SeenInv' /\ LastInv' /\ BadInv'
  BY <1>1, <1>2, <1>3, FirstEvent
<1>5. TypeOK'
  BY <1>1, <1>2, <1>4 DEF IInv, TypeOK
<1>6. NodesInv' /\ ClosedInv' /\ MineInv'
  BY <1>1, <1>2 DEF IInv, NodesInv, ClosedInv, MineInv
<1> QED BY <1>4, <1>5, <1>6 DEF IInv

\* A cancelled observer: what is queued for it is still of its node.
LEMMA CancelStep ==
  ASSUME IInv, NEW u \in Accounts, Cancel(u)
  PROVE  IInv'
<1>1. /\ watched' = (watched /\ owner # u) /\ loaded' = loaded \ {u}
      /\ UNCHANGED <<account, late, owner, screen, uploads, pressed, server, pend, written,
                     events, reports, viewed>>
      /\ InHistory' = InHistory
  BY DEF Cancel, InHistory
<1>2. TypeOK'
  <2>1. watched' \in BOOLEAN /\ (watched' => watched)
    BY <1>1, Zenon
  <2> QED BY <1>1, <2>1 DEF IInv, TypeOK
<1>3. NodesInv' /\ ClosedInv' /\ MineInv' /\ SeenInv'
  BY <1>1 DEF IInv, NodesInv, ClosedInv, MineInv, SeenInv, Seen
<1>4. Known(owner)' = Known(owner)
  BY <1>1 DEF Known
<1>5. LastInv' /\ BadInv'
  BY <1>1, <1>4 DEF IInv, LastInv, BadInv
<1> QED BY <1>2, <1>3, <1>5 DEF IInv

LEMMA OpenHistoryStep ==
  ASSUME IInv, OpenHistory
  PROVE  IInv'
<1>1. /\ ~InHistory /\ reports = {} /\ events = <<>> /\ viewed = NoReport
      /\ InHistory' /\ screen' = "history" /\ owner' = account
      /\ UNCHANGED <<account, late, uploads, pressed, server, pend, written, loaded, reports,
                     viewed>>
  BY DEF OpenHistory, IInv, TypeOK, ClosedInv, InHistory
<1>w. watched' \in BOOLEAN /\ (watched' => owner' # NoAccount)
  BY Zenon DEF OpenHistory
<1>2. NodesInv' /\ ClosedInv' /\ MineInv'
  BY <1>1 DEF OpenHistory, IInv, NodesInv, ClosedInv, MineInv
<1>3. events' \in Seq(SUBSET Report) /\ SeenInv' /\ LastInv' /\ BadInv'
  <2>1. CASE account \in loaded
    <3>1. events' = <<Known(account)>>
      BY <2>1 DEF OpenHistory, Known
    <3>2. Before(reports, Known(account)) /\ account \in Accounts
      BY <1>1, <2>1 DEF Before, IInv, TypeOK
    <3> QED BY <1>1, <2>1, <3>1, <3>2, FirstEvent
  <2>2. CASE account \notin loaded
    <3>1. events' = <<>>
      BY <2>2 DEF OpenHistory
    <3>2. SeenInv' /\ BadInv'
      BY <1>1, <3>1 DEF IInv, SeenInv, Seen, BadInv, Before
    <3>3. LastInv'
      BY <1>1, <2>2, <3>1 DEF LastInv
    <3> QED BY <3>1, <3>2, <3>3
  <2> QED BY <2>1, <2>2
<1>4. TypeOK'
  BY <1>1, <1>3, <1>w DEF IInv, TypeOK, Screens
<1> QED BY <1>2, <1>3, <1>4 DEF IInv

LEMMA BackStep ==
  ASSUME IInv, Back
  PROVE  IInv'
<1>1. /\ TypeOK /\ UNCHANGED <<account, late, pressed, server, pend, written, loaded>>
  BY DEF Back, IInv
<1>2. CASE screen = "create" /\ screen' = "profile" /\ uploads' = Orphaned
           /\ UNCHANGED <<owner, watched, events, reports, viewed>>
  <2>1. Orphaned \in [Uploads -> Upload \cup {Idle}]
        /\ \A j \in Uploads : Orphaned[j] # Idle => ~Orphaned[j].mine
    BY <1>1, OrphanedType
  <2>2. TypeOK'
    BY <1>1, <1>2, <2>1 DEF TypeOK, Screens, InHistory
  <2>3. ~InHistory /\ ~InHistory'
    BY <1>2 DEF InHistory
  <2>4. NodesInv' /\ LastInv' /\ BadInv'
    BY <1>1, <1>2, <2>3, Quiet
  <2>5. ClosedInv' /\ MineInv' /\ SeenInv'
    BY <1>1, <1>2, <2>1, <2>3 DEF IInv, ClosedInv, MineInv, SeenInv, Seen
  <2> QED BY <2>2, <2>4, <2>5 DEF IInv
<1>3. CASE screen = "history" /\ screen' = "profile" /\ owner' = NoAccount /\ watched' = FALSE
           /\ events' = <<>> /\ reports' = {} /\ UNCHANGED <<uploads, viewed>>
  <2>1. TypeOK'
    <3>1. watched' \in BOOLEAN /\ ~watched'
      BY <1>3, Zenon
    <3> QED BY <1>1, <1>3, <3>1 DEF TypeOK, Screens
  <2>2. ~InHistory'
    BY <1>3 DEF InHistory
  <2>3. NodesInv' /\ LastInv' /\ BadInv'
    BY <1>1, <1>3, <2>2 DEF IInv, NodesInv, LastInv, BadInv
  <2>4. ClosedInv' /\ MineInv' /\ SeenInv'
    BY <1>1, <1>3, <2>2 DEF IInv, ClosedInv, MineInv, SeenInv, Seen
  <2> QED BY <2>1, <2>3, <2>4 DEF IInv
<1>4. CASE screen = "details" /\ screen' = "history" /\ viewed' = NoReport
           /\ UNCHANGED <<owner, watched, uploads, events, reports>>
  <2>1. TypeOK'
    BY <1>1, <1>4 DEF TypeOK, Screens, InHistory
  <2>2. InHistory /\ InHistory'
    BY <1>4 DEF InHistory
  <2>3. NodesInv' /\ LastInv' /\ BadInv'
    BY <1>1, <1>4, <2>2, Quiet
  <2>4. ClosedInv' /\ MineInv' /\ SeenInv'
    BY <1>1, <1>4, <2>2 DEF IInv, ClosedInv, MineInv, SeenInv, Seen
  <2> QED BY <2>1, <2>3, <2>4 DEF IInv
<1>5. CASE screen = "profile" /\ screen' = "list"
           /\ UNCHANGED <<owner, watched, uploads, events, reports, viewed>>
  <2>1. ~InHistory /\ ~InHistory' /\ screen' \in Screens
    BY <1>5 DEF InHistory, Screens
  <2>2. TypeOK'
    BY <1>1, <1>5, <2>1 DEF TypeOK
  <2>3. NodesInv' /\ LastInv' /\ BadInv'
    BY <1>1, <1>5, <2>1, Quiet
  <2>4. ClosedInv' /\ MineInv' /\ SeenInv'
    BY <1>1, <1>5, <2>1 DEF IInv, ClosedInv, MineInv, SeenInv, Seen
  <2> QED BY <2>2, <2>3, <2>4 DEF IInv
<1> QED BY <1>2, <1>3, <1>4, <1>5 DEF Back

LEMMA UploadStep ==
  ASSUME IInv, NEW k \in Uploads,
         (\E encodable \in BOOLEAN : CreateReport(k, encodable)) \/ UploadDone(k)
  PROVE  IInv'
<1>1. TypeOK /\ UNCHANGED <<account, late, owner, watched, screen, server, pend, written,
                            loaded, events, reports, viewed>>
  BY DEF IInv, CreateReport, UploadDone
<1>2. pressed' \subseteq Uploads /\ uploads' \in [Uploads -> Upload \cup {Idle}] /\ MineInv'
  <2>1. ASSUME NEW encodable \in BOOLEAN, CreateReport(k, encodable)
        PROVE  pressed' \subseteq Uploads /\ uploads' \in [Uploads -> Upload \cup {Idle}] /\ MineInv'
    <3>1. screen = "create" /\ screen' = "create" /\ account \in Accounts
      BY <1>1, <2>1 DEF CreateReport, TypeOK
    <3> DEFINE u == [author |-> account, stage |-> "putData", mine |-> TRUE]
    <3>2. u \in Upload
      BY <3>1 DEF Upload
    <3>3. uploads' = [uploads EXCEPT ![k] = IF encodable THEN u ELSE Idle]
          /\ pressed' = pressed \cup {k}
      BY <2>1 DEF CreateReport
    <3> HIDE DEF u
    <3> QED BY <1>1, <3>1, <3>2, <3>3 DEF TypeOK, MineInv
  <2>2. ASSUME UploadDone(k)
        PROVE  pressed' \subseteq Uploads /\ uploads' \in [Uploads -> Upload \cup {Idle}] /\ MineInv'
    <3> DEFINE u == [uploads[k] EXCEPT !.stage = "downloadURL"]
    <3>1. uploads[k] \in Upload /\ uploads[k] # Idle /\ uploads' = [uploads EXCEPT ![k] = u]
          /\ pressed' = pressed
      BY <1>1, <2>2 DEF UploadDone, TypeOK
    <3>2. u \in Upload /\ u.mine = uploads[k].mine
      BY <3>1 DEF Upload
    <3> HIDE DEF u
    <3>3. uploads' \in [Uploads -> Upload \cup {Idle}] /\ pressed' \subseteq Uploads
      BY <1>1, <3>1, <3>2 DEF TypeOK
    <3>4. MineInv'
      BY <1>1, <3>1, <3>2 DEF IInv, MineInv, TypeOK
    <3> QED BY <3>3, <3>4
  <2> QED BY <2>1, <2>2
<1>3. TypeOK'
  BY <1>1, <1>2 DEF TypeOK, InHistory
<1>4. NodesInv' /\ LastInv' /\ BadInv'
  BY <1>1, Quiet DEF InHistory
<1>5. ClosedInv' /\ SeenInv'
  BY <1>1 DEF IInv, ClosedInv, SeenInv, Seen, InHistory
<1> QED BY <1>2, <1>3, <1>4, <1>5 DEF IInv

\* The steps of the user outside the history.
LEMMA UserStep ==
  ASSUME IInv, (\E u \in Accounts : SignIn(u)) \/ SignUp \/ SignInFails \/ SignOut
               \/ ForcedSignOut \/ OpenProfile \/ OpenCreate
               \/ \E r \in reports : OpenDetails(r)
  PROVE  IInv'
<1>1. ASSUME account' \in Accounts \cup {NoAccount}, late' \in BOOLEAN,
             screen' = screen \/ (screen \in {"list", "profile"}
                                  /\ screen' \in {"list", "profile", "create"}),
             UNCHANGED <<owner, watched, uploads, pressed, server, pend, written, loaded, events,
                         reports, viewed>>
      PROVE  IInv'
  <2>1. InHistory' = InHistory /\ screen' \in Screens
    BY <1>1 DEF InHistory, Screens, IInv, TypeOK
  <2>2. TypeOK'
    BY <1>1, <2>1 DEF IInv, TypeOK
  <2>3. NodesInv' /\ LastInv' /\ BadInv'
    BY <1>1, <2>1, Quiet
  <2>4. ClosedInv' /\ MineInv' /\ SeenInv'
    BY <1>1, <2>1 DEF IInv, ClosedInv, MineInv, SeenInv, Seen
  <2> QED BY <2>2, <2>3, <2>4 DEF IInv
<1>2. ASSUME NEW u \in Accounts, SignIn(u) PROVE IInv'
  BY <1>1, <1>2 DEF SignIn
<1>3. CASE SignOut \/ ForcedSignOut
  <2>1. late' \in BOOLEAN /\ account' = NoAccount
    BY <1>3 DEF SignOut, ForcedSignOut, IInv, TypeOK
  <2> QED BY <1>1, <1>3, <2>1 DEF SignOut, ForcedSignOut
<1>6. CASE SignUp \/ SignInFails \/ OpenProfile \/ OpenCreate
  <2>1. late' \in BOOLEAN /\ account' = account /\ account \in Accounts \cup {NoAccount}
    BY <1>6 DEF SignUp, SignInFails, OpenProfile, OpenCreate, IInv, TypeOK
  <2> QED BY <1>1, <1>6, <2>1 DEF SignUp, SignInFails, OpenProfile, OpenCreate
<1>5. ASSUME NEW r \in reports, OpenDetails(r) PROVE IInv'
  <2>1. /\ InHistory /\ InHistory' /\ screen' = "details" /\ viewed' = r /\ screen = "history"
        /\ UNCHANGED <<account, late, owner, watched, uploads, pressed, server, pend, written,
                       loaded, events, reports>>
    BY <1>5 DEF OpenDetails, InHistory
  <2>2. TypeOK'
    BY <1>5, <2>1 DEF IInv, TypeOK, Screens
  <2>3. NodesInv' /\ LastInv' /\ BadInv'
    BY <2>1, Quiet
  <2>4. ClosedInv' /\ MineInv'
    BY <2>1 DEF IInv, ClosedInv, MineInv
  <2>5. SeenInv'
    BY <1>5, <2>1 DEF IInv, SeenInv, Seen
  <2> QED BY <2>2, <2>3, <2>4, <2>5 DEF IInv
<1> QED BY <1>2, <1>3, <1>5, <1>6

LEMMA ReportsStep == IInv /\ [Next]_vars => IInv'
<1> SUFFICES ASSUME IInv, [Next]_vars PROVE IInv'
  OBVIOUS
<1>1. ASSUME NEW k \in Uploads,
             UploadFails(k) \/ UrlArrives(k, "url") \/ UrlArrives(k, "empty")
      PROVE  IInv'
  BY <1>1, WriteStep DEF UploadFails, UrlArrives, Images
<1>2. CASE Restart
  <2>1. ~InHistory'
    BY <1>2 DEF Restart, InHistory
  <2>2. TypeOK'
    <3>1. late' \in BOOLEAN /\ watched' \in BOOLEAN /\ ~watched'
      BY <1>2, Zenon DEF Restart
    <3>2. pend' \in Seq(Write) /\ events' \in Seq(SUBSET Report)
      BY <1>2 DEF Restart
    <3> QED BY <1>2, <2>1, <3>1, <3>2 DEF Restart, IInv, TypeOK, Screens
  <2>3. NodesInv' /\ ClosedInv' /\ MineInv'
    BY <1>2 DEF Restart, IInv, NodesInv, ClosedInv, MineInv
  <2>4. SeenInv' /\ LastInv' /\ BadInv'
    BY <1>2, <2>1 DEF Restart, SeenInv, Seen, LastInv, BadInv
  <2> QED BY <2>2, <2>3, <2>4 DEF IInv
<1>3. CASE UNCHANGED vars
  <2>1. NodesInv' /\ LastInv' /\ BadInv'
    BY <1>3, Quiet DEF vars, InHistory
  <2>2. TypeOK' /\ ClosedInv' /\ MineInv' /\ SeenInv'
    BY <1>3 DEF vars, IInv, TypeOK, ClosedInv, MineInv, SeenInv, Seen, InHistory
  <2> QED BY <2>1, <2>2 DEF IInv
<1> QED BY <1>1, <1>2, <1>3, UserStep, OpenHistoryStep, BackStep, UploadStep, SyncStep, CancelStep,
           AcceptStep, RefuseStep, DeliverStep DEF Next

\* The inductive invariant holds in every behaviour.
LEMMA ReportsInvariant == Spec => []IInv
BY ReportsInit, ReportsStep, PTL DEF Spec

-----------------------------------------------------------------------------

\* The type invariant: among others, an upload is always some account's, and an
\* observer is of an open history and of an account.
THEOREM ReportsTyped == Spec => []TypeOK
<1>1. IInv => TypeOK
  BY DEF IInv
<1> QED BY <1>1, ReportsInvariant, PTL

\* createReport files a report under the account that pressed send, and
\* ReportsHistory shows the reports of the account it was opened for only.
THEOREM ReportsOwn == Spec => []OwnReports
<1>1. IInv => OwnReports
  <2> SUFFICES ASSUME IInv PROVE OwnReports
    OBVIOUS
  <2>1. \A u \in Accounts : \A r \in View(server, pend, u) : r.author = u
    BY KnownSeen DEF Known
  <2>2. \A r \in reports \cup ({viewed} \ {NoReport}) : r.author = owner
    BY DEF IInv, SeenInv, Seen
  <2> QED BY <2>1, <2>2 DEF OwnReports
<1> QED BY <1>1, ReportsInvariant, PTL

\* Once its events have run, fetchPlaces has shown all the device knows.
THEOREM ReportsCurrent == Spec => []HistoryCurrent
<1>1. IInv => HistoryCurrent
  BY DEF IInv, LastInv, HistoryCurrent, Known
<1> QED BY <1>1, ReportsInvariant, PTL

\* A report without an image on the server hides all that were sent later.
THEOREM ReportsNothingAfterBad == Spec => []NothingAfterBad
<1>1. IInv => NothingAfterBad
  <2> SUFFICES ASSUME IInv, InHistory, owner # NoAccount,
                      NEW r \in reports, NEW b \in server[owner], b.image # "url"
               PROVE  r.id < b.id
    BY DEF NothingAfterBad
  <2>1. b \in Known(owner)
    BY ViewElement DEF Known
  <2>2. owner \in Accounts
    BY DEF IInv, TypeOK
  <2> QED BY <2>1, <2>2 DEF IInv, BadInv, Before
<1> QED BY <1>1, ReportsInvariant, PTL

-----------------------------------------------------------------------------
(* The server as one log.  Reports are numbered when they are written, and *)
(* reach the server later; that they arrive in that order needs the queue  *)
(* of writes to be in order, and behind everything that has arrived.       *)

OrderInv ==
  /\ \A j, k \in DOMAIN pend : j < k => pend[j].report.id < pend[k].report.id
  /\ \A u \in Accounts : \A r \in server[u] : \A k \in DOMAIN pend : r.id < pend[k].report.id

\* A new write is queued behind everything written before.
LEMMA WriteOrder ==
  ASSUME IInv, OrderInv, NEW k \in Uploads, NEW image \in Images,
         uploads[k] # Idle, WriteReport(k, image)
  PROVE  OrderInv'
<1> DEFINE w == [node |-> uploads[k].author, report |-> NewReport(k, image)]
           p == Append(pend, w)
<1>1. /\ TypeOK /\ pend \in Seq(Write) /\ written \in Nat
      /\ server \in [Accounts -> SUBSET Report]
  BY DEF IInv, TypeOK
<1>2. pend' = p /\ server' = server
  BY DEF WriteReport
<1>3. w.report.id = written + 1
  BY DEF NewReport
<1> HIDE DEF w
<1>4. /\ DOMAIN pend = 1..Len(pend) /\ Len(pend) \in Nat
      /\ DOMAIN p = 1..(Len(pend) + 1)
      /\ p[Len(pend) + 1] = w
      /\ \A j \in DOMAIN pend : p[j] = pend[j]
  BY <1>1
<1> HIDE DEF p
<1>5. \A j \in DOMAIN p : j \in DOMAIN pend \/ j = Len(pend) + 1
  BY <1>4
<1>6. \A j \in DOMAIN pend : pend[j].report.id < w.report.id
  <2> SUFFICES ASSUME NEW j \in DOMAIN pend PROVE pend[j].report.id < w.report.id
    OBVIOUS
  <2>1. pend[j] \in Write
    BY <1>1
  <2>2. pend[j].report.id \in Nat /\ pend[j].report.id <= written
    BY <2>1 DEF IInv, NodesInv, Write, Report
  <2> QED BY <1>1, <1>3, <2>2
<1>7. \A u \in Accounts : \A r \in server[u] : r.id < w.report.id
  <2> SUFFICES ASSUME NEW u \in Accounts, NEW r \in server[u] PROVE r.id < w.report.id
    OBVIOUS
  <2>1. r.id \in Nat /\ r.id <= written
    BY <1>1 DEF IInv, NodesInv, Report
  <2> QED BY <1>1, <1>3, <2>1
<1>8. ASSUME NEW i \in DOMAIN p, NEW j \in DOMAIN p, i < j PROVE p[i].report.id < p[j].report.id
  <2>1. i \in DOMAIN pend
    BY <1>4, <1>8
  <2>2. CASE j \in DOMAIN pend
    BY <1>4, <1>8, <2>1, <2>2 DEF OrderInv
  <2>3. CASE j = Len(pend) + 1
    BY <1>4, <1>6, <2>1, <2>3
  <2> QED BY <1>5, <2>2, <2>3
<1>9. ASSUME NEW u \in Accounts, NEW r \in server[u], NEW j \in DOMAIN p PROVE r.id < p[j].report.id
  <2>1. CASE j \in DOMAIN pend
    BY <1>4, <2>1 DEF OrderInv
  <2>2. CASE j = Len(pend) + 1
    BY <1>4, <1>7, <2>2
  <2> QED BY <1>5, <2>1, <2>2
<1> QED BY <1>2, <1>8, <1>9 DEF OrderInv

\* The oldest write leaves the queue, to the server or to nowhere.
LEMMA TailOrder ==
  ASSUME IInv, OrderInv, Accept \/ Refuse
  PROVE  OrderInv'
<1> DEFINE w == Head(pend)
           p == Tail(pend)
<1>1. pend \in Seq(Write) /\ pend # <<>> /\ server \in [Accounts -> SUBSET Report] /\ pend' = p
  BY DEF IInv, TypeOK, Accept, Refuse
<1>2. /\ w = pend[1] /\ 1 \in DOMAIN pend /\ w \in Write
      /\ DOMAIN p = 1..(Len(pend) - 1) /\ Len(pend) \in Nat
      /\ \A j \in DOMAIN p : j + 1 \in DOMAIN pend /\ p[j] = pend[j + 1] /\ j \in Nat /\ 1 < j + 1
  <2>1. /\ w = pend[1] /\ 1 \in DOMAIN pend /\ w \in Write
        /\ DOMAIN p = 1..(Len(pend) - 1) /\ Len(pend) \in Nat
        /\ \A j \in DOMAIN p : j + 1 \in DOMAIN pend /\ p[j] = pend[j + 1]
    BY <1>1, HeadAndTail
  <2> HIDE DEF w, p
  <2> QED BY <2>1
<1> HIDE DEF w, p
<1>3. ASSUME NEW i \in DOMAIN p, NEW j \in DOMAIN p, i < j PROVE p[i].report.id < p[j].report.id
  <2>1. i + 1 < j + 1
    BY <1>2, <1>3
  <2> QED BY <1>2, <2>1 DEF OrderInv
<1>4. \A j \in DOMAIN p : w.report.id < p[j].report.id
  BY <1>2 DEF OrderInv
<1>5. \A u \in Accounts : \A r \in server[u] : \A j \in DOMAIN p : r.id < p[j].report.id
  BY <1>2 DEF OrderInv
<1>6. ASSUME NEW u \in Accounts PROVE server'[u] \subseteq server[u] \cup {w.report}
  <2>1. CASE Accept
    BY <1>1, <1>2, <2>1 DEF Accept, w, Write
  <2>2. CASE Refuse
    BY <2>2 DEF Refuse
  <2> QED BY <2>1, <2>2
<1> QED BY <1>1, <1>3, <1>4, <1>5, <1>6 DEF OrderInv

LEMMA OrderStep == IInv /\ OrderInv /\ [Next]_vars => OrderInv'
<1> SUFFICES ASSUME IInv, OrderInv, [Next]_vars PROVE OrderInv'
  OBVIOUS
<1>1. ASSUME NEW k \in Uploads,
             UploadFails(k) \/ UrlArrives(k, "url") \/ UrlArrives(k, "empty")
      PROVE  OrderInv'
  BY <1>1, WriteOrder DEF UploadFails, UrlArrives, Images
<1>2. CASE Accept \/ Refuse
  BY <1>2, TailOrder
<1>3. CASE Restart
  BY <1>3 DEF Restart, OrderInv
<1>4. CASE UNCHANGED <<pend, server>>
  BY <1>4 DEF OrderInv
<1> QED BY <1>1, <1>2, <1>3, <1>4
           DEF Next, vars, SignIn, SignUp, SignInFails, SignOut, ForcedSignOut,
               OpenProfile, Cancel, OpenCreate, OpenHistory, Back,
               OpenDetails, CreateReport, UploadDone, Sync, Deliver

\* An accepted write is filed in the log.
LEMMA AcceptFiles ==
  ASSUME IInv, OrderInv, Accept
  PROVE  L!Next
<1> DEFINE w == Head(pend)
<1>1. /\ pend \in Seq(Write) /\ pend # <<>> /\ server \in [Accounts -> SUBSET Report]
      /\ server' = [server EXCEPT ![w.node] = @ \cup {w.report}]
  BY DEF IInv, TypeOK, Accept
<1>2. w = pend[1] /\ 1 \in DOMAIN pend /\ w \in Write
  BY <1>1, HeadAndTail
<1> HIDE DEF w
<1>3. w.node \in Accounts /\ w.report \in Report /\ w.report.author = w.node
  BY <1>2 DEF Write, IInv, NodesInv
<1>4. \A v \in Accounts : \A q \in server[v] : q.id < w.report.id
  BY <1>2 DEF OrderInv
<1>5. w.report \in server'[w.node]
  BY <1>1, <1>3
<1>6. L!File(w.node)
  BY <1>1, <1>3, <1>4, <1>5 DEF L!File
<1> QED BY <1>3, <1>6 DEF L!Next

\* ImplementsLog: the server files the reports of createReport in the order of
\* their writes, once, and under the account that pressed send.
THEOREM ReportsImplementLog == Spec => ImplementsLog
<1>1. Init => L!Init /\ OrderInv
  BY DEF Init, L!Init, OrderInv
<1>2. IInv /\ OrderInv /\ [Next]_vars => OrderInv'
  BY OrderStep
<1>3. IInv /\ OrderInv /\ [Next]_vars => [L!Next]_server
  <2> SUFFICES ASSUME IInv, OrderInv, [Next]_vars PROVE L!Next \/ UNCHANGED server
    OBVIOUS
  <2>1. CASE Accept
    BY <2>1, AcceptFiles
  <2>2. CASE UNCHANGED server
    BY <2>2
  <2> QED BY <2>1, <2>2
             DEF Next, vars, SignIn, SignUp, SignInFails, SignOut, ForcedSignOut,
               OpenProfile, Cancel, OpenCreate, OpenHistory, Back,
                 OpenDetails, CreateReport, UploadDone, UploadFails, UrlArrives, WriteReport,
                 Sync, Refuse, Deliver, Restart
<1> QED BY <1>1, <1>2, <1>3, ReportsInvariant, PTL DEF Spec, ImplementsLog, L!Spec

=============================================================================
