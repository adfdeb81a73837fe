------------------------------- MODULE PlaceLife -------------------------------
(***************************************************************************)
(* What the app and the database promise about one place: it has one life. *)
(* Its id is handed out once and it is sent to, or entered under, one node *)
(* only.  While it is on its way it may arrive again and again, because    *)
(* what had no answer is sent again, and so come back after a delete.      *)
(* Once it is not on its way any more, deleted or lost is for good, there  *)
(* and under every other account.                                          *)
(***************************************************************************)
CONSTANTS
  Nodes,    \* the nodes that hold places
  Places    \* place ids

VARIABLES
  free,     \* the ids not handed out yet
  sent,     \* the places on their way to each node
  stored    \* the places under each node

lives == <<free, sent, stored>>

Init ==
  /\ stored \in [Nodes -> SUBSET Places]
  /\ \A m, n \in Nodes : m # n => stored[m] \cap stored[n] = {}
  /\ free = Places \ UNION {stored[n] : n \in Nodes}
  /\ sent = [n \in Nodes |-> {}]

\* save: a new place is on its way.
Send(n, p) ==
  /\ p \in free
  /\ free' = free \ {p}
  /\ sent' = [sent EXCEPT ![n] = @ \cup {p}]
  /\ UNCHANGED stored

\* The place arrives, for the first time or once more.
Store(n, p) ==
  /\ p \in sent[n]
  /\ stored' = [stored EXCEPT ![n] = @ \cup {p}]
  /\ UNCHANGED <<free, sent>>

\* Places are on their way no more: acknowledged, refused, or lost in a crash.
Settle ==
  /\ sent' \in [Nodes -> SUBSET Places]
  /\ \A n \in Nodes : sent'[n] \subseteq sent[n]
  /\ UNCHANGED <<free, stored>>

\* Another device stores a new place.
Enter(n, p) ==
  /\ p \in free
  /\ free' = free \ {p}
  /\ stored' = [stored EXCEPT ![n] = @ \cup {p}]
  /\ UNCHANGED sent

\* deletePlace of this or of another device.
Delete(n, p) ==
  /\ p \in stored[n]
  /\ stored' = [stored EXCEPT ![n] = @ \ {p}]
  /\ UNCHANGED <<free, sent>>

Next ==
  \/ Settle
  \/ \E n \in Nodes, p \in Places :
       Send(n, p) \/ Store(n, p) \/ Enter(n, p) \/ Delete(n, p)

Spec == Init /\ [][Next]_lives

\* Safety.  A place is free, or belongs to one node: it is on its way there,
\* stored there, or both until the save has its answer.
Apart ==
  /\ \A n \in Nodes : free \cap (sent[n] \cup stored[n]) = {}
  /\ \A m, n \in Nodes : m # n => (sent[m] \cup stored[m]) \cap (sent[n] \cup stored[n]) = {}

=============================================================================
