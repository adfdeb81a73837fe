------------------------------ MODULE Catalogue ------------------------------
(***************************************************************************)
(* What the node /regions promises to whoever reads it: a list of regions, *)
(* which grows at its end, one region at a time.  createRegion enters a    *)
(* region that nobody has processed, and only the operator marks one as    *)
(* processed.  A region may be replaced (two devices may choose the same   *)
(* number), never removed, and never leaves a gap: [RegionModel] decodes.  *)
(***************************************************************************)
EXTENDS Naturals, Sequences

CONSTANT RegionModel    \* regions: records with a field isProcessed

VARIABLE catalogue      \* the regions in the order of their keys

Init == catalogue \in Seq(RegionModel)

\* createRegion, seen from the server.
Submit(i) ==
  /\ i \in 1..(Len(catalogue) + 1)
  /\ DOMAIN catalogue' = DOMAIN catalogue \cup {i}
  /\ catalogue'[i] \in RegionModel /\ ~catalogue'[i].isProcessed
  /\ \A j \in DOMAIN catalogue \ {i} : catalogue'[j] = catalogue[j]

\* The operator marks a region as processed (external).
Approve(i) ==
  /\ i \in DOMAIN catalogue
  /\ ~catalogue[i].isProcessed
  /\ catalogue' = [catalogue EXCEPT ![i].isProcessed = TRUE]

Next == \E i \in 1..(Len(catalogue) + 1) : Submit(i) \/ Approve(i)

Spec == Init /\ [][Next]_catalogue

=============================================================================
