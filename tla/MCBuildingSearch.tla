--------------------------- MODULE MCBuildingSearch ---------------------------
EXTENDS BuildingSearch, TLC

CONSTANTS s1, s2, t1, t2, bad, b1, b2, c1, r1, r2

\* Two buildings on the first street, one on the second.
OnStreets == (b1 :> s1) @@ (b2 :> s1) @@ (c1 :> s2)

\* The longer text finds fewer buildings, another none.
Answers ==
  (s1 :> ((t1 :> <<b1, b2>>) @@ (t2 :> <<b2>>) @@ (bad :> <<>>)))
  @@ (s2 :> ((t1 :> <<c1>>) @@ (t2 :> <<>>) @@ (bad :> <<>>)))
=============================================================================
