---------------------------- MODULE MCPlacesList ----------------------------
EXTENDS PlacesList, TLC

CONSTANTS u1, p1, p2

\* Place ids are interchangeable; used for the safety run only.
PlaceIds == Permutations({p1, p2})
=============================================================================
