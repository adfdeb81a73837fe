---------------------------- MODULE MCStreetSearch ----------------------------
EXTENDS StreetSearch, TLC

CONSTANTS s1, s2, s3, t1, t2

AllStreets == <<s1, s2, s3>>

\* Which name contains which text: t1 in two of the three, t2 in one.
Contains == {<<s1, t1>>, <<s3, t1>>, <<s2, t2>>}

Matches == [t \in {t1, t2} |-> SelectSeq(AllStreets, LAMBDA s : <<s, t>> \in Contains)]
=============================================================================
