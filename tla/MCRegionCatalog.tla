--------------------------- MODULE MCRegionCatalog ---------------------------
EXTENDS RegionCatalog, TLC

CONSTANTS c1, c2

\* The catalogue starts with one region entered by hand, or empty.
OneSeed == {1}
NoSeed == {0}

\* Sound where both devices are writers and only safety is checked.
Devices == Permutations({c1, c2})
=============================================================================
