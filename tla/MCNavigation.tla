---------------------------- MODULE MCNavigation ----------------------------
EXTENDS Navigation
=============================================================================
