---------------------------- MODULE MCTuiSession ----------------------------
EXTENDS TuiSession, TLC
CONSTANTS p1, c1, c2
=============================================================================
