-------------------------- MODULE MCSessionService --------------------------
EXTENDS SessionService, TLC
CONSTANTS p1, p2, c1, c2
=============================================================================
