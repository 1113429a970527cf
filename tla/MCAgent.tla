------------------------------ MODULE MCAgent ------------------------------
EXTENDS Agent
=============================================================================
