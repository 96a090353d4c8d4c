--------------------------- MODULE MCTknLocalPrune ---------------------------
EXTENDS TknLocalPrune
=============================================================================
