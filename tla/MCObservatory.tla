--------------------------- MODULE MCObservatory ---------------------------
EXTENDS Observatory
=============================================================================
