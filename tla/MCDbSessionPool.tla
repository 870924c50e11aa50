--------------------------- MODULE MCDbSessionPool --------------------------
EXTENDS DbSessionPool
=============================================================================
