--------------------------- MODULE MCPersonalSync ---------------------------
EXTENDS PersonalSync
=============================================================================
