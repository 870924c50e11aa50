--------------------------- MODULE MCMetadataCache --------------------------
EXTENDS MetadataCache
=============================================================================
