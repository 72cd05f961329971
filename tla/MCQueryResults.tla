--------------------------- MODULE MCQueryResults ---------------------------
EXTENDS QueryResults
==============================================================================
