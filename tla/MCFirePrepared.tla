--------------------------- MODULE MCFirePrepared ----------------------------
\* Small instances of one fire for TLC.
EXTENDS FirePrepared
==============================================================================
