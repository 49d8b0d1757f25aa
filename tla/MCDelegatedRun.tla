--------------------------- MODULE MCDelegatedRun ----------------------------
EXTENDS DelegatedRun
==============================================================================
