---------------------------- MODULE MCEventFeed ------------------------------
EXTENDS EventFeed
==============================================================================
