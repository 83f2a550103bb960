--------------------------- MODULE MCWatchManager ---------------------------
\* A small instance of WatchManager for TLC.
EXTENDS WatchManager
=============================================================================
