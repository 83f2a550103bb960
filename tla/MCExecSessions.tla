--------------------------- MODULE MCExecSessions ---------------------------
\* A small instance of ExecSessions for TLC.
EXTENDS ExecSessions
=============================================================================
