----------------------------- MODULE MCNodeDrain -----------------------------
\* A small instance of NodeDrain for TLC.
EXTENDS NodeDrain
=============================================================================
