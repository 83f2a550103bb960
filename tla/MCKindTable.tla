---------------------------- MODULE MCKindTable ----------------------------
\* A small instance of KindTable for TLC.
EXTENDS KindTable
=============================================================================
