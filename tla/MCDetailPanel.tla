---------------------------- MODULE MCDetailPanel ----------------------------
\* A small instance of DetailPanel for TLC.
EXTENDS DetailPanel
=============================================================================
