-------------------------- MODULE MCContextWatcher --------------------------
\* A small instance of ContextWatcher for TLC: a namespaced kind that may be
\* refused, routed to the cluster or to one namespace, and the kind with a
\* factory of its own.
EXTENDS ContextWatcher
=============================================================================
