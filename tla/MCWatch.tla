------------------------------- MODULE MCWatch -------------------------------
(***************************************************************************)
(* The watcher of a context, for TLC, and beside it what it is for, a table *)
(* of the page: `part` says which of the two moves in a behaviour.          *)
(* KindTable has of a watcher what a table can see as actions of its own,   *)
(* so the two share no state here.                                          *)
(***************************************************************************)
EXTENDS ContextWatcher

CONSTANTS
    Lists, NoRows, TableWatchers, NoWatcher, MaxChange, MaxMount, MaxInbox, MaxRequest

VARIABLES
    part,
    k_cluster, k_changes, k_watch, k_stopped, k_held, k_sync, k_owed,
    k_installed, k_stops, k_inbox, k_active, k_mounted, k_mounts, k_syncedKind,
    k_sent, k_responses, k_shown, k_loaded, k_graced, k_outrun, k_early

tableVars == <<
    k_cluster, k_changes, k_watch, k_stopped, k_held, k_sync, k_owed,
    k_installed, k_stops, k_inbox, k_active, k_mounted, k_mounts, k_syncedKind,
    k_sent, k_responses, k_shown, k_loaded, k_graced, k_outrun, k_early>>

watchVars == <<part, vars, tableVars>>

Table == INSTANCE KindTable WITH
    List <- Lists, Empty <- NoRows, Watcher <- TableWatchers, cluster <- k_cluster,
    changes <- k_changes, watch <- k_watch, stopped <- k_stopped,
    held <- k_held, sync <- k_sync, owed <- k_owed, installed <- k_installed,
    stops <- k_stops, inbox <- k_inbox, active <- k_active,
    mounted <- k_mounted, mounts <- k_mounts, syncedKind <- k_syncedKind,
    sent <- k_sent, responses <- k_responses, shown <- k_shown,
    loaded <- k_loaded, graced <- k_graced, outrun <- k_outrun,
    early <- k_early

WatchInit ==
    /\ part \in {"Watcher", "Table"}
    /\ Init /\ Table!Init
    /\ part = "Watcher" => k_cluster = NoRows

WatchNext ==
    /\ UNCHANGED part
    /\ \/ part = "Watcher" /\ Next /\ UNCHANGED tableVars
       \/ part = "Table" /\ Table!Next /\ UNCHANGED vars

\* Fairness is asked of the part that moves.
WatchSpec ==
    /\ WatchInit /\ [][WatchNext]_watchVars
    /\ part = "Watcher" => Fairness
    /\ part = "Table" => Table!Fairness

-----------------------------------------------------------------------------
\* KindTable: a table over a running watcher returns to the cluster's list.
Converges == Table!Converges
=============================================================================
