------------------------------- MODULE MCTable -------------------------------
(***************************************************************************)
(* A table of the page, for TLC, and beside it two more things the page     *)
(* keeps of the watch of a context: the access map, and a view of a custom  *)
(* resource.  `part` says which of the three moves in a behaviour: they     *)
(* meet the watchers in the same way and share nothing else.                *)
(***************************************************************************)
EXTENDS KindTable

CONSTANTS
    Contextual, \* watchers the access map and the view may meet
    NoAccess, View, NoView, CanSync, MaxStop, MaxLists

ASSUME TableAssumption ==
    /\ NoWatcher \notin Contextual /\ NoView \notin View
    /\ MaxStop \in Nat
    /\ MaxLists \in Nat \ {0}

VARIABLES
    part,
    a_watch, a_stopped, a_installed, a_stops, a_active,
    a_access, a_asked, a_answers, a_behind, a_last,
    r_watch, r_stopped, r_installed, r_stops, r_active,
    r_holdsCRD, r_cr, r_closed, r_ensure, r_found,
    r_listed, r_lists, r_answers, r_view, r_state

accessVars == <<
    a_watch, a_stopped, a_installed, a_stops, a_active,
    a_access, a_asked, a_answers, a_behind, a_last>>
viewVars == <<
    r_watch, r_stopped, r_installed, r_stops, r_active,
    r_holdsCRD, r_cr, r_closed, r_ensure, r_found,
    r_listed, r_lists, r_answers, r_view, r_state>>
allVars == <<part, vars, accessVars, viewVars>>

Map == INSTANCE AccessMap WITH
    Watcher <- Contextual, watch <- a_watch, stopped <- a_stopped,
    installed <- a_installed, stops <- a_stops, active <- a_active,
    access <- a_access, asked <- a_asked, answers <- a_answers,
    behind <- a_behind, last <- a_last

Custom == INSTANCE CustomResources WITH
    Watcher <- Contextual, MaxRequest <- MaxLists, watch <- r_watch,
    stopped <- r_stopped, installed <- r_installed, stops <- r_stops,
    active <- r_active, holdsCRD <- r_holdsCRD, cr <- r_cr,
    closed <- r_closed, ensure <- r_ensure, found <- r_found,
    listed <- r_listed, lists <- r_lists, answers <- r_answers,
    view <- r_view, state <- r_state

TableInit ==
    /\ part \in {"Table", "Map", "Custom"}
    /\ Init /\ Map!Init /\ Custom!Init
    /\ part # "Table" => cluster = Empty

TableNext ==
    /\ UNCHANGED part
    /\ \/ part = "Table" /\ Next /\ UNCHANGED <<accessVars, viewVars>>
       \/ part = "Map" /\ Map!Next /\ UNCHANGED <<vars, viewVars>>
       \/ part = "Custom" /\ Custom!Next /\ UNCHANGED <<vars, accessVars>>

TableSpec == TableInit /\ [][TableNext]_allVars

-----------------------------------------------------------------------------
\* The variables of the part that moves keep their types.
TableTypeOK ==
    /\ part = "Table" => TypeOK
    /\ part = "Map" => Map!TypeOK
    /\ part = "Custom" => Custom!TypeOK

\* Once all is quiet the page has the running watcher's data: KindTable, its
\* list; AccessMap, its kinds.
QuietPageIsCurrent == SettledIsCurrent /\ Map!AccessIsCurrent

\* CustomResources: a view gets its rows from the watcher its call found.
ViewIsServed == Custom!ViewIsServed
=============================================================================
