------------------------------- MODULE MCPage -------------------------------
(***************************************************************************)
(* The detail panel and six other components of the page, checked side by  *)
(* side: `part` says which of them moves in a behaviour, and the others     *)
(* stay as they started.  They share no state (where one meets another, as  *)
(* the contexts meet the panel, its own module has the action), so the      *)
(* states are those of seven runs.                                           *)
(***************************************************************************)
EXTENDS DetailPanel

CONSTANTS
    Clusters, Namespaces, GroupIds, NoGroup, NoSession, MaxMissing, Filtered,
    Applications, Submissions, Tabs, Runs, Forwards, MaxCalls, Repos, HelmCalls

\* The first run of the effect of ReadOnlySwitch makes a call.
ASSUME PageAssumption == MaxCalls \in Nat \ {0}

VARIABLES
    part,
    c_active, c_group, c_namespaces, c_kept, c_session, c_groups, c_default,
    c_disk, c_kubeconfig, c_listed, c_load, c_picked, c_used, c_outgrown,
    s_target, s_open, s_phase, s_call, s_ticks, s_own, s_late,
    t_tabs, t_drawer, t_up, t_tabOf, t_page, t_call, t_shell, t_file,
    t_sessions, t_reader, t_stops, t_exit, t_toClose, t_late,
    f_fwd, f_ready, f_stopped, f_call, f_watch, f_sessions, f_swapped, f_quit,
    f_events, f_asked, f_answers, f_list, f_overtaken,
    g_active, g_globalReadOnly, g_calls, g_marked, g_overtaken,
    h_file, h_index, h_call, h_op, h_copy, h_want, h_stale, h_raced, h_torn

ctxVars == <<
    c_active, c_group, c_namespaces, c_kept, c_session, c_groups, c_default,
    c_disk, c_kubeconfig, c_listed, c_load, c_picked, c_used, c_outgrown>>
syncVars == <<
    s_target, s_open, s_phase, s_call, s_ticks, s_own, s_late>>
termVars == <<
    t_tabs, t_drawer, t_up, t_tabOf, t_page, t_call, t_shell, t_file,
    t_sessions, t_reader, t_stops, t_exit, t_toClose, t_late>>
forwardVars == <<
    f_fwd, f_ready, f_stopped, f_call, f_watch, f_sessions, f_swapped, f_quit,
    f_events, f_asked, f_answers, f_list, f_overtaken>>
switchVars == <<g_active, g_globalReadOnly, g_calls, g_marked, g_overtaken>>
helmVars == <<h_file, h_index, h_call, h_op, h_copy, h_want, h_stale, h_raced, h_torn>>

Ctx == INSTANCE ContextStore WITH
    Contexts <- Clusters, active <- c_active, group <- c_group,
    namespaces <- c_namespaces, kept <- c_kept, session <- c_session,
    groups <- c_groups, default <- c_default, disk <- c_disk,
    kubeconfig <- c_kubeconfig, listed <- c_listed, load <- c_load,
    picked <- c_picked, used <- c_used, outgrown <- c_outgrown

Sync == INSTANCE SyncDialog WITH
    target <- s_target, open <- s_open, phase <- s_phase, call <- s_call,
    ticks <- s_ticks, own <- s_own, late <- s_late

Term == INSTANCE Terminals WITH
    tabs <- t_tabs, drawer <- t_drawer, up <- t_up, tabOf <- t_tabOf,
    page <- t_page, call <- t_call, shell <- t_shell, file <- t_file,
    sessions <- t_sessions, reader <- t_reader, stops <- t_stops,
    exit <- t_exit, toClose <- t_toClose, late <- t_late

Forward == INSTANCE PortForwards WITH
    fwd <- f_fwd, ready <- f_ready, stopped <- f_stopped, call <- f_call,
    watch <- f_watch, sessions <- f_sessions, swapped <- f_swapped,
    quit <- f_quit, events <- f_events, asked <- f_asked, answers <- f_answers,
    list <- f_list, overtaken <- f_overtaken

Switch == INSTANCE ReadOnlySwitch WITH
    active <- g_active, globalReadOnly <- g_globalReadOnly, calls <- g_calls,
    marked <- g_marked, overtaken <- g_overtaken

Helm == INSTANCE HelmRepos WITH
    Calls <- HelmCalls, file <- h_file, index <- h_index, call <- h_call,
    op <- h_op, copy <- h_copy, want <- h_want, stale <- h_stale,
    raced <- h_raced, torn <- h_torn

Parts == {"Panel", "Ctx", "Sync", "Term", "Forward", "Switch", "Helm"}

\* Parts with a choice of initial states make it only when they move.
PageInit ==
    /\ part \in Parts
    /\ Init
    /\ Ctx!Init
    /\ Sync!Init
    /\ Term!Init
    /\ Forward!Init
    /\ Switch!Init
    /\ Helm!Init
    /\ part # "Panel" => active = {}
    /\ part # "Ctx" => c_kubeconfig = Clusters
    /\ part # "Switch" => g_active = {} /\ ~g_globalReadOnly
    /\ part # "Helm" => h_file = {}
    /\ part # "Sync" => s_target = CHOOSE a \in Applications : TRUE

PageNext ==
    /\ UNCHANGED part
    /\ \/ part = "Panel" /\ Next
          /\ UNCHANGED <<ctxVars, syncVars, termVars, forwardVars, switchVars, helmVars>>
       \/ part = "Ctx" /\ Ctx!Next
          /\ UNCHANGED <<vars, syncVars, termVars, forwardVars, switchVars, helmVars>>
       \/ part = "Sync" /\ Sync!Next
          /\ UNCHANGED <<vars, ctxVars, termVars, forwardVars, switchVars, helmVars>>
       \/ part = "Term" /\ Term!Next
          /\ UNCHANGED <<vars, ctxVars, syncVars, forwardVars, switchVars, helmVars>>
       \/ part = "Forward" /\ Forward!Next
          /\ UNCHANGED <<vars, ctxVars, syncVars, termVars, switchVars, helmVars>>
       \/ part = "Switch" /\ Switch!Next
          /\ UNCHANGED <<vars, ctxVars, syncVars, termVars, forwardVars, helmVars>>
       \/ part = "Helm" /\ Helm!Next
          /\ UNCHANGED <<vars, ctxVars, syncVars, termVars, forwardVars, switchVars>>

pageVars == <<
    part, vars, ctxVars, syncVars, termVars, forwardVars, switchVars, helmVars>>

\* A part that stays as it started has no fair action enabled.
PageSpec == PageInit /\ [][PageNext]_pageVars /\ Term!Fairness

-----------------------------------------------------------------------------
\* The variables of the part that moves keep their types.
PageTypeOK ==
    /\ part \in Parts
    /\ part = "Panel" => TypeOK
    /\ part = "Ctx" => Ctx!TypeOK
    /\ part = "Sync" => Sync!TypeOK
    /\ part = "Term" => Term!TypeOK
    /\ part = "Forward" => Forward!TypeOK
    /\ part = "Switch" => Switch!TypeOK
    /\ part = "Helm" => Helm!TypeOK

\* ContextStore: a restart brings back several contexts with their filter.
RestartRestores == Ctx!RestartRestores

\* ContextStore: the active group exists and holds the contexts shown, unless
\* it was edited since the session that brings it back.
GroupIsShown == Ctx!GroupIsShown

\* SyncDialog: an open dialog is about a sync of its own, or a late one.
FreshUnlessLate == Sync!FreshUnlessLate

\* Terminals: no shell outlives its tab, no kubeconfig its shell.
TerminalsCleanUp == Term!TerminalsCleanUp

\* PortForwards: what listens can be listed, or is starting or stopping.
ListenersAreListed == Forward!ListenersAreListed

\* Once all is quiet the page and the backend agree: PortForwards, the list of
\* forwards is right; ReadOnlySwitch, writes are refused where the page says so.
QuietPageAgrees == Forward!ListIsCurrent /\ Switch!GuardIsCurrent

\* HelmRepos: no chart repository is lost, and none lacks its index.
ReposAreWhole == Helm!ReposAreWhole
=============================================================================
