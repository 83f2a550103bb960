---------------------------- MODULE ContextStore ----------------------------
(***************************************************************************)
(* Which contexts the page shows: the context part of the store             *)
(* (store/ui.ts), what it keeps in localStorage (store/ui.persistence.ts),  *)
(* and the two screens that change it, ConnectionsScreen.tsx while no       *)
(* context is active and ContextSwitcher.tsx afterwards.  selectedContext   *)
(* and aggregatedContexts are modelled by the set effectiveContextList      *)
(* makes of them: one element is the single mode, more the aggregated one.  *)
(***************************************************************************)
EXTENDS Naturals, FiniteSets

CONSTANTS
    Contexts,    \* context names
    Namespaces,  \* namespace names
    GroupIds,    \* ids crypto.randomUUID gives to saved groups
    NoGroup,     \* not one of them: activeGroupId, lastSession.groupId are null
    NoContext,   \* not a context name: defaultContext is null
    NoSession,   \* lastSession is null
    MaxMissing,  \* bound: contexts that are absent from the kubeconfig
    Filtered     \* bound: the sets of contexts a filter is chosen for

VARIABLES
    active,     \* effectiveContextList
    group,      \* activeGroupId
    namespaces, \* selectedNamespaces
    kept,       \* namespacesByContext; {} is an absent entry
    session,    \* lastSession
    groups,     \* contextGroups, by id; {} is an absent group
    default,    \* defaultContext
    disk,       \* localStorage
    kubeconfig, \* the contexts in the user's kubeconfig
    listed,     \* the contexts the mounted screen lists; {} while it loads
    load,       \* state of its listContexts call
    picked,     \* ConnectionsScreen: the ticked cards
    used,       \* history: the ids groups were given so far
    outgrown    \* history: the group of the last session was saved, since the
                \* session was recorded, without all of the session's contexts

history == <<used, outgrown>>
vars == <<active, group, namespaces, kept, session, groups, default, disk,
          kubeconfig, listed, load, picked, history>>
screen == <<listed, load, picked>>
choice == <<active, group, namespaces>>
saved == <<kept, session, groups, default>>

\* What a kubeconfig may hold.
Kubeconfigs == {s \in SUBSET Contexts : Cardinality(Contexts \ s) <= MaxMissing}

Sets == (SUBSET Contexts) \ {{}}
NoneKept == [s \in Sets |-> {}]
Sessions == [contexts : Sets, group : GroupIds \cup {NoGroup}] \cup {NoSession}
Aggregated(s) == IF Cardinality(s) >= 2 THEN s ELSE {}

TypeOK ==
    /\ active \in SUBSET Contexts
    /\ group \in GroupIds \cup {NoGroup}
    /\ namespaces \in SUBSET Namespaces
    /\ kept \in [Sets -> SUBSET Namespaces]
    /\ session \in Sessions
    /\ groups \in [GroupIds -> SUBSET Contexts]
    /\ default \in Contexts \cup {NoContext}
    /\ disk \in [aggregated : SUBSET Contexts, kept : [Sets -> SUBSET Namespaces],
                 session : Sessions, groups : [GroupIds -> SUBSET Contexts],
                 default : Contexts \cup {NoContext}]
    /\ kubeconfig \in SUBSET Contexts
    /\ listed \in SUBSET Contexts
    /\ load \in {"loading", "ready", "failed"}
    /\ picked \in SUBSET Contexts
    /\ used \in SUBSET GroupIds
    /\ outgrown \in BOOLEAN

Init ==
    /\ active = {} /\ group = NoGroup /\ namespaces = {}
    /\ kept = NoneKept
    /\ session = NoSession
    /\ groups = [g \in GroupIds |-> {}]
    /\ default = NoContext
    /\ disk = [aggregated |-> {}, kept |-> NoneKept, session |-> NoSession,
               groups |-> [g \in GroupIds |-> {}], default |-> NoContext]
    /\ kubeconfig \in Kubeconfigs
    /\ listed = {} /\ load = "loading" /\ picked = {}
    /\ used = {} /\ outgrown = FALSE

-----------------------------------------------------------------------------
(***************************************************************************)
(* The store.                                                               *)
(***************************************************************************)

\* A mounted screen starts from nothing and asks for the contexts.
Mount == listed' = {} /\ load' = "loading" /\ picked' = {}

\* App.tsx shows the ConnectionsScreen while no context is active, and the
\* switcher with the rest of the page otherwise.
ShowScreenFor(next) ==
    IF (active = {}) # (next = {}) THEN Mount ELSE UNCHANGED screen

NamespacesOf(next) == IF next = {} THEN {} ELSE kept[next]

\* The aggregated contexts are stored only when there are any.
NormalizeUnstored(next, g, last) ==
    /\ active' = next
    /\ group' = g
    /\ namespaces' = NamespacesOf(next)
    /\ session' = last
    /\ disk' = [disk EXCEPT !.aggregated = IF Aggregated(next) = {} THEN @ ELSE next,
                            !.session = last]
    /\ ShowScreenFor(next)
    /\ UNCHANGED <<kept, groups, default, kubeconfig, used>>

\* normalizeContexts; g is the activeGroupId the caller leaves behind, and
\* last the lastSession.
Normalize(next, g, last) ==
    /\ active' = next
    /\ group' = g
    /\ namespaces' = NamespacesOf(next)
    /\ session' = last
    /\ disk' = [disk EXCEPT !.aggregated = Aggregated(next), !.session = last]
    /\ ShowScreenFor(next)
    /\ UNCHANGED <<kept, groups, default, kubeconfig, used>>

SetSelectedContext(name) ==
    /\ {name} # active
    /\ Normalize({name}, NoGroup, [contexts |-> {name}, group |-> NoGroup])

SetAggregatedContexts(names, g) ==
    /\ names # active \/ g # group
    /\ Normalize(names, g, [contexts |-> names, group |-> g])

\* The ContextSwitcher and the command palette toggle a context they list (two
\* lists of the code, taken as one).
\* No session is recorded, and no group is active any more.
ToggleAggregatedContext(name) ==
    /\ active # {} /\ name \in listed
    /\ Normalize((active \ {name}) \cup ({name} \ active), NoGroup, session)
    /\ UNCHANGED outgrown

\* Disconnect, in the switcher, which opens once its list has come.
ClearAggregatedContexts ==
    /\ active # {} /\ load = "ready"
    /\ Normalize({}, NoGroup, session)
    /\ UNCHANGED outgrown

\* applyNamespaceSelection, while some context is active.
SelectNamespaces(next) ==
    LET map == [kept EXCEPT ![active] = next] IN
    /\ active # {} /\ active \in Filtered
    /\ namespaces' = next
    /\ kept' = map
    /\ disk' = [disk EXCEPT !.kept = map]
    /\ UNCHANGED <<active, group, session, groups, default, kubeconfig, screen, history>>

ToggleSelectedNamespace(ns) ==
    SelectNamespaces((namespaces \ {ns}) \cup ({ns} \ namespaces))

ClearSelectedNamespaces == SelectNamespaces({})

\* The last-session card is not shown when it would repeat the hero card.
RepeatsHero(members) ==
    default \in listed /\ members = {default} /\ session.group = NoGroup

ClearLastSession ==
    LET members == session.contexts \cap listed IN
    /\ active = {} /\ session # NoSession
    /\ members # {} /\ ~RepeatsHero(members)
    /\ session' = NoSession
    /\ disk' = [disk EXCEPT !.session = NoSession]
    /\ UNCHANGED <<choice, kept, groups, default, kubeconfig, screen, history>>

\* A card's button sets the default context or, on the default, removes it.
SetDefaultContext(name) ==
    /\ active = {} /\ name \in listed
    /\ default' = IF name = default THEN NoContext ELSE name
    /\ disk' = [disk EXCEPT !.default = default']
    /\ UNCHANGED <<choice, kept, session, groups, kubeconfig, screen, history>>

\* The group editor: a member that is not listed cannot be unticked, and a
\* new group has an id never used before.
UpsertContextGroup(g, members) ==
    /\ active = {}
    /\ groups[g] = {} => g \notin used
    /\ groups[g] \ listed \subseteq members
    /\ members \subseteq listed \cup groups[g]
    /\ listed # {} /\ Cardinality(members) >= 2 /\ members # groups[g]
    /\ groups' = [groups EXCEPT ![g] = members]
    /\ used' = used \cup {g}
    /\ outgrown' = (outgrown \/ /\ session # NoSession /\ session.group = g
                                /\ ~(session.contexts \subseteq members))
    /\ disk' = [disk EXCEPT !.groups = groups']
    /\ UNCHANGED <<choice, kept, session, default, kubeconfig, screen>>

RemoveContextGroup(g) ==
    /\ active = {} /\ groups[g] # {} /\ load = "ready"
    /\ groups' = [groups EXCEPT ![g] = {}]
    /\ disk' = [disk EXCEPT !.groups = groups']
    /\ UNCHANGED <<choice, kept, session, default, kubeconfig, screen, history>>

-----------------------------------------------------------------------------
(***************************************************************************)
(* The screens.                                                             *)
(***************************************************************************)

\* The Reload button of the ConnectionsScreen; `picked` is left alone.
Reload ==
    /\ active = {} /\ load # "loading"
    /\ load' = "loading" /\ listed' = {}
    /\ UNCHANGED <<choice, saved, disk, kubeconfig, picked, history>>

\* listContexts answers, or fails; a screen that was unmounted meanwhile has
\* cancelled its call.
ListAnswers ==
    /\ load = "loading"
    /\ \/ load' = "ready" /\ listed' = kubeconfig
       \/ load' = "failed" /\ listed' = {}
    /\ UNCHANGED <<choice, saved, disk, kubeconfig, picked, history>>

\* A card's tick box.
TogglePick(name) ==
    /\ active = {} /\ name \in listed
    /\ picked' = (picked \ {name}) \cup ({name} \ picked)
    /\ UNCHANGED <<choice, saved, disk, kubeconfig, listed, load, history>>

\* The bar of the ticked cards; it is up whatever the screen lists by now.
ConnectPicked ==
    /\ active = {} /\ picked # {}
    /\ IF Cardinality(picked) = 1
       THEN \E name \in picked : SetSelectedContext(name)
       ELSE SetAggregatedContexts(picked, NoGroup)
    /\ outgrown' = FALSE

\* A card, the hero card, or Cmd+1 to Cmd+9.
ConnectSingle(name) ==
    /\ active = {} /\ name \in listed
    /\ SetSelectedContext(name)
    /\ outgrown' = FALSE

ConnectGroup(g) ==
    LET members == groups[g] \cap listed IN
    /\ active = {} /\ members # {}
    /\ IF Cardinality(members) = 1
       THEN \E name \in members : SetSelectedContext(name)
       ELSE SetAggregatedContexts(members, g)
    /\ outgrown' = FALSE

\* The group is not looked up again.
ReconnectUnchecked ==
    LET members == session.contexts \cap listed IN
    /\ active = {} /\ session # NoSession
    /\ members # {} /\ ~RepeatsHero(members)
    /\ IF Cardinality(members) = 1
       THEN \E name \in members : SetSelectedContext(name)
       ELSE SetAggregatedContexts(members, session.group)
    /\ UNCHANGED outgrown

ReconnectLastSession ==
    LET members == session.contexts \cap listed
        g == IF session.group = NoGroup \/ groups[session.group] = {}
             THEN NoGroup ELSE session.group IN
    /\ active = {} /\ session # NoSession
    /\ members # {} /\ ~RepeatsHero(members)
    /\ IF Cardinality(members) = 1
       THEN \E name \in members : SetSelectedContext(name)
       ELSE SetAggregatedContexts(members, g)
    /\ UNCHANGED outgrown

\* The switcher's groups are taken as saved, listed or not.
SwitchGroup(g) ==
    /\ active # {} /\ load = "ready" /\ groups[g] # {}
    /\ SetAggregatedContexts(groups[g], g)
    /\ outgrown' = FALSE

EditKubeconfig ==
    /\ kubeconfig' \in Kubeconfigs \ {kubeconfig}
    /\ UNCHANGED <<choice, saved, disk, screen, history>>

\* The app is closed, at any time, and started again.
Restart ==
    LET booted == IF disk.aggregated # {} THEN disk.aggregated
                  ELSE IF disk.default # NoContext THEN {disk.default} ELSE {} IN
    /\ active' = booted
    /\ group' = NoGroup
    /\ kept' = disk.kept
    /\ namespaces' = IF booted = {} THEN {} ELSE disk.kept[booted]
    /\ session' = disk.session
    /\ groups' = disk.groups
    /\ default' = disk.default
    /\ Mount
    /\ UNCHANGED <<disk, kubeconfig, history>>

Next ==
    \/ Reload \/ ListAnswers \/ ConnectPicked \/ ReconnectLastSession
    \/ ClearLastSession \/ ClearAggregatedContexts \/ ClearSelectedNamespaces
    \/ EditKubeconfig \/ Restart
    \/ \E name \in Contexts :
         \/ TogglePick(name) \/ ConnectSingle(name) \/ SetDefaultContext(name)
         \/ ToggleAggregatedContext(name)
    \/ \E ns \in Namespaces : ToggleSelectedNamespace(ns)
    \/ \E g \in GroupIds :
         \/ ConnectGroup(g) \/ SwitchGroup(g) \/ RemoveContextGroup(g)
         \/ \E members \in SUBSET Contexts : UpsertContextGroup(g, members)

Spec == Init /\ [][Next]_vars

-----------------------------------------------------------------------------
\* What the localStorage holds when the app is closed is what the store holds,
\* whatever wrote last, and the filter on the page is the one kept for the
\* contexts shown: what RestartRestores rests on.
DiskIsCurrent ==
    /\ disk = [aggregated |-> Aggregated(active), kept |-> kept, session |-> session,
               groups |-> groups, default |-> default]
    /\ namespaces = NamespacesOf(active)

\* What a restart brings back, however the page came to show what it shows, by
\* connecting, toggling, a group, a disconnect or an earlier restart.  Several
\* contexts come back, with the filter they had.  One context alone does not:
\* it is not stored, and the app comes up with the default context, or with
\* none, never with contexts aggregated before.  Nothing else that is saved
\* changes.  (The mark of the active group, not stored either, is not part of
\* it.)
RestartRestores ==
    [][Restart =>
           /\ active' = IF Cardinality(active) >= 2 THEN active ELSE {default} \ {NoContext}
           /\ active' = active => namespaces' = namespaces
           /\ UNCHANGED saved]_vars

\* The group the switcher marks as active exists, and holds every context
\* shown.  The one way round is Reconnect, which takes the contexts of the last
\* session and looks the group up by its id alone: an edit of the group since
\* may have left some of them out.
GroupIsShown ==
    group # NoGroup =>
        groups[group] # {} /\ (active \subseteq groups[group] \/ outgrown)
=============================================================================
