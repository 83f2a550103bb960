------------------------------ MODULE PageProofs ------------------------------
(***************************************************************************)
(* The parts of the page that MCPage checks side by side, for any number of *)
(* contexts, groups, syncs, forwards, calls and repositories.  Each part    *)
(* has an inductive invariant of its own over its own variables (that of    *)
(* the detail panel is in DetailPanelProofs); together they are one of      *)
(* PageSpec.                                                                 *)
(***************************************************************************)
EXTENDS MCPage, DetailPanelProofs, AnswerQueues, FiniteSetTheorems, TLAPS

-----------------------------------------------------------------------------
(***************************************************************************)
(* Contexts, groups and the session kept in localStorage.                   *)
(***************************************************************************)
\* The contexts recorded under a group are members of it, unless the group was
\* removed or, since, saved without some of them.
Recorded(last) ==
    last # NoSession /\ last.group # NoGroup =>
        /\ last.group \in c_used
        /\ \/ c_groups[last.group] = {}
           \/ last.contexts \subseteq c_groups[last.group]
           \/ c_outgrown

\* What GroupIsShown rests on: that holds of the last session, which outlives
\* the group; an id is not given twice, so that no other group takes its place;
\* and with no context active no group is.
GroupsRecorded ==
    /\ \A g \in GroupIds : c_groups[g] # {} => g \in c_used
    /\ Recorded(c_session)
    /\ c_active = {} => c_group = NoGroup

CtxInv == Ctx!TypeOK /\ Ctx!DiskIsCurrent /\ GroupsRecorded /\ Ctx!GroupIsShown

-----------------------------------------------------------------------------
\* The sets of two or more contexts are what App keeps as aggregated ones: one
\* context alone, and what was kept before, are read back as they are.
LEMMA AggregatedFacts ==
    /\ \A s \in SUBSET Clusters : Ctx!Aggregated(s) \in SUBSET Clusters
    /\ \A s : Ctx!Aggregated(s) \in {s, {}}
    /\ Ctx!Aggregated({}) = {}
    /\ \A s : Ctx!Aggregated(s) # {} => Ctx!Aggregated(Ctx!Aggregated(s)) = Ctx!Aggregated(s)
    /\ \A c : Ctx!Aggregated({c}) = {}
<1>1. \A c : Ctx!Cardinality({c}) = 1
  <2>1. \A S : Ctx!Cardinality(S) = Cardinality(S)
    BY DEF Cardinality, Ctx!Cardinality
  <2> QED BY <2>1, FS_Singleton
<1>2. ~(1 >= 2)
  OBVIOUS
<1> QED BY <1>1, <1>2 DEF Ctx!Aggregated

\* No contexts are not two.
LEMMA NoneIsNotTwo == ~(Ctx!Cardinality({}) >= 2)
<1>1. Ctx!Cardinality({}) = Cardinality({})
  BY DEF Cardinality, Ctx!Cardinality
<1>2. Cardinality({}) = 0
  BY FS_EmptySet
<1> QED BY <1>1, <1>2

\* The namespaces kept for a set of contexts are namespaces.
LEMMA KeptFacts ==
    ASSUME Ctx!TypeOK, NEW next \in SUBSET Clusters
    PROVE  Ctx!NamespacesOf(next) \in SUBSET Namespaces
BY DEF Ctx!TypeOK, Ctx!NamespacesOf, Ctx!Sets

LEMMA CtxInitInv == Ctx!Init => CtxInv
<1> SUFFICES ASSUME Ctx!Init PROVE CtxInv
  OBVIOUS
<1> USE DEF Ctx!Init
<1>1. Ctx!NoneKept \in [Ctx!Sets -> SUBSET Namespaces]
  BY DEF Ctx!NoneKept
<1>2. NoSession \in Ctx!Sessions
  BY DEF Ctx!Sessions
<1>3. Ctx!TypeOK
  BY <1>1, <1>2 DEF Ctx!TypeOK, Ctx!Kubeconfigs
<1>4. Ctx!DiskIsCurrent
  BY AggregatedFacts DEF Ctx!DiskIsCurrent, Ctx!NamespacesOf
<1>5. GroupsRecorded /\ Ctx!GroupIsShown
  BY DEF GroupsRecorded, Recorded, Ctx!GroupIsShown
<1> QED BY <1>3, <1>4, <1>5 DEF CtxInv

-----------------------------------------------------------------------------
\* A screen that is mounted, or left as it is, is well typed.
LEMMA ScreenType ==
    ASSUME Ctx!TypeOK, NEW next, Ctx!ShowScreenFor(next)
    PROVE  /\ c_listed' \in SUBSET Clusters /\ c_picked' \in SUBSET Clusters
           /\ c_load' \in {"loading", "ready", "failed"}
BY DEF Ctx!TypeOK, Ctx!ShowScreenFor, Ctx!Mount, Ctx!screen

\* normalizeContexts keeps the invariant when what it is given is sound: the
\* contexts shown under a group are members of it, and those of the session it
\* records are members of the session's, unless the session taken up was
\* outgrown.
LEMMA CtxNormalizeInv ==
    ASSUME CtxInv,
           NEW next \in SUBSET Clusters, NEW g \in GroupIds \cup {NoGroup},
           NEW last \in Ctx!Sessions, NEW o \in BOOLEAN,
           g # NoGroup => c_groups[g] # {} /\ (next \subseteq c_groups[g] \/ o),
           next = {} => g = NoGroup,
           last # NoSession /\ last.group # NoGroup =>
               /\ last.group \in c_used
               /\ \/ c_groups[last.group] = {}
                  \/ last.contexts \subseteq c_groups[last.group]
                  \/ o,
           Ctx!Normalize(next, g, last), c_outgrown' = o
    PROVE  CtxInv'
<1> USE DEF CtxInv, Ctx!Normalize
<1>1. /\ c_listed' \in SUBSET Clusters /\ c_picked' \in SUBSET Clusters
      /\ c_load' \in {"loading", "ready", "failed"}
  BY ScreenType
<1>2. Ctx!NamespacesOf(next) \in SUBSET Namespaces
  BY KeptFacts
<1>3. c_disk' = [aggregated |-> Ctx!Aggregated(next), kept |-> c_kept, session |-> last,
               groups |-> c_groups, default |-> c_default]
  BY DEF Ctx!DiskIsCurrent
<1>4. Ctx!TypeOK'
  BY <1>1, <1>2, <1>3, AggregatedFacts DEF Ctx!TypeOK
<1>5. Ctx!DiskIsCurrent'
  BY <1>3 DEF Ctx!DiskIsCurrent, Ctx!NamespacesOf
<1>6. GroupsRecorded'
  <2>1. /\ c_session' = last /\ c_active' = next /\ c_group' = g
        /\ c_groups' = c_groups /\ c_used' = c_used
    BY DEF Ctx!Normalize
  <2>2. Recorded(c_session)'
    BY <2>1 DEF Recorded
  <2> QED BY <2>1, <2>2 DEF GroupsRecorded
<1>7. Ctx!GroupIsShown'
  BY DEF Ctx!GroupIsShown
<1> QED BY <1>4, <1>5, <1>6, <1>7

\* One context is connected to, and recorded as the session.
LEMMA CtxSingleInv ==
    ASSUME CtxInv, NEW name \in Clusters, NEW o \in BOOLEAN,
           Ctx!SetSelectedContext(name), c_outgrown' = o
    PROVE  CtxInv'
<1> DEFINE last == [contexts |-> {name}, group |-> NoGroup]
<1>1. last \in Ctx!Sessions /\ last.group = NoGroup
  BY DEF Ctx!Sessions, Ctx!Sets
<1>2. Ctx!Normalize({name}, NoGroup, last)
  BY DEF Ctx!SetSelectedContext
<1> HIDE DEF last
<1> QED BY <1>1, <1>2, CtxNormalizeInv

\* Several are connected to at once, under a group or none.
LEMMA CtxSeveralInv ==
    ASSUME CtxInv, NEW names \in SUBSET Clusters, names # {},
           NEW g \in GroupIds \cup {NoGroup},
           NEW o \in BOOLEAN,
           g # NoGroup => c_groups[g] # {} /\ (names \subseteq c_groups[g] \/ o),
           Ctx!SetAggregatedContexts(names, g), c_outgrown' = o
    PROVE  CtxInv'
<1> DEFINE last == [contexts |-> names, group |-> g]
<1>1. last \in Ctx!Sessions /\ last.group = g /\ last.contexts = names
  BY DEF Ctx!Sessions, Ctx!Sets
<1>2. Ctx!Normalize(names, g, last)
  BY DEF Ctx!SetAggregatedContexts
<1>3. g # NoGroup => g \in c_used
  BY DEF CtxInv, GroupsRecorded
<1> HIDE DEF last
<1> QED BY <1>1, <1>2, <1>3, CtxNormalizeInv

\* A new choice of namespaces is stored for the active set of contexts.
LEMMA CtxSelectInv ==
    ASSUME CtxInv, NEW next \in SUBSET Namespaces, Ctx!SelectNamespaces(next)
    PROVE  CtxInv'
<1> USE DEF CtxInv
<1> DEFINE map == [c_kept EXCEPT ![c_active] = next]
<1>1. c_active \in Ctx!Sets
  BY DEF Ctx!SelectNamespaces, Ctx!TypeOK, Ctx!Sets
<1>2. map \in [Ctx!Sets -> SUBSET Namespaces] /\ map[c_active] = next
  BY <1>1 DEF Ctx!TypeOK
<1>3. /\ c_kept' = map /\ c_namespaces' = next /\ c_disk' = [c_disk EXCEPT !.kept = map]
      /\ UNCHANGED <<c_active, c_group, c_session, c_groups, c_default, c_kubeconfig,
                     Ctx!screen, Ctx!history>>
  BY DEF Ctx!SelectNamespaces
<1> HIDE DEF map
<1>4. Ctx!TypeOK'
  BY <1>2, <1>3 DEF Ctx!TypeOK, Ctx!screen, Ctx!history
<1>5. Ctx!DiskIsCurrent'
  BY <1>1, <1>2, <1>3 DEF Ctx!DiskIsCurrent, Ctx!NamespacesOf, Ctx!Sets
<1>6. GroupsRecorded' /\ Ctx!GroupIsShown'
  BY <1>3 DEF GroupsRecorded, Recorded, Ctx!GroupIsShown, Ctx!history
<1> QED BY <1>4, <1>5, <1>6

-----------------------------------------------------------------------------
\* The operations that show other contexts than before.
LEMMA CtxConnectInv ==
    ASSUME CtxInv,
           \/ Ctx!ConnectPicked \/ Ctx!ReconnectLastSession \/ Ctx!ClearAggregatedContexts
           \/ \E name \in Clusters : \/ Ctx!ConnectSingle(name)
                                      \/ Ctx!ToggleAggregatedContext(name)
           \/ \E g \in GroupIds : Ctx!ConnectGroup(g) \/ Ctx!SwitchGroup(g)
    PROVE  CtxInv'
<1> USE DEF CtxInv
<1>1. CASE Ctx!ConnectPicked
  <2>1. c_picked \in SUBSET Clusters /\ c_picked # {}
    BY <1>1 DEF Ctx!ConnectPicked, Ctx!TypeOK
  <2>2. /\ c_outgrown' = FALSE
        /\ \/ \E name \in c_picked : Ctx!SetSelectedContext(name)
           \/ Ctx!SetAggregatedContexts(c_picked, NoGroup)
    BY <1>1 DEF Ctx!ConnectPicked
  <2> QED BY <2>1, <2>2, CtxSingleInv, CtxSeveralInv
<1>2. CASE Ctx!ReconnectLastSession
  <2> DEFINE members == c_session.contexts \cap c_listed
             g == IF c_session.group = NoGroup \/ c_groups[c_session.group] = {}
                  THEN NoGroup ELSE c_session.group
  <2>1. c_session # NoSession /\ members # {}
    BY <1>2 DEF Ctx!ReconnectLastSession
  <2>2. /\ c_session.contexts \in Ctx!Sets /\ c_session.group \in GroupIds \cup {NoGroup}
        /\ c_listed \in SUBSET Clusters
    BY <2>1 DEF Ctx!TypeOK, Ctx!Sessions
  <2>3. members \in SUBSET Clusters /\ g \in GroupIds \cup {NoGroup}
    BY <2>2
  <2>4. /\ c_outgrown \in BOOLEAN
        /\ g # NoGroup => c_groups[g] # {} /\ (members \subseteq c_groups[g] \/ c_outgrown)
    BY <2>1 DEF GroupsRecorded, Recorded, Ctx!TypeOK
  <2>5. /\ c_outgrown' = c_outgrown
        /\ \/ \E name \in members : Ctx!SetSelectedContext(name)
           \/ Ctx!SetAggregatedContexts(members, g)
    BY <1>2 DEF Ctx!ReconnectLastSession
  <2> HIDE DEF members, g
  <2> QED BY <2>1, <2>3, <2>4, <2>5, CtxSingleInv, CtxSeveralInv
<1>3. CASE Ctx!ClearAggregatedContexts
  <2>1. /\ Ctx!Normalize({}, NoGroup, c_session) /\ c_session \in Ctx!Sessions
        /\ c_outgrown' = c_outgrown /\ c_outgrown \in BOOLEAN
    BY <1>3 DEF Ctx!ClearAggregatedContexts, Ctx!TypeOK
  <2>2. Recorded(c_session)
    BY DEF GroupsRecorded
  <2> QED BY <2>1, <2>2, CtxNormalizeInv DEF Recorded
<1>4. ASSUME NEW name \in Clusters, Ctx!ConnectSingle(name)
      PROVE  CtxInv'
  BY <1>4, CtxSingleInv DEF Ctx!ConnectSingle
<1>5. ASSUME NEW name \in Clusters, Ctx!ToggleAggregatedContext(name)
      PROVE  CtxInv'
  <2> DEFINE next == (c_active \ {name}) \cup ({name} \ c_active)
  <2>1. /\ Ctx!Normalize(next, NoGroup, c_session) /\ c_session \in Ctx!Sessions
        /\ c_outgrown' = c_outgrown /\ c_outgrown \in BOOLEAN
    BY <1>5 DEF Ctx!ToggleAggregatedContext, Ctx!TypeOK
  <2>2. next \in SUBSET Clusters
    BY DEF Ctx!TypeOK
  <2>3. Recorded(c_session)
    BY DEF GroupsRecorded
  <2> HIDE DEF next
  <2> QED BY <2>1, <2>2, <2>3, CtxNormalizeInv DEF Recorded
<1>6. ASSUME NEW g \in GroupIds, Ctx!ConnectGroup(g)
      PROVE  CtxInv'
  <2> DEFINE members == c_groups[g] \cap c_listed
  <2>1. members # {} /\ members \in SUBSET Clusters
    BY <1>6 DEF Ctx!ConnectGroup, Ctx!TypeOK
  <2>2. c_groups[g] # {} /\ members \subseteq c_groups[g]
    BY <2>1
  <2>3. /\ c_outgrown' = FALSE
        /\ \/ \E name \in members : Ctx!SetSelectedContext(name)
           \/ Ctx!SetAggregatedContexts(members, g)
    BY <1>6 DEF Ctx!ConnectGroup
  <2> HIDE DEF members
  <2> QED BY <2>1, <2>2, <2>3, CtxSingleInv, CtxSeveralInv
<1>7. ASSUME NEW g \in GroupIds, Ctx!SwitchGroup(g)
      PROVE  CtxInv'
  <2>1. c_groups[g] \in SUBSET Clusters /\ c_groups[g] # {}
    BY <1>7 DEF Ctx!SwitchGroup, Ctx!TypeOK
  <2>2. Ctx!SetAggregatedContexts(c_groups[g], g) /\ c_outgrown' = FALSE
    BY <1>7 DEF Ctx!SwitchGroup
  <2> QED BY <2>1, <2>2, CtxSeveralInv
<1> QED BY <1>1, <1>2, <1>3, <1>4, <1>5, <1>6, <1>7

\* The operations that save something and leave the contexts shown alone.
LEMMA CtxSaveInv ==
    ASSUME CtxInv,
           \/ Ctx!ClearLastSession \/ Ctx!ClearSelectedNamespaces
           \/ \E name \in Clusters : Ctx!SetDefaultContext(name)
           \/ \E ns \in Namespaces : Ctx!ToggleSelectedNamespace(ns)
           \/ \E g \in GroupIds : \/ Ctx!RemoveContextGroup(g)
                                  \/ \E members \in SUBSET Clusters :
                                        Ctx!UpsertContextGroup(g, members)
    PROVE  CtxInv'
<1> USE DEF CtxInv
<1>1. CASE Ctx!ClearLastSession
  <2>1. Ctx!TypeOK'
    BY <1>1 DEF Ctx!ClearLastSession, Ctx!TypeOK, Ctx!Sessions, Ctx!choice, Ctx!screen,
        Ctx!history
  <2>2. Ctx!DiskIsCurrent'
    BY <1>1 DEF Ctx!ClearLastSession, Ctx!DiskIsCurrent, Ctx!NamespacesOf, Ctx!choice
  <2>3. GroupsRecorded' /\ Ctx!GroupIsShown'
    BY <1>1 DEF Ctx!ClearLastSession, GroupsRecorded, Recorded, Ctx!GroupIsShown, Ctx!choice,
        Ctx!history
  <2> QED BY <2>1, <2>2, <2>3
<1>2. CASE Ctx!ClearSelectedNamespaces
  BY <1>2, CtxSelectInv DEF Ctx!ClearSelectedNamespaces
<1>3. ASSUME NEW name \in Clusters, Ctx!SetDefaultContext(name)
      PROVE  CtxInv'
  <2>1. c_default' \in Clusters \cup {NoContext}
    BY <1>3 DEF Ctx!SetDefaultContext
  <2>2. Ctx!TypeOK'
    BY <1>3, <2>1 DEF Ctx!SetDefaultContext, Ctx!TypeOK, Ctx!choice, Ctx!screen,
        Ctx!history
  <2>3. Ctx!DiskIsCurrent'
    BY <1>3 DEF Ctx!SetDefaultContext, Ctx!DiskIsCurrent, Ctx!NamespacesOf, Ctx!choice
  <2>4. GroupsRecorded' /\ Ctx!GroupIsShown'
    BY <1>3 DEF Ctx!SetDefaultContext, GroupsRecorded, Recorded, Ctx!GroupIsShown, Ctx!choice,
        Ctx!history
  <2> QED BY <2>2, <2>3, <2>4
<1>4. ASSUME NEW ns \in Namespaces, Ctx!ToggleSelectedNamespace(ns)
      PROVE  CtxInv'
  <2>1. (c_namespaces \ {ns}) \cup ({ns} \ c_namespaces) \in SUBSET Namespaces
    BY DEF Ctx!TypeOK
  <2> QED BY <1>4, <2>1, CtxSelectInv DEF Ctx!ToggleSelectedNamespace
<1>5. ASSUME NEW g \in GroupIds, Ctx!RemoveContextGroup(g)
      PROVE  CtxInv'
  <2>1. c_groups' = [c_groups EXCEPT ![g] = {}] /\ c_groups' \in [GroupIds -> SUBSET Clusters]
    BY <1>5 DEF Ctx!RemoveContextGroup, Ctx!TypeOK
  <2>2. Ctx!TypeOK'
    BY <1>5, <2>1 DEF Ctx!RemoveContextGroup, Ctx!TypeOK, Ctx!choice, Ctx!screen,
        Ctx!history
  <2>3. Ctx!DiskIsCurrent'
    BY <1>5 DEF Ctx!RemoveContextGroup, Ctx!DiskIsCurrent, Ctx!NamespacesOf, Ctx!choice
  <2>4. GroupsRecorded' /\ Ctx!GroupIsShown'
    BY <1>5, <2>1
    DEF Ctx!RemoveContextGroup, Ctx!TypeOK, GroupsRecorded, Recorded, Ctx!GroupIsShown, Ctx!choice,
        Ctx!history
  <2> QED BY <2>2, <2>3, <2>4
<1>6. ASSUME NEW g \in GroupIds, NEW members \in SUBSET Clusters,
             Ctx!UpsertContextGroup(g, members)
      PROVE  CtxInv'
  <2>1. /\ c_groups' = [c_groups EXCEPT ![g] = members]
        /\ c_groups' \in [GroupIds -> SUBSET Clusters]
    BY <1>6 DEF Ctx!UpsertContextGroup, Ctx!TypeOK
  <2>2. c_used' = c_used \cup {g} /\ c_outgrown' \in BOOLEAN
    BY <1>6 DEF Ctx!UpsertContextGroup, Ctx!TypeOK
  <2>3. Ctx!TypeOK'
    BY <1>6, <2>1, <2>2 DEF Ctx!UpsertContextGroup, Ctx!TypeOK, Ctx!choice, Ctx!screen
  <2>4. Ctx!DiskIsCurrent'
    BY <1>6 DEF Ctx!UpsertContextGroup, Ctx!DiskIsCurrent, Ctx!NamespacesOf, Ctx!choice
  <2>5. c_session' = c_session /\ c_active' = c_active /\ c_group' = c_group /\ c_active = {}
    BY <1>6 DEF Ctx!UpsertContextGroup, Ctx!choice
  <2>6. Recorded(c_session)'
    <3>1. SUFFICES ASSUME c_session # NoSession, c_session.group # NoGroup
                   PROVE  Recorded(c_session)'
      BY <2>5 DEF Recorded
    <3>2. c_session.group \in GroupIds
      BY <3>1 DEF Ctx!TypeOK, Ctx!Sessions
    <3>3. c_session.group \in c_used
      BY <3>1 DEF GroupsRecorded, Recorded
    <3>4. CASE c_session.group = g
      <4>1. c_session.contexts \subseteq members \/ c_outgrown'
        BY <1>6, <3>1, <3>4 DEF Ctx!UpsertContextGroup
      <4>2. c_groups'[c_session.group] = members
        BY <2>1, <3>2, <3>4 DEF Ctx!TypeOK
      <4> QED BY <2>2, <2>5, <3>3, <4>1, <4>2 DEF Recorded
    <3>5. CASE c_session.group # g
      <4>1. c_groups'[c_session.group] = c_groups[c_session.group]
        BY <2>1, <3>2, <3>5 DEF Ctx!TypeOK
      <4>2. c_outgrown => c_outgrown'
        BY <1>6 DEF Ctx!UpsertContextGroup
      <4>3. \/ c_groups[c_session.group] = {}
            \/ c_session.contexts \subseteq c_groups[c_session.group]
            \/ c_outgrown
        BY <3>1 DEF GroupsRecorded, Recorded
      <4> QED BY <2>2, <2>5, <3>3, <4>1, <4>2, <4>3 DEF Recorded
    <3> QED BY <3>4, <3>5
  <2>7. GroupsRecorded' /\ Ctx!GroupIsShown'
    BY <2>1, <2>2, <2>5, <2>6 DEF GroupsRecorded, Ctx!GroupIsShown, Ctx!TypeOK
  <2> QED BY <2>3, <2>4, <2>7
<1> QED BY <1>1, <1>2, <1>3, <1>4, <1>5, <1>6

\* The screens' own steps, a change of the kubeconfig, and a restart.
LEMMA CtxOtherInv ==
    ASSUME CtxInv,
           \/ Ctx!Reload \/ Ctx!ListAnswers \/ Ctx!EditKubeconfig \/ Ctx!Restart
           \/ \E name \in Clusters : Ctx!TogglePick(name)
           \/ UNCHANGED Ctx!vars
    PROVE  CtxInv'
<1> USE DEF CtxInv
<1>1. CASE Ctx!Restart
  <2> DEFINE booted == IF c_disk.aggregated # {} THEN c_disk.aggregated
                       ELSE IF c_disk.default # NoContext THEN {c_disk.default} ELSE {}
  <2>1. booted \in SUBSET Clusters
    BY DEF Ctx!TypeOK
  <2>2. Ctx!Aggregated(booted) = c_disk.aggregated
    BY AggregatedFacts DEF Ctx!DiskIsCurrent
  <2>3. /\ c_active' = booted /\ c_group' = NoGroup /\ c_kept' = c_disk.kept
        /\ c_namespaces' = IF booted = {} THEN {} ELSE c_disk.kept[booted]
        /\ c_session' = c_disk.session
        /\ c_groups' = c_disk.groups /\ c_default' = c_disk.default
        /\ c_listed' = {} /\ c_load' = "loading" /\ c_picked' = {}
        /\ UNCHANGED <<c_disk, c_kubeconfig, c_used, c_outgrown>>
    BY <1>1 DEF Ctx!Restart, Ctx!Mount, Ctx!history
  <2> HIDE DEF booted
  <2>4. /\ c_disk.aggregated = Ctx!Aggregated(c_active) /\ c_disk.kept = c_kept
        /\ c_disk.session = c_session /\ c_disk.groups = c_groups /\ c_disk.default = c_default
    BY DEF Ctx!DiskIsCurrent
  <2>5. c_namespaces' \in SUBSET Namespaces
    BY <2>1, <2>3, <2>4 DEF Ctx!TypeOK, Ctx!Sets
  <2>6. Ctx!TypeOK'
    BY <2>1, <2>3, <2>5 DEF Ctx!TypeOK
  <2>7. Ctx!DiskIsCurrent'
    BY <2>2, <2>3, <2>4 DEF Ctx!DiskIsCurrent, Ctx!NamespacesOf
  <2>8. GroupsRecorded' /\ Ctx!GroupIsShown'
    BY <2>3, <2>4 DEF GroupsRecorded, Recorded, Ctx!GroupIsShown
  <2> QED BY <2>6, <2>7, <2>8
<1>2. CASE \/ Ctx!Reload \/ Ctx!ListAnswers \/ Ctx!EditKubeconfig
           \/ \E name \in Clusters : Ctx!TogglePick(name)
           \/ UNCHANGED Ctx!vars
  <2>1. UNCHANGED <<Ctx!choice, Ctx!saved, c_disk, Ctx!history>>
    BY <1>2
    DEF Ctx!Reload, Ctx!ListAnswers, Ctx!EditKubeconfig, Ctx!TogglePick, Ctx!vars, Ctx!choice,
        Ctx!saved
  <2>2. /\ c_kubeconfig' \in SUBSET Clusters /\ c_listed' \in SUBSET Clusters
        /\ c_picked' \in SUBSET Clusters /\ c_load' \in {"loading", "ready", "failed"}
    <3>1. CASE Ctx!Reload \/ UNCHANGED Ctx!vars
      BY <3>1 DEF Ctx!Reload, Ctx!vars, Ctx!TypeOK
    <3>2. CASE Ctx!ListAnswers
      BY <3>2 DEF Ctx!ListAnswers, Ctx!TypeOK
    <3>3. CASE Ctx!EditKubeconfig
      BY <3>3 DEF Ctx!EditKubeconfig, Ctx!Kubeconfigs, Ctx!screen, Ctx!TypeOK
    <3>4. ASSUME NEW name \in Clusters, Ctx!TogglePick(name)
          PROVE  /\ c_kubeconfig' \in SUBSET Clusters /\ c_listed' \in SUBSET Clusters
                 /\ c_picked' \in SUBSET Clusters /\ c_load' \in {"loading", "ready", "failed"}
      BY <3>4 DEF Ctx!TogglePick, Ctx!TypeOK
    <3> QED BY <1>2, <3>1, <3>2, <3>3, <3>4
  <2>3. Ctx!TypeOK'
    BY <2>1, <2>2 DEF Ctx!TypeOK, Ctx!choice, Ctx!saved, Ctx!history
  <2>4. Ctx!DiskIsCurrent' /\ GroupsRecorded' /\ Ctx!GroupIsShown'
    BY <2>1
    DEF Ctx!DiskIsCurrent, Ctx!NamespacesOf, GroupsRecorded, Recorded, Ctx!GroupIsShown,
        Ctx!choice, Ctx!saved, Ctx!history
  <2> QED BY <2>3, <2>4
<1> QED BY <1>1, <1>2

\* A restart brings back what RestartRestores says of it.
LEMMA CtxRestart ==
    ASSUME CtxInv, Ctx!Restart
    PROVE  /\ c_active' = IF Ctx!Cardinality(c_active) >= 2 THEN c_active
                          ELSE {c_default} \ {NoContext}
           /\ c_active' = c_active => c_namespaces' = c_namespaces
           /\ UNCHANGED Ctx!saved
<1>1. /\ c_disk.aggregated = Ctx!Aggregated(c_active) /\ c_disk.kept = c_kept
      /\ c_disk.session = c_session /\ c_disk.groups = c_groups /\ c_disk.default = c_default
      /\ c_namespaces = Ctx!NamespacesOf(c_active)
  BY DEF CtxInv, Ctx!DiskIsCurrent
<1>2. c_active' = IF c_disk.aggregated # {} THEN c_disk.aggregated
                  ELSE {c_default} \ {NoContext}
  BY <1>1 DEF Ctx!Restart
<1>3. c_active' = IF Ctx!Cardinality(c_active) >= 2 THEN c_active
                  ELSE {c_default} \ {NoContext}
  <2>1. CASE Ctx!Cardinality(c_active) >= 2
    <3>1. Ctx!Aggregated(c_active) = c_active
      BY <2>1 DEF Ctx!Aggregated
    <3>2. c_active # {}
      BY <2>1, NoneIsNotTwo
    <3> QED BY <1>1, <1>2, <2>1, <3>1, <3>2
  <2>2. CASE ~(Ctx!Cardinality(c_active) >= 2)
    BY <1>1, <1>2, <2>2 DEF Ctx!Aggregated
  <2> QED BY <2>1, <2>2
<1>4. c_active' = c_active => c_namespaces' = c_namespaces
  BY <1>1 DEF Ctx!Restart, Ctx!NamespacesOf
<1>5. UNCHANGED Ctx!saved
  BY <1>1 DEF Ctx!Restart, Ctx!saved
<1> QED BY <1>3, <1>4, <1>5

LEMMA CtxNextInv == CtxInv /\ [Ctx!Next]_(Ctx!vars) => CtxInv'
BY CtxConnectInv, CtxSaveInv, CtxOtherInv DEF Ctx!Next

-----------------------------------------------------------------------------
(***************************************************************************)
(* The Sync dialog.                                                         *)
(***************************************************************************)
\* What FreshUnlessLate rests on: whatever is unanswered, polled or shown was
\* submitted since the dialog was opened, or was unanswered when it closed.
SyncKnown ==
    /\ Sync!Pending \subseteq s_own \cup s_late
    /\ s_ticks \subseteq s_own \cup s_late
    /\ s_phase # Sync!Form => s_phase.of \in s_own \cup s_late

SyncInv == Sync!TypeOK /\ SyncKnown

-----------------------------------------------------------------------------
\* The phases there are; the form is about no submission.
LEMMA PhaseFacts ==
    ASSUME Sync!TypeOK
    PROVE  /\ s_phase.kind \in {"polling", "results", "timeout"} => s_phase.of \in Submissions
           /\ Sync!Form.kind = "form" /\ Sync!Form.of = None
           /\ \A s \in Submissions : /\ [kind |-> "polling", of |-> s].of = s
                                     /\ [kind |-> "results", of |-> s].of = s
BY DEF Sync!TypeOK, Sync!Form

LEMMA SyncInitInv == Sync!Init => SyncInv
<1> SUFFICES ASSUME Sync!Init PROVE SyncInv
  OBVIOUS
<1> USE DEF Sync!Init
<1>1. Sync!TypeOK
  BY DEF Sync!TypeOK
<1>2. SyncKnown
  BY DEF SyncKnown, Sync!Pending
<1> QED BY <1>1, <1>2 DEF SyncInv

\* Every step keeps the types; a step that leaves the phase of polling
\* cancels the polls.
LEMMA SyncTypeNext == Sync!TypeOK /\ [Sync!Next]_(Sync!vars) => Sync!TypeOK'
<1> SUFFICES ASSUME Sync!TypeOK, [Sync!Next]_(Sync!vars) PROVE Sync!TypeOK'
  OBVIOUS
<1> USE DEF Sync!TypeOK
<1>1. CASE Sync!Open
  BY <1>1 DEF Sync!Open
<1>2. CASE Sync!Close
  BY <1>2 DEF Sync!Close, Sync!Turn, Sync!Pending
<1>3. CASE Sync!Unmount
  BY <1>3 DEF Sync!Unmount, Sync!Turn, Sync!Pending
<1>4. CASE Sync!Tick
  <2>1. s_phase.of \in Submissions
    BY <1>4, PhaseFacts DEF Sync!Tick
  <2> QED BY <1>4, <2>1 DEF Sync!Tick
<1>5. CASE Sync!TimeOut
  <2>1. s_phase.of \in Submissions /\ s_phase # Sync!Form
    BY <1>5, PhaseFacts DEF Sync!TimeOut
  <2>2. [s_phase EXCEPT !.kind = "timeout"]
            \in [kind : {"polling", "results", "timeout"}, of : Submissions]
    BY <2>1
  <2> QED BY <1>5, <2>2 DEF Sync!TimeOut, Sync!Turn
<1>6. CASE Sync!AdjustAndRun
  BY <1>6 DEF Sync!AdjustAndRun, Sync!Turn
<1>7. ASSUME NEW app \in Applications, Sync!Retarget(app) PROVE Sync!TypeOK'
  BY <1>7 DEF Sync!Retarget, Sync!Turn
<1>8. ASSUME NEW s \in Submissions, Sync!Synchronize(s) PROVE Sync!TypeOK'
  BY <1>8 DEF Sync!Synchronize
<1>9. ASSUME NEW s \in Submissions, Sync!SyncAnswers(s) PROVE Sync!TypeOK'
  <2>1. [kind |-> "polling", of |-> s]
            \in [kind : {"polling", "results", "timeout"}, of : Submissions]
    OBVIOUS
  <2> QED BY <1>9, <2>1 DEF Sync!SyncAnswers, Sync!Turn
<1>10. ASSUME NEW s \in Submissions, Sync!TickAnswers(s) PROVE Sync!TypeOK'
  <2>1. [kind |-> "results", of |-> s]
            \in [kind : {"polling", "results", "timeout"}, of : Submissions]
    OBVIOUS
  <2> QED BY <1>10, <2>1 DEF Sync!TickAnswers, Sync!Turn
<1>11. CASE UNCHANGED Sync!vars
  BY <1>11 DEF Sync!vars
<1> QED BY <1>1, <1>2, <1>3, <1>4, <1>5, <1>6, <1>7, <1>8, <1>9, <1>10, <1>11 DEF Sync!Next

\* Closing makes what is unanswered late, and forgets the rest.
LEMMA SyncKnownNext == SyncInv /\ [Sync!Next]_(Sync!vars) => SyncKnown'
<1> SUFFICES ASSUME SyncInv, [Sync!Next]_(Sync!vars) PROVE SyncKnown'
  OBVIOUS
<1> USE PhaseFacts DEF SyncInv, Sync!TypeOK, SyncKnown, Sync!Pending
<1>1. CASE Sync!Open
  BY <1>1 DEF Sync!Open
<1>2. CASE Sync!Close
  BY <1>2 DEF Sync!Close, Sync!Turn
<1>3. CASE Sync!Unmount
  BY <1>3 DEF Sync!Unmount, Sync!Turn
<1>4. CASE Sync!Tick
  <2>1. s_phase # Sync!Form
    BY <1>4 DEF Sync!Tick
  <2> QED BY <1>4, <2>1 DEF Sync!Tick
<1>5. CASE Sync!TimeOut
  <2>1. s_phase # Sync!Form /\ s_phase.of \in Submissions
    BY <1>5 DEF Sync!TimeOut
  <2>2. [s_phase EXCEPT !.kind = "timeout"].of = s_phase.of
    BY <2>1
  <2> QED BY <1>5, <2>1, <2>2 DEF Sync!TimeOut, Sync!Turn
<1>6. CASE Sync!AdjustAndRun
  BY <1>6 DEF Sync!AdjustAndRun, Sync!Turn
<1>7. ASSUME NEW app \in Applications, Sync!Retarget(app) PROVE SyncKnown'
  BY <1>7 DEF Sync!Retarget, Sync!Turn
<1>8. ASSUME NEW s \in Submissions, Sync!Synchronize(s) PROVE SyncKnown'
  BY <1>8 DEF Sync!Synchronize
<1>9. ASSUME NEW s \in Submissions, Sync!SyncAnswers(s) PROVE SyncKnown'
  BY <1>9 DEF Sync!SyncAnswers, Sync!Turn
<1>10. ASSUME NEW s \in Submissions, Sync!TickAnswers(s) PROVE SyncKnown'
  BY <1>10 DEF Sync!TickAnswers, Sync!Turn
<1>11. CASE UNCHANGED Sync!vars
  BY <1>11 DEF Sync!vars
<1> QED BY <1>1, <1>2, <1>3, <1>4, <1>5, <1>6, <1>7, <1>8, <1>9, <1>10, <1>11 DEF Sync!Next


LEMMA SyncNextInv == SyncInv /\ [Sync!Next]_(Sync!vars) => SyncInv'
BY SyncTypeNext, SyncKnownNext DEF SyncInv

LEMMA FreshInv == SyncInv => Sync!FreshUnlessLate
BY PhaseFacts DEF SyncInv, SyncKnown, Sync!FreshUnlessLate

-----------------------------------------------------------------------------
(***************************************************************************)
(* Port forwards.                                                           *)
(***************************************************************************)
ForwardAnswer == [list : SUBSET Forwards, older : BOOLEAN]

\* What is left of the answers when the i-th arrives: the earlier ones are
\* older than what is shown.
LEMMA ArrivalFacts ==
    ASSUME Forward!TypeOK, NEW i \in 1..Len(f_answers), Forward!AnswerArrives(i)
    PROVE  /\ Len(f_answers) \in Nat
           /\ f_list' = f_answers[i].list /\ f_overtaken' = f_answers[i].older
           /\ f_answers' \in Seq(ForwardAnswer) /\ Len(f_answers') = Len(f_answers) - 1
           /\ \A j \in 1..(Len(f_answers) - 1) :
                 /\ j < i => f_answers'[j].older
                 /\ j >= i => f_answers'[j] = f_answers[j + 1]
           /\ f_answers[i] \in ForwardAnswer
<1> DEFINE s == f_answers
           n == Len(s)
           marked == [j \in 1..n |-> IF j < i THEN [s[j] EXCEPT !.older = TRUE] ELSE s[j]]
<1>0. s \in Seq(ForwardAnswer)
  BY DEF Forward!TypeOK, ForwardAnswer
<1>d. DOMAIN s = 1..n /\ n \in Nat
  BY <1>0, LenProperties
<1>1. i \in 1..n /\ n \in Nat /\ i \in Nat /\ i <= n
  BY <1>0, LenProperties
<1>2. \A j \in 1..n : s[j] \in ForwardAnswer
  BY <1>0, ElementOfSeq
<1>3. ASSUME NEW j \in 1..n
      PROVE  /\ marked[j] \in ForwardAnswer
             /\ j < i => marked[j].older
             /\ j >= i => marked[j] = s[j]
  <2>1. /\ s[j] \in ForwardAnswer
        /\ [s[j] EXCEPT !.older = TRUE] \in ForwardAnswer
        /\ [s[j] EXCEPT !.older = TRUE].older = TRUE
    BY <1>2 DEF ForwardAnswer
  <2>2. CASE j < i
    <3>1. marked[j] = [s[j] EXCEPT !.older = TRUE] /\ ~(j >= i)
      BY <1>1, <2>2
    <3> QED BY <2>1, <3>1
  <2>3. CASE ~(j < i)
    BY <2>1, <2>3
  <2> QED BY <2>2, <2>3
<1>4. marked \in [1..n -> ForwardAnswer]
  BY <1>3
<1>5. /\ f_list' = s[i].list /\ f_overtaken' = s[i].older
      /\ f_answers' = Forward!RemoveAt(marked, i)
  BY <1>d DEF Forward!AnswerArrives
<1>6. f_answers' = RemoveAt(marked, i)
  BY <1>5 DEF RemoveAt, Forward!RemoveAt
<1> HIDE DEF marked, s
<1>7. /\ f_answers' \in Seq(ForwardAnswer) /\ Len(f_answers') = n - 1
      /\ \A j \in 1..Len(f_answers') : /\ j < i => f_answers'[j] = marked[j]
                                       /\ j >= i => f_answers'[j] = marked[j + 1]
  BY <1>0, <1>1, <1>4, <1>6, TakenFacts
<1>8. ASSUME NEW j \in 1..(n - 1)
      PROVE  /\ j < i => f_answers'[j].older
             /\ j >= i => f_answers'[j] = s[j + 1]
  <2>1. j \in 1..n /\ j + 1 \in 1..n /\ i \in Nat /\ (j >= i => j + 1 >= i)
    BY <1>1, <1>2
  <2> QED BY <1>3, <1>7, <2>1
<1> QED BY <1>1, <1>2, <1>5, <1>7, <1>8 DEF s

LEMMA ForwardTypeInit == Forward!Init => Forward!TypeOK
<1> SUFFICES ASSUME Forward!Init PROVE Forward!TypeOK
  OBVIOUS
<1>1. f_answers \in Seq([list : SUBSET Forwards, older : BOOLEAN])
  BY EmptySeq DEF Forward!Init
<1>2. f_events \in Nat /\ f_asked \in Nat
  BY DEF Forward!Init
<1>3. f_ready \cup f_stopped \cup f_sessions \cup f_swapped \cup f_list \subseteq Forwards
  BY DEF Forward!Init
<1>4. /\ f_fwd \in [Forwards -> {"idle", "dialing", "listening", "ended"}]
      /\ f_call \in [Forwards -> {"idle", "select", "register", "notify", "done", "failed"}]
      /\ f_watch \in [Forwards -> {"none", "waiting", "notify", "done"}]
  BY DEF Forward!Init
<1>5. f_quit \in BOOLEAN /\ f_overtaken \in BOOLEAN
  BY DEF Forward!Init
<1> QED BY <1>1, <1>2, <1>3, <1>4, <1>5 DEF Forward!TypeOK

LEMMA ForwardTypeNext == Forward!TypeOK /\ [Forward!Next]_(Forward!vars) => Forward!TypeOK'
<1> SUFFICES ASSUME Forward!TypeOK, [Forward!Next]_(Forward!vars) PROVE Forward!TypeOK'
  OBVIOUS
<1> USE DEF Forward!TypeOK, Forward!pageVars, Forward!backend
<1>1. ASSUME NEW f \in Forwards,
             \/ Forward!Listens(f) \/ Forward!Ends(f) \/ Forward!Start(f)
             \/ Forward!SelectReady(f) \/ Forward!SelectFails(f)
      PROVE  Forward!TypeOK'
  BY <1>1
  DEF Forward!Listens, Forward!Ends, Forward!Start, Forward!SelectReady, Forward!SelectFails
<1>2. ASSUME NEW f \in Forwards,
             \/ Forward!Register(f) \/ Forward!NotifyStart(f)
             \/ Forward!Collect(f) \/ Forward!NotifyEnd(f)
      PROVE  Forward!TypeOK'
  BY <1>2 DEF Forward!Register, Forward!NotifyStart, Forward!Collect, Forward!NotifyEnd
<1>3. ASSUME NEW f \in Forwards, Forward!Stop(f) \/ Forward!CloseSwapped(f)
      PROVE  Forward!TypeOK'
  BY <1>3 DEF Forward!Stop, Forward!CloseSwapped
<1>4. CASE Forward!StopAll
  BY <1>4, EmptySeq DEF Forward!StopAll
<1>5. CASE Forward!EventArrives
  BY <1>5 DEF Forward!EventArrives
<1>6. CASE Forward!ListForwards
  <2>1. [list |-> f_sessions, older |-> FALSE] \in [list : SUBSET Forwards, older : BOOLEAN]
    OBVIOUS
  <2> QED BY <1>6, <2>1, AppendProperties DEF Forward!ListForwards
<1>7. ASSUME NEW i \in DOMAIN f_answers, Forward!AnswerArrives(i)
      PROVE  Forward!TypeOK'
  <2>1. /\ f_answers' \in Seq(ForwardAnswer) /\ f_answers[i] \in ForwardAnswer
        /\ f_list' = f_answers[i].list /\ f_overtaken' = f_answers[i].older
    <3>1. i \in 1..Len(f_answers)
      BY <1>7, LenProperties DEF Forward!TypeOK
    <3> QED BY <1>7, <3>1, ArrivalFacts
  <2>2. f_list' \subseteq Forwards /\ f_overtaken' \in BOOLEAN
    BY <2>1 DEF ForwardAnswer
  <2>3. UNCHANGED <<Forward!backend, f_events, f_asked>>
    BY <1>7 DEF Forward!AnswerArrives
  <2> QED BY <2>1, <2>2, <2>3 DEF ForwardAnswer
<1>8. CASE UNCHANGED Forward!vars
  BY <1>8 DEF Forward!vars
<1> QED BY <1>1, <1>2, <1>3, <1>4, <1>5, <1>6, <1>7, <1>8 DEF Forward!Next

-----------------------------------------------------------------------------
\* A forwarder runs only once its start was called; a start that returned has
\* registered it, and it is in the map, taken by stopAll or stopped from then
\* until it has ended; a start that failed has stopped it.
ForwardReach ==
    /\ \A f \in Forwards :
         /\ f_call[f] = "idle" => f_fwd[f] = "idle"
         /\ f_call[f] \in {"notify", "done"} =>
                f \in f_sessions \cup f_swapped \cup f_stopped \/ f_fwd[f] = "ended"
         /\ f_call[f] = "failed" => f \in f_stopped
    /\ ~f_quit => f_swapped = {}

LEMMA ForwardReachNext ==
    Forward!TypeOK /\ ForwardReach /\ [Forward!Next]_(Forward!vars) => ForwardReach'
<1> SUFFICES ASSUME Forward!TypeOK, ForwardReach, [Forward!Next]_(Forward!vars)
             PROVE  ForwardReach'
  OBVIOUS
<1> USE DEF Forward!TypeOK, ForwardReach, Forward!pageVars, Forward!backend
<1>1. ASSUME NEW f \in Forwards, Forward!Listens(f) \/ Forward!Ends(f) PROVE ForwardReach'
  BY <1>1 DEF Forward!Listens, Forward!Ends
<1>2. ASSUME NEW f \in Forwards, Forward!Start(f) PROVE ForwardReach'
  BY <1>2 DEF Forward!Start
<1>3. ASSUME NEW f \in Forwards, Forward!SelectReady(f) \/ Forward!SelectFails(f)
      PROVE  ForwardReach'
  BY <1>3 DEF Forward!SelectReady, Forward!SelectFails
<1>4. ASSUME NEW f \in Forwards, Forward!Register(f) \/ Forward!NotifyStart(f)
      PROVE  ForwardReach'
  BY <1>4 DEF Forward!Register, Forward!NotifyStart
<1>5. ASSUME NEW f \in Forwards, Forward!Collect(f) \/ Forward!NotifyEnd(f) PROVE ForwardReach'
  BY <1>5 DEF Forward!Collect, Forward!NotifyEnd
<1>6. ASSUME NEW f \in Forwards, Forward!Stop(f) \/ Forward!CloseSwapped(f) PROVE ForwardReach'
  BY <1>6 DEF Forward!Stop, Forward!CloseSwapped
<1>7. CASE Forward!StopAll
  BY <1>7 DEF Forward!StopAll
<1>8. CASE Forward!EventArrives \/ Forward!ListForwards \/ UNCHANGED Forward!vars
  BY <1>8 DEF Forward!EventArrives, Forward!ListForwards, Forward!vars
<1>9. ASSUME NEW i \in DOMAIN f_answers, Forward!AnswerArrives(i) PROVE ForwardReach'
  <2>1. UNCHANGED Forward!backend
    BY <1>9 DEF Forward!AnswerArrives
  <2> QED BY <2>1
<1> QED BY <1>1, <1>2, <1>3, <1>4, <1>5, <1>6, <1>7, <1>8, <1>9 DEF Forward!Next

-----------------------------------------------------------------------------
\* More is on its way than answers: what they will show need not be the last.
ForwardBusy ==
    \/ f_events > 0 \/ f_asked > 0 \/ f_quit
    \/ \E f \in Forwards : f_call[f] = "notify" \/ f_watch[f] = "notify"

\* When no event, call or notification is on its way, the last answer has
\* the sessions of the map, or it was shown already and those left are older.
ForwardQuiet ==
    \/ ForwardBusy
    \/ f_answers = <<>> /\ (f_overtaken \/ f_list = f_sessions)
    \/ f_answers # <<>> /\ f_answers[Len(f_answers)].list = f_sessions
    \/ f_answers # <<>> /\ \A j \in 1..Len(f_answers) : f_answers[j].older

LEMMA ForwardQuietNext ==
    Forward!TypeOK /\ ForwardQuiet /\ [Forward!Next]_(Forward!vars) => ForwardQuiet'
<1> SUFFICES ASSUME Forward!TypeOK, ForwardQuiet, [Forward!Next]_(Forward!vars)
             PROVE  ForwardQuiet'
  OBVIOUS
<1>1. ASSUME NEW f \in Forwards,
             \/ Forward!Listens(f) \/ Forward!Ends(f) \/ Forward!Start(f)
             \/ Forward!SelectReady(f) \/ Forward!SelectFails(f)
             \/ Forward!Stop(f) \/ Forward!CloseSwapped(f)
      PROVE  ForwardQuiet'
  <2>1. UNCHANGED <<f_events, f_asked, f_answers, f_list, f_overtaken, f_sessions, f_quit,
                    f_watch>>
    BY <1>1
    DEF Forward!Listens, Forward!Ends, Forward!Start, Forward!SelectReady,
        Forward!SelectFails, Forward!Stop, Forward!CloseSwapped, Forward!pageVars
  <2>2. \A g \in Forwards : f_call[g] = "notify" => f_call'[g] = "notify"
    BY <1>1
    DEF Forward!Listens, Forward!Ends, Forward!Start, Forward!SelectReady,
        Forward!SelectFails, Forward!Stop, Forward!CloseSwapped, Forward!TypeOK
  <2>3. ForwardBusy => ForwardBusy'
    BY <2>1, <2>2 DEF ForwardBusy
  <2> QED BY <2>1, <2>3 DEF ForwardQuiet
<1>2. ASSUME NEW f \in Forwards, Forward!Register(f) \/ Forward!Collect(f) PROVE ForwardBusy'
  BY <1>2 DEF Forward!Register, Forward!Collect, Forward!TypeOK, ForwardBusy
<1>3. ASSUME NEW f \in Forwards, Forward!NotifyStart(f) \/ Forward!NotifyEnd(f)
      PROVE  ForwardBusy'
  <2>1. CASE f_quit
    BY <1>3, <2>1 DEF Forward!NotifyStart, Forward!NotifyEnd, ForwardBusy
  <2>2. CASE ~f_quit
    <3>1. f_events' = f_events + 1 /\ f_events \in Nat
      BY <1>3, <2>2 DEF Forward!NotifyStart, Forward!NotifyEnd, Forward!TypeOK
    <3> QED BY <3>1 DEF ForwardBusy
  <2> QED BY <2>1, <2>2
<1>4. CASE Forward!StopAll
  BY <1>4 DEF Forward!StopAll, ForwardQuiet, ForwardBusy
<1>5. CASE Forward!EventArrives
  <2>1. f_asked' = f_asked + 1 /\ f_asked \in Nat
    BY <1>5 DEF Forward!EventArrives, Forward!TypeOK
  <2> QED BY <2>1 DEF ForwardQuiet, ForwardBusy
<1>6. CASE Forward!ListForwards
  <2>1. /\ f_answers \in Seq(ForwardAnswer)
        /\ [list |-> f_sessions, older |-> FALSE] \in ForwardAnswer
    BY DEF Forward!TypeOK, ForwardAnswer
  <2>2. /\ f_answers' = Append(f_answers, [list |-> f_sessions, older |-> FALSE])
        /\ f_sessions' = f_sessions
    BY <1>6 DEF Forward!ListForwards, Forward!backend
  <2>3. /\ f_answers'[Len(f_answers')] = [list |-> f_sessions, older |-> FALSE]
        /\ Len(f_answers') = Len(f_answers) + 1 /\ Len(f_answers) \in Nat
    BY <2>1, <2>2, AppendProperties, LenProperties
  <2>4. f_answers' # <<>>
    BY <2>3, EmptySeq
  <2> QED BY <2>2, <2>3, <2>4 DEF ForwardQuiet
<1>7. ASSUME NEW i \in DOMAIN f_answers, Forward!AnswerArrives(i) PROVE ForwardQuiet'
  <2> DEFINE n == Len(f_answers)
  <2>1. /\ i \in 1..n /\ n \in Nat
        /\ f_list' = f_answers[i].list /\ f_overtaken' = f_answers[i].older
        /\ f_answers' \in Seq(ForwardAnswer) /\ Len(f_answers') = n - 1
        /\ \A j \in 1..(n - 1) : /\ j < i => f_answers'[j].older
                                 /\ j >= i => f_answers'[j] = f_answers[j + 1]
    <3>1. i \in 1..n
      BY <1>7, LenProperties DEF Forward!TypeOK
    <3> QED BY <1>7, <3>1, ArrivalFacts
  <2>2. /\ UNCHANGED <<f_events, f_asked, f_quit, f_call, f_watch, f_sessions>>
        /\ ForwardBusy => ForwardBusy'
    BY <1>7 DEF Forward!AnswerArrives, Forward!backend, ForwardBusy
  <2>3. f_answers' = <<>> <=> n = 1
    BY <2>1, EmptySeq
  <2>4. f_answers # <<>>
    BY <2>1, EmptySeq
  <2>5. CASE ForwardBusy
    BY <2>2, <2>5 DEF ForwardQuiet
  <2>6. CASE f_answers[n].list = f_sessions /\ i = n
    <3>1. CASE n = 1
      BY <2>1, <2>2, <2>3, <2>6, <3>1 DEF ForwardQuiet
    <3>2. CASE n # 1
      <4>1. \A j \in 1..Len(f_answers') : f_answers'[j].older
        BY <2>1, <2>6
      <4> QED BY <2>3, <3>2, <4>1 DEF ForwardQuiet
    <3> QED BY <3>1, <3>2
  <2>7. CASE f_answers[n].list = f_sessions /\ i # n
    <3>1. n - 1 \in 1..(n - 1) /\ n - 1 >= i /\ (n - 1) + 1 = n /\ n # 1
      BY <2>1, <2>7
    <3>2. f_answers'[Len(f_answers')] = f_answers[n]
      BY <2>1, <3>1
    <3> QED BY <2>2, <2>3, <2>7, <3>1, <3>2 DEF ForwardQuiet
  <2>8. CASE \A j \in 1..n : f_answers[j].older
    <3>1. f_overtaken'
      BY <2>1, <2>8
    <3>2. ASSUME NEW j \in 1..(n - 1) PROVE f_answers'[j].older
      <4>1. j + 1 \in 1..n /\ (j < i \/ j >= i)
        BY <2>1
      <4> QED BY <2>1, <2>8, <4>1
    <3> QED BY <2>1, <2>3, <3>1, <3>2 DEF ForwardQuiet
  <2> HIDE DEF n
  <2> QED BY <2>4, <2>5, <2>6, <2>7, <2>8 DEF ForwardQuiet, n
<1>8. CASE UNCHANGED Forward!vars
  BY <1>8 DEF Forward!vars, ForwardQuiet, ForwardBusy
<1> QED BY <1>1, <1>2, <1>3, <1>4, <1>5, <1>6, <1>7, <1>8 DEF Forward!Next, ForwardQuiet

-----------------------------------------------------------------------------
ForwardInv == Forward!TypeOK /\ ForwardReach /\ ForwardQuiet

LEMMA ForwardInitInv == Forward!Init => ForwardInv
<1>1. Forward!Init => ForwardReach
  BY DEF Forward!Init, ForwardReach
<1>2. Forward!Init => ForwardQuiet
  BY DEF Forward!Init, ForwardQuiet, ForwardBusy
<1> QED BY <1>1, <1>2, ForwardTypeInit DEF ForwardInv

LEMMA ForwardNextInv == ForwardInv /\ [Forward!Next]_(Forward!vars) => ForwardInv'
BY ForwardTypeNext, ForwardReachNext, ForwardQuietNext DEF ForwardInv

LEMMA ListenersInv == ForwardInv => Forward!ListenersAreListed
<1> SUFFICES ASSUME ForwardInv, NEW f \in Forwards, f_fwd[f] = "listening"
             PROVE  \/ f \in f_sessions \cup f_swapped \cup f_stopped
                    \/ f_call[f] \in {"select", "register"}
  BY DEF Forward!ListenersAreListed
<1>1. f_call[f] \in {"idle", "select", "register", "notify", "done", "failed"}
  BY DEF ForwardInv, Forward!TypeOK
<1> QED BY <1>1 DEF ForwardInv, ForwardReach

LEMMA ListInv == ForwardInv => Forward!ListIsCurrent
BY DEF ForwardInv, ForwardQuiet, ForwardBusy, Forward!ListIsCurrent

-----------------------------------------------------------------------------
(***************************************************************************)
(* The read-only switch.                                                    *)
(***************************************************************************)

\* The last call made for a context says what the switch says, and has yet
\* to run; or it has run, those left are older, and its mark stands unless
\* one of those has run since.
SwitchLast(c) ==
    \/ /\ g_calls[c] # <<>>
       /\ g_calls[c][Len(g_calls[c])] = [ro |-> g_globalReadOnly, older |-> FALSE]
    \/ /\ \A j \in 1..Len(g_calls[c]) : g_calls[c][j].older
       /\ c \in g_overtaken \/ (c \in g_marked <=> g_globalReadOnly)

SwitchInv == Switch!TypeOK /\ \A c \in g_active : SwitchLast(c)

\* The first run of the effect makes one call for each active context.
LEMMA BootFacts ==
    ASSUME NEW contexts \in SUBSET Contexts, NEW ro \in BOOLEAN
    PROVE  /\ Switch!Boot(contexts, ro) \in [Contexts -> Seq(Switch!Call)]
           /\ \A c \in Contexts : Len(Switch!Boot(contexts, ro)[c]) <= MaxCalls
           /\ \A c \in contexts :
                 /\ Switch!Boot(contexts, ro)[c] # <<>>
                 /\ Switch!Boot(contexts, ro)[c][Len(Switch!Boot(contexts, ro)[c])]
                       = [ro |-> ro, older |-> FALSE]
<1> DEFINE call == [ro |-> ro, older |-> FALSE]
           boot == Switch!Boot(contexts, ro)
<1>1. call \in Switch!Call
  BY DEF Switch!Call
<1>2. /\ <<call>> \in Seq(Switch!Call) /\ <<>> \in Seq(Switch!Call)
      /\ Len(<<call>>) = 1 /\ Len(<<>>) = 0 /\ <<call>>[1] = call /\ <<call>> # <<>>
  BY <1>1
<1>3. 1 <= MaxCalls /\ 0 <= MaxCalls
  BY PageAssumption
<1>4. boot = [c \in Contexts |-> IF c \in contexts THEN <<call>> ELSE <<>>]
  BY DEF Switch!Boot
<1> HIDE DEF boot, call
<1>5. boot \in [Contexts -> Seq(Switch!Call)] /\ \A c \in Contexts : Len(boot[c]) <= MaxCalls
  BY <1>2, <1>3, <1>4
<1>6. \A c \in contexts : boot[c] # <<>> /\ boot[c][Len(boot[c])] = call
  BY <1>2, <1>4
<1> QED BY <1>5, <1>6 DEF boot, call

\* A later run makes one more, the last.
LEMMA EffectFacts ==
    ASSUME Switch!TypeOK, NEW contexts \in SUBSET Contexts, NEW ro \in BOOLEAN,
           Switch!Effect(contexts, ro)
    PROVE  /\ g_calls' \in [Contexts -> Seq(Switch!Call)]
           /\ \A c \in Contexts : Len(g_calls'[c]) <= MaxCalls
           /\ \A c \in contexts :
                 /\ g_calls'[c] # <<>>
                 /\ g_calls'[c][Len(g_calls'[c])] = [ro |-> ro, older |-> FALSE]
<1> DEFINE call == [ro |-> ro, older |-> FALSE]
<1>1. call \in Switch!Call
  BY DEF Switch!Call
<1>2. \A c \in Contexts : g_calls[c] \in Seq(Switch!Call) /\ Len(g_calls[c]) <= MaxCalls
  BY DEF Switch!TypeOK
<1>3. /\ \A c \in contexts : Len(g_calls[c]) < MaxCalls
      /\ g_calls' = [c \in Contexts |-> IF c \in contexts THEN Append(g_calls[c], call)
                                        ELSE g_calls[c]]
  BY DEF Switch!Effect
<1> HIDE DEF call
<1>4. ASSUME NEW c \in contexts
      PROVE  /\ g_calls'[c] \in Seq(Switch!Call) /\ Len(g_calls'[c]) <= MaxCalls
             /\ g_calls'[c] # <<>> /\ g_calls'[c][Len(g_calls'[c])] = call
  <2>1. g_calls'[c] = Append(g_calls[c], call) /\ g_calls[c] \in Seq(Switch!Call)
    BY <1>2, <1>3
  <2>2. /\ g_calls'[c] \in Seq(Switch!Call)
        /\ Len(g_calls[c]) \in Nat /\ Len(g_calls'[c]) = Len(g_calls[c]) + 1
        /\ g_calls'[c][Len(g_calls'[c])] = call
    BY <1>1, <2>1, AppendFacts
  <2>3. Len(g_calls'[c]) <= MaxCalls /\ Len(g_calls'[c]) # 0
    BY <1>3, <2>2, PageAssumption
  <2>4. g_calls'[c] # <<>>
    BY <2>3, EmptySeq
  <2> QED BY <2>2, <2>3, <2>4
<1>5. ASSUME NEW c \in Contexts
      PROVE  g_calls'[c] \in Seq(Switch!Call) /\ Len(g_calls'[c]) <= MaxCalls
  BY <1>2, <1>3, <1>4
<1>6. g_calls' \in [Contexts -> Seq(Switch!Call)]
  BY <1>3, <1>5
<1> QED BY <1>4, <1>5, <1>6 DEF call

\* What is left of the calls of a context when one has run.
LEMMA RunFacts ==
    ASSUME Switch!TypeOK, NEW c \in Contexts, NEW i \in DOMAIN g_calls[c],
           Switch!SetReadOnly(c, i)
    PROVE  /\ i \in 1..Len(g_calls[c]) /\ Len(g_calls[c]) \in Nat
           /\ g_calls[c][i] \in Switch!Call
           /\ g_calls' = [g_calls EXCEPT ![c] = g_calls'[c]]
           /\ g_calls'[c] \in Seq(Switch!Call) /\ Len(g_calls'[c]) = Len(g_calls[c]) - 1
           /\ \A j \in 1..(Len(g_calls[c]) - 1) :
                 /\ j < i => g_calls'[c][j].older
                 /\ j >= i => g_calls'[c][j] = g_calls[c][j + 1]
<1> DEFINE s == g_calls[c]
           n == Len(s)
           run == [j \in 1..n |-> IF j < i THEN [s[j] EXCEPT !.older = TRUE] ELSE s[j]]
<1>0. s \in Seq(Switch!Call)
  BY DEF Switch!TypeOK
<1>d. DOMAIN s = 1..n /\ n \in Nat
  BY <1>0, LenProperties
<1>1. i \in 1..n /\ n \in Nat /\ i \in Nat /\ i <= n
  BY <1>d
<1>2. \A j \in 1..n : s[j] \in Switch!Call
  BY <1>0, ElementOfSeq
<1>3. ASSUME NEW j \in 1..n
      PROVE  /\ run[j] \in Switch!Call
             /\ j < i => run[j].older
             /\ j >= i => run[j] = s[j]
  <2>1. /\ s[j] \in Switch!Call
        /\ [s[j] EXCEPT !.older = TRUE] \in Switch!Call
        /\ [s[j] EXCEPT !.older = TRUE].older = TRUE
    BY <1>2 DEF Switch!Call
  <2>2. CASE j < i
    <3>1. run[j] = [s[j] EXCEPT !.older = TRUE] /\ ~(j >= i)
      BY <1>1, <2>2
    <3> QED BY <2>1, <3>1
  <2>3. CASE ~(j < i)
    BY <2>1, <2>3
  <2> QED BY <2>2, <2>3
<1>4. run \in [1..n -> Switch!Call]
  BY <1>3
<1>5. /\ g_calls \in [Contexts -> Seq(Switch!Call)]
      /\ g_calls' = [g_calls EXCEPT ![c] = Switch!RemoveAt(run, i)]
  BY <1>d DEF Switch!SetReadOnly, Switch!TypeOK
<1>6. g_calls'[c] = RemoveAt(run, i) /\ g_calls' = [g_calls EXCEPT ![c] = g_calls'[c]]
  BY <1>5 DEF RemoveAt, Switch!RemoveAt
<1> HIDE DEF run, s
<1>7. /\ g_calls'[c] \in Seq(Switch!Call) /\ Len(g_calls'[c]) = n - 1
      /\ \A j \in 1..Len(g_calls'[c]) : /\ j < i => g_calls'[c][j] = run[j]
                                        /\ j >= i => g_calls'[c][j] = run[j + 1]
  BY <1>0, <1>1, <1>4, <1>6, TakenFacts
<1>8. ASSUME NEW j \in 1..(n - 1)
      PROVE  /\ j < i => g_calls'[c][j].older
             /\ j >= i => g_calls'[c][j] = s[j + 1]
  <2>1. j \in 1..n /\ j + 1 \in 1..n /\ i \in Nat /\ (j >= i => j + 1 >= i)
    BY <1>1
  <2> QED BY <1>3, <1>7, <2>1
<1> QED BY <1>1, <1>2, <1>6, <1>7, <1>8 DEF s

LEMMA SwitchInitInv == Switch!Init => SwitchInv
<1> SUFFICES ASSUME Switch!Init PROVE SwitchInv
  OBVIOUS
<1> USE DEF Switch!Init
<1>1. /\ g_calls \in [Contexts -> Seq(Switch!Call)]
      /\ \A c \in Contexts : Len(g_calls[c]) <= MaxCalls
      /\ \A c \in g_active :
            /\ g_calls[c] # <<>>
            /\ g_calls[c][Len(g_calls[c])] = [ro |-> g_globalReadOnly, older |-> FALSE]
  BY BootFacts
<1> QED BY <1>1 DEF SwitchInv, SwitchLast, Switch!TypeOK

\* The effect runs at every change of the switch or the contexts, and once
\* more in a new process, so the last call is right.
LEMMA EffectInv ==
    ASSUME SwitchInv,
           \/ Switch!SetGlobalReadOnly \/ Switch!Restart
           \/ \E next \in SUBSET Contexts : Switch!ChangeContexts(next)
    PROVE  SwitchInv'
<1> USE DEF SwitchInv
<1>1. CASE Switch!SetGlobalReadOnly
  <2>1. g_globalReadOnly' \in BOOLEAN /\ g_active \in SUBSET Contexts
    BY <1>1 DEF Switch!SetGlobalReadOnly, Switch!TypeOK
  <2>2. Switch!Effect(g_active, g_globalReadOnly')
    BY <1>1 DEF Switch!SetGlobalReadOnly
  <2>3. UNCHANGED <<g_active, g_marked, g_overtaken>>
    BY <1>1 DEF Switch!SetGlobalReadOnly
  <2>4. /\ g_calls' \in [Contexts -> Seq(Switch!Call)]
        /\ \A c \in Contexts : Len(g_calls'[c]) <= MaxCalls
        /\ \A c \in g_active :
              /\ g_calls'[c] # <<>>
              /\ g_calls'[c][Len(g_calls'[c])] = [ro |-> g_globalReadOnly', older |-> FALSE]
    BY <2>1, <2>2, EffectFacts
  <2> QED BY <2>1, <2>3, <2>4 DEF SwitchLast, Switch!TypeOK
<1>2. CASE Switch!Restart
  <2>1. PICK next \in SUBSET Contexts :
            /\ g_active' = next /\ g_calls' = Switch!Boot(next, g_globalReadOnly)
            /\ g_marked' = {} /\ g_overtaken' = {} /\ g_globalReadOnly' = g_globalReadOnly
    BY <1>2 DEF Switch!Restart
  <2>2. g_globalReadOnly \in BOOLEAN
    BY DEF Switch!TypeOK
  <2>3. /\ g_calls' \in [Contexts -> Seq(Switch!Call)]
        /\ \A c \in Contexts : Len(g_calls'[c]) <= MaxCalls
        /\ \A c \in next :
              /\ g_calls'[c] # <<>>
              /\ g_calls'[c][Len(g_calls'[c])] = [ro |-> g_globalReadOnly, older |-> FALSE]
    BY <2>1, <2>2, BootFacts
  <2> QED BY <2>1, <2>2, <2>3 DEF SwitchLast, Switch!TypeOK
<1>3. ASSUME NEW next \in SUBSET Contexts, Switch!ChangeContexts(next) PROVE SwitchInv'
  <2>1. g_globalReadOnly \in BOOLEAN /\ Switch!Effect(next, g_globalReadOnly)
    BY <1>3 DEF Switch!ChangeContexts, Switch!TypeOK
  <2>2. g_active' = next /\ UNCHANGED <<g_globalReadOnly, g_marked, g_overtaken>>
    BY <1>3 DEF Switch!ChangeContexts
  <2>3. /\ g_calls' \in [Contexts -> Seq(Switch!Call)]
        /\ \A c \in Contexts : Len(g_calls'[c]) <= MaxCalls
        /\ \A c \in next :
              /\ g_calls'[c] # <<>>
              /\ g_calls'[c][Len(g_calls'[c])] = [ro |-> g_globalReadOnly, older |-> FALSE]
    BY <2>1, EffectFacts
  <2> QED BY <2>1, <2>2, <2>3 DEF SwitchLast, Switch!TypeOK
<1> QED BY <1>1, <1>2, <1>3

\* A call that runs is the last one made, or leaves it where it is, or came
\* after it.
LEMMA RunInv ==
    ASSUME SwitchInv, NEW c \in Contexts, NEW i \in DOMAIN g_calls[c],
           Switch!SetReadOnly(c, i)
    PROVE  SwitchInv'
<1> DEFINE n == Len(g_calls[c])
<1>1. Switch!TypeOK
  BY DEF SwitchInv
<1>2. /\ i \in 1..n /\ n \in Nat /\ g_calls[c][i] \in Switch!Call
      /\ g_calls' = [g_calls EXCEPT ![c] = g_calls'[c]]
      /\ g_calls'[c] \in Seq(Switch!Call) /\ Len(g_calls'[c]) = n - 1
      /\ \A j \in 1..(n - 1) : /\ j < i => g_calls'[c][j].older
                               /\ j >= i => g_calls'[c][j] = g_calls[c][j + 1]
  BY <1>1, RunFacts
<1>3. /\ g_marked' = IF g_calls[c][i].ro THEN g_marked \cup {c} ELSE g_marked \ {c}
      /\ g_overtaken' = IF g_calls[c][i].older THEN g_overtaken \cup {c} ELSE g_overtaken \ {c}
      /\ UNCHANGED <<g_active, g_globalReadOnly>>
  BY DEF Switch!SetReadOnly
<1>4. /\ g_calls \in [Contexts -> Seq(Switch!Call)]
      /\ \A d \in Contexts : Len(g_calls[d]) <= MaxCalls
  BY <1>1 DEF Switch!TypeOK
<1>5. \A d \in Contexts : d # c => g_calls'[d] = g_calls[d]
  BY <1>2, <1>4
<1>6. Switch!TypeOK'
  <2>1. g_calls' \in [Contexts -> Seq(Switch!Call)]
    BY <1>2, <1>4
  <2>2. Len(g_calls'[c]) <= MaxCalls
    BY <1>2, <1>4, PageAssumption
  <2>3. \A d \in Contexts : Len(g_calls'[d]) <= MaxCalls
    BY <1>4, <1>5, <2>2
  <2>4. g_marked' \in SUBSET Contexts /\ g_overtaken' \in SUBSET Contexts
    BY <1>1, <1>3 DEF Switch!TypeOK
  <2> QED BY <1>1, <1>3, <2>1, <2>3, <2>4 DEF Switch!TypeOK
<1>7. ASSUME NEW d \in g_active, d # c PROVE SwitchLast(d)'
  <2>1. SwitchLast(d) /\ g_calls'[d] = g_calls[d]
    BY <1>1, <1>5, <1>7 DEF SwitchInv, Switch!TypeOK
  <2>2. /\ d \in g_marked' <=> d \in g_marked
        /\ d \in g_overtaken' <=> d \in g_overtaken
    BY <1>3, <1>7
  <2> QED BY <1>3, <2>1, <2>2 DEF SwitchLast
<1>8. ASSUME c \in g_active PROVE SwitchLast(c)'
  <2>0. g_calls'[c] = <<>> => n = 1
    <3>1. Len(<<>>) = 0
      OBVIOUS
    <3> HIDE DEF n
    <3> QED BY <1>2, <3>1
  <2>1. CASE g_calls[c][n] = [ro |-> g_globalReadOnly, older |-> FALSE] /\ i = n
    <3>1. g_calls[c][i].ro = g_globalReadOnly /\ g_calls[c][i].older = FALSE
      BY <2>1
    <3>2. c \in g_marked' <=> g_globalReadOnly'
      BY <1>3, <3>1
    <3>3. \A j \in 1..Len(g_calls'[c]) : j \in 1..(n - 1) /\ j < i
      BY <1>2, <2>1
    <3>4. \A j \in 1..Len(g_calls'[c]) : g_calls'[c][j].older
      BY <1>2, <3>3
    <3> QED BY <3>2, <3>4 DEF SwitchLast
  <2>2. CASE g_calls[c][n] = [ro |-> g_globalReadOnly, older |-> FALSE] /\ i # n
    <3>1. n - 1 \in 1..(n - 1) /\ n - 1 >= i /\ (n - 1) + 1 = n /\ n # 1
      BY <1>2, <2>2
    <3>2. g_calls'[c][Len(g_calls'[c])] = g_calls[c][n]
      BY <1>2, <3>1
    <3>3. g_calls'[c] # <<>>
      BY <2>0, <3>1
    <3> QED BY <1>3, <2>2, <3>2, <3>3 DEF SwitchLast
  <2>3. CASE \A j \in 1..n : g_calls[c][j].older
    <3>1. c \in g_overtaken'
      BY <1>2, <1>3, <2>3
    <3>2. ASSUME NEW j \in 1..Len(g_calls'[c]) PROVE g_calls'[c][j].older
      <4>1. j \in 1..(n - 1) /\ j + 1 \in 1..n /\ (j < i \/ j >= i)
        BY <1>2
      <4> QED BY <1>2, <2>3, <4>1
    <3> QED BY <3>1, <3>2 DEF SwitchLast
  <2> HIDE DEF n
  <2>4. SwitchLast(c)
    BY <1>8 DEF SwitchInv
  <2> QED BY <2>1, <2>2, <2>3, <2>4 DEF SwitchLast, n
<1> QED BY <1>3, <1>6, <1>7, <1>8 DEF SwitchInv

LEMMA SwitchNextInv == SwitchInv /\ [Switch!Next]_(Switch!vars) => SwitchInv'
<1>1. ASSUME SwitchInv, UNCHANGED Switch!vars PROVE SwitchInv'
  <2>1. UNCHANGED <<g_active, g_globalReadOnly, g_calls, g_marked, g_overtaken>>
    BY <1>1 DEF Switch!vars
  <2>2. Switch!TypeOK'
    BY <1>1, <2>1 DEF SwitchInv, Switch!TypeOK
  <2>3. \A c : SwitchLast(c) => SwitchLast(c)'
    BY <2>1 DEF SwitchLast
  <2> QED BY <1>1, <2>1, <2>2, <2>3 DEF SwitchInv
<1> QED BY <1>1, EffectInv, RunInv DEF Switch!Next

LEMMA GuardInv == SwitchInv => Switch!GuardIsCurrent
BY DEF SwitchInv, SwitchLast, Switch!GuardIsCurrent

-----------------------------------------------------------------------------
(***************************************************************************)
(* The chart repositories.                                                  *)
(***************************************************************************)

\* What a call read is what there should be, unless it was overtaken or
\* another one has emptied the file and not yet written it.
CopiesCurrent ==
    \A c \in Helm!Under \ h_stale :
        \/ h_copy[c] = h_want
        \/ \E d \in HelmCalls \ {c} : h_call[d] = "writing"

\* A repository has its index before it is written to the file; one whose
\* index a call has still to delete is gone from the file, and an add of it
\* that began since has overtaken that call.
IndexesKept ==
    /\ h_want \subseteq h_index
    /\ \A c \in Helm!Under \ h_stale : h_op[c].add =>
          /\ h_call[c] # "download" => h_op[c].repo \in h_index
          /\ \A d \in HelmCalls :
                h_call[d] = "clean" /\ h_op[d].repo = h_op[c].repo => d \in h_stale
    /\ \A c \in HelmCalls \ h_stale : h_call[c] = "clean" => h_op[c].repo \notin h_want

HelmSteady ==
    h_raced \/ h_torn \/
    /\ (\A c \in HelmCalls : h_call[c] # "writing") => h_file = h_want
    /\ CopiesCurrent
    /\ IndexesKept

HelmInv == Helm!TypeOK /\ HelmSteady

LEMMA HelmInitInv == Helm!Init => HelmInv
<1> SUFFICES ASSUME Helm!Init PROVE HelmInv
  OBVIOUS
<1>1. Helm!TypeOK
  BY DEF Helm!Init, Helm!TypeOK
<1>2. HelmSteady
  BY DEF Helm!Init, HelmSteady, CopiesCurrent, IndexesKept, Helm!Under
<1> QED BY <1>1, <1>2 DEF HelmInv

LEMMA HelmTypeNext == Helm!TypeOK /\ [Helm!Next]_(Helm!vars) => Helm!TypeOK'
<1> SUFFICES ASSUME Helm!TypeOK, [Helm!Next]_(Helm!vars) PROVE Helm!TypeOK'
  OBVIOUS
<1> USE DEF Helm!TypeOK, Helm!Moves
<1>1. ASSUME NEW c \in HelmCalls, NEW r \in Repos, Helm!AddRepo(c, r) \/ Helm!RemoveRepo(c, r)
      PROVE  Helm!TypeOK'
  <2>1. [add |-> TRUE, repo |-> r] \in Helm!Ops /\ [add |-> FALSE, repo |-> r] \in Helm!Ops
    BY DEF Helm!Ops
  <2> QED BY <1>1, <2>1 DEF Helm!AddRepo, Helm!RemoveRepo
<1>2. ASSUME NEW c \in HelmCalls,
             \/ Helm!Download(c) \/ Helm!OpenFile(c) \/ Helm!CleanCache(c) \/ Helm!LoadFails(c)
      PROVE  Helm!TypeOK'
  <2>1. h_op[c].repo \in Repos
    BY DEF Helm!Ops
  <2>2. CASE Helm!Download(c)
    <3>1. h_index' \in SUBSET Repos /\ h_torn' \in BOOLEAN
      BY <2>1, <2>2 DEF Helm!Download
    <3> QED BY <2>2, <3>1 DEF Helm!Download
  <2>3. CASE Helm!OpenFile(c)
    BY <2>3 DEF Helm!OpenFile
  <2>4. CASE Helm!CleanCache(c)
    <3>1. h_index' \in SUBSET Repos /\ h_raced' \in BOOLEAN
      BY <2>4 DEF Helm!CleanCache
    <3> QED BY <2>4, <3>1 DEF Helm!CleanCache
  <2>5. CASE Helm!LoadFails(c)
    BY <2>5 DEF Helm!LoadFails
  <2> QED BY <1>2, <2>2, <2>3, <2>4, <2>5
<1>3. ASSUME NEW c \in HelmCalls, Helm!WriteFile(c) PROVE Helm!TypeOK'
  <2>1. h_op[c].repo \in Repos
    BY DEF Helm!Ops
  <2>2. h_file' \in SUBSET Repos /\ h_want' \in SUBSET Repos
    BY <1>3, <2>1 DEF Helm!WriteFile, Helm!Changed
  <2>3. h_stale' \subseteq HelmCalls /\ h_raced' \in BOOLEAN
    BY <1>3 DEF Helm!WriteFile, Helm!Under
  <2> QED BY <1>3, <2>2, <2>3 DEF Helm!WriteFile
<1>4. ASSUME NEW c \in HelmCalls, Helm!UpdateRepos(c) PROVE Helm!TypeOK'
  BY <1>4 DEF Helm!UpdateRepos
<1>5. ASSUME NEW c \in HelmCalls, Helm!Downloads(c) PROVE Helm!TypeOK'
  <2>1. h_index' \in SUBSET Repos /\ h_torn' \in BOOLEAN
    BY <1>5 DEF Helm!Downloads
  <2> QED BY <1>5, <2>1 DEF Helm!Downloads
<1>6. ASSUME NEW r \in Repos, Helm!HelmCommand(r) PROVE Helm!TypeOK'
  BY <1>6 DEF Helm!HelmCommand, Helm!Under
<1>7. ASSUME NEW c \in HelmCalls, Helm!WriteFails(c) PROVE Helm!TypeOK'
  <2>1. Helm!Changed(c) \in SUBSET Repos
    BY DEF Helm!Changed, Helm!Ops
  <2>2. h_file' \in SUBSET Repos
    BY <1>7, <2>1 DEF Helm!WriteFails
  <2> QED BY <1>7, <2>2 DEF Helm!WriteFails
<1>8. CASE UNCHANGED Helm!vars
  BY <1>8 DEF Helm!vars
<1> QED BY <1>1, <1>2, <1>3, <1>4, <1>5, <1>6, <1>7, <1>8 DEF Helm!Next

\* The calls of the page and the helm command, in any order: what fails to be
\* steady is overtaken, and if it then changes something the file was raced; or
\* a write was cut short.
LEMMA HelmSteadyNext == HelmInv /\ [Helm!Next]_(Helm!vars) => HelmSteady'
<1> SUFFICES ASSUME HelmInv, [Helm!Next]_(Helm!vars), ~h_raced, ~h_raced', ~h_torn, ~h_torn'
             PROVE  HelmSteady'
  <2>1. (h_raced \/ h_torn) /\ HelmInv /\ [Helm!Next]_(Helm!vars) => h_raced' \/ h_torn'
    BY DEF HelmInv, Helm!TypeOK, Helm!Next, Helm!vars, Helm!AddRepo, Helm!RemoveRepo,
           Helm!Download, Helm!OpenFile, Helm!WriteFile, Helm!WriteFails, Helm!CleanCache,
           Helm!UpdateRepos, Helm!Downloads, Helm!HelmCommand, Helm!LoadFails
  <2> QED BY <2>1 DEF HelmSteady
<1>0. /\ (\A c \in HelmCalls : h_call[c] # "writing") => h_file = h_want
      /\ CopiesCurrent /\ IndexesKept
  BY DEF HelmInv, HelmSteady
<1>t. /\ h_call \in [HelmCalls -> {"idle", "download", "write", "writing", "clean", "update",
                                   "done"}]
      /\ h_op \in [HelmCalls -> Helm!Ops] /\ h_copy \in [HelmCalls -> SUBSET Repos]
  BY DEF HelmInv, Helm!TypeOK
<1> USE DEF CopiesCurrent, IndexesKept, HelmSteady, Helm!Under, Helm!Moves
<1>1. ASSUME NEW c \in HelmCalls, NEW r \in Repos, Helm!AddRepo(c, r) PROVE HelmSteady'
  BY <1>0, <1>t, <1>1 DEF Helm!AddRepo
<1>2. ASSUME NEW c \in HelmCalls, NEW r \in Repos, Helm!RemoveRepo(c, r) PROVE HelmSteady'
  BY <1>0, <1>t, <1>2 DEF Helm!RemoveRepo
<1>3. ASSUME NEW c \in HelmCalls, Helm!Download(c) PROVE HelmSteady'
  BY <1>0, <1>t, <1>3 DEF Helm!Download
<1>4. ASSUME NEW c \in HelmCalls, Helm!OpenFile(c) PROVE HelmSteady'
  BY <1>0, <1>t, <1>4 DEF Helm!OpenFile
<1>5. ASSUME NEW c \in HelmCalls, Helm!WriteFile(c) PROVE HelmSteady'
  BY <1>0, <1>t, <1>5 DEF Helm!WriteFile, Helm!Changed
<1>6. ASSUME NEW c \in HelmCalls, Helm!CleanCache(c) PROVE HelmSteady'
  BY <1>0, <1>t, <1>6 DEF Helm!CleanCache
<1>7. ASSUME NEW c \in HelmCalls, Helm!UpdateRepos(c) PROVE HelmSteady'
  BY <1>0, <1>t, <1>7 DEF Helm!UpdateRepos
<1>8. ASSUME NEW c \in HelmCalls, Helm!Downloads(c) PROVE HelmSteady'
  BY <1>0, <1>t, <1>8 DEF Helm!Downloads
<1>9. ASSUME NEW r \in Repos, Helm!HelmCommand(r) PROVE HelmSteady'
  BY <1>0, <1>t, <1>9 DEF Helm!HelmCommand
<1>10. ASSUME NEW c \in HelmCalls, Helm!LoadFails(c) PROVE HelmSteady'
  BY <1>0, <1>t, <1>10 DEF Helm!LoadFails
<1>11. ASSUME NEW c \in HelmCalls, Helm!WriteFails(c) PROVE FALSE
  BY <1>11 DEF Helm!WriteFails
<1>12. CASE UNCHANGED Helm!vars
  BY <1>0, <1>12 DEF Helm!vars
<1> QED BY <1>1, <1>2, <1>3, <1>4, <1>5, <1>6, <1>7, <1>8, <1>9, <1>10, <1>11, <1>12
        DEF Helm!Next

LEMMA HelmNextInv == HelmInv /\ [Helm!Next]_(Helm!vars) => HelmInv'
BY HelmTypeNext, HelmSteadyNext DEF HelmInv

LEMMA ReposInv == HelmInv => Helm!ReposAreWhole
BY DEF HelmInv, HelmSteady, IndexesKept, Helm!ReposAreWhole

-----------------------------------------------------------------------------
(***************************************************************************)
(* The terminals keep their types; that they are cleaned up is a liveness   *)
(* property, which a run checks.                                             *)
(***************************************************************************)
LEMMA TermInit == Term!Init => Term!TypeOK
<1> SUFFICES ASSUME Term!Init PROVE Term!TypeOK
  OBVIOUS
<1> USE DEF Term!Init
<1>1. /\ t_tabs \subseteq Tabs /\ t_drawer \in BOOLEAN /\ t_up \in BOOLEAN
      /\ t_exit \in {"no", "closing", "gone"}
      /\ t_file \cup t_sessions \cup t_toClose \cup t_late \subseteq Runs
  OBVIOUS
<1>2. /\ t_tabOf \in [Runs -> Tabs \cup {None}]
      /\ t_page \in [Runs -> {"unused", "waiting", "attached", "ended", "failed", "left"}]
      /\ t_call \in [Runs -> {"idle", "write", "start", "register", "answer", "failed", "done"}]
      /\ t_shell \in [Runs -> {"none", "running", "dead"}]
      /\ t_reader \in [Runs -> {"none", "reading", "close", "notify", "done"}]
      /\ t_stops \in [Runs -> {"none", "sent", "close", "done"}]
  OBVIOUS
<1>3. \A r \in Runs : t_page[r] \in {"attached", "ended"} => t_call[r] = "done"
  OBVIOUS
<1> QED BY <1>1, <1>2, <1>3 DEF Term!TypeOK

\* A run of the effect begins in a tab: `begin` maps the tabs to new runs.
LEMMA RerunType ==
    ASSUME Term!TypeOK, NEW out \in SUBSET Runs, NEW ts \in SUBSET (Tabs \cup {None}),
           NEW begin \in [ts -> Term!Unused], Term!Rerun(out, begin)
    PROVE  /\ t_tabOf' \in [Runs -> Tabs \cup {None}]
           /\ t_page' \in [Runs -> {"unused", "waiting", "attached", "ended", "failed", "left"}]
           /\ t_call' \in [Runs -> {"idle", "write", "start", "register", "answer", "failed",
                                    "done"}]
           /\ t_stops' \in [Runs -> {"none", "sent", "close", "done"}]
           /\ \A r \in Runs : t_page'[r] \in {"attached", "ended"} => t_call'[r] = "done"
           /\ UNCHANGED <<t_shell, t_file, t_sessions, t_reader, t_exit, t_toClose, t_late>>
<1> USE DEF Term!TypeOK
<1>1. DOMAIN begin = ts /\ Term!Range(begin) = {begin[t] : t \in ts}
  BY DEF Term!Range
<1>2. \A r \in Runs : r \in Term!Range(begin) =>
          (CHOOSE t \in DOMAIN begin : begin[t] = r) \in Tabs \cup {None}
  BY <1>1
<1>3. t_tabOf' \in [Runs -> Tabs \cup {None}]
  BY <1>2 DEF Term!Rerun
<1>4. t_stops' \in [Runs -> {"none", "sent", "close", "done"}]
  BY DEF Term!Rerun, Term!Cleanup
<1>5. /\ t_page' \in [Runs -> {"unused", "waiting", "attached", "ended", "failed", "left"}]
      /\ t_call' \in [Runs -> {"idle", "write", "start", "register", "answer", "failed", "done"}]
  BY DEF Term!Rerun
<1>6. ASSUME NEW r \in Runs, t_page'[r] \in {"attached", "ended"} PROVE t_call'[r] = "done"
  <2>1. /\ t_page'[r] = IF r \in out THEN "left"
                        ELSE IF r \in Term!Range(begin) THEN "waiting" ELSE t_page[r]
        /\ t_call'[r] = IF r \in Term!Range(begin) THEN "write" ELSE t_call[r]
    BY DEF Term!Rerun
  <2> QED BY <1>6, <2>1
<1> QED BY <1>3, <1>4, <1>5, <1>6 DEF Term!Rerun, Term!exitVars

LEMMA RenderType ==
    ASSUME Term!TypeOK, NEW ts \in SUBSET Tabs, NEW d \in BOOLEAN, NEW u \in BOOLEAN,
           Term!Render(ts, d, u)
    PROVE  Term!TypeOK'
<1> DEFINE shown == IF d /\ u THEN ts ELSE {}
           missing == {t \in shown : ~\E r \in Runs : Term!Live(r) /\ t_tabOf[r] = t}
           out == {r \in Runs : Term!Live(r) /\ t_tabOf[r] \notin shown}
<1>1. PICK begin \in [missing -> Term!Unused] : Term!Rerun(out, begin)
  BY DEF Term!Render
<1>2. missing \in SUBSET (Tabs \cup {None}) /\ out \in SUBSET Runs
  OBVIOUS
<1>3. t_tabs' = ts /\ t_drawer' = d /\ t_up' = u
  BY DEF Term!Render
<1> HIDE DEF missing, out
<1> QED BY <1>1, <1>2, <1>3, RerunType DEF Term!TypeOK

LEMMA TermPageType == Term!TypeOK /\ Term!PageStep => Term!TypeOK'
<1> SUFFICES ASSUME Term!TypeOK, Term!PageStep PROVE Term!TypeOK'
  OBVIOUS
<1>1. t_tabs \in SUBSET Tabs /\ t_drawer \in BOOLEAN /\ t_up \in BOOLEAN
  BY DEF Term!TypeOK
<1>2. Term!Filled \subseteq SUBSET Tabs /\ {t_tabs} \subseteq SUBSET Tabs
  BY <1>1 DEF Term!Filled, Term!Fresh
<1>3. ASSUME NEW t \in Tabs, Term!OpenTab(t) PROVE Term!TypeOK'
  <2>1. t_tabs \cup {t} \in SUBSET Tabs
    BY <1>1
  <2> QED BY <1>3, <2>1, RenderType DEF Term!OpenTab
<1>4. ASSUME NEW t \in Tabs, Term!CloseTab(t) PROVE Term!TypeOK'
  <2>1. t_tabs \ {t} \in SUBSET Tabs /\ (t_drawer /\ t_tabs # {t}) \in BOOLEAN
    BY <1>1
  <2> QED BY <1>4, <2>1, RenderType DEF Term!CloseTab
<1>5. CASE Term!HideDrawer
  BY <1>1, <1>5, RenderType DEF Term!HideDrawer
<1>6. CASE Term!ShowDrawer
  <2>1. PICK next \in SUBSET Tabs : Term!Render(next, TRUE, t_up)
    BY <1>2, <1>6 DEF Term!ShowDrawer
  <2> QED BY <1>1, <2>1, RenderType
<1>7. CASE Term!Disconnect
  BY <1>1, <1>7, RenderType DEF Term!Disconnect
<1>8. CASE Term!Connect
  <2>1. PICK next \in SUBSET Tabs : Term!Render(next, t_drawer, TRUE)
    BY <1>2, <1>8 DEF Term!Connect
  <2> QED BY <1>1, <2>1, RenderType
<1>9. ASSUME NEW r \in Runs, Term!Restart(r) PROVE Term!TypeOK'
  <2>1. PICK new \in Term!Unused : Term!Rerun({r}, [t \in {t_tabOf[r]} |-> new])
    BY <1>9 DEF Term!Restart
  <2>2. /\ {t_tabOf[r]} \in SUBSET (Tabs \cup {None}) /\ {r} \in SUBSET Runs
        /\ [t \in {t_tabOf[r]} |-> new] \in [{t_tabOf[r]} -> Term!Unused]
    BY <2>1 DEF Term!TypeOK
  <2>3. UNCHANGED <<t_tabs, t_drawer, t_up>>
    BY <1>9 DEF Term!Restart
  <2> QED BY <2>1, <2>2, <2>3, RerunType DEF Term!TypeOK
<1> QED BY <1>3, <1>4, <1>5, <1>6, <1>7, <1>8, <1>9 DEF Term!PageStep

LEMMA TermNext == Term!TypeOK /\ [Term!Next]_(Term!vars) => Term!TypeOK'
<1> SUFFICES ASSUME Term!TypeOK, [Term!Next]_(Term!vars) PROVE Term!TypeOK'
  OBVIOUS
<1> USE DEF Term!TypeOK, Term!pageVars, Term!exitVars
<1>1. CASE Term!BeginShutdown \/ Term!Exit
  BY <1>1 DEF Term!BeginShutdown, Term!Exit
<1>2. ASSUME NEW r \in Runs, Term!ShutdownCloses(r) PROVE Term!TypeOK'
  BY <1>2 DEF Term!ShutdownCloses, Term!CloseSession
<1>3. ASSUME NEW r \in Runs, Term!Answer(r) PROVE Term!TypeOK'
  BY <1>3 DEF Term!Answer, Term!AnswerArrives
<1>4. ASSUME NEW r \in Runs, Term!Start(r) PROVE Term!TypeOK'
  BY <1>4 DEF Term!Start, Term!WriteKubeconfig, Term!StartShell, Term!Register, Term!CallFails
<1>5. ASSUME NEW r \in Runs, Term!Read(r) PROVE Term!TypeOK'
  BY <1>5 DEF Term!Read, Term!ReaderEnds, Term!ReaderCloses, Term!ReaderNotifies,
              Term!CloseSession
<1>6. ASSUME NEW r \in Runs, Term!StopCall(r) \/ Term!ShellExits(r) PROVE Term!TypeOK'
  BY <1>6 DEF Term!StopCall, Term!StopTakes, Term!StopCloses, Term!CloseSession, Term!ShellExits
<1>7. CASE UNCHANGED Term!vars
  BY <1>7 DEF Term!vars
<1> QED BY <1>1, <1>2, <1>3, <1>4, <1>5, <1>6, <1>7, TermPageType DEF Term!Next, Term!Shutdown

-----------------------------------------------------------------------------
(***************************************************************************)
(* The page: each part keeps its invariant when it moves, and leaves the    *)
(* variables of the others alone.                                            *)
(***************************************************************************)
PageInv ==
    /\ part \in Parts
    /\ IInv
    /\ CtxInv
    /\ SyncInv
    /\ Term!TypeOK
    /\ ForwardInv
    /\ SwitchInv
    /\ HelmInv

LEMMA PageInitInv == PageInit => PageInv
BY InitIInv, CtxInitInv, SyncInitInv, TermInit, ForwardInitInv, SwitchInitInv, HelmInitInv
DEF PageInit, PageInv

LEMMA PageNextInv == PageInv /\ [PageNext]_pageVars => PageInv'
<1> SUFFICES ASSUME PageInv, [PageNext]_pageVars PROVE PageInv'
  OBVIOUS
<1>1. /\ UNCHANGED part
      /\ [Next]_vars
      /\ Ctx!Next \/ UNCHANGED ctxVars
      /\ Sync!Next \/ UNCHANGED syncVars
      /\ Term!Next \/ UNCHANGED termVars
      /\ Forward!Next \/ UNCHANGED forwardVars
      /\ Switch!Next \/ UNCHANGED switchVars
      /\ Helm!Next \/ UNCHANGED helmVars
  BY DEF PageNext, pageVars
<1>2. IInv'
  BY <1>1, NextIInv DEF PageInv
<1>3. CtxInv'
  <2>1. [Ctx!Next]_(Ctx!vars)
    BY <1>1 DEF ctxVars, Ctx!vars, Ctx!choice, Ctx!saved, Ctx!history
  <2> QED BY <2>1, CtxNextInv DEF PageInv
<1>4. SyncInv'
  <2>1. [Sync!Next]_(Sync!vars)
    BY <1>1 DEF syncVars, Sync!vars
  <2> QED BY <2>1, SyncNextInv DEF PageInv
<1>5. Term!TypeOK'
  <2>1. [Term!Next]_(Term!vars)
    BY <1>1 DEF termVars, Term!vars
  <2> QED BY <2>1, TermNext DEF PageInv
<1>6. ForwardInv'
  <2>1. [Forward!Next]_(Forward!vars)
    BY <1>1 DEF forwardVars, Forward!vars
  <2> QED BY <2>1, ForwardNextInv DEF PageInv
<1>7. SwitchInv'
  <2>1. [Switch!Next]_(Switch!vars)
    BY <1>1 DEF switchVars, Switch!vars
  <2> QED BY <2>1, SwitchNextInv DEF PageInv
<1>8. HelmInv'
  <2>1. [Helm!Next]_(Helm!vars)
    BY <1>1 DEF helmVars, Helm!vars
  <2> QED BY <2>1, HelmNextInv DEF PageInv
<1>9. part' \in Parts
  BY <1>1 DEF PageInv
<1> QED BY <1>2, <1>3, <1>4, <1>5, <1>6, <1>7, <1>8, <1>9 DEF PageInv

LEMMA PageSpecInv == PageSpec => []PageInv
BY PageInitInv, PageNextInv, PTL DEF PageSpec

-----------------------------------------------------------------------------
\* Every part of the page keeps its types.
THEOREM PageTypesCorrect == PageSpec => []PageTypeOK
<1>1. PageInv => PageTypeOK
  BY DEF PageInv, PageTypeOK, IInv, CtxInv, SyncInv, ForwardInv, SwitchInv, HelmInv
<1> QED BY <1>1, PageSpecInv, PTL

\* However the contexts came to be shown, a restart brings several of them back
\* with their filter, and after one or none comes up with the default context or
\* none: single-context mode and the active group are not stored.
THEOREM RestartIsFaithful == PageSpec => RestartRestores
<1>1. PageInv /\ [PageNext]_pageVars
        => [Ctx!Restart =>
               /\ c_active' = IF Ctx!Cardinality(c_active) >= 2 THEN c_active
                              ELSE {c_default} \ {NoContext}
               /\ c_active' = c_active => c_namespaces' = c_namespaces
               /\ UNCHANGED Ctx!saved]_(Ctx!vars)
  BY CtxRestart DEF PageInv
<1> QED BY <1>1, PageSpecInv, PTL DEF PageSpec, RestartRestores, Ctx!RestartRestores

\* The group marked as active always exists and holds every context shown,
\* unless it was edited since the session that Reconnect took up.
THEOREM ActiveGroupIsShown == PageSpec => []GroupIsShown
<1>1. PageInv => GroupIsShown
  BY DEF PageInv, CtxInv, GroupIsShown
<1> QED BY <1>1, PageSpecInv, PTL

\* However often the dialog is closed, opened again and moved to another
\* application, it shows a sync of this opening or one that was late.
THEOREM DialogIsFresh == PageSpec => []FreshUnlessLate
<1>1. PageInv => FreshUnlessLate
  BY FreshInv DEF PageInv, FreshUnlessLate
<1> QED BY <1>1, PageSpecInv, PTL

\* However starts, timeouts, ends, stops and shutdown fall together, a
\* forwarder that listens can be listed and stopped, or is being handled.
THEOREM NoHiddenListener == PageSpec => []ListenersAreListed
<1>1. PageInv => ListenersAreListed
  BY ListenersInv DEF PageInv, ListenersAreListed
<1> QED BY <1>1, PageSpecInv, PTL

\* Any number of reloads, and of calls for the marks, in flight end in the
\* right list and the right marks, unless the last two overtook one another.
THEOREM QuietPageIsRight == PageSpec => []QuietPageAgrees
<1>1. PageInv => QuietPageAgrees
  BY ListInv, GuardInv DEF PageInv, QuietPageAgrees
<1> QED BY <1>1, PageSpecInv, PTL

\* Any number of calls, and the helm command among them, leave the file with
\* the repositories that were added and not removed, and each with its index,
\* unless a call that was overtaken went on or a write failed half-way.
THEOREM NoRepoIsLost == PageSpec => []ReposAreWhole
<1>1. PageInv => ReposAreWhole
  BY ReposInv DEF PageInv, ReposAreWhole
<1> QED BY <1>1, PageSpecInv, PTL
=============================================================================
