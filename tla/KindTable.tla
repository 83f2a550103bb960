------------------------------ MODULE KindTable ------------------------------
(***************************************************************************)
(* One kind of one context on its way from the cluster to the table on the *)
(* page.  The backend side is what WatchManager and ContextWatcher promise: *)
(* Watch stops what it finds, starts a watcher and installs it; StopWatch   *)
(* takes the installed one out; a watcher's changes are announced as in     *)
(* ChangeNotice.  The page side is lib/events.ts, the effect of             *)
(* ResourceTable.tsx that fetches the list, and the effect of App.tsx that  *)
(* restarts the watches.  Calls from the page run in goroutines of their    *)
(* own: they start in any order, and so do their answers come back.         *)
(***************************************************************************)
EXTENDS Naturals, Sequences, SequencesExt

CONSTANTS
    List,       \* what a list of the kind may be
    Empty,      \* the list of nothing
    Watcher,    \* contextWatcher objects the StartWatch calls may build
    NoWatcher,
    MaxChange,  \* bound on changes in the cluster
    MaxMount,   \* bound on how often the table's effect runs
    MaxInbox,   \* bound on kube:change events in flight
    MaxRequest  \* bound on list calls in flight

ASSUME ConstantsAssumption ==
    /\ Empty \in List
    /\ NoWatcher \notin Watcher
    /\ {MaxChange, MaxMount, MaxInbox} \subseteq Nat
    /\ MaxRequest \in Nat \ {0}

VARIABLES
    cluster, changes,  \* the objects in the cluster; how often they changed
    watch,             \* where the StartWatch call of each watcher stands
    stopped,           \* watchers whose stop() has run
    held,              \* what each watcher's lister returns
    sync,              \* of each watcher: no, synced, or synced and announced
    owed,              \* watchers with a change still to announce
    installed,         \* ClientManager.watchers[context]
    stops,             \* StopWatch calls under way
    inbox,             \* kube:change events the page has not handled
    active,            \* the context is among activeContexts
    mounted, mounts,   \* the table's effect is set up; how often it was
    syncedKind,        \* syncedKinds has the entry
    sent,              \* list calls not yet answered
    responses,         \* answers not yet handled, in the order they were read
    shown,             \* the store's list for the context
    loaded, graced,    \* loadedSet has the context; the grace timer has fired
    outrun,            \* history: shown was read before something shown earlier
    early              \* history: watchers whose last call back came before they were
                       \* installed, and whose list was not read since

backend == <<cluster, changes, watch, stopped, held, sync, owed, installed, early>>
table == <<mounted, mounts, sent, responses, shown, loaded, graced, outrun>>
vars == <<backend, table, stops, inbox, active, syncedKind>>

\* The effect of the current mount that answers belong to ignores them once
\* cleaned up (its cancelled flag), so a clean-up forgets them.
Response == [list : List, failed : BOOLEAN, overtaken : BOOLEAN]

TypeOK ==
    /\ cluster \in List /\ changes \in 0..MaxChange
    /\ watch \in [Watcher -> {"unused", "called", "starting", "started", "returned", "failed"}]
    /\ stopped \subseteq Watcher
    /\ held \in [Watcher -> List]
    /\ sync \in [Watcher -> {"no", "synced", "announced"}]
    /\ owed \subseteq Watcher
    /\ installed \in Watcher \cup {NoWatcher}
    /\ stops \in 0..MaxMount
    /\ inbox \in 0..MaxInbox
    /\ {active, mounted, syncedKind, loaded, graced, outrun} \subseteq BOOLEAN
    /\ mounts \in 0..MaxMount
    /\ sent \in 0..MaxRequest
    /\ responses \in Seq(Response) /\ sent + Len(responses) <= MaxRequest
    /\ shown \in List
    /\ early \subseteq Watcher

Init ==
    /\ cluster \in List /\ changes = 0
    /\ watch = [w \in Watcher |-> "unused"]
    /\ stopped = {}
    /\ held = [w \in Watcher |-> Empty]
    /\ sync = [w \in Watcher |-> "no"]
    /\ owed = {}
    /\ installed = NoWatcher
    /\ stops = 0
    /\ inbox = 0
    /\ active = FALSE
    /\ mounted = FALSE /\ mounts = 0
    /\ syncedKind = FALSE
    /\ sent = 0
    /\ responses = <<>>
    /\ shown = Empty
    /\ loaded = FALSE /\ graced = FALSE
    /\ outrun = FALSE
    /\ early = {}

-----------------------------------------------------------------------------
(* The cluster and the watchers.                                            *)

ClusterChanges ==
    /\ changes < MaxChange
    /\ changes' = changes + 1
    /\ cluster' \in List \ {cluster}
    /\ UNCHANGED <<watch, stopped, held, sync, owed, installed, early, table, stops, inbox,
                   active, syncedKind>>

Up(w) == watch[w] \in {"started", "returned"} /\ w \notin stopped

\* stop() of w: it announces nothing new, but a flush that had taken the kind
\* out of pending still calls back.
Stopping(w) ==
    /\ stopped' = stopped \cup {w}
    /\ owed' \in {owed, owed \ {w}}

\* Watch finds a watcher in the map and stops it; it stays in the map.
WatchExisting(w) ==
    /\ watch[w] = "called"
    /\ watch' = [watch EXCEPT ![w] = "starting"]
    /\ IF installed = NoWatcher THEN UNCHANGED <<stopped, owed>> ELSE Stopping(installed)
    /\ UNCHANGED <<cluster, changes, held, sync, installed, early, table, stops, inbox,
                   active, syncedKind>>

WatchStarted(w) ==
    /\ watch[w] = "starting"
    /\ watch' = [watch EXCEPT ![w] = "started"]
    /\ UNCHANGED <<cluster, changes, stopped, held, sync, owed, installed, early, table,
                   stops, inbox, active, syncedKind>>

\* Watch returns an error, of a client it cannot build, before it looks at the
\* map, or of start(); the page only logs it.
WatchFails(w) ==
    /\ watch[w] \in {"called", "starting"}
    /\ watch' = [watch EXCEPT ![w] = "failed"]
    /\ UNCHANGED <<cluster, changes, stopped, held, sync, owed, installed, early, table,
                   stops, inbox, active, syncedKind>>

WatchInstalls(w) ==
    /\ watch[w] = "started"
    /\ watch' = [watch EXCEPT ![w] = "returned"]
    /\ installed' = w
    /\ UNCHANGED <<cluster, changes, stopped, held, sync, owed, early, table, stops, inbox,
                   active, syncedKind>>

\* Faulty variant: the map is not asked whether there is a watcher.
StopUnchecked ==
    /\ stops > 0
    /\ stops' = stops - 1
    /\ installed' = NoWatcher
    /\ Stopping(installed)
    /\ UNCHANGED <<cluster, changes, watch, held, sync, early, table, inbox, active, syncedKind>>

StopWatch ==
    /\ stops > 0
    /\ stops' = stops - 1
    /\ installed' = NoWatcher
    /\ IF installed = NoWatcher THEN UNCHANGED <<stopped, owed>> ELSE Stopping(installed)
    /\ UNCHANGED <<cluster, changes, watch, held, sync, early, table, inbox, active, syncedKind>>

\* w's informer catches up with the cluster and its handlers touch the kind,
\* during the initial list as well.
Receive(w) ==
    /\ Up(w) /\ held[w] # cluster
    /\ held' = [held EXCEPT ![w] = cluster]
    /\ owed' = owed \cup {w}
    /\ UNCHANGED <<cluster, changes, watch, stopped, sync, installed, early, table, stops,
                   inbox, active, syncedKind>>

CacheSynced(w) ==
    /\ Up(w) /\ sync[w] = "no" /\ held[w] = cluster
    /\ sync' = [sync EXCEPT ![w] = "synced"]
    /\ UNCHANGED <<cluster, changes, watch, stopped, held, owed, installed, early, table,
                   stops, inbox, active, syncedKind>>

\* Faulty variant: the caches are waited for and nothing is announced.
SyncUnannounced(w) ==
    /\ Up(w) /\ sync[w] = "synced"
    /\ sync' = [sync EXCEPT ![w] = "announced"]
    /\ UNCHANGED <<cluster, changes, watch, stopped, held, owed, installed, early, table,
                   stops, inbox, active, syncedKind>>

\* The goroutine that waits for the caches touches the kind.
AnnounceSynced(w) ==
    /\ Up(w) /\ sync[w] = "synced"
    /\ sync' = [sync EXCEPT ![w] = "announced"]
    /\ owed' = owed \cup {w}
    /\ UNCHANGED <<cluster, changes, watch, stopped, held, installed, early, table, stops,
                   inbox, active, syncedKind>>

\* onChange: the callback emits kube:change.
Callback(w) ==
    /\ w \in owed /\ inbox < MaxInbox
    /\ owed' = owed \ {w}
    /\ inbox' = inbox + 1
    /\ early' = IF watch[w] = "returned" THEN early \ {w} ELSE early \cup {w}
    /\ UNCHANGED <<cluster, changes, watch, stopped, held, sync, installed, table, stops,
                   active, syncedKind>>

-----------------------------------------------------------------------------
(* The page.                                                                *)

InFlight == sent + Len(responses)

\* The clean-up of the table's effect, if it ran, and its next run: loadedSet
\* is emptied and the list fetched.
SetUp ==
    /\ mounts < MaxMount
    /\ mounts' = mounts + 1
    /\ mounted' = TRUE
    /\ loaded' = FALSE /\ graced' = FALSE
    /\ sent' = 1
    /\ responses' = <<>>

\* The set of active contexts changes and this one is still, or now, in it.
\* The child's effect runs before App's: list, then reset, then StartWatch.
Restart(w) ==
    /\ watch[w] = "unused"
    /\ SetUp
    /\ active' = TRUE
    /\ stops' = stops + (IF active THEN 1 ELSE 0)
    /\ syncedKind' = FALSE
    /\ shown' = Empty /\ outrun' = FALSE
    /\ watch' = [watch EXCEPT ![w] = "called"]
    /\ UNCHANGED <<cluster, changes, stopped, held, sync, owed, installed, early, inbox>>

\* Another namespace is selected, or the user comes back to the view.
Remount ==
    /\ active
    /\ SetUp
    /\ UNCHANGED <<backend, stops, inbox, active, syncedKind, shown, outrun>>

CleanUp ==
    /\ mounted' = FALSE /\ loaded' = FALSE /\ graced' = FALSE
    /\ sent' = 0 /\ responses' = <<>>

\* The user leaves the view.
Unmount ==
    /\ mounted
    /\ CleanUp
    /\ UNCHANGED <<backend, stops, inbox, active, syncedKind, mounts, shown, outrun>>

\* Faulty variant: answers still on their way are not ignored.
DeactivateUncancelled ==
    /\ active /\ stops < MaxMount
    /\ active' = FALSE
    /\ stops' = stops + 1
    /\ mounted' = FALSE
    /\ shown' = Empty
    /\ UNCHANGED <<backend, inbox, syncedKind, mounts, sent, responses, loaded, graced, outrun>>

\* The context is no longer active.
Deactivate ==
    /\ active /\ stops < MaxMount
    /\ active' = FALSE
    /\ stops' = stops + 1
    /\ CleanUp
    /\ shown' = Empty /\ outrun' = FALSE
    /\ UNCHANGED <<backend, inbox, syncedKind, mounts>>

\* Faulty variant: no second fetch is sent while one is under way.
EventCoalesced ==
    /\ inbox > 0
    /\ inbox' = inbox - 1
    /\ syncedKind' = TRUE
    /\ sent' = IF mounted /\ InFlight = 0 THEN 1 ELSE sent
    /\ UNCHANGED <<backend, stops, active, mounted, mounts, responses, shown, loaded, graced,
                   outrun>>

\* The listener of events.ts: the entry is set, then the handlers run.
Event ==
    /\ inbox > 0 /\ InFlight < MaxRequest
    /\ inbox' = inbox - 1
    /\ syncedKind' = TRUE
    /\ sent' = IF mounted THEN sent + 1 ELSE sent
    /\ UNCHANGED <<backend, stops, active, mounted, mounts, responses, shown, loaded, graced,
                   outrun>>

\* A list call reads the lister of the watcher it finds in the map.
Answer ==
    /\ sent > 0
    /\ sent' = sent - 1
    /\ LET list == IF installed = NoWatcher THEN Empty ELSE held[installed]
       IN  responses' = Append(responses, [list |-> list, failed |-> FALSE, overtaken |-> FALSE])
    /\ early' = early \ {installed}
    /\ UNCHANGED <<cluster, changes, watch, stopped, held, sync, owed, installed, stops, inbox,
                   active, syncedKind, mounted, mounts, shown, loaded, graced, outrun>>

\* A fetch that has to ensure an informer first may be refused.
Refuse ==
    /\ sent > 0
    /\ sent' = sent - 1
    /\ responses' = Append(responses, [list |-> Empty, failed |-> TRUE, overtaken |-> FALSE])
    /\ UNCHANGED <<backend, stops, inbox, active, syncedKind, mounted, mounts, shown, loaded,
                   graced, outrun>>

\* Any answer may be the next to arrive.  An empty list counts as loaded only
\* when the kind has an entry in syncedKinds; an error always does.
Deliver(i) ==
    /\ shown' = responses[i].list
    /\ loaded' = (loaded \/ responses[i].failed \/ responses[i].list # Empty \/ syncedKind)
    /\ outrun' = (responses[i].overtaken \/ responses[i].failed)
    /\ responses' = RemoveAt([j \in 1..Len(responses) |->
                                [responses[j] EXCEPT !.overtaken = @ \/ j < i]], i)
    /\ UNCHANGED <<backend, stops, inbox, active, syncedKind, mounted, mounts, sent, graced>>

GraceTimer ==
    /\ mounted /\ ~graced
    /\ graced' = TRUE
    /\ loaded' = TRUE
    /\ UNCHANGED <<backend, stops, inbox, active, syncedKind, mounted, mounts, sent, responses,
                   shown, outrun>>

-----------------------------------------------------------------------------
DeliverAny == \E i \in 1..Len(responses) : Deliver(i)

WatchStep(w) == WatchExisting(w) \/ WatchStarted(w) \/ WatchFails(w) \/ WatchInstalls(w)

Next ==
    \/ ClusterChanges
    \/ \E w \in Watcher : WatchStep(w) \/ Receive(w) \/ CacheSynced(w) \/ AnnounceSynced(w)
                          \/ Callback(w) \/ Restart(w)
    \/ StopWatch
    \/ Remount \/ Unmount \/ Deactivate
    \/ Event \/ Answer \/ Refuse \/ DeliverAny \/ GraceTimer

\* Goroutines and informers run, the page handles what reaches it, its timer
\* fires.  The user and the cluster need not do anything.
Fairness ==
    /\ \A w \in Watcher : /\ WF_vars(WatchStep(w))
                          /\ WF_vars(Receive(w)) /\ WF_vars(CacheSynced(w))
                          /\ WF_vars(AnnounceSynced(w)) /\ WF_vars(Callback(w))
    /\ WF_vars(StopWatch)
    /\ WF_vars(Event) /\ WF_vars(Answer \/ Refuse) /\ WF_vars(DeliverAny)
    /\ WF_vars(GraceTimer)

Spec == Init /\ [][Next]_vars /\ Fairness

-----------------------------------------------------------------------------
(* Properties.                                                              *)

\* The installed watcher runs, and what it announced before it was installed,
\* when no list call could find it, has been announced or read again since.
Healthy == installed # NoWatcher /\ Up(installed) /\ installed \notin early

\* Nothing is on its way to the table any more.
Settled ==
    /\ mounted /\ Healthy
    /\ sync[installed] = "announced" /\ installed \notin owed
    /\ inbox = 0 /\ InFlight = 0

\* No lost update: when all is quiet the table shows what the installed
\* watcher holds, through restarts, remounts and late answers, unless what
\* arrived last had been read before what arrived earlier, or was an error.
SettledIsCurrent == Settled /\ ~outrun => shown = held[installed]

\* A context that is not active has no rows: no late answer brings them back.
InactiveIsEmpty == ~active => shown = Empty

\* While the table stays up over a running watcher it keeps returning to the
\* list of the cluster.
Converges == []<>(mounted /\ Healthy => shown = cluster \/ outrun)

\* events.ts:8-12: an entry in syncedKinds means that the informer cache for
\* that kind has synced.
SyncEntryMeansSynced ==
    syncedKind /\ installed # NoWatcher => sync[installed] # "no"

=============================================================================
