--------------------------- MODULE ContextWatcher ---------------------------
(***************************************************************************)
(* One contextWatcher (internal/kube/informers.go) from start() to stop(): *)
(* access discovery and the routing of kinds to informer factories         *)
(* (permissions.go), the goroutines that wait for the caches and announce  *)
(* every kind once, and the debounced queue of touched kinds.  Informer    *)
(* goroutines, the waiting goroutines, the timer and stop() interleave;    *)
(* contextWatcher.mu guards pending, timer and stopped only.               *)
(*                                                                         *)
(* Most kinds share two informer factories, one cluster-wide and one bound *)
(* to a namespace, that start() starts last.  The CRDs (crd.go), the       *)
(* Gateway API kinds (gateway.go) and APIService (apiservice.go) have      *)
(* factories of their own, started earlier, one by one: a Group each.      *)
(***************************************************************************)
CONSTANTS
    Kind,          \* kinds some informer of the watcher may follow
    Listed,        \* watchedKinds(): the kinds in the access table
    Group,         \* sets of kinds that have a factory of their own
    ClusterScoped, \* clusterScopedKinds
    CanCluster,    \* kinds the user may list cluster-wide
    CanScoped,     \* kinds the user may list in the default namespace
    Served,        \* kinds whose API the cluster serves
    Flusher        \* bound on flush callbacks delivering at the same time

ASSUME SetsAssumption ==
    /\ Listed \subseteq Kind
    /\ Group \subseteq SUBSET Kind
    /\ ClusterScoped \subseteq Kind
    /\ CanCluster \subseteq Kind
    /\ CanScoped \subseteq Kind
    /\ Served \subseteq Kind

VARIABLES
    phase,      \* of start(): new, routed, running, failed
    opened,     \* groups start() has dealt with
    access,     \* contextAccess.kinds
    informer,   \* none, started or synced
    waiter,     \* the goroutine at the end of start(): what it waits for
    toAnnounce, \* kinds that goroutine has still to touch
    ownWaiting, \* kinds the groups' own goroutines have still to touch
    cancelled,  \* the watcher's context is cancelled
    stopped, pending, timer, \* the fields of the same name
    firing,     \* the timer's goroutine runs flush and has not taken mu yet
    delivering, \* kinds each flush is calling onChange for
    owed        \* history: kinds touched with no callback begun since

queue == <<stopped, pending, timer, firing, delivering, owed>>
setup == <<phase, opened, access, informer, waiter, toAnnounce, ownWaiting, cancelled>>
vars == <<setup, queue>>

Mode == {"unknown", "denied", "cluster", "scoped"}

TypeOK ==
    /\ phase \in {"new", "routed", "running", "failed"}
    /\ opened \subseteq Group
    /\ access \in [Kind -> Mode]
    /\ phase = "new" \/ \A k \in Listed : access[k] # "unknown"
    /\ informer \in [Kind -> {"none", "started", "synced"}]
    /\ waiter \in {"off", "cluster", "scoped", "announce", "done"}
    /\ toAnnounce \subseteq Kind
    /\ ownWaiting \subseteq Kind
    /\ cancelled \in BOOLEAN
    /\ stopped \in BOOLEAN
    /\ pending \subseteq Kind
    /\ timer \in {"nil", "armed", "fired"}
    /\ firing \in BOOLEAN
    /\ delivering \in [Flusher -> SUBSET Kind]
    /\ owed \subseteq Kind

Init ==
    /\ phase = "new"
    /\ opened = {}
    /\ access = [k \in Kind |-> "unknown"]
    /\ informer = [k \in Kind |-> "none"]
    /\ waiter = "off"
    /\ toAnnounce = {}
    /\ ownWaiting = {}
    /\ cancelled = FALSE
    /\ stopped = FALSE
    /\ pending = {}
    /\ timer = "nil"
    /\ firing = FALSE
    /\ delivering = [f \in Flusher |-> {}]
    /\ owed = {}

-----------------------------------------------------------------------------
(* start()                                                                  *)

\* probeAccess: canList answers FALSE on any error, so a review that failed
\* or timed out reads as a refusal.
ProbeOutcomes(k) ==
    {"denied"}
    \cup (IF k \in CanCluster THEN {"cluster"} ELSE {})
    \cup (IF k \in CanScoped \ ClusterScoped THEN {"scoped"} ELSE {})

\* Faulty variant: the probes are not waited for.
DiscoverNoWait ==
    /\ phase = "new"
    /\ phase' = "routed"
    /\ access' \in {a \in [Kind -> Mode] : \A k \in Kind :
                      IF k \in Listed THEN a[k] \in ProbeOutcomes(k) \cup {"unknown"}
                                      ELSE a[k] = "unknown"}
    /\ UNCHANGED <<opened, informer, waiter, toAnnounce, ownWaiting, cancelled, queue>>

\* discoverAccess probes every listed kind and waits for all the probes.
Discover ==
    /\ phase = "new"
    /\ phase' = "routed"
    /\ access' \in {a \in [Kind -> Mode] : \A k \in Kind :
                      IF k \in Listed THEN a[k] \in ProbeOutcomes(k)
                                      ELSE a[k] = "unknown"}
    /\ UNCHANGED <<opened, informer, waiter, toAnnounce, ownWaiting, cancelled, queue>>

\* Kinds of the two shared factories, and those the access map lets in.
Shared == Listed \ UNION Group
Followed == {k \in Shared : access[k] \in {"cluster", "scoped"}}

\* Whether start() opens a group: APIService by the access map, the others by
\* a probe of their own, which may be refused or fail.
Opens(g) ==
    IF g \subseteq Listed
    THEN {\A k \in g : access[k] = "cluster"}
    ELSE {FALSE} \cup {g \subseteq CanCluster}

\* crd.start, startGatewayInformers, startAPIServiceInformer: the group's
\* informers start, and a goroutine that waits for them.
OpenGroup(g) ==
    /\ phase = "routed"
    /\ g \notin opened
    /\ opened' = opened \cup {g}
    /\ \E open \in Opens(g) :
         IF open
         THEN /\ informer' = [k \in Kind |-> IF k \in g THEN "started" ELSE informer[k]]
              /\ ownWaiting' = ownWaiting \cup g
         ELSE UNCHANGED <<informer, ownWaiting>>
    /\ UNCHANGED <<phase, access, waiter, toAnnounce, cancelled, queue>>

\* The shared factories are started and the goroutine that waits for them.
StartFactories ==
    /\ phase = "routed"
    /\ opened = Group
    /\ phase' = "running"
    /\ informer' = [k \in Kind |-> IF k \in Followed THEN "started" ELSE informer[k]]
    /\ waiter' = "cluster"
    /\ UNCHANGED <<opened, access, toAnnounce, ownWaiting, cancelled, queue>>

\* A handler could not be added: start() cancels its context and fails; the
\* watcher is not marked stopped, though groups may be running.
StartFails ==
    /\ phase = "routed"
    /\ phase' = "failed"
    /\ cancelled' = TRUE
    /\ UNCHANGED <<opened, access, informer, waiter, toAnnounce, ownWaiting, queue>>

-----------------------------------------------------------------------------
(* touch()                                                                  *)

\* Faulty variant: touch() does not look at w.stopped.
TouchWhenStopped(k) ==
    /\ pending' = pending \cup {k}
    /\ timer' = IF timer = "nil" THEN "armed" ELSE timer
    /\ owed' = owed \cup {k}
    /\ UNCHANGED <<stopped, firing, delivering>>

\* The whole of touch(), which runs under mu.
Touch(k) ==
    /\ UNCHANGED <<stopped, firing, delivering>>
    /\ IF stopped
       THEN UNCHANGED <<pending, timer, owed>>
       ELSE /\ pending' = pending \cup {k}
            /\ timer' = IF timer = "nil" THEN "armed" ELSE timer
            /\ owed' = owed \cup {k}

\* An Add, Update or Delete handler of k's informer runs.  The initial list
\* is delivered this way too, before the cache counts as synced, and a
\* handler already running does not see the cancelled context.
Event(k) ==
    /\ informer[k] # "none"
    /\ k \in Served
    /\ Touch(k)
    /\ UNCHANGED setup

\* The initial list of k is in the store.
CacheSynced(k) ==
    /\ informer[k] = "started"
    /\ k \in Served
    /\ ~cancelled
    /\ informer' = [informer EXCEPT ![k] = "synced"]
    /\ UNCHANGED <<phase, opened, access, waiter, toAnnounce, ownWaiting, cancelled, queue>>

-----------------------------------------------------------------------------
(* The goroutines that wait for the caches.                                 *)

\* WaitForCacheSync of the factory that owns the kinds of a mode.
FactorySynced(mode) ==
    cancelled \/ \A k \in Followed : access[k] = mode => informer[k] = "synced"

WaitCluster ==
    /\ waiter = "cluster"
    /\ FactorySynced("cluster")
    /\ waiter' = "scoped"
    /\ UNCHANGED <<phase, opened, access, informer, toAnnounce, ownWaiting, cancelled, queue>>

\* Faulty variant: the scoped factory is not waited for.
SkipScoped ==
    /\ waiter = "scoped"
    /\ waiter' = "announce"
    /\ toAnnounce' = Listed
    /\ UNCHANGED <<phase, opened, access, informer, ownWaiting, cancelled, queue>>

\* The loop that follows ranges over the whole access table.
WaitScoped ==
    /\ waiter = "scoped"
    /\ FactorySynced("scoped")
    /\ waiter' = "announce"
    /\ toAnnounce' = Listed
    /\ UNCHANGED <<phase, opened, access, informer, ownWaiting, cancelled, queue>>

\* Faulty variant: the loop is left before its last kind.
AnnounceAllButOne(k) ==
    /\ waiter = "announce"
    /\ k \in toAnnounce
    /\ Touch(k)
    /\ toAnnounce' = toAnnounce \ {k}
    /\ waiter' = IF \E j \in Kind : toAnnounce = {j, k} THEN "done" ELSE waiter
    /\ UNCHANGED <<phase, opened, access, informer, ownWaiting, cancelled>>

AnnounceKind(k) ==
    /\ waiter = "announce"
    /\ k \in toAnnounce
    /\ Touch(k)
    /\ toAnnounce' = toAnnounce \ {k}
    /\ waiter' = IF toAnnounce = {k} THEN "done" ELSE waiter
    /\ UNCHANGED <<phase, opened, access, informer, ownWaiting, cancelled>>

\* The goroutine of a group waits for its factory and touches its kinds.
WaitOwn(k) ==
    /\ k \in ownWaiting
    /\ cancelled \/ \A g \in Group : k \in g => \A j \in g : informer[j] = "synced"
    /\ Touch(k)
    /\ ownWaiting' = ownWaiting \ {k}
    /\ UNCHANGED <<phase, opened, access, informer, waiter, toAnnounce, cancelled>>

-----------------------------------------------------------------------------
(* The debounce timer and flush().                                          *)

\* An AfterFunc timer runs its function once; w.timer stays non-nil.
TimerFires ==
    /\ timer = "armed"
    /\ timer' = "fired"
    /\ firing' = TRUE
    /\ UNCHANGED <<setup, stopped, pending, delivering, owed>>

\* Faulty variant: flush() leaves w.timer set.
FlushKeepsTimer(f) ==
    /\ firing
    /\ delivering[f] = {}
    /\ firing' = FALSE
    /\ delivering' = [delivering EXCEPT ![f] = pending]
    /\ pending' = {}
    /\ UNCHANGED <<setup, stopped, timer, owed>>

\* flush() under mu: take the pending kinds and disarm.
Flush(f) ==
    /\ firing
    /\ delivering[f] = {}
    /\ firing' = FALSE
    /\ delivering' = [delivering EXCEPT ![f] = pending]
    /\ pending' = {}
    /\ timer' = "nil"
    /\ UNCHANGED <<setup, stopped, owed>>

\* flush() calls onChange outside mu, in map order, even after stop().
Deliver(f, k) ==
    /\ k \in delivering[f]
    /\ delivering' = [delivering EXCEPT ![f] = @ \ {k}]
    /\ owed' = owed \ {k}
    /\ UNCHANGED <<setup, stopped, pending, timer, firing>>

-----------------------------------------------------------------------------
(* stop(): cancel the context, then mark the watcher under mu.              *)

Cancel ==
    /\ phase = "running"
    /\ ~cancelled
    /\ cancelled' = TRUE
    /\ UNCHANGED <<phase, opened, access, informer, waiter, toAnnounce, ownWaiting, queue>>

\* Faulty variant: stop() leaves the pending kinds and the timer.
MarkOnly ==
    /\ phase = "running" /\ cancelled /\ ~stopped
    /\ stopped' = TRUE
    /\ owed' = {}
    /\ UNCHANGED <<setup, pending, timer, firing, delivering>>

\* timer.Stop() does not stop a flush that already waits for mu.
MarkStopped ==
    /\ phase = "running" /\ cancelled /\ ~stopped
    /\ stopped' = TRUE
    /\ timer' = "nil"
    /\ pending' = {}
    /\ owed' = {}
    /\ UNCHANGED <<setup, firing, delivering>>

-----------------------------------------------------------------------------
Next ==
    \/ Discover \/ StartFactories \/ StartFails
    \/ \E g \in Group : OpenGroup(g)
    \/ \E k \in Kind : Event(k) \/ CacheSynced(k)
    \/ WaitCluster \/ WaitScoped
    \/ \E k \in Kind : AnnounceKind(k) \/ WaitOwn(k)
    \/ TimerFires
    \/ \E f \in Flusher : Flush(f) \/ \E k \in Kind : Deliver(f, k)
    \/ Cancel \/ MarkStopped

\* Goroutines and the timer run; a served kind's informer gets its first
\* list.  Events, stop() and the outcome of start() are up to others.
Fairness ==
    /\ WF_vars(Discover)
    /\ WF_vars(StartFactories \/ StartFails \/ \E g \in Group : OpenGroup(g))
    /\ WF_vars(WaitCluster) /\ WF_vars(WaitScoped)
    /\ \A k \in Kind : WF_vars(CacheSynced(k)) /\ WF_vars(AnnounceKind(k)) /\ WF_vars(WaitOwn(k))
    /\ WF_vars(TimerFires)
    /\ WF_vars(\E f \in Flusher : Flush(f))
    /\ \A f \in Flusher, k \in Kind : WF_vars(Deliver(f, k))
    /\ WF_vars(MarkStopped)

Spec == Init /\ [][Next]_vars /\ Fairness

-----------------------------------------------------------------------------
(* Properties.                                                              *)

\* While a touched kind waits, the timer has still to fire or its flush has
\* still to take the lock.
TimerIsDue == pending # {} => timer = "armed" \/ firing

\* A kind somebody is owed a callback for is waiting or being delivered; after
\* stop() nothing is owed.
OwedIsQueued ==
    /\ owed \subseteq pending \cup UNION {delivering[f] : f \in Flusher}
    /\ stopped => owed = {}

\* No lost wake-up, whatever touch, flush and stop did: what is owed is queued,
\* and what is queued has a flush to come.
WakeupNotLost == TimerIsDue /\ OwedIsQueued

\* The goroutine of start() announces kinds only once both factories have
\* synced: this is what events.ts relies on to trust an empty list.
AnnounceMeansSynced ==
    waiter \in {"announce", "done"} /\ ~cancelled =>
        \A k \in Shared : access[k] \in {"cluster", "scoped"} => informer[k] = "synced"

\* After stop() no flush gets anything new to deliver: what still reaches the
\* page was taken out of pending before.
DrainsAfterStop ==
    [][stopped => \A f \in Flusher : delivering'[f] \subseteq delivering[f]]_vars

\* The watcher implements ChangeNotice, liveness included.
Notices == INSTANCE ChangeNotice WITH open <- ~stopped
ImplementsChangeNotice == Notices!Spec

\* The loop at the end of start() has touched k; ChangeNotice takes it from
\* there to the page.
Accessible(k) == access[k] \in {"cluster", "scoped"}
Announced(k) == waiter \in {"announce", "done"} /\ k \notin toAnnounce

\* events.ts:8-12: every accessible kind is touched once after the caches
\* synced, even the empty ones.
EveryKindAnnounced ==
    \A k \in Listed : Accessible(k) /\ waiter # "off" ~> Announced(k) \/ cancelled

\* That does hold where the API of every accessible kind is served.
AnnouncedIfServed ==
    \A k \in Listed :
        Accessible(k) /\ waiter # "off" /\ (\A j \in Listed : Accessible(j) => j \in Served)
            ~> Announced(k) \/ cancelled

=============================================================================
