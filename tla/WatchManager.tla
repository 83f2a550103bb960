---------------------------- MODULE WatchManager ----------------------------
(***************************************************************************)
(* The life cycle of the per-context watchers of ClientManager             *)
(* (internal/kube/manager.go).  Every bound method runs in a goroutine of  *)
(* its own, so Watch, StopWatch, the calls that only need a client and     *)
(* Shutdown interleave freely; ClientManager.mu is held for short regions  *)
(* only and is never held while kubeconfig is read, a client is built, a   *)
(* watcher is started or a watcher is stopped.  One action here is one     *)
(* region under the lock, or one step taken between two of them.           *)
(*                                                                         *)
(* A client is represented by the generation of the kubeconfig it was      *)
(* built from.  A watcher is represented by the Watch call that builds it. *)
(***************************************************************************)
EXTENDS Naturals, FiniteSets

CONSTANTS Context,    \* names of kubeconfig contexts
          Thread,     \* goroutines of bound calls
          Watcher,    \* the contextWatcher objects Watch calls may build
          NoWatcher,  \* no entry in the watchers map
          NoClient,   \* no entry in a client cache
          NoContext,  \* the context of a call or a watcher that has none
          MaxGen      \* bound on the number of kubeconfig edits

ASSUME ConstantsAssumption ==
    /\ NoWatcher \notin Watcher
    /\ NoContext \notin Context
    /\ NoClient \notin Nat
    /\ MaxGen \in Nat

Gen == 0..MaxGen

\* The two caches filled by check, unlock, load, lock, store:
\* ClientManager.cache and metricsCache.client.
Cache == {"client", "metrics"}

VARIABLES
    watchers,    \* ClientManager.watchers
    cache,       \* the client caches, by cache and context
    kubeconfig,  \* generation of each context's entry on disk
    wstate,      \* state of each contextWatcher
    wctx,        \* context each contextWatcher was built for
    pc,          \* where each call stands
    op,          \* what each call does
    target,      \* context argument of each call
    source,      \* client cache each call reads
    gen,         \* client held by each call
    mine,        \* watcher a Watch call is building
    doomed,      \* watchers a call took out (or found) and will stop
    exiting,     \* OnShutdown has fired
    \* History, read by the properties only.
    overlapped,  \* contexts on which two Watch calls overlapped
    failed,      \* contexts whose last Watch stopped the old watcher and failed
    dropGen,     \* kubeconfig generation when StopWatch last dropped a cache
    raced,       \* caches dropped while a call was about to store into them
    floor        \* dropGen of the client cache when a call began

objects == <<wstate, wctx>>
calls   == <<pc, op, target, source, gen, mine, doomed>>
history == <<overlapped, failed, dropGen, raced, floor>>
vars == <<watchers, cache, kubeconfig, objects, calls, exiting, history>>

PC == {"idle", "lookup", "load", "store", "connect", "existing", "stopOld",
       "start", "install", "drop", "invalidate", "stop", "swap", "stopAll",
       "exited"}

TypeOK ==
    /\ watchers \in [Context -> Watcher \cup {NoWatcher}]
    /\ cache \in [Cache -> [Context -> Gen \cup {NoClient}]]
    /\ kubeconfig \in [Context -> Gen]
    /\ wstate \in [Watcher -> {"unused", "starting", "running", "stopped", "failed"}]
    /\ wctx \in [Watcher -> Context \cup {NoContext}]
    /\ pc \in [Thread -> PC]
    /\ op \in [Thread -> {"none", "watch", "use", "stopwatch", "shutdown"}]
    /\ target \in [Thread -> Context \cup {NoContext}]
    /\ source \in [Thread -> Cache]
    /\ gen \in [Thread -> Gen \cup {NoClient}]
    /\ mine \in [Thread -> Watcher \cup {NoWatcher}]
    /\ doomed \in [Thread -> SUBSET Watcher]
    /\ exiting \in BOOLEAN
    /\ overlapped \in SUBSET Context
    /\ failed \in SUBSET Context
    /\ dropGen \in [Cache -> [Context -> Gen]]
    /\ raced \in SUBSET (Cache \X Context)
    /\ floor \in [Thread -> Gen]

Init ==
    /\ watchers = [c \in Context |-> NoWatcher]
    /\ cache = [k \in Cache |-> [c \in Context |-> NoClient]]
    /\ kubeconfig = [c \in Context |-> 0]
    /\ wstate = [w \in Watcher |-> "unused"]
    /\ wctx = [w \in Watcher |-> NoContext]
    /\ pc = [t \in Thread |-> "idle"]
    /\ op = [t \in Thread |-> "none"]
    /\ target = [t \in Thread |-> NoContext]
    /\ source = [t \in Thread |-> "client"]
    /\ gen = [t \in Thread |-> NoClient]
    /\ mine = [t \in Thread |-> NoWatcher]
    /\ doomed = [t \in Thread |-> {}]
    /\ exiting = FALSE
    /\ overlapped = {}
    /\ failed = {}
    /\ dropGen = [k \in Cache |-> [c \in Context |-> 0]]
    /\ raced = {}
    /\ floor = [t \in Thread |-> 0]

-----------------------------------------------------------------------------
Goto(t, l) == pc' = [pc EXCEPT ![t] = l]

\* A bound method returns to the page.
Return(t) ==
    /\ Goto(t, "idle")
    /\ op' = [op EXCEPT ![t] = "none"]
    /\ target' = [target EXCEPT ![t] = NoContext]
    /\ source' = [source EXCEPT ![t] = "client"]
    /\ gen' = [gen EXCEPT ![t] = NoClient]
    /\ mine' = [mine EXCEPT ![t] = NoWatcher]
    /\ doomed' = [doomed EXCEPT ![t] = {}]
    /\ floor' = [floor EXCEPT ![t] = 0]

InWatch(t, c) == op[t] = "watch" /\ target[t] = c

\* Calls arrive from the page: none begins once OnShutdown has fired.
Begin(t, o, c, l) ==
    /\ pc[t] = "idle"
    /\ ~exiting
    /\ Goto(t, l)
    /\ op' = [op EXCEPT ![t] = o]
    /\ target' = [target EXCEPT ![t] = c]
    /\ floor' = [floor EXCEPT ![t] = dropGen["client"][c]]
    /\ UNCHANGED <<watchers, cache, kubeconfig, exiting, gen, doomed, failed,
                   dropGen, raced>>

BeginWatch(t, c, w) ==
    /\ wstate[w] = "unused"
    /\ Begin(t, "watch", c, "lookup")
    /\ wstate' = [wstate EXCEPT ![w] = "starting"]
    /\ wctx' = [wctx EXCEPT ![w] = c]
    /\ mine' = [mine EXCEPT ![t] = w]
    /\ overlapped' = IF \E u \in Thread : InWatch(u, c)
                     THEN overlapped \cup {c} ELSE overlapped
    /\ UNCHANGED source

\* Any other method that needs a client: the mutators, logs, exec, metrics.
BeginUse(t, c, k) ==
    /\ Begin(t, "use", c, "lookup")
    /\ source' = [source EXCEPT ![t] = k]
    /\ UNCHANGED <<objects, mine, overlapped>>

BeginStopWatch(t, c) ==
    /\ Begin(t, "stopwatch", c, "drop")
    /\ UNCHANGED <<objects, source, mine, overlapped>>

BeginShutdown(t) ==
    /\ pc[t] = "idle"
    /\ ~exiting
    /\ exiting' = TRUE
    /\ Goto(t, "swap")
    /\ op' = [op EXCEPT ![t] = "shutdown"]
    /\ UNCHANGED <<watchers, cache, kubeconfig, objects, target, source, gen,
                   mine, doomed, history>>

\* The user, a cloud CLI or a recreated cluster rewrites the kubeconfig.
EditKubeconfig(c) ==
    /\ kubeconfig[c] < MaxGen
    /\ ~exiting
    /\ kubeconfig' = [kubeconfig EXCEPT ![c] = @ + 1]
    /\ UNCHANGED <<watchers, cache, objects, calls, exiting, history>>

-----------------------------------------------------------------------------
(* Clientset and metricsClient: check the cache, load and build outside the *)
(* lock, store.                                                             *)

\* A call that only uses the client keeps it in a local and is done with
\* the manager; a Watch goes on to build its other clients.
HaveClient(t, g) ==
    IF op[t] = "watch"
    THEN /\ Goto(t, "connect")
         /\ gen' = [gen EXCEPT ![t] = g]
         /\ UNCHANGED <<op, target, source, mine, doomed, floor>>
    ELSE Return(t)

Lookup(t) ==
    LET cached == cache[source[t]][target[t]] IN
    /\ pc[t] = "lookup"
    /\ IF cached = NoClient
       THEN /\ Goto(t, "load")
            /\ UNCHANGED <<op, target, source, gen, mine, doomed, floor>>
       ELSE HaveClient(t, cached)
    /\ UNCHANGED <<watchers, cache, kubeconfig, objects, exiting, overlapped,
                   failed, dropGen, raced>>

Load(t) ==
    /\ pc[t] = "load"
    /\ gen' = [gen EXCEPT ![t] = kubeconfig[target[t]]]
    /\ Goto(t, "store")
    /\ UNCHANGED <<watchers, cache, kubeconfig, objects, op, target, source,
                   mine, doomed, exiting, history>>

Store(t) ==
    /\ pc[t] = "store"
    /\ cache' = [cache EXCEPT ![source[t]][target[t]] = gen[t]]
    /\ HaveClient(t, gen[t])
    /\ UNCHANGED <<watchers, kubeconfig, objects, exiting, overlapped, failed,
                   dropGen, raced>>

\* restConfig or a client constructor reports an error: the method returns it.
ClientError(t) ==
    /\ pc[t] \in {"load", "connect"}
    /\ Return(t)
    /\ wstate' = [w \in Watcher |-> IF w = mine[t] THEN "failed" ELSE wstate[w]]
    /\ UNCHANGED <<watchers, cache, kubeconfig, wctx, exiting, overlapped, failed,
                   dropGen, raced>>

-----------------------------------------------------------------------------
(* The rest of Watch.                                                       *)

\* The dynamic and the gateway client are built from the kubeconfig.  The
\* clientset goes into the watcher; its age is not looked at again.
Connect(t) ==
    /\ pc[t] = "connect"
    /\ Goto(t, "existing")
    /\ gen' = [gen EXCEPT ![t] = NoClient]
    /\ floor' = [floor EXCEPT ![t] = 0]
    /\ UNCHANGED <<watchers, cache, kubeconfig, objects, op, target, source,
                   mine, doomed, exiting, overlapped, failed, dropGen, raced>>

\* Faulty variants of Existing, used to check that the properties can fail.
ExistingKeptRunning(t) ==
    /\ pc[t] = "existing"
    /\ Goto(t, "start")
    /\ UNCHANGED <<watchers, cache, kubeconfig, objects, op, target, source,
                   gen, mine, doomed, exiting, history>>

ExistingThenRegister(t) ==
    /\ pc[t] = "existing"
    /\ Goto(t, "stopOld")
    /\ doomed' = [doomed EXCEPT ![t] = {watchers[target[t]]} \ {NoWatcher}]
    /\ watchers' = [watchers EXCEPT ![target[t]] = mine[t]]
    /\ UNCHANGED <<cache, kubeconfig, objects, op, target, source, gen, mine,
                   exiting, history>>

\* mu.Lock; read the map; the existing watcher is stopped after mu.Unlock,
\* and stays in the map.
Existing(t) ==
    /\ pc[t] = "existing"
    /\ IF watchers[target[t]] = NoWatcher
       THEN /\ Goto(t, "start")
            /\ UNCHANGED doomed
       ELSE /\ Goto(t, "stopOld")
            /\ doomed' = [doomed EXCEPT ![t] = {watchers[target[t]]}]
    /\ UNCHANGED <<watchers, cache, kubeconfig, objects, op, target, source,
                   gen, mine, exiting, history>>

\* contextWatcher.start returned nil: its informers run.
StartOK(t) ==
    /\ pc[t] = "start"
    /\ wstate' = [wstate EXCEPT ![mine[t]] = "running"]
    /\ Goto(t, "install")
    /\ UNCHANGED <<watchers, cache, kubeconfig, wctx, op, target, source, gen,
                   mine, doomed, exiting, history>>

\* contextWatcher.start cancelled its context and returned an error: Watch
\* returns it and leaves the map as it is.
StartError(t) ==
    /\ pc[t] = "start"
    /\ wstate' = [wstate EXCEPT ![mine[t]] = "failed"]
    /\ Return(t)
    /\ failed' = failed \cup {target[t]}
    /\ UNCHANGED <<watchers, cache, kubeconfig, wctx, exiting, overlapped,
                   dropGen, raced>>

\* Faulty variant of Install: the started watcher is never put in the map.
InstallForgotten(t) ==
    /\ pc[t] = "install"
    /\ Return(t)
    /\ failed' = failed \ {target[t]}
    /\ UNCHANGED <<watchers, cache, kubeconfig, objects, exiting, overlapped,
                   dropGen, raced>>

Install(t) ==
    /\ pc[t] = "install"
    /\ watchers' = [watchers EXCEPT ![target[t]] = mine[t]]
    /\ Return(t)
    /\ failed' = failed \ {target[t]}
    /\ UNCHANGED <<cache, kubeconfig, objects, exiting, overlapped, dropGen,
                   raced>>

-----------------------------------------------------------------------------
(* StopWatch and Shutdown.                                                  *)

\* History: the calls that loaded before this drop and will store after it.
Dropping(k, c) ==
    /\ dropGen' = [dropGen EXCEPT ![k][c] = kubeconfig[c]]
    /\ raced' = IF \E u \in Thread : pc[u] = "store" /\ source[u] = k /\ target[u] = c
                THEN raced \cup {<<k, c>>}
                ELSE raced \ {<<k, c>>}
    /\ UNCHANGED <<overlapped, failed, floor>>

\* What StopWatch does under mu, from the entry it leaves, the watchers it
\* will stop and the client it leaves cached.
DropLeaving(t, entry, stopping, client) ==
    LET c == target[t] IN
    /\ pc[t] = "drop"
    /\ watchers' = [watchers EXCEPT ![c] = entry]
    /\ doomed' = [doomed EXCEPT ![t] = stopping]
    /\ cache' = [cache EXCEPT !["client"][c] = client]
    /\ Goto(t, "invalidate")
    /\ Dropping("client", c)
    /\ UNCHANGED <<kubeconfig, objects, op, target, source, gen, mine, exiting>>

Entry(t) == watchers[target[t]]

\* Faulty variants of DropWatcher.
DropUnchecked(t)   == DropLeaving(t, NoWatcher, {Entry(t)}, NoClient)
DropKeepsEntry(t)  == DropLeaving(t, Entry(t), {Entry(t)} \ {NoWatcher}, NoClient)
DropKeepsClient(t) ==
    DropLeaving(t, NoWatcher, {Entry(t)} \ {NoWatcher}, cache["client"][target[t]])

\* StopWatch under mu: take the watcher out and drop the cached clientset.
DropWatcher(t) == DropLeaving(t, NoWatcher, {Entry(t)} \ {NoWatcher}, NoClient)

\* metrics.invalidate, under its own lock.
InvalidateMetrics(t) ==
    LET c == target[t] IN
    /\ pc[t] = "invalidate"
    /\ cache' = [cache EXCEPT !["metrics"][c] = NoClient]
    /\ Goto(t, "stop")
    /\ Dropping("metrics", c)
    /\ UNCHANGED <<watchers, kubeconfig, objects, op, target, source, gen, mine,
                   doomed, exiting>>

\* Shutdown under mu: both maps are replaced by empty ones.
Swap(t) ==
    /\ pc[t] = "swap"
    /\ watchers' = [c \in Context |-> NoWatcher]
    /\ doomed' = [doomed EXCEPT ![t] = {watchers[c] : c \in Context} \ {NoWatcher}]
    /\ cache' = [cache EXCEPT !["client"] = [c \in Context |-> NoClient]]
    /\ Goto(t, "stopAll")
    /\ UNCHANGED <<kubeconfig, objects, op, target, source, gen, mine, exiting,
                   history>>

\* contextWatcher.stop of a watcher the call holds, outside the lock.
StopOne(t) ==
    /\ pc[t] \in {"stopOld", "stop", "stopAll"}
    /\ \E w \in doomed[t] :
         /\ wstate' = [wstate EXCEPT ![w] = "stopped"]
         /\ doomed' = [doomed EXCEPT ![t] = @ \ {w}]
    /\ UNCHANGED <<watchers, cache, kubeconfig, wctx, pc, op, target, source,
                   gen, mine, exiting, history>>

\* Watch goes on to build its watcher.
OldStopped(t) ==
    /\ pc[t] = "stopOld"
    /\ doomed[t] = {}
    /\ Goto(t, "start")
    /\ UNCHANGED <<watchers, cache, kubeconfig, objects, op, target, source,
                   gen, mine, doomed, exiting, history>>

StopWatchDone(t) ==
    /\ pc[t] = "stop"
    /\ doomed[t] = {}
    /\ Return(t)
    /\ UNCHANGED <<watchers, cache, kubeconfig, objects, exiting, overlapped,
                   failed, dropGen, raced>>

ShutdownDone(t) ==
    /\ pc[t] = "stopAll"
    /\ doomed[t] = {}
    /\ Goto(t, "exited")
    /\ UNCHANGED <<watchers, cache, kubeconfig, objects, op, target, source,
                   gen, mine, doomed, exiting, history>>

-----------------------------------------------------------------------------
\* What the goroutine of a call that has begun does next.
Step(t) ==
    \/ Lookup(t) \/ Load(t) \/ Store(t) \/ ClientError(t)
    \/ Connect(t) \/ Existing(t) \/ StartOK(t) \/ StartError(t) \/ Install(t)
    \/ DropWatcher(t) \/ InvalidateMetrics(t) \/ Swap(t)
    \/ StopOne(t) \/ OldStopped(t) \/ StopWatchDone(t) \/ ShutdownDone(t)

BeginCall(t) ==
    \/ \E c \in Context, w \in Watcher : BeginWatch(t, c, w)
    \/ \E c \in Context, k \in Cache : BeginUse(t, c, k)
    \/ \E c \in Context : BeginStopWatch(t, c)
    \/ BeginShutdown(t)

Next ==
    \/ \E t \in Thread : BeginCall(t) \/ Step(t)
    \/ \E c \in Context : EditKubeconfig(c)

\* Goroutines are scheduled, and every network call in them ends.
Fairness == \A t \in Thread : WF_vars(Step(t))

Spec == Init /\ [][Next]_vars /\ Fairness

-----------------------------------------------------------------------------
(* Properties.                                                              *)

\* The map only ever hands out watchers whose start() returned nil: readers
\* such as AccessibleKinds use w.access and w.crd without any lock.
InstalledWasStarted ==
    \A c \in Context :
        watchers[c] # NoWatcher => /\ wctx[watchers[c]] = c
                                   /\ wstate[watchers[c]] \in {"running", "stopped"}

\* A watcher some call still answers for: it is installed, about to be
\* installed, or about to be stopped.
Accounted(w) ==
    \/ \E c \in Context : watchers[c] = w
    \/ \E t \in Thread : w \in doomed[t] \/ mine[t] = w

\* Whatever StopWatch, Shutdown, failed starts and other calls do, a running
\* watcher is lost (informers that nothing will ever stop, still emitting
\* kube:change) only on a context on which two Watch calls overlapped.
LeakOnlyByOverlap ==
    \A w \in Watcher :
        wstate[w] = "running" /\ wctx[w] \notin overlapped => Accounted(w)

\* The map holds a stopped watcher (frozen listers behind every table) only
\* while the Watch that replaces it is running, or after its start failed.
FrozenOnlyByRestart ==
    \A c \in Context :
        watchers[c] # NoWatcher /\ wstate[watchers[c]] = "stopped" =>
            \/ c \in failed
            \/ \E t \in Thread : InWatch(t, c) /\ pc[t] \in {"stopOld", "start", "install"}

\* A cache holds a client older than the kubeconfig StopWatch saw only if a
\* call was between its load and its store when StopWatch dropped the entry.
StaleOnlyByRace ==
    \A k \in Cache, c \in Context :
        cache[k][c] # NoClient /\ cache[k][c] < dropGen[k][c] => <<k, c>> \in raced

\* A Watch never overwrites a live entry of the map, unless Watch calls on
\* that context overlapped: it stops what it found before it starts its own.
OverwritesOnlyDead ==
    [][\A c \in Context :
          /\ watchers[c] # NoWatcher
          /\ watchers'[c] \notin {NoWatcher, watchers[c]}
          /\ c \notin overlapped
          => wstate[watchers[c]] = "stopped"]_vars

\* A running watcher that is no longer installed is stopped, or installed, in
\* the end; the contexts on which Watch calls overlapped are excepted.
RemovedIsStopped ==
    \A w \in Watcher :
        (wstate[w] = "running" /\ \A c \in Context : watchers[c] # w)
            ~> \/ wstate[w] = "stopped"
               \/ \E c \in Context : watchers[c] = w
               \/ wctx[w] \in overlapped

\* manager.go:224-228: Shutdown drains every live resource and every
\* contextWatcher stops its informer goroutines.  (A watcher some Watch call
\* is still building is not held against it.)
ShutdownDrains ==
    (\E t \in Thread : pc[t] = "exited") =>
        \A w \in Watcher : wstate[w] = "running" => \E t \in Thread : mine[t] = w

\* manager.go:251-255: StopWatch drops the caches so that the next Watch is
\* not handed a client of the kubeconfig as it was before.
ReconnectIsFresh ==
    \A t \in Thread : pc[t] = "connect" => gen[t] >= floor[t]

=============================================================================
