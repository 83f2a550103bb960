# Klustr, modelled and proved

Klustr is a desktop Kubernetes client: a Go backend (`src/internal/kube`, `src/app`)
bound through Wails to a React page (`src/frontend/src`).  This directory holds TLA+
specifications of the parts of it where goroutines, API calls, timers and React effects
interleave, the TLC runs that check them, and theorems about them proved with TLAPS.
Paths below are relative to `src/`.

## 1. The system

Two facts about the runtime shape every model.

* **Every bound method runs in a goroutine of its own.**  The page calls Go through
  promises; two calls made one after the other may start, and answer, in either order.
  Nothing but the mutexes of the backend orders them.
* **Mutexes are held briefly.**  `ClientManager.mu`, `contextWatcher.mu`,
  `execSessionManager.mu` guard map reads and writes; network calls, callbacks and
  waiting happen outside them.  A model's action is one critical section, or one step
  between two.

Events (`kube:change`, `exec:close:<id>` ...) travel the other way and are handled by
the page's single thread, in order of arrival.

### Inventory

| Component | State it keeps | Operations | Hard behaviour | Correct when |
|---|---|---|---|---|
| Watcher life cycle and client caches (`kube/manager.go`, `metrics.go`) | maps `watchers`, `clients`, metrics client cache | `Watch`, `StopWatch`, `Shutdown`, `Clientset`, `metricsClient` | check, unlock, act, store: calls for one context overlap; start fails half way | no running watcher is lost, none is frozen in the map, no stale client, shutdown drains |
| Context watcher (`informers.go`, `gateway.go`, `apiservice.go`) | factories, `pending`, `timer`, `stopped`, `access` | `start`, `stop`, `touch`, `flush`, informer handlers, `WaitForCacheSync` goroutines | informers, timer, overlapping flushes and stop; a cache that never syncs | no change is forgotten, empty kinds are announced after the sync, nothing new after stop |
| Access discovery (`permissions.go`) | access map of a watcher | `discoverAccess`, one SSAR per kind and scope | probes that fail or time out | each kind goes to exactly one factory, or none |
| Change events and tables (`lib/events.ts`, `ResourceTable.tsx`, `App.tsx`) | `syncedKinds`, handlers by kind, rows | listener, table effect, grace timer, restart effect | late events, answers out of order, restart and clean-up racing | a quiet table shows the watcher's list |
| Exec sessions (`exec.go`, `app.go`, `PodExecTab.tsx`) | session map, pipe and resize channel of each, the tab's ref | `start`, `sendInput`, `resize`, `stop`, `stopAll`; the tab's effect | closed channels, blocked pipe, tab left while starting, callbacks racing the id | no send on a closed channel, no shell left behind, no blocked input |
| Node operations (`nodeops.go`) | `draining` marks | `SetNodeCordon`, `DrainNode` | a 15-minute loop over a moving cluster, failing calls, reused pod names | one drain per node, done means gone, mark always cleared |
| Read-only guard (`manager.go`, `mutate.go`, `App.tsx`, `store/ui.ts`) | `readOnly` set; one flag in the store and in localStorage | `SetReadOnly`, `assertWritable`; switch, effect | a check that grows stale while the work goes on; unordered calls of the page | no write after the switch; the backend refuses where the page says so |
| Metrics (`metrics.go`, `store/metrics.ts`) | client cache, `volumeStats` with a TTL | list, poll, invalidate | a fetch that outlives its invalidation | nothing of the old connection is served |
| Custom resources (`crd.go`) | informers by GVR, CRD cache | `EnsureCRWatch`, list, CRD events | on-demand start shared by callers, kinds that cannot sync | callers return, each GVR has one informer |
| Log streams (`logs.go`) | stream map | start, stop, stopAll | as exec, with reconnect after the container ends | stopped streams end |
| Port forwards (`portforward.go`, `lib/events.ts`, `App.tsx`) | session map, stop and ready channels; the list on the page | start, stop, list, stopAll; reload on `pf:update` | ready channel, timeout and failure race; reloads answer in any order | no port listens out of reach, a quiet list is right |
| Terminals (`terminal.go`, `store/terminals.ts`, `TerminalTab.tsx`, `TerminalDrawer.tsx`) | session map, pty, temporary kubeconfig; tabs and drawer | start, input, resize, stop, stopAll; open, close, hide, restart | reader, stop and stopAll all close; the tab is gone before the answer | no shell outlives its tab, no kubeconfig its shell |
| Node shell (`nodeshell.go`, `NodeShellTab.tsx`) | a privileged pod in the cluster and an exec session | start, stop, delete; attach, leave | pod must be deleted on each path, before and after the answer | no privileged pod is left |
| Helm (`helm.go`, `helm_cache.go`) | configuration cache, repository file | list, upgrade, rollback, repos | unlocked read-change-write of a file; a write that fails once the file is empty | no repository is lost |
| Mutations (`mutate*.go`, `rollout.go`) | none | apply, scale, restart, delete ... | check and write are two steps | the guard is asked each time |
| Argo CD Sync dialog (`SyncArgoApplicationDialog.tsx`) | phase, mutation, polls | open, sync, poll, time out, close, move to another application | an answer after the dialog closed | an open dialog is about its own sync |
| Listers, details, RBAC review, Flux, Istio, cert-manager, KEDA, Karpenter | none | conversions of cached objects | none (pure) | unit tests |
| Kubeconfig, PATH, install, update | files | load, download | sequential I/O | unit tests |
| Contexts (`store/ui.ts`, `store/ui.persistence.ts`, `ConnectionsScreen.tsx`, `ContextSwitcher.tsx`) | active contexts, group, filters, last session, groups, default; localStorage | connect, toggle, group, disconnect, reconnect, edit groups, restart | many ways to change one set; references to groups that are gone; the app ends at any time | a restart brings several contexts back with their filter, the active group exists and holds what is shown |
| Detail panel (`store/ui.ts`, `ResourceDetailPanel.tsx`, `DeleteResourceButton.tsx`, `RowActionDialogs.tsx`, `ResourceYAMLTab.tsx`, palettes) | resource, navigation stack, dialogs, draft, review | open, link, back, delete, edit, review, apply | palettes change the resource under an open dialog; late answers | what is confirmed and reviewed is what is deleted and applied |
| Preferences (`store/`) | records in localStorage | setters | none | unit tests |

How they interact: the page's `App.tsx` effect calls `StartWatch` and `StopWatch`
whenever the set of active contexts changes; `Watch` builds a context watcher, which
probes access, opens factories and calls back `(kind)` through the debounce queue;
`app.go` emits `kube:change`; the listener of `events.ts` notes the kind as synced and
runs the handlers of that kind, and the one of a mounted table calls the lister, which
reads the informer cache of whatever watcher is then installed.  Sessions and drains
take a clientset from the same cache and call back on events of their own.

On the page, `store/ui.ts` is the hub: the connections screen, the switcher and the
Cmd+K palette change the set of active contexts, which unmounts the page or restarts its
watches, closes the detail panel, and hides the terminals (whose effects then stop their
shells).  Cmd+P and Cmd+K are keys of the window, so they act under any open dialog.

## 2. Modules

| Module | Models | Kind |
|---|---|---|
| `WatchManager` | watcher life cycle, client and metrics-client cache | detailed |
| `WatchManagerProofs` | | theorems |
| `ChangeNotice` | what a watcher promises the page | abstract |
| `ContextWatcher` | one watcher from `start()` to `stop()`, access discovery included | detailed, implements `ChangeNotice` |
| `ContextWatcherProofs` | | theorems, refinement |
| `KindTable` | one kind of one context, from the cluster to the rows of its table | composition |
| `ExecSessions` | exec session manager, `app.go` wrapper, Exec tab | detailed, composed of three parts |
| `ExecSessionsProofs` | | theorems |
| `NodeDrain` | `DrainNode`, `SetNodeCordon`, the read-only flag and the cluster meanwhile | detailed |
| `NodeDrainProofs` | | theorems |
| `ContextStore` | contexts, groups, filters and session in the store, on disk and on the two screens | detailed |
| `DetailPanel` | navigation, delete dialogs, YAML edit, review and apply | detailed, composes store, panel, dialogs and palettes |
| `DetailPanelProofs` | | theorems |
| `SyncDialog` | the Argo CD Sync dialog | detailed |
| `PortForwards` | `pfManager`, the forwarders, the page's list | detailed, backend and page |
| `Terminals` | drawer, tabs, shells and their kubeconfigs | detailed, backend and page |
| `ReadOnlySwitch` | the page's read-only switch, the calls it sends, the backend's marks | detailed, backend and page |
| `NodeShell` | node shell tab, its pod, its session | detailed, backend and page |
| `Watches` | the watchers of a context under the restarts of the page, for the next two | detailed, reduced from `WatchManager` |
| `AccessMap` | the kinds the page believes accessible | detailed, extends `Watches` |
| `CustomResources` | CRD list, view of a custom resource, `EnsureCRWatch` and its informers | detailed, extends `Watches` |
| `HelmRepos` | the file of chart repositories and their indexes | detailed |
| `MCPage` | `DetailPanel` with `ContextStore`, `SyncDialog`, `Terminals`, `PortForwards`, `ReadOnlySwitch` and `HelmRepos` beside it | instance |
| `PageProofs` | theorems about `MCPage`: the six components beside the panel | theorems |
| `MCTable` | `KindTable` with `AccessMap` and `CustomResources` beside it | instance |
| `TableProofs` | theorems about `MCTable` | theorems |
| `AnswerQueues` | calls and answers under way, of which any may come next | lemmas |
| `MCWatch` | `ContextWatcher` with `KindTable` beside it | instance |
| `MCNode` | `NodeDrain` with `NodeShell` beside it | instance |
| other `MC*` | instances for TLC, values in the `.cfg` files | instance |

Some modules define, beside an action, a variant of it that no specification uses
(`InstallForgotten`, `FlushKeepsTimer`, `StopKeepsEntry`, `MarkUnchecked` ...). These
state a mistake one could plausibly make in that code, and each property has one that
violates it: they show the property is sensitive to the code it is about.

### WatchManager

A goroutine `t` carries `op[t]`, `target[t]` and a program counter; its locals are `gen`
(the client it holds), `mine` (the watcher it builds) and `doomed` (the watchers it took
out and must stop).  A client is represented by the *generation* of the kubeconfig it
was built from, so "stale" is a comparison of numbers.

| Code | Actions |
|---|---|
| `Clientset` (fast path; load; store) and `metricsClient` | `Lookup`, `Load`, `Store`, `ClientError` |
| `Watch` | `BeginWatch`, the above, `Connect`, `Existing`, `OldStopped`, `StartOK` / `StartError`, `Install` |
| `StopWatch` | `BeginStopWatch`, `DropWatcher`, `InvalidateMetrics`, `StopOne`, `StopWatchDone` |
| `Shutdown` | `BeginShutdown`, `Swap`, `StopOne`, `ShutdownDone` |
| any call that only needs a client | `BeginUse`, `Lookup`, `Load`, `Store` |
| the user edits the kubeconfig file | `EditKubeconfig` |

`overlapped`, `failed`, `raced`, `dropGen` and `floor` are history: they record that two
`Watch` calls were under way together on a context, that a restart failed after it
stopped the old watcher, that a cache was dropped while a call was about to store into
it.  The exceptions of the properties name those events and no others.
`helm.invalidate` and the session managers' `stopAll`, called between the modelled
regions, touch none of this state and are left out.  No new call begins once `Shutdown`
has begun; calls under way go on.

### ContextWatcher and ChangeNotice

`phase` is where `start()` stands, `waiter` where its waiting goroutine stands. `access`
is filled by `Discover`, in which every probe may fail (a failing probe reads as "not
allowed", as in `permissions.go`).  `informer[k]` goes from `none` to `started` to
`synced`; `Event(k)` is a handler and runs `touch`, before the sync as well as after it.
`pending`, `timer`, `firing` and `delivering[f]` are the debounce queue: the timer fires
(`TimerFires`), some time later its function takes the lock (`Flush`), and the callbacks
run outside the lock (`Deliver`), so two flushes may overlap and `stop()` (`Cancel`,
then `MarkStopped`) may come between any two of these.  `owed` is history: the kinds
touched and not called back for since.  The refinement maps it to `owed` of
`ChangeNotice`, and `open` to `~stopped`.

The kinds with factories of their own (CRDs, Gateway API, APIService) are opened by
`start()` in a fixed order; the model lets them open in any order, which adds behaviours
and removes none.

### KindTable

The composition.  The backend is reduced to what the two modules above promise: the
regions of `Watch` and `StopWatch` that matter to a reader (`WatchExisting`,
`WatchStarted`, `WatchFails`, `WatchInstalls`, `StopWatch`; a `Watch` may fail before it
looks at the map, which leaves the watcher in it alone, or in `start()`, which does
not), and for each watcher an informer cache (`held`, `sync`) with its queue reduced to
`owed` and `Callback`, as in `ChangeNotice`.  The page is `SetUp`, `CleanUp` and their
uses (`Restart`, `Remount`, `Unmount`, `Deactivate`), `Event` (the listener and the
table's handler), the list calls in flight (`sent`, `responses`), `Answer` / `Refuse`
(the backend reads its cache, or fails), `Deliver(i)` (any of the answers arrives next)
and `GraceTimer`.  React runs the clean-ups of an update first and a child's effect
before its parent's: a restart fetches the list *before* `App`'s effect resets the sync
state and calls `StartWatch`, and `Restart` is written that way.

An answer carries two flags: `failed`, and `overtaken`, when an answer read later has
already been applied.  The table guards against neither, so both properties except a
table whose last answer was one of these (`outrun`).  `SettledIsCurrent` also excepts a
watcher that called back before it was installed (`early`): the page then asked a
backend that had no watcher yet, and nothing tells it again.  The exception ends when
that watcher calls back again or a list is read from it.

### ExecSessions

A session is identified with the run of the tab's effect that asks for it. `page[s]` is
where the tab stands with it (`starting`, `attached`, `ended`, `cancelled` when left
before the answer, `left`).  `inMap`, `closing`, `closed`, `queue` are the manager;
`stream` is the goroutine of `StreamWithContext`; `named` says that the wrapper of
`app.go` has assigned the id its callbacks read.  `OnClose` may run before `Name`, and
then emits for no session: a data race in the code, modelled as both outcomes.
`writing` are the `SendExecInput` calls blocked in the unbuffered pipe.

### NodeDrain

`pc[d]` walks `guard`, `cordonCheck`, `cordon`, `list`, then rounds of `get`, `evict`,
`wait`.  `targets` are the UIDs listed once; in a round, `unseen` are the pods still to
Get, `pending` those found still there, and `toEvict` those still to evict.  Two
histories are what the properties compare with: `known` are the targets whose name a Get
of any round found with another pod, and `blind` those whose Get of this round failed
(the code then goes by the list).  Every API call may fail.  Around it, pods end, are
deleted, are recreated under the same name with a new UID (`Recreated`), the node is
uncordoned and read-only mode is switched at any time.  A pod in phase Succeeded or
Failed is treated as gone.

### ContextStore

`active` is the set that `effectiveContextList` makes of `selectedContext` and
`aggregatedContexts`.  Every setter that changes it goes through `Normalize`
(`normalizeContexts`), which exchanges the namespace filter and writes localStorage;
`disk` is what was written, and `Restart` reads it back as `useUIStore` does at boot.
`kept` is `namespacesByContext`, whose key is the set.  `listed`, `load` and `picked` are
the mounted screen: the connections screen while nothing is active, the switcher
afterwards, mounted anew when that changes.  The lists of the switcher and of Cmd+K are
taken as one.  `used` and `outgrown` are history: the ids groups were given, which are
not given twice, and whether the group of the last session was saved without some of the
session's contexts since the session was recorded.

### DetailPanel

`sel` and `stack` are `selectedResource` and `resourceNavStack`; a resource is an id
(kind, namespace, name) and a context, which links inside the panel leave out.  What a
change of `sel` does to the components that stay mounted is `Show`: nothing is keyed by
the resource but the YAML tab, and that one not by context, so an open delete dialog
asks about the new resource (`Retarget`) and an open review stays (`RetargetYaml`).
`typed` is what the dialog showed when DELETE was typed into it, `yaml.seen` what the
dry run on screen was made of; the properties compare them with what is sent.  A delete
runs `onSuccess` of the last rendering of its dialog (`del.shown`), also after Escape
closed the dialog (`del.by = "closed"`) or the panel was closed (`"gone"`).

### SyncDialog

`phase` with the submission it is about; `ticks` are polls under way, which a change of
phase cancels.  `own` are the submissions since the dialog opened, `late` those still
unanswered when it closed.  A poll may say that the operation has ended, has not, or
fail; what it says of an older operation is data left out (the code tells them apart by
comparing clocks of page and cluster within two seconds).

### PortForwards

`fwd` is the forwarder's goroutine, `call` the start that waits in `select` for it,
`watch` the goroutine that removes the session when it ends, `stopped` the closed
`stopCh`.  `select` may take any ready case.  The page: `events` not yet handled,
`asked` lists not yet read, `answers` on their way, of which any may come next.  An
answer that was overtaken is `older`.

### Terminals

A run `r` of a tab's effect asks for one shell; `page`, `call`, `shell`, `reader` and
`stops` are the tab, the `OpenLocalTerminal` call, the process, the goroutine that reads
it and the `StopLocalTerminal` call.  The drawer renders its tabs only while it is
shown, so hiding it ends all their runs (`Render`, `Rerun`).  Shutdown takes the map
once; `late` are the runs it does not find there.

### NodeShell

A run creates a pod, waits for it, starts an exec session in it and answers; `del` is
the delete call of the pod, sent on each failing path and by `onClose` of the stream.
`lost` are the runs whose create answer or delete call is lost.

### ReadOnlySwitch

The store has one flag for all contexts.  An effect of `App.tsx` sends it for each
active context whenever the flag or the list of contexts changes (`SetGlobalReadOnly`,
`ChangeContexts`, `Boot` in a new process, where nothing is marked).  `calls` are those
under way, in the order they were made; each runs in a goroutine of its own, so any of
them may be the next (`SetReadOnly(c, i)`).  `overtaken` is history: the contexts whose
latest call to run was older than one that had run before it.  A context that is left
keeps its mark, and gets the flag's value when it is active again.

### Watches, AccessMap and CustomResources

`Watches` has of `Watch` and `StopWatch` what a reader of the map can tell apart: a
found watcher is stopped and stays installed, `start()` takes its time or fails, the new
one is installed, or the call is refused before it looks at the map (`WatchRefused`); a
`StopWatch` sent by the clean-up of an effect runs at any time. `AccessMap` adds what
`App.tsx` does when `StartWatch` answers: ask for the accessible kinds and store them,
whether or not the effect that asked is still the present one. `access` is the watcher
whose kinds are stored; `behind` and `last` are history, that they were read before
something stored earlier, and whose call the present effect made.

`CustomResources` adds `crdWatcher`.  `cr[w]` is the entry for one kind and its informer
in `w`: made under `crMu`, started, synced; `closed` the watchers whose `synced` channel
is closed, which happens when the cache has synced and also when the watch has stopped
(crd.go:324-328).  `ensure[v]` walks the `EnsureCRWatch` call of a mount `v`: the first
caller makes the entry and starts the informer, the others wait, and `Return` may take
either case of the `select`.  The view is on screen while its CRD is in the store's list
(`listed`), which each restart empties and `ListCRDs` fills again, from whichever
watcher is installed; so a restart mounts the view anew and asks again.  `CanSync` are
the watchers in which the kind gets its first list.

### HelmRepos

`file` and `index` are the names in the repository file and those with an index in the
cache; both are shared with the helm command.  A call reads the file (`copy`), downloads
an index, and writes its copy back changed; writing first empties the file.  `want` is
what the file should have, `stale` the calls overtaken since they read, `raced` that one
of them, or a late deletion of an index, went on.  Reading, downloading, opening and
writing may each fail; `torn` is history, that a write failed once the file it replaces
was empty.

### MCPage, MCTable, MCWatch and MCNode

The components in `MCPage` share no variable, and so in the other three.  `part` picks the
one that moves, the others stay as they started, so the state space is the sum of
theirs and not the product.  `MCWatch` asks fairness of the part that moves only.
Where components do meet, one module has both sides: `ChangeContexts` in `DetailPanel`,
`Disconnect` and `Connect` in `Terminals`, the page's list in `PortForwards`.
`QuietPageAgrees` joins `ListIsCurrent` and `GuardIsCurrent`, `QuietPageIsCurrent` joins
`SettledIsCurrent` and `AccessIsCurrent`: each says that once all is quiet the page and
the backend agree.

## 3. Runs

All bounds are CONSTANTS of the modules.  Deadlock checking is off where the modelled
part may legitimately come to rest (everything stopped, every bounded counter used up).

| Run | Instance | Question | Result |
|---|---|---|---|
| `watch_manager` | 1 context, 2 goroutines, 2 watchers, 1 edit | Can a running watcher be lost, a stopped one stay installed, a stale client stay cached, and when? | only by the named races |
| `watch_shutdown` | same | "Shutdown drains every live resource" (manager.go:224-228) | **violated** |
| `watch_reconnect` | same | "the next Watch() would otherwise hand back stale clients" is prevented (manager.go:251-255) | **violated** |
| `context_watcher` | a namespaced kind and a cluster-scoped one with its own factory, 2 flushers; beside them a table with 1 watcher, 2 changes, 2 events in flight | does a table converge; wake-ups, announcement, stop, refinement of `ChangeNotice` with liveness | holds |
| `cw_unserved` | two shared kinds, one not served | "touches every accessible kind once" (events.ts:9-10) | **violated** |
| `kind_table` | 2 lists, 2 watchers, 1 change, 2 mounts, 1 event and 2 calls in flight; beside it 2 watchers, 2 StopWatch calls under way, 2 mounts of a view, 2 CRD lists in flight, one watcher in which the kind cannot sync | Does a quiet table show the truth, is the access map that of the running watcher, is a view served, through restarts and late answers? | holds, with the named exceptions |
| `kind_table_synced` | as `kind_table` | "an entry here means the informer cache for that kind has synced" (events.ts:10-12) | **violated** |
| `exec_sessions` | 2 sessions, queue of 1, one typed into | closed channels, reachable streams, left tabs, blocked inputs, lost ends | holds |
| `node_drain` | an ordinary and an exempt pod and 2 drains, then 2 ordinary pods and 1 drain, 2 UIDs per name; beside them 2 runs of a node shell | one drain, done means gone, replacements spared over any number of rounds, mark cleared; the privileged pod removed | holds |
| `page` | contexts: 3, 1 group, 1 namespace, 1 context missing, a filter for one pair of contexts; panel: 2 contexts, a pod, 2 other resources, stack of 1; 2 applications, 3 syncs; 2 tabs, 2 shells; 2 forwards; 3 read-only calls per context; 2 repositories, 2 calls | what a restart brings back, which group is active, what is confirmed, reviewed, shown, listed, guarded and cleaned up, and whether a repository is lost | holds, with the named exceptions |
| `yaml_apply` | 2 contexts, 1 pod, 1 other resource | "server-side dry-run diff before apply" (README.md:67, ResourceYAMLTab.tsx:242-243) | **violated** |
| `drain_read_only` | same | read-only "is a hard local guarantee" (manager.go:71-74) | **violated** |

Why the bounds are enough to be interesting.  Two goroutines and two watchers give each
pair of overlapping calls (Watch/Watch, Watch/StopWatch, Watch/Shutdown, client
call/StopWatch); a third call of `Watch` would only repeat one of the pairs.  One
kubeconfig edit makes one client stale.  Contexts share no state but the maps' keys, so
one is enough for the runs; the theorems hold for any number. Two flushers are what it
takes for a flush to overtake another.  In `kind_table` two watchers give a restart with
the old one still calling back, two mounts a remount with an answer under way, two calls
an overtaking.  Two sessions give a tab that leaves one shell and starts the next.  A
resize channel of capacity 1 is full after one send (4 in the code).  Two UIDs per name
are one reuse of a name; of two ordinary pods one keeps the rounds going when the other
has been replaced and its new pod seen, so that later rounds meet it again.

In `page`, three contexts with one that may be missing give single, aggregated and empty
sets, a session that is only partly there, and four memberships a group may be edited
between, or removed, while a session names it (one group, whose id is not given again;
the theorems hold for any number).  A pod and two resources that need DELETE
typed, in two contexts, give the same name elsewhere, a link, and the three resources of
the trace described below. Three syncs give one under way, one late and one of the next
opening.  Two runs give a shell that is left and the next of the same or another tab;
two forwards, two reloads that overtake one another.  Three read-only calls for a
context give on, off and on under way at once.  Two calls over two repositories give an
add and a remove, of one name or of two, that overtake one another.  One delete is under
way at a time (a bound of `DetailPanel`).

### The six violations

1. **`watch_shutdown`** (doc and code differ): a `Watch` between `w.start` and its store
   installs a running watcher after `Shutdown` swapped the map.
2. **`watch_reconnect`** (code bug): `Clientset` stores what it built from the old
   kubeconfig after `StopWatch` dropped the entry; the next `Watch` uses it.
3. **`cw_unserved`** (doc and code differ): one allowed resource that the cluster does
   not serve keeps `WaitForCacheSync` waiting, and no kind is announced; the tables fall
   back on their grace timer.
4. **`kind_table_synced`** (doc and code differ): handlers touch a kind before its cache
   has synced, and a stopped watcher may call back after the reset.
5. **`drain_read_only`** (doc and code differ): a running drain evicts on after the
   context was made read-only.
6. **`yaml_apply`** (doc and code differ): with a review open, Cmd+P turns the panel to
   the pod of the same name in another active context.  The tab is keyed by kind,
   namespace and name, so the review stays, and Apply sends the draft to a context that
   no dry run was made for.

### What the exceptions of the passing properties say

An exception in a property is a path on which the code does what the property forbids.
Besides the races above:

* **`TypedUnlessLate`** (`outlived`).  A pod's delete is pending, Escape closes its
  dialog, a link leads to a resource that needs DELETE typed, its dialog is opened and
  DELETE typed; now the first delete succeeds, and its `onSuccess` closes the dialog by
  `setOpen(false)`, not through `onOpenChange`, which is what clears the text
  (DeleteResourceButton.tsx:62, 72-78).  The dialog of the next such resource opens
  already confirmed.  Without the exception TLC finds this in 13 steps.
* **`FreshUnlessLate`** (`late`).  A sync that answers after its dialog was closed sets
  the phase after the reset (SyncArgoApplicationDialog.tsx:135).
* **`ListIsCurrent`** (`overtaken`).  The older of two reloads may answer last
  (App.tsx:469).
* **`GuardIsCurrent`** (`overtaken`).  Two `setReadOnly` calls for one context may run in
  either order (App.tsx:477), so that switching on and at once off, or off and on, can
  leave the backend with the older value until the next change.
* **`RestartRestores`** excepts nothing, and says what is lost: one context alone is not
  stored, nor is the active group (ui.ts:171-175, 219-224).
* **`GroupIsShown`** (`outgrown`).  Reconnect takes the contexts of the last session and
  looks the group up by id alone (ConnectionsScreen.tsx:246-248): a group edited since is
  marked as active over contexts it no longer holds, and, reconnected, is recorded so
  again.  Without the exception TLC finds this in 9 steps.
* **`ReplacementIsSpared`** (`blind`).  A Get that fails leaves the pod of the list
  pending (nodeops.go:114-115), whatever earlier rounds have shown of its name, and the
  eviction names no UID: the pod that has the name now is evicted.
* **`AccessIsCurrent`** (`refused`).  A `Watch` that cannot build a client returns before
  it looks at the map (manager.go:182-197).  The effect has emptied the access map by
  then, and only logs the error: the watcher of the effect before runs on, the tables
  fill from it, and the map stays unknown until the contexts change.
* **`AccessIsCurrent`** (`behind`).  Two answers of `ListAccessibleKinds` may be stored in
  either order (App.tsx:494), and the older stays until the contexts change: the sidebar
  then hides or shows kinds as the previous watcher saw them.
* **`ViewIsServed`** (the call found another watcher).  A view that comes on screen while
  its watch is being restarted, from a list read from the old watcher, starts its
  informer there; or the old watcher is stopped already and the call answers without an
  error, since `synced` is closed all the same.  The effect depends on the context and
  the kind only (CustomResourceView.tsx:49), so the new watcher is never asked: the view
  is ready, or shows an error, and its rows stay empty until it is opened again.
  crd.go:292-294 says the call returns "so the caller can List immediately after".  The
  same lines say it waits "up to ~5s"; it waits for as long as the kind does not sync,
  which `CanSync` lets happen.
* **`ReposAreWhole`** (`raced`).  `AddRepo` and `RemoveRepo` write what they read, changed
  (helm.go:503, 517), with no lock against one another or the helm command: of two that
  overlap one is undone.  A remove deletes the index last (helm.go:522), so that a
  repository added again meanwhile has none.
* **`ReposAreWhole`** (`torn`).  Both write the file in place, which empties it first: if
  the write then fails (helm.go:503, 518) the names are gone, or some of them, with no
  other call about.  The index is written likewise (helm.go:499, 542).
* **`TerminalsCleanUp`** (`late`).  A shell that is still starting when Shutdown takes
  the map leaves its temporary kubeconfig, which holds credentials, on disk.
* **`PodIsRemoved`** (`lost`, `quit`).  ActiveDeadlineSeconds is what is left then.

## 4. Fairness

Weak fairness is asked of what the Go scheduler, the timer of `time.AfterFunc`, the
browser's event loop and a network call with a deadline guarantee: a goroutine that can
step does, a timer fires, a queued event is handled, a call answers or fails.  It is
never asked of the user, the cluster, or of success.

* `WatchManager`: each step of a call that has begun.
* `ContextWatcher`: the goroutines, the timer and the callbacks; `CacheSynced(k)` too,
  which is only enabled for kinds the cluster serves (an informer retries its list until
  it succeeds).  Not `Event`.  `MarkStopped` once `Cancel` ran.
* `KindTable`: backend steps, arrival of events and answers, the grace timer.  Not
  restarts, mounts or changes in the cluster.
* `ExecSessions`: a stream ends once its context is cancelled (not before: a shell may
  run for ever); calls and events are handled.  Not the user's typing.
* `NodeDrain`: weak fairness of each step, strong fairness of `Interrupted(d)`: the loop
  leaves and re-enters its waiting state for ever, and the 15-minute deadline of
  `app.go` does come.  Nothing says that a pod ever ends.
* `Terminals`: `OpenLocalTerminal` and `StopLocalTerminal` proceed, answers arrive, the
  reader sees the end of the terminal, and Shutdown goes on once begun.  Not the user,
  and not a shell's exit.
* `NodeShell`: calls return (the wait for the pod has 90 seconds, the delete 15), and a
  stream returns once it is cut or its pod is gone.  Not the user, the pod, or success.
* `MCPage` and `MCNode` add the fairness of their parts; a part that stays as it started
  has no fair action enabled.  `MCWatch` has the fairness of the part that moves.

## 5. What is proved

The theorems hold for every value of the constants under the modules' named assumptions
(`ConstantsAssumption`, `SetsAssumption`, `TableAssumption`, `PageAssumption`: "no
entry" values are not members, the subsets are subsets, bounds are naturals).  TLC
evaluates these assumptions in the runs.

**WatchManagerProofs.**  `TypeCorrect`, `InstalledTheorem`, `LeakTheorem`,
`FrozenTheorem`, `StaleTheorem`, `OverwriteTheorem`, from `Invariance: Spec => []IInv`.
None of the properties is inductive alone.  `IInv` adds: `CallInv`, what a call is doing
given where it stands; `MineInv`, a watcher being built belongs to one `Watch` call
only; `DoomedInv`, the watchers a `Watch` will stop are of its context, and those
`StopWatch` and `Shutdown` will stop are not installed; `ReplaceInv`, that where calls
do not overlap a `Watch` past its look at the map has stopped, or will stop, whatever it
is going to overwrite; `CacheInv`, that a client about to be stored was loaded after the
last drop, or the drop saw the call.  The argument of the leak theorem: whoever takes a
running watcher out of the map holds it in `doomed` until it is stopped, and the one way
around this is to overwrite an entry installed since one looked, which takes two `Watch`
calls.

**ContextWatcherProofs.**  `TypeCorrect`, `WakeupTheorem`, `DrainTheorem`,
`AnnounceTheorem` and `Refinement: Spec => Notices!SafeSpec`, the safety part of the
refinement.  `QueueInv` relates `pending`, `timer`, `firing` and `stopped`; `WaitInv`
says how far the waiting goroutine can have come given which caches have synced.

**ExecSessionsProofs.**  `TypeCorrect`, `ResizeTheorem`, `ReachableTheorem`, from
`SessionInv`: a session that has not started has left no trace in the map, and is not
being closed, so that `Start` cannot register a session that is closed already.

**NodeDrainProofs.**  `TypeCorrect`, `OneDrainTheorem` (inductive with the types),
`DoneTheorem` and `SparedTheorem` from `RoundInv`: the UID of a target is at most the
present one of its name, so that what has ended stays ended; a target seen in this round
and not pending has ended; a target that a Get of any round showed to be another pod has
an older UID than its name has now, for good, so that a later Get cannot find it pending
unless it fails; only pending pods are evicted.

**DetailPanelProofs.**  `TypeCorrect`, `ConfirmationIsForThis`, `ReviewHolds`.
`DialogInv` says that text that did not outlive its dialog is in an open one, and was
typed for the resource on screen if that one asks for it: under an open dialog the panel
can only be closed or turned to a pod, for which nothing need be typed.  `YamlInv` says
that a review holds the present context and draft, unless the tab moved while in edit
mode.

**TableProofs.**  `TableTypesCorrect`, `QuietPageIsRight`, `InactiveHasNoRows` and
`ViewsAreServed`, about `TableSpec`.  Each of the three parts has its own invariant, over
its own variables.

* `TableInv` (`KindTable`).  `QuietPageIsCurrent` speaks only of a page to which nothing
  is on its way, and answers may come in any order; so it is not inductive.  `Quiet`
  leaves out the answers: no change is on its way *before* them.  Then
  `NewestIsCurrent`: the answer read last is to come, unmarked, with the list of the
  installed watcher (or an error), or it has come, and what is still to come is marked as
  overtaken.  `Announced` says that the installed watcher's `start()` has returned, and
  that a watcher that announced its list before that is `early`.  `Cancelled` says that
  only a table that is set up has calls and answers under way, that it is set up only
  for an active context, and that each `StopWatch` under way is owed to a mount.
* `MapInv` (`AccessMap`): the same argument for the kinds.  There a watcher is taken to
  have told its kinds once it is installed and no call for its kinds is under way.  What
  it told is stored, or still to come, or was `Forgotten`: the effect that runs now has
  emptied the map, and its own call has not looked at the map yet, or was refused.
* `CustomInv` (`CustomResources`).  `InformersMade`: of the callers that share an informer
  one makes it, and whoever waits waits for one that is being started or was; `synced`
  is closed only for a watcher whose kind has synced or that was stopped.  `CallsFound`:
  what a call found decides how it may have ended.

Assumptions: the bounds are naturals, `MaxRequest` and `MaxLists` at least 1 (the first
effect of a mount makes a call).

**PageProofs.**  `PageTypesCorrect`, `RestartIsFaithful`, `ActiveGroupIsShown`,
`DialogIsFresh`, `NoHiddenListener`, `QuietPageIsRight`, `NoRepoIsLost`, about `PageSpec`:
one invariant for each part, over its own variables, and `PageInv` for all of them (for
the panel that of `DetailPanelProofs`).

* `CtxInv`: the types, `DiskIsCurrent`, that localStorage has what the store has and the
  filter shown is the one kept for what is shown (what `RestartRestores` rests on),
  `GroupIsShown` and `GroupsRecorded`: the contexts of a last session recorded under a
  group are members of it, unless the group was removed or `outgrown`, and an id is
  never given again.  The central lemma is about `Normalize`: it keeps the invariant
  whenever the group and the session it is given are sound; each screen's action then
  shows that they are.
* `SyncInv`: the phase, and each poll under way, is of a submission that is own or late,
  because every change of phase cancels the polls of the one before.
* `ForwardInv`: `ForwardReach` says where a forward may be given where its start stands,
  and that nothing is taken by stopAll before the app quits.  `ForwardQuiet` says that
  the last answer to come was read after the last change of the map, or that an event or
  a reload is still on its way, or that what is to come is marked as older.
* `SwitchInv`: for an active context the last call made says what the switch says, and
  has yet to run; or it has run, those left are older than it, and the mark is right
  unless one of them has run since.  It holds because every change of the switch or of
  the contexts makes a call for each context that is active after it.  Assumption:
  `MaxCalls` is at least 1, so that the first run of the effect can make its call.
* `HelmInv`: unless the file was raced or torn, it has what it should when nobody is between
  emptying and writing it.  `CopiesCurrent`: a call that was not overtaken has read that,
  or another one is just writing and will overtake it.  `IndexesKept`: a repository has
  its index before its name is written, and a remove that still has to delete an index
  is overtaken by an add of that name, or the name is gone.
* The types of the terminals, inductive as they stand.

**AnswerQueues.**  What is left of a sequence when any one of it is taken and the earlier
ones are marked: `KindTable`, `AccessMap`, `PortForwards` and `ReadOnlySwitch` keep their
calls and answers under way like that.

**Only model-checked:** liveness (`ImplementsChangeNotice`'s fairness part,
`AnnouncedIfServed`, `Converges`, `RemovedIsStopped`, `LeftIsStopped`, `InputsReturn`,
`EndIsSeen`, `MarkIsCleared`, `TerminalsCleanUp`, `PodIsRemoved`): liveness under fairness
and ENABLED are out of the prover's reach.  Every invariant and every action property a
passing run checks is proved.  `NodeShell` has no theorem: its one property is liveness.
Each property of `WatchManager`, `ContextWatcher`, `ExecSessions`, `NodeDrain` and
`DetailPanel` is proved of the module's own `Spec`, those of the other components of the
specification that composes them for TLC.
No module declares a RECURSIVE operator, and nothing here needs induction over data.

## 6. What is not modelled, and why

* The API server, client-go and the Wails bridge: external; each call succeeds, fails or
  is late, as the code that calls it must expect.
* Conversions of objects to rows and details, RBAC review, the integrations: pure
  functions with unit tests, no state.
* The lists, forms and column layouts of the views, which are most of the page's lines:
  presentation of what the store and the backend hold.  The generated Wails bindings
  (`lib/wails`) and their typed wrapper (`lib/api.ts`) call the backend and do nothing
  else.
* Log streams: the session pattern of `ExecSessions` without its channel and its input;
  a module would repeat that one.
* Helm releases: calls of its SDK, and a cache of their configurations.  What helm does
  under its own lock is one action (`HelmCommand`).
* `warmKEDA` (a caller of the on-demand informers other than a view), `volumeStats`, the
  one-call mutators (check, then write) and the fetches of a detail panel: real state,
  not modelled here.
* Preferences (tags, sidebar, columns, theme): each a record with a setter.
* Bytes in terminals, rows, sorting and layout.
* Names: contexts and kinds are model values, so prefix-keyed caches (`events.ts:40`)
  and the name-only comparison of a delete's `onSuccess` across kinds
  (DeleteResourceButton.tsx:63) are outside the models.
* Memory ordering: the one data race met (`app.go:376`, the session id) is a choice
  between its two outcomes.

## 7. Plan

Done: `WatchManager`, `ContextWatcher` / `ChangeNotice`, `KindTable`, `ExecSessions`,
`NodeDrain`, `ContextStore`, `DetailPanel`, `SyncDialog`, `PortForwards`, `Terminals`,
`NodeShell`, `ReadOnlySwitch`, `AccessMap`, `CustomResources`, `HelmRepos`; proofs of
every safety property the passing runs check.  Left:

1. The one-call mutators, and the detail a panel shows (`useResourceDetail`).
2. The metrics `volumeStats` cache with its TTL and invalidation; `warmKEDA`.
3. An abstract session registry that `ExecSessions`, `Terminals` and `PortForwards`
   implement.
4. Proofs: that the watchers `KindTable` and `Watches` assume are what `WatchManager`
   and `ContextWatcher` promise; the safety half of what `NodeShell` and `Terminals`
   clean up.
