------------------------- MODULE WatchManagerProofs -------------------------
(***************************************************************************)
(* Proofs about WatchManager, for any sets of contexts, goroutines and     *)
(* watchers and any number of kubeconfig edits.                            *)
(***************************************************************************)
EXTENDS WatchManager, TLAPS

\* What a call is doing follows from where it stands.
CallInv ==
    \A t \in Thread :
        /\ pc[t] = "idle" => op[t] = "none"
        /\ pc[t] \in {"lookup", "load", "store"} => op[t] \in {"watch", "use"}
        /\ pc[t] \in {"connect", "existing", "stopOld", "start", "install"} => op[t] = "watch"
        /\ pc[t] \in {"drop", "invalidate", "stop"} => op[t] = "stopwatch"
        /\ pc[t] \in {"swap", "stopAll", "exited"} => op[t] = "shutdown"
        /\ op[t] \in {"watch", "use", "stopwatch"} => target[t] \in Context
        /\ op[t] = "watch" <=> mine[t] # NoWatcher
        /\ doomed[t] # {} => pc[t] \in {"stopOld", "invalidate", "stop", "stopAll"}

\* A watcher under construction belongs to one Watch call and to nobody else.
MineInv ==
    \A t \in Thread : mine[t] # NoWatcher =>
        /\ wctx[mine[t]] = target[t]
        /\ wstate[mine[t]] = IF pc[t] = "install" THEN "running" ELSE "starting"
        /\ \A u \in Thread : mine[u] = mine[t] => u = t
        /\ \A u \in Thread : mine[t] \notin doomed[u]
        /\ \A c \in Context : watchers[c] # mine[t]

\* What a call will stop: a Watch, the watcher of its own context; StopWatch
\* and Shutdown, watchers they took out of the map.
DoomedInv ==
    \A t \in Thread : \A w \in doomed[t] :
        /\ wstate[w] \in {"running", "stopped"}
        /\ op[t] = "watch" => wctx[w] = target[t]
        /\ op[t] # "watch" => \A c \in Context : watchers[c] # w

\* Where Watch calls do not overlap, a Watch that has passed the check of the
\* map has stopped, or will stop, whatever it is going to overwrite.
ReplaceInv ==
    \A c \in Context \ overlapped :
        /\ \A t, u \in Thread : InWatch(t, c) /\ InWatch(u, c) => t = u
        /\ \A t \in Thread : InWatch(t, c) /\ watchers[c] # NoWatcher =>
             /\ pc[t] = "stopOld" =>
                    watchers[c] \in doomed[t] \/ wstate[watchers[c]] = "stopped"
             /\ pc[t] \in {"start", "install"} => wstate[watchers[c]] = "stopped"

\* A client on its way into a cache was loaded after the last drop, or the
\* drop saw the call.
CacheInv ==
    /\ \A k \in Cache, c \in Context : dropGen[k][c] =< kubeconfig[c]
    /\ \A t \in Thread : pc[t] = "store" =>
         /\ gen[t] \in Gen
         /\ gen[t] < dropGen[source[t]][target[t]] => <<source[t], target[t]>> \in raced

IInv ==
    /\ TypeOK
    /\ CallInv
    /\ MineInv
    /\ DoomedInv
    /\ ReplaceInv
    /\ InstalledWasStarted
    /\ LeakOnlyByOverlap
    /\ FrozenOnlyByRestart
    /\ CacheInv
    /\ StaleOnlyByRace

-----------------------------------------------------------------------------
\* The initial state: everything idle, nothing watched.
LEMMA TypeInit == Init => TypeOK /\ CallInv
<1> SUFFICES ASSUME Init PROVE TypeOK /\ CallInv
  OBVIOUS
<1>1. 0 \in Gen
  BY ConstantsAssumption DEF Gen
<1>2. dropGen \in [Cache -> [Context -> Gen]] /\ cache \in [Cache -> [Context -> Gen \cup {NoClient}]]
  BY <1>1 DEF Init
<1>3. TypeOK
  BY <1>1, <1>2 DEF Init, TypeOK, PC, Cache
<1>4. CallInv
  BY DEF Init, CallInv
<1> QED
  BY <1>3, <1>4

\* Every region under the lock, and every step between two, keeps the types.
LEMMA TypeNext == TypeOK /\ CallInv /\ [Next]_vars => TypeOK'
<1> SUFFICES ASSUME TypeOK, CallInv, [Next]_vars PROVE TypeOK'
  OBVIOUS
<1> USE ConstantsAssumption DEF TypeOK, CallInv, Goto, PC, Gen, Cache
<1>1. ASSUME NEW t \in Thread, BeginCall(t) PROVE TypeOK'
  <2>1. ASSUME NEW c \in Context, NEW w \in Watcher, BeginWatch(t, c, w) PROVE TypeOK'
    BY <2>1 DEF BeginWatch, Begin
  <2>2. ASSUME NEW c \in Context, NEW k \in Cache, BeginUse(t, c, k) PROVE TypeOK'
    BY <2>2 DEF BeginUse, Begin, objects
  <2>3. ASSUME NEW c \in Context, BeginStopWatch(t, c) PROVE TypeOK'
    BY <2>3 DEF BeginStopWatch, Begin, objects
  <2>4. ASSUME BeginShutdown(t) PROVE TypeOK'
    BY <2>4 DEF BeginShutdown, objects, history
  <2> QED
    BY <1>1, <2>1, <2>2, <2>3, <2>4 DEF BeginCall
<1>2. ASSUME NEW t \in Thread, Step(t) PROVE TypeOK'
  <2> USE DEF Return, objects, history
  <2>1. CASE Lookup(t)
    <3>1. CASE cache[source[t]][target[t]] = NoClient
      BY <2>1, <3>1 DEF Lookup
    <3>2. CASE cache[source[t]][target[t]] # NoClient /\ op[t] = "watch"
      <4>1. pc' \in [Thread -> PC]
        BY <2>1, <3>2 DEF Lookup, HaveClient
      <4>2. gen' \in [Thread -> Gen \cup {NoClient}]
        BY <2>1, <3>2, cache[source[t]][target[t]] \in Gen \cup {NoClient} DEF Lookup, HaveClient
      <4>3. /\ UNCHANGED <<op, target, source, mine, doomed, floor>>
            /\ UNCHANGED <<watchers, cache, kubeconfig, wstate, wctx, exiting>>
            /\ UNCHANGED <<overlapped, failed, dropGen, raced>>
        BY <2>1, <3>2 DEF Lookup, HaveClient
      <4> HIDE DEF CallInv, Goto, PC, Gen, Cache
      <4> QED
        BY <4>1, <4>2, <4>3
    <3>3. CASE cache[source[t]][target[t]] # NoClient /\ op[t] # "watch"
      <4>1. Return(t)
        BY <2>1, <3>3 DEF Lookup, HaveClient
      <4>2. /\ UNCHANGED <<watchers, cache, kubeconfig, wstate, wctx, exiting>>
            /\ UNCHANGED <<overlapped, failed, dropGen, raced>>
        BY <2>1 DEF Lookup
      <4> QED
        BY <4>1, <4>2
    <3> QED
      BY <3>1, <3>2, <3>3
  <2>2. CASE Load(t)
    BY <2>2 DEF Load
  <2>3. CASE Store(t)
    <3>1. cache' \in [Cache -> [Context -> Gen \cup {NoClient}]]
      BY <2>3, source[t] \in Cache, target[t] \in Context, gen[t] \in Gen \cup {NoClient}
      DEF Store
    <3>2. /\ UNCHANGED <<watchers, kubeconfig, wstate, wctx, exiting>>
          /\ UNCHANGED <<overlapped, failed, dropGen, raced>>
      BY <2>3 DEF Store
    <3>3. CASE op[t] = "watch"
      <4>1. pc' \in [Thread -> PC]
        BY <2>3, <3>3 DEF Store, HaveClient
      <4>2. gen' \in [Thread -> Gen \cup {NoClient}]
        BY <2>3, <3>3, gen[t] \in Gen \cup {NoClient} DEF Store, HaveClient
      <4>3. UNCHANGED <<op, target, source, mine, doomed, floor>>
        BY <2>3, <3>3 DEF Store, HaveClient
      <4> HIDE DEF CallInv, Goto, PC, Gen, Cache
      <4> QED
        BY <3>1, <3>2, <4>1, <4>2, <4>3
    <3>4. CASE op[t] # "watch"
      <4>1. Return(t)
        BY <2>3, <3>4 DEF Store, HaveClient
      <4> QED
        BY <3>1, <3>2, <4>1
    <3> QED
      BY <3>3, <3>4
  <2>4. CASE ClientError(t)
    BY <2>4 DEF ClientError
  <2>5. CASE Connect(t)
    BY <2>5 DEF Connect
  <2>6. CASE Existing(t)
    BY <2>6 DEF Existing
  <2>7. CASE StartOK(t)
    BY <2>7 DEF StartOK
  <2>8. CASE StartError(t)
    BY <2>8 DEF StartError
  <2>9. CASE Install(t)
    BY <2>9 DEF Install
  <2>10. CASE DropWatcher(t)
    BY <2>10 DEF DropWatcher, DropLeaving, Dropping, Entry
  <2>11. CASE InvalidateMetrics(t)
    BY <2>11 DEF InvalidateMetrics, Dropping
  <2>12. CASE Swap(t)
    BY <2>12 DEF Swap
  <2>13. CASE StopOne(t)
    BY <2>13 DEF StopOne
  <2>14. CASE OldStopped(t)
    BY <2>14 DEF OldStopped
  <2>15. CASE StopWatchDone(t)
    BY <2>15 DEF StopWatchDone
  <2>16. CASE ShutdownDone(t)
    BY <2>16 DEF ShutdownDone
  <2> QED
    BY <1>2, <2>1, <2>2, <2>3, <2>4, <2>5, <2>6, <2>7, <2>8, <2>9, <2>10,
       <2>11, <2>12, <2>13, <2>14, <2>15, <2>16 DEF Step
<1>3. ASSUME NEW c \in Context, EditKubeconfig(c) PROVE TypeOK'
  BY <1>3 DEF EditKubeconfig, objects, calls, history
<1>4. CASE UNCHANGED vars
  BY <1>4 DEF vars, objects, calls, history
<1> QED
  BY <1>1, <1>2, <1>3, <1>4 DEF Next

\* Every step keeps the record of a call consistent with where it stands.
LEMMA CallNext == TypeOK /\ CallInv /\ [Next]_vars => CallInv'
<1> SUFFICES ASSUME TypeOK, CallInv, [Next]_vars PROVE CallInv'
  OBVIOUS
<1> USE ConstantsAssumption DEF TypeOK, CallInv, Goto, PC
<1>1. ASSUME NEW t \in Thread, BeginCall(t) PROVE CallInv'
  <2>1. ASSUME NEW c \in Context, NEW w \in Watcher, BeginWatch(t, c, w) PROVE CallInv'
    BY <2>1 DEF BeginWatch, Begin
  <2>2. ASSUME NEW c \in Context, NEW k \in Cache, BeginUse(t, c, k) PROVE CallInv'
    BY <2>2 DEF BeginUse, Begin, objects
  <2>3. ASSUME NEW c \in Context, BeginStopWatch(t, c) PROVE CallInv'
    BY <2>3 DEF BeginStopWatch, Begin, objects
  <2>4. ASSUME BeginShutdown(t) PROVE CallInv'
    BY <2>4 DEF BeginShutdown, objects, history
  <2> QED
    BY <1>1, <2>1, <2>2, <2>3, <2>4 DEF BeginCall
<1>2. ASSUME NEW t \in Thread, Step(t) PROVE CallInv'
  <2> USE DEF Return, objects, history
  <2>1. CASE Lookup(t)
    <3>1. CASE cache[source[t]][target[t]] = NoClient
      BY <2>1, <3>1 DEF Lookup
    <3>2. CASE cache[source[t]][target[t]] # NoClient /\ op[t] = "watch"
      BY <2>1, <3>2 DEF Lookup, HaveClient
    <3>3. CASE cache[source[t]][target[t]] # NoClient /\ op[t] # "watch"
      BY <2>1, <3>3 DEF Lookup, HaveClient
    <3> QED
      BY <3>1, <3>2, <3>3
  <2>2. CASE Load(t)
    BY <2>2 DEF Load
  <2>3. CASE Store(t)
    BY <2>3 DEF Store, HaveClient
  <2>4. CASE ClientError(t)
    BY <2>4 DEF ClientError
  <2>5. CASE Connect(t)
    BY <2>5 DEF Connect
  <2>6. CASE Existing(t)
    BY <2>6 DEF Existing
  <2>7. CASE StartOK(t)
    BY <2>7 DEF StartOK
  <2>8. CASE StartError(t)
    BY <2>8 DEF StartError
  <2>9. CASE Install(t)
    BY <2>9 DEF Install
  <2>10. CASE DropWatcher(t)
    BY <2>10 DEF DropWatcher, DropLeaving, Dropping, Entry
  <2>11. CASE InvalidateMetrics(t)
    BY <2>11 DEF InvalidateMetrics, Dropping
  <2>12. CASE Swap(t)
    BY <2>12 DEF Swap
  <2>13. CASE StopOne(t)
    BY <2>13 DEF StopOne
  <2>14. CASE OldStopped(t)
    BY <2>14 DEF OldStopped
  <2>15. CASE StopWatchDone(t)
    BY <2>15 DEF StopWatchDone
  <2>16. CASE ShutdownDone(t)
    BY <2>16 DEF ShutdownDone
  <2> QED
    BY <1>2, <2>1, <2>2, <2>3, <2>4, <2>5, <2>6, <2>7, <2>8, <2>9, <2>10,
       <2>11, <2>12, <2>13, <2>14, <2>15, <2>16 DEF Step
<1>3. ASSUME NEW c \in Context, EditKubeconfig(c) PROVE CallInv'
  BY <1>3 DEF EditKubeconfig, objects, calls, history
<1>4. CASE UNCHANGED vars
  BY <1>4 DEF vars, objects, calls, history
<1> QED
  BY <1>1, <1>2, <1>3, <1>4 DEF Next

\* No step shares the watcher a Watch builds with another call or the map.
LEMMA MineNext == TypeOK /\ CallInv /\ MineInv /\ DoomedInv /\ InstalledWasStarted /\ [Next]_vars => MineInv'
<1> SUFFICES ASSUME TypeOK, CallInv, MineInv, DoomedInv, InstalledWasStarted, [Next]_vars PROVE MineInv'
  OBVIOUS
<1> USE ConstantsAssumption DEF TypeOK, CallInv, MineInv, Goto, Cache
<1>1. ASSUME NEW t \in Thread, BeginCall(t) PROVE MineInv'
  <2>1. ASSUME NEW c \in Context, NEW w \in Watcher, BeginWatch(t, c, w) PROVE MineInv'
    <3>1. /\ wstate[w] = "unused"
          /\ pc[t] = "idle"
      BY <2>1 DEF BeginWatch, Begin
    <3>2. /\ \A u \in Thread : mine[u] # w /\ w \notin doomed[u]
          /\ \A b \in Context : watchers[b] # w
      BY <3>1 DEF DoomedInv, InstalledWasStarted
    <3> QED
      BY <2>1, <3>1, <3>2 DEF BeginWatch, Begin
  <2>2. ASSUME NEW c \in Context, NEW k \in Cache, BeginUse(t, c, k) PROVE MineInv'
    BY <2>2 DEF BeginUse, Begin, objects
  <2>3. ASSUME NEW c \in Context, BeginStopWatch(t, c) PROVE MineInv'
    BY <2>3 DEF BeginStopWatch, Begin, objects
  <2>4. ASSUME BeginShutdown(t) PROVE MineInv'
    BY <2>4 DEF BeginShutdown, objects, history
  <2> QED
    BY <1>1, <2>1, <2>2, <2>3, <2>4 DEF BeginCall
<1>2. ASSUME NEW t \in Thread, Step(t) PROVE MineInv'
  <2> USE DEF Return, objects, history
  <2>1. CASE Lookup(t)
    <3>1. CASE cache[source[t]][target[t]] = NoClient
      BY <2>1, <3>1 DEF Lookup
    <3>2. CASE cache[source[t]][target[t]] # NoClient /\ op[t] = "watch"
      BY <2>1, <3>2 DEF Lookup, HaveClient
    <3>3. CASE cache[source[t]][target[t]] # NoClient /\ op[t] # "watch"
      BY <2>1, <3>3 DEF Lookup, HaveClient
    <3> QED
      BY <3>1, <3>2, <3>3
  <2>2. CASE Load(t)
    BY <2>2 DEF Load
  <2>3. CASE Store(t)
    <3>1. CASE op[t] = "watch"
      BY <2>3, <3>1 DEF Store, HaveClient
    <3>2. CASE op[t] # "watch"
      BY <2>3, <3>2 DEF Store, HaveClient
    <3> QED
      BY <3>1, <3>2
  <2>4. CASE ClientError(t)
    BY <2>4 DEF ClientError
  <2>5. CASE Connect(t)
    BY <2>5 DEF Connect
  <2>6. CASE Existing(t)
    BY <2>6 DEF Existing
  <2>7. CASE StartOK(t)
    BY <2>7 DEF StartOK
  <2>8. CASE StartError(t)
    BY <2>8 DEF StartError
  <2>9. CASE Install(t)
    BY <2>9 DEF Install
  <2>10. CASE DropWatcher(t)
    BY <2>10 DEF DropWatcher, DropLeaving, Dropping, Entry
  <2>11. CASE InvalidateMetrics(t)
    BY <2>11 DEF InvalidateMetrics, Dropping
  <2>12. CASE Swap(t)
    BY <2>12 DEF Swap
  <2>13. CASE StopOne(t)
    BY <2>13 DEF StopOne
  <2>14. CASE OldStopped(t)
    BY <2>14 DEF OldStopped
  <2>15. CASE StopWatchDone(t)
    BY <2>15 DEF StopWatchDone
  <2>16. CASE ShutdownDone(t)
    BY <2>16 DEF ShutdownDone
  <2> QED
    BY <1>2, <2>1, <2>2, <2>3, <2>4, <2>5, <2>6, <2>7, <2>8, <2>9, <2>10,
       <2>11, <2>12, <2>13, <2>14, <2>15, <2>16 DEF Step
<1>3. ASSUME NEW c \in Context, EditKubeconfig(c) PROVE MineInv'
  BY <1>3 DEF EditKubeconfig, objects, calls, history
<1>4. CASE UNCHANGED vars
  BY <1>4 DEF vars, objects, calls, history
<1> QED
  BY <1>1, <1>2, <1>3, <1>4 DEF Next

\* No step makes a call answer for stopping a watcher still in the map, but a
\* Watch for its own context.
LEMMA DoomedNext == TypeOK /\ CallInv /\ MineInv /\ DoomedInv /\ InstalledWasStarted /\ [Next]_vars => DoomedInv'
<1> SUFFICES ASSUME TypeOK, CallInv, MineInv, DoomedInv, InstalledWasStarted, [Next]_vars PROVE DoomedInv'
  OBVIOUS
<1> USE ConstantsAssumption DEF TypeOK, CallInv, DoomedInv, Goto, Cache
<1>1. ASSUME NEW t \in Thread, BeginCall(t) PROVE DoomedInv'
  <2>1. ASSUME NEW c \in Context, NEW w \in Watcher, BeginWatch(t, c, w) PROVE DoomedInv'
    BY <2>1 DEF BeginWatch, Begin
  <2>2. ASSUME NEW c \in Context, NEW k \in Cache, BeginUse(t, c, k) PROVE DoomedInv'
    BY <2>2 DEF BeginUse, Begin, objects
  <2>3. ASSUME NEW c \in Context, BeginStopWatch(t, c) PROVE DoomedInv'
    BY <2>3 DEF BeginStopWatch, Begin, objects
  <2>4. ASSUME BeginShutdown(t) PROVE DoomedInv'
    BY <2>4 DEF BeginShutdown, objects, history
  <2> QED
    BY <1>1, <2>1, <2>2, <2>3, <2>4 DEF BeginCall
<1>2. ASSUME NEW t \in Thread, Step(t) PROVE DoomedInv'
  <2> USE DEF Return, objects, history
  <2>1. CASE Lookup(t)
    <3>1. CASE cache[source[t]][target[t]] = NoClient
      BY <2>1, <3>1 DEF Lookup
    <3>2. CASE cache[source[t]][target[t]] # NoClient /\ op[t] = "watch"
      BY <2>1, <3>2 DEF Lookup, HaveClient
    <3>3. CASE cache[source[t]][target[t]] # NoClient /\ op[t] # "watch"
      BY <2>1, <3>3 DEF Lookup, HaveClient
    <3> QED
      BY <3>1, <3>2, <3>3
  <2>2. CASE Load(t)
    BY <2>2 DEF Load
  <2>3. CASE Store(t)
    <3>1. CASE op[t] = "watch"
      BY <2>3, <3>1 DEF Store, HaveClient
    <3>2. CASE op[t] # "watch"
      BY <2>3, <3>2 DEF Store, HaveClient
    <3> QED
      BY <3>1, <3>2
  <2>4. CASE ClientError(t)
    BY <2>4 DEF ClientError, MineInv
  <2>5. CASE Connect(t)
    BY <2>5 DEF Connect
  <2>6. CASE Existing(t)
    BY <2>6 DEF Existing, InstalledWasStarted
  <2>7. CASE StartOK(t)
    BY <2>7 DEF StartOK
  <2>8. CASE StartError(t)
    BY <2>8 DEF StartError, MineInv
  <2>9. CASE Install(t)
    BY <2>9 DEF Install, MineInv
  <2>10. CASE DropWatcher(t)
    BY <2>10 DEF DropWatcher, DropLeaving, Dropping, Entry, InstalledWasStarted
  <2>11. CASE InvalidateMetrics(t)
    BY <2>11 DEF InvalidateMetrics, Dropping
  <2>12. CASE Swap(t)
    BY <2>12 DEF Swap, InstalledWasStarted
  <2>13. CASE StopOne(t)
    BY <2>13 DEF StopOne
  <2>14. CASE OldStopped(t)
    BY <2>14 DEF OldStopped
  <2>15. CASE StopWatchDone(t)
    BY <2>15 DEF StopWatchDone
  <2>16. CASE ShutdownDone(t)
    BY <2>16 DEF ShutdownDone
  <2> QED
    BY <1>2, <2>1, <2>2, <2>3, <2>4, <2>5, <2>6, <2>7, <2>8, <2>9, <2>10,
       <2>11, <2>12, <2>13, <2>14, <2>15, <2>16 DEF Step
<1>3. ASSUME NEW c \in Context, EditKubeconfig(c) PROVE DoomedInv'
  BY <1>3 DEF EditKubeconfig, objects, calls, history
<1>4. CASE UNCHANGED vars
  BY <1>4 DEF vars, objects, calls, history
<1> QED
  BY <1>1, <1>2, <1>3, <1>4 DEF Next

\* Only Install fills the map, with a watcher that runs.
LEMMA InstalledNext == TypeOK /\ CallInv /\ MineInv /\ DoomedInv /\ InstalledWasStarted /\ [Next]_vars => InstalledWasStarted'
<1> SUFFICES ASSUME TypeOK, CallInv, MineInv, DoomedInv, InstalledWasStarted, [Next]_vars PROVE InstalledWasStarted'
  OBVIOUS
<1> USE ConstantsAssumption DEF TypeOK, CallInv, InstalledWasStarted, Goto, Cache
<1>1. ASSUME NEW t \in Thread, BeginCall(t) PROVE InstalledWasStarted'
  <2>1. ASSUME NEW c \in Context, NEW w \in Watcher, BeginWatch(t, c, w) PROVE InstalledWasStarted'
    BY <2>1 DEF BeginWatch, Begin
  <2>2. ASSUME NEW c \in Context, NEW k \in Cache, BeginUse(t, c, k) PROVE InstalledWasStarted'
    BY <2>2 DEF BeginUse, Begin, objects
  <2>3. ASSUME NEW c \in Context, BeginStopWatch(t, c) PROVE InstalledWasStarted'
    BY <2>3 DEF BeginStopWatch, Begin, objects
  <2>4. ASSUME BeginShutdown(t) PROVE InstalledWasStarted'
    BY <2>4 DEF BeginShutdown, objects, history
  <2> QED
    BY <1>1, <2>1, <2>2, <2>3, <2>4 DEF BeginCall
<1>2. ASSUME NEW t \in Thread, Step(t) PROVE InstalledWasStarted'
  <2> USE DEF Return, objects, history
  <2>1. CASE Lookup(t)
    <3>1. CASE cache[source[t]][target[t]] = NoClient
      BY <2>1, <3>1 DEF Lookup
    <3>2. CASE cache[source[t]][target[t]] # NoClient /\ op[t] = "watch"
      BY <2>1, <3>2 DEF Lookup, HaveClient
    <3>3. CASE cache[source[t]][target[t]] # NoClient /\ op[t] # "watch"
      BY <2>1, <3>3 DEF Lookup, HaveClient
    <3> QED
      BY <3>1, <3>2, <3>3
  <2>2. CASE Load(t)
    BY <2>2 DEF Load
  <2>3. CASE Store(t)
    <3>1. CASE op[t] = "watch"
      BY <2>3, <3>1 DEF Store, HaveClient
    <3>2. CASE op[t] # "watch"
      BY <2>3, <3>2 DEF Store, HaveClient
    <3> QED
      BY <3>1, <3>2
  <2>4. CASE ClientError(t)
    BY <2>4 DEF ClientError, MineInv
  <2>5. CASE Connect(t)
    BY <2>5 DEF Connect
  <2>6. CASE Existing(t)
    BY <2>6 DEF Existing
  <2>7. CASE StartOK(t)
    BY <2>7 DEF StartOK
  <2>8. CASE StartError(t)
    BY <2>8 DEF StartError, MineInv
  <2>9. CASE Install(t)
    BY <2>9 DEF Install, MineInv
  <2>10. CASE DropWatcher(t)
    BY <2>10 DEF DropWatcher, DropLeaving, Dropping, Entry
  <2>11. CASE InvalidateMetrics(t)
    BY <2>11 DEF InvalidateMetrics, Dropping
  <2>12. CASE Swap(t)
    BY <2>12 DEF Swap
  <2>13. CASE StopOne(t)
    BY <2>13 DEF StopOne
  <2>14. CASE OldStopped(t)
    BY <2>14 DEF OldStopped
  <2>15. CASE StopWatchDone(t)
    BY <2>15 DEF StopWatchDone
  <2>16. CASE ShutdownDone(t)
    BY <2>16 DEF ShutdownDone
  <2> QED
    BY <1>2, <2>1, <2>2, <2>3, <2>4, <2>5, <2>6, <2>7, <2>8, <2>9, <2>10,
       <2>11, <2>12, <2>13, <2>14, <2>15, <2>16 DEF Step
<1>3. ASSUME NEW c \in Context, EditKubeconfig(c) PROVE InstalledWasStarted'
  BY <1>3 DEF EditKubeconfig, objects, calls, history
<1>4. CASE UNCHANGED vars
  BY <1>4 DEF vars, objects, calls, history
<1> QED
  BY <1>1, <1>2, <1>3, <1>4 DEF Next

\* Without overlapping Watch calls, nothing live appears in the map between the
\* check of Watch and its write.
LEMMA ReplaceNext == TypeOK /\ CallInv /\ MineInv /\ DoomedInv /\ InstalledWasStarted /\ ReplaceInv /\ [Next]_vars => ReplaceInv'
<1> SUFFICES ASSUME TypeOK, CallInv, MineInv, DoomedInv, InstalledWasStarted, ReplaceInv, [Next]_vars PROVE ReplaceInv'
  OBVIOUS
<1> USE ConstantsAssumption DEF TypeOK, CallInv, ReplaceInv, InWatch, Goto, Cache
<1>1. ASSUME NEW t \in Thread, BeginCall(t) PROVE ReplaceInv'
  <2>1. ASSUME NEW c \in Context, NEW w \in Watcher, BeginWatch(t, c, w) PROVE ReplaceInv'
    BY <2>1 DEF BeginWatch, Begin
  <2>2. ASSUME NEW c \in Context, NEW k \in Cache, BeginUse(t, c, k) PROVE ReplaceInv'
    BY <2>2 DEF BeginUse, Begin, objects
  <2>3. ASSUME NEW c \in Context, BeginStopWatch(t, c) PROVE ReplaceInv'
    BY <2>3 DEF BeginStopWatch, Begin, objects
  <2>4. ASSUME BeginShutdown(t) PROVE ReplaceInv'
    BY <2>4 DEF BeginShutdown, objects, history
  <2> QED
    BY <1>1, <2>1, <2>2, <2>3, <2>4 DEF BeginCall
<1>2. ASSUME NEW t \in Thread, Step(t) PROVE ReplaceInv'
  <2> USE DEF Return, objects, history
  <2>1. CASE Lookup(t)
    <3>1. CASE cache[source[t]][target[t]] = NoClient
      BY <2>1, <3>1 DEF Lookup
    <3>2. CASE cache[source[t]][target[t]] # NoClient /\ op[t] = "watch"
      BY <2>1, <3>2 DEF Lookup, HaveClient
    <3>3. CASE cache[source[t]][target[t]] # NoClient /\ op[t] # "watch"
      <4>1. /\ Return(t)
            /\ UNCHANGED <<watchers, wstate, overlapped>>
        BY <2>1, <3>3 DEF Lookup, HaveClient
      <4> QED
        BY <3>3, <4>1
    <3> QED
      BY <3>1, <3>2, <3>3
  <2>2. CASE Load(t)
    BY <2>2 DEF Load
  <2>3. CASE Store(t)
    <3>1. CASE op[t] = "watch"
      BY <2>3, <3>1 DEF Store, HaveClient
    <3>2. CASE op[t] # "watch"
      <4>1. /\ Return(t)
            /\ UNCHANGED <<watchers, wstate, overlapped>>
        BY <2>3, <3>2 DEF Store, HaveClient
      <4> QED
        BY <3>2, <4>1
    <3> QED
      BY <3>1, <3>2
  <2>4. CASE ClientError(t)
    BY <2>4 DEF ClientError, MineInv
  <2>5. CASE Connect(t)
    BY <2>5 DEF Connect
  <2>6. CASE Existing(t)
    BY <2>6 DEF Existing
  <2>7. CASE StartOK(t)
    BY <2>7 DEF StartOK, MineInv
  <2>8. CASE StartError(t)
    BY <2>8 DEF StartError, MineInv
  <2>9. CASE Install(t)
    BY <2>9 DEF Install
  <2>10. CASE DropWatcher(t)
    BY <2>10 DEF DropWatcher, DropLeaving, Dropping, Entry
  <2>11. CASE InvalidateMetrics(t)
    BY <2>11 DEF InvalidateMetrics, Dropping
  <2>12. CASE Swap(t)
    BY <2>12 DEF Swap
  <2>13. CASE StopOne(t)
    BY <2>13 DEF StopOne
  <2>14. CASE OldStopped(t)
    BY <2>14 DEF OldStopped
  <2>15. CASE StopWatchDone(t)
    BY <2>15 DEF StopWatchDone
  <2>16. CASE ShutdownDone(t)
    BY <2>16 DEF ShutdownDone
  <2> QED
    BY <1>2, <2>1, <2>2, <2>3, <2>4, <2>5, <2>6, <2>7, <2>8, <2>9, <2>10,
       <2>11, <2>12, <2>13, <2>14, <2>15, <2>16 DEF Step
<1>3. ASSUME NEW c \in Context, EditKubeconfig(c) PROVE ReplaceInv'
  BY <1>3 DEF EditKubeconfig, objects, calls, history
<1>4. CASE UNCHANGED vars
  BY <1>4 DEF vars, objects, calls, history
<1> QED
  BY <1>1, <1>2, <1>3, <1>4 DEF Next

\* A step loses a running watcher only where Watch calls overlapped.
LEMMA LeakNext == TypeOK /\ CallInv /\ MineInv /\ DoomedInv /\ InstalledWasStarted /\ ReplaceInv /\ LeakOnlyByOverlap /\ [Next]_vars => LeakOnlyByOverlap'
<1> SUFFICES ASSUME TypeOK, CallInv, MineInv, DoomedInv, InstalledWasStarted, ReplaceInv, LeakOnlyByOverlap, [Next]_vars PROVE LeakOnlyByOverlap'
  OBVIOUS
<1> USE ConstantsAssumption DEF TypeOK, CallInv, LeakOnlyByOverlap, Accounted, Goto, Cache
<1>1. ASSUME NEW t \in Thread, BeginCall(t) PROVE LeakOnlyByOverlap'
  <2>1. ASSUME NEW c \in Context, NEW w \in Watcher, BeginWatch(t, c, w) PROVE LeakOnlyByOverlap'
    BY <2>1 DEF BeginWatch, Begin
  <2>2. ASSUME NEW c \in Context, NEW k \in Cache, BeginUse(t, c, k) PROVE LeakOnlyByOverlap'
    BY <2>2 DEF BeginUse, Begin, objects
  <2>3. ASSUME NEW c \in Context, BeginStopWatch(t, c) PROVE LeakOnlyByOverlap'
    BY <2>3 DEF BeginStopWatch, Begin, objects
  <2>4. ASSUME BeginShutdown(t) PROVE LeakOnlyByOverlap'
    BY <2>4 DEF BeginShutdown, objects, history
  <2> QED
    BY <1>1, <2>1, <2>2, <2>3, <2>4 DEF BeginCall
<1>2. ASSUME NEW t \in Thread, Step(t) PROVE LeakOnlyByOverlap'
  <2> USE DEF Return, objects, history
  <2>1. CASE Lookup(t)
    <3>1. CASE cache[source[t]][target[t]] = NoClient
      BY <2>1, <3>1 DEF Lookup
    <3>2. CASE cache[source[t]][target[t]] # NoClient /\ op[t] = "watch"
      BY <2>1, <3>2 DEF Lookup, HaveClient
    <3>3. CASE cache[source[t]][target[t]] # NoClient /\ op[t] # "watch"
      BY <2>1, <3>3 DEF Lookup, HaveClient
    <3> QED
      BY <3>1, <3>2, <3>3
  <2>2. CASE Load(t)
    BY <2>2 DEF Load
  <2>3. CASE Store(t)
    <3>1. CASE op[t] = "watch"
      BY <2>3, <3>1 DEF Store, HaveClient
    <3>2. CASE op[t] # "watch"
      BY <2>3, <3>2 DEF Store, HaveClient
    <3> QED
      BY <3>1, <3>2
  <2>4. CASE ClientError(t)
    BY <2>4 DEF ClientError
  <2>5. CASE Connect(t)
    BY <2>5 DEF Connect
  <2>6. CASE Existing(t)
    BY <2>6 DEF Existing
  <2>7. CASE StartOK(t)
    BY <2>7 DEF StartOK
  <2>8. CASE StartError(t)
    BY <2>8 DEF StartError
  <2>9. CASE Install(t)
    <3> SUFFICES ASSUME NEW w \in Watcher, wstate[w] = "running", wctx[w] \notin overlapped
                 PROVE  Accounted(w)'
      BY <2>9 DEF Install
    <3> DEFINE c == target[t]
    <3>1. /\ op[t] = "watch" /\ c \in Context /\ mine[t] # NoWatcher
          /\ watchers' = [watchers EXCEPT ![c] = mine[t]]
          /\ doomed[t] = {}
      BY <2>9 DEF Install
    <3>2. watchers[c] # w
      <4> SUFFICES ASSUME watchers[c] = w PROVE FALSE
        OBVIOUS
      <4>1. w # NoWatcher /\ wctx[w] = c
        BY <3>1 DEF InstalledWasStarted
      <4>2. wstate[watchers[c]] = "stopped"
        BY <2>9, <3>1, <4>1 DEF ReplaceInv, InWatch, Install
      <4> QED
        BY <4>2
    <3>3. CASE w = mine[t]
      BY <3>1, <3>3
    <3>4. CASE w # mine[t]
      <4>1. CASE \E b \in Context : watchers[b] = w
        BY <3>1, <3>2, <4>1
      <4>2. CASE \E u \in Thread : w \in doomed[u] \/ mine[u] = w
        BY <2>9, <3>1, <3>4, <4>2 DEF Install
      <4> QED
        BY <4>1, <4>2
    <3> QED
      BY <3>3, <3>4
  <2>10. CASE DropWatcher(t)
    BY <2>10 DEF DropWatcher, DropLeaving, Dropping, Entry
  <2>11. CASE InvalidateMetrics(t)
    BY <2>11 DEF InvalidateMetrics, Dropping
  <2>12. CASE Swap(t)
    BY <2>12 DEF Swap
  <2>13. CASE StopOne(t)
    BY <2>13 DEF StopOne
  <2>14. CASE OldStopped(t)
    BY <2>14 DEF OldStopped
  <2>15. CASE StopWatchDone(t)
    BY <2>15 DEF StopWatchDone
  <2>16. CASE ShutdownDone(t)
    BY <2>16 DEF ShutdownDone
  <2> QED
    BY <1>2, <2>1, <2>2, <2>3, <2>4, <2>5, <2>6, <2>7, <2>8, <2>9, <2>10,
       <2>11, <2>12, <2>13, <2>14, <2>15, <2>16 DEF Step
<1>3. ASSUME NEW c \in Context, EditKubeconfig(c) PROVE LeakOnlyByOverlap'
  BY <1>3 DEF EditKubeconfig, objects, calls, history
<1>4. CASE UNCHANGED vars
  BY <1>4 DEF vars, objects, calls, history
<1> QED
  BY <1>1, <1>2, <1>3, <1>4 DEF Next

\* A step leaves a stopped watcher in the map only inside, or after a failed,
\* restart.
LEMMA FrozenNext == TypeOK /\ CallInv /\ MineInv /\ DoomedInv /\ InstalledWasStarted /\ FrozenOnlyByRestart /\ [Next]_vars => FrozenOnlyByRestart'
<1> SUFFICES ASSUME TypeOK, CallInv, MineInv, DoomedInv, InstalledWasStarted, FrozenOnlyByRestart, [Next]_vars PROVE FrozenOnlyByRestart'
  OBVIOUS
<1> USE ConstantsAssumption DEF TypeOK, CallInv, FrozenOnlyByRestart, InWatch, Goto, Cache
<1>1. ASSUME NEW t \in Thread, BeginCall(t) PROVE FrozenOnlyByRestart'
  <2>1. ASSUME NEW c \in Context, NEW w \in Watcher, BeginWatch(t, c, w) PROVE FrozenOnlyByRestart'
    BY <2>1 DEF BeginWatch, Begin
  <2>2. ASSUME NEW c \in Context, NEW k \in Cache, BeginUse(t, c, k) PROVE FrozenOnlyByRestart'
    BY <2>2 DEF BeginUse, Begin, objects
  <2>3. ASSUME NEW c \in Context, BeginStopWatch(t, c) PROVE FrozenOnlyByRestart'
    BY <2>3 DEF BeginStopWatch, Begin, objects
  <2>4. ASSUME BeginShutdown(t) PROVE FrozenOnlyByRestart'
    BY <2>4 DEF BeginShutdown, objects, history
  <2> QED
    BY <1>1, <2>1, <2>2, <2>3, <2>4 DEF BeginCall
<1>2. ASSUME NEW t \in Thread, Step(t) PROVE FrozenOnlyByRestart'
  <2> USE DEF Return, objects, history
  <2>1. CASE Lookup(t)
    <3>1. CASE cache[source[t]][target[t]] = NoClient
      BY <2>1, <3>1 DEF Lookup
    <3>2. CASE cache[source[t]][target[t]] # NoClient /\ op[t] = "watch"
      BY <2>1, <3>2 DEF Lookup, HaveClient
    <3>3. CASE cache[source[t]][target[t]] # NoClient /\ op[t] # "watch"
      BY <2>1, <3>3 DEF Lookup, HaveClient
    <3> QED
      BY <3>1, <3>2, <3>3
  <2>2. CASE Load(t)
    BY <2>2 DEF Load
  <2>3. CASE Store(t)
    <3>1. CASE op[t] = "watch"
      BY <2>3, <3>1 DEF Store, HaveClient
    <3>2. CASE op[t] # "watch"
      BY <2>3, <3>2 DEF Store, HaveClient
    <3> QED
      BY <3>1, <3>2
  <2>4. CASE ClientError(t)
    BY <2>4 DEF ClientError
  <2>5. CASE Connect(t)
    BY <2>5 DEF Connect
  <2>6. CASE Existing(t)
    BY <2>6 DEF Existing
  <2>7. CASE StartOK(t)
    BY <2>7 DEF StartOK
  <2>8. CASE StartError(t)
    BY <2>8 DEF StartError
  <2>9. CASE Install(t)
    BY <2>9 DEF Install, MineInv
  <2>10. CASE DropWatcher(t)
    BY <2>10 DEF DropWatcher, DropLeaving, Dropping, Entry
  <2>11. CASE InvalidateMetrics(t)
    BY <2>11 DEF InvalidateMetrics, Dropping
  <2>12. CASE Swap(t)
    BY <2>12 DEF Swap
  <2>13. CASE StopOne(t)
    BY <2>13 DEF StopOne, DoomedInv, InstalledWasStarted
  <2>14. CASE OldStopped(t)
    BY <2>14 DEF OldStopped
  <2>15. CASE StopWatchDone(t)
    BY <2>15 DEF StopWatchDone
  <2>16. CASE ShutdownDone(t)
    BY <2>16 DEF ShutdownDone
  <2> QED
    BY <1>2, <2>1, <2>2, <2>3, <2>4, <2>5, <2>6, <2>7, <2>8, <2>9, <2>10,
       <2>11, <2>12, <2>13, <2>14, <2>15, <2>16 DEF Step
<1>3. ASSUME NEW c \in Context, EditKubeconfig(c) PROVE FrozenOnlyByRestart'
  BY <1>3 DEF EditKubeconfig, objects, calls, history
<1>4. CASE UNCHANGED vars
  BY <1>4 DEF vars, objects, calls, history
<1> QED
  BY <1>1, <1>2, <1>3, <1>4 DEF Next

\* A client between load and store is as new as the last drop, or that drop
\* saw the call.
LEMMA CacheNext == TypeOK /\ CallInv /\ CacheInv /\ [Next]_vars => CacheInv'
<1> SUFFICES ASSUME TypeOK, CallInv, CacheInv, [Next]_vars PROVE CacheInv'
  OBVIOUS
<1> USE ConstantsAssumption DEF TypeOK, CallInv, CacheInv, Goto, Cache, Gen
<1>1. ASSUME NEW t \in Thread, BeginCall(t) PROVE CacheInv'
  <2>1. ASSUME NEW c \in Context, NEW w \in Watcher, BeginWatch(t, c, w) PROVE CacheInv'
    BY <2>1 DEF BeginWatch, Begin
  <2>2. ASSUME NEW c \in Context, NEW k \in Cache, BeginUse(t, c, k) PROVE CacheInv'
    BY <2>2 DEF BeginUse, Begin, objects
  <2>3. ASSUME NEW c \in Context, BeginStopWatch(t, c) PROVE CacheInv'
    BY <2>3 DEF BeginStopWatch, Begin, objects
  <2>4. ASSUME BeginShutdown(t) PROVE CacheInv'
    BY <2>4 DEF BeginShutdown, objects, history
  <2> HIDE DEF TypeOK, CallInv, CacheInv
  <2> QED
    BY <1>1, <2>1, <2>2, <2>3, <2>4 DEF BeginCall
<1>2. ASSUME NEW t \in Thread, Step(t) PROVE CacheInv'
  <2> USE DEF Return, objects, history
  <2>1. CASE Lookup(t)
    <3>1. CASE cache[source[t]][target[t]] = NoClient
      BY <2>1, <3>1 DEF Lookup
    <3>2. CASE cache[source[t]][target[t]] # NoClient /\ op[t] = "watch"
      BY <2>1, <3>2 DEF Lookup, HaveClient
    <3>3. CASE cache[source[t]][target[t]] # NoClient /\ op[t] # "watch"
      BY <2>1, <3>3 DEF Lookup, HaveClient
    <3> QED
      BY <3>1, <3>2, <3>3
  <2>2. CASE Load(t)
    BY <2>2 DEF Load
  <2>3. CASE Store(t)
    <3>1. CASE op[t] = "watch"
      BY <2>3, <3>1 DEF Store, HaveClient
    <3>2. CASE op[t] # "watch"
      BY <2>3, <3>2 DEF Store, HaveClient
    <3> QED
      BY <3>1, <3>2
  <2>4. CASE ClientError(t)
    BY <2>4 DEF ClientError
  <2>5. CASE Connect(t)
    BY <2>5 DEF Connect
  <2>6. CASE Existing(t)
    BY <2>6 DEF Existing
  <2>7. CASE StartOK(t)
    BY <2>7 DEF StartOK
  <2>8. CASE StartError(t)
    BY <2>8 DEF StartError
  <2>9. CASE Install(t)
    BY <2>9 DEF Install
  <2>10. CASE DropWatcher(t)
    BY <2>10 DEF DropWatcher, DropLeaving, Dropping, Entry
  <2>11. CASE InvalidateMetrics(t)
    BY <2>11 DEF InvalidateMetrics, Dropping
  <2>12. CASE Swap(t)
    BY <2>12 DEF Swap
  <2>13. CASE StopOne(t)
    BY <2>13 DEF StopOne
  <2>14. CASE OldStopped(t)
    BY <2>14 DEF OldStopped
  <2>15. CASE StopWatchDone(t)
    BY <2>15 DEF StopWatchDone
  <2>16. CASE ShutdownDone(t)
    BY <2>16 DEF ShutdownDone
  <2> QED
    BY <1>2, <2>1, <2>2, <2>3, <2>4, <2>5, <2>6, <2>7, <2>8, <2>9, <2>10,
       <2>11, <2>12, <2>13, <2>14, <2>15, <2>16 DEF Step
<1>3. ASSUME NEW c \in Context, EditKubeconfig(c) PROVE CacheInv'
  BY <1>3 DEF EditKubeconfig, objects, calls, history
<1>4. CASE UNCHANGED vars
  BY <1>4 DEF vars, objects, calls, history
<1> QED
  BY <1>1, <1>2, <1>3, <1>4 DEF Next

\* A step caches a client older than the last drop only across that drop.
LEMMA StaleNext == TypeOK /\ CallInv /\ CacheInv /\ StaleOnlyByRace /\ [Next]_vars => StaleOnlyByRace'
<1> SUFFICES ASSUME TypeOK, CallInv, CacheInv, StaleOnlyByRace, [Next]_vars PROVE StaleOnlyByRace'
  OBVIOUS
<1> USE ConstantsAssumption DEF TypeOK, CallInv, StaleOnlyByRace, Goto, Cache, Gen
<1>1. ASSUME NEW t \in Thread, BeginCall(t) PROVE StaleOnlyByRace'
  <2>1. ASSUME NEW c \in Context, NEW w \in Watcher, BeginWatch(t, c, w) PROVE StaleOnlyByRace'
    BY <2>1 DEF BeginWatch, Begin
  <2>2. ASSUME NEW c \in Context, NEW k \in Cache, BeginUse(t, c, k) PROVE StaleOnlyByRace'
    BY <2>2 DEF BeginUse, Begin, objects
  <2>3. ASSUME NEW c \in Context, BeginStopWatch(t, c) PROVE StaleOnlyByRace'
    BY <2>3 DEF BeginStopWatch, Begin, objects
  <2>4. ASSUME BeginShutdown(t) PROVE StaleOnlyByRace'
    BY <2>4 DEF BeginShutdown, objects, history
  <2> QED
    BY <1>1, <2>1, <2>2, <2>3, <2>4 DEF BeginCall
<1>2. ASSUME NEW t \in Thread, Step(t) PROVE StaleOnlyByRace'
  <2> USE DEF Return, objects, history
  <2>1. CASE Lookup(t)
    <3>1. CASE cache[source[t]][target[t]] = NoClient
      BY <2>1, <3>1 DEF Lookup
    <3>2. CASE cache[source[t]][target[t]] # NoClient /\ op[t] = "watch"
      BY <2>1, <3>2 DEF Lookup, HaveClient
    <3>3. CASE cache[source[t]][target[t]] # NoClient /\ op[t] # "watch"
      BY <2>1, <3>3 DEF Lookup, HaveClient
    <3> QED
      BY <3>1, <3>2, <3>3
  <2>2. CASE Load(t)
    BY <2>2 DEF Load
  <2>3. CASE Store(t)
    <3>1. /\ UNCHANGED <<dropGen, raced>>
          /\ cache' = [cache EXCEPT ![source[t]][target[t]] = gen[t]]
          /\ gen[t] < dropGen[source[t]][target[t]] => <<source[t], target[t]>> \in raced
      BY <2>3 DEF Store, CacheInv
    <3>2. source[t] \in Cache /\ target[t] \in Context
      BY <2>3 DEF Store
    <3> QED
      BY <3>1, <3>2
  <2>4. CASE ClientError(t)
    BY <2>4 DEF ClientError
  <2>5. CASE Connect(t)
    BY <2>5 DEF Connect
  <2>6. CASE Existing(t)
    BY <2>6 DEF Existing
  <2>7. CASE StartOK(t)
    BY <2>7 DEF StartOK
  <2>8. CASE StartError(t)
    BY <2>8 DEF StartError
  <2>9. CASE Install(t)
    BY <2>9 DEF Install
  <2>10. CASE DropWatcher(t)
    BY <2>10 DEF DropWatcher, DropLeaving, Dropping, Entry
  <2>11. CASE InvalidateMetrics(t)
    BY <2>11 DEF InvalidateMetrics, Dropping
  <2>12. CASE Swap(t)
    BY <2>12 DEF Swap
  <2>13. CASE StopOne(t)
    BY <2>13 DEF StopOne
  <2>14. CASE OldStopped(t)
    BY <2>14 DEF OldStopped
  <2>15. CASE StopWatchDone(t)
    BY <2>15 DEF StopWatchDone
  <2>16. CASE ShutdownDone(t)
    BY <2>16 DEF ShutdownDone
  <2> QED
    BY <1>2, <2>1, <2>2, <2>3, <2>4, <2>5, <2>6, <2>7, <2>8, <2>9, <2>10,
       <2>11, <2>12, <2>13, <2>14, <2>15, <2>16 DEF Step
<1>3. ASSUME NEW c \in Context, EditKubeconfig(c) PROVE StaleOnlyByRace'
  BY <1>3 DEF EditKubeconfig, objects, calls, history
<1>4. CASE UNCHANGED vars
  BY <1>4 DEF vars, objects, calls, history
<1> QED
  BY <1>1, <1>2, <1>3, <1>4 DEF Next

-----------------------------------------------------------------------------
\* The inductive invariant holds initially.
LEMMA InvInit == Init => IInv
<1> SUFFICES ASSUME Init PROVE IInv
  OBVIOUS
<1>1. TypeOK /\ CallInv
  BY TypeInit
<1>2. MineInv /\ DoomedInv /\ InstalledWasStarted /\ FrozenOnlyByRestart
  BY DEF Init, MineInv, DoomedInv, InstalledWasStarted, FrozenOnlyByRestart
<1>3. ReplaceInv
  BY DEF Init, ReplaceInv, InWatch
<1>4. LeakOnlyByOverlap
  BY DEF Init, LeakOnlyByOverlap
<1>5. CacheInv
  BY DEF Init, CacheInv
<1>6. StaleOnlyByRace
  BY DEF Init, StaleOnlyByRace
<1> QED
  BY <1>1, <1>2, <1>3, <1>4, <1>5, <1>6 DEF IInv

\* Every step preserves the inductive invariant.
LEMMA InvNext == IInv /\ [Next]_vars => IInv'
BY TypeNext, CallNext, MineNext, DoomedNext, InstalledNext, ReplaceNext, LeakNext,
   FrozenNext, CacheNext, StaleNext DEF IInv

\* IInv, the inductive invariant behind every theorem below.
THEOREM Invariance == Spec => []IInv
BY InvInit, InvNext, PTL DEF Spec

\* Every variable keeps its type: in particular StopWatch never holds a nil
\* watcher, and Clientset never stores a client that was not built.
THEOREM TypeCorrect == Spec => []TypeOK
<1>1. IInv => TypeOK
  BY DEF IInv
<1> QED
  BY <1>1, Invariance, PTL

\* Readers of the watchers map never see a watcher whose start() has not
\* returned nil, nor one built for another context.
THEOREM InstalledTheorem == Spec => []InstalledWasStarted
<1>1. IInv => InstalledWasStarted
  BY DEF IInv
<1> QED
  BY <1>1, Invariance, PTL

\* Whatever calls interleave, a running watcher is unaccounted for only on a
\* context on which two Watch calls overlapped.
THEOREM LeakTheorem == Spec => []LeakOnlyByOverlap
<1>1. IInv => LeakOnlyByOverlap
  BY DEF IInv
<1> QED
  BY <1>1, Invariance, PTL

\* A stopped watcher stays in the map only during, or after a failed, restart.
THEOREM FrozenTheorem == Spec => []FrozenOnlyByRestart
<1>1. IInv => FrozenOnlyByRestart
  BY DEF IInv
<1> QED
  BY <1>1, Invariance, PTL

\* A cached client is older than the last invalidation only if a call was
\* between its load and its store at that moment.
THEOREM StaleTheorem == Spec => []StaleOnlyByRace
<1>1. IInv => StaleOnlyByRace
  BY DEF IInv
<1> QED
  BY <1>1, Invariance, PTL

\* What a Watch overwrites in the map has been stopped, unless Watch calls
\* overlapped on the context.
THEOREM OverwriteTheorem == Spec => OverwritesOnlyDead
<1> DEFINE Safe == \A c \in Context :
                     /\ watchers[c] # NoWatcher
                     /\ watchers'[c] \notin {NoWatcher, watchers[c]}
                     /\ c \notin overlapped
                     => wstate[watchers[c]] = "stopped"
<1>1. IInv /\ [Next]_vars => [Safe]_vars
  <2> SUFFICES ASSUME IInv, [Next]_vars PROVE [Safe]_vars
    OBVIOUS
  <2>1. ASSUME NEW t \in Thread, Install(t) PROVE Safe
    BY <2>1 DEF IInv, TypeOK, CallInv, ReplaceInv, InWatch, Install
  <2>2. CASE \E c \in Context : watchers' = [watchers EXCEPT ![c] = NoWatcher]
    BY <2>2 DEF IInv, TypeOK
  <2>3. CASE watchers' = [c \in Context |-> NoWatcher]
    BY <2>3
  <2>4. CASE watchers' = watchers
    BY <2>4
  <2>5. ASSUME NEW t \in Thread, BeginCall(t) PROVE watchers' = watchers
    BY <2>5 DEF BeginCall, BeginWatch, BeginUse, BeginStopWatch, BeginShutdown, Begin
  <2>6. ASSUME NEW t \in Thread, DropWatcher(t)
        PROVE \E c \in Context : watchers' = [watchers EXCEPT ![c] = NoWatcher]
    BY <2>6 DEF IInv, CallInv, DropWatcher, DropLeaving
  <2>7. ASSUME NEW t \in Thread, Step(t), ~Install(t), ~DropWatcher(t), ~Swap(t)
        PROVE watchers' = watchers
    BY <2>7 DEF Step, Lookup, Load, Store, ClientError, Connect, Existing, StartOK,
       StartError, InvalidateMetrics, StopOne, OldStopped, StopWatchDone, ShutdownDone
  <2>8. ASSUME NEW c \in Context, EditKubeconfig(c) PROVE watchers' = watchers
    BY <2>8 DEF EditKubeconfig
  <2>9. ASSUME NEW t \in Thread, Swap(t) PROVE watchers' = [c \in Context |-> NoWatcher]
    BY <2>9 DEF Swap
  <2> QED
    BY <2>1, <2>2, <2>3, <2>4, <2>5, <2>6, <2>7, <2>8, <2>9 DEF Next, vars
<1> QED
  BY <1>1, Invariance, PTL DEF Spec, OverwritesOnlyDead

=============================================================================
