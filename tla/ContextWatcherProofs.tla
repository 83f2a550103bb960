------------------------ MODULE ContextWatcherProofs ------------------------
(***************************************************************************)
(* What holds of one contextWatcher for any set of kinds, any access and    *)
(* any number of overlapping flushes: its invariants, what stop() drains,  *)
(* and that it implements ChangeNotice (safety).                           *)
(***************************************************************************)
EXTENDS ContextWatcher, TLAPS

\* The initial state is well typed.
LEMMA TypeInit == Init => TypeOK
BY SetsAssumption DEF Init, TypeOK, Mode

\* Every step of the watcher keeps its state well typed.
LEMMA TypeNext == TypeOK /\ [Next]_vars => TypeOK'
<1> SUFFICES ASSUME TypeOK, [Next]_vars PROVE TypeOK'
  OBVIOUS
<1> USE SetsAssumption DEF TypeOK, queue, setup
<1>1. CASE Discover
  <2>1. \A k \in Listed : "unknown" \notin ProbeOutcomes(k)
    BY DEF ProbeOutcomes
  <2>2. access' \in [Kind -> Mode] /\ \A k \in Listed : access'[k] # "unknown"
    BY <1>1, <2>1 DEF Discover
  <2> QED BY <1>1, <2>2 DEF Discover
<1>2. CASE StartFactories
  BY <1>2 DEF StartFactories
<1>2a. ASSUME NEW g \in Group, OpenGroup(g) PROVE TypeOK'
  <2>1. PICK open \in Opens(g) :
          IF open
          THEN /\ informer' = [k \in Kind |-> IF k \in g THEN "started" ELSE informer[k]]
               /\ ownWaiting' = ownWaiting \cup g
          ELSE UNCHANGED <<informer, ownWaiting>>
    BY <1>2a DEF OpenGroup
  <2> QED BY <1>2a, <2>1 DEF OpenGroup
<1>3. CASE StartFails
  BY <1>3 DEF StartFails
<1>4. ASSUME NEW k \in Kind, Event(k) PROVE TypeOK'
  BY <1>4 DEF Event, Touch
<1>5. ASSUME NEW k \in Kind, CacheSynced(k) PROVE TypeOK'
  BY <1>5 DEF CacheSynced
<1>6. CASE WaitCluster
  BY <1>6 DEF WaitCluster
<1>7. CASE WaitScoped
  BY <1>7 DEF WaitScoped
<1>8. ASSUME NEW k \in Kind, AnnounceKind(k) PROVE TypeOK'
  BY <1>8 DEF AnnounceKind, Touch
<1>9. ASSUME NEW k \in Kind, WaitOwn(k) PROVE TypeOK'
  BY <1>9 DEF WaitOwn, Touch
<1>10. CASE TimerFires
  BY <1>10 DEF TimerFires
<1>11. ASSUME NEW f \in Flusher, Flush(f) PROVE TypeOK'
  BY <1>11 DEF Flush
<1>12. ASSUME NEW f \in Flusher, NEW k \in Kind, Deliver(f, k) PROVE TypeOK'
  BY <1>12 DEF Deliver
<1>13. CASE Cancel
  BY <1>13 DEF Cancel
<1>14. CASE MarkStopped
  BY <1>14 DEF MarkStopped
<1>15. CASE UNCHANGED vars
  BY <1>15 DEF vars
<1> QED
  BY <1>1, <1>2, <1>2a, <1>3, <1>4, <1>5, <1>6, <1>7, <1>8, <1>9, <1>10, <1>11,
     <1>12, <1>13, <1>14, <1>15 DEF Next

\* The state of contextWatcher is always well typed, and after discovery no
\* kind of the table is left without a routing decision.
THEOREM TypeCorrect == Spec => []TypeOK
BY TypeInit, TypeNext, PTL DEF Spec

-----------------------------------------------------------------------------
(* The debounced queue.                                                     *)

\* What makes the queue's properties inductive: a stopped watcher's queue is
\* empty for good and its timer nil, and a fired timer is only cleared by the
\* flush it started.
QueueInv ==
    /\ WakeupNotLost
    /\ stopped => pending = {} /\ timer = "nil"
    /\ timer = "fired" => firing

\* touch() keeps the queue's invariant, wherever it is called from.
LEMMA TouchQueue ==
    ASSUME NEW k \in Kind, TypeOK, QueueInv, Touch(k) PROVE QueueInv'
BY DEF TypeOK, QueueInv, WakeupNotLost, TimerIsDue, OwedIsQueued, Touch

\* The initial state has an empty queue.
LEMMA QueueInit == Init => QueueInv
BY DEF Init, QueueInv, WakeupNotLost, TimerIsDue, OwedIsQueued

\* No step of any goroutine loses a wake-up or a touched kind.
LEMMA QueueNext == TypeOK /\ QueueInv /\ [Next]_vars => QueueInv'
<1> SUFFICES ASSUME TypeOK, QueueInv, [Next]_vars PROVE QueueInv'
  OBVIOUS
<1>1. ASSUME UNCHANGED queue PROVE QueueInv'
  BY <1>1 DEF queue, QueueInv, WakeupNotLost, TimerIsDue, OwedIsQueued
<1>2. ASSUME NEW k \in Kind, Event(k) \/ AnnounceKind(k) \/ WaitOwn(k) PROVE QueueInv'
  BY <1>2, TouchQueue DEF Event, AnnounceKind, WaitOwn
<1>3. CASE TimerFires
  BY <1>3 DEF TimerFires, TypeOK, QueueInv, WakeupNotLost, TimerIsDue, OwedIsQueued
<1>4. ASSUME NEW f \in Flusher, Flush(f) PROVE QueueInv'
  <2>1. pending' = {} /\ timer' = "nil" /\ stopped' = stopped /\ owed' = owed
    BY <1>4 DEF Flush
  <2>2. delivering'[f] = pending /\ \A g \in Flusher : delivering[g] \subseteq delivering'[g]
    BY <1>4 DEF Flush, TypeOK
  <2>3. owed' \subseteq UNION {delivering'[g] : g \in Flusher}
    BY <2>1, <2>2 DEF QueueInv, WakeupNotLost, OwedIsQueued
  <2> QED BY <2>1, <2>3 DEF QueueInv, WakeupNotLost, TimerIsDue, OwedIsQueued
<1>5. ASSUME NEW f \in Flusher, NEW k \in Kind, Deliver(f, k) PROVE QueueInv'
  <2>1. /\ UNCHANGED <<stopped, pending, timer, firing>>
        /\ owed' = owed \ {k}
        /\ \A g \in Flusher : delivering[g] \ {k} \subseteq delivering'[g]
    BY <1>5 DEF Deliver, TypeOK
  <2> QED BY <2>1 DEF QueueInv, WakeupNotLost, TimerIsDue, OwedIsQueued
<1>6. CASE MarkStopped
  BY <1>6 DEF MarkStopped, QueueInv, WakeupNotLost, TimerIsDue, OwedIsQueued
<1> QED
  BY <1>1, <1>2, <1>3, <1>4, <1>5, <1>6
  DEF Next, vars, Discover, StartFactories, OpenGroup, StartFails, CacheSynced, WaitCluster,
      WaitScoped, Cancel

\* The queue's invariant holds throughout.
LEMMA QueueAlways == Spec => [](TypeOK /\ QueueInv)
<1>1. Init => TypeOK /\ QueueInv
  BY TypeInit, QueueInit
<1>2. TypeOK /\ QueueInv /\ [Next]_vars => (TypeOK /\ QueueInv)'
  BY TypeNext, QueueNext
<1> QED BY <1>1, <1>2, PTL DEF Spec

\* touch() and flush() never lose a wake-up, whatever order touch, flush and
\* stop take the lock in: every kind the page is owed a callback for is pending
\* or being delivered, while kinds are pending a timer has still to fire or its
\* flush to run, and a stopped watcher owes nothing.
THEOREM WakeupTheorem == Spec => []WakeupNotLost
<1>1. QueueInv => WakeupNotLost
  BY DEF QueueInv
<1> QED BY <1>1, QueueAlways, PTL

\* After stop() returned, flush() hands the page nothing that was not already
\* taken out of pending: late callbacks are bounded by the flushes in flight.
THEOREM DrainTheorem == Spec => DrainsAfterStop
<1> DEFINE Drains == stopped => \A f \in Flusher : delivering'[f] \subseteq delivering[f]
<1>1. TypeOK /\ QueueInv /\ [Next]_vars => [Drains]_vars
  <2> SUFFICES ASSUME TypeOK, QueueInv, stopped, [Next]_vars, NEW g \in Flusher
               PROVE delivering'[g] \subseteq delivering[g]
    OBVIOUS
  <2>1. ASSUME UNCHANGED delivering PROVE delivering'[g] \subseteq delivering[g]
    BY <2>1
  <2>2. ASSUME NEW f \in Flusher, Flush(f) PROVE delivering'[g] \subseteq delivering[g]
    BY <2>2 DEF Flush, QueueInv, TypeOK
  <2>3. ASSUME NEW f \in Flusher, NEW k \in Kind, Deliver(f, k)
        PROVE delivering'[g] \subseteq delivering[g]
    BY <2>3 DEF Deliver, TypeOK
  <2> QED
    BY <2>1, <2>2, <2>3
    DEF Next, vars, queue, Discover, StartFactories, OpenGroup, StartFails, Event, Touch, CacheSynced,
        WaitCluster, WaitScoped, AnnounceKind, WaitOwn, TimerFires, Cancel, MarkStopped
<1>2. Spec => [][Drains]_vars
  <2> HIDE DEF Drains
  <2> QED BY <1>1, QueueAlways, PTL DEF Spec
<1> QED BY <1>2 DEF DrainsAfterStop

-----------------------------------------------------------------------------
(* Waiting for the caches.                                                  *)

\* The kinds of the two shared factories.
Routed(mode) == {k \in Shared : access[k] = mode}

\* The waiting goroutine's position says which factories have synced.
WaitInv ==
    /\ phase \in {"new", "routed"} => waiter = "off"
    /\ ~cancelled =>
        /\ waiter \in {"scoped", "announce", "done"} =>
              \A k \in Routed("cluster") : informer[k] = "synced"
        /\ waiter \in {"announce", "done"} =>
              \A k \in Routed("scoped") : informer[k] = "synced"

\* Initially the goroutine has not been spawned.
LEMMA WaitInit == Init => WaitInv
BY DEF Init, WaitInv

\* The goroutine only moves past a factory whose informers have synced, and
\* no informer loses its cache.
LEMMA WaitNext == TypeOK /\ WaitInv /\ [Next]_vars => WaitInv'
<1> SUFFICES ASSUME TypeOK, WaitInv, [Next]_vars PROVE WaitInv'
  OBVIOUS
<1> USE SetsAssumption
<1>1. ASSUME UNCHANGED <<phase, access, informer, waiter, cancelled>> PROVE WaitInv'
  BY <1>1 DEF WaitInv, Routed
<1>2. CASE Discover
  BY <1>2 DEF Discover, WaitInv
<1>3. CASE StartFactories \/ \E g \in Group : OpenGroup(g)
  BY <1>3 DEF StartFactories, OpenGroup, WaitInv
<1>4. CASE StartFails
  BY <1>4 DEF StartFails, WaitInv
<1>5. ASSUME NEW k \in Kind, CacheSynced(k) PROVE WaitInv'
  BY <1>5 DEF CacheSynced, WaitInv, Routed, Shared, TypeOK
<1>6. CASE WaitCluster
  BY <1>6 DEF WaitCluster, FactorySynced, Followed, WaitInv, Routed
<1>7. CASE WaitScoped
  BY <1>7 DEF WaitScoped, FactorySynced, Followed, WaitInv, Routed
<1>8. ASSUME NEW k \in Kind, AnnounceKind(k) PROVE WaitInv'
  BY <1>8 DEF AnnounceKind, WaitInv, Routed
<1>9. CASE Cancel
  BY <1>9 DEF Cancel, WaitInv
<1> QED
  BY <1>1, <1>2, <1>3, <1>4, <1>5, <1>6, <1>7, <1>8, <1>9
  DEF Next, vars, queue, setup, Event, WaitOwn, TimerFires, Flush, Deliver, MarkStopped

\* The goroutine at the end of start() announces kinds only when every
\* informer of both factories holds its first list, or the watcher's context
\* is cancelled.
THEOREM AnnounceTheorem == Spec => []AnnounceMeansSynced
<1>1. Init => TypeOK /\ WaitInv
  BY TypeInit, WaitInit
<1>2. TypeOK /\ WaitInv /\ [Next]_vars => (TypeOK /\ WaitInv)'
  BY TypeNext, WaitNext
<1>3. WaitInv => AnnounceMeansSynced
  BY DEF WaitInv, Routed, AnnounceMeansSynced
<1> QED BY <1>1, <1>2, <1>3, PTL DEF Spec

-----------------------------------------------------------------------------
(* Refinement.                                                              *)

\* touch() is Change of the abstract queue, or no step of it once stopped.
LEMMA TouchStep ==
    ASSUME NEW k \in Kind, Touch(k) PROVE [Notices!Next]_(Notices!vars)
<1>1. CASE stopped
  BY <1>1 DEF Touch, Notices!vars
<1>2. CASE ~stopped
  <2>1. Notices!Change(k)
    BY <1>2 DEF Touch, Notices!Change
  <2> QED BY <2>1 DEF Notices!Next
<1> QED BY <1>1, <1>2

\* Touches, flushes and stop() of a contextWatcher are steps of ChangeNotice:
\* batching neither invents nor forgets an announcement.
THEOREM Refinement == Spec => Notices!SafeSpec
<1>1. Init => Notices!Init
  BY DEF Init, Notices!Init
<1>2. ASSUME TypeOK, QueueInv, [Next]_vars PROVE [Notices!Next]_(Notices!vars)
  <2>1. ASSUME UNCHANGED <<owed, stopped>> PROVE [Notices!Next]_(Notices!vars)
    BY <2>1 DEF Notices!vars
  <2>2. ASSUME NEW k \in Kind, Event(k) \/ AnnounceKind(k) \/ WaitOwn(k)
        PROVE [Notices!Next]_(Notices!vars)
    BY <2>2, TouchStep DEF Event, AnnounceKind, WaitOwn
  <2>3. ASSUME NEW f \in Flusher, NEW k \in Kind, Deliver(f, k)
        PROVE [Notices!Next]_(Notices!vars)
    <3>1. CASE k \in owed
      <4>1. Notices!Announce(k)
        BY <2>3, <3>1 DEF Deliver, Notices!Announce
      <4> QED BY <4>1 DEF Notices!Next
    <3>2. CASE k \notin owed
      BY <2>3, <3>2 DEF Deliver, Notices!vars
    <3> QED BY <3>1, <3>2
  <2>4. CASE MarkStopped
    <3>1. Notices!Close
      BY <2>4 DEF MarkStopped, Notices!Close
    <3> QED BY <3>1 DEF Notices!Next
  <2> QED
    BY <1>2, <2>1, <2>2, <2>3, <2>4
    DEF Next, vars, queue, Discover, StartFactories, OpenGroup, StartFails, CacheSynced, WaitCluster,
        WaitScoped, TimerFires, Flush, Cancel
<1> QED BY <1>1, <1>2, QueueAlways, PTL DEF Spec, Notices!SafeSpec

=============================================================================
