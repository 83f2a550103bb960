------------------------------- MODULE Watches -------------------------------
(***************************************************************************)
(* The watchers of one active context as the page meets them: the StartWatch *)
(* and StopWatch calls of an effect of App.tsx and of the next run in       *)
(* goroutines of their own, in any order.  WatchManager has the calls lock  *)
(* by lock, for any caller.  Modules that extend this one add what else     *)
(* each step changes.                                                       *)
(***************************************************************************)
EXTENDS Naturals

CONSTANTS
    Watcher,   \* contextWatcher objects the StartWatch calls may build
    NoWatcher,
    MaxStop    \* bound on StopWatch calls under way

VARIABLES
    watch,     \* where the StartWatch call of each watcher stands
    stopped,   \* watchers whose stop() has run
    installed, \* ClientManager.watchers[context]
    stops,     \* StopWatch calls under way
    active     \* the context is among activeContexts

watches == <<watch, stopped, installed, stops, active>>

WatchesType ==
    /\ watch \in [Watcher -> {"unused", "called", "refused", "starting", "started", "returned",
                           "failed"}]
    /\ stopped \subseteq Watcher
    /\ installed \in Watcher \cup {NoWatcher}
    /\ stops \in 0..MaxStop
    /\ active \in BOOLEAN

WatchesInit ==
    /\ watch = [w \in Watcher |-> "unused"]
    /\ stopped = {} /\ installed = NoWatcher /\ stops = 0
    /\ active = FALSE

Moves(w, from, to) == watch[w] = from /\ watch' = [watch EXCEPT ![w] = to]

\* Watch cannot build a client of the context: it returns the error before it
\* looks at the map, and the page only logs it.
WatchRefused(w) ==
    /\ Moves(w, "called", "refused")
    /\ UNCHANGED <<stopped, installed, stops, active>>

\* Watch finds a watcher in the map and stops it; it stays in the map.
WatchExisting(w) ==
    /\ Moves(w, "called", "starting")
    /\ stopped' = stopped \cup ({installed} \ {NoWatcher})
    /\ UNCHANGED <<installed, stops, active>>

\* start() returns; the page only logs an error of it.
WatchStarted(w) ==
    /\ Moves(w, "starting", "started") \/ Moves(w, "starting", "failed")
    /\ UNCHANGED <<stopped, installed, stops, active>>

WatchInstalls(w) ==
    /\ Moves(w, "started", "returned")
    /\ installed' = w
    /\ UNCHANGED <<stopped, stops, active>>

StopWatch ==
    /\ stops > 0
    /\ stops' = stops - 1
    /\ stopped' = stopped \cup ({installed} \ {NoWatcher})
    /\ installed' = NoWatcher
    /\ UNCHANGED <<watch, active>>

\* The clean-up of the effect, if the context was active.
SendStop ==
    /\ stops' = stops + (IF active THEN 1 ELSE 0)
    /\ stops' <= MaxStop
    /\ UNCHANGED <<stopped, installed>>

\* The contexts change and this one is still, or now, active.
Restart(w) ==
    /\ Moves(w, "unused", "called")
    /\ SendStop
    /\ active' = TRUE

Deactivate ==
    /\ active
    /\ SendStop
    /\ active' = FALSE
    /\ UNCHANGED watch

-----------------------------------------------------------------------------
\* The context is served by a running watcher.
Healthy ==
    /\ active /\ installed # NoWatcher
    /\ watch[installed] = "returned" /\ installed \notin stopped
=============================================================================
