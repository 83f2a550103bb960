--------------------------- MODULE CustomResources ---------------------------
(***************************************************************************)
(* The view of one custom resource in one context: the list of CRDs that    *)
(* brings it on screen, its EnsureCRWatch call, and the informer crd.go     *)
(* starts on demand in the watcher the call finds.  The rows are a table of *)
(* KindTable with a kind of their own.                                      *)
(***************************************************************************)
EXTENDS Watches, Sequences, SequencesExt

CONSTANTS
    View,      \* mounts of CustomResourceView
    NoView,
    CanSync,   \* watchers whose informer of the kind gets its first list
    MaxRequest \* bound on ListCRDs calls in flight

VARIABLES
    holdsCRD, \* watchers with the CRD in their cache
    cr,       \* crWatches and the informer of the kind, for each watcher
    closed,   \* watchers whose crSynced channel is closed
    ensure,   \* EnsureCRWatch call of each mount: where it stands
    found,    \* the watcher that call found
    listed,   \* the CRD is in the store's list
    lists,    \* ListCRDs calls not yet answered
    answers,  \* their answers not yet handled: the CRD is in the list
    view,     \* the mount on screen
    state     \* of that mount

informers == <<holdsCRD, cr, closed>>
calls == <<ensure, found>>
page == <<listed, lists, answers, view, state>>
vars == <<watches, informers, calls, page>>

Stage == {"unused", "sent", "found", "making", "waiting", "ok", "failed", "done"}

TypeOK ==
    /\ WatchesType
    /\ holdsCRD \subseteq Watcher /\ closed \subseteq Watcher
    /\ cr \in [Watcher -> {"none", "made", "started", "synced"}]
    /\ ensure \in [View -> Stage]
    /\ found \in [View -> Watcher \cup {NoWatcher}]
    /\ listed \in BOOLEAN
    /\ answers \in Seq(BOOLEAN)
    /\ lists \in Nat /\ lists + Len(answers) <= MaxRequest
    /\ view \in View \cup {NoView}
    /\ state \in {"asking", "ready", "error"}

Init ==
    /\ WatchesInit
    /\ holdsCRD = {} /\ closed = {}
    /\ cr = [w \in Watcher |-> "none"]
    /\ ensure = [v \in View |-> "unused"]
    /\ found = [v \in View |-> NoWatcher]
    /\ listed = FALSE /\ lists = 0 /\ answers = <<>>
    /\ view = NoView /\ state = "asking"

-----------------------------------------------------------------------------
(* crdWatcher.                                                              *)

\* start() of w opened the CRD informer, and its first list comes.
ReceiveCRD(w) ==
    /\ watch[w] \in {"starting", "started", "returned"} /\ w \notin stopped \cup holdsCRD
    /\ holdsCRD' = holdsCRD \cup {w}
    /\ UNCHANGED <<watches, cr, closed, calls, page>>

At(v, from, to) == ensure[v] = from /\ ensure' = [ensure EXCEPT ![v] = to]

\* No active watch is an error of the call.
FindWatcher(v) ==
    /\ At(v, "sent", IF installed = NoWatcher THEN "failed" ELSE "found")
    /\ found' = [found EXCEPT ![v] = installed]
    /\ UNCHANGED <<watches, informers, page>>

\* Faulty variant: a caller that finds the entry does not wait for the cache.
EnterUnsynced(v) ==
    /\ At(v, "found", IF cr[found[v]] = "none" THEN "making" ELSE "ok")
    /\ cr' = [cr EXCEPT ![found[v]] = IF @ = "none" THEN "made" ELSE @]
    /\ UNCHANGED <<watches, holdsCRD, closed, found, page>>

\* Under crMu: the first caller makes the entry, the others wait for it.
Enter(v) ==
    /\ At(v, "found", IF cr[found[v]] = "none" THEN "making" ELSE "waiting")
    /\ cr' = [cr EXCEPT ![found[v]] = IF @ = "none" THEN "made" ELSE @]
    /\ UNCHANGED <<watches, holdsCRD, closed, found, page>>

\* crFactory.Start, and the goroutine that waits for the cache.
StartInformer(v) ==
    /\ At(v, "making", "waiting")
    /\ cr' = [cr EXCEPT ![found[v]] = "started"]
    /\ UNCHANGED <<watches, holdsCRD, closed, found, page>>

CacheSynced(w) ==
    /\ cr[w] = "started" /\ w \in CanSync \ stopped
    /\ cr' = [cr EXCEPT ![w] = "synced"]
    /\ UNCHANGED <<watches, holdsCRD, closed, calls, page>>

\* WaitForCacheSync returns, whether the cache synced or the watch stopped.
CloseSynced(w) ==
    /\ w \notin closed
    /\ cr[w] = "synced" \/ (cr[w] = "started" /\ w \in stopped)
    /\ closed' = closed \cup {w}
    /\ UNCHANGED <<watches, holdsCRD, cr, calls, page>>

\* The select: either case may be taken where both are ready.
Return(v) ==
    /\ \/ found[v] \in closed /\ At(v, "waiting", "ok")
       \/ found[v] \in stopped /\ At(v, "waiting", "failed")
    /\ UNCHANGED <<watches, informers, found, page>>

-----------------------------------------------------------------------------
(* The page.                                                                *)

\* The effects of App.tsx: the list of CRDs is emptied, which takes the view
\* off the screen, the reloads under way are cancelled, and one is sent.
ResetCRDs(reloads) ==
    /\ listed' = FALSE /\ answers' = <<>> /\ lists' = reloads
    /\ view' = NoView /\ state' = "asking"
    /\ UNCHANGED <<informers, calls>>

\* _crds is announced, by the installed watcher or an earlier one.
CRDsChange ==
    /\ active /\ lists + Len(answers) < MaxRequest
    /\ lists' = lists + 1
    /\ UNCHANGED <<watches, informers, calls, listed, answers, view, state>>

\* CRDs reads the cache of the installed watcher.
ListCRDs ==
    /\ lists > 0
    /\ lists' = lists - 1
    /\ answers' = Append(answers, installed \in holdsCRD)
    /\ UNCHANGED <<watches, informers, calls, listed, view, state>>

\* Any answer may be the next.  A view stays where its CRD stays in the list.
SetCRDs(i) ==
    /\ listed' = answers[i]
    /\ answers' = RemoveAt(answers, i)
    /\ view' = IF answers[i] THEN view ELSE NoView
    /\ UNCHANGED <<watches, informers, calls, lists, state>>

\* The user opens the view, or it comes back with the list; its effect runs.
OpenView(v) ==
    /\ listed /\ view = NoView
    /\ At(v, "unused", "sent")
    /\ view' = v /\ state' = "asking"
    /\ UNCHANGED <<watches, informers, found, listed, lists, answers>>

CloseView ==
    /\ view # NoView
    /\ view' = NoView
    /\ UNCHANGED <<watches, informers, calls, listed, lists, answers, state>>

\* The answer of a mount that is gone is ignored.
EnsureAnswers(v) ==
    /\ At(v, "ok", "done") \/ At(v, "failed", "done")
    /\ state' = IF view # v THEN state ELSE IF ensure[v] = "ok" THEN "ready" ELSE "error"
    /\ UNCHANGED <<watches, informers, found, listed, lists, answers, view>>

-----------------------------------------------------------------------------
EnsureStep(v) ==
    FindWatcher(v) \/ Enter(v) \/ StartInformer(v) \/ Return(v) \/ EnsureAnswers(v)

Next ==
    \/ \E w \in Watcher :
         \/ (WatchRefused(w) \/ WatchExisting(w) \/ WatchStarted(w) \/ WatchInstalls(w))
            /\ UNCHANGED <<informers, calls, page>>
         \/ Restart(w) /\ ResetCRDs(1)
         \/ ReceiveCRD(w) \/ CacheSynced(w) \/ CloseSynced(w)
    \/ StopWatch /\ UNCHANGED <<informers, calls, page>>
    \/ Deactivate /\ ResetCRDs(0)
    \/ \E v \in View : EnsureStep(v) \/ OpenView(v)
    \/ CRDsChange \/ ListCRDs \/ CloseView
    \/ \E i \in DOMAIN answers : SetCRDs(i)

Spec == Init /\ [][Next]_vars

-----------------------------------------------------------------------------
\* The informer of the kind runs in w, or a call is about to start it.
BeingStarted(w) ==
    \/ cr[w] \in {"started", "synced"}
    \/ \E v \in View : found[v] = w /\ ensure[v] = "making"

\* A view whose call found the running watcher gets its rows from it: the call
\* waits only for an informer that is being started, and has answered only
\* over one that has synced, whichever call made its entry.  Excepted is a
\* view opened from a list of CRDs read before the watch was restarted: its
\* call found another watcher, or none, and is not repeated.
ViewIsServed ==
    Healthy /\ view # NoView /\ found[view] = installed =>
        \/ ensure[view] \in {"found", "making"}
        \/ ensure[view] = "waiting" /\ BeingStarted(installed)
        \/ ensure[view] = "ok" /\ cr[installed] = "synced"
        \/ ensure[view] = "done" /\ cr[installed] = "synced" /\ state = "ready"
=============================================================================
