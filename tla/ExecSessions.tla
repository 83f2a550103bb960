---------------------------- MODULE ExecSessions ----------------------------
(***************************************************************************)
(* Shells in pods: execSessionManager (internal/kube/exec.go), the wrapper  *)
(* of app.go that names the session for its callbacks, and one Exec tab     *)
(* (PodExecTab.tsx), whose effect starts a session each time it runs.  The  *)
(* bound calls, the goroutine of each stream and the page interleave;       *)
(* execSessionManager.mu is held for one action at a time.  A session is    *)
(* identified with the run of the effect that asks for it.                  *)
(***************************************************************************)
EXTENDS Naturals, FiniteSets

CONSTANTS
    Session,   \* runs of the tab's effect, and the sessions they start
    NoSession, \* sessionRef.current is null
    QueueCap,  \* capacity of the resize channel
    Typed      \* bound: sessions the user types into or resizes

ASSUME ConstantsAssumption ==
    /\ NoSession \notin Session
    /\ QueueCap \in Nat \ {0}
    /\ Typed \subseteq Session

VARIABLES
    inMap,     \* execSessionManager.sessions
    stream,    \* the goroutine of each session
    closing,   \* sessions taken out of the map, close() still to run
    closed,    \* close() has run: context cancelled, stdin and resize closed
    queue,     \* sizes in the resize channel
    panicked,  \* a size was sent on a closed channel
    named,     \* sessions whose id the callbacks of app.go know
    inputs,    \* SendExecInput calls under way that have not looked it up
    writing,   \* SendExecInput calls blocked in the stdin pipe
    resizes,   \* ResizeExec calls under way
    stopCalls, \* StopExec calls under way
    exiting,   \* OnShutdown has fired
    page,      \* each run of the effect
    ref,       \* sessionRef.current
    events,    \* exec:close events on their way to the page
    missed     \* history: ends nobody was told of, or told before subscribing

manager == <<inMap, stream, closing, closed, queue, panicked, named>>
calls == <<inputs, writing, resizes, stopCalls, exiting>>
tab == <<page, ref, events, missed>>
vars == <<manager, calls, tab>>

TypeOK ==
    /\ {inMap, closing, closed, named, inputs, writing, resizes, stopCalls, events, missed}
         \subseteq SUBSET Session
    /\ stream \in [Session -> {"none", "failed", "running", "returned", "notified", "gone"}]
    /\ queue \in [Session -> 0..QueueCap]
    /\ {panicked, exiting} \subseteq BOOLEAN
    /\ page \in [Session -> {"unused", "starting", "cancelled", "attached", "ended", "left"}]
    /\ ref \in Session \cup {NoSession}

Init ==
    /\ inMap = {} /\ closing = {} /\ closed = {} /\ named = {}
    /\ stream = [s \in Session |-> "none"]
    /\ queue = [s \in Session |-> 0]
    /\ panicked = FALSE
    /\ inputs = {} /\ writing = {} /\ resizes = {} /\ stopCalls = {}
    /\ exiting = FALSE
    /\ page = [s \in Session |-> "unused"]
    /\ ref = NoSession
    /\ events = {} /\ missed = {}

-----------------------------------------------------------------------------
(* execSessionManager.start and the goroutine it spawns.                    *)

Asked(s) == page[s] \in {"starting", "cancelled"} /\ stream[s] = "none"

Start(s) ==
    /\ Asked(s)
    /\ stream' = [stream EXCEPT ![s] = "running"]
    /\ inMap' = inMap \cup {s}
    /\ UNCHANGED <<closing, closed, queue, panicked, named, calls, tab>>

StartFails(s) ==
    /\ Asked(s)
    /\ stream' = [stream EXCEPT ![s] = "failed"]
    /\ UNCHANGED <<inMap, closing, closed, queue, panicked, named, calls, tab>>

\* StartExec of app.go, after start returned: the callbacks know the id now.
Name(s) ==
    /\ stream[s] \notin {"none", "failed"} /\ s \notin named
    /\ named' = named \cup {s}
    /\ UNCHANGED <<inMap, stream, closing, closed, queue, panicked, calls, tab>>

\* StreamWithContext returns: the shell exited, the connection broke, or the
\* context was cancelled.
StreamReturns(s) ==
    /\ stream[s] = "running"
    /\ stream' = [stream EXCEPT ![s] = "returned"]
    /\ UNCHANGED <<inMap, closing, closed, queue, panicked, named, calls, tab>>

\* Faulty variant: the end of the stream is not reported.
OnCloseSilent(s) ==
    /\ stream[s] = "returned"
    /\ stream' = [stream EXCEPT ![s] = "notified"]
    /\ UNCHANGED <<inMap, closing, closed, queue, panicked, named, calls, page, ref, events,
                   missed>>

\* onClose: exec:close is emitted if the id is known.
OnClose(s) ==
    /\ stream[s] = "returned"
    /\ stream' = [stream EXCEPT ![s] = "notified"]
    /\ events' = IF s \in named THEN events \cup {s} ELSE events
    /\ missed' = IF s \in named THEN missed ELSE missed \cup {s}
    /\ UNCHANGED <<inMap, closing, closed, queue, panicked, named, calls, page, ref>>

\* The deferred function: close stdin and take the session out of the map.
Unregister(s) ==
    /\ stream[s] = "notified"
    /\ stream' = [stream EXCEPT ![s] = "gone"]
    /\ inMap' = inMap \ {s}
    /\ UNCHANGED <<closing, closed, queue, panicked, named, calls, tab>>

\* chanSizeQueue.Next.
TakeSize(s) ==
    /\ stream[s] = "running" /\ queue[s] > 0
    /\ queue' = [queue EXCEPT ![s] = @ - 1]
    /\ UNCHANGED <<inMap, stream, closing, closed, panicked, named, calls, tab>>

-----------------------------------------------------------------------------
(* The other calls.                                                         *)

\* Faulty variant: the default case is there, the capacity is not looked at.
ResizeOverfull(s) ==
    /\ s \in resizes
    /\ resizes' = resizes \ {s}
    /\ queue' = IF s \in inMap THEN [queue EXCEPT ![s] = @ + 1] ELSE queue
    /\ UNCHANGED <<inMap, stream, closing, closed, panicked, named, inputs, writing, stopCalls,
                   exiting, tab>>

\* Look up and send under mu, or drop the size.  A send on a closed channel
\* panics, room or not.
Resize(s) ==
    /\ s \in resizes
    /\ resizes' = resizes \ {s}
    /\ panicked' = (panicked \/ s \in inMap \cap closed)
    /\ queue' = IF s \in inMap \ closed /\ queue[s] < QueueCap
                THEN [queue EXCEPT ![s] = @ + 1] ELSE queue
    /\ UNCHANGED <<inMap, stream, closing, closed, named, inputs, writing, stopCalls, exiting, tab>>

\* sendInput: look up under mu, write into the pipe without it.
LookupInput(s) ==
    /\ s \in inputs
    /\ inputs' = inputs \ {s}
    /\ writing' = IF s \in inMap THEN writing \cup {s} ELSE writing
    /\ UNCHANGED <<manager, resizes, stopCalls, exiting, tab>>

\* Faulty variant: the deferred function does not close stdin.
InputReturnsIfClosed(s) ==
    /\ s \in writing
    /\ s \in closed
    /\ writing' = writing \ {s}
    /\ UNCHANGED <<manager, inputs, resizes, stopCalls, exiting, tab>>

\* The write returns when stdin is closed at either place.
InputReturns(s) ==
    /\ s \in writing
    /\ s \in closed \/ stream[s] = "gone"
    /\ writing' = writing \ {s}
    /\ UNCHANGED <<manager, inputs, resizes, stopCalls, exiting, tab>>

\* Or when the stream reads it, which the other end may put off for ever.
InputRead(s) ==
    /\ s \in writing /\ stream[s] = "running"
    /\ writing' = writing \ {s}
    /\ UNCHANGED <<manager, inputs, resizes, stopCalls, exiting, tab>>

\* Faulty variant: the session is closed first and deleted later.
StopKeepsEntry(s) ==
    /\ s \in stopCalls
    /\ stopCalls' = stopCalls \ {s}
    /\ closing' = closing \cup (inMap \cap {s})
    /\ UNCHANGED <<inMap, stream, closed, queue, panicked, named, inputs, writing, resizes,
                   exiting, tab>>

\* stop under mu: the session leaves the map.
Stop(s) ==
    /\ s \in stopCalls
    /\ stopCalls' = stopCalls \ {s}
    /\ closing' = closing \cup (inMap \cap {s})
    /\ inMap' = inMap \ {s}
    /\ UNCHANGED <<stream, closed, queue, panicked, named, inputs, writing, resizes, exiting, tab>>

\* Faulty variant: the map is emptied and the sessions are not remembered.
StopAllForgets ==
    /\ ~exiting
    /\ exiting' = TRUE
    /\ inMap' = {}
    /\ UNCHANGED <<stream, closing, closed, queue, panicked, named, inputs, writing, resizes,
                   stopCalls, tab>>

\* stopAll under mu, from Shutdown.
StopAll ==
    /\ ~exiting
    /\ exiting' = TRUE
    /\ closing' = closing \cup inMap
    /\ inMap' = {}
    /\ UNCHANGED <<stream, closed, queue, panicked, named, inputs, writing, resizes, stopCalls, tab>>

\* execSession.close, outside mu.
Close(s) ==
    /\ s \in closing
    /\ closing' = closing \ {s}
    /\ closed' = closed \cup {s}
    /\ UNCHANGED <<inMap, stream, queue, panicked, named, calls, tab>>

-----------------------------------------------------------------------------
(* The tab.                                                                 *)

Live(s) == page[s] \in {"starting", "attached", "ended"}

\* What the clean-up makes of a run of the effect.
Cleaned(s) == IF ~Live(s) THEN page[s]
              ELSE IF page[s] = "starting" THEN "cancelled" ELSE "left"

\* Faulty variant: the clean-up leaves the session to itself.
LeaveRunning ==
    /\ ~exiting
    /\ \E s \in Session : Live(s)
    /\ page' = [s \in Session |-> Cleaned(s)]
    /\ ref' = NoSession
    /\ UNCHANGED <<manager, calls, events, missed>>

\* The tab is closed: cancelled is set, the subscriptions are dropped and the
\* session in sessionRef is stopped.
Leave ==
    /\ ~exiting
    /\ \E s \in Session : Live(s)
    /\ page' = [s \in Session |-> Cleaned(s)]
    /\ stopCalls' = stopCalls \cup ({ref} \ {NoSession})
    /\ ref' = NoSession
    /\ UNCHANGED <<manager, inputs, writing, resizes, exiting, events, missed>>

\* The effect runs: first, or again for another container or shell or by
\* Reattach, after the clean-up of the run before.
Attach(s) ==
    /\ ~exiting
    /\ page[s] = "unused"
    /\ page' = [u \in Session |-> IF u = s THEN "starting" ELSE Cleaned(u)]
    /\ stopCalls' = stopCalls \cup ({ref} \ {NoSession})
    /\ ref' = NoSession
    /\ UNCHANGED <<manager, inputs, writing, resizes, exiting, events, missed>>

\* StartExec answers: the run subscribes and sends the size, or has been
\* cleaned up meanwhile and stops the session.
Started(s) ==
    /\ s \in named
    /\ page[s] \in {"starting", "cancelled"}
    /\ IF page[s] = "starting"
       THEN /\ page' = [page EXCEPT ![s] = "attached"]
            /\ ref' = s
            /\ resizes' = resizes \cup {s}
            /\ UNCHANGED stopCalls
       ELSE /\ page' = [page EXCEPT ![s] = "left"]
            /\ stopCalls' = stopCalls \cup {s}
            /\ UNCHANGED <<ref, resizes>>
    /\ UNCHANGED <<manager, inputs, writing, exiting, events, missed>>

StartError(s) ==
    /\ stream[s] = "failed"
    /\ page[s] \in {"starting", "cancelled"}
    /\ page' = [page EXCEPT ![s] = IF page[s] = "starting" THEN "ended" ELSE "left"]
    /\ UNCHANGED <<manager, calls, ref, events, missed>>

\* exec:close reaches the page; without a subscriber it is lost.
CloseEvent(s) ==
    /\ s \in events
    /\ events' = events \ {s}
    /\ IF page[s] = "attached"
       THEN /\ page' = [page EXCEPT ![s] = "ended"]
            /\ ref' = NoSession
            /\ UNCHANGED missed
       ELSE /\ missed' = missed \cup {s}
            /\ UNCHANGED <<page, ref>>
    /\ UNCHANGED <<manager, calls>>

\* The user types, the window is resized.
Type(s) ==
    /\ ref = s /\ s \in Typed /\ s \notin inputs \cup writing /\ ~exiting
    /\ inputs' = inputs \cup {s}
    /\ UNCHANGED <<manager, writing, resizes, stopCalls, exiting, tab>>

Measure(s) ==
    /\ ref = s /\ s \in Typed /\ s \notin resizes /\ ~exiting
    /\ resizes' = resizes \cup {s}
    /\ UNCHANGED <<manager, inputs, writing, stopCalls, exiting, tab>>

-----------------------------------------------------------------------------
Next ==
    \/ \E s \in Session :
         \/ Start(s) \/ StartFails(s) \/ Name(s) \/ StreamReturns(s) \/ OnClose(s)
         \/ Unregister(s) \/ TakeSize(s)
         \/ Resize(s) \/ LookupInput(s) \/ InputReturns(s) \/ InputRead(s) \/ Stop(s) \/ Close(s)
         \/ Attach(s) \/ Started(s) \/ StartError(s) \/ CloseEvent(s) \/ Type(s) \/ Measure(s)
    \/ StopAll \/ Leave

\* Goroutines and bound calls run, the page handles answers and events, and a
\* cancelled stream returns.  A stream that is not cancelled may run for ever.
Fairness == \A s \in Session :
    /\ WF_vars(Start(s) \/ StartFails(s)) /\ WF_vars(Name(s))
    /\ WF_vars(s \in closed /\ StreamReturns(s)) /\ WF_vars(OnClose(s)) /\ WF_vars(Unregister(s))
    /\ WF_vars(Resize(s)) /\ WF_vars(LookupInput(s)) /\ WF_vars(InputReturns(s))
    /\ WF_vars(Stop(s)) /\ WF_vars(Close(s))
    /\ WF_vars(Started(s)) /\ WF_vars(StartError(s)) /\ WF_vars(CloseEvent(s))

Spec == Init /\ [][Next]_vars /\ Fairness

-----------------------------------------------------------------------------
(* Properties.                                                              *)

\* exec.go:124-129: resize never sends on a closed channel, however it is
\* interleaved with stop, stopAll and the end of the stream.
ResizeIsSafe == ~panicked /\ inMap \cap (closing \cup closed) = {}

\* A stream that runs can still be stopped: it is in the map, or somebody has
\* taken it out to close it.
RunningIsReachable ==
    \A s \in Session : stream[s] = "running" => s \in inMap \cup closing \cup closed

\* A shell the tab has left does not stay behind in the pod, even when the tab
\* was left while StartExec was under way.
LeftIsStopped ==
    \A s \in Session :
        page[s] \in {"cancelled", "left"} ~> stream[s] \notin {"none", "running"}

\* No SendExecInput call stays blocked in the pipe once the stream ended.
InputsReturn ==
    \A s \in Session : s \in writing /\ stream[s] # "running" ~> s \notin writing

\* The tab learns that its shell ended, unless it ended before the tab could
\* know its id or subscribe.
EndIsSeen ==
    \A s \in Session :
        page[s] = "attached" /\ stream[s] = "gone" ~> page[s] # "attached" \/ s \in missed

=============================================================================
