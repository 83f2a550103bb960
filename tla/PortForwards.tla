---------------------------- MODULE PortForwards ----------------------------
(***************************************************************************)
(* Port forwards: pfManager (internal/kube/portforward.go) with the         *)
(* forwarder of each session, and the list the page keeps of them: the      *)
(* pf:update event, the effect of App.tsx that reloads on it, and the Stop  *)
(* buttons (PortForwardButton.tsx, PortForwardIndicator.tsx).               *)
(***************************************************************************)
EXTENDS Naturals, Sequences, SequencesExt

CONSTANT Forwards \* the calls of StartPortForward

VARIABLES
    fwd,       \* the goroutine in ForwardPorts
    ready,     \* the forwards whose readyCh is closed
    stopped,   \* the forwards whose stopCh is closed
    call,      \* pfManager.start
    watch,     \* the goroutine that waits for the end of a session
    sessions,  \* pfManager.sessions
    swapped,   \* sessions stopAll has taken and not yet closed
    quit,      \* the page is gone, and App.Shutdown has run stopAll
    events,    \* pf:update events on their way
    asked,     \* ListPortForwards calls the backend has not served
    answers,   \* their lists on the way back, in the order they were made
    list,      \* the list of the page
    overtaken  \* history: the list was made before one shown earlier

vars == <<fwd, ready, stopped, call, watch, sessions, swapped, quit, events, asked,
          answers, list, overtaken>>
backend == <<fwd, ready, stopped, call, watch, sessions, swapped, quit>>
pageVars == <<events, asked, answers, list, overtaken>>

TypeOK ==
    /\ fwd \in [Forwards -> {"idle", "dialing", "listening", "ended"}]
    /\ call \in [Forwards -> {"idle", "select", "register", "notify", "done", "failed"}]
    /\ watch \in [Forwards -> {"none", "waiting", "notify", "done"}]
    /\ ready \cup stopped \cup sessions \cup swapped \cup list \subseteq Forwards
    /\ quit \in BOOLEAN /\ overtaken \in BOOLEAN
    /\ events \in Nat /\ asked \in Nat
    /\ answers \in Seq([list : SUBSET Forwards, older : BOOLEAN])

Init ==
    /\ fwd = [f \in Forwards |-> "idle"]
    /\ call = [f \in Forwards |-> "idle"]
    /\ watch = [f \in Forwards |-> "none"]
    /\ ready = {} /\ stopped = {} /\ sessions = {} /\ swapped = {}
    /\ quit = FALSE
    /\ events = 0 /\ asked = 1 /\ answers = <<>> /\ list = {}
    /\ overtaken = FALSE

-----------------------------------------------------------------------------
(***************************************************************************)
(* The forwarder (client-go).  It may fail at any time, closes readyCh when *)
(* it listens, and returns once stopCh is closed.                           *)
(***************************************************************************)

Listens(f) ==
    /\ fwd[f] = "dialing"
    /\ fwd' = [fwd EXCEPT ![f] = "listening"]
    /\ ready' = ready \cup {f}
    /\ UNCHANGED <<stopped, call, watch, sessions, swapped, quit, pageVars>>

Ends(f) ==
    /\ fwd[f] \in {"dialing", "listening"}
    /\ fwd' = [fwd EXCEPT ![f] = "ended"]
    /\ UNCHANGED <<ready, stopped, call, watch, sessions, swapped, quit, pageVars>>

-----------------------------------------------------------------------------
(***************************************************************************)
(* pfManager.                                                               *)
(***************************************************************************)

\* The dialog's Start button, up to the select.
Start(f) ==
    /\ call[f] = "idle" /\ ~quit
    /\ call' = [call EXCEPT ![f] = "select"]
    /\ fwd' = [fwd EXCEPT ![f] = "dialing"]
    /\ UNCHANGED <<ready, stopped, watch, sessions, swapped, quit, pageVars>>

\* Of several ready cases select takes any one: a forwarder that has ended
\* since it was ready may still be registered.
SelectReady(f) ==
    /\ call[f] = "select" /\ f \in ready
    /\ call' = [call EXCEPT ![f] = "register"]
    /\ UNCHANGED <<fwd, ready, stopped, watch, sessions, swapped, quit, pageVars>>

\* A start that timed out lets the forwarder dial on.
SelectFailsOnly(f) ==
    /\ call[f] = "select"
    /\ call' = [call EXCEPT ![f] = "failed"]
    /\ UNCHANGED <<fwd, ready, stopped, watch, sessions, swapped, quit, pageVars>>

\* The forwarder's result comes first, or ten seconds pass.
SelectFails(f) ==
    /\ call[f] = "select"
    /\ call' = [call EXCEPT ![f] = "failed"]
    /\ stopped' = stopped \cup {f}
    /\ UNCHANGED <<fwd, ready, watch, sessions, swapped, quit, pageVars>>

Register(f) ==
    /\ call[f] = "register"
    /\ sessions' = sessions \cup {f}
    /\ call' = [call EXCEPT ![f] = "notify"]
    /\ UNCHANGED <<fwd, ready, stopped, watch, swapped, quit, pageVars>>

\* notify, then the goroutine, then the answer.
NotifyStart(f) ==
    /\ call[f] = "notify"
    /\ call' = [call EXCEPT ![f] = "done"]
    /\ watch' = [watch EXCEPT ![f] = "waiting"]
    /\ events' = IF quit THEN events ELSE events + 1
    /\ UNCHANGED <<fwd, ready, stopped, sessions, swapped, quit, asked, answers, list,
                   overtaken>>

Collect(f) ==
    /\ watch[f] = "waiting" /\ fwd[f] = "ended"
    /\ sessions' = sessions \ {f}
    /\ watch' = [watch EXCEPT ![f] = "notify"]
    /\ UNCHANGED <<fwd, ready, stopped, call, swapped, quit, pageVars>>

\* The goroutine tells nobody.
EndUnnotified(f) ==
    /\ watch[f] = "notify"
    /\ watch' = [watch EXCEPT ![f] = "done"]
    /\ UNCHANGED <<fwd, ready, stopped, call, sessions, swapped, quit, pageVars>>

NotifyEnd(f) ==
    /\ watch[f] = "notify"
    /\ watch' = [watch EXCEPT ![f] = "done"]
    /\ events' = IF quit THEN events ELSE events + 1
    /\ UNCHANGED <<fwd, ready, stopped, call, sessions, swapped, quit, asked, answers,
                   list, overtaken>>

\* A Stop button of the list; "Disconnect all" is one stop for each.
Stop(f) ==
    /\ f \in list /\ ~quit
    /\ stopped' = IF f \in sessions THEN stopped \cup {f} ELSE stopped
    /\ UNCHANGED <<fwd, ready, call, watch, sessions, swapped, quit, pageVars>>

\* App.Shutdown: stopAll takes all sessions, then closes them.
StopAll ==
    /\ ~quit
    /\ quit' = TRUE
    /\ swapped' = sessions /\ sessions' = {}
    /\ events' = 0 /\ asked' = 0 /\ answers' = <<>>
    /\ UNCHANGED <<fwd, ready, stopped, call, watch, list, overtaken>>

CloseSwapped(f) ==
    /\ f \in swapped
    /\ swapped' = swapped \ {f}
    /\ stopped' = stopped \cup {f}
    /\ UNCHANGED <<fwd, ready, call, watch, sessions, quit, pageVars>>

-----------------------------------------------------------------------------
(***************************************************************************)
(* The page.                                                                *)
(***************************************************************************)

\* onPFUpdate calls reload.
EventArrives ==
    /\ events > 0
    /\ events' = events - 1 /\ asked' = asked + 1
    /\ UNCHANGED <<backend, answers, list, overtaken>>

ListForwards ==
    /\ asked > 0
    /\ asked' = asked - 1
    /\ answers' = Append(answers, [list |-> sessions, older |-> FALSE])
    /\ UNCHANGED <<backend, events, list, overtaken>>

\* setPortForwards takes the answers as they come; those made before this one
\* are now older than what the page shows.
AnswerArrives(i) ==
    /\ list' = answers[i].list
    /\ overtaken' = answers[i].older
    /\ answers' = RemoveAt([j \in DOMAIN answers |->
                              IF j < i THEN [answers[j] EXCEPT !.older = TRUE]
                              ELSE answers[j]], i)
    /\ UNCHANGED <<backend, events, asked>>

Next ==
    \/ StopAll \/ EventArrives \/ ListForwards
    \/ \E i \in DOMAIN answers : AnswerArrives(i)
    \/ \E f \in Forwards :
         \/ Listens(f) \/ Ends(f) \/ Start(f) \/ SelectReady(f) \/ SelectFails(f)
         \/ Register(f) \/ NotifyStart(f) \/ Collect(f) \/ NotifyEnd(f)
         \/ Stop(f) \/ CloseSwapped(f)

Spec == Init /\ [][Next]_vars

-----------------------------------------------------------------------------
\* A local port is never held open behind the user's back: a forwarder that
\* listens is in the map, so that the page can list and stop it, or its start
\* has not returned, or it has been told to stop, also when the start timed
\* out just before the forwarder became ready.
ListenersAreListed ==
    \A f \in Forwards : fwd[f] = "listening" =>
        \/ f \in sessions \cup swapped \cup stopped
        \/ call[f] \in {"select", "register"}

\* When no event, reload or notification is on its way, the page lists the
\* sessions of the map, unless the last two answers overtook one another:
\* nothing orders the answers of two reloads.
ListIsCurrent ==
    \/ events > 0 \/ asked > 0 \/ answers # <<>> \/ quit
    \/ \E f \in Forwards : call[f] = "notify" \/ watch[f] = "notify"
    \/ overtaken
    \/ list = sessions
=============================================================================
