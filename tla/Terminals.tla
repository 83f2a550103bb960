----------------------------- MODULE Terminals ------------------------------
(***************************************************************************)
(* Local terminals: the store of tabs (store/terminals.ts), the drawer that *)
(* mounts them (TerminalDrawer.tsx), the effect of a tab that opens a shell *)
(* (TerminalTab.tsx) and the shells of the backend with their temporary     *)
(* kubeconfigs (internal/kube/terminal.go, the wrapper in app.go).  A run   *)
(* is one run of that effect, from its openLocalTerminal to its cleanup.    *)
(***************************************************************************)
EXTENDS Functions

CONSTANTS
    Tabs, \* tab ids
    Runs, \* runs of the effects
    None  \* no tab

VARIABLES
    tabs,     \* the tabs of the store
    drawer,   \* drawerOpen
    up,       \* some context is active, so App renders the drawer
    tabOf,    \* the tab of a run that is mounted
    page,     \* what the page knows of a run
    call,     \* its openLocalTerminal call in the backend
    shell,    \* its shell process
    file,     \* the runs whose temporary kubeconfig exists
    sessions, \* terminalSessionManager.sessions
    reader,   \* the goroutine that reads the terminal
    stops,    \* StopLocalTerminal for the run
    exit,     \* App.Shutdown
    toClose,  \* the sessions stopAll has swapped out and not yet closed
    late      \* history: the runs stopAll did not find in the map

vars == <<tabs, drawer, up, tabOf, page, call, shell, file, sessions,
          reader, stops, exit, toClose, late>>
pageVars == <<tabs, drawer, up, tabOf>>
exitVars == <<exit, toClose, late>>

TypeOK ==
    /\ tabs \subseteq Tabs
    /\ drawer \in BOOLEAN /\ up \in BOOLEAN
    /\ tabOf \in [Runs -> Tabs \cup {None}]
    /\ page \in [Runs -> {"unused", "waiting", "attached", "ended", "failed", "left"}]
    /\ call \in [Runs -> {"idle", "write", "start", "register", "answer", "failed", "done"}]
    /\ shell \in [Runs -> {"none", "running", "dead"}]
    /\ reader \in [Runs -> {"none", "reading", "close", "notify", "done"}]
    /\ stops \in [Runs -> {"none", "sent", "close", "done"}]
    /\ exit \in {"no", "closing", "gone"}
    /\ file \cup sessions \cup toClose \cup late \subseteq Runs
    /\ \A r \in Runs : page[r] \in {"attached", "ended"} => call[r] = "done"

Init ==
    /\ tabs = {} /\ drawer = FALSE /\ up = TRUE
    /\ tabOf = [r \in Runs |-> None]
    /\ page = [r \in Runs |-> "unused"]
    /\ call = [r \in Runs |-> "idle"]
    /\ shell = [r \in Runs |-> "none"]
    /\ file = {} /\ sessions = {}
    /\ reader = [r \in Runs |-> "none"]
    /\ stops = [r \in Runs |-> "none"]
    /\ exit = "no" /\ toClose = {} /\ late = {}

-----------------------------------------------------------------------------
(***************************************************************************)
(* The page.  The drawer renders nothing while it is hidden, so hiding it   *)
(* or leaving the last context unmounts every tab, and showing it again     *)
(* starts a new run for each.                                               *)
(***************************************************************************)

Live(r) == page[r] \in {"waiting", "attached", "ended", "failed"}

\* A cleanup that trusts the backend to notice.
CleanupSilently(out) == UNCHANGED stops

\* The cleanup of the effect for the runs `out`: a known session is stopped,
\* an answer still to come will be (AnswerArrives).
Cleanup(out) == stops' = [r \in Runs |-> IF r \in out /\ page[r] = "attached"
                                         THEN "sent" ELSE stops[r]]

\* The runs `out` end and `begin` maps the tabs that start one to new runs.
Rerun(out, begin) ==
    /\ IsInjective(begin)
    /\ Cleanup(out)
    /\ tabOf' = [r \in Runs |-> IF r \in out THEN None
                                ELSE IF r \in Range(begin)
                                THEN CHOOSE t \in DOMAIN begin : begin[t] = r
                                ELSE tabOf[r]]
    /\ page' = [r \in Runs |-> IF r \in out THEN "left"
                               ELSE IF r \in Range(begin) THEN "waiting" ELSE page[r]]
    /\ call' = [r \in Runs |-> IF r \in Range(begin) THEN "write" ELSE call[r]]
    /\ UNCHANGED <<shell, file, sessions, reader, exitVars>>

Unused == {r \in Runs : page[r] = "unused"}

\* The page renders with these tabs, drawerOpen and contexts.
Render(nextTabs, nextDrawer, nextUp) ==
    LET shown == IF nextDrawer /\ nextUp THEN nextTabs ELSE {}
        missing == {t \in shown : ~\E r \in Runs : Live(r) /\ tabOf[r] = t} IN
    /\ tabs' = nextTabs /\ drawer' = nextDrawer /\ up' = nextUp
    /\ \E begin \in [missing -> Unused] :
         Rerun({r \in Runs : Live(r) /\ tabOf[r] \notin shown}, begin)

\* A new id; one whose tab was closed is as good as new.
Fresh == Tabs \ tabs

\* openTab, from the drawer or the command palette.
OpenTab(t) == up /\ t \in Fresh /\ Render(tabs \cup {t}, TRUE, TRUE)

\* closeTab
CloseTab(t) == up /\ drawer /\ t \in tabs
               /\ Render(tabs \ {t}, drawer /\ tabs # {t}, TRUE)

\* An empty drawer opens a tab for the only context; with several it waits.
Filled == IF tabs = {} THEN {{}} \cup {{t} : t \in Fresh} ELSE {tabs}

\* toggleDrawer and setDrawerOpen; Cmd+` also works on the connections screen.
HideDrawer == drawer /\ Render(tabs, FALSE, up)
ShowDrawer == ~drawer /\ \E next \in IF up THEN Filled ELSE {tabs} : Render(next, TRUE, up)

Disconnect == up /\ Render(tabs, drawer, FALSE)
Connect == ~up /\ \E next \in IF drawer THEN Filled ELSE {tabs} : Render(next, drawer, TRUE)

\* The Restart button of an exited shell.
Restart(r) ==
    /\ up /\ page[r] = "ended"
    /\ \E new \in Unused : Rerun({r}, [t \in {tabOf[r]} |-> new])
    /\ UNCHANGED <<tabs, drawer, up>>

\* openLocalTerminal answers; if the effect was cleaned up, its shell is
\* stopped at once.
AnswerArrives(r) ==
    /\ call[r] = "answer"
    /\ call' = [call EXCEPT ![r] = "done"]
    /\ IF page[r] = "waiting"
       THEN page' = [page EXCEPT ![r] = "attached"] /\ UNCHANGED stops
       ELSE stops' = [stops EXCEPT ![r] = "sent"] /\ UNCHANGED page
    /\ UNCHANGED <<pageVars, shell, file, sessions, reader, exitVars>>

-----------------------------------------------------------------------------
(***************************************************************************)
(* The backend.                                                             *)
(***************************************************************************)

\* start fails; the page shows the error if it still waits.
CallFails(r) ==
    /\ call' = [call EXCEPT ![r] = "failed"]
    /\ page' = [page EXCEPT ![r] = IF @ = "waiting" THEN "failed" ELSE @]

\* writeContextKubeconfig, which removes what it could not complete.
WriteKubeconfig(r) ==
    /\ call[r] = "write"
    /\ \/ /\ file' = file \cup {r}
          /\ call' = [call EXCEPT ![r] = "start"] /\ UNCHANGED page
       \/ CallFails(r) /\ UNCHANGED file
    /\ UNCHANGED <<pageVars, shell, sessions, reader, stops, exitVars>>

StartShell(r) ==
    /\ call[r] = "start"
    /\ \/ /\ shell' = [shell EXCEPT ![r] = "running"]
          /\ call' = [call EXCEPT ![r] = "register"]
          /\ UNCHANGED <<file, page>>
       \/ file' = file \ {r} /\ CallFails(r) /\ UNCHANGED shell
    /\ UNCHANGED <<pageVars, sessions, reader, stops, exitVars>>

\* The session enters the map, its reader starts, and OpenLocalTerminal
\* learns the id and answers with it.
Register(r) ==
    /\ call[r] = "register"
    /\ sessions' = sessions \cup {r}
    /\ reader' = [reader EXCEPT ![r] = "reading"]
    /\ call' = [call EXCEPT ![r] = "answer"]
    /\ UNCHANGED <<pageVars, page, shell, file, stops, exitVars>>

\* The user ends the shell, or it crashes.
ShellExits(r) ==
    /\ shell[r] = "running"
    /\ shell' = [shell EXCEPT ![r] = "dead"]
    /\ UNCHANGED <<pageVars, page, call, file, sessions, reader, stops, exitVars>>

\* terminalSession.close
CloseSession(r) ==
    /\ shell' = [shell EXCEPT ![r] = "dead"]
    /\ file' = file \ {r}

\* The reader sees the end of the terminal, and takes the session away.
ReaderEnds(r) ==
    /\ reader[r] = "reading" /\ shell[r] = "dead"
    /\ sessions' = sessions \ {r}
    /\ reader' = [reader EXCEPT ![r] = "close"]
    /\ UNCHANGED <<pageVars, page, call, shell, file, stops, exitVars>>

ReaderCloses(r) ==
    /\ reader[r] = "close"
    /\ CloseSession(r)
    /\ reader' = [reader EXCEPT ![r] = "notify"]
    /\ UNCHANGED <<pageVars, page, call, sessions, stops, exitVars>>

\* onClose: the event is lost unless the id is known and the tab listens.
ReaderNotifies(r) ==
    /\ reader[r] = "notify"
    /\ reader' = [reader EXCEPT ![r] = "done"]
    /\ page' = [page EXCEPT ![r] = IF @ = "attached" THEN "ended" ELSE @]
    /\ UNCHANGED <<pageVars, call, shell, file, sessions, stops, exitVars>>

\* StopLocalTerminal: off the map under the lock, closed after it.
StopTakes(r) ==
    /\ stops[r] = "sent"
    /\ sessions' = sessions \ {r}
    /\ stops' = [stops EXCEPT ![r] = IF r \in sessions THEN "close" ELSE "done"]
    /\ UNCHANGED <<pageVars, page, call, shell, file, reader, exitVars>>

StopCloses(r) ==
    /\ stops[r] = "close"
    /\ CloseSession(r)
    /\ stops' = [stops EXCEPT ![r] = "done"]
    /\ UNCHANGED <<pageVars, page, call, sessions, reader, exitVars>>

\* The app quits: stopAll swaps the map, then closes what it held.
BeginShutdown ==
    /\ exit = "no"
    /\ exit' = "closing"
    /\ toClose' = sessions /\ sessions' = {}
    /\ late' = Runs \ sessions
    /\ UNCHANGED <<pageVars, page, call, shell, file, reader, stops>>

ShutdownCloses(r) ==
    /\ r \in toClose
    /\ toClose' = toClose \ {r}
    /\ CloseSession(r)
    /\ UNCHANGED <<pageVars, page, call, sessions, reader, stops, exit, late>>

\* The process ends, and the kernel hangs up on the shells it leaves.
Exit ==
    /\ exit = "closing" /\ toClose = {}
    /\ exit' = "gone"
    /\ shell' = [r \in Runs |-> IF shell[r] = "running" THEN "dead" ELSE shell[r]]
    /\ UNCHANGED <<pageVars, page, call, file, sessions, reader, stops, toClose, late>>

\* The page is gone when Shutdown runs.
PageStep ==
    /\ exit = "no"
    /\ \/ \E t \in Tabs : OpenTab(t) \/ CloseTab(t)
       \/ HideDrawer \/ ShowDrawer \/ Disconnect \/ Connect
       \/ \E r \in Runs : Restart(r)

Answer(r) == exit = "no" /\ AnswerArrives(r)
Start(r) == exit # "gone" /\ (WriteKubeconfig(r) \/ StartShell(r) \/ Register(r))
Read(r) == exit # "gone" /\ (ReaderEnds(r) \/ ReaderCloses(r) \/ ReaderNotifies(r))
StopCall(r) == exit # "gone" /\ (StopTakes(r) \/ StopCloses(r))
Shutdown == (\E r \in Runs : ShutdownCloses(r)) \/ Exit

Next ==
    \/ PageStep \/ BeginShutdown \/ Shutdown
    \/ \E r \in Runs : Answer(r) \/ Start(r) \/ Read(r) \/ StopCall(r) \/ ShellExits(r)

\* Calls and goroutines run, answers reach the page; users and shells need
\* do nothing.
Fairness ==
    /\ \A r \in Runs : /\ WF_vars(Answer(r)) /\ WF_vars(Start(r))
                       /\ WF_vars(Read(r)) /\ WF_vars(StopCall(r))
    /\ WF_vars(Shutdown)

Spec == Init /\ [][Next]_vars /\ Fairness

-----------------------------------------------------------------------------
\* No shell outlives its tab and no kubeconfig with credentials its shell: a
\* run whose tab was closed, hidden or restarted, before or after its answer,
\* or whose shell exited, ends up without either.  So it is when the app
\* quits, but for the runs that stopAll did not find in the map because they
\* were still starting, or were taken off it and not yet closed.
Leftover(r) ==
    /\ page[r] = "left" \/ shell[r] = "dead" \/ exit # "no"
    /\ shell[r] = "running" \/ r \in file

CleanedUp(r) ==
    \/ shell[r] # "running" /\ r \notin file
    \/ exit = "gone" /\ r \in late

TerminalsCleanUp == \A r \in Runs : Leftover(r) ~> CleanedUp(r)
=============================================================================
