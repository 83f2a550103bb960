----------------------------- MODULE SyncDialog -----------------------------
(***************************************************************************)
(* The Sync dialog of an Argo CD application (SyncArgoApplicationDialog.tsx)*)
(* in the header of the detail panel.  The dialog stays mounted when it is  *)
(* closed, and when the panel moves on to another application (app of apps, *)
(* Back), so what it shows depends on which of its effects and answers run  *)
(* after that.                                                              *)
(***************************************************************************)
CONSTANTS
    Applications,
    Submissions, \* syncs that are submitted
    None         \* no submission

VARIABLES
    target, \* the application of the panel
    open,
    phase,  \* the dialog's phase, and the sync it is about
    call,   \* syncArgoApplication, for each sync
    ticks,  \* the syncs whose polls are under way and not cancelled
    own,    \* history: submitted since the dialog was opened
    late    \* history: unanswered when the dialog was closed

vars == <<target, open, phase, call, ticks, own, late>>

Form == [kind |-> "form", of |-> None]

TypeOK ==
    /\ target \in Applications
    /\ open \in BOOLEAN
    /\ phase \in [kind : {"polling", "results", "timeout"}, of : Submissions] \cup {Form}
    /\ call \in [Submissions -> {"idle", "pending", "failed", "done", "dropped"}]
    /\ ticks \cup own \cup late \subseteq Submissions
    /\ ticks # {} => phase.kind = "polling"

Init ==
    /\ target \in Applications
    /\ open = FALSE /\ phase = Form
    /\ call = [s \in Submissions |-> "idle"]
    /\ ticks = {} /\ own = {} /\ late = {}

Pending == {s \in Submissions : call[s] = "pending"}

\* The answers of the polls under way are still taken.
TurnUncancelled(next) == phase' = next /\ UNCHANGED ticks

\* A change of phase cancels the polls of the phase before.
Turn(next) == phase' = next /\ ticks' = {}

Open ==
    /\ ~open
    /\ open' = TRUE
    /\ UNCHANGED <<target, phase, call, ticks, own, late>>

\* The effect resets the form only.
CloseKeepsPhase ==
    /\ open
    /\ open' = FALSE
    /\ own' = {} /\ late' = late \cup Pending
    /\ UNCHANGED <<target, phase, call, ticks>>

\* The buttons, or Escape, which also works while a sync is unanswered; the
\* effect resets the form and the phase.
Close ==
    /\ open
    /\ open' = FALSE
    /\ Turn(Form)
    /\ own' = {} /\ late' = late \cup Pending
    /\ UNCHANGED <<target, call>>

\* The panel moves on to another application.
Retarget(app) ==
    /\ ~open /\ app # target
    /\ target' = app
    /\ Turn(Form)
    /\ UNCHANGED <<open, call, own, late>>

\* The panel is closed, or shows something else; answers reach nobody.
Unmount ==
    /\ open' = FALSE
    /\ Turn(Form)
    /\ call' = [s \in Submissions |-> IF s \in Pending THEN "dropped" ELSE call[s]]
    /\ own' = {}
    /\ UNCHANGED <<target, late>>

\* Closing has reset the mutation, so only a sync of this opening disables
\* the button.
Synchronize(s) ==
    /\ open /\ phase = Form /\ call[s] = "idle" /\ Pending \cap own = {}
    /\ call' = [call EXCEPT ![s] = "pending"]
    /\ own' = own \cup {s}
    /\ UNCHANGED <<target, open, phase, ticks, late>>

\* onSuccess runs whatever has become of the dialog.
SyncAnswers(s) ==
    /\ s \in Pending
    /\ \/ /\ call' = [call EXCEPT ![s] = "done"]
          /\ Turn([kind |-> "polling", of |-> s])
       \/ call' = [call EXCEPT ![s] = "failed"] /\ UNCHANGED <<phase, ticks>>
    /\ UNCHANGED <<target, open, own, late>>

\* At once and every 1.5 seconds; of the target, whoever was synced.
Tick ==
    /\ phase.kind = "polling"
    /\ ticks' = ticks \cup {phase.of}
    /\ UNCHANGED <<target, open, phase, call, own, late>>

\* The operation has ended, or it has not, is an older one, or the poll failed.
TickAnswers(s) ==
    /\ s \in ticks
    /\ \/ Turn([kind |-> "results", of |-> s])
       \/ ticks' = ticks \ {s} /\ UNCHANGED phase
    /\ UNCHANGED <<target, open, call, own, late>>

\* A minute of polling.
TimeOut ==
    /\ phase.kind = "polling"
    /\ Turn([phase EXCEPT !.kind = "timeout"])
    /\ UNCHANGED <<target, open, call, own, late>>

\* runForReal, offered after a dry run that succeeded.
AdjustAndRun ==
    /\ open /\ phase.kind = "results"
    /\ Turn(Form)
    /\ UNCHANGED <<target, open, call, own, late>>

Next ==
    \/ Open \/ Close \/ Unmount \/ Tick \/ TimeOut \/ AdjustAndRun
    \/ \E app \in Applications : Retarget(app)
    \/ \E s \in Submissions : Synchronize(s) \/ SyncAnswers(s) \/ TickAnswers(s)

Spec == Init /\ [][Next]_vars

-----------------------------------------------------------------------------
\* An open dialog shows the progress and the results only of a sync submitted
\* since it was opened ("Reset everything when the dialog closes"), unless
\* that sync was still unanswered when the dialog was closed: its answer then
\* sets the phase after the reset, and the next opening, perhaps for another
\* application, shows it.
FreshUnlessLate == open /\ phase.of # None => phase.of \in own \cup late
=============================================================================
