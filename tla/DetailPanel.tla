---------------------------- MODULE DetailPanel -----------------------------
(***************************************************************************)
(* The detail panel: the navigation part of the store (store/ui.ts), the    *)
(* panel and its Delete button (ResourceDetailPanel.tsx,                    *)
(* DeleteResourceButton.tsx), the delete dialog of a table's row            *)
(* (RowActionDialogs.tsx) and the YAML tab (ResourceYAMLTab.tsx).  Dialogs  *)
(* are modal, but the palettes are keys of the window: Cmd+K may change the *)
(* view or the contexts, and Cmd+P may turn the panel to another pod, while *)
(* any of them is open or waiting for an answer.                            *)
(***************************************************************************)
EXTENDS Naturals, Sequences

CONSTANTS
    Contexts,  \* context names
    Pods,      \* kind, namespace and name of a pod
    Others,    \* the same of resources deleted only after typing DELETE
    NoContext, \* no context given (a link) or known (aggregated mode)
    None,      \* no resource, no text
    MaxStack   \* bound: length of resourceNavStack

ASSUME ConstantsAssumption ==
    /\ NoContext \notin Contexts /\ Pods \cap Others = {}
    /\ MaxStack \in Nat

Ids == Pods \cup Others
Resources == [id : Ids, ctx : Contexts \cup {NoContext}]
Texts == [of : Contexts, edited : BOOLEAN]
Reviews == [ctx : Contexts, text : Texts]

VARIABLES
    active,  \* effectiveContextList
    sel,     \* selectedResource
    stack,   \* resourceNavStack
    confirm, \* the panel's delete dialog is open
    typed,   \* what that dialog showed when DELETE was typed into it
    asked,   \* pendingAction: the resource of the row's delete dialog
    del,     \* the delete under way: what is deleted, from which dialog, and
             \* what that dialog shows by now
    yaml,    \* the YAML tab, or None while another tab is up
    outlived \* history: what is typed outlived its dialog

vars == <<active, sel, stack, confirm, typed, asked, del, yaml, outlived>>
panel == <<confirm, typed, yaml, outlived>>

Deletes == [target : Resources, by : {"panel", "closed", "row", "gone"}, shown : Resources]
YamlTabs == [phase : {"empty", "loading", "ready", "failed"}, text : Texts \cup {None},
             editing : BOOLEAN, applying : BOOLEAN, moved : BOOLEAN,
             review : {"closed", "pending", "failed", "shown"}, seen : Reviews \cup {None}]

TypeOK ==
    /\ active \in SUBSET Contexts
    /\ sel \in Resources \cup {None}
    /\ stack \in Seq(Resources) /\ Len(stack) <= MaxStack
    /\ confirm \in BOOLEAN
    /\ typed \in Resources \cup {None}
    /\ asked \in Resources \cup {None}
    /\ del \in Deletes \cup {None}
    /\ yaml \in YamlTabs \cup {None}
    /\ outlived \in BOOLEAN

Init ==
    /\ active \in SUBSET Contexts
    /\ sel = None /\ stack = <<>>
    /\ confirm = FALSE /\ typed = None /\ asked = None /\ del = None
    /\ yaml = None /\ outlived = FALSE

\* The contextName the dialogs are given: the resource's own context, or else
\* selectedContext, which is null in aggregated mode.
ContextOf(r) ==
    IF r.ctx # NoContext THEN r.ctx
    ELSE IF \E c \in Contexts : active = {c} THEN CHOOSE c \in Contexts : active = {c}
    ELSE NoContext
Resolved(r) == [id |-> r.id, ctx |-> ContextOf(r)]

-----------------------------------------------------------------------------
(***************************************************************************)
(* What a change of selectedResource does to the mounted components.        *)
(***************************************************************************)

\* The dialog waits for its delete, or the panel's was closed with Escape and
\* its delete goes on.
Waits(by) == del # None /\ del.by = by
OfPanel == Waits("panel") \/ Waits("closed")

\* The panel closes: its components are unmounted.  A delete under way still
\* calls the onSuccess of its last rendering.
Unmount ==
    /\ confirm' = FALSE /\ typed' = None /\ yaml' = None /\ outlived' = FALSE
    /\ del' = IF OfPanel THEN [del EXCEPT !.by = "gone"] ELSE del

\* The YAML tab is keyed by kind, namespace and name only.  Moved to the same
\* name in another context it stays, and its effect loads again; the edit
\* mode, the draft, the open review and its diff are left as they were.
RetargetYaml(r) ==
    IF yaml = None \/ r.id # sel.id THEN None
    ELSE IF Resolved(r) = Resolved(sel) THEN yaml
    ELSE [yaml EXCEPT !.phase = IF ContextOf(r) = NoContext THEN @ ELSE "loading",
                      !.moved = @ \/ yaml.editing]

\* The header, with the Delete button and its dialog, is not keyed at all: an
\* open dialog now asks about r, and the mutation it waits for will call the
\* onSuccess rendered for r.
Retarget(r) ==
    /\ yaml' = RetargetYaml(r)
    /\ del' = IF Waits("panel") THEN [del EXCEPT !.shown = r] ELSE del
    /\ UNCHANGED <<confirm, typed, outlived>>

Show(r) ==
    /\ sel' = r
    /\ IF r = None THEN Unmount
       ELSE IF sel = None THEN UNCHANGED <<panel, del>>
       ELSE Retarget(r)

-----------------------------------------------------------------------------
(***************************************************************************)
(* Navigation.                                                              *)
(***************************************************************************)

\* Nothing modal lies over the panel, or over the page while it is closed.
Reviewing == yaml # None /\ yaml.review # "closed"
PanelFree == sel # None /\ ~confirm /\ ~Reviewing
PageFree == sel = None /\ asked = None

\* openResource
OpenResource(r) ==
    /\ stack' = IF sel # None /\ sel.id # r.id THEN Append(stack, sel) ELSE stack
    /\ Len(stack') <= MaxStack
    /\ Show(r)
    /\ UNCHANGED <<active, asked>>

\* setSelectedResource
SetSelectedResource(r) ==
    /\ Show(r)
    /\ stack' = <<>>
    /\ UNCHANGED <<active, asked>>

\* A click on a row of a table, and "Open details" of its context menu.
ClickRow(r) == PageFree /\ r.ctx \in active /\ SetSelectedResource(r)
OpenDetails(r) == PageFree /\ r.ctx \in active /\ OpenResource(r)

\* A link inside the panel (owner, node, service account) names no context.
FollowLink(id) == PanelFree /\ OpenResource([id |-> id, ctx |-> NoContext])

\* Cmd+P: setSelectedView and setSelectedResource in one event.
PickPod(r) == r.id \in Pods /\ r.ctx \in active /\ SetSelectedResource(r)

ClosePanel == PanelFree /\ SetSelectedResource(None)

GoBackResource ==
    /\ PanelFree /\ stack # <<>>
    /\ Show(stack[Len(stack)])
    /\ stack' = SubSeq(stack, 1, Len(stack) - 1)
    /\ UNCHANGED <<active, asked>>

\* Cmd+K, a view: setSelectedView.
SetSelectedView == sel # None /\ SetSelectedResource(None)

\* Cmd+K, a context; with the panel closed, also the switcher and the
\* connections screen.  normalizeContexts leaves stack and pendingAction alone.
ChangeContexts(next) ==
    /\ next # active
    /\ active' = next
    /\ Show(None)
    /\ UNCHANGED <<stack, asked>>

-----------------------------------------------------------------------------
(***************************************************************************)
(* Deleting.  Bound: one delete is under way at a time, and no row is asked *)
(* about meanwhile but the one being deleted.                               *)
(***************************************************************************)
nav == <<active, sel, stack>>

AskDelete ==
    /\ PanelFree
    /\ confirm' = TRUE
    /\ UNCHANGED <<nav, typed, asked, del, yaml, outlived>>

TypeDelete ==
    /\ confirm /\ sel.id \in Others /\ typed = None
    /\ ~Waits("panel")
    /\ typed' = Resolved(sel)
    /\ UNCHANGED <<nav, confirm, asked, del, yaml, outlived>>

\* A dialog that only closes.
CancelKeepsTyped ==
    /\ confirm
    /\ confirm' = FALSE
    /\ del' = IF Waits("panel") THEN [del EXCEPT !.by = "closed"] ELSE del
    /\ UNCHANGED <<nav, typed, asked, yaml, outlived>>

\* onOpenChange(false): what was typed is forgotten.  Escape works while a
\* delete is under way, too; the mutation is reset, but the delete goes on and
\* will call the onSuccess of its last rendering.
CancelDelete ==
    /\ confirm
    /\ confirm' = FALSE /\ typed' = None /\ outlived' = FALSE
    /\ del' = IF Waits("panel") THEN [del EXCEPT !.by = "closed"] ELSE del
    /\ UNCHANGED <<nav, asked, yaml>>

ConfirmDelete ==
    /\ confirm /\ del = None /\ asked = None /\ ContextOf(sel) # NoContext
    /\ sel.id \in Others => typed # None
    /\ del' = [target |-> Resolved(sel), by |-> "panel", shown |-> sel]
    /\ UNCHANGED <<nav, confirm, typed, asked, yaml, outlived>>

\* The Delete item of a row's context menu; the dialog of the row types its
\* own confirmation, and goes with pendingAction.
AskDeleteRow(r) ==
    /\ PageFree /\ r.ctx \in active /\ del = None
    /\ asked' = r
    /\ UNCHANGED <<nav, panel, del>>

CancelDeleteRow ==
    /\ asked # None /\ sel = None /\ active # {}
    /\ asked' = None
    /\ UNCHANGED <<nav, panel, del>>

ConfirmDeleteRow ==
    /\ asked # None /\ sel = None /\ active # {} /\ del = None
    /\ del' = [target |-> asked, by |-> "row", shown |-> asked]
    /\ UNCHANGED <<nav, panel, asked>>

DeleteFails ==
    /\ del # None
    /\ del' = None
    /\ UNCHANGED <<nav, panel, asked>>

\* onSuccess closes the dialog it belongs to, whatever that dialog asks by
\* now and without forgetting what was typed, and, comparing names only, the
\* panel.  (Here the names of two kinds differ.)
DeleteSucceeds ==
    /\ del # None
    /\ del' = None
    /\ asked' = IF del.by = "row" THEN None ELSE asked
    /\ IF sel # None /\ sel.id = del.shown.id
       THEN /\ sel' = None /\ stack' = <<>>
            /\ confirm' = FALSE /\ typed' = None /\ yaml' = None /\ outlived' = FALSE
       ELSE /\ confirm' = (confirm /\ ~OfPanel)
            /\ outlived' = (outlived \/ (OfPanel /\ typed # None))
            /\ UNCHANGED <<sel, stack, typed, yaml>>
    /\ UNCHANGED active

-----------------------------------------------------------------------------
(***************************************************************************)
(* The YAML tab.                                                            *)
(***************************************************************************)
rest == <<nav, confirm, typed, asked, del, outlived>>

OpenYaml ==
    /\ PanelFree /\ yaml = None
    /\ yaml' = [phase |-> IF ContextOf(sel) = NoContext THEN "empty" ELSE "loading",
                text |-> None, editing |-> FALSE, applying |-> FALSE, moved |-> FALSE,
                review |-> "closed", seen |-> None]
    /\ UNCHANGED rest

LeaveYaml == PanelFree /\ yaml # None /\ yaml' = None /\ UNCHANGED rest

\* The effect's load; an earlier run of it is cancelled.
LoadAnswers ==
    /\ yaml # None /\ yaml.phase = "loading" /\ ContextOf(sel) # NoContext
    /\ yaml' = [yaml EXCEPT !.phase = "ready",
                            !.text = [of |-> ContextOf(sel), edited |-> FALSE]]
    /\ UNCHANGED rest

LoadFails ==
    /\ yaml # None /\ yaml.phase = "loading"
    /\ yaml' = [yaml EXCEPT !.phase = "failed"]
    /\ UNCHANGED rest

Edit ==
    /\ PanelFree /\ yaml # None /\ yaml.phase = "ready" /\ ~yaml.editing
    /\ yaml' = [yaml EXCEPT !.editing = TRUE]
    /\ UNCHANGED rest

Type ==
    /\ PanelFree /\ yaml # None /\ yaml.phase = "ready" /\ yaml.editing
    /\ yaml' = [yaml EXCEPT !.text.edited = TRUE]
    /\ UNCHANGED rest

CancelEdit ==
    /\ PanelFree /\ yaml # None /\ yaml.editing /\ ~yaml.applying
    /\ yaml' = [yaml EXCEPT !.editing = FALSE, !.text.edited = FALSE, !.moved = FALSE]
    /\ UNCHANGED rest

\* openReview; the dry run is sent with the context and draft of this moment.
OpenReview ==
    /\ PanelFree /\ yaml # None /\ yaml.editing /\ yaml.text.edited /\ ~yaml.applying
    /\ yaml' = IF ContextOf(sel) = NoContext
               THEN [yaml EXCEPT !.review = "failed", !.seen = None]
               ELSE [yaml EXCEPT !.review = "pending",
                                 !.seen = [ctx |-> ContextOf(sel), text |-> yaml.text]]
    /\ UNCHANGED rest

DryRunAnswers ==
    /\ yaml # None /\ yaml.review = "pending"
    /\ \/ yaml' = [yaml EXCEPT !.review = "shown"]
       \/ yaml' = [yaml EXCEPT !.review = "failed", !.seen = None]
    /\ UNCHANGED rest

ReviewOnTop == yaml # None /\ ~confirm /\ yaml.review \in {"shown", "failed"} /\ ~yaml.applying

CloseReview ==
    /\ ReviewOnTop
    /\ yaml' = [yaml EXCEPT !.review = "closed", !.seen = None]
    /\ UNCHANGED rest

\* What the Apply button sends.
Sent == [ctx |-> ContextOf(sel), text |-> yaml.text]

\* A button that does not wait for the dry run's data.
CanAlwaysApply == yaml # None /\ ~confirm /\ yaml.review # "closed" /\ ~yaml.applying

\* The button is enabled once the dry run has data.
CanApply == ReviewOnTop /\ yaml.seen # None

ClickApply ==
    /\ CanApply /\ ContextOf(sel) # NoContext
    /\ yaml' = [yaml EXCEPT !.applying = TRUE]
    /\ UNCHANGED rest

ApplyAnswers ==
    /\ yaml # None /\ yaml.applying
    /\ \/ yaml' = [yaml EXCEPT !.applying = FALSE]
       \/ yaml' = [yaml EXCEPT !.applying = FALSE, !.editing = FALSE, !.text.edited = FALSE,
                               !.review = "closed", !.seen = None, !.moved = FALSE]
    /\ UNCHANGED rest

Next ==
    \/ \E r \in Resources :
         ClickRow(r) \/ OpenDetails(r) \/ PickPod(r) \/ AskDeleteRow(r)
    \/ \E id \in Ids : FollowLink(id)
    \/ ClosePanel \/ GoBackResource \/ SetSelectedView
    \/ \E next \in SUBSET Contexts : ChangeContexts(next)
    \/ AskDelete \/ TypeDelete \/ CancelDelete \/ ConfirmDelete
    \/ CancelDeleteRow \/ ConfirmDeleteRow \/ DeleteFails \/ DeleteSucceeds
    \/ OpenYaml \/ LeaveYaml \/ LoadAnswers \/ LoadFails \/ Edit \/ Type \/ CancelEdit
    \/ OpenReview \/ DryRunAnswers \/ CloseReview \/ ClickApply \/ ApplyAnswers

Spec == Init /\ [][Next]_vars

-----------------------------------------------------------------------------
\* A resource whose deletion must be typed is deleted only if DELETE was
\* typed for that very resource, though the dialog is not keyed by it, unless
\* what was typed outlived its dialog: a delete whose dialog was closed with
\* Escape succeeds while the dialog is open for another resource, closes it
\* without its onOpenChange, and the next one to open is already confirmed.
TypedUnlessLate ==
    [][ConfirmDelete /\ sel.id \in Others => outlived \/ typed = Resolved(sel)]_vars

\* Apply sends what the dry run on screen was made of: the same draft, to the
\* same context (README.md:67, "server-side dry-run diff before apply").
AppliedWasReviewed == [][ClickApply => Sent = yaml.seen]_vars

\* As above, unless the tab was moved to the same name in another context
\* while it was in edit mode: only then can the context or, when the load
\* answers, the draft change under a review.
ReviewedUnlessMoved == [][ClickApply => yaml.moved \/ Sent = yaml.seen]_vars
=============================================================================
