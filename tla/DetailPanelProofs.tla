-------------------------- MODULE DetailPanelProofs --------------------------
(***************************************************************************)
(* What the dialogs of the detail panel confirm and apply, for any contexts,*)
(* resources and depth of navigation.                                       *)
(***************************************************************************)
EXTENDS DetailPanel, SequenceTheorems, TLAPS

\* A confirmation is typed into an open dialog of an open panel, for what the
\* panel shows, unless it was turned to a pod meanwhile or the confirmation
\* outlived its dialog; a panel's delete knows what the panel shows.
DialogInv ==
    /\ confirm => sel # None
    /\ Waits("panel") => sel # None /\ del.shown = sel
    /\ typed # None => sel # None
    /\ typed # None /\ ~outlived =>
           confirm /\ (sel.id \in Others => typed = Resolved(sel))

\* A tab in edit mode has a draft, and has moved if it is loading; what a
\* review has seen is the draft in the context of the panel, if the tab has
\* not moved.
YamlInv ==
    yaml # None =>
        /\ sel # None
        /\ yaml.phase = "ready" \/ yaml.editing => yaml.text \in Texts
        /\ yaml.editing /\ yaml.phase # "ready" => yaml.moved
        /\ yaml.applying => yaml.editing
        /\ yaml.seen # None => yaml.editing /\ yaml.review # "closed"
        /\ yaml.seen # None => yaml.moved \/ Sent = yaml.seen

IInv == TypeOK /\ DialogInv /\ YamlInv

-----------------------------------------------------------------------------
\* The context a dialog is given is a context, or none.
LEMMA ResolvedType ==
    ASSUME NEW r \in Resources
    PROVE  ContextOf(r) \in Contexts \cup {NoContext} /\ Resolved(r) \in Resources
<1>1. ContextOf(r) \in Contexts \cup {NoContext}
  BY DEF ContextOf, Resources
<1> QED BY <1>1 DEF Resolved, Resources

\* A sequence without its last element.
LEMMA FrontFacts ==
    ASSUME NEW S, NEW s \in Seq(S), s # <<>>
    PROVE  /\ SubSeq(s, 1, Len(s) - 1) \in Seq(S)
           /\ Len(SubSeq(s, 1, Len(s) - 1)) = Len(s) - 1
<1>1. Len(s) \in Nat /\ Len(s) # 0 /\ \A j \in 1..Len(s) : s[j] \in S
  BY LenProperties, EmptySeq, ElementOfSeq
<1>2. PICK n : n \in Nat /\ n = Len(s) - 1 /\ n <= Len(s) /\ 1..n \subseteq 1..Len(s)
  BY <1>1
<1>3. SubSeq(s, 1, n) \in Seq(S) /\ Len(SubSeq(s, 1, n)) = n
  BY <1>1, <1>2
<1> QED BY <1>2, <1>3

LEMMA InitIInv == Init => IInv
<1> SUFFICES ASSUME Init PROVE IInv
  OBVIOUS
<1> USE DEF Init
<1>1. stack \in Seq(Resources) /\ Len(stack) <= MaxStack
  BY EmptySeq, ConstantsAssumption
<1>2. TypeOK
  BY <1>1 DEF TypeOK
<1>3. DialogInv /\ YamlInv
  BY DEF DialogInv, YamlInv, Waits
<1> QED BY <1>2, <1>3 DEF IInv

-----------------------------------------------------------------------------
\* The YAML tab through a move of the panel.
LEMMA RetargetYamlFacts ==
    ASSUME IInv, sel # None, yaml # None, NEW r \in Resources,
           NEW t, t = RetargetYaml(r), t # None
    PROVE  /\ t \in YamlTabs
           /\ t.phase = "ready" \/ t.editing => t.text \in Texts
           /\ t.editing /\ t.phase # "ready" => t.moved
           /\ t.applying => t.editing
           /\ t.seen # None => t.editing /\ t.review # "closed"
           /\ t.seen # None => t.moved \/ [ctx |-> ContextOf(r), text |-> t.text] = t.seen
<1> USE DEF IInv, TypeOK, YamlInv
<1>1. CASE Resolved(r) = Resolved(sel)
  <2>1. t = yaml /\ ContextOf(r) = ContextOf(sel)
    BY <1>1 DEF RetargetYaml, Resolved
  <2> QED BY <2>1 DEF Sent
<1>2. CASE Resolved(r) # Resolved(sel)
  <2> DEFINE p == IF ContextOf(r) = NoContext THEN yaml.phase ELSE "loading"
  <2>1. t = [yaml EXCEPT !.phase = p, !.moved = yaml.moved \/ yaml.editing]
    BY <1>2 DEF RetargetYaml
  <2>2. p \in {"empty", "loading", "ready", "failed"} /\ (p = "ready" => yaml.phase = "ready")
    BY DEF YamlTabs
  <2>3. (yaml.moved \/ yaml.editing) \in BOOLEAN
    BY DEF YamlTabs
  <2> HIDE DEF p
  <2>4. /\ t \in YamlTabs /\ t.phase = p /\ t.moved = (yaml.moved \/ yaml.editing)
        /\ t.text = yaml.text /\ t.editing = yaml.editing /\ t.applying = yaml.applying
        /\ t.seen = yaml.seen /\ t.review = yaml.review
    BY <2>1, <2>2, <2>3 DEF YamlTabs
  <2> QED BY <2>2, <2>4
<1> QED BY <1>1, <1>2

\* The panel shows something else, or closes: the parts of the invariant that
\* Show disturbs.  An open dialog meets only a pod, or the end of the panel.
LEMMA ShowIInv ==
    ASSUME IInv, NEW r \in Resources \cup {None}, Show(r),
           confirm => r = None \/ r.id \notin Others,
           stack' \in Seq(Resources), Len(stack') <= MaxStack,
           active' \in SUBSET Contexts, r # None => active' = active,
           asked' = asked
    PROVE  IInv'
<1> USE DEF IInv
<1>1. CASE r = None
  <2>1. /\ sel' = None /\ confirm' = FALSE /\ typed' = None /\ yaml' = None
        /\ del' = IF OfPanel THEN [del EXCEPT !.by = "gone"] ELSE del
        /\ outlived' = FALSE
    BY <1>1 DEF Show, Unmount
  <2>2. del' \in Deletes \cup {None} /\ ~Waits("panel")'
    BY <2>1 DEF Waits, OfPanel, TypeOK, Deletes
  <2>3. TypeOK'
    BY <2>1, <2>2 DEF TypeOK
  <2> QED BY <2>1, <2>2, <2>3 DEF DialogInv, YamlInv
<1>2. CASE r # None /\ sel = None
  <2>1. sel' = r /\ UNCHANGED <<confirm, typed, yaml, del, outlived>>
    BY <1>2 DEF Show, panel
  <2>2. ~confirm /\ ~Waits("panel") /\ typed = None /\ yaml = None
    BY <1>2 DEF DialogInv, YamlInv, TypeOK
  <2>3. TypeOK'
    BY <2>1 DEF TypeOK
  <2>4. DialogInv' /\ YamlInv'
    BY <2>1, <2>2 DEF DialogInv, YamlInv, Waits
  <2> QED BY <2>3, <2>4
<1>3. CASE r # None /\ sel # None
  <2>1. /\ sel' = r /\ yaml' = RetargetYaml(r)
        /\ del' = IF Waits("panel") THEN [del EXCEPT !.shown = r] ELSE del
        /\ UNCHANGED <<confirm, typed, outlived>>
    BY <1>3 DEF Show, Retarget
  <2>2. r \in Resources
    BY <1>3
  <2>3. /\ del' \in Deletes \cup {None}
        /\ Waits("panel")' => del'.shown = r
    BY <2>1, <2>2 DEF Waits, TypeOK, Deletes
  <2>4. yaml' = None \/ yaml # None
    BY <2>1 DEF RetargetYaml
  <2>5. yaml' # None => yaml' \in YamlTabs
    BY <1>3, <2>1, <2>2, <2>4, RetargetYamlFacts
  <2>6. TypeOK'
    BY <2>1, <2>2, <2>3, <2>5 DEF TypeOK
  <2>7. DialogInv'
    BY <1>3, <2>1, <2>3 DEF DialogInv
  <2>8. YamlInv'
    <3>1. SUFFICES ASSUME yaml' # None PROVE YamlInv'
      BY DEF YamlInv
    <3>2. ContextOf(r)' = ContextOf(r) /\ Sent' = [ctx |-> ContextOf(r), text |-> yaml'.text]
      BY <1>3, <2>1 DEF ContextOf, Sent
    <3> QED BY <1>3, <2>1, <2>2, <2>4, <3>1, <3>2, RetargetYamlFacts DEF YamlInv
  <2> QED BY <2>6, <2>7, <2>8
<1> QED BY <1>1, <1>2, <1>3

\* Navigation, from a row, a link, a palette, or back.
LEMMA NavigateIInv ==
    ASSUME IInv,
           \/ \E r \in Resources : ClickRow(r) \/ OpenDetails(r) \/ PickPod(r)
           \/ \E id \in Ids : FollowLink(id)
           \/ ClosePanel \/ GoBackResource \/ SetSelectedView
           \/ \E next \in SUBSET Contexts : ChangeContexts(next)
    PROVE  IInv'
<1> USE DEF IInv
<1>1. ASSUME NEW r \in Resources \cup {None}, SetSelectedResource(r),
             confirm => r = None \/ r.id \notin Others
      PROVE  IInv'
  <2>1. stack' \in Seq(Resources) /\ Len(stack') <= MaxStack
    BY <1>1, EmptySeq, ConstantsAssumption DEF SetSelectedResource
  <2> QED BY <1>1, <2>1, ShowIInv DEF SetSelectedResource, TypeOK
<1>2. ASSUME NEW r \in Resources, OpenResource(r), ~confirm
      PROVE  IInv'
  <2>1. Append(stack, sel) \in Seq(Resources) \/ sel = None
    BY AppendProperties DEF TypeOK
  <2>2. stack' \in Seq(Resources) /\ Len(stack') <= MaxStack
    BY <1>2, <2>1 DEF OpenResource, TypeOK
  <2> QED BY <1>2, <2>2, ShowIInv DEF OpenResource, TypeOK
<1>3. PageFree \/ PanelFree => ~confirm
  BY DEF PageFree, PanelFree, DialogInv
<1>4. ASSUME NEW r \in Resources, ClickRow(r) \/ OpenDetails(r) PROVE IInv'
  BY <1>1, <1>2, <1>3, <1>4 DEF ClickRow, OpenDetails
<1>5. ASSUME NEW r \in Resources, PickPod(r) PROVE IInv'
  <2>1. SetSelectedResource(r) /\ r.id \notin Others
    BY <1>5, ConstantsAssumption DEF PickPod
  <2> QED BY <1>1, <2>1
<1>6. ASSUME NEW id \in Ids, FollowLink(id) PROVE IInv'
  <2>1. [id |-> id, ctx |-> NoContext] \in Resources
    BY DEF Resources
  <2> QED BY <1>2, <1>3, <1>6, <2>1 DEF FollowLink
<1>7. CASE ClosePanel \/ SetSelectedView
  BY <1>1, <1>7 DEF ClosePanel, SetSelectedView
<1>8. CASE GoBackResource
  <2>1. stack # <<>> /\ stack \in Seq(Resources) /\ Len(stack) \in Nat /\ Len(stack) <= MaxStack
    BY <1>8, LenProperties DEF GoBackResource, TypeOK
  <2>2. Len(stack) \in 1..Len(stack)
    BY <2>1, EmptySeq
  <2>3. stack[Len(stack)] \in Resources
    BY <2>1, <2>2, ElementOfSeq
  <2>4. /\ SubSeq(stack, 1, Len(stack) - 1) \in Seq(Resources)
        /\ Len(SubSeq(stack, 1, Len(stack) - 1)) = Len(stack) - 1
    BY <2>1, FrontFacts
  <2>5. stack' \in Seq(Resources) /\ Len(stack') <= MaxStack
    BY <1>8, <2>1, <2>4, ConstantsAssumption DEF GoBackResource
  <2> QED BY <1>3, <1>8, <2>3, <2>5, ShowIInv DEF GoBackResource, TypeOK
<1>9. ASSUME NEW next \in SUBSET Contexts, ChangeContexts(next) PROVE IInv'
  BY <1>9, ShowIInv DEF ChangeContexts, TypeOK
<1> QED BY <1>4, <1>5, <1>6, <1>7, <1>8, <1>9

-----------------------------------------------------------------------------
\* The steps of a delete: only what is typed, confirmed and answered changes.
LEMMA DeleteIInv ==
    ASSUME IInv,
           \/ AskDelete \/ TypeDelete \/ CancelDelete \/ ConfirmDelete
           \/ \E r \in Resources : AskDeleteRow(r)
           \/ CancelDeleteRow \/ ConfirmDeleteRow \/ DeleteFails \/ DeleteSucceeds
    PROVE  IInv'
<1> USE DEF IInv, nav, panel
<1>1. CASE AskDelete
  BY <1>1 DEF AskDelete, PanelFree, TypeOK, DialogInv, YamlInv, Waits, Resolved, ContextOf, Sent
<1>2. CASE TypeDelete
  <2>1. sel \in Resources /\ Resolved(sel) \in Resources
    BY <1>2, ResolvedType DEF TypeDelete, DialogInv, TypeOK
  <2> QED BY <1>2, <2>1 DEF TypeDelete, TypeOK, DialogInv, YamlInv, Waits, Resolved, ContextOf, Sent
<1>3. CASE CancelDelete
  <2>1. del' \in Deletes \cup {None} /\ ~Waits("panel")'
    BY <1>3 DEF CancelDelete, Waits, TypeOK, Deletes
  <2> QED BY <1>3, <2>1
          DEF CancelDelete, TypeOK, DialogInv, YamlInv, Resolved, ContextOf, Sent
<1>4. CASE ConfirmDelete
  <2>1. sel \in Resources /\ Resolved(sel) \in Resources /\ sel # None
    BY <1>4, ResolvedType DEF ConfirmDelete, DialogInv, TypeOK
  <2>2. del' \in Deletes /\ del'.shown = sel
    BY <1>4, <2>1 DEF ConfirmDelete, Deletes
  <2> QED BY <1>4, <2>1, <2>2
          DEF ConfirmDelete, TypeOK, DialogInv, YamlInv, Waits, Resolved, ContextOf, Sent
<1>5. ASSUME NEW r \in Resources, AskDeleteRow(r) PROVE IInv'
  BY <1>5 DEF AskDeleteRow, TypeOK, DialogInv, YamlInv, Waits, Resolved, ContextOf, Sent
<1>6. CASE CancelDeleteRow
  BY <1>6 DEF CancelDeleteRow, TypeOK, DialogInv, YamlInv, Waits, Resolved, ContextOf, Sent
<1>7. CASE ConfirmDeleteRow
  <2>1. asked \in Resources
    BY <1>7 DEF ConfirmDeleteRow, TypeOK
  <2>2. del' \in Deletes /\ del'.by = "row"
    BY <1>7, <2>1 DEF ConfirmDeleteRow, Deletes
  <2> QED BY <1>7, <2>2
          DEF ConfirmDeleteRow, TypeOK, DialogInv, YamlInv, Waits, Resolved, ContextOf, Sent
<1>8. CASE DeleteFails
  BY <1>8 DEF DeleteFails, TypeOK, DialogInv, YamlInv, Waits, Resolved, ContextOf, Sent
<1>9. CASE DeleteSucceeds
  <2>1. CASE sel # None /\ sel.id = del.shown.id
    <3>1. /\ sel' = None /\ stack' = <<>> /\ confirm' = FALSE /\ typed' = None
          /\ yaml' = None /\ del' = None /\ active' = active /\ asked' \in {None, asked}
          /\ outlived' = FALSE
      BY <1>9, <2>1 DEF DeleteSucceeds
    <3>2. <<>> \in Seq(Resources) /\ Len(<<>>) <= MaxStack
      BY EmptySeq, ConstantsAssumption
    <3> QED BY <3>1, <3>2 DEF TypeOK, DialogInv, YamlInv, Waits
  <2>2. CASE ~(sel # None /\ sel.id = del.shown.id)
    <3>1. /\ UNCHANGED <<active, sel, stack, typed, yaml>>
          /\ confirm' = (confirm /\ ~OfPanel)
          /\ outlived' = (outlived \/ (OfPanel /\ typed # None))
          /\ del' = None /\ asked' \in {None, asked}
      BY <1>9, <2>2 DEF DeleteSucceeds
    <3>2. confirm' \in BOOLEAN /\ outlived' \in BOOLEAN
      BY <3>1 DEF TypeOK
    <3>3. TypeOK'
      BY <3>1, <3>2 DEF TypeOK
    <3>4. DialogInv' /\ YamlInv'
      BY <3>1, <3>2 DEF TypeOK, DialogInv, YamlInv, Waits, Resolved, ContextOf, Sent
    <3> QED BY <3>3, <3>4
  <2> QED BY <2>1, <2>2
<1> QED BY <1>1, <1>2, <1>3, <1>4, <1>5, <1>6, <1>7, <1>8, <1>9

-----------------------------------------------------------------------------
\* A step of the YAML tab leaves the rest alone.
LEMMA TabIInv ==
    ASSUME IInv, UNCHANGED rest, yaml' \in YamlTabs \cup {None}, YamlInv'
    PROVE  IInv'
BY DEF IInv, rest, nav, TypeOK, DialogInv, Waits, Resolved, ContextOf

LEMMA YamlIInv ==
    ASSUME IInv,
           \/ OpenYaml \/ LeaveYaml \/ LoadAnswers \/ LoadFails \/ Edit \/ Type \/ CancelEdit
           \/ OpenReview \/ DryRunAnswers \/ CloseReview \/ ClickApply \/ ApplyAnswers
    PROVE  IInv'
<1>0. /\ yaml \in YamlTabs \cup {None} /\ YamlInv
      /\ sel \in Resources \cup {None}
  BY DEF IInv, TypeOK
<1>s. UNCHANGED rest => sel' = sel /\ ContextOf(sel)' = ContextOf(sel)
  BY DEF rest, nav, ContextOf
<1> USE DEF YamlTabs
<1>1. CASE OpenYaml
  <2>1. UNCHANGED rest /\ yaml' \in YamlTabs /\ YamlInv'
    BY <1>0, <1>1, <1>s DEF OpenYaml, PanelFree, YamlInv
  <2> QED BY <2>1, TabIInv
<1>2. CASE LeaveYaml
  BY <1>2, TabIInv DEF LeaveYaml, YamlInv
<1>3. CASE LoadAnswers
  <2>1. ContextOf(sel) \in Contexts
    BY <1>0, <1>3, ResolvedType DEF LoadAnswers, YamlInv
  <2>2. [of |-> ContextOf(sel), edited |-> FALSE] \in Texts
    BY <2>1 DEF Texts
  <2>3. UNCHANGED rest /\ yaml' \in YamlTabs /\ YamlInv'
    BY <1>0, <1>3, <1>s, <2>2 DEF LoadAnswers, YamlInv
  <2> QED BY <2>3, TabIInv
<1>4. CASE LoadFails
  <2>1. UNCHANGED rest /\ yaml' \in YamlTabs /\ YamlInv'
    BY <1>0, <1>4, <1>s DEF LoadFails, YamlInv, Sent
  <2> QED BY <2>1, TabIInv
<1>5. CASE Edit
  <2>1. UNCHANGED rest /\ yaml' \in YamlTabs /\ YamlInv'
    BY <1>0, <1>5, <1>s DEF Edit, YamlInv, PanelFree, Reviewing
  <2> QED BY <2>1, TabIInv
<1>6. CASE Type
  <2>1. yaml # None /\ yaml.editing /\ yaml.text \in Texts /\ yaml.seen = None
    BY <1>0, <1>6 DEF Type, YamlInv, PanelFree, Reviewing
  <2>2. [yaml.text EXCEPT !.edited = TRUE] \in Texts
    BY <2>1 DEF Texts
  <2>3. yaml' = [yaml EXCEPT !.text = [yaml.text EXCEPT !.edited = TRUE]]
    BY <1>6, <2>1 DEF Type
  <2>4. UNCHANGED rest /\ yaml' \in YamlTabs /\ YamlInv'
    BY <1>0, <1>6, <1>s, <2>1, <2>2, <2>3 DEF Type, YamlInv
  <2> QED BY <2>4, TabIInv
<1>7. CASE CancelEdit
  <2>1. yaml # None /\ yaml.text \in Texts /\ yaml.seen = None /\ ~yaml.applying
    BY <1>0, <1>7 DEF CancelEdit, YamlInv, PanelFree, Reviewing
  <2>2. [yaml.text EXCEPT !.edited = FALSE] \in Texts
    BY <2>1 DEF Texts
  <2>3. yaml' = [yaml EXCEPT !.editing = FALSE, !.moved = FALSE,
                             !.text = [yaml.text EXCEPT !.edited = FALSE]]
    BY <1>0, <1>7, <2>1 DEF CancelEdit
  <2>4. UNCHANGED rest /\ yaml' \in YamlTabs /\ YamlInv'
    BY <1>0, <1>7, <1>s, <2>1, <2>2, <2>3 DEF CancelEdit, YamlInv
  <2> QED BY <2>4, TabIInv
<1>8. CASE OpenReview
  <2>1. yaml # None /\ yaml.text \in Texts /\ sel \in Resources /\ yaml.editing
    BY <1>0, <1>8 DEF OpenReview, YamlInv
  <2>2. ContextOf(sel) # NoContext => [ctx |-> ContextOf(sel), text |-> yaml.text] \in Reviews
    BY <2>1, ResolvedType DEF Reviews
  <2>3. UNCHANGED rest /\ yaml' \in YamlTabs
    BY <1>0, <1>8, <2>1, <2>2 DEF OpenReview
  <2>4. YamlInv'
    BY <1>0, <1>8, <1>s, <2>1, <2>3 DEF OpenReview, YamlInv, Sent
  <2> QED BY <2>3, <2>4, TabIInv
<1>9. CASE DryRunAnswers
  <2>1. UNCHANGED rest /\ yaml' \in YamlTabs /\ YamlInv'
    BY <1>0, <1>9, <1>s DEF DryRunAnswers, YamlInv, Sent
  <2> QED BY <2>1, TabIInv
<1>10. CASE CloseReview
  <2>1. UNCHANGED rest /\ yaml' \in YamlTabs /\ YamlInv'
    BY <1>0, <1>10, <1>s DEF CloseReview, ReviewOnTop, YamlInv
  <2> QED BY <2>1, TabIInv
<1>11. CASE ClickApply
  <2>1. UNCHANGED rest /\ yaml' \in YamlTabs /\ YamlInv'
    BY <1>0, <1>11, <1>s DEF ClickApply, CanApply, ReviewOnTop, YamlInv, Sent
  <2> QED BY <2>1, TabIInv
<1>12. CASE ApplyAnswers
  <2>1. yaml # None /\ yaml.editing /\ yaml.text \in Texts
    BY <1>0, <1>12 DEF ApplyAnswers, YamlInv
  <2>2. CASE yaml' = [yaml EXCEPT !.applying = FALSE]
    <3>1. UNCHANGED rest /\ yaml' \in YamlTabs /\ YamlInv'
      BY <1>0, <1>12, <1>s, <2>2 DEF ApplyAnswers, YamlInv, Sent
    <3> QED BY <3>1, TabIInv
  <2>3. CASE yaml' = [yaml EXCEPT !.applying = FALSE, !.editing = FALSE, !.text.edited = FALSE,
                                  !.review = "closed", !.seen = None, !.moved = FALSE]
    <3>1. [yaml.text EXCEPT !.edited = FALSE] \in Texts
      BY <2>1 DEF Texts
    <3>2. yaml' = [yaml EXCEPT !.applying = FALSE, !.editing = FALSE,
                               !.text = [yaml.text EXCEPT !.edited = FALSE],
                               !.review = "closed", !.seen = None, !.moved = FALSE]
      BY <1>0, <2>1, <2>3
    <3>3. UNCHANGED rest /\ yaml' \in YamlTabs /\ YamlInv'
      BY <1>0, <1>12, <1>s, <2>1, <3>1, <3>2 DEF ApplyAnswers, YamlInv
    <3> QED BY <3>3, TabIInv
  <2> QED BY <1>12, <2>2, <2>3 DEF ApplyAnswers
<1> QED BY <1>1, <1>2, <1>3, <1>4, <1>5, <1>6, <1>7, <1>8, <1>9, <1>10, <1>11, <1>12

-----------------------------------------------------------------------------
LEMMA NextIInv == IInv /\ [Next]_vars => IInv'
<1>1. IInv /\ UNCHANGED vars => IInv'
  BY DEF IInv, vars, TypeOK, DialogInv, YamlInv, Waits, Resolved, ContextOf, Sent
<1> QED BY <1>1, NavigateIInv, DeleteIInv, YamlIInv DEF Next

LEMMA SpecIInv == Spec => []IInv
BY InitIInv, NextIInv, PTL DEF Spec

\* The navigation, the dialogs and the YAML tab keep their types.
THEOREM TypeCorrect == Spec => []TypeOK
<1>1. IInv => TypeOK
  BY DEF IInv
<1> QED BY <1>1, SpecIInv, PTL

\* A typed confirmation never deletes what it was not typed for, though the
\* dialog is not keyed and the palettes work over it, unless it outlived its
\* dialog.
THEOREM ConfirmationIsForThis == Spec => TypedUnlessLate
<1>1. IInv /\ [Next]_vars
        => [ConfirmDelete /\ sel.id \in Others => outlived \/ typed = Resolved(sel)]_vars
  BY DEF IInv, DialogInv, ConfirmDelete
<1> QED BY <1>1, SpecIInv, PTL DEF Spec, TypedUnlessLate

\* What Apply sends was dry-run, word for word and for the same context,
\* unless the tab was moved in edit mode.
THEOREM ReviewHolds == Spec => ReviewedUnlessMoved
<1>1. IInv /\ [Next]_vars => [ClickApply => yaml.moved \/ Sent = yaml.seen]_vars
  BY DEF IInv, YamlInv, ClickApply, CanApply, ReviewOnTop
<1> QED BY <1>1, SpecIInv, PTL DEF Spec, ReviewedUnlessMoved
=============================================================================
