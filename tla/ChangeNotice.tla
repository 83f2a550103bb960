---------------------------- MODULE ChangeNotice ----------------------------
(***************************************************************************)
(* What a contextWatcher promises the page: a kind that changed is          *)
(* announced by a callback that begins after the change, unless the watcher *)
(* is stopped first.  How changes are batched is not said.                  *)
(***************************************************************************)
CONSTANT Kind

VARIABLES owed,  \* kinds that changed and have not been announced since
          open   \* the watcher has not been stopped

vars == <<owed, open>>

Init == owed = {} /\ open = TRUE

Change(k) ==
    /\ open
    /\ owed' = owed \cup {k}
    /\ UNCHANGED open

Announce(k) ==
    /\ k \in owed
    /\ owed' = owed \ {k}
    /\ UNCHANGED open

\* Stopping drops what is still owed.
Close ==
    /\ open
    /\ open' = FALSE
    /\ owed' = {}

Next == Close \/ \E k \in Kind : Change(k) \/ Announce(k)

SafeSpec == Init /\ [][Next]_vars

Spec == SafeSpec /\ \A k \in Kind : WF_vars(Announce(k))

=============================================================================
