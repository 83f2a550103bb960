------------------------------- MODULE MCNode -------------------------------
(***************************************************************************)
(* What the page does to a node, for TLC: `part` says whether a behaviour   *)
(* drains one, by several calls or by one call of more pods, or opens       *)
(* shells on one.  The three share no state, so the states are those of     *)
(* three runs.                                                              *)
(***************************************************************************)
EXTENDS NodeDrain

CONSTANTS
    Calling, \* DrainNode calls of the part with more pods
    Few,     \* pods of the part with more calls
    Shells

ASSUME NodeAssumption == Calling \subseteq Drainer /\ Few \subseteq Pod

VARIABLES
    part,
    n_page, n_call, n_pod, n_stream, n_known, n_stops, n_del, n_lost, n_quit

shellVars == <<n_page, n_call, n_pod, n_stream, n_known, n_stops, n_del, n_lost, n_quit>>
nodeVars == <<part, vars, shellVars>>

Shell == INSTANCE NodeShell WITH
    Runs <- Shells, page <- n_page, call <- n_call, pod <- n_pod,
    stream <- n_stream, known <- n_known, stops <- n_stops, del <- n_del,
    lost <- n_lost, quit <- n_quit

\* Pods bound to the node at first.  Names that no pod has in a part are used
\* up, and so are those of exempt pods, which no drain looks at.
OnNode == IF part = "Calls" THEN Few ELSE Pod \ Exempt

NodeInit ==
    /\ part \in {"Calls", "Pods", "Shell"}
    /\ Init /\ Shell!Init
    /\ \A p \in Pod : /\ place[p] = IF p \in OnNode THEN "node" ELSE "gone"
                      /\ uid[p] = IF p \in OnNode \ Exempt THEN 1 ELSE MaxUid

NodeNext ==
    /\ UNCHANGED part
    /\ \/ part = "Calls" /\ Next /\ UNCHANGED shellVars
       \/ /\ part = "Pods" /\ Next /\ UNCHANGED shellVars
          /\ \A d \in Drainer \ Calling : pc'[d] = "idle"
       \/ part = "Shell" /\ Shell!Next /\ UNCHANGED vars

\* A part that stays as it started has no fair action enabled.
NodeSpec == NodeInit /\ [][NodeNext]_nodeVars /\ Fairness /\ Shell!Fairness

-----------------------------------------------------------------------------
\* NodeShell: the privileged pod goes with its session.
PodIsRemoved == Shell!PodIsRemoved
=============================================================================
