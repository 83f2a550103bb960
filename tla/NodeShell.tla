------------------------------ MODULE NodeShell -----------------------------
(***************************************************************************)
(* Node shells: the Shell tab of a node (NodeShellTab.tsx) and the          *)
(* privileged pod behind it (internal/kube/nodeshell.go), which is created, *)
(* waited for, entered with an exec session (internal/kube/exec.go, in more *)
(* detail in ExecSessions) and deleted.  A run is one run of the tab's      *)
(* effect, from StartNodeShell to its cleanup.                              *)
(***************************************************************************)
CONSTANT Runs

VARIABLES
    page,   \* what the tab knows of a run
    call,   \* StartNodeShell
    pod,    \* the pod in the cluster
    stream, \* the exec stream; "cut" is one whose context was cancelled
    known,  \* execSessionManager.sessions
    stops,  \* StopExec calls on their way
    del,    \* deleteNodeShellPod
    lost,   \* the runs whose create answer or delete call was lost
    quit    \* the app has quit

vars == <<page, call, pod, stream, known, stops, del, lost, quit>>

TypeOK ==
    /\ page \in [Runs -> {"unused", "waiting", "attached", "ended", "failed", "left"}]
    /\ call \in [Runs -> {"idle", "create", "wait", "exec", "answer", "failed", "done"}]
    /\ pod \in [Runs -> {"none", "pending", "running", "ended", "deleted"}]
    /\ stream \in [Runs -> {"none", "open", "cut", "closing", "closed"}]
    /\ del \in [Runs -> {"none", "sent", "done"}]
    /\ known \cup stops \cup lost \subseteq Runs
    /\ quit \in BOOLEAN

Init ==
    /\ page = [r \in Runs |-> "unused"]
    /\ call = [r \in Runs |-> "idle"]
    /\ pod = [r \in Runs |-> "none"]
    /\ stream = [r \in Runs |-> "none"]
    /\ del = [r \in Runs |-> "none"]
    /\ known = {} /\ stops = {} /\ lost = {}
    /\ quit = FALSE

-----------------------------------------------------------------------------
(***************************************************************************)
(* The tab.  It is opened, reattached (also by a change of context or node) *)
(* and left; each of them cleans up the run before.                         *)
(***************************************************************************)

Mounted(r) == page[r] \in {"waiting", "attached", "ended", "failed"}

\* The cleanup of the run that is mounted; next is the run that follows.
Leave(next) ==
    /\ page' = [r \in Runs |-> IF Mounted(r) THEN "left"
                               ELSE IF r \in next THEN "waiting" ELSE page[r]]
    /\ call' = [r \in Runs |-> IF r \in next THEN "create" ELSE call[r]]
    /\ stops' = stops \cup {r \in Runs : page[r] = "attached"}
    /\ UNCHANGED <<pod, stream, known, del, lost, quit>>

Attach == \E r \in Runs : page[r] = "unused" /\ Leave({r})
LeaveTab == (\E r \in Runs : Mounted(r)) /\ Leave({})

Answer(r) ==
    /\ call[r] = "answer"
    /\ call' = [call EXCEPT ![r] = "done"]
    /\ page' = [page EXCEPT ![r] = IF @ = "waiting" THEN "attached" ELSE @]
    /\ stops' = IF page[r] = "waiting" THEN stops ELSE stops \cup {r}
    /\ UNCHANGED <<pod, stream, known, del, lost, quit>>

-----------------------------------------------------------------------------
(***************************************************************************)
(* The backend.                                                             *)
(***************************************************************************)

\* StartNodeShell returns an error.
Fail(r) ==
    /\ call' = [call EXCEPT ![r] = "failed"]
    /\ page' = [page EXCEPT ![r] = IF @ = "waiting" THEN "failed" ELSE @]

DeletePod(r) == del' = [del EXCEPT ![r] = "sent"]

\* The call is refused or fails, perhaps after the server created the pod.
Create(r) ==
    /\ call[r] = "create"
    /\ \/ /\ call' = [call EXCEPT ![r] = "wait"]
          /\ pod' = [pod EXCEPT ![r] = "pending"]
          /\ UNCHANGED <<page, lost>>
       \/ Fail(r) /\ UNCHANGED <<pod, lost>>
       \/ /\ Fail(r)
          /\ pod' = [pod EXCEPT ![r] = "pending"]
          /\ lost' = lost \cup {r}
    /\ UNCHANGED <<stream, known, stops, del, quit>>

\* A pod that does not come up is left to its deadline.
WaitForgets(r) ==
    /\ call[r] = "wait"
    /\ \/ pod[r] = "running" /\ call' = [call EXCEPT ![r] = "exec"] /\ UNCHANGED page
       \/ Fail(r)
    /\ UNCHANGED <<pod, stream, known, stops, del, lost, quit>>

\* waitPodRunning: the pod runs, or it ended, vanished or took 90 seconds.
Wait(r) ==
    /\ call[r] = "wait"
    /\ \/ /\ pod[r] = "running"
          /\ call' = [call EXCEPT ![r] = "exec"]
          /\ UNCHANGED <<page, del>>
       \/ Fail(r) /\ DeletePod(r)
    /\ UNCHANGED <<pod, stream, known, stops, lost, quit>>

\* execs.start, then the answer.
StartExec(r) ==
    /\ call[r] = "exec"
    /\ \/ /\ known' = known \cup {r}
          /\ stream' = [stream EXCEPT ![r] = "open"]
          /\ call' = [call EXCEPT ![r] = "answer"]
          /\ UNCHANGED <<page, del>>
       \/ Fail(r) /\ DeletePod(r) /\ UNCHANGED <<known, stream>>
    /\ UNCHANGED <<pod, stops, lost, quit>>

\* StopExec
Stop(r) ==
    /\ r \in stops
    /\ stops' = stops \ {r}
    /\ known' = known \ {r}
    /\ stream' = [stream EXCEPT ![r] = IF r \in known /\ @ = "open" THEN "cut" ELSE @]
    /\ UNCHANGED <<page, call, pod, del, lost, quit>>

\* The stream ends: cut, with its pod, or because the user left the shell or
\* the connection broke.  onClose deletes the pod and tells the tab, which
\* only hears of it if it has the answer.
StreamEnds(r) ==
    /\ stream[r] \in {"open", "cut"}
    /\ stream' = [stream EXCEPT ![r] = "closing"]
    /\ DeletePod(r)
    /\ page' = [page EXCEPT ![r] = IF @ = "attached" THEN "ended" ELSE @]
    /\ UNCHANGED <<call, pod, known, stops, lost, quit>>

\* The goroutine's deferred removal.
Unregister(r) ==
    /\ stream[r] = "closing"
    /\ stream' = [stream EXCEPT ![r] = "closed"]
    /\ known' = known \ {r}
    /\ UNCHANGED <<page, call, pod, stops, del, lost, quit>>

Delete(r) ==
    /\ del[r] = "sent"
    /\ del' = [del EXCEPT ![r] = "done"]
    /\ \/ pod' = [pod EXCEPT ![r] = "deleted"] /\ UNCHANGED lost
       \/ lost' = lost \cup {r} /\ UNCHANGED pod
    /\ UNCHANGED <<page, call, stream, known, stops, quit>>

\* The kubelet, or another user of the cluster.
PodChanges(r) ==
    /\ \/ pod[r] = "pending" /\ pod' = [pod EXCEPT ![r] = "running"]
       \/ pod[r] \in {"pending", "running"} /\ pod' = [pod EXCEPT ![r] = "ended"]
       \/ pod[r] \in {"pending", "running", "ended"}
          /\ pod' = [pod EXCEPT ![r] = "deleted"]
    /\ UNCHANGED <<page, call, stream, known, stops, del, lost, quit>>

\* The app quits or dies; no cleanup is waited for.
Quit == quit' = TRUE /\ UNCHANGED <<page, call, pod, stream, known, stops, del, lost>>

Call(r) == ~quit /\ (Create(r) \/ Wait(r) \/ StartExec(r) \/ Answer(r))
StopCall(r) == ~quit /\ Stop(r)
StreamReturns(r) ==
    ~quit /\ (Unregister(r) \/ ((stream[r] = "cut" \/ pod[r] # "running") /\ StreamEnds(r)))
DeleteCall(r) == ~quit /\ Delete(r)

Next ==
    \/ ~quit /\ (Attach \/ LeaveTab \/ Quit)
    \/ \E r \in Runs :
         \/ Call(r) \/ StopCall(r) \/ StreamReturns(r) \/ DeleteCall(r)
         \/ ~quit /\ StreamEnds(r)
         \/ ~quit /\ PodChanges(r)

\* Calls return (waiting and deleting have timeouts), answers arrive, and a
\* stream returns when it is cut or its pod is gone.
Fairness ==
    \A r \in Runs : /\ WF_vars(Call(r)) /\ WF_vars(StopCall(r))
                    /\ WF_vars(StreamReturns(r)) /\ WF_vars(DeleteCall(r))

Spec == Init /\ [][Next]_vars /\ Fairness

-----------------------------------------------------------------------------
\* The privileged pod is removed when its session ends, however it ends: the
\* tab left while the pod starts, while the answer is on its way, or after,
\* the shell exited, the start failed (NodeShellTab.tsx promises "removed
\* when the session ends").  Only a lost create answer, a delete call that
\* fails and the end of the app leave the pod to its ActiveDeadlineSeconds.
Over(r) == page[r] \in {"left", "ended", "failed"} \/ stream[r] \in {"closing", "closed"}
PodIsUp(r) == pod[r] \in {"pending", "running", "ended"}
PodIsRemoved ==
    \A r \in Runs : (Over(r) /\ PodIsUp(r)) ~> (~PodIsUp(r) \/ r \in lost \/ quit)
=============================================================================
