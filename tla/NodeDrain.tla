------------------------------ MODULE NodeDrain ------------------------------
(***************************************************************************)
(* Draining one node: DrainNode and SetNodeCordon (internal/kube/nodeops.go) *)
(* and the read-only flag they ask for (manager.go).  A drain is a loop of  *)
(* API calls, one action each, over a list of pods it took once; meanwhile *)
(* the cluster goes on: pods end and are recreated under the same name,    *)
(* the node is uncordoned, the user switches read-only mode on and off.    *)
(***************************************************************************)
EXTENDS Naturals, FiniteSets

CONSTANTS
    Pod,     \* names of the pods that may be bound to the node
    Exempt,  \* those a DaemonSet or the kubelet owns
    Drainer, \* DrainNode calls for this node
    MaxUid   \* bound on how often a name is reused

ASSUME ConstantsAssumption ==
    /\ Exempt \subseteq Pod
    /\ MaxUid \in Nat \ {0}

Uid == 1..MaxUid
NoUid == 0

VARIABLES
    place,     \* of the pod of each name: on the node, away, or gone
    uid,       \* of the pod that has, or had last, each name
    leaving,   \* names whose pod has a DeletionTimestamp
    cordoned,
    readOnly,  \* ClientManager.readOnly has the context
    draining,  \* ClientManager.draining has the node
    pc,
    targets,   \* targets: uid of each pod of the list
    gone,      \* targets whose DeletionTimestamp was already set in the list
    unseen,    \* targets still to Get in this round
    pending,   \* pods still there, and whether they leave already
    known,     \* history: targets whose name a Get, of any round, found with another pod
    blind,     \* history: targets whose Get of this round failed
    toEvict,   \* pods still to evict in this round
    misfired,  \* history: known targets a drain evicted though it was not blind to them
    lapsed     \* history: drains in a round that began in read-only mode

cluster == <<place, uid, leaving, cordoned>>
history == <<misfired, lapsed>>
round == <<unseen, pending, known, blind, toEvict>>
vars == <<cluster, readOnly, draining, pc, targets, gone, round, history>>

PC == {"idle", "guard", "cordonCheck", "cordon", "list", "get", "evict", "wait",
       "refused", "failed", "interrupted", "done"}

TypeOK ==
    /\ place \in [Pod -> {"node", "away", "gone"}]
    /\ uid \in [Pod -> Uid]
    /\ leaving \subseteq Pod
    /\ {cordoned, readOnly, draining} \subseteq BOOLEAN
    /\ pc \in [Drainer -> PC]
    /\ targets \in [Drainer -> [Pod -> Uid \cup {NoUid}]]
    /\ \A d \in Drainer, p \in Exempt : targets[d][p] = NoUid
    /\ gone \in [Drainer -> SUBSET Pod]
    /\ unseen \in [Drainer -> SUBSET Pod]
    /\ pending \in [Drainer -> [Pod -> {"no", "stays", "leaving"}]]
    /\ known \in [Drainer -> SUBSET Pod]
    /\ blind \in [Drainer -> SUBSET Pod]
    /\ toEvict \in [Drainer -> SUBSET Pod]
    /\ misfired \subseteq Pod
    /\ lapsed \subseteq Drainer

None(x) == [d \in Drainer |-> x]

Init ==
    /\ place \in [Pod -> {"node", "gone"}]
    /\ uid \in [Pod -> Uid]
    /\ leaving = {}
    /\ cordoned \in BOOLEAN
    /\ readOnly = FALSE /\ draining = FALSE
    /\ pc = None("idle")
    /\ targets = None([p \in Pod |-> NoUid])
    /\ gone = None({})
    /\ unseen = None({})
    /\ pending = None([p \in Pod |-> "no"])
    /\ known = None({}) /\ blind = None({})
    /\ toEvict = None({})
    /\ misfired = {} /\ lapsed = {}

-----------------------------------------------------------------------------
(* The cluster and the user.                                                *)

drain == <<draining, pc, targets, gone, round, history>>

Deleted(p) ==
    /\ place[p] # "gone" /\ p \notin leaving
    /\ leaving' = leaving \cup {p}
    /\ UNCHANGED <<place, uid, cordoned, readOnly, drain>>

Terminated(p) ==
    /\ p \in leaving
    /\ leaving' = leaving \ {p}
    /\ place' = [place EXCEPT ![p] = "gone"]
    /\ UNCHANGED <<uid, cordoned, readOnly, drain>>

\* A controller recreates the pod: a cordon keeps it off the node, but for
\* DaemonSet and mirror pods.
Recreated(p) ==
    /\ place[p] = "gone" /\ uid[p] < MaxUid
    /\ uid' = [uid EXCEPT ![p] = @ + 1]
    /\ \E where \in {"node", "away"} :
         /\ where = "node" => ~cordoned \/ p \in Exempt
         /\ place' = [place EXCEPT ![p] = where]
    /\ UNCHANGED <<leaving, cordoned, readOnly, drain>>

Uncordon ==
    /\ cordoned
    /\ cordoned' = FALSE
    /\ UNCHANGED <<place, uid, leaving, readOnly, drain>>

SetReadOnly ==
    /\ readOnly' = ~readOnly
    /\ UNCHANGED <<cluster, drain>>

-----------------------------------------------------------------------------
(* DrainNode.                                                               *)

Goto(d, l) == pc' = [pc EXCEPT ![d] = l]

\* Faulty variant: an early return leaves the node marked.
FinishKeepsMark(d, l) ==
    /\ Goto(d, l)
    /\ draining' = (draining /\ l # "done")

\* DrainNode returns and its deferred function clears the mark.
Finish(d, l) ==
    /\ Goto(d, l)
    /\ draining' = FALSE

Begin(d) ==
    /\ pc[d] = "idle"
    /\ Goto(d, IF readOnly THEN "refused" ELSE "guard")
    /\ UNCHANGED <<cluster, readOnly, draining, targets, gone, round, history>>

\* Faulty variant: the mark is set and not asked for.
MarkUnchecked(d) ==
    /\ pc[d] = "guard"
    /\ Goto(d, "cordonCheck")
    /\ draining' = TRUE
    /\ UNCHANGED <<cluster, readOnly, targets, gone, round, history>>

\* Under drainMu: one drain of a node at a time.
Mark(d) ==
    /\ pc[d] = "guard"
    /\ Goto(d, IF draining THEN "refused" ELSE "cordonCheck")
    /\ draining' = TRUE
    /\ UNCHANGED <<cluster, readOnly, targets, gone, round, history>>

\* assertWritable of SetNodeCordon.
CordonCheck(d) ==
    /\ pc[d] = "cordonCheck"
    /\ IF readOnly THEN Finish(d, "failed") ELSE Goto(d, "cordon") /\ UNCHANGED draining
    /\ UNCHANGED <<cluster, readOnly, targets, gone, round, history>>

Cordon(d) ==
    /\ pc[d] = "cordon"
    /\ cordoned' = TRUE
    /\ Goto(d, "list")
    /\ UNCHANGED <<place, uid, leaving, readOnly, draining, targets, gone, round, history>>

\* A client, a patch or a list could not be had.
Fail(d) ==
    /\ pc[d] \in {"cordonCheck", "cordon", "list"}
    /\ Finish(d, "failed")
    /\ UNCHANGED <<cluster, readOnly, targets, gone, round, history>>

\* The list, less the pods of set skip, becomes the targets.
ListSkipping(d, skip) ==
    LET found == {p \in Pod \ skip : place[p] = "node"} IN
    /\ pc[d] = "list"
    /\ targets' = [targets EXCEPT ![d] = [p \in Pod |-> IF p \in found THEN uid[p] ELSE NoUid]]
    /\ gone' = [gone EXCEPT ![d] = found \cap leaving]
    /\ unseen' = [unseen EXCEPT ![d] = found]
    /\ Goto(d, "get")
    /\ UNCHANGED <<cluster, readOnly, draining, pending, known, blind, toEvict, history>>

\* Faulty variant: DaemonSet pods are drained too.
ListEverything(d) == ListSkipping(d, {})

\* The list and drainTargets.  Pods that finished are as good as gone here.
ListPods(d) == ListSkipping(d, Exempt)

\* What becomes of target p in pending.
Seen(d, p, what) ==
    /\ unseen' = [unseen EXCEPT ![d] = @ \ {p}]
    /\ pending' = [pending EXCEPT ![d][p] = what]
    /\ UNCHANGED <<cluster, readOnly, draining, pc, targets, gone, toEvict, history>>

\* Get of target p returned what the API server has of that name.
Replaced(d, p) == place[p] # "gone" /\ uid[p] # targets[d][p]

Answered(d, p, what) ==
    /\ Seen(d, p, what)
    /\ known' = IF Replaced(d, p) THEN [known EXCEPT ![d] = @ \cup {p}] ELSE known
    /\ UNCHANGED blind

\* Get of target p returned an error.
Unanswered(d, p, what) ==
    /\ Seen(d, p, what)
    /\ blind' = [blind EXCEPT ![d] = @ \cup {p}]
    /\ UNCHANGED known

Present(p) == IF p \in leaving THEN "leaving" ELSE "stays"

\* Faulty variant: the uid is not compared.
GetByName(d, p) ==
    /\ pc[d] = "get" /\ p \in unseen[d]
    /\ Answered(d, p, IF place[p] = "gone" THEN "no" ELSE Present(p))

\* The pod is gone, or another pod has its name now, or it is still there.
Get(d, p) ==
    /\ pc[d] = "get" /\ p \in unseen[d]
    /\ Answered(d, p, IF place[p] = "gone" \/ Replaced(d, p) THEN "no" ELSE Present(p))

\* Faulty variant: a pod that cannot be read counts as gone.
GetErrorIsGone(d, p) ==
    /\ pc[d] = "get" /\ p \in unseen[d]
    /\ Unanswered(d, p, "no")

\* Any other error: the pod of the list stays pending as it was listed.
GetError(d, p) ==
    /\ pc[d] = "get" /\ p \in unseen[d]
    /\ Unanswered(d, p, IF p \in gone[d] THEN "leaving" ELSE "stays")

Pending(d) == {p \in Pod : pending[d][p] # "no"}

GotAll(d) ==
    /\ pc[d] = "get" /\ unseen[d] = {}
    /\ IF Pending(d) = {}
       THEN Finish(d, "done") /\ lapsed' = lapsed \ {d} /\ UNCHANGED toEvict
       ELSE /\ Goto(d, "evict")
            /\ toEvict' = [toEvict EXCEPT ![d] = {p \in Pod : pending[d][p] = "stays"}]
            /\ UNCHANGED <<draining, lapsed>>
    /\ UNCHANGED <<cluster, readOnly, targets, gone, unseen, pending, known, blind,
                   misfired>>

\* The eviction names the pod; the API server lets it go, or refuses: a
\* disruption budget, an error, or no such pod.  The code takes no notice.
Evict(d, p) ==
    /\ pc[d] = "evict" /\ p \in toEvict[d]
    /\ toEvict' = [toEvict EXCEPT ![d] = @ \ {p}]
    /\ \/ /\ place[p] # "gone"
          /\ leaving' = leaving \cup {p}
          /\ misfired' = IF p \in known[d] \ blind[d] THEN misfired \cup {p} ELSE misfired
       \/ UNCHANGED <<leaving, misfired>>
    /\ UNCHANGED <<place, uid, cordoned, readOnly, draining, pc, targets, gone, unseen, pending,
                   known, blind, lapsed>>

EvictedAll(d) ==
    /\ pc[d] = "evict" /\ toEvict[d] = {}
    /\ Goto(d, "wait")
    /\ lapsed' = lapsed \ {d}
    /\ UNCHANGED <<cluster, readOnly, draining, targets, gone, round, misfired>>

\* drainPollInterval has passed: the next round begins.
NextRound(d) ==
    /\ pc[d] = "wait"
    /\ Goto(d, "get")
    /\ unseen' = [unseen EXCEPT ![d] = {p \in Pod : targets[d][p] # NoUid}]
    /\ pending' = [pending EXCEPT ![d] = [p \in Pod |-> "no"]]
    /\ blind' = [blind EXCEPT ![d] = {}]
    /\ lapsed' = IF readOnly THEN lapsed \cup {d} ELSE lapsed \ {d}
    /\ UNCHANGED <<cluster, readOnly, draining, targets, gone, known, toEvict, misfired>>

\* The 15 minutes of app.go are over.
Interrupted(d) ==
    /\ pc[d] = "wait"
    /\ Finish(d, "interrupted")
    /\ UNCHANGED <<cluster, readOnly, targets, gone, round, history>>

-----------------------------------------------------------------------------
Step(d) ==
    \/ Begin(d) \/ Mark(d) \/ CordonCheck(d) \/ Cordon(d) \/ Fail(d) \/ ListPods(d)
    \/ \E p \in Pod : Get(d, p) \/ GetError(d, p) \/ Evict(d, p)
    \/ GotAll(d) \/ EvictedAll(d) \/ NextRound(d) \/ Interrupted(d)

Next ==
    \/ \E p \in Pod : Deleted(p) \/ Terminated(p) \/ Recreated(p)
    \/ Uncordon \/ SetReadOnly
    \/ \E d \in Drainer : Step(d)

\* A drain that began goes on, and its deadline comes: it passes the wait over
\* and over until then.
Fairness == \A d \in Drainer :
    /\ WF_vars(pc[d] # "idle" /\ Step(d))
    /\ SF_vars(Interrupted(d))

Spec == Init /\ [][Next]_vars /\ Fairness

-----------------------------------------------------------------------------
(* Properties.                                                              *)

Working == {"cordonCheck", "cordon", "list", "get", "evict", "wait"}

\* nodeops.go:64-69: two drains of a node never work at the same time, and the
\* mark is there for as long as one does.
OneDrain ==
    /\ \A d, e \in Drainer : pc[d] \in Working /\ pc[e] \in Working => d = e
    /\ draining <=> \E d \in Drainer : pc[d] \in Working

\* A drain that reports done has seen the end of every pod it listed; API
\* errors and reused names do not hide one that is left.
DoneMeansGone ==
    \A d \in Drainer, p \in Pod :
        pc[d] = "done" /\ targets[d][p] # NoUid => place[p] = "gone" \/ uid[p] # targets[d][p]

\* nodeops.go:110-115: once a Get of any round has shown that a target's name
\* belongs to a new pod, the drain evicts nothing of that name any more, but in
\* a round whose Get of it failed.  There the pod of the list is pending again,
\* and the eviction, which names the pod and not its uid, hits the new one.
ReplacementIsSpared == misfired = {}

\* The node does not stay marked: a later drain is not refused for ever.
MarkIsCleared == draining ~> ~draining

\* manager.go:71-75: in read-only mode no write is issued.  Held against a
\* drain only where the round began in that mode, and evicts in it.
ReadOnlyIsHard ==
    [][\A d \in Drainer, p \in Pod : Evict(d, p) => ~(readOnly /\ d \in lapsed)]_vars

=============================================================================
