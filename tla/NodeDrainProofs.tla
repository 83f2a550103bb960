--------------------------- MODULE NodeDrainProofs ---------------------------
(***************************************************************************)
(* The safety of NodeDrain for any set of pods, any number of concurrent    *)
(* DrainNode calls and any reuse of names.                                 *)
(***************************************************************************)
EXTENDS NodeDrain, TLAPS

USE DEF Uid, NoUid

\* The initial state is well typed.
LEMMA TypeInit == Init => TypeOK
<1> SUFFICES ASSUME Init PROVE TypeOK
  OBVIOUS
<1>1. place \in [Pod -> {"node", "away", "gone"}] /\ uid \in [Pod -> Uid]
  BY DEF Init
<1>2. /\ targets \in [Drainer -> [Pod -> Uid \cup {NoUid}]]
      /\ \A d \in Drainer, p \in Exempt : targets[d][p] = NoUid
  BY ConstantsAssumption DEF Init, None
<1>3. pending \in [Drainer -> [Pod -> {"no", "stays", "leaving"}]]
  BY DEF Init, None
<1>4. {cordoned, readOnly, draining} \subseteq BOOLEAN
  BY DEF Init
<1> QED BY <1>1, <1>2, <1>3, <1>4 DEF Init, TypeOK, PC, None

\* What one step of a drain does to the types.
LEMMA TypeStep ==
    ASSUME TypeOK, NEW d \in Drainer, Step(d)
    PROVE  TypeOK'
<1> USE ConstantsAssumption
<1>1. CASE Begin(d)
  BY <1>1 DEF TypeOK, PC, Begin, Goto, round, history, cluster
<1>2. CASE Mark(d)
  BY <1>2 DEF TypeOK, PC, Mark, Goto, round, history, cluster
<1>3. CASE CordonCheck(d)
  BY <1>3 DEF TypeOK, PC, CordonCheck, Finish, Goto, round, history, cluster
<1>4. CASE Cordon(d)
  BY <1>4 DEF TypeOK, PC, Cordon, Goto, round, history, cluster
<1>5. CASE Fail(d)
  BY <1>5 DEF TypeOK, PC, Fail, Finish, Goto, round, history, cluster
<1>6. CASE ListPods(d)
  <2> DEFINE found == {p \in Pod \ Exempt : place[p] = "node"}
             list == [p \in Pod |-> IF p \in found THEN uid[p] ELSE NoUid]
  <2>1. /\ targets' = [targets EXCEPT ![d] = list]
        /\ gone' = [gone EXCEPT ![d] = found \cap leaving]
        /\ unseen' = [unseen EXCEPT ![d] = found]
        /\ pc' = [pc EXCEPT ![d] = "get"]
        /\ UNCHANGED <<place, uid, leaving, cordoned, readOnly, draining, pending, known, blind,
                       toEvict, misfired, lapsed>>
    BY <1>6 DEF ListPods, ListSkipping, Goto, cluster, history
  <2>2. list \in [Pod -> Uid \cup {NoUid}]
    BY DEF TypeOK
  <2>3. \A p \in Exempt : list[p] = NoUid
    OBVIOUS
  <2>4. /\ targets' \in [Drainer -> [Pod -> Uid \cup {NoUid}]]
        /\ \A e \in Drainer, p \in Exempt : targets'[e][p] = NoUid
    <3> HIDE DEF list
    <3> QED BY <2>1, <2>2, <2>3 DEF TypeOK
  <2>5. /\ gone' \in [Drainer -> SUBSET Pod]
        /\ unseen' \in [Drainer -> SUBSET Pod]
    BY <2>1 DEF TypeOK
  <2>6. pc' \in [Drainer -> PC]
    BY <2>1 DEF TypeOK, PC
  <2> HIDE DEF list, found
  <2> QED BY <2>1, <2>4, <2>5, <2>6 DEF TypeOK
<1>7. ASSUME NEW p \in Pod, Get(d, p) \/ GetError(d, p)
      PROVE TypeOK'
  <2>1. PICK what \in {"no", "stays", "leaving"} : Seen(d, p, what)
    BY <1>7 DEF TypeOK, Get, GetError, Answered, Unanswered, Present
  <2>2. pending' \in [Drainer -> [Pod -> {"no", "stays", "leaving"}]]
    BY <2>1 DEF TypeOK, Seen
  <2>3. known' \in [Drainer -> SUBSET Pod] /\ blind' \in [Drainer -> SUBSET Pod]
    <3>1. /\ known' \in {known, [known EXCEPT ![d] = @ \cup {p}]}
          /\ blind' \in {blind, [blind EXCEPT ![d] = @ \cup {p}]}
      BY <1>7 DEF Get, GetError, Answered, Unanswered
    <3>2. /\ known \in [Drainer -> SUBSET Pod] /\ blind \in [Drainer -> SUBSET Pod]
          /\ known[d] \cup {p} \in SUBSET Pod /\ blind[d] \cup {p} \in SUBSET Pod
      BY DEF TypeOK
    <3>3. known' \in [Drainer -> SUBSET Pod]
      BY <3>1, <3>2
    <3>4. blind' \in [Drainer -> SUBSET Pod]
      BY <3>1, <3>2
    <3> QED BY <3>3, <3>4
  <2> QED BY <2>1, <2>2, <2>3 DEF TypeOK, Seen, cluster, history
<1>8. ASSUME NEW p \in Pod, Evict(d, p)
      PROVE TypeOK'
  BY <1>8 DEF TypeOK, PC, Evict
<1>9. CASE GotAll(d)
  <2>1. toEvict' \in [Drainer -> SUBSET Pod]
    <3> DEFINE stay == {p \in Pod : pending[d][p] = "stays"}
    <3>1. toEvict' \in {toEvict, [toEvict EXCEPT ![d] = stay]}
      BY <1>9 DEF GotAll
    <3>2. stay \in SUBSET Pod
      OBVIOUS
    <3> HIDE DEF stay
    <3> QED BY <3>1, <3>2 DEF TypeOK
  <2>2. pc' \in [Drainer -> PC]
    <3>1. \E l \in PC : Goto(d, l)
      BY <1>9 DEF PC, GotAll, Finish
    <3> QED BY <3>1 DEF TypeOK, Goto
  <2>3. draining' \in BOOLEAN
    BY <1>9 DEF TypeOK, GotAll, Finish
  <2>4. lapsed' \subseteq Drainer
    BY <1>9 DEF TypeOK, GotAll
  <2> QED BY <1>9, <2>1, <2>2, <2>3, <2>4 DEF TypeOK, GotAll, cluster
<1>10. CASE EvictedAll(d)
  BY <1>10 DEF TypeOK, PC, EvictedAll, Goto, round, history, cluster
<1>11. CASE NextRound(d)
  <2>1. pending' \in [Drainer -> [Pod -> {"no", "stays", "leaving"}]]
    BY <1>11 DEF TypeOK, NextRound
  <2>2. blind' \in [Drainer -> SUBSET Pod]
    BY <1>11 DEF TypeOK, NextRound
  <2> QED BY <1>11, <2>1, <2>2 DEF TypeOK, PC, NextRound, Goto, cluster
<1>12. CASE Interrupted(d)
  BY <1>12 DEF TypeOK, PC, Interrupted, Finish, Goto, round, history, cluster
<1> QED BY <1>1, <1>2, <1>3, <1>4, <1>5, <1>6, <1>7, <1>8, <1>9, <1>10, <1>11, <1>12 DEF Step

\* Every step of the system keeps the state well typed.
LEMMA TypeNext == TypeOK /\ [Next]_vars => TypeOK'
<1> SUFFICES ASSUME TypeOK, [Next]_vars PROVE TypeOK'
  OBVIOUS
<1> USE ConstantsAssumption
<1>1. ASSUME NEW p \in Pod, Deleted(p) \/ Terminated(p) \/ Recreated(p)
      PROVE TypeOK'
  <2>1. CASE Deleted(p) \/ Terminated(p)
    BY <2>1 DEF TypeOK, Deleted, Terminated, drain, round, history
  <2>2. CASE Recreated(p)
    <3>1. place' \in [Pod -> {"node", "away", "gone"}]
      BY <2>2 DEF TypeOK, Recreated
    <3>2. uid' \in [Pod -> Uid]
      BY <2>2 DEF TypeOK, Recreated
    <3> QED BY <2>2, <3>1, <3>2 DEF TypeOK, Recreated, drain, round, history
  <2> QED BY <1>1, <2>1, <2>2
<1>2. CASE Uncordon \/ SetReadOnly
  BY <1>2 DEF TypeOK, Uncordon, SetReadOnly, cluster, drain, round, history
<1>3. ASSUME NEW d \in Drainer, Step(d)
      PROVE TypeOK'
  BY <1>3, TypeStep
<1>4. CASE UNCHANGED vars
  BY <1>4 DEF TypeOK, vars, cluster, round, history
<1> QED BY <1>1, <1>2, <1>3, <1>4 DEF Next

\* The state of the cluster and of the drains is always well typed; no
\* exempt pod is ever a target.
THEOREM TypeCorrect == Spec => []TypeOK
BY TypeInit, TypeNext, PTL DEF Spec

-----------------------------------------------------------------------------
\* OneDrain is inductive.  DoneMeansGone and ReplacementIsSpared need to know
\* what a drain has learnt of its targets.

\* The pod of the list that had this name is not there any more.
Ended(d, p) == place[p] = "gone" \/ uid[p] # targets[d][p]

\* A name is reused with a later uid only: what has ended stays ended.
TargetsAreOld(d) == \A p \in Pod : targets[d][p] <= uid[p]

\* Before the list, no round has left anything.
NoRoundYet(d) ==
    pc[d] \in {"idle", "guard", "cordonCheck", "cordon", "list"} =>
        known[d] = {} /\ \A p \in Pod : pending[d][p] = "no"

\* In the first half of a round: a target seen and not pending has ended.
SeenHasEnded(d) ==
    pc[d] = "get" =>
        \A p \in Pod : targets[d][p] # NoUid /\ p \notin unseen[d] /\ pending[d][p] = "no"
                        => Ended(d, p)

\* A name found with another pod never has the pod of the list again.
KnownIsNew(d) == \A p \in known[d] : targets[d][p] < uid[p]

\* A pod is pending because its Get returned the pod of the list, which no
\* earlier Get found replaced, or because it failed.
PendingIsTarget(d) ==
    \A p \in Pod : pending[d][p] # "no" => p \notin known[d] \ blind[d]

EvictsPending(d) ==
    pc[d] = "evict" => \A p \in toEvict[d] : pending[d][p] # "no"

DoneHasEnded(d) ==
    pc[d] = "done" => \A p \in Pod : targets[d][p] # NoUid => Ended(d, p)

RoundOf(d) ==
    /\ TargetsAreOld(d)
    /\ NoRoundYet(d)
    /\ KnownIsNew(d)
    /\ SeenHasEnded(d)
    /\ PendingIsTarget(d)
    /\ EvictsPending(d)
    /\ DoneHasEnded(d)

RoundInv == ReplacementIsSpared /\ \A d \in Drainer : RoundOf(d)

\* Initially nobody drains.
LEMMA OneDrainInit == Init => OneDrain
BY DEF Init, OneDrain, Working, None

\* A drain sets the mark only if it is not set, and every return clears it.
LEMMA OneDrainNext == TypeOK /\ OneDrain /\ [Next]_vars => OneDrain'
<1> SUFFICES ASSUME TypeOK, OneDrain, [Next]_vars PROVE OneDrain'
  OBVIOUS
<1> USE DEF TypeOK, OneDrain, Working
<1>1. ASSUME NEW d \in Drainer, Begin(d)
      PROVE OneDrain'
  BY <1>1 DEF Begin, Goto
<1>2. ASSUME NEW d \in Drainer, Mark(d)
      PROVE OneDrain'
  <2>1. CASE draining
    <3>1. \A e \in Drainer : pc'[e] \in Working <=> pc[e] \in Working
      BY <1>2, <2>1 DEF Mark, Goto
    <3> QED BY <1>2, <2>1, <3>1 DEF Mark
  <2>2. CASE ~draining
    <3>1. \A e \in Drainer : pc'[e] \in Working <=> e = d
      BY <1>2, <2>2 DEF Mark, Goto
    <3> QED BY <1>2, <3>1 DEF Mark
  <2> QED BY <2>1, <2>2
<1>f. ASSUME NEW d \in Drainer, NEW l \in PC \ Working, pc[d] \in Working, Finish(d, l)
      PROVE OneDrain'
  <2>1. \A e \in Drainer : pc'[e] \notin Working
    BY <1>f DEF Finish, Goto, PC
  <2> QED BY <1>f, <2>1 DEF Finish
<1>g. ASSUME NEW d \in Drainer, NEW l \in Working, pc[d] \in Working, Goto(d, l), UNCHANGED draining
      PROVE OneDrain'
  <2>1. \A e \in Drainer : pc'[e] \in Working <=> pc[e] \in Working
    BY <1>g DEF Goto, PC
  <2> QED BY <1>g, <2>1
<1>3. ASSUME NEW d \in Drainer, CordonCheck(d) \/ Cordon(d) \/ Fail(d) \/ Interrupted(d)
      PROVE OneDrain'
  <2>1. pc[d] \in Working
    BY <1>3 DEF CordonCheck, Cordon, Fail, Interrupted
  <2>2. \/ Finish(d, "failed") \/ Finish(d, "interrupted")
        \/ (Goto(d, "cordon") \/ Goto(d, "list")) /\ UNCHANGED draining
    BY <1>3 DEF CordonCheck, Cordon, Fail, Interrupted
  <2> QED BY <2>1, <2>2, <1>f, <1>g DEF PC
<1>4. ASSUME NEW d \in Drainer,
             ListPods(d) \/ GotAll(d) \/ EvictedAll(d) \/ NextRound(d)
      PROVE OneDrain'
  <2>1. pc[d] \in Working
    BY <1>4 DEF ListPods, ListSkipping, GotAll, EvictedAll, NextRound
  <2>2. \/ Finish(d, "done")
        \/ (Goto(d, "get") \/ Goto(d, "evict") \/ Goto(d, "wait")) /\ UNCHANGED draining
    BY <1>4 DEF ListPods, ListSkipping, GotAll, EvictedAll, NextRound
  <2> QED BY <2>1, <2>2, <1>f, <1>g DEF PC
<1>5. ASSUME NEW d \in Drainer, NEW p \in Pod, Get(d, p) \/ GetError(d, p) \/ Evict(d, p)
      PROVE OneDrain'
  BY <1>5 DEF Get, GetError, Answered, Unanswered, Seen, Evict
<1>6. ASSUME \/ \E p \in Pod : Deleted(p) \/ Terminated(p) \/ Recreated(p)
             \/ Uncordon \/ SetReadOnly
             \/ UNCHANGED vars
      PROVE OneDrain'
  BY <1>6 DEF Deleted, Terminated, Recreated, Uncordon, SetReadOnly, drain, vars
<1> QED BY <1>1, <1>2, <1>3, <1>4, <1>5, <1>6 DEF Next, Step

\* Two drains of a node never work at the same time, for any number of calls.
THEOREM OneDrainTheorem == Spec => []OneDrain
<1>1. Init => TypeOK /\ OneDrain
  BY TypeInit, OneDrainInit
<1>2. TypeOK /\ OneDrain /\ [Next]_vars => TypeOK' /\ OneDrain'
  BY TypeNext, OneDrainNext
<1> QED BY <1>1, <1>2, PTL DEF Spec

-----------------------------------------------------------------------------
\* Initially there are no targets.
LEMMA RoundInit == Init => RoundInv
<1> SUFFICES ASSUME Init PROVE RoundInv
  OBVIOUS
<1> USE DEF Init, None
<1>1. ReplacementIsSpared
  BY DEF ReplacementIsSpared
<1>2. ASSUME NEW d \in Drainer
      PROVE RoundOf(d)
  <2>1. TargetsAreOld(d)
    BY DEF TargetsAreOld
  <2>2. NoRoundYet(d) /\ KnownIsNew(d) /\ PendingIsTarget(d)
    BY DEF NoRoundYet, KnownIsNew, PendingIsTarget
  <2>3. SeenHasEnded(d) /\ EvictsPending(d) /\ DoneHasEnded(d)
    BY DEF SeenHasEnded, EvictsPending, DoneHasEnded
  <2> QED BY <2>1, <2>2, <2>3 DEF RoundOf
<1> QED BY <1>1, <1>2 DEF RoundInv

\* Whatever the cluster does, a pod that has ended does not come back.
LEMMA RoundCluster ==
    ASSUME TypeOK, RoundInv, NEW q \in Pod,
           Deleted(q) \/ Terminated(q) \/ Recreated(q)
    PROVE  RoundInv'
<1>1. UNCHANGED drain
  BY DEF Deleted, Terminated, Recreated
<1>2. \A p \in Pod : uid'[p] \in Nat /\ uid[p] \in Nat /\ uid[p] <= uid'[p]
  <2>1. CASE Deleted(q) \/ Terminated(q)
    BY <2>1, ConstantsAssumption DEF TypeOK, Deleted, Terminated
  <2>2. CASE Recreated(q)
    <3>1. uid' = [uid EXCEPT ![q] = @ + 1]
      BY <2>2 DEF Recreated
    <3> QED BY <3>1, ConstantsAssumption DEF TypeOK
  <2> QED BY <2>1, <2>2
<1>3. ASSUME NEW d \in Drainer
      PROVE RoundOf(d)'
  <2>1. \A p \in Pod : targets[d][p] \in Nat /\ targets[d][p] <= uid[p]
    BY ConstantsAssumption DEF RoundInv, RoundOf, TargetsAreOld, TypeOK
  <2>2. UNCHANGED <<pc, targets, unseen, pending, known, blind, toEvict>>
    BY <1>1 DEF drain, round
  <2>3. ASSUME NEW p \in Pod, Ended(d, p)
        PROVE Ended(d, p)'
    <3>1. CASE Deleted(q) \/ Terminated(q)
      BY <2>2, <2>3, <3>1 DEF Ended, TypeOK, Deleted, Terminated
    <3>2. CASE Recreated(q) /\ p = q
      <4>1. uid'[p] = uid[p] + 1
        BY <3>2 DEF Recreated, TypeOK
      <4> QED BY <1>2, <2>1, <2>2, <4>1 DEF Ended
    <3>3. CASE Recreated(q) /\ p # q
      BY <2>2, <2>3, <3>3 DEF Ended, Recreated, TypeOK
    <3> QED BY <3>1, <3>2, <3>3
  <2>4. TargetsAreOld(d)' /\ KnownIsNew(d)'
    <3>1. \A p \in known[d] : p \in Pod /\ targets[d][p] < uid[p]
      BY DEF RoundInv, RoundOf, KnownIsNew, TypeOK
    <3> QED BY <1>2, <2>1, <2>2, <3>1 DEF TargetsAreOld, KnownIsNew
  <2>5. NoRoundYet(d)' /\ PendingIsTarget(d)' /\ EvictsPending(d)'
    BY <2>2 DEF RoundInv, RoundOf, NoRoundYet, PendingIsTarget, EvictsPending
  <2>6. SeenHasEnded(d)' /\ DoneHasEnded(d)'
    BY <2>2, <2>3 DEF RoundInv, RoundOf, SeenHasEnded, DoneHasEnded
  <2> QED BY <2>4, <2>5, <2>6 DEF RoundOf
<1> QED BY <1>1, <1>3 DEF RoundInv, ReplacementIsSpared, drain, history

\* A step of drain d tells the other drains nothing.
LEMMA RoundOthers ==
    ASSUME TypeOK, RoundInv, NEW d \in Drainer, NEW e \in Drainer \ {d}, Step(d)
    PROVE  RoundOf(e)'
<1>1. /\ UNCHANGED <<place, uid>>
      /\ pc'[e] = pc[e]
      /\ targets'[e] = targets[e]
      /\ unseen'[e] = unseen[e]
      /\ pending'[e] = pending[e]
      /\ known'[e] = known[e] /\ blind'[e] = blind[e]
      /\ toEvict'[e] = toEvict[e]
  <2> USE DEF TypeOK, Goto, Finish, cluster, round, history
  <2>1. CASE Begin(d) \/ Mark(d) \/ CordonCheck(d) \/ Cordon(d) \/ Fail(d)
    BY <2>1 DEF Begin, Mark, CordonCheck, Cordon, Fail
  <2>2. CASE ListPods(d)
    BY <2>2 DEF ListPods, ListSkipping
  <2>3. CASE \E p \in Pod : Get(d, p) \/ GetError(d, p) \/ Evict(d, p)
    BY <2>3 DEF Get, GetError, Answered, Unanswered, Seen, Evict
  <2>4. CASE GotAll(d) \/ EvictedAll(d) \/ NextRound(d) \/ Interrupted(d)
    BY <2>4 DEF GotAll, EvictedAll, NextRound, Interrupted
  <2> QED BY <2>1, <2>2, <2>3, <2>4 DEF Step
<1>2. RoundOf(e)
  BY DEF RoundInv
<1> QED BY <1>1, <1>2 DEF RoundOf, TargetsAreOld, NoRoundYet, KnownIsNew, SeenHasEnded,
                          PendingIsTarget, EvictsPending, DoneHasEnded, Ended

\* What a step of drain d does to its own round.
LEMMA RoundOwn ==
    ASSUME TypeOK, RoundInv, NEW d \in Drainer, Step(d)
    PROVE  RoundOf(d)' /\ ReplacementIsSpared'
<1> USE DEF ReplacementIsSpared, RoundOf
<1>1. RoundOf(d) /\ misfired = {}
  BY DEF RoundInv
<1>2. CASE Begin(d) \/ Mark(d) \/ CordonCheck(d) \/ Cordon(d) \/ Fail(d)
  <2>1. /\ UNCHANGED <<place, uid, targets, unseen, pending, known, blind, toEvict, misfired>>
        /\ pc[d] \in {"idle", "guard", "cordonCheck", "cordon", "list"}
        /\ pc'[d] \in {"guard", "cordonCheck", "cordon", "list", "refused", "failed"}
    BY <1>2 DEF TypeOK, Begin, Mark, CordonCheck, Cordon, Fail, Goto, Finish, cluster, round,
                history
  <2> QED BY <1>1, <2>1 DEF TargetsAreOld, NoRoundYet, KnownIsNew, SeenHasEnded,
                            PendingIsTarget, EvictsPending, DoneHasEnded
<1>3. CASE ListPods(d)
  <2>1. /\ UNCHANGED <<place, uid, pending, known, blind, toEvict, misfired>>
        /\ pc[d] = "list" /\ pc'[d] = "get"
    BY <1>3 DEF TypeOK, ListPods, ListSkipping, Goto, cluster, history
  <2>2. \A p \in Pod : targets'[d][p] \in {NoUid, uid[p]}
    BY <1>3 DEF TypeOK, ListPods, ListSkipping
  <2>3. \A p \in Pod : targets'[d][p] # NoUid => p \in unseen'[d]
    BY <1>3 DEF TypeOK, ListPods, ListSkipping
  <2>4. known'[d] = {} /\ \A p \in Pod : pending'[d][p] = "no"
    BY <1>1, <2>1 DEF NoRoundYet
  <2>5. TargetsAreOld(d)'
    <3>1. \A p \in Pod : uid[p] \in Nat
      BY ConstantsAssumption DEF TypeOK
    <3> QED BY <2>1, <2>2, <3>1 DEF TargetsAreOld
  <2> QED BY <1>1, <2>1, <2>3, <2>4, <2>5 DEF NoRoundYet, KnownIsNew, SeenHasEnded,
                                         PendingIsTarget, EvictsPending, DoneHasEnded
<1>4. ASSUME NEW p \in Pod, Get(d, p) \/ GetError(d, p)
      PROVE RoundOf(d)' /\ ReplacementIsSpared'
  <2>1. /\ UNCHANGED <<place, uid, pc, targets, toEvict, misfired>>
        /\ pc[d] = "get"
        /\ unseen'[d] = unseen[d] \ {p}
    BY <1>4 DEF TypeOK, Get, GetError, Answered, Unanswered, Seen, cluster, history
  <2>2. /\ \A q \in Pod \ {p} : pending'[d][q] = pending[d][q]
        /\ known'[d] \ {p} = known[d] \ {p} /\ blind[d] \subseteq blind'[d]
    BY <1>4 DEF TypeOK, Get, GetError, Answered, Unanswered, Seen
  <2>3. pending'[d][p] = "no" => Ended(d, p)
    BY <1>4 DEF TypeOK, Get, GetError, Answered, Unanswered, Seen, Present, Replaced, Ended
  <2>4. p \in known'[d] => targets[d][p] < uid[p]
    <3>1. targets[d][p] \in Nat /\ uid[p] \in Nat /\ targets[d][p] <= uid[p]
      BY <1>1, ConstantsAssumption DEF TargetsAreOld, TypeOK
    <3>2. p \in known'[d] => p \in known[d] \/ Replaced(d, p)
      BY <1>4 DEF TypeOK, Get, GetError, Answered, Unanswered
    <3> QED BY <1>1, <3>1, <3>2 DEF KnownIsNew, Replaced
  <2>5. pending'[d][p] # "no" => p \notin known'[d] \ blind'[d]
    <3>1. CASE Get(d, p)
      <4>1. pending'[d][p] # "no" => uid[p] = targets[d][p]
        BY <3>1 DEF TypeOK, Get, Answered, Seen, Replaced
      <4>2. uid[p] \in Nat
        BY ConstantsAssumption DEF TypeOK
      <4> QED BY <2>4, <4>1, <4>2
    <3>2. CASE GetError(d, p)
      BY <3>2 DEF TypeOK, GetError, Unanswered
    <3> QED BY <1>4, <3>1, <3>2
  <2>6. SeenHasEnded(d)'
    BY <1>1, <2>1, <2>2, <2>3 DEF SeenHasEnded, Ended
  <2>7. PendingIsTarget(d)'
    <3>1. \A q \in Pod \ {p} : q \in known'[d] \ blind'[d] => q \in known[d] \ blind[d]
      BY <2>2
    <3> QED BY <1>1, <2>1, <2>2, <2>5, <3>1 DEF PendingIsTarget
  <2>8. KnownIsNew(d)'
    <3>1. \A q \in known'[d] : q = p \/ q \in known[d]
      BY <2>2
    <3> QED BY <1>1, <2>1, <2>4, <3>1 DEF KnownIsNew
  <2> QED BY <1>1, <2>1, <2>6, <2>7, <2>8 DEF TargetsAreOld, NoRoundYet, EvictsPending,
                                         DoneHasEnded
<1>5. CASE GotAll(d)
  <2>1. /\ UNCHANGED <<place, uid, targets, unseen, pending, known, blind, misfired>>
        /\ pc[d] = "get" /\ unseen[d] = {}
        /\ pc'[d] \in {"done", "evict"}
        /\ pc'[d] = "done" => \A p \in Pod : pending[d][p] = "no"
    BY <1>5 DEF TypeOK, GotAll, Finish, Goto, Pending, cluster, history
  <2>2. pc'[d] = "evict" => \A p \in toEvict'[d] : pending[d][p] = "stays"
    BY <1>5 DEF TypeOK, GotAll, Finish, Goto
  <2>3. DoneHasEnded(d)'
    BY <1>1, <2>1 DEF SeenHasEnded, DoneHasEnded, Ended
  <2> QED BY <1>1, <2>1, <2>2, <2>3 DEF TargetsAreOld, NoRoundYet, KnownIsNew, SeenHasEnded,
                                       PendingIsTarget, EvictsPending
<1>6. ASSUME NEW p \in Pod, Evict(d, p)
      PROVE RoundOf(d)' /\ ReplacementIsSpared'
  <2>1. /\ UNCHANGED <<place, uid, pc, targets, unseen, pending, known, blind>>
        /\ pc[d] = "evict" /\ p \in toEvict[d]
        /\ toEvict'[d] \subseteq toEvict[d]
    BY <1>6 DEF TypeOK, Evict
  <2>2. p \notin known[d] \ blind[d]
    BY <1>1, <2>1 DEF EvictsPending, PendingIsTarget
  <2>3. misfired' = {}
    BY <1>1, <1>6, <2>2 DEF Evict
  <2> QED BY <1>1, <2>1, <2>3 DEF TargetsAreOld, NoRoundYet, KnownIsNew, SeenHasEnded,
                                 PendingIsTarget, EvictsPending, DoneHasEnded, Ended
<1>7. CASE NextRound(d)
  <2>1. /\ UNCHANGED <<place, uid, targets, known, toEvict, misfired>>
        /\ pc'[d] = "get"
        /\ unseen'[d] = {p \in Pod : targets[d][p] # NoUid}
        /\ \A p \in Pod : pending'[d][p] = "no"
    BY <1>7 DEF TypeOK, NextRound, Goto, cluster
  <2> QED BY <1>1, <2>1 DEF TargetsAreOld, NoRoundYet, KnownIsNew, SeenHasEnded,
                            PendingIsTarget, EvictsPending, DoneHasEnded
<1>8. CASE EvictedAll(d) \/ Interrupted(d)
  <2>1. /\ UNCHANGED <<place, uid, targets, unseen, pending, known, blind, toEvict, misfired>>
        /\ pc'[d] \in {"wait", "interrupted"}
    BY <1>8 DEF TypeOK, EvictedAll, Interrupted, Goto, Finish, cluster, round, history
  <2> QED BY <1>1, <2>1 DEF TargetsAreOld, NoRoundYet, KnownIsNew, SeenHasEnded,
                            PendingIsTarget, EvictsPending, DoneHasEnded
<1> QED BY <1>2, <1>3, <1>4, <1>5, <1>6, <1>7, <1>8 DEF Step

\* RoundInv is inductive.
LEMMA RoundNext == TypeOK /\ RoundInv /\ [Next]_vars => RoundInv'
<1> SUFFICES ASSUME TypeOK, RoundInv, [Next]_vars PROVE RoundInv'
  OBVIOUS
<1>1. CASE \E p \in Pod : Deleted(p) \/ Terminated(p) \/ Recreated(p)
  BY <1>1, RoundCluster
<1>2. ASSUME NEW d \in Drainer, Step(d)
      PROVE RoundInv'
  <2>1. \A e \in Drainer \ {d} : RoundOf(e)'
    BY <1>2, RoundOthers
  <2>2. RoundOf(d)' /\ ReplacementIsSpared'
    BY <1>2, RoundOwn
  <2> QED BY <2>1, <2>2 DEF RoundInv
<1>3. CASE Uncordon \/ SetReadOnly \/ UNCHANGED vars
  <2>1. UNCHANGED <<place, uid, pc, targets, unseen, pending, known, blind, toEvict, misfired>>
    BY <1>3 DEF Uncordon, SetReadOnly, drain, vars, cluster, round, history
  <2> QED BY <2>1 DEF RoundInv, RoundOf, TargetsAreOld, NoRoundYet, KnownIsNew, SeenHasEnded,
                      PendingIsTarget, EvictsPending, DoneHasEnded, Ended, ReplacementIsSpared
<1> QED BY <1>1, <1>2, <1>3 DEF Next

\* The state is well typed and RoundInv holds throughout.
LEMMA Invariance == Spec => [](TypeOK /\ RoundInv)
<1>1. Init => TypeOK /\ RoundInv
  BY TypeInit, RoundInit
<1>2. TypeOK /\ RoundInv /\ [Next]_vars => TypeOK' /\ RoundInv'
  BY TypeNext, RoundNext
<1> QED BY <1>1, <1>2, PTL DEF Spec

\* A drain that reports done has seen the end of every pod it listed, for any
\* pods, API errors and reuse of names.
THEOREM DoneTheorem == Spec => []DoneMeansGone
<1>1. RoundInv => DoneMeansGone
  BY DEF RoundInv, RoundOf, DoneHasEnded, DoneMeansGone, Ended
<1> QED BY <1>1, Invariance, PTL

\* A drain that has once learnt that a name belongs to a new pod evicts nothing
\* of that name any more, whatever the cluster does and however many rounds go
\* by, but in a round whose Get of it failed.
THEOREM SparedTheorem == Spec => []ReplacementIsSpared
<1>1. RoundInv => ReplacementIsSpared
  BY DEF RoundInv
<1> QED BY <1>1, Invariance, PTL

=============================================================================
