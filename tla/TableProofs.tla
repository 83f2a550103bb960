---------------------------- MODULE TableProofs ----------------------------
(***************************************************************************)
(* MCTable for any lists, watchers, mounts and bounds: a quiet page has the *)
(* data of the watcher that runs, a context that is not active has no rows, *)
(* and a view of a custom resource is served by the watcher its call found. *)
(***************************************************************************)
EXTENDS MCTable, AnswerQueues

-----------------------------------------------------------------------------
(***************************************************************************)
(* KindTable.                                                               *)
(***************************************************************************)

\* What InactiveIsEmpty rests on: only a table that is set up has calls and
\* answers under way, and it is set up only for an active context.  Every stop
\* under way is owed to one of the mounts.
Cancelled ==
    /\ ~active => ~mounted /\ shown = Empty
    /\ ~mounted => sent = 0 /\ responses = <<>>
    /\ stops + (IF active THEN 1 ELSE 0) <= mounts

\* The watcher that announced its list and has nothing left to announce has
\* called back, too early if it was not yet installed.
Announced ==
    /\ installed # NoWatcher => watch[installed] = "returned"
    /\ \A w \in Watcher :
          sync[w] = "announced" /\ w \notin owed \cup stopped /\ watch[w] # "returned"
              => w \in early

\* No change of the installed watcher is on its way to the table, which has no
\* call under way.
Quiet ==
    /\ mounted /\ Healthy
    /\ sync[installed] = "announced" /\ installed \notin owed
    /\ inbox = 0 /\ sent = 0

\* The answer read last has the installed watcher's list, or is an error, and
\* it is still to come; or it has come, and what is to come is older.
NewestIsCurrent ==
    \/ /\ Len(responses) > 0
       /\ ~responses[Len(responses)].overtaken
       /\ \/ responses[Len(responses)].failed
          \/ responses[Len(responses)].list = held[installed]
    \/ /\ \A j \in 1..Len(responses) : responses[j].overtaken
       /\ outrun \/ shown = held[installed]

TableInv == TypeOK /\ Cancelled /\ Announced /\ (Quiet => NewestIsCurrent)

-----------------------------------------------------------------------------
\* When an answer arrives those read before it are overtaken.
LEMMA DeliverFacts ==
    ASSUME TypeOK, NEW i \in 1..Len(responses), Deliver(i)
    PROVE  /\ Len(responses) \in Nat /\ i \in Nat
           /\ responses[i] \in Response
           /\ responses' \in Seq(Response) /\ Len(responses') = Len(responses) - 1
           /\ i < Len(responses) =>
                 /\ Len(responses') > 0
                 /\ responses'[Len(responses')] = responses[Len(responses)]
           /\ (i = Len(responses) \/ \A j \in 1..Len(responses) : responses[j].overtaken) =>
                 \A j \in 1..Len(responses') : responses'[j].overtaken
<1> DEFINE n == Len(responses)
           marked == [j \in 1..n |-> [responses[j] EXCEPT !.overtaken = @ \/ j < i]]
<1>1. responses \in Seq(Response) /\ n \in Nat /\ i \in Nat /\ i <= n
  BY LenProperties DEF TypeOK
<1>2. \A j \in 1..n : responses[j] \in Response
  BY <1>1, ElementOfSeq
<1>3. ASSUME NEW j \in 1..n
      PROVE  /\ marked[j] \in Response
             /\ marked[j].overtaken = (responses[j].overtaken \/ j < i)
             /\ ~(j < i) => marked[j] = responses[j]
  <2>1. marked[j] = [responses[j] EXCEPT !.overtaken = @ \/ j < i]
    OBVIOUS
  <2>2. responses[j] \in Response
    BY <1>2
  <2>3. CASE j < i
    BY <2>1, <2>2, <2>3 DEF Response
  <2>4. CASE ~(j < i)
    BY <2>1, <2>2, <2>4 DEF Response
  <2> QED BY <2>3, <2>4
<1>4. marked \in [1..n -> Response]
  BY <1>3
<1>5. responses' = RemoveAt(marked, i)
  BY DEF Deliver
<1> HIDE DEF marked
<1>6. /\ responses' \in Seq(Response) /\ Len(responses') = n - 1
      /\ i < n => Len(responses') # 0 /\ responses'[Len(responses')] = marked[n]
      /\ \A j \in 1..Len(responses') : /\ j < i => responses'[j] = marked[j]
                                       /\ j >= i => responses'[j] = marked[j + 1]
  BY <1>1, <1>4, <1>5, TakenFacts
<1>7. i < n => /\ Len(responses') > 0
               /\ responses'[Len(responses')] = responses[n]
  BY <1>1, <1>3, <1>6
<1>8. ASSUME i = n \/ \A j \in 1..n : responses[j].overtaken, NEW j \in 1..Len(responses')
      PROVE  responses'[j].overtaken
  <2>1. PICK k \in 1..n : k # i /\ responses'[j] = marked[k]
    <3>1. CASE j < i
      BY <1>1, <1>6, <3>1
    <3>2. CASE j >= i
      BY <1>1, <1>6, <3>2
    <3> QED BY <1>1, <1>6, <3>1, <3>2
  <2>2. responses[k].overtaken \/ k < i
    BY <1>1, <1>8, <2>1
  <2> QED BY <1>3, <2>1, <2>2
<1> QED BY <1>1, <1>2, <1>6, <1>7, <1>8

\* The answers when one more is read.
LEMMA ReadFacts ==
    ASSUME TypeOK, NEW r \in Response, responses' = Append(responses, r)
    PROVE  /\ responses' \in Seq(Response) /\ Len(responses) \in Nat
           /\ Len(responses') = Len(responses) + 1
           /\ responses'[Len(responses')] = r
BY AppendFacts DEF TypeOK

\* What a list call reads is a list, whatever watcher is installed.
LEMMA ListFacts ==
    ASSUME TypeOK
    PROVE  /\ (IF installed = NoWatcher THEN Empty ELSE held[installed]) \in List
           /\ \A list \in List, failed \in BOOLEAN :
                 [list |-> list, failed |-> failed, overtaken |-> FALSE] \in Response
BY ConstantsAssumption DEF TypeOK, Response

LEMMA TableInitInv == Init => TableInv
<1> SUFFICES ASSUME Init PROVE TableInv
  OBVIOUS
<1> USE ConstantsAssumption DEF Init
<1>1. responses \in Seq(Response) /\ Len(responses) = 0
  BY EmptySeq
<1>2. {active, mounted, syncedKind, loaded, graced, outrun} \subseteq BOOLEAN
  OBVIOUS
<1>3. {stops, mounts} \subseteq 0..MaxMount /\ sent + Len(responses) <= MaxRequest
  BY <1>1
<1>4. TypeOK
  BY <1>1, <1>2, <1>3 DEF TypeOK
<1>5. Cancelled /\ Announced
  BY DEF Cancelled, Announced
<1>6. ~Quiet
  BY DEF Quiet
<1> QED BY <1>4, <1>5, <1>6 DEF TableInv

-----------------------------------------------------------------------------
\* Every step is one of these.
LEMMA TableSteps ==
    ASSUME [Next]_vars
    PROVE  \/ ClusterChanges
           \/ \E w \in Watcher :
                 \/ WatchExisting(w) \/ WatchStarted(w) \/ WatchFails(w) \/ WatchInstalls(w)
                 \/ Receive(w) \/ CacheSynced(w) \/ AnnounceSynced(w) \/ Callback(w)
                 \/ Restart(w)
           \/ StopWatch \/ Remount \/ Unmount \/ Deactivate
           \/ Event \/ Answer \/ Refuse \/ GraceTimer
           \/ \E i \in 1..Len(responses) : Deliver(i)
           \/ UNCHANGED vars
BY DEF Next, WatchStep, DeliverAny

\* A list of answers that is emptied.
LEMMA NoneFacts ==
    ASSUME responses' = <<>>
    PROVE  responses' \in Seq(Response) /\ Len(responses') = 0
BY EmptySeq

\* Every step keeps the types; that the stops under way are bounded rests on
\* each mount causing one of them at most.
LEMMA TableTypeNext == TypeOK /\ Cancelled /\ [Next]_vars => TypeOK'
<1> SUFFICES ASSUME TypeOK, Cancelled, [Next]_vars PROVE TypeOK'
  OBVIOUS
<1> USE ConstantsAssumption DEF TypeOK, backend, table
<1>1. CASE ClusterChanges
  BY <1>1 DEF ClusterChanges
<1>2. ASSUME NEW w \in Watcher, WatchExisting(w) PROVE TypeOK'
  BY <1>2 DEF WatchExisting, Stopping
<1>3. ASSUME NEW w \in Watcher, WatchStarted(w) PROVE TypeOK'
  BY <1>3 DEF WatchStarted
<1>4. ASSUME NEW w \in Watcher, WatchFails(w) PROVE TypeOK'
  BY <1>4 DEF WatchFails
<1>5. ASSUME NEW w \in Watcher, WatchInstalls(w) PROVE TypeOK'
  BY <1>5 DEF WatchInstalls
<1>6. ASSUME NEW w \in Watcher, Receive(w) PROVE TypeOK'
  BY <1>6 DEF Receive
<1>7. ASSUME NEW w \in Watcher, CacheSynced(w) PROVE TypeOK'
  BY <1>7 DEF CacheSynced
<1>8. ASSUME NEW w \in Watcher, AnnounceSynced(w) PROVE TypeOK'
  BY <1>8 DEF AnnounceSynced
<1>9. ASSUME NEW w \in Watcher, Callback(w) PROVE TypeOK'
  BY <1>9 DEF Callback
<1>10. ASSUME NEW w \in Watcher, Restart(w) PROVE TypeOK'
  <2>1. responses' = <<>>
    BY <1>10 DEF Restart, SetUp
  <2>2. {active, mounted, syncedKind, loaded, graced, outrun}' \subseteq BOOLEAN
    BY <1>10 DEF Restart, SetUp
  <2> QED BY <1>10, <2>1, <2>2, NoneFacts DEF Restart, SetUp, Cancelled
<1>11. CASE StopWatch
  BY <1>11 DEF StopWatch, Stopping
<1>12. CASE Remount
  <2>1. responses' = <<>>
    BY <1>12 DEF Remount, SetUp
  <2>2. {active, mounted, syncedKind, loaded, graced, outrun}' \subseteq BOOLEAN
    BY <1>12 DEF Remount, SetUp
  <2> QED BY <1>12, <2>1, <2>2, NoneFacts DEF Remount, SetUp
<1>13. CASE Unmount
  <2>1. responses' = <<>>
    BY <1>13 DEF Unmount, CleanUp
  <2>2. {active, mounted, syncedKind, loaded, graced, outrun}' \subseteq BOOLEAN
    BY <1>13 DEF Unmount, CleanUp
  <2> QED BY <1>13, <2>1, <2>2, NoneFacts DEF Unmount, CleanUp
<1>14. CASE Deactivate
  <2>1. responses' = <<>>
    BY <1>14 DEF Deactivate, CleanUp
  <2>2. {active, mounted, syncedKind, loaded, graced, outrun}' \subseteq BOOLEAN
    BY <1>14 DEF Deactivate, CleanUp
  <2> QED BY <1>14, <2>1, <2>2, NoneFacts DEF Deactivate, CleanUp
<1>15. CASE Event
  BY <1>15, LenProperties DEF Event, InFlight
<1>16. CASE Answer
  <2>1. PICK r \in Response : responses' = Append(responses, r)
    BY <1>16, ListFacts DEF Answer
  <2>2. /\ responses' \in Seq(Response) /\ Len(responses) \in Nat
        /\ Len(responses') = Len(responses) + 1
    BY <2>1, ReadFacts
  <2> QED BY <1>16, <2>2 DEF Answer
<1>17. CASE Refuse
  <2>1. PICK r \in Response : responses' = Append(responses, r)
    BY <1>17, ListFacts DEF Refuse
  <2>2. /\ responses' \in Seq(Response) /\ Len(responses) \in Nat
        /\ Len(responses') = Len(responses) + 1
    BY <2>1, ReadFacts
  <2> QED BY <1>17, <2>2 DEF Refuse
<1>18. CASE GraceTimer
  BY <1>18 DEF GraceTimer
<1>19. ASSUME NEW i \in 1..Len(responses), Deliver(i) PROVE TypeOK'
  <2>1. /\ responses' \in Seq(Response) /\ Len(responses') = Len(responses) - 1
        /\ Len(responses) \in Nat /\ responses[i] \in Response
    BY <1>19, DeliverFacts
  <2>2. shown' \in List /\ loaded' \in BOOLEAN /\ outrun' \in BOOLEAN
    BY <1>19, <2>1 DEF Deliver, Response
  <2>3. {active, mounted, syncedKind, loaded, graced, outrun}' \subseteq BOOLEAN
    BY <1>19, <2>2 DEF Deliver
  <2>4. UNCHANGED <<backend, stops, inbox, active, syncedKind, mounted, mounts, sent>>
    BY <1>19 DEF Deliver
  <2> QED BY <2>1, <2>2, <2>3, <2>4
<1>20. CASE UNCHANGED vars
  BY <1>20 DEF vars
<1> QED BY <1>1, <1>2, <1>3, <1>4, <1>5, <1>6, <1>7, <1>8, <1>9, <1>10, <1>11, <1>12,
           <1>13, <1>14, <1>15, <1>16, <1>17, <1>18, <1>19, <1>20, TableSteps

LEMMA CancelledNext == TypeOK /\ Cancelled /\ [Next]_vars => Cancelled'
<1> SUFFICES ASSUME TypeOK, Cancelled, [Next]_vars PROVE Cancelled'
  OBVIOUS
<1> USE DEF TypeOK, Cancelled, backend, table
<1>1. CASE ClusterChanges
  BY <1>1 DEF ClusterChanges
<1>2. ASSUME NEW w \in Watcher, \/ WatchExisting(w) \/ WatchStarted(w) \/ WatchFails(w)
                                \/ WatchInstalls(w)
      PROVE  Cancelled'
  BY <1>2 DEF WatchExisting, WatchStarted, WatchFails, WatchInstalls
<1>3. ASSUME NEW w \in Watcher, Receive(w) \/ CacheSynced(w) \/ AnnounceSynced(w) \/ Callback(w)
      PROVE  Cancelled'
  BY <1>3 DEF Receive, CacheSynced, AnnounceSynced, Callback
<1>4. ASSUME NEW w \in Watcher, Restart(w) PROVE Cancelled'
  BY <1>4 DEF Restart, SetUp
<1>5. CASE StopWatch
  BY <1>5 DEF StopWatch
<1>6. CASE Remount
  BY <1>6 DEF Remount, SetUp
<1>7. CASE Unmount
  BY <1>7 DEF Unmount, CleanUp
<1>8. CASE Deactivate
  BY <1>8 DEF Deactivate, CleanUp
<1>9. CASE Event
  BY <1>9 DEF Event
<1>10. CASE Answer
  BY <1>10 DEF Answer
<1>11. CASE Refuse
  BY <1>11 DEF Refuse
<1>12. CASE GraceTimer
  BY <1>12 DEF GraceTimer
<1>13. ASSUME NEW i \in 1..Len(responses), Deliver(i) PROVE Cancelled'
  BY <1>13 DEF Deliver
<1>14. CASE UNCHANGED vars
  BY <1>14 DEF vars
<1> QED BY <1>1, <1>2, <1>3, <1>4, <1>5, <1>6, <1>7, <1>8, <1>9, <1>10, <1>11, <1>12,
           <1>13, <1>14, TableSteps

\* A watcher is installed once its start has returned, and what it announced
\* before that it announced too early.
LEMMA AnnouncedNext == TypeOK /\ Announced /\ [Next]_vars => Announced'
<1> SUFFICES ASSUME TypeOK, Announced, [Next]_vars PROVE Announced'
  OBVIOUS
<1> USE DEF TypeOK, Announced, backend
<1>1. CASE ClusterChanges
  BY <1>1 DEF ClusterChanges
<1>2. ASSUME NEW w \in Watcher, WatchExisting(w) PROVE Announced'
  BY <1>2 DEF WatchExisting, Stopping
<1>3. ASSUME NEW w \in Watcher, WatchStarted(w) \/ WatchFails(w) PROVE Announced'
  BY <1>3 DEF WatchStarted, WatchFails
<1>4. ASSUME NEW w \in Watcher, WatchInstalls(w) PROVE Announced'
  BY <1>4 DEF WatchInstalls
<1>5. ASSUME NEW w \in Watcher, Receive(w) \/ CacheSynced(w) PROVE Announced'
  BY <1>5 DEF Receive, CacheSynced
<1>6. ASSUME NEW w \in Watcher, AnnounceSynced(w) PROVE Announced'
  BY <1>6 DEF AnnounceSynced
<1>7. ASSUME NEW w \in Watcher, Callback(w) PROVE Announced'
  BY <1>7 DEF Callback
<1>8. ASSUME NEW w \in Watcher, Restart(w) PROVE Announced'
  BY <1>8 DEF Restart
<1>9. CASE StopWatch
  BY <1>9 DEF StopWatch, Stopping
<1>10. CASE Remount \/ Unmount \/ Deactivate
  BY <1>10 DEF Remount, Unmount, Deactivate
<1>11. CASE Event \/ Refuse \/ GraceTimer
  BY <1>11 DEF Event, Refuse, GraceTimer
<1>12. ASSUME NEW i \in 1..Len(responses), Deliver(i) PROVE Announced'
  BY <1>12 DEF Deliver
<1>13. CASE Answer
  <2>1. /\ UNCHANGED <<watch, sync, owed, stopped, installed>>
        /\ early' = early \ {installed}
    BY <1>13 DEF Answer
  <2>2. \A w \in Watcher : watch[w] # "returned" => w # installed
    BY ConstantsAssumption
  <2> QED BY <2>1, <2>2
<1>14. CASE UNCHANGED vars
  BY <1>14 DEF vars
<1> QED BY <1>1, <1>2, <1>3, <1>4, <1>5, <1>6, <1>7, <1>8, <1>9, <1>10, <1>11, <1>12,
           <1>13, <1>14, TableSteps

\* A step that leaves the table and its watcher alone, but for adding to what
\* is on its way, leaves the newest answer current.
LEMMA QuietKept ==
    ASSUME Quiet => NewestIsCurrent, Quiet' => Quiet,
           UNCHANGED <<responses, outrun, shown>>,
           Quiet' => held'[installed'] = held[installed]
    PROVE  Quiet' => NewestIsCurrent'
BY DEF NewestIsCurrent

\* The newest answer is current when all is quiet: what a watcher announces
\* after it was installed, or a mount asks for, is read from it later.
LEMMA QuietNext == TableInv /\ [Next]_vars => (Quiet' => NewestIsCurrent')
<1> SUFFICES ASSUME TableInv, [Next]_vars PROVE Quiet' => NewestIsCurrent'
  OBVIOUS
<1> USE DEF TableInv, TypeOK, Quiet, Healthy, Up, backend, table
<1>1. CASE ClusterChanges
  BY <1>1, QuietKept DEF ClusterChanges
<1>2. ASSUME NEW w \in Watcher, WatchExisting(w) PROVE Quiet' => NewestIsCurrent'
  BY <1>2, QuietKept DEF WatchExisting, Stopping
<1>3. ASSUME NEW w \in Watcher, WatchStarted(w) \/ WatchFails(w)
      PROVE  Quiet' => NewestIsCurrent'
  <2>1. /\ installed # NoWatcher => watch[installed] = "returned"
        /\ watch[w] \in {"called", "starting"}
    BY <1>3 DEF Announced, WatchStarted, WatchFails
  <2> QED BY <1>3, <2>1, QuietKept DEF WatchStarted, WatchFails
<1>4. ASSUME NEW w \in Watcher, WatchInstalls(w) PROVE Quiet' => NewestIsCurrent'
  <2>1. ~Quiet'
    BY <1>4 DEF WatchInstalls, Announced
  <2> QED BY <2>1
<1>5. ASSUME NEW w \in Watcher, Receive(w) PROVE Quiet' => NewestIsCurrent'
  BY <1>5, QuietKept DEF Receive
<1>6. ASSUME NEW w \in Watcher, CacheSynced(w) PROVE Quiet' => NewestIsCurrent'
  BY <1>6, QuietKept DEF CacheSynced
<1>7. ASSUME NEW w \in Watcher, AnnounceSynced(w) PROVE Quiet' => NewestIsCurrent'
  BY <1>7, QuietKept DEF AnnounceSynced
<1>8. ASSUME NEW w \in Watcher, Callback(w) PROVE Quiet' => NewestIsCurrent'
  <2>1. ~Quiet'
    BY <1>8 DEF Callback
  <2> QED BY <2>1
<1>9. ASSUME NEW w \in Watcher, Restart(w) PROVE Quiet' => NewestIsCurrent'
  BY <1>9 DEF Restart, SetUp
<1>10. CASE StopWatch
  BY <1>10 DEF StopWatch
<1>11. CASE Remount
  BY <1>11 DEF Remount, SetUp
<1>12. CASE Unmount
  BY <1>12 DEF Unmount, CleanUp
<1>13. CASE Deactivate
  BY <1>13 DEF Deactivate, CleanUp
<1>14. CASE Event
  BY <1>14 DEF Event
<1>15. CASE Answer
  <2>1. ASSUME Quiet'
        PROVE  /\ responses'[Len(responses')].list = held'[installed']
               /\ ~responses'[Len(responses')].overtaken
               /\ Len(responses') > 0
    <3>1. installed # NoWatcher /\ UNCHANGED <<installed, held>>
      BY <1>15, <2>1 DEF Answer
    <3>2. responses' = Append(responses,
                [list |-> held[installed], failed |-> FALSE, overtaken |-> FALSE])
      BY <1>15, <3>1 DEF Answer
    <3>3. [list |-> held[installed], failed |-> FALSE, overtaken |-> FALSE] \in Response
      BY <3>1 DEF Response
    <3> QED BY <3>1, <3>2, <3>3, ReadFacts
  <2> QED BY <2>1 DEF NewestIsCurrent
<1>16. CASE Refuse
  <2>1. [list |-> Empty, failed |-> TRUE, overtaken |-> FALSE] \in Response
    BY ListFacts, ConstantsAssumption
  <2>2. /\ responses'[Len(responses')].failed
        /\ ~responses'[Len(responses')].overtaken
        /\ Len(responses') > 0
    BY <1>16, <2>1, ReadFacts DEF Refuse
  <2> QED BY <2>2 DEF NewestIsCurrent
<1>17. CASE GraceTimer
  BY <1>17, QuietKept DEF GraceTimer
<1>18. ASSUME NEW i \in 1..Len(responses), Deliver(i) PROVE Quiet' => NewestIsCurrent'
  <2> SUFFICES ASSUME Quiet' PROVE NewestIsCurrent'
    OBVIOUS
  <2>1. UNCHANGED <<installed, held>> /\ Quiet
    BY <1>18 DEF Deliver
  <2>2. CASE i < Len(responses) /\ \E j \in 1..Len(responses) : ~responses[j].overtaken
    BY <1>18, <2>1, <2>2, DeliverFacts DEF NewestIsCurrent
  <2>3. CASE i = Len(responses) /\ ~responses[i].overtaken
    <3>1. outrun' \/ shown' = held'[installed']
      BY <1>18, <2>1, <2>3 DEF Deliver, NewestIsCurrent
    <3> QED BY <1>18, <2>3, <3>1, DeliverFacts DEF NewestIsCurrent
  <2>4. CASE \A j \in 1..Len(responses) : responses[j].overtaken
    <3>1. outrun'
      BY <1>18, <2>4 DEF Deliver
    <3> QED BY <1>18, <2>4, <3>1, DeliverFacts DEF NewestIsCurrent
  <2>5. i < Len(responses) \/ i = Len(responses)
    BY <1>18, DeliverFacts
  <2> QED BY <2>1, <2>2, <2>3, <2>4, <2>5 DEF NewestIsCurrent
<1>19. CASE UNCHANGED vars
  BY <1>19, QuietKept DEF vars
<1> QED BY <1>1, <1>2, <1>3, <1>4, <1>5, <1>6, <1>7, <1>8, <1>9, <1>10, <1>11, <1>12,
           <1>13, <1>14, <1>15, <1>16, <1>17, <1>18, <1>19, TableSteps

LEMMA TableNextInv == TableInv /\ [Next]_vars => TableInv'
BY TableTypeNext, CancelledNext, AnnouncedNext, QuietNext DEF TableInv

\* A quiet table shows what the installed watcher holds.
LEMMA TableIsSettled == TableInv => SettledIsCurrent
<1> SUFFICES ASSUME TableInv, Settled, ~outrun PROVE shown = held[installed]
  BY DEF SettledIsCurrent
<1>1. Len(responses) \in Nat /\ sent \in Nat
  BY LenProperties DEF TableInv, TypeOK
<1>2. Quiet /\ Len(responses) = 0
  BY <1>1 DEF Settled, InFlight, Quiet
<1> QED BY <1>1, <1>2 DEF TableInv, NewestIsCurrent

-----------------------------------------------------------------------------
(***************************************************************************)
(* AccessMap.                                                               *)
(***************************************************************************)

\* A running watcher is installed, be the context active or not, and no call
\* asks for its kinds.
MapQuiet ==
    /\ a_installed # NoWatcher
    /\ a_watch[a_installed] = "returned" /\ a_installed \notin a_stopped
    /\ a_asked = 0

\* The kinds were forgotten while the watcher of before is installed: nobody
\* shows them, or the present effect's call has not yet looked at the map, or
\* never will.  Once it has looked, that watcher is stopped.
Forgotten ==
    /\ a_access = Map!Unknown
    /\ a_active => a_last \in Contextual /\ a_watch[a_last] \in {"called", "refused"}

\* The answer read last is of the installed watcher and still to come; or it
\* has come, or the kinds were forgotten since, and what is to come is older.
NewestIsInstalled ==
    \/ /\ Len(a_answers) > 0
       /\ ~a_answers[Len(a_answers)].older
       /\ a_answers[Len(a_answers)].of = a_installed
    \/ /\ \A j \in 1..Len(a_answers) : a_answers[j].older
       /\ a_access = a_installed \/ a_behind \/ Forgotten

MapInv == Map!TypeOK /\ (MapQuiet => NewestIsInstalled)

AccessAnswer == [of : Map!Source, older : BOOLEAN]

\* When an answer arrives those read before it are older.
LEMMA SetAccessFacts ==
    ASSUME Map!TypeOK, NEW i \in 1..Len(a_answers), Map!SetAccess(i)
    PROVE  /\ Len(a_answers) \in Nat /\ i \in Nat
           /\ a_answers[i] \in AccessAnswer
           /\ a_answers' \in Seq(AccessAnswer)
           /\ i < Len(a_answers) =>
                 /\ Len(a_answers') > 0
                 /\ a_answers'[Len(a_answers')] = a_answers[Len(a_answers)]
           /\ (i = Len(a_answers) \/ \A j \in 1..Len(a_answers) : a_answers[j].older) =>
                 \A j \in 1..Len(a_answers') : a_answers'[j].older
<1> DEFINE n == Len(a_answers)
           marked == [j \in 1..n |-> [a_answers[j] EXCEPT !.older = @ \/ j < i]]
<1>1. a_answers \in Seq(AccessAnswer) /\ n \in Nat /\ i \in Nat /\ i <= n
  BY LenProperties DEF Map!TypeOK, AccessAnswer
<1>2. \A j \in 1..n : a_answers[j] \in AccessAnswer
  BY <1>1, ElementOfSeq
<1>3. ASSUME NEW j \in 1..n
      PROVE  /\ marked[j] \in AccessAnswer
             /\ marked[j].older = (a_answers[j].older \/ j < i)
             /\ ~(j < i) => marked[j] = a_answers[j]
  <2>1. marked[j] = [a_answers[j] EXCEPT !.older = @ \/ j < i]
    BY <1>1
  <2>2. a_answers[j] \in AccessAnswer
    BY <1>2
  <2>3. CASE j < i
    BY <2>1, <2>2, <2>3 DEF AccessAnswer
  <2>4. CASE ~(j < i)
    BY <2>1, <2>2, <2>4 DEF AccessAnswer
  <2> QED BY <2>3, <2>4
<1>4. marked \in [1..n -> AccessAnswer]
  BY <1>1, <1>3
<1>5. a_answers' = RemoveAt(marked, i)
  <2>1. DOMAIN a_answers = 1..n
    BY <1>1
  <2> QED BY <2>1 DEF Map!SetAccess, Map!RemoveAt, RemoveAt
<1> HIDE DEF marked
<1>6. /\ a_answers' \in Seq(AccessAnswer) /\ Len(a_answers') = n - 1
      /\ i < n => Len(a_answers') # 0 /\ a_answers'[Len(a_answers')] = marked[n]
      /\ \A j \in 1..Len(a_answers') : /\ j < i => a_answers'[j] = marked[j]
                                       /\ j >= i => a_answers'[j] = marked[j + 1]
  BY <1>1, <1>4, <1>5, TakenFacts
<1>7. i < n => /\ Len(a_answers') > 0
               /\ a_answers'[Len(a_answers')] = a_answers[n]
  BY <1>1, <1>3, <1>6
<1>8. ASSUME i = n \/ \A j \in 1..n : a_answers[j].older, NEW j \in 1..Len(a_answers')
      PROVE  a_answers'[j].older
  <2>1. PICK k \in 1..n : k # i /\ a_answers'[j] = marked[k]
    <3>1. CASE j < i
      BY <1>1, <1>6, <3>1
    <3>2. CASE j >= i
      BY <1>1, <1>6, <3>2
    <3> QED BY <1>1, <1>6, <3>1, <3>2
  <2>2. a_answers[k].older \/ k < i
    BY <1>1, <1>8, <2>1
  <2> QED BY <1>3, <2>1, <2>2
<1> QED BY <1>1, <1>2, <1>6, <1>7, <1>8

\* The answers when one more is read.
LEMMA AccessReadFacts ==
    ASSUME Map!TypeOK, Map!AccessibleKinds
    PROVE  /\ a_answers' \in Seq(AccessAnswer) /\ Len(a_answers') > 0
           /\ a_answers'[Len(a_answers')] =
                 [of |-> IF a_installed = NoWatcher THEN NoAccess ELSE a_installed,
                  older |-> FALSE]
<1> DEFINE e == [of |-> IF a_installed = NoWatcher THEN NoAccess ELSE a_installed,
                 older |-> FALSE]
<1>1. e \in AccessAnswer
  BY DEF Map!TypeOK, Map!WatchesType, Map!Source, AccessAnswer
<1>2. a_answers \in Seq(AccessAnswer) /\ a_answers' = Append(a_answers, e)
  BY DEF Map!TypeOK, Map!AccessibleKinds, AccessAnswer
<1> HIDE DEF e
<1>3. /\ a_answers' \in Seq(AccessAnswer) /\ Len(a_answers') > 0
      /\ a_answers'[Len(a_answers')] = e
  BY <1>1, <1>2, AppendFacts
<1> QED BY <1>3 DEF e

LEMMA MapInitInv == Map!Init => MapInv
<1> SUFFICES ASSUME Map!Init PROVE MapInv
  OBVIOUS
<1>1. a_answers \in Seq([of : Map!Source, older : BOOLEAN])
  BY EmptySeq DEF Map!Init
<1>2. a_stops \in 0..MaxStop
  BY TableAssumption DEF Map!Init, Map!WatchesInit
<1>3. a_active \in BOOLEAN
  BY DEF Map!Init, Map!WatchesInit
<1>4. Map!WatchesType
  BY <1>2, <1>3 DEF Map!Init, Map!WatchesInit, Map!WatchesType
<1>5. Map!TypeOK
  BY <1>1, <1>4 DEF Map!Init, Map!TypeOK, Map!Source, Map!Unknown
<1>6. ~MapQuiet
  BY DEF MapQuiet, Map!Healthy, Map!Init, Map!WatchesInit
<1> QED BY <1>5, <1>6 DEF MapInv

\* Every step is one of these.
LEMMA MapSteps ==
    ASSUME Map!TypeOK, [Map!Next]_(Map!vars)
    PROVE  \/ \E w \in Contextual :
                 \/ Map!WatchRefused(w) /\ UNCHANGED Map!kinds
                 \/ Map!WatchExisting(w) /\ UNCHANGED Map!kinds
                 \/ Map!WatchStarted(w) /\ UNCHANGED Map!kinds
                 \/ Map!StartAnswers(w) \/ Map!RestartResets(w)
           \/ Map!StopWatch /\ UNCHANGED Map!kinds
           \/ Map!DeactivateResets \/ Map!AccessibleKinds
           \/ \E i \in 1..Len(a_answers) : Map!SetAccess(i)
           \/ UNCHANGED Map!vars
<1>1. DOMAIN a_answers = 1..Len(a_answers)
  BY DEF Map!TypeOK
<1> QED BY <1>1 DEF Map!Next

LEMMA MapTypeNext == Map!TypeOK /\ [Map!Next]_(Map!vars) => Map!TypeOK'
<1> SUFFICES ASSUME Map!TypeOK, [Map!Next]_(Map!vars) PROVE Map!TypeOK'
  OBVIOUS
<1> USE TableAssumption
    DEF Map!TypeOK, Map!WatchesType, Map!Moves, Map!SendStop, Map!kinds, Map!watches
<1>1. ASSUME NEW w \in Contextual, Map!WatchExisting(w), UNCHANGED Map!kinds
      PROVE  Map!TypeOK'
  BY <1>1 DEF Map!WatchExisting
<1>2. ASSUME NEW w \in Contextual, Map!WatchStarted(w), UNCHANGED Map!kinds
      PROVE  Map!TypeOK'
  BY <1>2 DEF Map!WatchStarted
<1>3. ASSUME NEW w \in Contextual, Map!StartAnswers(w) PROVE Map!TypeOK'
  BY <1>3 DEF Map!StartAnswers, Map!WatchInstalls
<1>4. ASSUME NEW w \in Contextual, Map!RestartResets(w) PROVE Map!TypeOK'
  <2>1. Map!WatchesType'
    BY <1>4 DEF Map!RestartResets, Map!Restart
  <2> QED BY <1>4, <2>1 DEF Map!RestartResets, Map!Source, Map!Unknown
<1>5. CASE Map!StopWatch /\ UNCHANGED Map!kinds
  BY <1>5 DEF Map!StopWatch
<1>6. CASE Map!DeactivateResets
  <2>1. a_stops' \in 0..MaxStop
    BY <1>6 DEF Map!DeactivateResets, Map!Deactivate
  <2>2. a_active' \in BOOLEAN
    BY <1>6 DEF Map!DeactivateResets, Map!Deactivate
  <2>3. Map!WatchesType'
    BY <1>6, <2>1, <2>2 DEF Map!DeactivateResets, Map!Deactivate
  <2> QED BY <1>6, <2>3 DEF Map!DeactivateResets, Map!Source, Map!Unknown
<1>7. CASE Map!AccessibleKinds
  <2>1. a_answers' \in Seq([of : Map!Source, older : BOOLEAN])
    BY <1>7, AccessReadFacts DEF AccessAnswer
  <2> QED BY <1>7, <2>1 DEF Map!AccessibleKinds
<1>8. ASSUME NEW i \in 1..Len(a_answers), Map!SetAccess(i) PROVE Map!TypeOK'
  <2>1. /\ a_answers' \in Seq([of : Map!Source, older : BOOLEAN])
        /\ a_answers[i] \in [of : Map!Source, older : BOOLEAN]
    BY <1>8, SetAccessFacts DEF AccessAnswer
  <2> QED BY <1>8, <2>1 DEF Map!SetAccess
<1>9. ASSUME NEW w \in Contextual, Map!WatchRefused(w), UNCHANGED Map!kinds
      PROVE  Map!TypeOK'
  BY <1>9 DEF Map!WatchRefused
<1>10. CASE UNCHANGED Map!vars
  BY <1>10 DEF Map!vars
<1> QED BY <1>1, <1>2, <1>3, <1>4, <1>5, <1>6, <1>7, <1>8, <1>9, <1>10, MapSteps

\* The newest answer is of the installed watcher, unless the kinds were
\* forgotten: a call that installs one asks for its kinds, and a call that has
\* looked at the map stopped the one before.
LEMMA MapQuietNext == MapInv /\ [Map!Next]_(Map!vars) => (MapQuiet' => NewestIsInstalled')
<1> SUFFICES ASSUME MapInv, [Map!Next]_(Map!vars), MapQuiet' PROVE NewestIsInstalled'
  OBVIOUS
<1> USE DEF MapInv, Map!TypeOK, Map!WatchesType, MapQuiet, Map!Moves,
            Map!SendStop, Map!kinds, Map!watches
<1>1. ASSUME NEW w \in Contextual, Map!WatchExisting(w), UNCHANGED Map!kinds PROVE FALSE
  BY <1>1 DEF Map!WatchExisting
<1>2. ASSUME NEW w \in Contextual, Map!WatchStarted(w), UNCHANGED Map!kinds
      PROVE  NewestIsInstalled'
  <2>1. MapQuiet
    BY <1>2 DEF Map!WatchStarted
  <2> QED BY <1>2, <2>1 DEF Map!WatchStarted, NewestIsInstalled, Forgotten
<1>3. ASSUME NEW w \in Contextual, Map!StartAnswers(w) PROVE FALSE
  BY <1>3 DEF Map!StartAnswers
<1>4. ASSUME NEW w \in Contextual, Map!RestartResets(w) PROVE NewestIsInstalled'
  <2>1. MapQuiet /\ UNCHANGED <<a_answers, a_installed>>
    BY <1>4 DEF Map!RestartResets, Map!Restart
  <2>2. Forgotten'
    BY <1>4 DEF Map!RestartResets, Map!Restart, Forgotten, Map!Unknown
  <2> QED BY <2>1, <2>2 DEF NewestIsInstalled
<1>5. CASE Map!StopWatch /\ UNCHANGED Map!kinds
  BY <1>5 DEF Map!StopWatch
<1>6. CASE Map!DeactivateResets
  <2>1. MapQuiet /\ UNCHANGED <<a_answers, a_installed>>
    BY <1>6 DEF Map!DeactivateResets, Map!Deactivate
  <2>2. Forgotten'
    BY <1>6 DEF Map!DeactivateResets, Map!Deactivate, Forgotten, Map!Unknown
  <2> QED BY <2>1, <2>2 DEF NewestIsInstalled
<1>7. CASE Map!AccessibleKinds
  BY <1>7, AccessReadFacts DEF Map!AccessibleKinds, NewestIsInstalled
<1>8. ASSUME NEW i \in 1..Len(a_answers), Map!SetAccess(i) PROVE NewestIsInstalled'
  <2>1. MapQuiet /\ a_installed' = a_installed
    BY <1>8 DEF Map!SetAccess
  <2>2. CASE \A j \in 1..Len(a_answers) : a_answers[j].older
    <3>1. a_behind'
      BY <1>8, <2>2, SetAccessFacts DEF Map!SetAccess
    <3> QED BY <1>8, <2>2, <3>1, SetAccessFacts DEF NewestIsInstalled
  <2>3. CASE i = Len(a_answers) /\ ~a_answers[i].older
    <3>1. a_access' = a_installed'
      BY <1>8, <2>1, <2>3, SetAccessFacts DEF Map!SetAccess, NewestIsInstalled
    <3> QED BY <1>8, <2>3, <3>1, SetAccessFacts DEF NewestIsInstalled
  <2>4. CASE i < Len(a_answers) /\ ~\A j \in 1..Len(a_answers) : a_answers[j].older
    BY <1>8, <2>1, <2>4, SetAccessFacts DEF NewestIsInstalled
  <2>5. i < Len(a_answers) \/ i = Len(a_answers)
    BY <1>8, SetAccessFacts
  <2> QED BY <2>1, <2>2, <2>3, <2>4, <2>5 DEF NewestIsInstalled
<1>9. ASSUME NEW w \in Contextual, Map!WatchRefused(w), UNCHANGED Map!kinds
      PROVE  NewestIsInstalled'
  <2>1. MapQuiet
    BY <1>9 DEF Map!WatchRefused
  <2>2. Forgotten => Forgotten'
    BY <1>9 DEF Map!WatchRefused, Forgotten
  <2> QED BY <1>9, <2>1, <2>2 DEF Map!WatchRefused, NewestIsInstalled
<1>10. CASE UNCHANGED Map!vars
  BY <1>10 DEF Map!vars, NewestIsInstalled, Forgotten
<1> QED BY <1>1, <1>2, <1>3, <1>4, <1>5, <1>6, <1>7, <1>8, <1>9, <1>10, MapSteps

LEMMA MapNextInv == MapInv /\ [Map!Next]_(Map!vars) => MapInv'
BY MapTypeNext, MapQuietNext DEF MapInv

\* The access map of a quiet page is that of the installed watcher, but for
\* the exceptions AccessIsCurrent names.
LEMMA AccessIsSettled == MapInv => Map!AccessIsCurrent
<1> SUFFICES ASSUME MapInv, Map!Healthy, a_asked = 0, a_answers = <<>>,
                    \A w \in Contextual : a_watch[w] \notin {"called", "starting", "started"}
             PROVE  \/ a_access = a_installed
                    \/ a_behind
                    \/ a_access = Map!Unknown /\ a_watch[a_last] = "refused"
  BY DEF Map!AccessIsCurrent
<1>1. MapQuiet /\ Len(a_answers) = 0 /\ a_active
  BY DEF MapQuiet, Map!Healthy
<1> QED BY <1>1 DEF MapInv, NewestIsInstalled, Forgotten

-----------------------------------------------------------------------------
(***************************************************************************)
(* CustomResources.                                                         *)
(***************************************************************************)

\* One call makes the entry of the kind in a watcher, and what waits for the
\* informer there waits for one that is being started or was.
InformersMade ==
    /\ \A v \in View : r_ensure[v] = "making" => r_cr[r_found[v]] = "made"
    /\ \A u, v \in View : r_ensure[u] = "making" /\ r_ensure[v] = "making"
                          /\ r_found[u] = r_found[v] => u = v
    /\ \A w \in Contextual : r_cr[w] = "made" =>
          \E v \in View : r_found[v] = w /\ r_ensure[v] = "making"
    /\ \A v \in View : r_ensure[v] = "waiting" => r_cr[r_found[v]] # "none"
    /\ \A w \in r_closed : r_cr[w] = "synced" \/ w \in r_stopped

\* A call fails where it found no watcher, or one that has been stopped since.
CallsFound ==
    /\ \A v \in View :
          /\ r_ensure[v] \in {"unused", "sent"} => r_found[v] = NoWatcher
          /\ r_ensure[v] \in {"found", "making", "waiting", "ok"} => r_found[v] \in Contextual
          /\ r_ensure[v] = "failed" => r_found[v] \in {NoWatcher} \cup r_stopped
          /\ r_ensure[v] \in {"ok", "done"} =>
                r_found[v] \in {NoWatcher} \cup r_stopped \/ r_cr[r_found[v]] = "synced"
    /\ r_view \in View /\ r_ensure[r_view] = "done" =>
          r_found[r_view] \in {NoWatcher} \cup r_stopped \/ r_state = "ready"

CustomInv == Custom!TypeOK /\ InformersMade /\ CallsFound

\* What the steps of the watchers leave alone.
viewOnly == <<Custom!informers, Custom!calls, Custom!page>>

-----------------------------------------------------------------------------
\* Every step is one of these.
LEMMA CustomSteps ==
    ASSUME Custom!TypeOK, [Custom!Next]_(Custom!vars)
    PROVE  \/ \E w \in Contextual :
                 \/ Custom!WatchRefused(w) /\ UNCHANGED viewOnly
                 \/ Custom!WatchExisting(w) /\ UNCHANGED viewOnly
                 \/ Custom!WatchStarted(w) /\ UNCHANGED viewOnly
                 \/ Custom!WatchInstalls(w) /\ UNCHANGED viewOnly
                 \/ Custom!Restart(w) /\ Custom!ResetCRDs(1)
                 \/ Custom!ReceiveCRD(w) \/ Custom!CacheSynced(w) \/ Custom!CloseSynced(w)
           \/ Custom!StopWatch /\ UNCHANGED viewOnly
           \/ Custom!Deactivate /\ Custom!ResetCRDs(0)
           \/ \E v \in View :
                 \/ Custom!FindWatcher(v) \/ Custom!Enter(v) \/ Custom!StartInformer(v)
                 \/ Custom!Return(v) \/ Custom!EnsureAnswers(v) \/ Custom!OpenView(v)
           \/ Custom!CRDsChange \/ Custom!ListCRDs \/ Custom!CloseView
           \/ \E i \in 1..Len(r_answers) : Custom!SetCRDs(i)
           \/ UNCHANGED Custom!vars
<1>1. DOMAIN r_answers = 1..Len(r_answers)
  BY DEF Custom!TypeOK
<1> QED BY <1>1 DEF Custom!Next, Custom!EnsureStep, viewOnly, Custom!informers, Custom!calls,
                    Custom!page

LEMMA CustomInitInv == Custom!Init => CustomInv
<1> SUFFICES ASSUME Custom!Init PROVE CustomInv
  OBVIOUS
<1>1. r_answers \in Seq(BOOLEAN) /\ Len(r_answers) = 0
  BY EmptySeq DEF Custom!Init
<1>2. r_stops \in 0..MaxStop /\ r_lists \in Nat /\ r_lists + Len(r_answers) <= MaxLists
  BY <1>1, TableAssumption DEF Custom!Init, Custom!WatchesInit
<1>3. r_active \in BOOLEAN /\ r_listed \in BOOLEAN
  BY DEF Custom!Init, Custom!WatchesInit
<1>4. Custom!WatchesType
  BY <1>2, <1>3 DEF Custom!Init, Custom!WatchesInit, Custom!WatchesType
<1>5. Custom!TypeOK
  BY <1>1, <1>2, <1>3, <1>4 DEF Custom!Init, Custom!TypeOK, Custom!Stage
<1>6. InformersMade /\ CallsFound
  BY TableAssumption DEF Custom!Init, InformersMade, CallsFound
<1> QED BY <1>5, <1>6 DEF CustomInv

LEMMA CustomTypeNext ==
    Custom!TypeOK /\ CallsFound /\ [Custom!Next]_(Custom!vars) => Custom!TypeOK'
<1> SUFFICES ASSUME Custom!TypeOK, CallsFound, [Custom!Next]_(Custom!vars)
             PROVE  Custom!TypeOK'
  OBVIOUS
<1> USE TableAssumption
    DEF Custom!TypeOK, Custom!WatchesType, Custom!Stage, Custom!Moves, Custom!At,
        Custom!SendStop, Custom!watches, Custom!informers, Custom!calls, Custom!page, viewOnly
<1>1. ASSUME NEW w \in Contextual, Custom!WatchExisting(w), UNCHANGED viewOnly
      PROVE  Custom!TypeOK'
  BY <1>1 DEF Custom!WatchExisting
<1>2. ASSUME NEW w \in Contextual, Custom!WatchStarted(w), UNCHANGED viewOnly
      PROVE  Custom!TypeOK'
  BY <1>2 DEF Custom!WatchStarted
<1>3. ASSUME NEW w \in Contextual, Custom!WatchInstalls(w), UNCHANGED viewOnly
      PROVE  Custom!TypeOK'
  BY <1>3 DEF Custom!WatchInstalls
<1>4. ASSUME NEW w \in Contextual, Custom!Restart(w), Custom!ResetCRDs(1)
      PROVE  Custom!TypeOK'
  <2>1. r_answers' \in Seq(BOOLEAN) /\ Len(r_answers') = 0
    BY <1>4, EmptySeq DEF Custom!ResetCRDs
  <2>2. r_stops' \in 0..MaxStop /\ r_lists' \in Nat /\ r_lists' + Len(r_answers') <= MaxLists
    BY <1>4, <2>1 DEF Custom!Restart, Custom!ResetCRDs
  <2>3. r_active' \in BOOLEAN /\ r_listed' \in BOOLEAN
    BY <1>4 DEF Custom!Restart, Custom!ResetCRDs
  <2> QED BY <1>4, <2>1, <2>2, <2>3 DEF Custom!Restart, Custom!ResetCRDs
<1>5. ASSUME NEW w \in Contextual,
             Custom!ReceiveCRD(w) \/ Custom!CacheSynced(w) \/ Custom!CloseSynced(w)
      PROVE  Custom!TypeOK'
  BY <1>5 DEF Custom!ReceiveCRD, Custom!CacheSynced, Custom!CloseSynced
<1>6. CASE Custom!StopWatch /\ UNCHANGED viewOnly
  BY <1>6 DEF Custom!StopWatch
<1>7. CASE Custom!Deactivate /\ Custom!ResetCRDs(0)
  <2>1. r_answers' \in Seq(BOOLEAN) /\ Len(r_answers') = 0
    BY <1>7, EmptySeq DEF Custom!ResetCRDs
  <2>2. r_stops' \in 0..MaxStop /\ r_lists' \in Nat /\ r_lists' + Len(r_answers') <= MaxLists
    BY <1>7, <2>1 DEF Custom!Deactivate, Custom!ResetCRDs
  <2>3. r_active' \in BOOLEAN /\ r_listed' \in BOOLEAN
    BY <1>7 DEF Custom!Deactivate, Custom!ResetCRDs
  <2> QED BY <1>7, <2>1, <2>2, <2>3 DEF Custom!Deactivate, Custom!ResetCRDs
<1>8. ASSUME NEW v \in View, Custom!FindWatcher(v) PROVE Custom!TypeOK'
  BY <1>8 DEF Custom!FindWatcher
<1>9. ASSUME NEW v \in View, Custom!Enter(v) PROVE Custom!TypeOK'
  BY <1>9 DEF Custom!Enter, CallsFound
<1>10. ASSUME NEW v \in View, Custom!StartInformer(v) PROVE Custom!TypeOK'
  BY <1>10 DEF Custom!StartInformer, CallsFound
<1>11. ASSUME NEW v \in View, Custom!Return(v) PROVE Custom!TypeOK'
  BY <1>11 DEF Custom!Return
<1>12. ASSUME NEW v \in View, Custom!EnsureAnswers(v) PROVE Custom!TypeOK'
  BY <1>12 DEF Custom!EnsureAnswers
<1>13. ASSUME NEW v \in View, Custom!OpenView(v) PROVE Custom!TypeOK'
  BY <1>13 DEF Custom!OpenView
<1>14. CASE Custom!CRDsChange
  BY <1>14, LenProperties DEF Custom!CRDsChange
<1>15. CASE Custom!ListCRDs
  <2>1. /\ r_answers' \in Seq(BOOLEAN) /\ Len(r_answers) \in Nat
        /\ Len(r_answers') = Len(r_answers) + 1
    BY <1>15, AppendFacts DEF Custom!ListCRDs
  <2> QED BY <1>15, <2>1 DEF Custom!ListCRDs
<1>16. CASE Custom!CloseView
  BY <1>16 DEF Custom!CloseView
<1>17. ASSUME NEW i \in 1..Len(r_answers), Custom!SetCRDs(i) PROVE Custom!TypeOK'
  <2>1. r_answers' = RemoveAt(r_answers, i)
    BY <1>17 DEF Custom!SetCRDs, Custom!RemoveAt, RemoveAt
  <2>2. /\ r_answers' \in Seq(BOOLEAN) /\ Len(r_answers) \in Nat
        /\ Len(r_answers') = Len(r_answers) - 1
    BY <2>1, RemoveAtFacts, LenProperties
  <2>3. r_listed' \in BOOLEAN
    BY <1>17, ElementOfSeq DEF Custom!SetCRDs
  <2> QED BY <1>17, <2>2, <2>3 DEF Custom!SetCRDs
<1>18. ASSUME NEW w \in Contextual, Custom!WatchRefused(w), UNCHANGED viewOnly
       PROVE  Custom!TypeOK'
  BY <1>18 DEF Custom!WatchRefused
<1>19. CASE UNCHANGED Custom!vars
  BY <1>19 DEF Custom!vars
<1> QED BY <1>1, <1>2, <1>3, <1>4, <1>5, <1>6, <1>7, <1>8, <1>9, <1>10, <1>11, <1>12,
           <1>13, <1>14, <1>15, <1>16, <1>17, <1>18, <1>19, CustomSteps

\* An entry is made by one call, which starts the informer.
LEMMA InformersNext == CustomInv /\ [Custom!Next]_(Custom!vars) => InformersMade'
<1> SUFFICES ASSUME CustomInv, [Custom!Next]_(Custom!vars) PROVE InformersMade'
  OBVIOUS
<1> USE TableAssumption
    DEF CustomInv, Custom!TypeOK, Custom!WatchesType, Custom!Stage, InformersMade, CallsFound,
        Custom!Moves, Custom!At, Custom!SendStop, Custom!watches, Custom!informers,
        Custom!calls, viewOnly
<1>1. ASSUME NEW w \in Contextual, Custom!WatchExisting(w), UNCHANGED viewOnly
      PROVE  InformersMade'
  BY <1>1 DEF Custom!WatchExisting
<1>2. ASSUME NEW w \in Contextual, UNCHANGED viewOnly,
             Custom!WatchRefused(w) \/ Custom!WatchStarted(w) \/ Custom!WatchInstalls(w)
      PROVE  InformersMade'
  BY <1>2 DEF Custom!WatchRefused, Custom!WatchStarted, Custom!WatchInstalls
<1>3. ASSUME NEW w \in Contextual, Custom!Restart(w), Custom!ResetCRDs(1)
      PROVE  InformersMade'
  BY <1>3 DEF Custom!Restart, Custom!ResetCRDs
<1>4. ASSUME NEW w \in Contextual, Custom!ReceiveCRD(w) PROVE InformersMade'
  BY <1>4 DEF Custom!ReceiveCRD
<1>5. ASSUME NEW w \in Contextual, Custom!CacheSynced(w) PROVE InformersMade'
  BY <1>5 DEF Custom!CacheSynced
<1>6. ASSUME NEW w \in Contextual, Custom!CloseSynced(w) PROVE InformersMade'
  BY <1>6 DEF Custom!CloseSynced
<1>7. CASE Custom!StopWatch /\ UNCHANGED viewOnly
  BY <1>7 DEF Custom!StopWatch
<1>8. CASE Custom!Deactivate /\ Custom!ResetCRDs(0)
  BY <1>8 DEF Custom!Deactivate, Custom!ResetCRDs
<1>9. ASSUME NEW v \in View, Custom!FindWatcher(v) PROVE InformersMade'
  BY <1>9 DEF Custom!FindWatcher
<1>10. ASSUME NEW v \in View, Custom!Enter(v) PROVE InformersMade'
  BY <1>10 DEF Custom!Enter
<1>11. ASSUME NEW v \in View, Custom!StartInformer(v) PROVE InformersMade'
  BY <1>11 DEF Custom!StartInformer
<1>12. ASSUME NEW v \in View, Custom!Return(v) \/ Custom!EnsureAnswers(v) PROVE InformersMade'
  BY <1>12 DEF Custom!Return, Custom!EnsureAnswers
<1>13. ASSUME NEW v \in View, Custom!OpenView(v) PROVE InformersMade'
  BY <1>13 DEF Custom!OpenView
<1>14. CASE Custom!CRDsChange \/ Custom!ListCRDs \/ Custom!CloseView
  BY <1>14 DEF Custom!CRDsChange, Custom!ListCRDs, Custom!CloseView
<1>15. ASSUME NEW i \in 1..Len(r_answers), Custom!SetCRDs(i) PROVE InformersMade'
  BY <1>15 DEF Custom!SetCRDs
<1>16. CASE UNCHANGED Custom!vars
  BY <1>16 DEF Custom!vars
<1> QED BY <1>1, <1>2, <1>3, <1>4, <1>5, <1>6, <1>7, <1>8, <1>9, <1>10, <1>11, <1>12,
           <1>13, <1>14, <1>15, <1>16, CustomSteps

\* A call answers over an informer that has synced, or a watcher that stopped.
LEMMA CallsNext == CustomInv /\ [Custom!Next]_(Custom!vars) => CallsFound'
<1> SUFFICES ASSUME CustomInv, [Custom!Next]_(Custom!vars) PROVE CallsFound'
  OBVIOUS
<1> USE TableAssumption
    DEF CustomInv, Custom!TypeOK, Custom!WatchesType, Custom!Stage, InformersMade, CallsFound,
        Custom!Moves, Custom!At, Custom!SendStop, Custom!watches, Custom!informers,
        Custom!calls, Custom!page, viewOnly
<1>1. ASSUME NEW w \in Contextual, Custom!WatchExisting(w), UNCHANGED viewOnly
      PROVE  CallsFound'
  BY <1>1 DEF Custom!WatchExisting
<1>2. ASSUME NEW w \in Contextual, UNCHANGED viewOnly,
             Custom!WatchRefused(w) \/ Custom!WatchStarted(w) \/ Custom!WatchInstalls(w)
      PROVE  CallsFound'
  BY <1>2 DEF Custom!WatchRefused, Custom!WatchStarted, Custom!WatchInstalls
<1>3. ASSUME NEW w \in Contextual, Custom!Restart(w), Custom!ResetCRDs(1)
      PROVE  CallsFound'
  BY <1>3 DEF Custom!Restart, Custom!ResetCRDs
<1>4. ASSUME NEW w \in Contextual,
             Custom!ReceiveCRD(w) \/ Custom!CacheSynced(w) \/ Custom!CloseSynced(w)
      PROVE  CallsFound'
  BY <1>4 DEF Custom!ReceiveCRD, Custom!CacheSynced, Custom!CloseSynced
<1>5. CASE Custom!StopWatch /\ UNCHANGED viewOnly
  BY <1>5 DEF Custom!StopWatch
<1>6. CASE Custom!Deactivate /\ Custom!ResetCRDs(0)
  BY <1>6 DEF Custom!Deactivate, Custom!ResetCRDs
<1>7. ASSUME NEW v \in View, Custom!FindWatcher(v) PROVE CallsFound'
  BY <1>7 DEF Custom!FindWatcher
<1>8. ASSUME NEW v \in View, Custom!Enter(v) PROVE CallsFound'
  BY <1>8 DEF Custom!Enter
<1>9. ASSUME NEW v \in View, Custom!StartInformer(v) PROVE CallsFound'
  BY <1>9 DEF Custom!StartInformer
<1>10. ASSUME NEW v \in View, Custom!Return(v) PROVE CallsFound'
  BY <1>10 DEF Custom!Return
<1>11. ASSUME NEW v \in View, Custom!EnsureAnswers(v) PROVE CallsFound'
  BY <1>11 DEF Custom!EnsureAnswers
<1>12. ASSUME NEW v \in View, Custom!OpenView(v) PROVE CallsFound'
  BY <1>12 DEF Custom!OpenView
<1>13. CASE Custom!CRDsChange \/ Custom!ListCRDs \/ Custom!CloseView
  BY <1>13 DEF Custom!CRDsChange, Custom!ListCRDs, Custom!CloseView
<1>14. ASSUME NEW i \in 1..Len(r_answers), Custom!SetCRDs(i) PROVE CallsFound'
  BY <1>14 DEF Custom!SetCRDs
<1>15. CASE UNCHANGED Custom!vars
  BY <1>15 DEF Custom!vars
<1> QED BY <1>1, <1>2, <1>3, <1>4, <1>5, <1>6, <1>7, <1>8, <1>9, <1>10, <1>11, <1>12,
           <1>13, <1>14, <1>15, CustomSteps

LEMMA CustomNextInv == CustomInv /\ [Custom!Next]_(Custom!vars) => CustomInv'
BY CustomTypeNext, InformersNext, CallsNext DEF CustomInv

\* A view whose call found the installed watcher is served by it.
LEMMA ViewGetsRows == CustomInv => ViewIsServed
<1> SUFFICES ASSUME CustomInv, Custom!Healthy, r_view # NoView,
                    r_found[r_view] = r_installed
             PROVE  \/ r_ensure[r_view] \in {"found", "making"}
                    \/ r_ensure[r_view] = "waiting" /\ Custom!BeingStarted(r_installed)
                    \/ r_ensure[r_view] = "ok" /\ r_cr[r_installed] = "synced"
                    \/ /\ r_ensure[r_view] = "done" /\ r_cr[r_installed] = "synced"
                       /\ r_state = "ready"
  BY DEF ViewIsServed, Custom!ViewIsServed
<1>1. /\ r_view \in View /\ r_installed \in Contextual
      /\ r_installed \notin {NoWatcher} \cup r_stopped
  BY DEF CustomInv, Custom!TypeOK, Custom!WatchesType, Custom!Healthy
<1>2. r_ensure[r_view] \in {"found", "making", "waiting", "ok", "done"}
  BY <1>1 DEF CustomInv, CallsFound, Custom!TypeOK, Custom!Stage
<1>3. CASE r_ensure[r_view] = "waiting"
  <2>1. r_cr[r_installed] \in {"made", "started", "synced"}
    BY <1>1, <1>3 DEF CustomInv, InformersMade, Custom!TypeOK
  <2> QED BY <1>1, <1>3, <2>1 DEF CustomInv, InformersMade, Custom!BeingStarted
<1>4. CASE r_ensure[r_view] \in {"ok", "done"}
  BY <1>1, <1>4 DEF CustomInv, CallsFound
<1> QED BY <1>2, <1>3, <1>4

-----------------------------------------------------------------------------
(***************************************************************************)
(* The three side by side: one moves and the others stay as they started.   *)
(***************************************************************************)

AllInv == TableInv /\ MapInv /\ CustomInv

LEMMA AllInitInv == TableInit => AllInv
BY TableInitInv, MapInitInv, CustomInitInv DEF TableInit, AllInv

LEMMA AllNextInv == AllInv /\ [TableNext]_allVars => AllInv'
<1> SUFFICES ASSUME AllInv, [TableNext]_allVars PROVE AllInv'
  OBVIOUS
<1>1. [Next]_vars
  BY DEF TableNext, allVars
<1>2. [Map!Next]_(Map!vars)
  BY DEF TableNext, allVars, accessVars, Map!vars, Map!watches, Map!kinds
<1>3. [Custom!Next]_(Custom!vars)
  BY DEF TableNext, allVars, viewVars, Custom!vars, Custom!watches, Custom!informers,
         Custom!calls, Custom!page
<1> QED BY <1>1, <1>2, <1>3, TableNextInv, MapNextInv, CustomNextInv DEF AllInv

LEMMA AllSpecInv == TableSpec => []AllInv
BY AllInitInv, AllNextInv, PTL DEF TableSpec

\* Tables, access maps and views keep their types.
THEOREM TableTypesCorrect == TableSpec => []TableTypeOK
<1>1. AllInv => TableTypeOK
  BY DEF AllInv, TableInv, MapInv, CustomInv, TableTypeOK
<1> QED BY <1>1, AllSpecInv, PTL

\* No update is lost: a quiet table shows the list of the installed watcher,
\* and a quiet access map has its kinds.
THEOREM QuietPageIsRight == TableSpec => []QuietPageIsCurrent
<1>1. AllInv => QuietPageIsCurrent
  BY TableIsSettled, AccessIsSettled DEF AllInv, QuietPageIsCurrent
<1> QED BY <1>1, AllSpecInv, PTL

\* A context that was left shows no rows, and no answer that comes late brings
\* them back: the clean-up of the table's effect cancelled it.
THEOREM InactiveHasNoRows == TableSpec => []InactiveIsEmpty
<1>1. AllInv => InactiveIsEmpty
  BY DEF AllInv, TableInv, Cancelled, InactiveIsEmpty
<1> QED BY <1>1, AllSpecInv, PTL

\* A view of a custom resource whose call found the running watcher waits only
\* for an informer that is being started, and is ready only over a synced one.
THEOREM ViewsAreServed == TableSpec => []ViewIsServed
<1>1. AllInv => ViewIsServed
  BY ViewGetsRows DEF AllInv
<1> QED BY <1>1, AllSpecInv, PTL
=============================================================================
