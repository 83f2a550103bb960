------------------------- MODULE ExecSessionsProofs -------------------------
(***************************************************************************)
(* The safety of ExecSessions for any number of sessions and any capacity   *)
(* of the resize channel.                                                  *)
(***************************************************************************)
EXTENDS ExecSessions, TLAPS

\* The initial state is well typed.
LEMMA TypeInit == Init => TypeOK
<1> SUFFICES ASSUME Init PROVE TypeOK
  OBVIOUS
<1>1. queue \in [Session -> 0..QueueCap]
  BY ConstantsAssumption DEF Init
<1>2. {inMap, closing, closed, named, inputs, writing, resizes, stopCalls, events, missed}
        \subseteq SUBSET Session
  BY DEF Init
<1>3. {panicked, exiting} \subseteq BOOLEAN
  BY DEF Init
<1> QED BY <1>1, <1>2, <1>3 DEF Init, TypeOK

\* Every step keeps the state well typed; in particular the resize channel
\* never holds more than its capacity.
LEMMA TypeNext == TypeOK /\ [Next]_vars => TypeOK'
<1> SUFFICES ASSUME TypeOK, [Next]_vars PROVE TypeOK'
  OBVIOUS
<1> USE ConstantsAssumption DEF TypeOK, manager, calls, tab
<1>1. ASSUME NEW s \in Session,
             \/ Start(s) \/ StartFails(s) \/ Name(s) \/ StreamReturns(s) \/ OnClose(s)
             \/ Unregister(s) \/ TakeSize(s)
      PROVE TypeOK'
  <2>1. CASE Start(s) \/ StartFails(s) \/ Name(s) \/ StreamReturns(s)
    BY <2>1 DEF Start, StartFails, Name, StreamReturns
  <2>2. CASE OnClose(s) \/ Unregister(s)
    BY <2>2 DEF OnClose, Unregister
  <2>3. CASE TakeSize(s)
    BY <2>3 DEF TakeSize
  <2> QED BY <1>1, <2>1, <2>2, <2>3
<1>2. ASSUME NEW s \in Session,
             \/ Resize(s) \/ LookupInput(s) \/ InputReturns(s) \/ InputRead(s) \/ Stop(s)
             \/ Close(s) \/ Type(s) \/ Measure(s)
      PROVE TypeOK'
  <2>1. CASE Resize(s)
    BY <2>1 DEF Resize
  <2>2. CASE LookupInput(s) \/ InputReturns(s) \/ InputRead(s)
    BY <2>2 DEF LookupInput, InputReturns, InputRead
  <2>3. CASE Stop(s) \/ Close(s) \/ Type(s) \/ Measure(s)
    BY <2>3 DEF Stop, Close, Type, Measure
  <2> QED BY <1>2, <2>1, <2>2, <2>3
<1>3. ASSUME NEW s \in Session, Attach(s) \/ Started(s) \/ StartError(s) \/ CloseEvent(s)
      PROVE TypeOK'
  <2>1. CASE Attach(s)
    BY <2>1 DEF Attach, Cleaned
  <2>2. CASE Started(s)
    BY <2>2 DEF Started
  <2>3. CASE StartError(s) \/ CloseEvent(s)
    BY <2>3 DEF StartError, CloseEvent
  <2> QED BY <1>3, <2>1, <2>2, <2>3
<1>4. CASE StopAll
  BY <1>4 DEF StopAll
<1>5. CASE Leave
  BY <1>5 DEF Leave, Cleaned
<1>6. CASE UNCHANGED vars
  BY <1>6 DEF vars
<1> QED BY <1>1, <1>2, <1>3, <1>4, <1>5, <1>6 DEF Next

\* The state of the manager, the calls and the tab is always well typed.
THEOREM TypeCorrect == Spec => []TypeOK
BY TypeInit, TypeNext, PTL DEF Spec

-----------------------------------------------------------------------------
\* ResizeIsSafe and RunningIsReachable are inductive once it is known that a
\* session that has not started has left no trace in the manager.
SessionInv ==
    /\ ResizeIsSafe
    /\ RunningIsReachable
    /\ \A s \in inMap \cup closing \cup closed : stream[s] \notin {"none", "failed"}

\* Initially the manager is empty.
LEMMA SessionInit == Init => SessionInv
BY DEF Init, SessionInv, ResizeIsSafe, RunningIsReachable

\* Every step keeps what is live in the map and what is closed out of it.
LEMMA SessionNext == TypeOK /\ SessionInv /\ [Next]_vars => SessionInv'
<1> SUFFICES ASSUME TypeOK, SessionInv, [Next]_vars PROVE SessionInv'
  OBVIOUS
<1> USE DEF TypeOK, SessionInv, ResizeIsSafe, RunningIsReachable
<1>1. ASSUME UNCHANGED <<inMap, stream, closing, closed, panicked>> PROVE SessionInv'
  BY <1>1
<1>2. ASSUME NEW s \in Session, Start(s) PROVE SessionInv'
  BY <1>2 DEF Start, Asked
<1>3. ASSUME NEW s \in Session, StartFails(s) PROVE SessionInv'
  BY <1>3 DEF StartFails, Asked
<1>4. ASSUME NEW s \in Session, StreamReturns(s) \/ OnClose(s) \/ Unregister(s) PROVE SessionInv'
  BY <1>4 DEF StreamReturns, OnClose, Unregister
<1>5. ASSUME NEW s \in Session, Resize(s) PROVE SessionInv'
  BY <1>5 DEF Resize
<1>6. ASSUME NEW s \in Session, Stop(s) PROVE SessionInv'
  BY <1>6 DEF Stop
<1>7. ASSUME NEW s \in Session, Close(s) PROVE SessionInv'
  BY <1>7 DEF Close
<1>8. CASE StopAll
  BY <1>8 DEF StopAll
<1>9. ASSUME NEW s \in Session, ~Start(s), ~StartFails(s), ~StreamReturns(s), ~OnClose(s),
             ~Unregister(s), ~Resize(s), ~Stop(s), ~Close(s),
             \/ Name(s) \/ TakeSize(s) \/ LookupInput(s) \/ InputReturns(s) \/ InputRead(s)
             \/ Attach(s) \/ Started(s) \/ StartError(s) \/ CloseEvent(s) \/ Type(s) \/ Measure(s)
      PROVE SessionInv'
  BY <1>9, <1>1
  DEF Name, TakeSize, LookupInput, InputReturns, InputRead, Attach, Started, StartError,
      CloseEvent, Type, Measure, manager
<1>10. CASE Leave \/ UNCHANGED vars
  BY <1>10, <1>1 DEF Leave, vars, manager
<1> QED
  BY <1>2, <1>3, <1>4, <1>5, <1>6, <1>7, <1>8, <1>9, <1>10 DEF Next

\* The manager's invariant holds throughout.
LEMMA SessionAlways == Spec => []SessionInv
<1>1. Init => TypeOK /\ SessionInv
  BY TypeInit, SessionInit
<1>2. TypeOK /\ SessionInv /\ [Next]_vars => (TypeOK /\ SessionInv)'
  BY TypeNext, SessionNext
<1> QED BY <1>1, <1>2, PTL DEF Spec

\* exec.go:124-129: deleting from the map before closing, and sending under
\* the lock, keep resize off a closed channel for every interleaving.
THEOREM ResizeTheorem == Spec => []ResizeIsSafe
<1>1. SessionInv => ResizeIsSafe
  BY DEF SessionInv
<1> QED BY <1>1, SessionAlways, PTL

\* No running stream ever escapes both the map and those about to close it.
THEOREM ReachableTheorem == Spec => []RunningIsReachable
<1>1. SessionInv => RunningIsReachable
  BY DEF SessionInv
<1> QED BY <1>1, SessionAlways, PTL

=============================================================================
