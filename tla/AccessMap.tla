------------------------------ MODULE AccessMap ------------------------------
(***************************************************************************)
(* The access map of the page for one context: when StartWatch has answered *)
(* the page asks for the kinds the user may list, and stores what comes,    *)
(* without asking whether the effect that asked is still the present one.   *)
(***************************************************************************)
EXTENDS Watches, Sequences, SequencesExt

CONSTANT NoAccess \* the empty list: there was no watcher

VARIABLES
    access,  \* the watcher whose kinds are stored, NoAccess, or unknown
    asked,   \* ListAccessibleKinds calls not yet answered
    answers, \* answers not yet handled, in the order they were read
    behind,  \* history: access was read before something stored earlier
    last     \* history: the watcher of the present effect's StartWatch call

kinds == <<access, asked, answers, behind, last>>
vars == <<watches, kinds>>

Unknown == NoWatcher
Source == Watcher \cup {NoAccess, Unknown}

TypeOK ==
    /\ WatchesType
    /\ access \in Source
    /\ answers \in Seq([of : Source, older : BOOLEAN])
    /\ asked \in Nat /\ behind \in BOOLEAN
    /\ last \in Watcher \cup {NoWatcher}

Init ==
    /\ WatchesInit
    /\ access = Unknown
    /\ asked = 0 /\ answers = <<>> /\ behind = FALSE
    /\ last = NoWatcher

\* Faulty variant: kinds that are known are not asked for again.
StartAnswersOnce(w) ==
    /\ WatchInstalls(w)
    /\ asked' = IF access = Unknown THEN asked + 1 ELSE asked
    /\ UNCHANGED <<access, answers, behind, last>>

\* StartWatch answers: an error is logged, otherwise the kinds are asked for.
StartAnswers(w) ==
    /\ WatchInstalls(w)
    /\ asked' = asked + 1
    /\ UNCHANGED <<access, answers, behind, last>>

\* resetAccess; answers under way are not cancelled.
RestartResets(w) ==
    /\ Restart(w)
    /\ access' = Unknown /\ behind' = FALSE
    /\ last' = w
    /\ UNCHANGED <<asked, answers>>

DeactivateResets ==
    /\ Deactivate
    /\ access' = Unknown /\ behind' = FALSE
    /\ UNCHANGED <<asked, answers, last>>

\* The call itself has no way to fail.
AccessibleKinds ==
    /\ asked > 0
    /\ asked' = asked - 1
    /\ LET of == IF installed = NoWatcher THEN NoAccess ELSE installed
       IN  answers' = Append(answers, [of |-> of, older |-> FALSE])
    /\ UNCHANGED <<watches, access, behind, last>>

\* setAccess: any answer may be the next; those read before it are older.
SetAccess(i) ==
    /\ access' = answers[i].of
    /\ behind' = answers[i].older
    /\ answers' = RemoveAt([j \in DOMAIN answers |->
                              [answers[j] EXCEPT !.older = @ \/ j < i]], i)
    /\ UNCHANGED <<watches, asked, last>>

Next ==
    \/ \E w \in Watcher :
         \/ (WatchRefused(w) \/ WatchExisting(w) \/ WatchStarted(w)) /\ UNCHANGED kinds
         \/ StartAnswers(w) \/ RestartResets(w)
    \/ StopWatch /\ UNCHANGED kinds
    \/ DeactivateResets \/ AccessibleKinds
    \/ \E i \in DOMAIN answers : SetAccess(i)

Spec == Init /\ [][Next]_vars

-----------------------------------------------------------------------------
\* Once the calls have answered, the access map of a context served by a
\* running watcher is that watcher's, through restarts, and with StartWatch
\* calls that answer late and are not cancelled.  Excepted by name are two
\* answers that overtook one another (App.tsx:494), and a StartWatch that is
\* refused before it looks at the map (manager.go:182-197): the effect has
\* reset the map, the watcher of an earlier effect runs on, and nobody asks for
\* its kinds.
AccessIsCurrent ==
    /\ Healthy /\ asked = 0 /\ answers = <<>>
    /\ \A w \in Watcher : watch[w] \notin {"called", "starting", "started"}
    => \/ access = installed
       \/ behind
       \/ access = Unknown /\ watch[last] = "refused"
=============================================================================
