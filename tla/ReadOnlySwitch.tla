--------------------------- MODULE ReadOnlySwitch ---------------------------
(***************************************************************************)
(* The read-only switch of the page and the marks of the backend: the store *)
(* keeps one flag for all contexts, an effect of App.tsx sends it for each  *)
(* active context, and ClientManager refuses the writes of marked contexts. *)
(* Each call runs in a goroutine of its own, so nothing orders two of them. *)
(***************************************************************************)
EXTENDS Naturals, Sequences, SequencesExt

CONSTANTS
    Contexts, \* context names
    MaxCalls  \* bound: setReadOnly calls of one context under way

VARIABLES
    active,         \* activeContexts
    globalReadOnly, \* the flag, in the store and in localStorage
    calls,          \* setReadOnly calls under way, in the order they were made
    marked,         \* ClientManager.readOnly
    overtaken       \* history: contexts whose last call to run was not the
                    \* last of those that have run to be made

vars == <<active, globalReadOnly, calls, marked, overtaken>>

Call == [ro : BOOLEAN, older : BOOLEAN]

TypeOK ==
    /\ active \in SUBSET Contexts
    /\ globalReadOnly \in BOOLEAN
    /\ calls \in [Contexts -> Seq(Call)]
    /\ \A c \in Contexts : Len(calls[c]) <= MaxCalls
    /\ marked \in SUBSET Contexts
    /\ overtaken \in SUBSET Contexts

\* The effect, run for these contexts and this flag.
Effect(contexts, ro) ==
    /\ \A c \in contexts : Len(calls[c]) < MaxCalls
    /\ calls' = [c \in Contexts |-> IF c \in contexts
                                    THEN Append(calls[c], [ro |-> ro, older |-> FALSE])
                                    ELSE calls[c]]

\* The first run of the effect: nothing is marked in a new process.
Boot(contexts, ro) ==
    [c \in Contexts |-> IF c \in contexts THEN <<[ro |-> ro, older |-> FALSE]>> ELSE <<>>]

Init ==
    /\ active \in SUBSET Contexts
    /\ globalReadOnly \in BOOLEAN
    /\ calls = Boot(active, globalReadOnly)
    /\ marked = {} /\ overtaken = {}

SetGlobalReadOnly ==
    /\ globalReadOnly' = ~globalReadOnly
    /\ Effect(active, globalReadOnly')
    /\ UNCHANGED <<active, marked, overtaken>>

\* An effect that depends on the flag only.
ChangeUnmarked(next) ==
    /\ active' = next
    /\ UNCHANGED <<globalReadOnly, calls, marked, overtaken>>

\* Any change of the active contexts; the list may also be a new one of the
\* same contexts.  A context that is left keeps its mark.
ChangeContexts(next) ==
    /\ active' = next
    /\ Effect(next, globalReadOnly)
    /\ UNCHANGED <<globalReadOnly, marked, overtaken>>

\* SetReadOnly; the calls made before this one and still to run are older.
SetReadOnly(c, i) ==
    /\ marked' = IF calls[c][i].ro THEN marked \cup {c} ELSE marked \ {c}
    /\ overtaken' = IF calls[c][i].older THEN overtaken \cup {c} ELSE overtaken \ {c}
    /\ calls' = [calls EXCEPT ![c] =
                    RemoveAt([j \in DOMAIN @ |-> IF j < i THEN [@[j] EXCEPT !.older = TRUE]
                                                 ELSE @[j]], i)]
    /\ UNCHANGED <<active, globalReadOnly>>

\* The app is closed and started again, with the flag of localStorage and
\* the contexts ContextStore restores.
Restart ==
    /\ \E next \in SUBSET Contexts :
         active' = next /\ calls' = Boot(next, globalReadOnly)
    /\ marked' = {} /\ overtaken' = {}
    /\ UNCHANGED globalReadOnly

Next ==
    \/ SetGlobalReadOnly \/ Restart
    \/ \E next \in SUBSET Contexts : ChangeContexts(next)
    \/ \E c \in Contexts : \E i \in DOMAIN calls[c] : SetReadOnly(c, i)

Spec == Init /\ [][Next]_vars

-----------------------------------------------------------------------------
\* The backend refuses writes exactly where the page says so: once the calls
\* for an active context have run it is marked if and only if the switch is
\* on, through connects, disconnects and restarts, unless the last two of
\* its calls overtook one another, which nothing in the code prevents.
GuardIsCurrent ==
    \A c \in active : calls[c] = <<>> =>
        c \in overtaken \/ (c \in marked <=> globalReadOnly)
=============================================================================
