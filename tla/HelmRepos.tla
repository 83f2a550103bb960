------------------------------ MODULE HelmRepos ------------------------------
(***************************************************************************)
(* The chart repositories (helm.go): a file of names, shared with the helm  *)
(* command, and an index in the cache for each.  AddRepo and RemoveRepo     *)
(* read the file, change what they read and write it back, without a lock.  *)
(* The page lets calls overlap: Remove is never disabled, and Add and       *)
(* Refresh only while their own call is under way.                          *)
(***************************************************************************)
EXTENDS Naturals

CONSTANTS
    Repos, \* names of repositories
    Calls  \* calls of the page

VARIABLES
    file,  \* the names in the repository file
    index, \* the repositories with an index in the cache
    call,  \* where each call stands
    op,    \* what it is for: add or remove, and whose name
    copy,  \* the names it read
    want,  \* history: the names there should be
    stale, \* history: calls overtaken by another change since they read
    raced, \* history: a call that was overtaken went on to change something
    torn   \* history: a write failed when the file it replaces was empty already

vars == <<file, index, call, op, copy, want, stale, raced, torn>>

Ops == [add : BOOLEAN, repo : Repos]

TypeOK ==
    /\ {file, index, want} \subseteq SUBSET Repos
    /\ call \in [Calls -> {"idle", "download", "write", "writing", "clean", "update", "done"}]
    /\ op \in [Calls -> Ops]
    /\ copy \in [Calls -> SUBSET Repos]
    /\ stale \subseteq Calls
    /\ raced \in BOOLEAN /\ torn \in BOOLEAN

Init ==
    /\ file \in SUBSET Repos /\ index = file /\ want = file
    /\ call = [c \in Calls |-> "idle"]
    /\ op \in [Calls -> {o \in Ops : o.add /\ o.repo = CHOOSE r \in Repos : TRUE}]
    /\ copy = [c \in Calls |-> {}]
    /\ stale = {} /\ raced = FALSE /\ torn = FALSE

Moves(c, from, to) == call[c] = from /\ call' = [call EXCEPT ![c] = to]

\* The file cannot be read, as one that was cut short may not be: an error of
\* any call.  A file that is not there is an empty one.
LoadFails(c) ==
    /\ Moves(c, "idle", "done")
    /\ UNCHANGED <<file, index, op, copy, want, stale, raced, torn>>

\* The file is read; a name that is there already is an error.  A remove of
\* this name that has still to delete the index is overtaken.
AddRepo(c, r) ==
    /\ Moves(c, "idle", IF r \in file THEN "done" ELSE "download")
    /\ op' = [op EXCEPT ![c] = [add |-> TRUE, repo |-> r]]
    /\ copy' = [copy EXCEPT ![c] = file]
    /\ stale' = stale \cup {d \in Calls : call[d] = "clean" /\ op[d].repo = r}
    /\ UNCHANGED <<file, index, want, raced, torn>>

\* Faulty variant: a repository whose index cannot be had is kept.
DownloadUnchecked(c) ==
    /\ Moves(c, "download", "write")
    /\ index' \in {index, index \cup {op[c].repo}}
    /\ UNCHANGED <<file, op, copy, want, stale, raced, torn>>

\* The index is had and written, or one of the two fails.
Download(c) ==
    /\ \/ Moves(c, "download", "write") /\ index' = index \cup {op[c].repo} /\ UNCHANGED torn
       \/ Moves(c, "download", "done") /\ UNCHANGED <<index, torn>>
       \/ Moves(c, "download", "done") /\ index' = index \ {op[c].repo} /\ torn' = TRUE
    /\ UNCHANGED <<file, op, copy, want, stale, raced>>

\* A name that is not in the file is an error.
RemoveRepo(c, r) ==
    /\ Moves(c, "idle", IF r \in file THEN "write" ELSE "done")
    /\ op' = [op EXCEPT ![c] = [add |-> FALSE, repo |-> r]]
    /\ copy' = [copy EXCEPT ![c] = file]
    /\ UNCHANGED <<file, index, want, stale, raced, torn>>

Changed(c) == IF op[c].add THEN copy[c] \cup {op[c].repo} ELSE copy[c] \ {op[c].repo}

\* The file is opened, which empties it, and then written.  Where it cannot be
\* opened the call returns the error, and a remove does not clean up.
OpenFile(c) ==
    /\ \/ Moves(c, "write", "writing") /\ file' = {}
       \/ Moves(c, "write", "done") /\ UNCHANGED file
    /\ UNCHANGED <<index, op, copy, want, stale, raced, torn>>

Under == {c \in Calls : call[c] \in {"download", "write", "writing"}}

WriteFile(c) ==
    /\ Moves(c, "writing", IF op[c].add THEN "done" ELSE "clean")
    /\ file' = Changed(c)
    /\ want' = IF op[c].add THEN want \cup {op[c].repo} ELSE want \ {op[c].repo}
    /\ stale' = (stale \cup Under) \ {c}
    /\ raced' = (raced \/ c \in stale)
    /\ UNCHANGED <<index, op, copy, torn>>

\* The write fails on the way: the file has what was written of it.
WriteFails(c) ==
    /\ Moves(c, "writing", "done")
    /\ file' \in SUBSET Changed(c)
    /\ torn' = TRUE
    /\ UNCHANGED <<index, op, copy, want, stale, raced>>

\* RemoveRepo deletes the files of the cache last.
CleanCache(c) ==
    /\ Moves(c, "clean", "done")
    /\ index' = index \ {op[c].repo}
    /\ raced' = (raced \/ c \in stale)
    /\ UNCHANGED <<file, op, copy, want, stale, torn>>

UpdateRepos(c) ==
    /\ Moves(c, "idle", "update")
    /\ copy' = [copy EXCEPT ![c] = file]
    /\ UNCHANGED <<file, index, op, want, stale, raced, torn>>

\* What cannot be downloaded keeps the index it has; what cannot be written
\* loses it.
Downloads(c) ==
    /\ Moves(c, "update", "done")
    /\ \E some, cut \in SUBSET copy[c] :
         /\ index' = (index \cup some) \ cut
         /\ torn' = (torn \/ cut # {})
    /\ UNCHANGED <<file, op, copy, want, stale, raced>>

\* The helm command adds a repository, under a lock the calls do not take.
HelmCommand(r) ==
    /\ r \notin file
    /\ file' = file \cup {r}
    /\ index' = index \cup {r}
    /\ want' = want \cup {r}
    /\ stale' = stale \cup Under \cup {d \in Calls : call[d] = "clean" /\ op[d].repo = r}
    /\ raced' = (raced \/ \E c \in Calls : call[c] = "writing")
    /\ UNCHANGED <<call, op, copy, torn>>

Next ==
    \/ \E c \in Calls :
         \/ \E r \in Repos : AddRepo(c, r) \/ RemoveRepo(c, r)
         \/ Download(c) \/ OpenFile(c) \/ WriteFile(c) \/ WriteFails(c) \/ CleanCache(c)
         \/ UpdateRepos(c) \/ Downloads(c) \/ LoadFails(c)
    \/ \E r \in Repos : HelmCommand(r)

Spec == Init /\ [][Next]_vars

-----------------------------------------------------------------------------
\* No repository is lost and none without its index: when no call is under
\* way the file has the names that were added and not removed, and each has
\* an index to be searched.  Two changes in turn, refreshes that overlap them,
\* and calls that fail before they write do no harm.  Excepted by name are a
\* call that another change had overtaken and that went on (helm.go:503, 518,
\* 522), and a write that failed after the file had been emptied (helm.go:503,
\* 518, and the index at 499), which needs no other call.
ReposAreWhole ==
    (\A c \in Calls : call[c] \in {"idle", "done"}) /\ ~raced /\ ~torn =>
        file = want /\ want \subseteq index
=============================================================================
