------------------------------ MODULE IndexMirror ------------------------------
(***************************************************************************)
(* What the cascade promises, without its queue, processes or retries:     *)
(* files change at any time, the index is brought up to date path by path, *)
(* and a path is called settled only while its index entry is exact.  As   *)
(* long as a path is settled nothing touches its entry.                    *)
(***************************************************************************)
EXTENDS Integers

CONSTANTS
    Paths,
    Versions    \* of a file; 0 when it does not exist

VARIABLES
    disk,       \* version of each file, 0 when it does not exist
    index,      \* version indexed for each path, 0 when none, -1 when mixed
    settled     \* the paths called up to date

vars == <<disk, index, settled>>

Init ==
    /\ disk  = [p \in Paths |-> 0]
    /\ index = [p \in Paths |-> 0]
    /\ settled = {}

\* A file changes.  Its path is settled afterwards only if the index happens to
\* hold the new state already (a file that came and went unnoticed).
Edit(p) ==
    /\ \E v \in Versions : v # disk[p] /\ disk' = [disk EXCEPT ![p] = v]
    /\ index' = index
    /\ \/ settled' = settled \ {p}
       \/ index[p] = disk'[p] /\ settled' = settled \cup {p}

\* A path is queued again, or a whole rebuild queues all of them.
Reopen(ps) ==
    /\ settled' = settled \ ps
    /\ UNCHANGED <<disk, index>>

\* Entries are written or deleted, of paths that are not settled only.
Reindex(ps) ==
    /\ ps \cap settled = {}
    /\ \E f \in [ps -> Versions \cup {-1}] :
           index' = [p \in Paths |-> IF p \in ps THEN f[p] ELSE index[p]]
    /\ UNCHANGED <<disk, settled>>

Settle(p) ==
    /\ index[p] = disk[p]
    /\ settled' = settled \cup {p}
    /\ UNCHANGED <<disk, index>>

Next ==
    \/ \E p \in Paths : Edit(p) \/ Settle(p)
    \/ \E ps \in SUBSET Paths : Reopen(ps) \/ Reindex(ps)

Spec == Init /\ [][Next]_vars
================================================================================
