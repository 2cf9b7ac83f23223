------------------------------- MODULE CascadeInv -------------------------------
(***************************************************************************)
(* The inductive invariant behind SettledIndexed, for an operator who runs *)
(* one process at a time, files whose mtime never comes back, and marks    *)
(* that always reach the database (Exclusive, ~Restores, no "db" fault).   *)
(* Without these three the cascade does settle paths that are wrong.       *)
(***************************************************************************)
EXTENDS Cascade

Active(pr, p) == job[pr][p].phase # "none"

\* The handler of p works for the claim its row is in.
Claimed(pr, p) == Active(pr, p) /\ rows[p].status = "processing"

\* The row's mtime is the file's: no later change of the file can restore it.
Fresh(p) == disk[p] # 0 /\ rows[p].mtime = disk[p]

\* Nothing the cascade remembers of a file is newer than the file's last version.
VersionsBounded ==
    /\ \A p \in Paths : disk[p] <= last[p] /\ rows[p].mtime <= last[p]
    /\ \A pr \in Procs, p \in Paths :
           scan[pr].seen[p] <= last[p] /\ scan[pr].plan[p].mtime <= last[p]
    /\ \A c \in calls : c.mtime <= last[c.path]

OneProcess == \A pr \in Procs, q \in Procs : pr # q => mode[pr] = "off" \/ mode[q] = "off"

\* Handlers run only inside a drain, and only of a process that drains.
WorkInDrain ==
    \A pr \in Procs :
        /\ ~Drains(pr) => drain[pr].phase = "idle"
        /\ drain[pr].phase # "running" => \A p \in Paths : ~Active(pr, p)
        /\ mode[pr] = "off" => scan[pr].phase = "idle"
        /\ mode[pr] \in {"draining", "dropping"} => scan[pr].phase = "idle"

ServerModes ==
    /\ mode[Server] \in {"off", "serving"}
    /\ mode[Server] = "off" => events = {} /\ looked = {} /\ calls = {}
    /\ \A pr \in Procs : mode[pr] = "dropping" => \A p \in Paths : rows[p].status = "none"

\* A path that is being handled is claimed, or has been queued again meanwhile.
HandledNotFinished ==
    \A pr \in Procs, p \in Paths :
        Active(pr, p) => rows[p].status \in {"pending", "processing"}

\* What the handler of a live claim has read and written so far.
HandlerExact ==
    \A pr \in Procs, p \in Paths :
        /\ job[pr][p].change = "deleted" => job[pr][p].phase \in {"none", "call", "mark", "fail"}
        /\ Claimed(pr, p) =>
             /\ job[pr][p].change = rows[p].change
             /\ rows[p].change = "deleted" /\ job[pr][p].phase = "mark" => index[p] = 0
             /\ rows[p].change = "changed" /\ Fresh(p) =>
                  /\ job[pr][p].phase # "gone"
                  /\ job[pr][p].phase \in {"embed", "prune"} => job[pr][p].version = disk[p]
                  /\ job[pr][p].phase = "mark" => index[p] = disk[p]

\* A finished row is right for as long as its file stays as it was.
FinishedExact ==
    \A p \in Paths : rows[p].status = "done" =>
        /\ rows[p].change = "deleted" => index[p] = 0
        /\ rows[p].change = "changed" /\ Fresh(p) => index[p] = disk[p]

\* SettledIndexed, strengthened to what every step preserves.
SettledInv ==
    /\ TypeOK
    /\ VersionsBounded /\ OneProcess /\ WorkInDrain /\ ServerModes
    /\ HandledNotFinished /\ HandlerExact /\ FinishedExact

================================================================================
