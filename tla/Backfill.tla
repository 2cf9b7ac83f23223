-------------------------------- MODULE Backfill --------------------------------
(***************************************************************************)
(* `everos cascade backfill`: embed the rows that were stored while no     *)
(* embedder was configured, cluster the episodes and cases that were never *)
(* clustered, extract the skills of those clusters.  The command may be    *)
(* interrupted at any point and run again, and a server may be started     *)
(* beside it: the lock of the OME job store is probed at the start of a    *)
(* phase and held only while the phase drives an engine of its own.        *)
(*                                                                         *)
(* Abstractions:                                                           *)
(*  - A vector is the version of the text it was made from, 0 is NULL.     *)
(*  - Whether rows_failed is positive is kept, not the number.             *)
(*  - Which cluster an algorithm puts a row into is any choice.  A run     *)
(*    holds its owner's lock, in the one process that has the job store,   *)
(*    so what it reads and writes is one step.                             *)
(*  - The embedder is configured, and there is one owner of each kind.     *)
(***************************************************************************)
EXTENDS Integers, FiniteSets

CONSTANTS
    Episodes, Cases,
    WithSubject,    \* episodes that have a subject, embedded by itself
    GoodCases,      \* cases good enough for a skill
    EpisodeClusters, CaseClusters,
    BatchSize,      \* _EMBED_BATCH_SIZE
    MaxCommands, MaxServes, MaxText, MaxFaults      \* bounds

ASSUME BackfillAssumption ==
    /\ WithSubject \subseteq Episodes /\ GoodCases \subseteq Cases
    /\ Episodes \cap Cases = {} /\ EpisodeClusters \cap CaseClusters = {}
    /\ {BatchSize, MaxCommands, MaxServes, MaxText, MaxFaults} \subseteq Nat
    /\ BatchSize > 0 /\ MaxText > 0

VARIABLES
    text, vec,      \* the rows in LanceDB: version of the text, vectors
    members,        \* the rows of each cluster
    md, skills,     \* clusters with a SKILL.md, with a skill row in LanceDB
    stuck,          \* SKILL.md whose row of the cascade queue is failed or still claimed
    server,         \* a server is up, with the lock of the job store
    runs,           \* runs of the engine at work, the server's or the command's
    left,           \* runs recorded as running that no engine has
    cmd,            \* the command
    again,          \* rows that a second run, or a second attempt, may cluster
    late,           \* a server came up after a command had probed the lock
    commands, serves, faults

rows == <<text, vec>>
found == <<members, md, skills, stuck>>
engines == <<server, runs, left>>
bounds == <<commands, serves, faults>>
vars == <<rows, found, engines, cmd, again, late, bounds>>

Rows == Episodes \cup Cases
Clusters == EpisodeClusters \cup CaseClusters
Sides(r) == IF r \in WithSubject THEN {"primary", "subject"} ELSE {"primary"}
Clustered(r) == \E k \in Clusters : r \in members[k]

Phases == {"vectors", "clusters", "skills"}
ToCluster(r, n) == [kind |-> "cluster", row |-> r, command |-> n]
LeftFor(r) == \E run \in left : run.kind = "cluster" /\ run.row = r

\* SkillClusterUpdated as phase 3 synthesizes it, and as the clustering of a case emits it.
SkillEvent(r, k)       == [kind |-> "skill", row |-> r, cluster |-> k, good |-> FALSE]
SkillUpdated(r, k)     == [kind |-> "skill", row |-> r, cluster |-> k, good |-> r \in GoodCases]

Idle == [pc |-> "idle", phase |-> "vectors", all |-> FALSE, todo |-> {}, batch |-> {},
         scanned |-> {}, failed |-> FALSE, engine |-> FALSE, code |-> -1]

At(phase, pc) == cmd.phase = phase /\ cmd.pc = pc
Goto(pc) == cmd' = [cmd EXCEPT !.pc = pc]
Ended(c, code) == [c EXCEPT !.pc = "idle", !.todo = {}, !.batch = {}, !.engine = FALSE,
                            !.code = code]

\* The next phase of --phase all, or the end: 4 is COMPLETED_WITH_FAILURES.
After(c) ==
    IF c.all /\ c.phase # "skills"
    THEN [c EXCEPT !.phase = IF @ = "vectors" THEN "clusters" ELSE "skills",
                   !.pc = "probe", !.todo = {}, !.engine = FALSE]
    ELSE Ended(c, IF c.failed THEN 4 ELSE 0)

Fault(happens) == IF happens THEN faults < MaxFaults /\ faults' = faults + 1
                             ELSE UNCHANGED faults

\* One sweep and drain of the cascade.  A handler may fail, of what is stuck the sweep takes
\* up some rows again and not others, and only a count comes back.
Unindexed == md \ skills
Index(lost) == stuck' = lost /\ skills' = skills \cup (md \ lost)

\* A drain that is cut off leaves the rows that it has claimed.
CutOff(drains) ==
    \E claimed \in SUBSET Unindexed : (claimed # {} => drains) /\ stuck' = stuck \cup claimed

--------------------------------------------------------------------------------
(* The command: what the phases have in common. *)

Run(phase, all) ==
    /\ cmd.pc = "idle" /\ commands < MaxCommands
    /\ all => phase = "vectors"
    /\ cmd' = [Idle EXCEPT !.pc = "probe", !.phase = phase, !.all = all]
    /\ commands' = commands + 1
    /\ UNCHANGED <<rows, found, engines, again, late, serves, faults>>

\* Mutant: phase 1 does not look at the lock.
ProbeFromPhase2 ==
    /\ cmd.pc = "probe"
    /\ IF server /\ cmd.phase # "vectors" THEN cmd' = Ended(cmd, 3)
       ELSE Goto(IF cmd.phase = "skills" THEN "orphans" ELSE "scan")
    /\ UNCHANGED <<rows, found, engines, again, late, bounds>>

Probe ==
    /\ cmd.pc = "probe"
    /\ IF server THEN cmd' = Ended(cmd, 3)
       ELSE Goto(IF cmd.phase = "skills" THEN "orphans" ELSE "scan")
    /\ UNCHANGED <<rows, found, engines, again, late, bounds>>

Confirm(yes) ==
    /\ cmd.pc = "confirm"
    /\ IF yes THEN Goto(IF cmd.phase = "vectors" THEN "embed" ELSE "start")
              ELSE cmd' = Ended(cmd, 1)
    /\ UNCHANGED <<rows, found, engines, again, late, bounds>>

\* Ctrl-C: the engine, if there is one, is stopped on the way out.
Interrupt ==
    /\ cmd.pc # "idle"
    /\ Fault(TRUE)
    /\ cmd' = Ended(cmd, 130)
    /\ IF cmd.engine THEN runs' = {} /\ left' = left \cup runs ELSE UNCHANGED <<runs, left>>
    /\ CutOff(At("skills", "orphans") \/ (At("skills", "emit") /\ cmd.todo = {}))
    /\ UNCHANGED <<rows, members, md, skills, server, again, late, commands, serves>>

--------------------------------------------------------------------------------
(* Phase 1. *)

Missing(r) == {s \in Sides(r) : vec[r][s] = 0}
Backlog == {[row |-> r, text |-> text[r], needs |-> Missing(r)] :
                r \in {q \in Rows : Missing(q) # {}}}

\* A row that cannot be read counts as failed, also when nothing else is to do.
ScanVectors ==
    /\ At("vectors", "scan")
    /\ \E unread \in SUBSET Backlog :
         LET c == [cmd EXCEPT !.scanned = Backlog, !.failed = @ \/ unread # {}] IN
           /\ Fault(unread # {})
           /\ cmd' = IF Backlog = unread THEN After(c)
                     ELSE [c EXCEPT !.pc = "confirm", !.todo = Backlog \ unread]
    /\ UNCHANGED <<rows, found, engines, again, late, commands, serves>>

SameTable(b) == {x.row : x \in b} \subseteq Episodes \/ {x.row : x \in b} \subseteq Cases

\* What the embedder made of a batch b, and how the command goes on: a lost primary vector
\* counts as failed.
Got(b, lost) == {[scan |-> x, got |-> {s \in x.needs : <<x, s>> \notin lost}] : x \in b}
Embed(b, lost) ==
    [cmd EXCEPT !.pc = "write", !.todo = @ \ b, !.batch = Got(b, lost),
        !.failed = @ \/ \E x \in b : <<x, "primary">> \in lost]

\* A batch is embedded side by side and then row by row: what fails in the end fails alone.
EmbedBatch ==
    /\ At("vectors", "embed") /\ cmd.todo # {}
    /\ \E b \in SUBSET cmd.todo :
         /\ b # {} /\ Cardinality(b) <= BatchSize /\ SameTable(b)
         /\ \A x \in cmd.todo \ b : ~SameTable(b \cup {x}) \/ Cardinality(b) = BatchSize
         /\ \E lost \in SUBSET UNION {{<<x, s>> : s \in x.needs} : x \in b} :
              Fault(lost # {}) /\ cmd' = Embed(b, lost)
    /\ UNCHANGED <<rows, found, engines, again, late, commands, serves>>

\* Mutant: a row that was written is counted as processed, whatever it still lacks.
WriteRowAnyGap(y) ==
    /\ At("vectors", "write") /\ y \in cmd.batch
    /\ vec' = [vec EXCEPT ![y.scan.row] =
                   [s \in DOMAIN @ |-> IF s \in y.got THEN y.scan.text ELSE @[s]]]
    /\ cmd' = [cmd EXCEPT !.batch = @ \ {y}]
    /\ UNCHANGED <<text, found, engines, again, late, bounds>>

\* A row for which there is nothing to write is passed over; one whose write fails, or that
\* still lacks a side, counts as failed.
WriteRow(y) ==
    /\ At("vectors", "write") /\ y \in cmd.batch
    /\ \E fails \in BOOLEAN :
         LET written == y.got # {} /\ ~fails IN
           /\ Fault(fails) /\ (fails => y.got # {})
           /\ vec' = IF written
                     THEN [vec EXCEPT ![y.scan.row] =
                              [s \in DOMAIN @ |-> IF s \in y.got THEN y.scan.text ELSE @[s]]]
                     ELSE vec
           /\ cmd' = [cmd EXCEPT !.batch = @ \ {y},
                                 !.failed = @ \/ fails \/ (written /\ y.got # y.scan.needs)]
    /\ UNCHANGED <<text, found, engines, again, late, commands, serves>>

NextBatch ==
    /\ At("vectors", "write") /\ cmd.batch = {}
    /\ cmd' = IF cmd.todo = {} THEN After(cmd) ELSE [cmd EXCEPT !.pc = "embed"]
    /\ UNCHANGED <<rows, found, engines, again, late, bounds>>

--------------------------------------------------------------------------------
(* Phases 2 and 3: events for an engine that knows the phase's strategies. *)

ScanAll ==
    /\ At("clusters", "scan")
    /\ cmd' = IF Rows = {} THEN After(cmd) ELSE [cmd EXCEPT !.pc = "confirm", !.todo = Rows]
    /\ UNCHANGED <<rows, found, engines, again, late, bounds>>

\* Mutant: the files are left to the sync at the end.
SyncLater ==
    /\ At("skills", "orphans")
    /\ Goto("scan")
    /\ UNCHANGED <<rows, found, engines, again, late, bounds>>

\* SKILL.md files of an earlier, interrupted run are indexed first: the scan skips them.
SyncOrphans ==
    /\ At("skills", "orphans")
    /\ \E lost \in SUBSET Unindexed : Fault(lost \ stuck # {}) /\ Index(lost)
    /\ Goto("scan")
    /\ UNCHANGED <<rows, members, md, engines, again, late, commands, serves>>

Unskilled == {k \in CaseClusters : members[k] # {} /\ k \notin md \cup skills}

ScanSkillSource ==
    /\ At("skills", "scan")
    /\ LET source == UNION {{SkillEvent(r, k) : r \in members[k]} : k \in Unskilled} IN
         cmd' = IF source = {} THEN After(cmd) ELSE [cmd EXCEPT !.pc = "confirm", !.todo = source]
    /\ UNCHANGED <<rows, found, engines, again, late, bounds>>

\* Mutant: the engine does not take the lock.
StartEngineAnyway ==
    /\ cmd.pc = "start"
    /\ cmd' = [cmd EXCEPT !.pc = "emit", !.engine = TRUE]
    /\ UNCHANGED <<rows, found, engines, again, late, bounds>>

\* EngineLockHeldError is the same exit as the probe's.
StartEngine ==
    /\ cmd.pc = "start"
    /\ cmd' = IF server THEN Ended(cmd, 3) ELSE [cmd EXCEPT !.pc = "emit", !.engine = TRUE]
    /\ UNCHANGED <<rows, found, engines, again, late, bounds>>

\* Mutant: every row gets its event, as if the phase were run once.
EmitEveryRow(r) ==
    /\ At("clusters", "emit") /\ r \in cmd.todo
    /\ cmd' = [cmd EXCEPT !.todo = @ \ {r}]
    /\ runs' = runs \cup {ToCluster(r, commands)}
    /\ again' = IF LeftFor(r) THEN again \cup {r} ELSE again
    /\ UNCHANGED <<rows, found, server, left, late, bounds>>

\* A row that has its cluster is passed over.
EmitRow(r) ==
    /\ At("clusters", "emit") /\ r \in cmd.todo
    /\ cmd' = [cmd EXCEPT !.todo = @ \ {r}]
    /\ IF Clustered(r) THEN UNCHANGED <<runs, again>>
       ELSE /\ runs' = runs \cup {ToCluster(r, commands)}
            /\ again' = IF LeftFor(r) THEN again \cup {r} ELSE again
    /\ UNCHANGED <<rows, found, server, left, late, bounds>>

EmitSkill(e) ==
    /\ At("skills", "emit") /\ e \in cmd.todo
    /\ cmd' = [cmd EXCEPT !.todo = @ \ {e}]
    /\ runs' = runs \cup {e}
    /\ UNCHANGED <<rows, found, server, left, again, late, bounds>>

\* wait_idle, then stop(): what the deadline leaves undone stays recorded as running.
\* Phase 3 indexes its new files before it returns.
Drained ==
    /\ cmd.pc = "emit" /\ cmd.todo = {}
    /\ left' = left \cup runs /\ runs' = {}
    /\ IF cmd.phase = "skills"
       THEN \E lost \in SUBSET Unindexed : Fault(runs # {} \/ lost \ stuck # {}) /\ Index(lost)
       ELSE Fault(runs # {}) /\ UNCHANGED <<skills, stuck>>
    /\ cmd' = After(cmd)
    /\ UNCHANGED <<rows, members, md, server, again, late, commands, serves>>

--------------------------------------------------------------------------------
(* Runs, in the server's engine or in the command's. *)

ClustersFor(r) == IF r \in Episodes THEN EpisodeClusters ELSE CaseClusters

\* Merge into a cluster that there is, or make one.  An attempt may die after it wrote.
\* Only the server's engine has somebody who listens.
Cluster(run) ==
    /\ run.kind = "cluster" /\ run.row \notin Cases \ GoodCases
    /\ \E k \in ClustersFor(run.row), dies \in BOOLEAN :
         /\ members' = [members EXCEPT ![k] = @ \cup {run.row}]
         /\ Fault(dies)
         /\ runs' = (IF dies THEN runs ELSE runs \ {run})
                 \cup (IF server /\ ~dies /\ run.row \in Cases THEN {SkillUpdated(run.row, k)}
                                                              ELSE {})
         /\ again' = IF dies THEN again \cup {run.row} ELSE again
    /\ UNCHANGED <<rows, md, skills, stuck, server, left, cmd, late, commands, serves>>

\* A case below the threshold is not clustered.
SkipCase(run) ==
    /\ run.kind = "cluster" /\ run.row \in Cases \ GoodCases
    /\ runs' = runs \ {run}
    /\ UNCHANGED <<rows, found, server, left, cmd, again, late, bounds>>

\* The extractor returns nothing for a case whose quality is below its threshold.
ExtractSkill(run) ==
    /\ run.kind = "skill"
    /\ md' = IF run.good THEN md \cup {run.cluster} ELSE md
    /\ runs' = runs \ {run}
    /\ UNCHANGED <<rows, members, skills, stuck, server, left, cmd, again, late, bounds>>

\* The last attempt has failed.
GiveUp(run) ==
    /\ Fault(TRUE)
    /\ runs' = runs \ {run}
    /\ UNCHANGED <<rows, found, server, left, cmd, again, late, commands, serves>>

--------------------------------------------------------------------------------
(* The server. *)

\* It takes the lock and recovers what it finds recorded as running.
ServerStart ==
    /\ ~server /\ ~cmd.engine /\ serves < MaxServes
    /\ server' = TRUE /\ runs' = left /\ left' = {}
    /\ late' = (late \/ cmd.pc \notin {"idle", "probe"})
    /\ serves' = serves + 1
    /\ UNCHANGED <<rows, found, cmd, again, commands, faults>>

ServerStop ==
    /\ server
    /\ server' = FALSE /\ left' = runs /\ runs' = {}
    /\ CutOff(TRUE)
    /\ UNCHANGED <<rows, members, md, skills, cmd, again, late, bounds>>

\* A user edits an entry; the cascade stores its text and its vectors.
ServerEdit(r) ==
    /\ server /\ text[r] < MaxText
    /\ text' = [text EXCEPT ![r] = @ + 1]
    /\ vec' = [vec EXCEPT ![r] = [s \in Sides(r) |-> text[r] + 1]]
    /\ UNCHANGED <<found, engines, cmd, again, late, bounds>>

ServerIndex ==
    /\ server
    /\ \E lost \in SUBSET Unindexed : Fault(lost \ stuck # {}) /\ Index(lost)
    /\ UNCHANGED <<rows, members, md, engines, cmd, again, late, commands, serves>>

--------------------------------------------------------------------------------
\* Rows of a time without embedder, of an embedder that failed on a side, and others.
Init ==
    /\ text = [r \in Rows |-> 1]
    /\ vec \in {v \in [Rows -> UNION {[Sides(r) -> 0 .. 1] : r \in Rows}] :
                  \A r \in Rows : DOMAIN v[r] = Sides(r)}
    /\ members = [k \in Clusters |-> {}] /\ md = {} /\ skills = {} /\ stuck = {}
    /\ server = FALSE /\ runs = {} /\ left = {}
    /\ cmd = Idle /\ again = {} /\ late = FALSE
    /\ commands = 0 /\ serves = 0 /\ faults = 0

Next ==
    \/ \E phase \in Phases, all \in BOOLEAN : Run(phase, all)
    \/ Probe \/ (\E yes \in BOOLEAN : Confirm(yes)) \/ Interrupt
    \/ ScanVectors \/ EmbedBatch \/ (\E y \in cmd.batch : WriteRow(y)) \/ NextBatch
    \/ ScanAll \/ SyncOrphans \/ ScanSkillSource \/ StartEngine \/ Drained
    \/ \E r \in Rows : EmitRow(r) \/ ServerEdit(r)
    \/ \E e \in cmd.todo : EmitSkill(e)
    \/ \E run \in runs : Cluster(run) \/ SkipCase(run) \/ ExtractSkill(run) \/ GiveUp(run)
    \/ ServerStart \/ ServerStop \/ ServerIndex

Spec == Init /\ [][Next]_vars

--------------------------------------------------------------------------------
\* The exit code tells whether rows are left without vectors: when it is 0 every side that
\* the scan found missing is there (but a subject whose row had its primary vector already).
ExitZeroMeansEmbedded ==
    cmd.pc = "idle" /\ cmd.code = 0 =>
        \A x \in cmd.scanned : \A s \in x.needs :
            vec[x.row][s] # 0 \/ (s = "subject" /\ "primary" \notin x.needs)

\* A vector is that of the row's text, as long as no server came up behind the probe: the
\* command writes vectors of the text that it scanned.
FreshVectors ==
    ~late => \A r \in Rows : \A s \in Sides(r) : vec[r][s] \in {0, text[r]}

\* However often the phase is interrupted and run again, a row is in one cluster, unless an
\* attempt died after it wrote or a run was left behind that the server then recovers.
OneCluster ==
    \A r \in Rows \ again : \A j, k \in Clusters :
        r \in members[j] /\ r \in members[k] => j = k

\* When phase 3 ends well every SKILL.md is indexed, those of an earlier interruption too,
\* but for those whose row of the queue is left failed or claimed: the exit code is silent
\* about them.
OrphansIndexed ==
    [][cmd.phase = "skills" /\ cmd.pc # "idle" /\ cmd'.pc = "idle" /\ cmd'.code = 0 /\ ~late
         => md \ stuck' \subseteq skills']_vars

TypeOK ==
    /\ text \in [Rows -> 1 .. MaxText]
    /\ \A r \in Rows : vec[r] \in [Sides(r) -> 0 .. MaxText]
    /\ \A k \in EpisodeClusters : members[k] \subseteq Episodes
    /\ \A k \in CaseClusters : members[k] \subseteq GoodCases
    /\ md \subseteq CaseClusters /\ skills \subseteq md /\ stuck \subseteq md \ skills
    /\ cmd.engine => ~server
    /\ ~cmd.engine /\ ~server => runs = {}
    /\ again \subseteq Rows
================================================================================
