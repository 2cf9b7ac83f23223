----------------------------- MODULE BackfillProofs -----------------------------
(***************************************************************************)
(* Proofs about Backfill, for any rows, clusters, batch size and number of *)
(* commands, servers and faults.                                           *)
(***************************************************************************)
EXTENDS Backfill, TLAPS

Pcs == {"idle", "probe", "orphans", "scan", "confirm", "embed", "write", "start", "emit"}

Gaps         == SUBSET {"primary", "subject"}
Scans        == [row : Rows, text : 1 .. MaxText, needs : Gaps]
Embedded     == [scan : Scans, got : Gaps]
ClusterRuns  == [kind : {"cluster"}, row : Rows, command : Nat]
SkillRuns    == [kind : {"skill"}, row : Cases, cluster : CaseClusters, good : BOOLEAN]
EngineRuns   == ClusterRuns \cup SkillRuns

Commands ==
    [pc : Pcs, phase : Phases, all : BOOLEAN, todo : SUBSET (Scans \cup Rows \cup SkillRuns),
     batch : SUBSET Embedded, scanned : SUBSET Scans, failed : BOOLEAN, engine : BOOLEAN,
     code : Int]

Typed ==
    /\ TypeOK
    /\ vec = [r \in Rows |-> vec[r]] /\ members \in [Clusters -> SUBSET Rows]
    /\ runs \subseteq EngineRuns /\ left \subseteq EngineRuns
    /\ server \in BOOLEAN /\ late \in BOOLEAN /\ commands \in Nat
    /\ cmd \in Commands

\* What the command has in its hands at each of its steps.
CommandShape ==
    /\ cmd.engine <=> cmd.pc = "emit"
    /\ cmd.pc \in {"idle", "probe", "orphans", "scan"} => cmd.todo = {}
    /\ cmd.pc # "write" => cmd.batch = {}
    /\ cmd.pc \in {"embed", "write"} => cmd.phase = "vectors"
    /\ cmd.pc \in {"start", "emit"} => cmd.phase # "vectors"
    /\ cmd.phase = "vectors" => cmd.todo \subseteq cmd.scanned
    /\ cmd.phase = "clusters" => cmd.todo \subseteq Rows
    /\ cmd.phase = "skills" => cmd.todo \subseteq SkillRuns
    /\ \A y \in cmd.batch : y.scan \in cmd.scanned /\ y.got \subseteq y.scan.needs
    /\ \A x \in cmd.scanned : x.needs \subseteq Sides(x.row)

\* A server beside a command that is past its probe came up late.
ServerSeen ==
    /\ server => left = {}
    /\ server /\ cmd.pc \notin {"idle", "probe"} => late

\* What phase 1 has scanned is still the text, as long as no server came up behind the probe.
ScansFresh ==
    ~late /\ cmd.phase = "vectors" =>
        /\ \A x \in cmd.todo : x.text = text[x.row]
        /\ \A y \in cmd.batch : y.scan.text = text[y.scan.row]

Filled(x) ==
    \A s \in x.needs : vec[x.row][s] # 0 \/ (s = "subject" /\ "primary" \notin x.needs)

\* A gap that was found is on its way or filled, unless a failure has been counted.
GapsKept ==
    (IF cmd.pc = "idle" THEN cmd.code = 0 ELSE ~cmd.failed) =>
        \A x \in cmd.scanned :
            \/ cmd.phase = "vectors" /\ x \in cmd.todo
            \/ \E y \in cmd.batch :
                 y.scan = x /\ ("primary" \in x.needs => "primary" \in y.got)
            \/ Filled(x)

ForRow(r) == {run \in runs \cup left : run.kind = "cluster" /\ run.row = r}

\* A row is clustered by one run, and after that by none.
OneRun ==
    /\ \A run \in runs \cap left : run.kind = "cluster" => run.row \in again
    /\ \A r \in Rows \ again :
         /\ \A a, b \in ForRow(r) : a = b
         /\ Clustered(r) => ForRow(r) = {}
    /\ cmd.phase = "clusters" /\ cmd.pc = "emit" => \A r \in cmd.todo, run \in runs :
                                    ~(run.kind = "cluster" /\ run.row = r)

\* Between the sync and the scan nobody writes a SKILL.md.
OrphansSynced ==
    cmd.phase = "skills" /\ cmd.pc = "scan" /\ ~late => md \ stuck \subseteq skills

BackfillInv ==
    /\ Typed /\ CommandShape /\ ServerSeen
    /\ ScansFresh /\ FreshVectors /\ GapsKept /\ OneRun /\ OneCluster /\ OrphansSynced

--------------------------------------------------------------------------------
(* The command's record. *)

LEMMA EndedFields ==
    ASSUME NEW c \in Commands, NEW code \in Int
    PROVE  LET d == Ended(c, code) IN
           /\ d \in Commands /\ d.pc = "idle" /\ d.phase = c.phase /\ d.todo = {} /\ d.batch = {}
           /\ d.scanned = c.scanned /\ d.failed = c.failed /\ ~d.engine /\ d.code = code
BY DEF Ended, Commands, Pcs

\* A phase ends well: the command goes on to probe for the next one, or is over.
LEMMA AfterFields ==
    ASSUME NEW c \in Commands
    PROVE  LET d == After(c) IN
           /\ d \in Commands /\ d.todo = {} /\ d.scanned = c.scanned /\ d.failed = c.failed
           /\ ~d.engine /\ d.batch \in {{}, c.batch}
           /\ \/ /\ d.pc = "probe" /\ d.phase \in {"clusters", "skills"} /\ c.phase # "skills"
              \/ /\ d.pc = "idle" /\ d.phase = c.phase /\ d.batch = {}
                 /\ d.code = 0 => ~c.failed
<1>1. CASE c.all /\ c.phase # "skills"
    BY <1>1 DEF After, Commands, Pcs, Phases
<1>2. CASE ~(c.all /\ c.phase # "skills")
    BY <1>2, EndedFields DEF After
<1> QED
    BY <1>1, <1>2

LEMMA GotoFields ==
    ASSUME Typed, NEW pc \in Pcs, Goto(pc)
    PROVE  /\ cmd' \in Commands /\ cmd'.pc = pc /\ cmd'.phase = cmd.phase /\ cmd'.todo = cmd.todo
           /\ cmd'.batch = cmd.batch /\ cmd'.scanned = cmd.scanned /\ cmd'.failed = cmd.failed
           /\ cmd'.engine = cmd.engine /\ cmd'.code = cmd.code
BY DEF Typed, Goto, Commands

\* What is embedded is part of what the scan of the row found missing.
LEMMA GotOf ==
    ASSUME NEW b, NEW lost, NEW y \in Got(b, lost)
    PROVE  /\ y.scan \in b /\ y.got \subseteq y.scan.needs
           /\ \A s \in y.scan.needs : s \in y.got \/ <<y.scan, s>> \in lost
<1>1. PICK x \in b : y = [scan |-> x, got |-> {s \in x.needs : <<x, s>> \notin lost}]
    BY DEF Got
<1> QED
    BY <1>1

\* What an embedded batch leaves in the command.
LEMMA EmbedFields ==
    ASSUME Typed, CommandShape, At("vectors", "embed"), NEW b \in SUBSET cmd.todo, NEW lost,
           cmd' = Embed(b, lost)
    PROVE  /\ cmd' \in Commands /\ cmd'.pc = "write" /\ cmd'.phase = "vectors" /\ ~cmd'.engine
           /\ cmd'.scanned = cmd.scanned /\ cmd'.todo = cmd.todo \ b
           /\ cmd'.batch = Got(b, lost)
           /\ cmd'.failed = (cmd.failed \/ \E x \in b : <<x, "primary">> \in lost)
<1> DEFINE failed == cmd.failed \/ \E x \in b : <<x, "primary">> \in lost
<1>1. cmd \in Commands /\ b \subseteq Scans /\ ~cmd.engine /\ cmd.phase = "vectors"
    BY DEF Typed, CommandShape, Commands, At
<1>2. Got(b, lost) \subseteq Embedded
  <2>1. ASSUME NEW x \in b PROVE [scan |-> x, got |-> {s \in x.needs : <<x, s>> \notin lost}] \in Embedded
    <3>1. x \in Scans /\ x.needs \in Gaps
      BY <1>1 DEF Scans
    <3>2. {s \in x.needs : <<x, s>> \notin lost} \in Gaps
      BY <3>1 DEF Gaps
    <3> QED
      BY <3>1, <3>2 DEF Embedded
  <2> QED
    BY <2>1 DEF Got
<1>3. failed \in BOOLEAN
    BY <1>1 DEF Commands
<1>4. Embed(b, lost) = [cmd EXCEPT !.pc = "write", !.todo = @ \ b, !.batch = Got(b, lost),
                                   !.failed = failed]
    BY DEF Embed
<1> HIDE DEF failed
<1>5. Embed(b, lost) \in Commands
    BY <1>1, <1>2, <1>3, <1>4 DEF Commands, Pcs
<1>6. /\ cmd'.pc = "write" /\ cmd'.phase = "vectors" /\ ~cmd'.engine
      /\ cmd'.scanned = cmd.scanned /\ cmd'.todo = cmd.todo \ b /\ cmd'.batch = Got(b, lost)
      /\ cmd'.failed = failed
    BY <1>1, <1>4 DEF Commands
<1> QED
    BY <1>5, <1>6 DEF failed

\* What a row that was written leaves.
LEMMA WriteFields ==
    ASSUME Typed, CommandShape, NEW y \in cmd.batch, WriteRow(y)
    PROVE  /\ cmd' \in Commands /\ cmd'.pc = "write" /\ cmd'.phase = "vectors"
           /\ ~cmd'.engine /\ ~cmd.engine
           /\ cmd'.scanned = cmd.scanned /\ cmd'.todo = cmd.todo /\ cmd'.batch = cmd.batch \ {y}
<1>1. cmd \in Commands /\ cmd.pc = "write" /\ cmd.phase = "vectors" /\ ~cmd.engine
    BY DEF Typed, CommandShape, WriteRow, At
<1>2. PICK failed \in BOOLEAN : cmd' = [cmd EXCEPT !.batch = @ \ {y}, !.failed = failed]
  <2>1. PICK fails \in BOOLEAN : cmd' = [cmd EXCEPT !.batch = @ \ {y},
               !.failed = @ \/ fails \/ (y.got # {} /\ ~fails /\ y.got # y.scan.needs)]
    BY DEF WriteRow
  <2>2. cmd.failed \/ fails \/ (y.got # {} /\ ~fails /\ y.got # y.scan.needs) \in BOOLEAN
    BY <1>1 DEF Commands
  <2> QED
    BY <2>1, <2>2
<1>3. cmd' \in Commands
    BY <1>1, <1>2 DEF Commands
<1> QED
    BY <1>1, <1>2, <1>3 DEF Commands

--------------------------------------------------------------------------------
(* The initial state. *)

LEMMA BackfillInit == Init => BackfillInv
<1> SUFFICES ASSUME Init PROVE BackfillInv
    OBVIOUS
<1> USE BackfillAssumption DEF Init
<1>1. Idle \in Commands
    BY DEF Idle, Commands, Pcs, Phases
<1>2. \A r \in Rows : vec[r] \in [Sides(r) -> 0 .. 1]
  <2> TAKE r \in Rows
  <2>1. \E q \in Rows : vec[r] \in [Sides(q) -> 0 .. 1]
      OBVIOUS
  <2> QED
      BY <2>1
<1>3. Typed
  <2>1. text \in [Rows -> 1 .. MaxText] /\ \A r \in Rows : vec[r] \in [Sides(r) -> 0 .. MaxText]
    <3>1. 0 .. 1 \subseteq 0 .. MaxText /\ 1 \in 1 .. MaxText
        OBVIOUS
    <3>2. \A r \in Rows : vec[r] \in [Sides(r) -> 0 .. MaxText]
        BY <1>2, <3>1
    <3> QED
        BY <3>1, <3>2
  <2>2. ~cmd.engine
    BY DEF Idle
  <2>3. TypeOK
    BY <2>1, <2>2 DEF TypeOK, Clusters
  <2> QED
    BY <1>1, <2>3 DEF Typed
<1>4. CommandShape /\ ServerSeen /\ ScansFresh /\ GapsKept
    BY DEF CommandShape, ServerSeen, ScansFresh, GapsKept, Idle
<1>5. FreshVectors
    BY <1>2 DEF FreshVectors
<1>6. OneRun /\ OneCluster /\ OrphansSynced
    BY DEF OneRun, OneCluster, OrphansSynced, Clustered, ForRow, Idle
<1> QED
    BY <1>3, <1>4, <1>5, <1>6 DEF BackfillInv

\* The scan of phase 1: what is unreadable is scanned, counted, and not to do.
LEMMA ScanFields ==
    ASSUME BackfillInv, ScanVectors
    PROVE  /\ cmd' \in Commands /\ cmd'.engine = FALSE /\ cmd'.scanned = Backlog
           /\ cmd'.batch = {} /\ cmd'.todo \subseteq Backlog
           /\ \/ cmd'.pc = "confirm" /\ cmd'.phase = "vectors"
              \/ cmd'.todo = {} /\ cmd'.pc = "idle" /\ cmd'.phase = "vectors"
              \/ cmd'.todo = {} /\ cmd'.pc = "probe" /\ cmd'.phase \in {"clusters", "skills"}
           /\ \/ cmd'.todo = Backlog /\ cmd'.failed = cmd.failed
              \/ cmd'.failed = TRUE
           /\ cmd'.pc = "idle" /\ cmd'.code = 0 => cmd'.failed = FALSE
<1>0. /\ Typed /\ TypeOK /\ CommandShape /\ cmd \in Commands
      /\ cmd.phase = "vectors" /\ cmd.pc = "scan" /\ cmd.engine = FALSE /\ cmd.batch = {}
    BY DEF BackfillInv, Typed, ScanVectors, At, CommandShape, Commands
<1>1. Backlog \subseteq Scans
    BY <1>0, BackfillAssumption DEF Backlog, Scans, Missing, Sides, Gaps, TypeOK
<1>2. PICK unread \in SUBSET Backlog :
          LET c == [cmd EXCEPT !.scanned = Backlog, !.failed = @ \/ unread # {}] IN
          cmd' = IF Backlog = unread THEN After(c)
                 ELSE [c EXCEPT !.pc = "confirm", !.todo = Backlog \ unread]
    BY DEF ScanVectors
<1> DEFINE c == [cmd EXCEPT !.scanned = Backlog, !.failed = @ \/ unread # {}]
<1>3. /\ c \in Commands /\ c.scanned = Backlog /\ c.failed = (cmd.failed \/ unread # {})
      /\ c.pc = "scan" /\ c.phase = "vectors" /\ c.engine = FALSE /\ c.batch = {}
    BY <1>0, <1>1 DEF Commands
<1>4. cmd' = IF Backlog = unread THEN After(c)
             ELSE [c EXCEPT !.pc = "confirm", !.todo = Backlog \ unread]
    BY <1>2
<1> HIDE DEF c
<1>5. CASE Backlog = unread
  <2>1. cmd' = After(c)
      BY <1>4, <1>5
  <2>2. /\ cmd' \in Commands /\ cmd'.todo = {} /\ cmd'.scanned = Backlog /\ cmd'.batch = {}
        /\ cmd'.failed = (cmd.failed \/ unread # {}) /\ ~cmd'.engine
        /\ \/ cmd'.pc = "probe" /\ cmd'.phase \in {"clusters", "skills"}
           \/ cmd'.pc = "idle" /\ cmd'.phase = "vectors" /\ (cmd'.code = 0 => ~cmd'.failed)
      BY <1>3, <2>1, AfterFields
  <2>3. cmd'.engine \in BOOLEAN /\ cmd'.failed \in BOOLEAN /\ cmd.failed \in BOOLEAN
      BY <1>0, <2>2 DEF Commands
  <2>4. unread = {} => cmd'.failed = cmd.failed /\ cmd'.todo = Backlog
      BY <1>5, <2>2, <2>3
  <2>5. unread # {} => cmd'.failed = TRUE
      BY <2>2, <2>3
  <2>6. cmd'.engine = FALSE /\ (cmd'.pc = "idle" /\ cmd'.code = 0 => cmd'.failed = FALSE)
      BY <2>2, <2>3
  <2> QED
      BY <2>2, <2>4, <2>5, <2>6
<1>6. CASE Backlog # unread
  <2>1. cmd' = [c EXCEPT !.pc = "confirm", !.todo = Backlog \ unread]
      BY <1>4, <1>6
  <2>2. /\ cmd' \in Commands /\ cmd'.pc = "confirm" /\ cmd'.phase = "vectors"
        /\ cmd'.todo = Backlog \ unread /\ cmd'.scanned = Backlog /\ cmd'.batch = {}
        /\ cmd'.engine = FALSE
      BY <1>1, <1>3, <2>1 DEF Commands, Pcs
  <2>3. cmd'.failed = (cmd.failed \/ unread # {}) /\ cmd.failed \in BOOLEAN
      BY <1>0, <1>3, <2>1 DEF Commands
  <2> QED
      BY <2>2, <2>3
<1> QED
    BY <1>5, <1>6

--------------------------------------------------------------------------------
(* Types. *)

\* A step that leaves alone what Typed is about, or changes one group of it.
LEMMA TypedCommand ==
    ASSUME Typed, cmd' \in Commands, cmd'.engine => ~server', ~cmd'.engine /\ ~server' => runs' = {},
           runs' \subseteq EngineRuns, left' \subseteq EngineRuns, server' \in BOOLEAN,
           late' \in BOOLEAN, commands' \in Nat, again' \subseteq Rows,
           UNCHANGED <<rows, found>>
    PROVE  Typed'
BY DEF Typed, TypeOK, rows, found

\* A drain that is cut off makes files stuck that are not indexed yet.
LEMMA TypedCutOff ==
    ASSUME Typed, cmd' \in Commands, cmd'.engine => ~server', ~cmd'.engine /\ ~server' => runs' = {},
           runs' \subseteq EngineRuns, left' \subseteq EngineRuns, server' \in BOOLEAN,
           late' \in BOOLEAN, commands' \in Nat, again' \subseteq Rows,
           NEW drains \in BOOLEAN, CutOff(drains), UNCHANGED <<rows, members, md, skills>>
    PROVE  Typed'
BY DEF Typed, TypeOK, rows, CutOff, Unindexed

LEMMA TypedStays ==
    ASSUME BackfillInv, Next
    PROVE  Typed'
<1> USE BackfillAssumption
<1>0. Typed /\ TypeOK /\ CommandShape /\ cmd \in Commands /\ cmd.failed \in BOOLEAN
    BY DEF BackfillInv, Typed, Commands
<1>1. ASSUME NEW phase \in Phases, NEW all \in BOOLEAN, Run(phase, all) PROVE Typed'
  <2>1. cmd' \in Commands /\ ~cmd'.engine /\ ~cmd.engine
    <3>1. cmd' = [Idle EXCEPT !.pc = "probe", !.phase = phase, !.all = all]
      BY <1>1 DEF Run
    <3>2. Idle \in Commands /\ ~Idle.engine
      BY DEF Idle, Commands, Pcs, Phases
    <3>3. cmd' \in Commands /\ ~cmd'.engine
      BY <3>1, <3>2 DEF Commands, Pcs
    <3> QED
      BY <1>0, <1>1, <3>3 DEF Run, CommandShape
  <2> QED
    BY <1>0, <1>1, <2>1, TypedCommand DEF Run, Typed, TypeOK, engines
<1>2. CASE Probe
  <2>1. cmd' \in Commands /\ cmd'.engine = FALSE /\ cmd.engine = FALSE
    BY <1>0, <1>2, EndedFields, GotoFields DEF Probe, Pcs, CommandShape, Commands
  <2> QED
    BY <1>0, <1>2, <2>1, TypedCommand DEF Probe, Typed, TypeOK, engines, bounds
<1>3. ASSUME NEW yes \in BOOLEAN, Confirm(yes) PROVE Typed'
  <2>1. cmd' \in Commands /\ cmd'.engine = FALSE /\ cmd.engine = FALSE
    BY <1>0, <1>3, EndedFields, GotoFields DEF Confirm, Pcs, CommandShape, Commands
  <2> QED
    BY <1>0, <1>3, <2>1, TypedCommand DEF Confirm, Typed, TypeOK, engines, bounds
<1>4. CASE Interrupt
  <2>1. cmd' \in Commands /\ cmd'.engine = FALSE
    BY <1>0, <1>4, EndedFields DEF Interrupt, Commands
  <2> QED
    BY <1>0, <1>4, <2>1, TypedCutOff DEF Interrupt, Typed, TypeOK
<1>5. CASE ScanVectors
  <2>1. cmd' \in Commands /\ cmd'.engine = FALSE
    BY <1>5, ScanFields
  <2>2. cmd.engine = FALSE
    BY <1>0, <1>5 DEF ScanVectors, At, CommandShape, Commands
  <2> QED
    BY <1>0, <1>5, <2>1, <2>2, TypedCommand DEF ScanVectors, Typed, TypeOK, engines
<1>6. CASE EmbedBatch
  <2>1. PICK b \in SUBSET cmd.todo : \E lost : cmd' = Embed(b, lost)
    BY <1>6 DEF EmbedBatch
  <2>2. PICK lost : cmd' = Embed(b, lost)
    BY <2>1
  <2>3. cmd' \in Commands /\ ~cmd'.engine /\ ~cmd.engine
    <3>1. At("vectors", "embed") /\ ~cmd.engine
      BY <1>0, <1>6 DEF EmbedBatch, At, CommandShape, Commands
    <3> QED
      BY <1>0, <2>2, <3>1, EmbedFields
  <2> QED
    BY <1>0, <1>6, <2>3, TypedCommand DEF EmbedBatch, Typed, TypeOK, engines
<1>7. ASSUME NEW y \in cmd.batch, WriteRow(y) PROVE Typed'
  <2>1. y \in Embedded /\ y.scan \in Scans /\ y.scan.row \in Rows /\ y.scan.text \in 1 .. MaxText
    BY <1>0 DEF Commands, Embedded, Scans
  <2>2. cmd' \in Commands /\ ~cmd'.engine /\ ~cmd.engine
    BY <1>0, <1>7, WriteFields
  <2>3. vec' = [r \in Rows |-> vec'[r]]
    BY <1>0, <1>7 DEF WriteRow, Typed
  <2>4. ASSUME NEW r \in Rows PROVE vec'[r] \in [Sides(r) -> 0 .. MaxText]
    <3>1. vec[r] \in [Sides(r) -> 0 .. MaxText]
      BY <1>0 DEF TypeOK
    <3>2. CASE vec' = vec
      BY <3>1, <3>2
    <3>3. CASE vec' = [vec EXCEPT ![y.scan.row] =
                [s \in DOMAIN @ |-> IF s \in y.got THEN y.scan.text ELSE @[s]]]
      <4>1. CASE r = y.scan.row
        <5>1. vec'[r] = [s \in DOMAIN vec[r] |-> IF s \in y.got THEN y.scan.text ELSE vec[r][s]]
          BY <1>0, <3>3, <4>1, <2>1 DEF Typed
        <5> QED
          BY <5>1, <3>1, <2>1
      <4>2. CASE r # y.scan.row
        BY <1>0, <3>1, <3>3, <4>2 DEF Typed
      <4> QED
        BY <4>1, <4>2
    <3> QED
      BY <1>7, <3>2, <3>3 DEF WriteRow
  <2> QED
    BY <1>0, <1>7, <2>2, <2>3, <2>4 DEF WriteRow, Typed, TypeOK, engines, found
<1>8. CASE NextBatch
  <2>1. cmd' \in Commands /\ cmd'.engine = FALSE /\ cmd.engine = FALSE
    BY <1>0, <1>8, AfterFields DEF NextBatch, At, Pcs, CommandShape, Commands
  <2> QED
    BY <1>0, <1>8, <2>1, TypedCommand DEF NextBatch, Typed, TypeOK, engines, bounds
<1>9. CASE ScanAll
  <2>1. cmd' \in Commands /\ cmd'.engine = FALSE /\ cmd.engine = FALSE
    BY <1>0, <1>9, AfterFields DEF ScanAll, At, Pcs, CommandShape, Commands
  <2> QED
    BY <1>0, <1>9, <2>1, TypedCommand DEF ScanAll, Typed, TypeOK, engines, bounds
<1>10. CASE SyncOrphans
  <2>1. cmd' \in Commands /\ cmd'.engine = FALSE /\ cmd.engine = FALSE
    BY <1>0, <1>10, GotoFields DEF SyncOrphans, At, Pcs, CommandShape, Commands
  <2> QED
    BY <1>0, <1>10, <2>1 DEF SyncOrphans, Index, Unindexed, Typed, TypeOK, rows, engines
<1>11. CASE ScanSkillSource
  <2>1. \A k \in CaseClusters : \A r \in members[k] : SkillEvent(r, k) \in SkillRuns
    BY <1>0 DEF SkillEvent, SkillRuns, TypeOK
  <2>2. UNION {{SkillEvent(r, k) : r \in members[k]} : k \in Unskilled} \subseteq SkillRuns
    BY <2>1 DEF Unskilled
  <2>3. cmd' \in Commands /\ cmd'.engine = FALSE /\ cmd.engine = FALSE
    BY <1>0, <1>11, <2>2, AfterFields DEF ScanSkillSource, At, Pcs, CommandShape, Commands
  <2> QED
    BY <1>0, <1>11, <2>3, TypedCommand DEF ScanSkillSource, Typed, TypeOK, engines, bounds
<1>12. CASE StartEngine
  <2>1. cmd' \in Commands /\ (cmd'.engine => ~server) /\ cmd.engine = FALSE
    <3>1. CASE server
      BY <1>0, <1>12, <3>1, EndedFields DEF StartEngine, CommandShape, Commands
    <3>2. CASE ~server
      BY <1>0, <1>12, <3>2 DEF StartEngine, Pcs, CommandShape, Commands
    <3> QED
      BY <3>1, <3>2
  <2> QED
    BY <1>0, <1>12, <2>1, TypedCommand DEF StartEngine, Typed, TypeOK, engines, bounds
<1>13. CASE Drained
  <2>1. cmd' \in Commands /\ cmd'.engine = FALSE
    BY <1>0, <1>13, AfterFields DEF Drained, CommandShape, Commands
  <2> QED
    BY <1>0, <1>13, <2>1 DEF Drained, Index, Unindexed, Typed, TypeOK, rows
<1>14. ASSUME NEW r \in Rows, EmitRow(r) PROVE Typed'
  <2>1. cmd' \in Commands /\ cmd'.engine = cmd.engine /\ cmd.engine = TRUE
    BY <1>0, <1>14 DEF EmitRow, At, CommandShape, Commands
  <2>2. ToCluster(r, commands) \in EngineRuns
    BY <1>0 DEF ToCluster, EngineRuns, ClusterRuns, Typed
  <2> QED
    BY <1>0, <1>14, <2>1, <2>2, TypedCommand DEF EmitRow, Typed, TypeOK, bounds
<1>15. ASSUME NEW r \in Rows, ServerEdit(r) PROVE Typed'
  <2>1. text' \in [Rows -> 1 .. MaxText] /\ text[r] + 1 \in 1 .. MaxText
    BY <1>0, <1>15 DEF ServerEdit, TypeOK
  <2>2. \A q \in Rows : vec'[q] = IF q = r THEN [s \in Sides(r) |-> text[r] + 1] ELSE vec[q]
    BY <1>0, <1>15 DEF ServerEdit, Typed
  <2>3. \A q \in Rows : vec'[q] \in [Sides(q) -> 0 .. MaxText]
    BY <1>0, <2>1, <2>2 DEF TypeOK
  <2>4. vec' = [q \in Rows |-> vec'[q]]
    BY <1>0, <1>15 DEF ServerEdit, Typed
  <2> QED
    BY <1>0, <1>15, <2>1, <2>3, <2>4 DEF ServerEdit, Typed, TypeOK, found, engines, bounds
<1>16. ASSUME NEW e \in cmd.todo, EmitSkill(e) PROVE Typed'
  <2>1. cmd' \in Commands /\ cmd'.engine = cmd.engine /\ cmd.engine = TRUE
    BY <1>0, <1>16 DEF EmitSkill, At, CommandShape, Commands
  <2>2. e \in EngineRuns
    BY <1>0, <1>16 DEF EmitSkill, At, CommandShape, EngineRuns
  <2> QED
    BY <1>0, <1>16, <2>1, <2>2, TypedCommand DEF EmitSkill, Typed, TypeOK, bounds
<1>17. ASSUME NEW run \in runs, Cluster(run) PROVE Typed'
  <2>1. run \in ClusterRuns /\ run.row \in Rows
    BY <1>0, <1>17 DEF Cluster, Typed, EngineRuns, ClusterRuns, SkillRuns
  <2>2. PICK k \in ClustersFor(run.row), dies \in BOOLEAN :
          /\ members' = [members EXCEPT ![k] = @ \cup {run.row}]
          /\ runs' = (IF dies THEN runs ELSE runs \ {run})
                 \cup (IF server /\ ~dies /\ run.row \in Cases THEN {SkillUpdated(run.row, k)}
                                                              ELSE {})
          /\ again' = IF dies THEN again \cup {run.row} ELSE again
    BY <1>17 DEF Cluster
  <2>3. run.row \in Episodes => k \in EpisodeClusters
    BY <2>2 DEF ClustersFor
  <2>4. run.row \notin Episodes => k \in CaseClusters /\ run.row \in GoodCases
    BY <1>17, <2>1, <2>2 DEF ClustersFor, Cluster, Rows
  <2>5. /\ members' \in [Clusters -> SUBSET Rows]
        /\ \A c \in Clusters : members'[c] = IF c = k THEN members[c] \cup {run.row} ELSE members[c]
    BY <1>0, <2>1, <2>2 DEF Typed
  <2>6. /\ \A c \in EpisodeClusters : members'[c] \subseteq Episodes
        /\ \A c \in CaseClusters : members'[c] \subseteq GoodCases
    <3>1. \A c \in EpisodeClusters : c = k => run.row \in Episodes
      BY <2>3, <2>4
    <3>2. \A c \in CaseClusters : c = k => run.row \in GoodCases
      BY <2>3, <2>4
    <3>3. \A c \in EpisodeClusters \cup CaseClusters :
              members'[c] = IF c = k THEN members[c] \cup {run.row} ELSE members[c]
      BY <2>5 DEF Clusters
    <3> QED
      BY <1>0, <3>1, <3>2, <3>3 DEF TypeOK
  <2>7. run.row \in Cases => SkillUpdated(run.row, k) \in EngineRuns
    BY <2>3, <2>4 DEF SkillUpdated, EngineRuns, SkillRuns
  <2>8. runs' \subseteq EngineRuns /\ (cmd.engine \/ server)
    BY <1>0, <2>2, <2>7 DEF Typed, TypeOK
  <2> QED
    BY <1>0, <1>17, <2>1, <2>2, <2>5, <2>6, <2>8 DEF Cluster, Typed, TypeOK, rows
<1>18. ASSUME NEW run \in runs, SkipCase(run) PROVE Typed'
  BY <1>0, <1>18, TypedCommand DEF SkipCase, Typed, TypeOK, bounds
<1>19. ASSUME NEW run \in runs, ExtractSkill(run) PROVE Typed'
  <2>1. run \in SkillRuns /\ run.cluster \in CaseClusters
    BY <1>0, <1>19 DEF ExtractSkill, Typed, EngineRuns, ClusterRuns, SkillRuns
  <2> QED
    BY <1>0, <1>19, <2>1 DEF ExtractSkill, Typed, TypeOK, rows, bounds
<1>20. ASSUME NEW run \in runs, GiveUp(run) PROVE Typed'
  BY <1>0, <1>20, TypedCommand DEF GiveUp, Typed, TypeOK
<1>21. CASE ServerStart
  BY <1>0, <1>21, TypedCommand DEF ServerStart, Typed, TypeOK
<1>22. CASE ServerStop
  BY <1>0, <1>22, TypedCutOff DEF ServerStop, Typed, TypeOK, bounds
<1>23. CASE ServerIndex
  BY <1>0, <1>23 DEF ServerIndex, Index, Unindexed, Typed, TypeOK, rows, engines
<1> QED
  BY <1>1, <1>2, <1>3, <1>4, <1>5, <1>6, <1>7, <1>8, <1>9, <1>10, <1>11, <1>12, <1>13, <1>14,
     <1>15, <1>16, <1>17, <1>18, <1>19, <1>20, <1>21, <1>22, <1>23 DEF Next

--------------------------------------------------------------------------------
(* The shape of the command. *)

\* The steps that another actor takes leave the command alone.
Others ==
    \/ \E r \in Rows : ServerEdit(r)
    \/ \E run \in runs : Cluster(run) \/ SkipCase(run) \/ ExtractSkill(run) \/ GiveUp(run)
    \/ ServerStart \/ ServerStop \/ ServerIndex

LEMMA OthersLeaveCommand == Others => cmd' = cmd
BY DEF Others, ServerEdit, Cluster, SkipCase, ExtractSkill, GiveUp, ServerStart, ServerStop,
       ServerIndex

LEMMA ShapeStays ==
    ASSUME BackfillInv, Next
    PROVE  CommandShape'
<1>0. /\ CommandShape /\ cmd \in Commands /\ cmd' \in Commands
      /\ cmd.engine \in BOOLEAN /\ cmd'.engine \in BOOLEAN /\ cmd.phase \in Phases
      /\ cmd.batch \subseteq Embedded /\ Typed
    BY TypedStays DEF BackfillInv, Typed, Commands
<1>1. ASSUME NEW phase \in Phases, NEW all \in BOOLEAN, Run(phase, all) PROVE CommandShape'
  <2>1. cmd' = [Idle EXCEPT !.pc = "probe", !.phase = phase, !.all = all]
    BY <1>1 DEF Run
  <2>2. /\ cmd'.pc = "probe" /\ cmd'.todo = {} /\ cmd'.batch = {} /\ cmd'.scanned = {}
        /\ cmd'.engine = FALSE
    BY <2>1 DEF Idle
  <2> QED
    BY <2>2 DEF CommandShape
<1>2. CASE Probe
  <2>1. CASE server
    BY <1>0, <1>2, <2>1, EndedFields DEF Probe, CommandShape
  <2>2. CASE ~server
    BY <1>0, <1>2, <2>2, GotoFields DEF Probe, Pcs, CommandShape
  <2> QED
    BY <2>1, <2>2
<1>3. ASSUME NEW yes \in BOOLEAN, Confirm(yes) PROVE CommandShape'
  <2>1. CASE ~yes
    BY <1>0, <1>3, <2>1, EndedFields DEF Confirm, CommandShape
  <2>2. CASE yes
    BY <1>0, <1>3, <2>2, GotoFields DEF Confirm, Pcs, CommandShape, Phases
  <2> QED
    BY <2>1, <2>2
<1>4. CASE Interrupt
  BY <1>0, <1>4, EndedFields DEF Interrupt, CommandShape
<1>5. CASE ScanVectors
  <2>1. \A x \in Backlog : x.needs \subseteq Sides(x.row)
    BY DEF Backlog, Missing
  <2> QED
    BY <1>5, <2>1, ScanFields DEF CommandShape
<1>6. CASE EmbedBatch
  <2>1. PICK b \in SUBSET cmd.todo : \E lost : cmd' = Embed(b, lost)
    BY <1>6 DEF EmbedBatch
  <2>2. PICK lost : cmd' = Embed(b, lost)
    BY <2>1
  <2>3. At("vectors", "embed")
    BY <1>6 DEF EmbedBatch
  <2>4. /\ cmd'.pc = "write" /\ cmd'.phase = "vectors" /\ ~cmd'.engine
        /\ cmd'.scanned = cmd.scanned /\ cmd'.todo = cmd.todo \ b
        /\ cmd'.batch = Got(b, lost)
    BY <1>0, <2>2, <2>3, EmbedFields
  <2>5. b \subseteq cmd.scanned
    BY <1>0, <2>3 DEF CommandShape, At
  <2>6. \A y \in cmd'.batch : y.scan \in cmd'.scanned /\ y.got \subseteq y.scan.needs
    BY <2>4, <2>5, GotOf
  <2> QED
    BY <1>0, <2>3, <2>4, <2>6 DEF CommandShape, At
<1>7. ASSUME NEW y \in cmd.batch, WriteRow(y) PROVE CommandShape'
  <2>1. /\ cmd'.pc = "write" /\ cmd'.phase = "vectors" /\ ~cmd'.engine
        /\ cmd'.scanned = cmd.scanned /\ cmd'.todo = cmd.todo /\ cmd'.batch = cmd.batch \ {y}
    BY <1>0, <1>7, WriteFields
  <2> QED
    BY <1>0, <1>7, <2>1 DEF WriteRow, At, CommandShape
<1>8. CASE NextBatch
  <2>1. CASE cmd.todo = {}
    BY <1>0, <1>8, <2>1, AfterFields DEF NextBatch, At, CommandShape
  <2>2. CASE cmd.todo # {}
    BY <1>0, <1>8, <2>2 DEF NextBatch, At, CommandShape, Commands
  <2> QED
    BY <2>1, <2>2
<1>9. CASE ScanAll
  <2>1. CASE Rows = {}
    BY <1>0, <1>9, <2>1, AfterFields DEF ScanAll, At, CommandShape
  <2>2. CASE Rows # {}
    BY <1>0, <1>9, <2>2 DEF ScanAll, At, CommandShape, Commands
  <2> QED
    BY <2>1, <2>2
<1>10. CASE SyncOrphans
  BY <1>0, <1>10, GotoFields DEF SyncOrphans, At, Pcs, CommandShape
<1>11. CASE ScanSkillSource
  <2> DEFINE source == UNION {{SkillEvent(r, k) : r \in members[k]} : k \in Unskilled}
  <2>1. CASE source = {}
    BY <1>0, <1>11, <2>1, AfterFields DEF ScanSkillSource, At, CommandShape
  <2>2. CASE source # {}
    <3>1. \A k \in CaseClusters : \A r \in members[k] : SkillEvent(r, k) \in SkillRuns
      BY <1>0, BackfillAssumption DEF SkillEvent, SkillRuns, Typed, TypeOK
    <3>2. source \subseteq SkillRuns
      BY <3>1 DEF Unskilled
    <3> HIDE DEF source
    <3>3. cmd' = [cmd EXCEPT !.pc = "confirm", !.todo = source]
      BY <1>11, <2>2 DEF ScanSkillSource, source
    <3>4. /\ cmd'.pc = "confirm" /\ cmd'.phase = "skills" /\ cmd'.todo = source
          /\ cmd'.batch = {} /\ cmd'.scanned = cmd.scanned /\ ~cmd'.engine
      BY <1>0, <1>11, <3>3 DEF ScanSkillSource, At, CommandShape, Commands
    <3> QED
      BY <1>0, <3>2, <3>4 DEF CommandShape
  <2> QED
    BY <2>1, <2>2
<1>12. CASE StartEngine
  <2>1. CASE server
    BY <1>0, <1>12, <2>1, EndedFields DEF StartEngine, CommandShape
  <2>2. CASE ~server
    BY <1>0, <1>12, <2>2 DEF StartEngine, CommandShape, Commands
  <2> QED
    BY <2>1, <2>2
<1>13. CASE Drained
  BY <1>0, <1>13, AfterFields DEF Drained, CommandShape
<1>14. ASSUME NEW r \in Rows, EmitRow(r) PROVE CommandShape'
  BY <1>0, <1>14 DEF EmitRow, At, CommandShape, Commands
<1>15. ASSUME NEW e \in cmd.todo, EmitSkill(e) PROVE CommandShape'
  BY <1>0, <1>15 DEF EmitSkill, At, CommandShape, Commands
<1>16. CASE Others
  BY <1>0, <1>16, OthersLeaveCommand DEF CommandShape
<1> QED
  BY <1>1, <1>2, <1>3, <1>4, <1>5, <1>6, <1>7, <1>8, <1>9, <1>10, <1>11, <1>12, <1>13, <1>14,
     <1>15, <1>16 DEF Next, Others

--------------------------------------------------------------------------------
(* The server. *)

LEMMA ServerSeenStays ==
    ASSUME BackfillInv, Next
    PROVE  ServerSeen'
<1>0. /\ ServerSeen /\ CommandShape /\ Typed /\ TypeOK /\ cmd \in Commands /\ cmd.engine \in BOOLEAN
      /\ late \in BOOLEAN /\ server \in BOOLEAN
    BY DEF BackfillInv, Typed, Commands
<1>1. ASSUME NEW phase \in Phases, NEW all \in BOOLEAN, Run(phase, all) PROVE ServerSeen'
  BY <1>0, <1>1 DEF Run, Idle, ServerSeen, engines
<1>2. CASE Probe
  BY <1>0, <1>2, EndedFields DEF Probe, ServerSeen, engines
<1>3. ASSUME NEW yes \in BOOLEAN, Confirm(yes) PROVE ServerSeen'
  BY <1>0, <1>3 DEF Confirm, ServerSeen, engines
<1>4. CASE Interrupt
  <2>1. cmd'.pc = "idle"
    BY <1>0, <1>4, EndedFields DEF Interrupt
  <2>2. cmd.engine => ~server
    BY <1>0 DEF TypeOK
  <2> QED
    BY <1>0, <1>4, <2>1, <2>2 DEF Interrupt, ServerSeen
<1>5. CASE ScanVectors \/ ScanAll \/ ScanSkillSource \/ SyncOrphans
  <2>1. /\ UNCHANGED engines /\ late' = late /\ cmd.pc \notin {"idle", "probe"}
    BY <1>5 DEF ScanVectors, ScanAll, ScanSkillSource, SyncOrphans, At
  <2> QED
    BY <1>0, <2>1 DEF ServerSeen, engines
<1>6. CASE EmbedBatch \/ NextBatch
  BY <1>0, <1>6 DEF EmbedBatch, NextBatch, At, ServerSeen, engines
<1>7. ASSUME NEW y \in cmd.batch, WriteRow(y) PROVE ServerSeen'
  BY <1>0, <1>7 DEF WriteRow, At, ServerSeen, engines
<1>8. CASE StartEngine
  BY <1>0, <1>8 DEF StartEngine, ServerSeen, engines
<1>9. CASE Drained
  <2>1. ~server
    BY <1>0, <1>9 DEF Drained, CommandShape, TypeOK
  <2> QED
    BY <1>9, <2>1 DEF Drained, ServerSeen
<1>10. ASSUME NEW r \in Rows, EmitRow(r) PROVE ServerSeen'
  BY <1>0, <1>10 DEF EmitRow, At, ServerSeen
<1>11. ASSUME NEW e \in cmd.todo, EmitSkill(e) PROVE ServerSeen'
  BY <1>0, <1>11 DEF EmitSkill, At, ServerSeen
<1>12. CASE ServerStart
  BY <1>0, <1>12 DEF ServerStart, ServerSeen
<1>13. CASE ServerStop
  BY <1>0, <1>13 DEF ServerStop, ServerSeen
<1>14. CASE ServerIndex \/ \E r \in Rows : ServerEdit(r)
  BY <1>0, <1>14 DEF ServerIndex, ServerEdit, ServerSeen, engines
<1>15. ASSUME NEW run \in runs, Cluster(run) \/ SkipCase(run) \/ ExtractSkill(run) \/ GiveUp(run)
       PROVE  ServerSeen'
  <2>1. UNCHANGED <<server, left, cmd, late>>
    BY <1>15 DEF Cluster, SkipCase, ExtractSkill, GiveUp
  <2> QED
    BY <1>0, <2>1 DEF ServerSeen
<1> QED
  BY <1>1, <1>2, <1>3, <1>4, <1>5, <1>6, <1>7, <1>8, <1>9, <1>10, <1>11, <1>12, <1>13, <1>14,
     <1>15 DEF Next

--------------------------------------------------------------------------------
(* Vectors of the text. *)

\* Between a scan and the write nobody edits, unless a server came up late.
LEMMA ScansFreshStay ==
    ASSUME BackfillInv, Next
    PROVE  ScansFresh'
<1>0. /\ ScansFresh /\ ServerSeen /\ CommandShape /\ Typed /\ TypeOK /\ cmd \in Commands
      /\ cmd.phase \in Phases /\ late \in BOOLEAN
    BY DEF BackfillInv, Typed, Commands
<1>1. SUFFICES ASSUME ~late', cmd'.phase = "vectors"
               PROVE  /\ \A x \in cmd'.todo : x.text = text'[x.row]
                      /\ \A y \in cmd'.batch : y.scan.text = text'[y.scan.row]
    BY DEF ScansFresh
<1> DEFINE Goal == /\ \A x \in cmd'.todo : x.text = text'[x.row]
                   /\ \A y \in cmd'.batch : y.scan.text = text'[y.scan.row]
<1>a. ASSUME cmd'.todo = {}, cmd'.batch = {} PROVE Goal
  BY <1>a
<1>b. ASSUME text' = text, late' = late, cmd.phase = "vectors", cmd'.todo \subseteq cmd.todo,
             cmd'.batch \subseteq cmd.batch
      PROVE  Goal
  BY <1>0, <1>1, <1>b DEF ScansFresh
<1>2. ASSUME NEW phase \in Phases, NEW all \in BOOLEAN, Run(phase, all) PROVE Goal
  BY <1>2 DEF Run, Idle
<1>3. CASE Probe
  <2>1. cmd'.todo \subseteq cmd.todo /\ cmd'.batch \subseteq cmd.batch /\ cmd'.phase = cmd.phase
    BY <1>0, <1>3, EndedFields, GotoFields DEF Probe, Pcs
  <2> QED
    BY <1>1, <1>3, <1>b, <2>1 DEF Probe, rows
<1>4. ASSUME NEW yes \in BOOLEAN, Confirm(yes) PROVE Goal
  <2>1. cmd'.todo \subseteq cmd.todo /\ cmd'.batch \subseteq cmd.batch /\ cmd'.phase = cmd.phase
    BY <1>0, <1>4, EndedFields, GotoFields DEF Confirm, Pcs
  <2> QED
    BY <1>1, <1>4, <1>b, <2>1 DEF Confirm, rows
<1>5. CASE Interrupt
  BY <1>0, <1>5, <1>a, EndedFields DEF Interrupt
<1>6. CASE ScanVectors
  <2>1. cmd'.todo \subseteq Backlog /\ cmd'.batch = {} /\ text' = text
    BY <1>6, ScanFields DEF ScanVectors, rows
  <2>2. \A x \in Backlog : x.text = text[x.row]
    BY DEF Backlog
  <2> QED
    BY <2>1, <2>2
<1>7. CASE EmbedBatch
  <2>1. PICK b \in SUBSET cmd.todo : \E lost : cmd' = Embed(b, lost)
    BY <1>7 DEF EmbedBatch
  <2>2. PICK lost : cmd' = Embed(b, lost)
    BY <2>1
  <2>3. /\ At("vectors", "embed") /\ text' = text /\ late' = late
    BY <1>7 DEF EmbedBatch, rows
  <2>4. cmd'.todo = cmd.todo \ b /\ cmd'.batch = Got(b, lost)
    BY <1>0, <2>2, <2>3, EmbedFields
  <2>5. \A x \in cmd.todo : x.text = text[x.row]
    BY <1>0, <1>1, <2>3 DEF ScansFresh, At
  <2>6. \A y \in cmd'.batch : y.scan \in cmd.todo
    BY <2>4, GotOf
  <2> QED
    BY <2>3, <2>4, <2>5, <2>6
<1>8. ASSUME NEW y \in cmd.batch, WriteRow(y) PROVE Goal
  <2>1. cmd'.todo = cmd.todo /\ cmd'.batch \subseteq cmd.batch /\ cmd.phase = "vectors"
    BY <1>0, <1>8 DEF WriteRow, At, Commands
  <2> QED
    BY <1>8, <1>b, <2>1 DEF WriteRow
<1>9. CASE NextBatch
  <2>1. cmd'.todo \subseteq cmd.todo /\ cmd'.batch = {} /\ cmd.phase = "vectors"
    BY <1>0, <1>9, AfterFields DEF NextBatch, At, Commands
  <2> QED
    BY <1>9, <1>b, <2>1 DEF NextBatch, rows
<1>10. CASE ScanAll
  <2>1. CASE Rows = {}
    BY <1>0, <1>10, <2>1, <1>a, AfterFields DEF ScanAll, At, CommandShape
  <2>2. CASE Rows # {}
    BY <1>0, <1>1, <1>10, <2>2 DEF ScanAll, At, Commands
  <2> QED
    BY <2>1, <2>2
<1>11. CASE SyncOrphans
  BY <1>0, <1>1, <1>11, GotoFields DEF SyncOrphans, At, Pcs
<1>12. CASE ScanSkillSource
  <2> DEFINE source == UNION {{SkillEvent(r, k) : r \in members[k]} : k \in Unskilled}
  <2>1. CASE source = {}
    BY <1>0, <1>12, <2>1, <1>a, AfterFields DEF ScanSkillSource, At, CommandShape
  <2>2. CASE source # {}
    BY <1>0, <1>1, <1>12, <2>2 DEF ScanSkillSource, At, Commands
  <2> QED
    BY <2>1, <2>2
<1>13. CASE StartEngine
  <2>1. cmd'.phase = cmd.phase /\ cmd.phase # "vectors"
    BY <1>0, <1>13, EndedFields DEF StartEngine, CommandShape, Commands
  <2> QED
    BY <1>1, <2>1
<1>14. CASE Drained
  <2>1. cmd'.todo = {} /\ cmd'.batch = {}
    BY <1>0, <1>14, AfterFields DEF Drained, CommandShape
  <2> QED
    BY <1>a, <2>1
<1>15. ASSUME NEW r \in Rows, EmitRow(r) PROVE Goal
  BY <1>0, <1>1, <1>15 DEF EmitRow, At, Commands
<1>16. ASSUME NEW e \in cmd.todo, EmitSkill(e) PROVE Goal
  BY <1>0, <1>1, <1>16 DEF EmitSkill, At, Commands
<1>17. CASE ServerStart
  BY <1>0, <1>1, <1>17, <1>b DEF ServerStart, rows
<1>18. CASE ServerStop
  BY <1>0, <1>1, <1>18, <1>b DEF ServerStop, rows
<1>19. CASE ServerIndex
  BY <1>0, <1>1, <1>19, <1>b DEF ServerIndex, rows
<1>20. ASSUME NEW r \in Rows, ServerEdit(r) PROVE Goal
  <2>1. cmd' = cmd /\ late' = late /\ server
    BY <1>20 DEF ServerEdit
  <2>2. cmd.pc \in {"idle", "probe"}
    BY <1>0, <1>1, <2>1 DEF ServerSeen
  <2>3. cmd.todo = {} /\ cmd.batch = {}
    BY <1>0, <2>2 DEF CommandShape
  <2> QED
    BY <1>a, <2>1, <2>3
<1>21. ASSUME NEW run \in runs, Cluster(run) \/ SkipCase(run) \/ ExtractSkill(run) \/ GiveUp(run)
       PROVE  Goal
  BY <1>0, <1>1, <1>21, <1>b DEF Cluster, SkipCase, ExtractSkill, GiveUp, rows
<1> QED
  BY <1>2, <1>3, <1>4, <1>5, <1>6, <1>7, <1>8, <1>9, <1>10, <1>11, <1>12, <1>13, <1>14,
     <1>15, <1>16, <1>17, <1>18, <1>19, <1>20, <1>21 DEF Next

\* Only WriteRow and ServerEdit write a vector.
LEMMA FreshStays ==
    ASSUME BackfillInv, Next
    PROVE  FreshVectors'
<1>0. /\ ScansFresh /\ FreshVectors /\ CommandShape /\ Typed /\ TypeOK /\ cmd \in Commands
      /\ late \in BOOLEAN
    BY DEF BackfillInv, Typed, Commands
<1>1. SUFFICES ASSUME ~late', NEW r \in Rows, NEW s \in Sides(r)
               PROVE  vec'[r][s] \in {0, text'[r]}
    BY DEF FreshVectors
<1>3. ~late
  BY <1>0, <1>1 DEF Next, Run, Probe, Confirm, Interrupt, ScanVectors, EmbedBatch, WriteRow,
        NextBatch, ScanAll, SyncOrphans, ScanSkillSource, StartEngine, Drained, EmitRow,
        ServerEdit, EmitSkill, Cluster, SkipCase, ExtractSkill, GiveUp, ServerStart, ServerStop,
        ServerIndex
<1>4. vec[r][s] \in {0, text[r]} /\ vec[r] \in [Sides(r) -> 0 .. MaxText]
    BY <1>0, <1>3 DEF FreshVectors, TypeOK
<1>5. ASSUME NEW y \in cmd.batch, WriteRow(y) PROVE vec'[r][s] \in {0, text'[r]}
  <2>1. text' = text /\ cmd.phase = "vectors"
    BY <1>5 DEF WriteRow, At
  <2>2. y.scan.text = text[y.scan.row]
    BY <1>0, <1>3, <2>1 DEF ScansFresh
  <2>3. CASE vec' = vec
    BY <1>4, <2>1, <2>3
  <2>4. CASE vec' = [vec EXCEPT ![y.scan.row] =
                [q \in DOMAIN @ |-> IF q \in y.got THEN y.scan.text ELSE @[q]]]
    <3>1. CASE r = y.scan.row
      <4>1. vec'[r] = [q \in DOMAIN vec[r] |-> IF q \in y.got THEN y.scan.text ELSE vec[r][q]]
        BY <1>0, <2>4, <3>1 DEF Typed
      <4>2. vec'[r][s] = IF s \in y.got THEN y.scan.text ELSE vec[r][s]
        BY <1>4, <4>1
      <4> QED
        BY <1>4, <2>1, <2>2, <3>1, <4>2
    <3>2. CASE r # y.scan.row
      BY <1>0, <1>4, <2>1, <2>4, <3>2 DEF Typed
    <3> QED
      BY <3>1, <3>2
  <2> QED
    BY <1>5, <2>3, <2>4 DEF WriteRow
<1>6. ASSUME NEW q \in Rows, ServerEdit(q) PROVE vec'[r][s] \in {0, text'[r]}
  <2>1. text'[r] = IF r = q THEN text[r] + 1 ELSE text[r]
    BY <1>0, <1>6 DEF ServerEdit, TypeOK
  <2>2. vec'[r] = IF r = q THEN [t \in Sides(r) |-> text[r] + 1] ELSE vec[r]
    BY <1>0, <1>6 DEF ServerEdit, Typed
  <2> QED
    BY <1>4, <2>1, <2>2
<1>7. ASSUME UNCHANGED rows PROVE vec'[r][s] \in {0, text'[r]}
  BY <1>4, <1>7 DEF rows
<1> QED
  BY <1>5, <1>6, <1>7 DEF Next, Run, Probe, Confirm, Interrupt, ScanVectors, EmbedBatch,
        NextBatch, ScanAll, SyncOrphans, ScanSkillSource, StartEngine, Drained, EmitRow,
        EmitSkill, Cluster, SkipCase, ExtractSkill, GiveUp, ServerStart, ServerStop,
        ServerIndex

--------------------------------------------------------------------------------
(* The exit code. *)

\* What is written in place of a vector is a vector.
LEMMA VectorsStay ==
    ASSUME BackfillInv, Next, NEW r \in Rows, NEW s \in Sides(r), vec[r][s] # 0
    PROVE  vec'[r][s] # 0
<1>0. Typed /\ TypeOK /\ cmd \in Commands
    BY DEF BackfillInv, Typed
<1>1. vec[r] \in [Sides(r) -> 0 .. MaxText] /\ text[r] \in 1 .. MaxText
    BY <1>0 DEF TypeOK
<1>2. ASSUME NEW y \in cmd.batch, WriteRow(y) PROVE vec'[r][s] # 0
  <2>1. y.scan.text \in 1 .. MaxText
    BY <1>0 DEF Commands, Embedded, Scans
  <2>2. CASE vec' = vec
    BY <2>2
  <2>3. CASE vec' = [vec EXCEPT ![y.scan.row] =
                [q \in DOMAIN @ |-> IF q \in y.got THEN y.scan.text ELSE @[q]]]
    <3>1. CASE r = y.scan.row
      <4>1. vec'[r] = [q \in DOMAIN vec[r] |-> IF q \in y.got THEN y.scan.text ELSE vec[r][q]]
        BY <1>0, <2>3, <3>1 DEF Typed
      <4> QED
        BY <1>1, <2>1, <4>1
    <3>2. CASE r # y.scan.row
      BY <1>0, <2>3, <3>2 DEF Typed
    <3> QED
      BY <3>1, <3>2
  <2> QED
    BY <1>2, <2>2, <2>3 DEF WriteRow
<1>3. ASSUME NEW q \in Rows, ServerEdit(q) PROVE vec'[r][s] # 0
  <2>1. vec'[r] = IF r = q THEN [t \in Sides(r) |-> text[r] + 1] ELSE vec[r]
    BY <1>0, <1>3 DEF ServerEdit, Typed
  <2> QED
    BY <1>1, <2>1
<1>4. ASSUME UNCHANGED rows PROVE vec'[r][s] # 0
  BY <1>4 DEF rows
<1> QED
  BY <1>2, <1>3, <1>4 DEF Next, Run, Probe, Confirm, Interrupt, ScanVectors, EmbedBatch,
        NextBatch, ScanAll, SyncOrphans, ScanSkillSource, StartEngine, Drained, EmitRow,
        EmitSkill, Cluster, SkipCase, ExtractSkill, GiveUp, ServerStart, ServerStop,
        ServerIndex

\* A row that was written whole, or had nothing of its primary vector to write, has no gap left.
LEMMA WrittenIsFilled ==
    ASSUME Typed, CommandShape, NEW y \in cmd.batch, WriteRow(y), ~cmd'.failed,
           "primary" \in y.scan.needs => "primary" \in y.got
    PROVE  Filled(y.scan)'
<1>1. /\ cmd \in Commands /\ y \in Embedded /\ y.scan \in Scans /\ y.scan.row \in Rows
      /\ y.scan.needs \in Gaps /\ y.scan.text # 0 /\ y.got \subseteq y.scan.needs
      /\ y.scan.needs \subseteq Sides(y.scan.row)
    BY DEF Typed, CommandShape, Commands, Embedded, Scans
<1>2. vec[y.scan.row] \in [Sides(y.scan.row) -> 0 .. MaxText]
    BY <1>1 DEF Typed, TypeOK
<1>3. PICK fails \in BOOLEAN : LET written == y.got # {} /\ ~fails IN
           /\ (fails => y.got # {})
           /\ vec' = IF written
                     THEN [vec EXCEPT ![y.scan.row] =
                              [s \in DOMAIN @ |-> IF s \in y.got THEN y.scan.text ELSE @[s]]]
                     ELSE vec
           /\ cmd' = [cmd EXCEPT !.batch = @ \ {y},
                                 !.failed = @ \/ fails \/ (written /\ y.got # y.scan.needs)]
    BY DEF WriteRow
<1>4. ~fails /\ (y.got # {} => y.got = y.scan.needs)
    BY <1>1, <1>3 DEF Commands
<1>5. CASE y.got = {}
    BY <1>1, <1>5 DEF Filled, Gaps
<1>6. CASE y.got # {}
  <2>1. vec' = [vec EXCEPT ![y.scan.row] =
                    [s \in DOMAIN @ |-> IF s \in y.got THEN y.scan.text ELSE @[s]]]
    BY <1>3, <1>4, <1>6
  <2>2. vec'[y.scan.row] = [s \in DOMAIN vec[y.scan.row] |->
                               IF s \in y.got THEN y.scan.text ELSE vec[y.scan.row][s]]
    BY <1>1, <2>1 DEF Typed
  <2>3. \A s \in y.scan.needs : vec'[y.scan.row][s] = y.scan.text
    BY <1>1, <1>2, <1>4, <1>6, <2>2
  <2> QED
    BY <1>1, <2>3 DEF Filled
<1> QED
    BY <1>5, <1>6

LEMMA GapsStayKept ==
    ASSUME BackfillInv, Next
    PROVE  GapsKept'
<1>0. /\ GapsKept /\ CommandShape /\ Typed /\ TypeOK /\ cmd \in Commands
      /\ cmd.failed \in BOOLEAN /\ cmd.phase \in Phases
    BY DEF BackfillInv, Typed, Commands
<1>1. SUFFICES ASSUME IF cmd'.pc = "idle" THEN cmd'.code = 0 ELSE ~cmd'.failed,
                      NEW x \in cmd'.scanned
               PROVE  \/ cmd'.phase = "vectors" /\ x \in cmd'.todo
                      \/ \E y \in cmd'.batch :
                           y.scan = x /\ ("primary" \in x.needs => "primary" \in y.got)
                      \/ Filled(x)'
    BY DEF GapsKept
<1> DEFINE Kept == \/ cmd'.phase = "vectors" /\ x \in cmd'.todo
                   \/ \E y \in cmd'.batch :
                        y.scan = x /\ ("primary" \in x.needs => "primary" \in y.got)
                   \/ Filled(x)'
           Good == IF cmd.pc = "idle" THEN cmd.code = 0 ELSE ~cmd.failed
\* What was filled stays filled.
<1>2. ASSUME x \in cmd.scanned, Filled(x) PROVE Filled(x)'
  <2>1. x.row \in Rows /\ x.needs \subseteq Sides(x.row)
    BY <1>0, <1>2 DEF CommandShape, Commands, Scans
  <2> QED
    BY <1>2, <2>1, VectorsStay DEF Filled
<1>3. ASSUME x \in cmd.scanned, Good
      PROVE  \/ cmd.phase = "vectors" /\ x \in cmd.todo
             \/ \E y \in cmd.batch :
                  y.scan = x /\ ("primary" \in x.needs => "primary" \in y.got)
             \/ Filled(x)
  BY <1>0, <1>3 DEF GapsKept
\* Outside phase 1, and where it has nothing in hand, every gap that was found is filled.
<1>4. ASSUME x \in cmd.scanned, Good, cmd.phase # "vectors" \/ cmd.todo = {}, cmd.batch = {}
      PROVE  Kept
  BY <1>2, <1>3, <1>4
\* The command goes on with all it has in hand.
<1>5. ASSUME x \in cmd.scanned, Good, cmd'.phase = cmd.phase, cmd'.todo = cmd.todo,
             cmd'.batch = cmd.batch
      PROVE  Kept
  BY <1>2, <1>3, <1>5
<1> HIDE DEF Kept
<1> SUFFICES Kept
  BY DEF Kept
<1>6. ASSUME NEW phase \in Phases, NEW all \in BOOLEAN, Run(phase, all) PROVE Kept
  BY <1>6 DEF Run, Idle
<1>7. CASE Probe
  <2>1. CASE server
    BY <1>0, <1>1, <1>7, <2>1, EndedFields DEF Probe
  <2>2. CASE ~server
    BY <1>0, <1>1, <1>5, <1>7, <2>2, GotoFields DEF Probe, Pcs
  <2> QED
    BY <2>1, <2>2
<1>8. ASSUME NEW yes \in BOOLEAN, Confirm(yes) PROVE Kept
  <2>1. CASE ~yes
    BY <1>0, <1>1, <1>8, <2>1, EndedFields DEF Confirm
  <2>2. CASE yes
    BY <1>0, <1>1, <1>5, <1>8, <2>2, GotoFields DEF Confirm, Pcs
  <2> QED
    BY <2>1, <2>2
<1>9. CASE Interrupt
  BY <1>0, <1>1, <1>9, EndedFields DEF Interrupt
<1>10. ASSUME cmd.pc # "idle", cmd.batch = {}, cmd.phase # "vectors" \/ cmd.todo = {},
              cmd' = After(cmd)
       PROVE  Kept
  <2>1. cmd'.scanned = cmd.scanned /\ cmd'.failed = cmd.failed
    BY <1>0, <1>10, AfterFields
  <2>2. cmd'.pc = "probe" \/ (cmd'.pc = "idle" /\ (cmd'.code = 0 => ~cmd.failed))
    BY <1>0, <1>10, AfterFields
  <2> QED
    BY <1>1, <1>4, <1>10, <2>1, <2>2
<1>11. CASE ScanVectors
  <2>1. CASE cmd'.failed = TRUE
    BY <1>1, <1>11, <2>1, ScanFields
  <2>2. CASE cmd'.failed # TRUE
    <3>1. cmd'.todo = Backlog /\ cmd'.scanned = Backlog
      BY <1>11, <2>2, ScanFields
    <3>2. CASE Backlog = {}
      BY <3>1, <3>2 DEF Kept
    <3>3. CASE Backlog # {}
      BY <1>11, <3>1, <3>3, ScanFields DEF Kept
    <3> QED
      BY <3>2, <3>3
  <2> QED
    BY <2>1, <2>2
<1>12. CASE EmbedBatch
  <2>1. PICK b \in SUBSET cmd.todo : \E lost : cmd' = Embed(b, lost)
    BY <1>12 DEF EmbedBatch
  <2>2. PICK lost : cmd' = Embed(b, lost)
    BY <2>1
  <2>3. At("vectors", "embed") /\ cmd.batch = {}
    BY <1>0, <1>1, <1>12 DEF EmbedBatch, At, CommandShape
  <2>4. /\ cmd'.phase = "vectors" /\ cmd'.scanned = cmd.scanned /\ cmd'.todo = cmd.todo \ b
        /\ cmd'.batch = Got(b, lost) /\ cmd'.pc = "write"
        /\ cmd'.failed = (cmd.failed \/ \E z \in b : <<z, "primary">> \in lost)
    BY <1>0, <2>2, <2>3, EmbedFields
  <2>5. ~cmd.failed /\ \A z \in b : <<z, "primary">> \notin lost
    BY <1>0, <1>1, <2>4
  <2>6. CASE x \in b
    <3> DEFINE y == [scan |-> x, got |-> {s \in x.needs : <<x, s>> \notin lost}]
    <3>1. y \in cmd'.batch
      BY <2>4, <2>6 DEF Got
    <3>2. y.scan = x /\ ("primary" \in x.needs => "primary" \in y.got)
      BY <2>5, <2>6
    <3> HIDE DEF y
    <3> QED
      BY <3>1, <3>2 DEF Kept
  <2>7. CASE x \notin b
    <3>1. x \in cmd.todo \/ Filled(x)
      BY <1>3, <2>3, <2>4, <2>5 DEF At
    <3> QED
      BY <1>2, <2>4, <2>7, <3>1 DEF Kept
  <2> QED
    BY <2>6, <2>7
<1>13. ASSUME NEW y \in cmd.batch, WriteRow(y) PROVE Kept
  <2>1. PICK fails \in BOOLEAN : cmd' = [cmd EXCEPT !.batch = @ \ {y},
               !.failed = @ \/ fails \/ (y.got # {} /\ ~fails /\ y.got # y.scan.needs)]
    BY <1>13 DEF WriteRow
  <2>2. /\ cmd'.pc = "write" /\ cmd'.phase = "vectors" /\ cmd'.scanned = cmd.scanned
        /\ cmd'.todo = cmd.todo /\ cmd'.batch = cmd.batch \ {y} /\ cmd.pc = "write"
        /\ cmd.phase = "vectors"
    BY <1>0, <1>13, <2>1 DEF WriteRow, At, Commands
  <2>3. cmd.failed => cmd'.failed
    BY <1>0, <2>1 DEF Commands
  <2>4. ~cmd'.failed /\ ~cmd.failed
    BY <1>1, <2>2, <2>3
  <2>5. CASE x \in cmd.todo \/ Filled(x)
    BY <1>2, <2>2, <2>5 DEF Kept
  <2>6. CASE \E z \in cmd.batch :
               z.scan = x /\ ("primary" \in x.needs => "primary" \in z.got)
    <3>1. PICK z \in cmd.batch : z.scan = x /\ ("primary" \in x.needs => "primary" \in z.got)
      BY <2>6
    <3>2. CASE z = y
      BY <1>0, <1>13, <2>4, <3>1, <3>2, WrittenIsFilled DEF Kept
    <3>3. CASE z # y
      BY <2>2, <3>1, <3>3 DEF Kept
    <3> QED
      BY <3>2, <3>3
  <2> QED
    BY <1>3, <2>2, <2>4, <2>5, <2>6
<1>14. CASE NextBatch
  <2>1. CASE cmd.todo = {}
    BY <1>0, <1>10, <1>14, <2>1 DEF NextBatch, At
  <2>2. CASE cmd.todo # {}
    <3>1. /\ cmd'.phase = cmd.phase /\ cmd'.todo = cmd.todo /\ cmd'.batch = cmd.batch
          /\ cmd'.scanned = cmd.scanned /\ cmd'.failed = cmd.failed /\ cmd'.pc = "embed"
          /\ cmd.pc = "write"
      BY <1>0, <1>14, <2>2 DEF NextBatch, At, Commands
    <3> QED
      BY <1>1, <1>5, <3>1
  <2> QED
    BY <2>1, <2>2
<1>15. ASSUME cmd.pc # "idle", cmd.batch = {}, cmd.phase # "vectors" \/ cmd.todo = {},
              cmd'.pc # "idle", cmd'.scanned = cmd.scanned, cmd'.failed = cmd.failed
       PROVE  Kept
  BY <1>1, <1>4, <1>15
<1>16. CASE ScanAll
  <2>1. CASE Rows = {}
    BY <1>0, <1>10, <1>16, <2>1 DEF ScanAll, At, CommandShape
  <2>2. CASE Rows # {}
    BY <1>0, <1>15, <1>16, <2>2 DEF ScanAll, At, CommandShape, Commands
  <2> QED
    BY <2>1, <2>2
<1>17. CASE SyncOrphans
  BY <1>0, <1>15, <1>17, GotoFields DEF SyncOrphans, At, CommandShape, Pcs
<1>18. CASE ScanSkillSource
  <2> DEFINE source == UNION {{SkillEvent(r, k) : r \in members[k]} : k \in Unskilled}
  <2>1. CASE source = {}
    BY <1>0, <1>10, <1>18, <2>1 DEF ScanSkillSource, At, CommandShape
  <2>2. CASE source # {}
    BY <1>0, <1>15, <1>18, <2>2 DEF ScanSkillSource, At, CommandShape, Commands
  <2> QED
    BY <2>1, <2>2
<1>19. CASE StartEngine
  <2>1. CASE server
    BY <1>0, <1>1, <1>19, <2>1, EndedFields DEF StartEngine
  <2>2. CASE ~server
    BY <1>0, <1>15, <1>19, <2>2 DEF StartEngine, CommandShape, Commands
  <2> QED
    BY <2>1, <2>2
<1>20. CASE Drained
  BY <1>0, <1>10, <1>20 DEF Drained, CommandShape
<1>21. ASSUME NEW r \in Rows, EmitRow(r) PROVE Kept
  BY <1>0, <1>15, <1>21 DEF EmitRow, At, CommandShape, Commands
<1>22. ASSUME NEW e \in cmd.todo, EmitSkill(e) PROVE Kept
  BY <1>0, <1>15, <1>22 DEF EmitSkill, At, CommandShape, Commands
<1>23. CASE Others
  BY <1>1, <1>5, <1>23, OthersLeaveCommand
<1> QED
  BY <1>6, <1>7, <1>8, <1>9, <1>11, <1>12, <1>13, <1>14, <1>16, <1>17, <1>18, <1>19, <1>20,
     <1>21, <1>22, <1>23 DEF Next, Others

--------------------------------------------------------------------------------
(* One run and one cluster for a row. *)

\* A step that clusters nothing and adds no run.
LEMMA OneRunFewer ==
    ASSUME OneRun, again \subseteq again', members' = members,
           runs' \cup left' \subseteq runs \cup left, runs' \cap left' \subseteq runs \cap left,
           cmd'.phase = "clusters" /\ cmd'.pc = "emit" =>
               \A r \in cmd'.todo, run \in runs' : ~(run.kind = "cluster" /\ run.row = r)
    PROVE  OneRun'
<1>1. \A r \in Rows : ForRow(r)' \subseteq ForRow(r) /\ (Clustered(r)' => Clustered(r))
    BY DEF ForRow, Clustered
<1>2. \A run \in runs' \cap left' : run.kind = "cluster" => run.row \in again'
    BY DEF OneRun
<1>3. ASSUME NEW r \in Rows \ again'
      PROVE  /\ \A a, b \in ForRow(r)' : a = b
             /\ Clustered(r)' => ForRow(r)' = {}
  BY <1>1, <1>3 DEF OneRun
<1> QED
    BY <1>2, <1>3 DEF OneRun

LEMMA OneRunStays ==
    ASSUME BackfillInv, Next
    PROVE  OneRun'
<1>0. /\ OneRun /\ ServerSeen /\ CommandShape /\ Typed /\ TypeOK /\ cmd \in Commands
      /\ cmd.engine \in BOOLEAN /\ cmd.phase \in Phases
    BY DEF BackfillInv, Typed, Commands
<1>1. ASSUME cmd'.pc # "emit" \/ cmd' = cmd, UNCHANGED <<again, members>>,
             runs' \cup left' \subseteq runs \cup left,
             runs' \cap left' \subseteq runs \cap left, cmd' = cmd => runs' \subseteq runs
      PROVE  OneRun'
  <2>1. cmd'.phase = "clusters" /\ cmd'.pc = "emit" =>
            \A r \in cmd'.todo, run \in runs' : ~(run.kind = "cluster" /\ run.row = r)
    BY <1>0, <1>1 DEF OneRun
  <2> QED
    BY <1>0, <1>1, <2>1, OneRunFewer
<1>2. ASSUME NEW phase \in Phases, NEW all \in BOOLEAN, Run(phase, all) PROVE OneRun'
  <2>1. cmd'.pc = "probe"
    BY <1>2 DEF Run, Idle
  <2> QED
    BY <1>1, <1>2, <2>1 DEF Run, found, engines
<1>3. CASE Probe
  <2>1. cmd'.pc # "emit"
    BY <1>0, <1>3, EndedFields, GotoFields DEF Probe, Pcs
  <2> QED
    BY <1>1, <1>3, <2>1 DEF Probe, found, engines
<1>4. ASSUME NEW yes \in BOOLEAN, Confirm(yes) PROVE OneRun'
  <2>1. cmd'.pc # "emit"
    BY <1>0, <1>4, EndedFields, GotoFields DEF Confirm, Pcs
  <2> QED
    BY <1>1, <1>4, <2>1 DEF Confirm, found, engines
<1>5. CASE Interrupt
  <2>1. cmd'.pc # "emit"
    BY <1>0, <1>5, EndedFields DEF Interrupt
  <2> QED
    BY <1>1, <1>5, <2>1 DEF Interrupt, found
<1>6. CASE ScanVectors
  <2>1. cmd'.pc # "emit"
    BY <1>6, ScanFields
  <2> QED
    BY <1>1, <1>6, <2>1 DEF ScanVectors, found, engines
<1>7. CASE EmbedBatch
  <2>1. PICK b \in SUBSET cmd.todo : \E lost : cmd' = Embed(b, lost)
    BY <1>7 DEF EmbedBatch
  <2>2. PICK lost : cmd' = Embed(b, lost)
    BY <2>1
  <2>3. cmd'.pc # "emit"
    BY <1>0, <1>7, <2>2, EmbedFields DEF EmbedBatch
  <2> QED
    BY <1>1, <1>7, <2>3 DEF EmbedBatch, found, engines
<1>8. ASSUME NEW y \in cmd.batch, WriteRow(y) PROVE OneRun'
  <2>1. cmd'.pc # "emit"
    BY <1>0, <1>8 DEF WriteRow, At, Commands
  <2> QED
    BY <1>1, <1>8, <2>1 DEF WriteRow, found, engines
<1>9. CASE NextBatch
  <2>1. cmd'.pc # "emit"
    BY <1>0, <1>9, AfterFields DEF NextBatch, Commands
  <2> QED
    BY <1>1, <1>9, <2>1 DEF NextBatch, found, engines
<1>10. CASE ScanAll
  <2>1. cmd'.pc # "emit"
    BY <1>0, <1>10, AfterFields DEF ScanAll, Commands
  <2> QED
    BY <1>1, <1>10, <2>1 DEF ScanAll, found, engines
<1>11. CASE SyncOrphans
  <2>1. cmd'.pc # "emit"
    BY <1>0, <1>11, GotoFields DEF SyncOrphans, Pcs
  <2> QED
    BY <1>1, <1>11, <2>1 DEF SyncOrphans, found, engines
<1>12. CASE ScanSkillSource
  <2>1. cmd' = After(cmd) \/ cmd'.pc = "confirm"
    BY <1>0, <1>12 DEF ScanSkillSource, Commands
  <2>2. cmd'.pc # "emit"
    BY <1>0, <2>1, AfterFields
  <2> QED
    BY <1>1, <1>12, <2>2 DEF ScanSkillSource, found, engines
\* The command's engine starts with no run at all.
<1>13. CASE StartEngine
  <2>1. CASE server
    <3>1. cmd'.pc # "emit"
      BY <1>0, <1>13, <2>1, EndedFields DEF StartEngine
    <3> QED
      BY <1>1, <1>13, <3>1 DEF StartEngine, found, engines
  <2>2. CASE ~server
    <3>1. runs = {}
      BY <1>0, <1>13, <2>2 DEF StartEngine, CommandShape, TypeOK
    <3>2. UNCHANGED <<again, members, runs, left>>
      BY <1>13 DEF StartEngine, found, engines
    <3> QED
      BY <1>0, <3>1, <3>2, OneRunFewer
  <2> QED
    BY <2>1, <2>2
<1>14. CASE Drained
  <2>1. cmd'.pc # "emit"
    BY <1>0, <1>14, AfterFields DEF Drained
  <2> QED
    BY <1>1, <1>14, <2>1 DEF Drained
<1>15. ASSUME NEW q \in Rows, EmitRow(q) PROVE OneRun'
  <2>1. /\ cmd'.todo = cmd.todo \ {q} /\ cmd.pc = "emit" /\ cmd.phase = "clusters"
        /\ q \in cmd.todo /\ UNCHANGED <<members, left>>
    BY <1>0, <1>15 DEF EmitRow, At, Commands, found
  <2>2. CASE Clustered(q)
    <3>1. UNCHANGED <<again, runs>>
      BY <1>15, <2>2 DEF EmitRow
    <3>2. \A r \in cmd'.todo, run \in runs' : ~(run.kind = "cluster" /\ run.row = r)
      BY <1>0, <2>1, <3>1 DEF OneRun
    <3> QED
      BY <1>0, <2>1, <3>1, <3>2, OneRunFewer
  <2>3. CASE ~Clustered(q)
    <3> DEFINE new == ToCluster(q, commands)
    <3>1. /\ runs' = runs \cup {new} /\ new.kind = "cluster" /\ new.row = q
          /\ again' = IF LeftFor(q) THEN again \cup {q} ELSE again
      BY <1>15, <2>3 DEF EmitRow, ToCluster
    <3>2. ASSUME NEW r \in Rows \ again'
          PROVE  /\ \A a, b \in ForRow(r)' : a = b
                 /\ Clustered(r)' => ForRow(r)' = {}
      <4>1. r \notin again /\ (Clustered(r)' <=> Clustered(r))
        BY <2>1, <3>1 DEF Clustered
      <4>2. CASE r = q
        <5>1. ForRow(q) = {}
          BY <1>0, <2>1, <3>1, <3>2, <4>2 DEF ForRow, OneRun, LeftFor
        <5>2. ForRow(q)' \subseteq {new}
          BY <2>1, <3>1, <5>1 DEF ForRow
        <5> QED
          BY <2>3, <4>1, <4>2, <5>2
      <4>3. CASE r # q
        <5>1. ForRow(r)' = ForRow(r)
          BY <2>1, <3>1, <4>3 DEF ForRow
        <5> QED
          BY <1>0, <4>1, <5>1 DEF OneRun
      <4> QED
        BY <4>2, <4>3
    <3>3. \A run \in runs' \cap left' : run.kind = "cluster" => run.row \in again'
      BY <1>0, <2>1, <3>1 DEF OneRun, LeftFor
    <3>4. \A r \in cmd'.todo, run \in runs' : ~(run.kind = "cluster" /\ run.row = r)
      BY <1>0, <2>1, <3>1 DEF OneRun
    <3> QED
      BY <3>2, <3>3, <3>4 DEF OneRun
  <2> QED
    BY <2>2, <2>3
<1>16. ASSUME NEW e \in cmd.todo, EmitSkill(e) PROVE OneRun'
  <2>1. /\ cmd'.phase = "skills" /\ e.kind = "skill" /\ runs' = runs \cup {e}
        /\ UNCHANGED <<members, left, again>>
    BY <1>0, <1>16 DEF EmitSkill, At, CommandShape, Commands, SkillRuns, found
  <2>2. \A r \in Rows : ForRow(r)' = ForRow(r) /\ (Clustered(r)' <=> Clustered(r))
    BY <2>1 DEF ForRow, Clustered
  <2> QED
    BY <1>0, <2>1, <2>2 DEF OneRun
<1>17. ASSUME NEW run \in runs, Cluster(run) PROVE OneRun'
  <2>1. /\ run.kind = "cluster" /\ run.row \in Rows
        /\ UNCHANGED <<cmd, left>>
    BY <1>0, <1>17 DEF Cluster, Typed, EngineRuns, ClusterRuns, SkillRuns
  <2>2. PICK k \in ClustersFor(run.row), dies \in BOOLEAN :
          /\ members' = [members EXCEPT ![k] = @ \cup {run.row}]
          /\ runs' = (IF dies THEN runs ELSE runs \ {run})
                 \cup (IF server /\ ~dies /\ run.row \in Cases THEN {SkillUpdated(run.row, k)}
                                                              ELSE {})
          /\ again' = IF dies THEN again \cup {run.row} ELSE again
    BY <1>17 DEF Cluster
  <2>3. \A a \in runs' : a.kind = "cluster" => a \in runs /\ (a # run \/ dies)
    BY <2>2 DEF SkillUpdated
  <2>4. ASSUME NEW r \in Rows \ again'
        PROVE  /\ \A a, b \in ForRow(r)' : a = b
               /\ Clustered(r)' => ForRow(r)' = {}
    <3>1. r \notin again /\ ForRow(r)' \subseteq ForRow(r)
      BY <2>1, <2>2, <2>3 DEF ForRow
    <3>2. CASE r = run.row
      <4>1. ~dies
        BY <2>2, <2>4, <3>2
      <4>2. run \in ForRow(r) /\ run \notin left
        BY <1>0, <2>1, <3>1, <3>2 DEF ForRow, OneRun
      <4>3. run \notin ForRow(r)'
        BY <2>1, <2>3, <4>1, <4>2 DEF ForRow
      <4> QED
        BY <1>0, <3>1, <4>2, <4>3 DEF OneRun
    <3>3. CASE r # run.row
      <4>1. \A c \in Clusters : r \in members'[c] => r \in members[c]
        BY <1>0, <2>2, <3>3 DEF Typed
      <4> QED
        BY <1>0, <3>1, <4>1 DEF OneRun, Clustered
    <3> QED
      BY <3>2, <3>3
  <2>5. \A a \in runs' \cap left' : a.kind = "cluster" => a.row \in again'
    BY <1>0, <2>1, <2>2, <2>3 DEF OneRun
  <2>6. cmd'.phase = "clusters" /\ cmd'.pc = "emit" =>
            \A r \in cmd'.todo, a \in runs' : ~(a.kind = "cluster" /\ a.row = r)
    BY <1>0, <2>1, <2>3 DEF OneRun
  <2> QED
    BY <2>4, <2>5, <2>6 DEF OneRun
<1>18. ASSUME NEW run \in runs, SkipCase(run) \/ ExtractSkill(run) \/ GiveUp(run) PROVE OneRun'
  BY <1>1, <1>18 DEF SkipCase, ExtractSkill, GiveUp, found
<1>19. CASE ServerStart
  <2>1. cmd.pc # "emit"
    BY <1>0, <1>19 DEF ServerStart, CommandShape
  <2> QED
    BY <1>0, <1>19, <2>1, OneRunFewer DEF ServerStart, found
<1>20. CASE ServerStop
  BY <1>1, <1>20 DEF ServerStop, found
<1>21. CASE ServerIndex \/ \E r \in Rows : ServerEdit(r)
  BY <1>1, <1>21 DEF ServerIndex, ServerEdit, found, engines
<1> QED
  BY <1>2, <1>3, <1>4, <1>5, <1>6, <1>7, <1>8, <1>9, <1>10, <1>11, <1>12, <1>13, <1>14,
     <1>15, <1>16, <1>17, <1>18, <1>19, <1>20, <1>21 DEF Next

\* The run that clusters a row finds it in no cluster.
LEMMA OneClusterStays ==
    ASSUME BackfillInv, Next
    PROVE  OneCluster'
<1>0. OneRun /\ OneCluster /\ Typed
    BY DEF BackfillInv
<1>1. ASSUME NEW run \in runs, Cluster(run) PROVE OneCluster'
  <2>1. run.kind = "cluster" /\ run.row \in Rows
    BY <1>0, <1>1 DEF Cluster, Typed, EngineRuns, ClusterRuns, SkillRuns
  <2>2. PICK k \in ClustersFor(run.row), dies \in BOOLEAN :
          /\ members' = [members EXCEPT ![k] = @ \cup {run.row}]
          /\ again' = IF dies THEN again \cup {run.row} ELSE again
    BY <1>1 DEF Cluster
  <2>3. \A c \in Clusters :
            members'[c] = IF c = k THEN members[c] \cup {run.row} ELSE members[c]
    BY <1>0, <2>2 DEF Typed
  <2>4. ASSUME NEW r \in Rows \ again', NEW i \in Clusters, NEW j \in Clusters,
               r \in members'[i], r \in members'[j]
        PROVE  i = j
    <3>1. r \notin again
      BY <2>2, <2>4
    <3>2. CASE r = run.row
      <4>1. ForRow(r) # {}
        BY <2>1, <3>2 DEF ForRow
      <4>2. ~Clustered(r)
        BY <1>0, <3>1, <4>1 DEF OneRun
      <4> QED
        BY <2>3, <2>4, <4>2 DEF Clustered
    <3>3. CASE r # run.row
      <4>1. r \in members[i] /\ r \in members[j]
        BY <2>3, <2>4, <3>3
      <4> QED
        BY <1>0, <3>1, <4>1 DEF OneCluster
    <3> QED
      BY <3>2, <3>3
  <2> QED
    BY <2>4 DEF OneCluster
<1>2. ASSUME NEW r \in Rows, EmitRow(r) PROVE OneCluster'
  BY <1>0, <1>2 DEF EmitRow, OneCluster, found
<1>3. ASSUME UNCHANGED <<members, again>> PROVE OneCluster'
  BY <1>0, <1>3 DEF OneCluster
<1> QED
  BY <1>1, <1>2, <1>3 DEF Next, Run, Probe, Confirm, Interrupt, ScanVectors, EmbedBatch, WriteRow,
        NextBatch, ScanAll, SyncOrphans, ScanSkillSource, StartEngine, Drained, EmitSkill,
        ServerEdit, SkipCase, ExtractSkill, GiveUp, ServerStart, ServerStop, ServerIndex, found

--------------------------------------------------------------------------------
(* The sync of the skills. *)

LEMMA OrphansStaySynced ==
    ASSUME BackfillInv, Next
    PROVE  OrphansSynced'
<1>0. /\ OrphansSynced /\ ServerSeen /\ CommandShape /\ Typed /\ TypeOK /\ cmd \in Commands
      /\ late \in BOOLEAN /\ server \in BOOLEAN /\ cmd.phase \in Phases
    BY DEF BackfillInv, Typed, Commands
<1>1. SUFFICES ASSUME cmd'.phase = "skills", cmd'.pc = "scan", ~late'
               PROVE  md' \ stuck' \subseteq skills'
    BY DEF OrphansSynced
<1>2. ASSUME NEW phase \in Phases, NEW all \in BOOLEAN, Run(phase, all) PROVE FALSE
  BY <1>1, <1>2 DEF Run, Idle
\* The probe of phase 3 is followed by the sync.
<1>3. CASE Probe
  BY <1>0, <1>1, <1>3, EndedFields, GotoFields DEF Probe, Pcs
<1>4. ASSUME NEW yes \in BOOLEAN, Confirm(yes) PROVE FALSE
  BY <1>0, <1>1, <1>4, EndedFields, GotoFields DEF Confirm, Pcs
<1>5. CASE Interrupt
  BY <1>0, <1>1, <1>5, EndedFields DEF Interrupt
<1>6. CASE ScanVectors
  BY <1>1, <1>6, ScanFields
<1>7. CASE EmbedBatch
  <2>1. PICK b \in SUBSET cmd.todo : \E lost : cmd' = Embed(b, lost)
    BY <1>7 DEF EmbedBatch
  <2>2. PICK lost : cmd' = Embed(b, lost)
    BY <2>1
  <2> QED
    BY <1>0, <1>1, <1>7, <2>2, EmbedFields DEF EmbedBatch
<1>8. ASSUME NEW y \in cmd.batch, WriteRow(y) PROVE FALSE
  BY <1>0, <1>1, <1>8 DEF WriteRow, At, Commands
<1>9. CASE NextBatch
  BY <1>0, <1>1, <1>9, AfterFields DEF NextBatch, Commands
<1>10. CASE ScanAll
  BY <1>0, <1>1, <1>10, AfterFields DEF ScanAll, Commands
<1>11. CASE SyncOrphans
  BY <1>11 DEF SyncOrphans, Index
<1>12. CASE ScanSkillSource
  <2>1. cmd' = After(cmd) \/ cmd'.pc = "confirm"
    BY <1>0, <1>12 DEF ScanSkillSource, Commands
  <2> QED
    BY <1>0, <1>1, <2>1, AfterFields
<1>13. CASE StartEngine
  BY <1>0, <1>1, <1>13, EndedFields DEF StartEngine, Commands
<1>14. CASE Drained
  BY <1>0, <1>1, <1>14, AfterFields DEF Drained
<1>15. ASSUME NEW r \in Rows, EmitRow(r) PROVE FALSE
  BY <1>0, <1>1, <1>15 DEF EmitRow, At, Commands
<1>16. ASSUME NEW e \in cmd.todo, EmitSkill(e) PROVE FALSE
  BY <1>0, <1>1, <1>16 DEF EmitSkill, At, Commands
\* A run would be the server's, which came up late.
<1>17. ASSUME NEW run \in runs, Cluster(run) \/ SkipCase(run) \/ ExtractSkill(run) \/ GiveUp(run)
       PROVE  FALSE
  <2>1. cmd' = cmd /\ late' = late
    BY <1>17 DEF Cluster, SkipCase, ExtractSkill, GiveUp
  <2>2. ~cmd.engine /\ ~server
    BY <1>0, <1>1, <2>1 DEF CommandShape, ServerSeen
  <2> QED
    BY <1>0, <1>17, <2>2 DEF TypeOK
<1>18. CASE ServerStart
  BY <1>0, <1>1, <1>18 DEF ServerStart, OrphansSynced, found
<1>19. CASE ServerStop
  BY <1>0, <1>1, <1>19 DEF ServerStop, CutOff, OrphansSynced
<1>20. CASE ServerIndex
  BY <1>20 DEF ServerIndex, Index
<1>21. ASSUME NEW r \in Rows, ServerEdit(r) PROVE md' \ stuck' \subseteq skills'
  BY <1>0, <1>1, <1>21 DEF ServerEdit, OrphansSynced, found
<1> QED
  BY <1>2, <1>3, <1>4, <1>5, <1>6, <1>7, <1>8, <1>9, <1>10, <1>11, <1>12, <1>13, <1>14,
     <1>15, <1>16, <1>17, <1>18, <1>19, <1>20, <1>21 DEF Next

\* A phase 3 that ends with code 0 has nothing to do, or has indexed what it wrote.
LEMMA EndIsIndexed ==
    ASSUME BackfillInv, Next, cmd.phase = "skills", cmd.pc # "idle", cmd'.pc = "idle",
           cmd'.code = 0, ~late
    PROVE  md \ stuck' \subseteq skills'
<1>0. /\ OrphansSynced /\ CommandShape /\ Typed /\ cmd \in Commands
    BY DEF BackfillInv, Typed
<1>1. ASSUME NEW phase \in Phases, NEW all \in BOOLEAN, Run(phase, all) PROVE FALSE
  BY <1>1 DEF Run
<1>2. CASE Probe
  BY <1>0, <1>2, EndedFields, GotoFields DEF Probe, Pcs
<1>3. ASSUME NEW yes \in BOOLEAN, Confirm(yes) PROVE FALSE
  BY <1>0, <1>3, EndedFields, GotoFields DEF Confirm, Pcs
<1>4. CASE Interrupt
  BY <1>0, <1>4, EndedFields DEF Interrupt
<1>5. CASE ScanVectors \/ EmbedBatch \/ NextBatch \/ ScanAll
  BY <1>5 DEF ScanVectors, EmbedBatch, NextBatch, ScanAll, At
<1>6. ASSUME NEW y \in cmd.batch, WriteRow(y) PROVE FALSE
  BY <1>6 DEF WriteRow, At
<1>7. CASE SyncOrphans
  BY <1>7 DEF SyncOrphans, Index
<1>8. CASE ScanSkillSource
  BY <1>0, <1>8 DEF ScanSkillSource, At, OrphansSynced, found
<1>9. CASE StartEngine
  BY <1>0, <1>9, EndedFields DEF StartEngine, Commands
<1>10. CASE Drained
  BY <1>10 DEF Drained, Index
<1>11. ASSUME NEW r \in Rows, EmitRow(r) PROVE FALSE
  BY <1>11 DEF EmitRow, At
<1>12. ASSUME NEW e \in cmd.todo, EmitSkill(e) PROVE FALSE
  BY <1>0, <1>12 DEF EmitSkill, At, Commands
<1>13. CASE Others
  BY <1>13, OthersLeaveCommand
<1> QED
  BY <1>1, <1>2, <1>3, <1>4, <1>5, <1>6, <1>7, <1>8, <1>9, <1>10, <1>11, <1>12, <1>13
     DEF Next, Others

--------------------------------------------------------------------------------
(* Theorems. *)

LEMMA BackfillStep == BackfillInv /\ [Next]_vars => BackfillInv'
<1> SUFFICES ASSUME BackfillInv, [Next]_vars PROVE BackfillInv'
    OBVIOUS
<1>1. CASE Next
    BY <1>1, TypedStays, ShapeStays, ServerSeenStays, ScansFreshStay, FreshStays, GapsStayKept,
       OneRunStays, OneClusterStays, OrphansStaySynced DEF BackfillInv
<1>2. CASE UNCHANGED vars
  <2>1. Typed'
    BY <1>2 DEF BackfillInv, Typed, TypeOK, vars, rows, found, engines, bounds
  <2>2. (CommandShape /\ ServerSeen /\ ScansFresh /\ FreshVectors)'
    BY <1>2 DEF BackfillInv, CommandShape, ServerSeen, ScansFresh, FreshVectors, vars, rows, engines
  <2>3. (GapsKept /\ OneRun /\ OneCluster /\ OrphansSynced)'
    BY <1>2 DEF BackfillInv, GapsKept, OneRun, OneCluster, OrphansSynced, Filled, ForRow,
       Clustered, vars, rows, found, engines
  <2> QED
    BY <2>1, <2>2, <2>3 DEF BackfillInv
<1> QED
    BY <1>1, <1>2

\* What the command has in hand, what the server did behind its probe, and the rows, vectors,
\* clusters and runs, agree after every step of the command, the engine and the server.
THEOREM BackfillInvariant == Spec => []BackfillInv
BY BackfillInit, BackfillStep, PTL DEF Spec

\* Rows, clusters and skills have their types, and only one process has an engine: the command
\* holds no engine beside a server, and no run is at work without either.
THEOREM TypeCorrect == Spec => []TypeOK
<1>1. BackfillInv => TypeOK
    BY DEF BackfillInv, Typed
<1> QED
    BY <1>1, BackfillInvariant, PTL

\* Exit code 0 of the command means that the gaps its scan found are filled.
THEOREM ExitCodeIsHonest == Spec => []ExitZeroMeansEmbedded
<1>1. ASSUME BackfillInv PROVE ExitZeroMeansEmbedded
    BY <1>1 DEF BackfillInv, GapsKept, CommandShape, Filled, ExitZeroMeansEmbedded
<1> QED
    BY <1>1, BackfillInvariant, PTL

\* Unless a server came up behind the probe, a vector is that of its row's text.
THEOREM VectorsAreFresh == Spec => []FreshVectors
<1>1. BackfillInv => FreshVectors
    BY DEF BackfillInv
<1> QED
    BY <1>1, BackfillInvariant, PTL

\* Runs of the phase, interrupted or repeated, and runs that a server recovers, put a row into
\* one cluster, but for a row that was handed to a second run.
THEOREM RowsHaveOneCluster == Spec => []OneCluster
<1>1. BackfillInv => OneCluster
    BY DEF BackfillInv
<1> QED
    BY <1>1, BackfillInvariant, PTL

\* A phase 3 that ends with code 0, and no server behind its probe, leaves no SKILL.md without
\* its index row, but for those whose row of the queue is failed or still claimed.
THEOREM OrphansAreIndexed == Spec => OrphansIndexed
<1>1. BackfillInv /\ [Next]_vars =>
          [cmd.phase = "skills" /\ cmd.pc # "idle" /\ cmd'.pc = "idle" /\ cmd'.code = 0 /\ ~late
             => md \ stuck' \subseteq skills']_vars
    BY EndIsIndexed
<1> QED
    BY <1>1, BackfillInvariant, PTL DEF Spec, OrphansIndexed
================================================================================
