------------------------- MODULE CascadeOptimizerProofs -------------------------
(***************************************************************************)
(* Proofs about CascadeOptimizer.tla: nobody optimizes and rebuilds a      *)
(* table at the same time, for every set of kinds and every threshold.     *)
(***************************************************************************)
EXTENDS CascadeOptimizer, TLAPS

--------------------------------------------------------------------------------
(* The pieces that the actions share. *)

\* The runner of a kind ends, and wakes the loop if that waits for it.
LEMMA EndsKeeps ==
    ASSUME MaintainerInv, NEW k \in Kinds, RunnerEnds(k),
           runner[k] # "fallback", UNCHANGED <<rebuilds, slot>>
    PROVE  /\ runner' \in [Kinds -> RunnerSteps]
           /\ loop' \in [pc : LoopSteps, kind : Kinds \cup {NoKind}, todo : SUBSET Kinds,
                         retrying : BOOLEAN]
           /\ SlotExact' /\ GateHolds'
<1> USE DEF MaintainerInv, TypeOK, RunnerEnds, LoopAt, Set
<1>1. runner' \in [Kinds -> RunnerSteps]
  BY DEF RunnerSteps
<1>2. loop' \in [pc : LoopSteps, kind : Kinds \cup {NoKind}, todo : SUBSET Kinds,
                 retrying : BOOLEAN]
  BY DEF LoopSteps
<1>3. SlotExact'
  BY DEF SlotExact
<1>4. GateHolds'
  BY DEF GateHolds
<1> QED BY <1>1, <1>2, <1>3, <1>4

\* So does the head of the runner's loop, once no rebuild is in the slot.
LEMMA BeatKeeps ==
    ASSUME MaintainerInv, NEW k \in Kinds, Beat(k), slot[k] = "none",
           ~LoopAt(k, {"woken"})
    PROVE  MaintainerInv'
<1>1. CASE dirty[k] /\ Up
  <2> USE DEF MaintainerInv, Set
  <2>1. TypeOK'
    BY <1>1 DEF Beat, TypeOK, RunnerSteps, counters
  <2>2. SlotExact'
    BY <1>1 DEF Beat, TypeOK, SlotExact, LoopAt
  <2>3. GateHolds'
    BY <1>1 DEF Beat, TypeOK, SlotExact, GateHolds, LoopAt
  <2> QED BY <2>1, <2>2, <2>3
<1>2. CASE ~(dirty[k] /\ Up)
  <2>1. RunnerEnds(k) /\ UNCHANGED <<phase, dirty, rebuilds, slot, counters>>
    BY <1>2 DEF Beat
  <2>2. runner[k] # "fallback"
    BY DEF MaintainerInv, SlotExact
  <2> QED BY <2>1, <2>2, EndsKeeps DEF MaintainerInv, TypeOK, counters
<1> QED BY <1>1, <1>2
\* And the runner after an optimize.
LEMMA GoOnKeeps ==
    ASSUME MaintainerInv, NEW k \in Kinds, GoOn(k), runner[k] = "optimizing",
           UNCHANGED <<phase, dirty, rebuilds, slot, retry, attempt>>,
           streak' \in [Kinds -> 0 .. Threshold], since' \in [Kinds -> 0 .. Threshold]
    PROVE  MaintainerInv'
<1>1. CASE dirty[k] /\ Up
  <2> USE DEF MaintainerInv, Set
  <2>1. TypeOK'
    BY <1>1 DEF GoOn, TypeOK, RunnerSteps
  <2>2. SlotExact'
    BY <1>1 DEF GoOn, TypeOK, SlotExact, LoopAt
  <2>3. GateHolds'
    BY <1>1 DEF GoOn, TypeOK, GateHolds, LoopAt
  <2> QED BY <2>1, <2>2, <2>3
<1>2. CASE ~(dirty[k] /\ Up)
  BY <1>2, EndsKeeps DEF GoOn, MaintainerInv, TypeOK
<1> QED BY <1>1, <1>2

\* The loop's rebuild takes a free slot while the runner is away or at its gate.
LEMMA StartKeeps ==
    ASSUME MaintainerInv, NEW k \in Kinds, StartRebuild(k),
           runner[k] \in {"none", "ready"}, loop.pc # "rebuilding",
           UNCHANGED <<phase, dirty, runner, attempt, streak, since>>,
           retry' \in [Kinds -> BOOLEAN]
    PROVE  MaintainerInv'
<1> USE DEF MaintainerInv, StartRebuild, Set
<1>1. TypeOK'
  BY DEF TypeOK, LoopSteps, Owners
<1>2. slot[k] = "none" /\ rebuilds[k] = {}
  BY DEF TypeOK, SlotExact, LoopAt, Owners
<1>3. rebuilds'[k] = {"loop"} /\ slot'[k] = "loop" /\ LoopAt(k, {"rebuilding"})'
  BY <1>2 DEF TypeOK, LoopAt
<1>4. \A j \in Kinds \ {k} :
         /\ rebuilds'[j] = rebuilds[j] /\ slot'[j] = slot[j]
         /\ ~LoopAt(j, {"rebuilding"}) /\ ~LoopAt(j, {"rebuilding"})'
  BY DEF TypeOK, LoopAt
<1>5. SlotExact'
  <2>1. {"loop"} = {"loop"} \ {"none"}
    OBVIOUS
  <2> QED BY <1>3, <1>4, <2>1 DEF SlotExact
<1>6. GateHolds'
  BY DEF TypeOK, GateHolds, LoopAt
<1> QED BY <1>1, <1>5, <1>6

\* A runner that is cancelled frees the slot of the rebuild it awaits, and the loop
\* that awaited the runner is nowhere else.
LEMMA CancelKeeps ==
    ASSUME MaintainerInv, NEW k \in Kinds, LoopAt(k, {"waiting"}), CancelRunner(k),
           NEW pc \in {"round", "ended"},
           loop' = [loop EXCEPT !.pc = pc, !.kind = NoKind],
           phase' \in {"up", "stopping", "flushing", "stopped"},
           UNCHANGED <<dirty, counters>>
    PROVE  MaintainerInv'
<1> USE DEF MaintainerInv, CancelRunner, Set
<1>1. TypeOK'
  BY DEF TypeOK, LoopSteps, RunnerSteps, counters
<1>2. SlotExact'
  BY OptimizerAssumption DEF TypeOK, SlotExact, LoopAt
<1>3. GateHolds'
  BY OptimizerAssumption DEF TypeOK, GateHolds, LoopAt
<1> QED BY <1>1, <1>2, <1>3

--------------------------------------------------------------------------------
(* Each action keeps the invariant. *)

LEMMA RunnerKeeps ==
    ASSUME MaintainerInv, NEW k \in Kinds, Runner(k)
    PROVE  MaintainerInv'
<1>1. CASE Enter(k)
  <2>1. CASE slot[k] = "none" /\ Beat(k)
    BY <1>1, <2>1, BeatKeeps DEF Enter
  <2>2. CASE slot[k] # "none" /\ runner' = Set(runner, k, "waiting")
             /\ UNCHANGED <<phase, dirty, rebuilds, slot, loop, counters>>
    <3> USE DEF MaintainerInv, Set
    <3>1. TypeOK'
      BY <2>2 DEF TypeOK, RunnerSteps, counters
    <3>2. SlotExact'
      BY <1>1, <2>2 DEF Enter, TypeOK, SlotExact, LoopAt
    <3>3. GateHolds'
      BY <1>1, <2>2 DEF Enter, TypeOK, GateHolds, LoopAt
    <3> QED BY <3>1, <3>2, <3>3
  <2>3. CASE RunnerEnds(k) /\ UNCHANGED <<phase, dirty, rebuilds, slot, counters>>
    BY <1>1, <2>3, EndsKeeps DEF Enter, MaintainerInv, TypeOK, counters
  <2> QED BY <1>1, <2>1, <2>2, <2>3 DEF Enter
<1>2. CASE Wake(k)
  <2>1. ~LoopAt(k, {"woken"})
    BY <1>2 DEF Wake, MaintainerInv, GateHolds
  <2> QED BY <1>2, <2>1, BeatKeeps DEF Wake
<1>3. CASE OptimizeSucceeds(k)
  BY <1>3, GoOnKeeps, OptimizerAssumption DEF OptimizeSucceeds, MaintainerInv, TypeOK, Set
<1>4. CASE OptimizeConflicts(k)
  BY <1>4, GoOnKeeps DEF OptimizeConflicts, MaintainerInv, TypeOK, counters
<1>5. CASE OptimizeFails(k)
  <2>1. streak' \in [Kinds -> 0 .. Threshold] /\ since' \in [Kinds -> 0 .. Threshold]
    BY <1>5, OptimizerAssumption DEF OptimizeFails, MaintainerInv, TypeOK, Set, Counted
  <2>2. CASE GoOn(k) /\ UNCHANGED <<rebuilds, slot>>
    BY <1>5, <2>1, <2>2, GoOnKeeps DEF OptimizeFails
  <2>3. CASE /\ runner' = Set(runner, k, "fallback")
             /\ rebuilds' = Set(rebuilds, k, rebuilds[k] \cup {"runner"})
             /\ slot' = Set(slot, k, "runner") /\ UNCHANGED loop
    <3> USE DEF MaintainerInv, Set
    <3>1. TypeOK'
      BY <1>5, <2>1, <2>3 DEF OptimizeFails, TypeOK, RunnerSteps, Owners
    <3>2. slot[k] = "none" /\ rebuilds[k] = {} /\ ~LoopAt(k, {"rebuilding"})
      BY <1>5 DEF OptimizeFails, TypeOK, SlotExact, GateHolds, Owners
    <3>3. rebuilds'[k] = {"runner"} /\ slot'[k] = "runner" /\ runner'[k] = "fallback"
      BY <2>3, <3>2 DEF TypeOK
    <3>4. \A j \in Kinds \ {k} : rebuilds'[j] = rebuilds[j] /\ slot'[j] = slot[j]
                                  /\ runner'[j] = runner[j]
      BY <2>3 DEF TypeOK
    <3>5. SlotExact'
      <4>1. {"runner"} = {"runner"} \ {"none"}
        OBVIOUS
      <4> QED BY <2>3, <3>2, <3>3, <3>4, <4>1 DEF SlotExact, LoopAt
    <3>6. GateHolds'
      BY <1>5, <2>3 DEF OptimizeFails, TypeOK, GateHolds, LoopAt
    <3> QED BY <3>1, <3>5, <3>6
  <2> QED BY <1>5, <2>2, <2>3 DEF OptimizeFails
<1>6. CASE Cooled(k)
  <2>1. slot[k] = "none" /\ ~LoopAt(k, {"woken"})
    BY <1>6 DEF Cooled, MaintainerInv, TypeOK, SlotExact, GateHolds, Owners
  <2> QED BY <1>6, <2>1, BeatKeeps DEF Cooled
<1> QED BY <1>1, <1>2, <1>3, <1>4, <1>5, <1>6 DEF Runner, OptimizeEnds
\* A rebuild that ends, by success, failure or a lost race, frees its slot.
LEMMA RebuildKeeps ==
    ASSUME MaintainerInv, NEW k \in Kinds, NEW who \in Owners, RebuildEnds(k, who)
    PROVE  MaintainerInv'
<1> USE DEF MaintainerInv
<1>1. slot[k] = who /\ rebuilds[k] = {who}
  BY DEF RebuildEnds, TypeOK, SlotExact, Owners
<1>2. /\ rebuilds'[k] = {} /\ slot'[k] = "none"
      /\ \A j \in Kinds \ {k} : rebuilds'[j] = rebuilds[j] /\ slot'[j] = slot[j]
  BY <1>1 DEF RebuildEnds, TypeOK, Set
<1>3. /\ rebuilds' \in [Kinds -> SUBSET Owners] /\ slot' \in [Kinds -> Owners \cup {"none"}]
      /\ attempt' \in [Kinds -> 0 .. MaxBackoffs] /\ retry' \in [Kinds -> BOOLEAN]
  <2>1. rebuilds' \in [Kinds -> SUBSET Owners] /\ slot' \in [Kinds -> Owners \cup {"none"}]
    BY DEF RebuildEnds, TypeOK, Set
  <2>2. 0 \in 0 .. MaxBackoffs /\ (MayRetry(k) => attempt[k] + 1 \in 0 .. MaxBackoffs)
    BY OptimizerAssumption DEF TypeOK, MayRetry
  <2>3. attempt' \in [Kinds -> 0 .. MaxBackoffs] /\ retry' \in [Kinds -> BOOLEAN]
    <3>1. \A b \in BOOLEAN : Set(retry, k, b) \in [Kinds -> BOOLEAN]
      BY DEF TypeOK, Set
    <3>2. \A n \in 0 .. MaxBackoffs : Set(attempt, k, n) \in [Kinds -> 0 .. MaxBackoffs]
      BY DEF TypeOK, Set
    <3> QED BY <2>2, <3>1, <3>2 DEF RebuildEnds
  <2> QED BY <2>1, <2>3
<1>4. {} = {slot'[k]} \ {"none"}
  BY <1>2
<1>5. CASE who = "loop"
  <2>1. loop' = NextInRound /\ UNCHANGED <<runner, since>> /\ LoopAt(k, {"rebuilding"})
    BY <1>1, <1>5 DEF RebuildEnds, Awaited, SlotExact
  <2>2. TypeOK'
    BY <1>3, <2>1 DEF RebuildEnds, TypeOK, NextInRound, LoopSteps
  <2>3. SlotExact'
    BY <1>2, <1>4, <1>5, <1>1, <2>1, OptimizerAssumption
    DEF SlotExact, LoopAt, NextInRound, TypeOK
  <2>4. GateHolds'
    BY <2>1, OptimizerAssumption DEF GateHolds, LoopAt, NextInRound, TypeOK
  <2> QED BY <2>2, <2>3, <2>4
<1>6. CASE who = "runner"
  <2>1. since' = Set(since, k, 0) /\ GoOn(k) /\ runner[k] = "fallback"
    BY <1>1, <1>6 DEF RebuildEnds, Awaited, SlotExact
  <2>2. /\ runner' \in [Kinds -> RunnerSteps] /\ runner'[k] \in {"none", "cooling"}
        /\ \A j \in Kinds \ {k} : runner'[j] = runner[j]
    BY <2>1 DEF GoOn, RunnerEnds, Set, TypeOK, RunnerSteps
  <2>3. /\ ~LoopAt(k, {"rebuilding", "woken"})
        /\ \/ loop' = loop
           \/ /\ LoopAt(k, {"waiting"}) /\ loop' = [loop EXCEPT !.pc = "woken"]
              /\ runner'[k] = "none"
    BY <2>1, <2>2 DEF GoOn, RunnerEnds, SlotExact, GateHolds, TypeOK, LoopAt, Set
  <2>4. TypeOK'
    <3>1. since' \in [Kinds -> 0 .. Threshold]
      BY <2>1, OptimizerAssumption DEF TypeOK, Set
    <3>2. loop' \in [pc : LoopSteps, kind : Kinds \cup {NoKind}, todo : SUBSET Kinds,
                     retrying : BOOLEAN]
      BY <2>3 DEF TypeOK, LoopSteps
    <3> QED BY <1>3, <2>2, <3>1, <3>2 DEF RebuildEnds, TypeOK
  <2>5. SlotExact'
    BY <1>1, <1>2, <1>4, <1>6, <2>1, <2>2, <2>3 DEF SlotExact, LoopAt, TypeOK
  <2>6. GateHolds'
    BY <2>2, <2>3 DEF GateHolds, LoopAt, TypeOK
  <2> QED BY <2>4, <2>5, <2>6
<1> QED BY <1>5, <1>6 DEF Owners

LEMMA LoopKeeps ==
    ASSUME MaintainerInv, NEW k \in Kinds,
           GiveUp(k) \/ Skip(k) \/ Visit(k) \/ Resume(k) \/ TimeOut(k)
    PROVE  MaintainerInv'
<1>1. CASE GiveUp(k)
  <2> USE DEF MaintainerInv, GiveUp, Set
  <2>1. slot[k] = "loop" /\ LoopAt(k, {"rebuilding"}) /\ rebuilds[k] = {"loop"}
    BY <1>1 DEF TypeOK, SlotExact, Owners
  <2>2. TypeOK'
    BY <1>1, <2>1 DEF TypeOK, RunnerSteps, LoopSteps, counters
  <2>3. /\ rebuilds'[k] = {} /\ slot'[k] = "none" /\ {} = {slot'[k]} \ {"none"}
        /\ \A j \in Kinds \ {k} : rebuilds'[j] = rebuilds[j] /\ slot'[j] = slot[j]
        /\ \A j \in Kinds : ~LoopAt(j, {"rebuilding", "woken"})'
    BY <1>1, <2>1 DEF TypeOK, LoopAt
  <2>4. SlotExact'
    BY <1>1, <2>1, <2>3 DEF SlotExact, TypeOK, LoopAt
  <2>5. GateHolds'
    BY <2>3 DEF GateHolds, LoopAt
  <2> QED BY <2>2, <2>4, <2>5
<1>2. CASE Skip(k)
  BY <1>2 DEF Skip, MaintainerInv, TypeOK, SlotExact, GateHolds, LoopAt, counters
<1>3. CASE Visit(k)
  <2>1. retry' \in [Kinds -> BOOLEAN]
    BY <1>3 DEF Visit, MaintainerInv, TypeOK, Set
  <2>2. CASE runner[k] = "none" /\ StartRebuild(k)
    BY <1>3, <2>1, <2>2, StartKeeps DEF Visit
  <2>3. CASE /\ loop' = [loop EXCEPT !.pc = "waiting", !.kind = k, !.todo = @ \ {k}]
             /\ UNCHANGED <<rebuilds, slot>>
    BY <1>3, <2>1, <2>3
    DEF Visit, MaintainerInv, TypeOK, SlotExact, GateHolds, LoopAt, LoopSteps
  <2> QED BY <1>3, <2>2, <2>3 DEF Visit
<1>4. CASE Resume(k)
  <2>1. runner[k] \in {"none", "ready"} /\ loop.pc # "rebuilding"
    BY <1>4 DEF Resume, MaintainerInv, GateHolds, LoopAt
  <2> QED BY <1>4, <2>1, StartKeeps DEF Resume, MaintainerInv, TypeOK, counters
<1>5. CASE TimeOut(k)
  BY <1>5, CancelKeeps DEF TimeOut, NextInRound, MaintainerInv, TypeOK
<1> QED BY <1>1, <1>2, <1>3, <1>4, <1>5

LEMMA StopKeeps ==
    ASSUME MaintainerInv, Stop \/ LoopSeesStop \/ CancelLoop \/ Stopped
    PROVE  MaintainerInv'
<1> USE DEF MaintainerInv
<1>1. CASE Stop \/ Stopped
  BY <1>1 DEF Stop, Stopped, TypeOK, SlotExact, GateHolds, LoopAt, counters
<1>2. CASE LoopSeesStop
  BY <1>2 DEF LoopSeesStop, TypeOK, SlotExact, GateHolds, LoopAt, LoopSteps, counters
<1>3. CASE CancelLoop
  <2>1. CASE loop.pc = "waiting" /\ CancelRunner(loop.kind)
    <3>1. CASE loop.kind \in Kinds
      BY <1>3, <2>1, <3>1, CancelKeeps DEF CancelLoop, LoopAt
    <3>2. CASE loop.kind \notin Kinds
      BY <1>3, <2>1, <3>2, OptimizerAssumption
      DEF CancelLoop, CancelRunner, TypeOK, SlotExact, GateHolds, LoopAt, LoopSteps, Set, counters
    <3> QED BY <3>1, <3>2
  <2>2. CASE loop.pc = "rebuilding"
    <3> DEFINE k == loop.kind
    <3>1. /\ rebuilds' = Set(rebuilds, k, rebuilds[k] \ {"loop"}) /\ slot' = Set(slot, k, "none")
          /\ loop' = [loop EXCEPT !.pc = "ended", !.kind = NoKind]
          /\ phase' = "flushing" /\ UNCHANGED <<runner, dirty, counters>>
      BY <1>3, <2>2 DEF CancelLoop
    <3>2. \A j \in Kinds \ {k} : rebuilds'[j] = rebuilds[j] /\ slot'[j] = slot[j]
      BY <3>1 DEF TypeOK, Set
    <3>3. k \in Kinds => /\ slot[k] = "loop" /\ rebuilds[k] = {"loop"}
                        /\ slot'[k] = "none" /\ rebuilds'[k] = {}
      BY <2>2, <3>1 DEF TypeOK, SlotExact, LoopAt, Set
    <3>4. TypeOK'
      <4>1. rebuilds' \in [Kinds -> SUBSET Owners]
        BY <3>1 DEF TypeOK, Set
      <4>2. slot' \in [Kinds -> Owners \cup {"none"}]
        BY <3>1 DEF TypeOK, Set
      <4> HIDE DEF k
      <4> QED BY <3>1, <4>1, <4>2 DEF TypeOK, LoopSteps, counters
    <3>5. SlotExact'
      <4>1. \A j \in Kinds : ~LoopAt(j, {"rebuilding"})'
        BY <3>1 DEF TypeOK, LoopAt
      <4>2. \A j \in Kinds \ {k} : ~LoopAt(j, {"rebuilding"})
        BY DEF LoopAt
      <4> HIDE DEF k
      <4>3. {} = {"none"} \ {"none"}
        OBVIOUS
      <4> QED BY <3>1, <3>2, <3>3, <4>1, <4>2, <4>3 DEF SlotExact
    <3>6. GateHolds'
      BY <3>1, OptimizerAssumption DEF TypeOK, GateHolds, LoopAt
    <3> QED BY <3>4, <3>5, <3>6
  <2>3. CASE loop.pc \notin {"waiting", "rebuilding"}
    BY <1>3, <2>3, OptimizerAssumption
    DEF CancelLoop, TypeOK, SlotExact, GateHolds, LoopAt, LoopSteps, counters
  <2> QED BY <1>3, <2>1, <2>2, <2>3 DEF CancelLoop
<1> QED BY <1>1, <1>2, <1>3

LEMMA MaintainerInductive ==
    ASSUME MaintainerInv, Next
    PROVE  MaintainerInv'
<1>1. ASSUME NEW k \in Kinds, Schedule(k)
      PROVE  MaintainerInv'
  BY <1>1 DEF Schedule, MaintainerInv, TypeOK, SlotExact, GateHolds, LoopAt, Set,
              RunnerSteps, counters
<1>2. ASSUME NEW due \in SUBSET Kinds, NEW retrying \in BOOLEAN, Round(due, retrying)
      PROVE  MaintainerInv'
  BY <1>2 DEF Round, MaintainerInv, TypeOK, SlotExact, GateHolds, LoopAt, counters
<1> QED
  BY <1>1, <1>2, RunnerKeeps, RebuildKeeps, LoopKeeps, StopKeeps DEF Next

\* The slot always names the rebuild at work, its owner is where the slot says, and a
\* rebuilding loop has a runner at most at its gate.
THEOREM MaintainerInvariant == Spec => []MaintainerInv
<1>1. Init => MaintainerInv
  BY OptimizerAssumption
  DEF Init, MaintainerInv, TypeOK, SlotExact, GateHolds, LoopAt, RunnerSteps, LoopSteps, Owners
<1>2. MaintainerInv /\ UNCHANGED vars => MaintainerInv'
  BY DEF vars, MaintainerInv, TypeOK, SlotExact, GateHolds, LoopAt
<1> QED BY <1>1, <1>2, MaintainerInductive, PTL DEF Spec

\* Every variable keeps the type of its field or task: the streaks stay within the threshold
\* and the attempts of a rebuild within its backoffs.
THEOREM TypeCorrect == Spec => []TypeOK
<1>1. MaintainerInv => TypeOK BY DEF MaintainerInv
<1> QED BY <1>1, MaintainerInvariant, PTL

\* An optimize and a rebuild of one table never overlap, and neither do two rebuilds.
THEOREM OneMaintainerAlways == Spec => []OneMaintainer
<1>1. MaintainerInv => OneMaintainer
  BY DEF MaintainerInv, TypeOK, SlotExact, GateHolds, OneMaintainer, Owners
<1> QED BY <1>1, MaintainerInvariant, PTL

--------------------------------------------------------------------------------
(* The alert of the health check. *)

\* The streak of a kind shrinks by an optimize that succeeds, and by nothing else.
LEMMA StreakShrinks ==
    ASSUME TypeOK, Next, NEW k \in Kinds, streak[k] = Threshold, streak'[k] # Threshold
    PROVE  runner[k] = "optimizing" /\ since'[k] = 0
<1> USE OptimizerAssumption DEF TypeOK, Set, counters
<1>1. ASSUME NEW q \in Kinds, OptimizeSucceeds(q) PROVE k = q
  BY <1>1 DEF OptimizeSucceeds
<1>2. ASSUME NEW q \in Kinds, OptimizeSucceeds(q) PROVE runner[k] = "optimizing" /\ since'[k] = 0
  BY <1>1, <1>2 DEF OptimizeSucceeds
<1>3. ASSUME NEW q \in Kinds, OptimizeFails(q) PROVE FALSE
  BY <1>3 DEF OptimizeFails, Counted
<1>4. CASE streak' = streak
  BY <1>4
<1>5. CASE \E q \in Kinds : \/ Schedule(q) \/ Enter(q) \/ Wake(q) \/ Cooled(q) \/ GiveUp(q)
                            \/ Skip(q) \/ Visit(q) \/ Resume(q) \/ TimeOut(q)
                            \/ OptimizeConflicts(q)
                            \/ \E who \in Owners : RebuildEnds(q, who)
  BY <1>4, <1>5 DEF Schedule, Enter, Wake, Cooled, Beat, GiveUp, Skip, Visit, Resume, TimeOut,
                    OptimizeConflicts, RebuildEnds
<1>6. CASE \/ \E due \in SUBSET Kinds, retrying \in BOOLEAN : Round(due, retrying)
           \/ Stop \/ LoopSeesStop \/ CancelLoop \/ Stopped
  BY <1>4, <1>6 DEF Round, Stop, LoopSeesStop, CancelLoop, Stopped
<1> QED BY <1>2, <1>3, <1>5, <1>6 DEF Next, Runner, OptimizeEnds

\* The alert goes away by an optimize that succeeds, which starts both counts again, never by
\* the rebuild that a run of failures triggers.
THEOREM AlertIsKept == Spec => AlertStays
<1>1. MaintainerInv /\ [Next]_vars =>
        [\A k \in Kinds : streak[k] = Threshold /\ streak'[k] # Threshold
                            => runner[k] = "optimizing" /\ since'[k] = 0]_vars
  BY StreakShrinks DEF MaintainerInv, vars
<1> QED BY <1>1, MaintainerInvariant, PTL DEF Spec, AlertStays
================================================================================
