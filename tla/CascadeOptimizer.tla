---------------------------- MODULE CascadeOptimizer ----------------------------
(***************************************************************************)
(* Maintenance of the LanceDB tables by the cascade's worker.  Each kind   *)
(* has a runner, a task that optimizes its table while it is dirty, and    *)
(* one rebuild loop visits the kinds and rebuilds their indexes in an      *)
(* inner task.  Optimize and rebuild commit on the same manifest, so each  *)
(* side waits for the other's task before it starts its own, and gives up  *)
(* at a deadline.                                                          *)
(*                                                                         *)
(* `await task` is not shielded: whoever is cancelled while it awaits a    *)
(* task, by stop() or by the deadline around the await, cancels that task, *)
(* and the others that await it get the CancelledError too.                *)
(* Abstractions:                                                           *)
(*  - Time: throttles, ticks and backoffs end at any moment; a deadline    *)
(*    passes only at an await that may last that long.                     *)
(*  - Prune is an optimize; its clocks only choose between the two.        *)
(*  - A failure streak is counted up to the threshold it is compared with. *)
(*  - The drain and the heartbeat are the callers of Schedule.             *)
(***************************************************************************)
EXTENDS Integers, FiniteSets

CONSTANTS
    Kinds,
    NoKind,
    Threshold,      \* _OPTIMIZE_FAILURE_ALERT_THRESHOLD
    MaxBackoffs     \* length of _REBUILD_CONFLICT_BACKOFFS_SECONDS

ASSUME OptimizerAssumption ==
    NoKind \notin Kinds /\ Threshold \in Nat \ {0} /\ MaxBackoffs \in Nat

VARIABLES
    phase,      \* the worker: up, or how far its stop() is
    dirty,      \* written since the last optimize began
    runner,     \* the optimize task of each kind
    rebuilds,   \* the inner rebuild tasks at work on each table, by who awaits them
    slot,       \* rebuild_task: the rebuild that a runner waits for
    loop,       \* the rebuild loop: where it is, and the kinds of its round
    retry,      \* rebuild_retry_at is set
    attempt,    \* rebuild_attempt
    streak,     \* optimize_failures
    since       \* failures_since_fallback

vars == <<phase, dirty, runner, rebuilds, slot, loop, retry, attempt, streak, since>>
counters == <<retry, attempt, streak, since>>

Owners == {"loop", "runner"}
RunnerSteps == {"none", "ready", "waiting", "optimizing", "fallback", "cooling"}
LoopSteps == {"round", "waiting", "woken", "rebuilding", "dead", "ended"}

Up == phase = "up"
Set(f, k, v) == [f EXCEPT ![k] = v]
LoopAt(k, steps) == loop.kind = k /\ loop.pc \in steps
NextInRound == [loop EXCEPT !.pc = "round", !.kind = NoKind]
Counted(n) == IF n < Threshold THEN n + 1 ELSE Threshold

--------------------------------------------------------------------------------
(* The runner of a kind. *)

Schedule(k) ==
    /\ Up
    /\ dirty' = Set(dirty, k, TRUE)
    /\ runner' = IF runner[k] = "none" THEN Set(runner, k, "ready") ELSE runner
    /\ UNCHANGED <<phase, rebuilds, slot, loop, counters>>

\* A task that ends wakes the loop if that awaits it.
RunnerEnds(k) ==
    /\ runner' = Set(runner, k, "none")
    /\ loop' = IF LoopAt(k, {"waiting"}) THEN [loop EXCEPT !.pc = "woken"] ELSE loop

\* The head of the runner's loop.
Beat(k) ==
    /\ \/ /\ dirty[k] /\ Up
          /\ dirty' = Set(dirty, k, FALSE)
          /\ runner' = Set(runner, k, "optimizing") /\ UNCHANGED loop
       \/ /\ ~(dirty[k] /\ Up)
          /\ RunnerEnds(k) /\ UNCHANGED dirty
    /\ UNCHANGED <<phase, rebuilds, slot, counters>>

\* Mutant: the runner does not look for a rebuild.
EnterAtOnce(k) == runner[k] = "ready" /\ ~LoopAt(k, {"woken"}) /\ Beat(k)

\* The throttle is over.  A loop that was woken before the task was made is served first.
Enter(k) ==
    /\ runner[k] = "ready" /\ ~LoopAt(k, {"woken"})
    /\ \/ slot[k] = "none" /\ Beat(k)
       \/ /\ slot[k] # "none"
          /\ runner' = Set(runner, k, "waiting")
          /\ UNCHANGED <<phase, dirty, rebuilds, slot, loop, counters>>
       \/ /\ ~Up /\ RunnerEnds(k)
          /\ UNCHANGED <<phase, dirty, rebuilds, slot, counters>>

Wake(k) == runner[k] = "waiting" /\ slot[k] = "none" /\ Beat(k)

\* Mutant: a cancelled rebuild keeps the slot.
GiveUpSlotKept(k) ==
    /\ runner[k] = "waiting" /\ slot[k] # "none"
    /\ runner' = Set(runner, k, "none")
    /\ rebuilds' = Set(rebuilds, k, {})
    /\ loop' = IF slot[k] = "loop" THEN [loop EXCEPT !.pc = "dead"] ELSE loop
    /\ UNCHANGED <<phase, dirty, slot, counters>>

\* The deadline on the wait for a rebuild cancels the rebuild, and so the loop that
\* awaits it: _supervise lets a CancelledError pass.
GiveUp(k) ==
    /\ runner[k] = "waiting" /\ slot[k] # "none"
    /\ runner' = Set(runner, k, "none")
    /\ rebuilds' = Set(rebuilds, k, rebuilds[k] \ {slot[k]})
    /\ slot' = Set(slot, k, "none")
    /\ loop' = IF slot[k] = "loop" THEN [loop EXCEPT !.pc = "dead"] ELSE loop
    /\ UNCHANGED <<phase, dirty, counters>>

\* After an optimize: a pause if a write came in between.
GoOn(k) ==
    \/ /\ dirty[k] /\ Up
       /\ runner' = Set(runner, k, "cooling") /\ UNCHANGED loop
    \/ ~(dirty[k] /\ Up) /\ RunnerEnds(k)

OptimizeSucceeds(k) ==
    /\ runner[k] = "optimizing"
    /\ streak' = Set(streak, k, 0) /\ since' = Set(since, k, 0)
    /\ GoOn(k)
    /\ UNCHANGED <<phase, dirty, rebuilds, slot, retry, attempt>>

\* Preempted by another writer: counts for nothing.
OptimizeConflicts(k) ==
    /\ runner[k] = "optimizing"
    /\ GoOn(k)
    /\ UNCHANGED <<phase, dirty, rebuilds, slot, counters>>

\* Any other failure, the deadline of the call among them.
OptimizeFails(k) ==
    /\ runner[k] = "optimizing"
    /\ streak' = Set(streak, k, Counted(streak[k]))
    /\ since' = Set(since, k, Counted(since[k]))
    /\ \/ /\ since'[k] < Threshold
          /\ GoOn(k) /\ UNCHANGED <<rebuilds, slot>>
       \/ /\ since'[k] = Threshold
          /\ runner' = Set(runner, k, "fallback")
          /\ rebuilds' = Set(rebuilds, k, rebuilds[k] \cup {"runner"})
          /\ slot' = Set(slot, k, "runner")
          /\ UNCHANGED loop
    /\ UNCHANGED <<phase, dirty, retry, attempt>>

OptimizeEnds(k) == OptimizeSucceeds(k) \/ OptimizeConflicts(k) \/ OptimizeFails(k)

Cooled(k) == runner[k] = "cooling" /\ Beat(k)

--------------------------------------------------------------------------------
(* The rebuild loop. *)

StartRebuild(k) ==
    /\ rebuilds' = Set(rebuilds, k, rebuilds[k] \cup {"loop"})
    /\ slot' = Set(slot, k, "loop")
    /\ loop' = [loop EXCEPT !.pc = "rebuilding", !.kind = k, !.todo = @ \ {k}]

\* A sweep over all kinds, or a round over those whose backoff is over.
Round(due, retrying) ==
    /\ Up /\ loop.pc = "round" /\ loop.todo = {}
    /\ IF retrying THEN due # {} /\ \A k \in due : retry[k] ELSE due = Kinds
    /\ loop' = [loop EXCEPT !.todo = due, !.retrying = retrying]
    /\ UNCHANGED <<phase, dirty, runner, rebuilds, slot, counters>>

\* Nothing is due any more: a fallback has rebuilt the kind in the meantime.
Skip(k) ==
    /\ Up /\ loop.pc = "round" /\ k \in loop.todo
    /\ loop.retrying /\ ~retry[k]
    /\ loop' = [loop EXCEPT !.todo = @ \ {k}]
    /\ UNCHANGED <<phase, dirty, runner, rebuilds, slot, counters>>

\* Mutant: the loop does not wait for a runner.
VisitAtOnce(k) ==
    /\ Up /\ loop.pc = "round" /\ k \in loop.todo
    /\ StartRebuild(k)
    /\ UNCHANGED <<phase, dirty, runner, counters>>

Visit(k) ==
    /\ Up /\ loop.pc = "round" /\ k \in loop.todo
    /\ loop.retrying => retry[k]
    /\ retry' = IF loop.retrying THEN Set(retry, k, FALSE) ELSE retry
    /\ \/ runner[k] = "none" /\ StartRebuild(k)
       \/ /\ runner[k] # "none"
          /\ loop' = [loop EXCEPT !.pc = "waiting", !.kind = k, !.todo = @ \ {k}]
          /\ UNCHANGED <<rebuilds, slot>>
    /\ UNCHANGED <<phase, dirty, runner, attempt, streak, since>>

Resume(k) ==
    /\ LoopAt(k, {"woken"})
    /\ StartRebuild(k)
    /\ UNCHANGED <<phase, dirty, runner, counters>>

\* A cancelled runner takes the rebuild along that it awaits.
CancelRunner(k) ==
    /\ runner' = Set(runner, k, "none")
    /\ rebuilds' = Set(rebuilds, k, rebuilds[k] \ {"runner"})
    /\ slot' = IF runner[k] = "fallback" THEN Set(slot, k, "none") ELSE slot

\* The deadline on the wait for a runner, much longer than its throttle.
TimeOut(k) ==
    /\ LoopAt(k, {"waiting"}) /\ runner[k] \in {"optimizing", "fallback", "cooling"}
    /\ CancelRunner(k)
    /\ loop' = NextInRound
    /\ UNCHANGED <<phase, dirty, counters>>

\* Mutant: one attempt more than there are backoffs.
MayRetryOnceMore(k) == attempt[k] <= MaxBackoffs

MayRetry(k) == attempt[k] < MaxBackoffs

\* What follows for who awaited the rebuild.
Awaited(k, who) ==
    \/ /\ who = "loop"
       /\ loop' = NextInRound /\ UNCHANGED <<runner, since>>
    \/ /\ who = "runner"
       /\ since' = Set(since, k, 0) /\ GoOn(k)

\* Mutant: the fallback clears the alert too.
RebuildClearsAlert(k, who) ==
    /\ who \in rebuilds[k]
    /\ rebuilds' = Set(rebuilds, k, rebuilds[k] \ {who})
    /\ slot' = IF slot[k] = who THEN Set(slot, k, "none") ELSE slot
    /\ Awaited(k, who)
    /\ retry' = Set(retry, k, FALSE) /\ attempt' = Set(attempt, k, 0)
    /\ streak' = Set(streak, k, 0)
    /\ UNCHANGED <<phase, dirty>>

\* The table is rebuilt, or fails otherwise than by a lost race, or has lost too many.
RebuildEnds(k, who) ==
    /\ who \in rebuilds[k]
    /\ rebuilds' = Set(rebuilds, k, rebuilds[k] \ {who})
    /\ slot' = IF slot[k] = who THEN Set(slot, k, "none") ELSE slot
    /\ Awaited(k, who)
    /\ \/ retry' = Set(retry, k, FALSE) /\ attempt' = Set(attempt, k, 0)
       \/ /\ MayRetry(k)
          /\ retry' = Set(retry, k, TRUE) /\ attempt' = Set(attempt, k, attempt[k] + 1)
    /\ UNCHANGED <<phase, dirty, streak>>

--------------------------------------------------------------------------------
(* stop(): the flag, the cancelled loop, and the wait for what is left. *)

Stop ==
    /\ Up
    /\ phase' = "stopping"
    /\ UNCHANGED <<dirty, runner, rebuilds, slot, loop, counters>>

LoopSeesStop ==
    /\ ~Up /\ loop.pc = "round"
    /\ loop' = [loop EXCEPT !.pc = "ended"]
    /\ UNCHANGED <<phase, dirty, runner, rebuilds, slot, counters>>

CancelLoop ==
    /\ phase = "stopping"
    /\ phase' = "flushing"
    /\ loop' = IF loop.pc = "dead" THEN loop ELSE [loop EXCEPT !.pc = "ended", !.kind = NoKind]
    /\ \/ loop.pc = "waiting" /\ CancelRunner(loop.kind)
       \/ /\ loop.pc = "rebuilding"
          /\ rebuilds' = Set(rebuilds, loop.kind, rebuilds[loop.kind] \ {"loop"})
          /\ slot' = Set(slot, loop.kind, "none")
          /\ UNCHANGED runner
       \/ loop.pc \notin {"waiting", "rebuilding"} /\ UNCHANGED <<runner, rebuilds, slot>>
    /\ UNCHANGED <<dirty, counters>>

Quiet == \A k \in Kinds : runner[k] = "none" /\ rebuilds[k] = {}

Stopped ==
    /\ phase = "flushing" /\ Quiet
    /\ phase' = "stopped"
    /\ UNCHANGED <<dirty, runner, rebuilds, slot, loop, counters>>

--------------------------------------------------------------------------------
\* The first sweep starts with the worker.
Init ==
    /\ phase = "up"
    /\ dirty = [k \in Kinds |-> FALSE] /\ runner = [k \in Kinds |-> "none"]
    /\ rebuilds = [k \in Kinds |-> {}] /\ slot = [k \in Kinds |-> "none"]
    /\ loop = [pc |-> "round", kind |-> NoKind, todo |-> Kinds, retrying |-> FALSE]
    /\ retry = [k \in Kinds |-> FALSE] /\ attempt = [k \in Kinds |-> 0]
    /\ streak = [k \in Kinds |-> 0] /\ since = [k \in Kinds |-> 0]

Runner(k) == Enter(k) \/ Wake(k) \/ OptimizeEnds(k) \/ Cooled(k)

Next ==
    \/ \E k \in Kinds :
         \/ Schedule(k) \/ Runner(k) \/ GiveUp(k)
         \/ Skip(k) \/ Visit(k) \/ Resume(k) \/ TimeOut(k)
         \/ \E who \in Owners : RebuildEnds(k, who)
    \/ \E due \in SUBSET Kinds, retrying \in BOOLEAN : Round(due, retrying)
    \/ Stop \/ LoopSeesStop \/ CancelLoop \/ Stopped

Spec == Init /\ [][Next]_vars

\* The heartbeat comes again and again, calls end, and what can run does run.
Fairness ==
    \A k \in Kinds :
        /\ WF_vars(Schedule(k)) /\ WF_vars(Runner(k)) /\ WF_vars(Resume(k))
        /\ \A who \in Owners : WF_vars(RebuildEnds(k, who))

FairSpec == Spec /\ Fairness

--------------------------------------------------------------------------------
\* Every variable has the type of its field or task.
TypeOK ==
    /\ phase \in {"up", "stopping", "flushing", "stopped"}
    /\ dirty \in [Kinds -> BOOLEAN] /\ retry \in [Kinds -> BOOLEAN]
    /\ runner \in [Kinds -> RunnerSteps]
    /\ rebuilds \in [Kinds -> SUBSET Owners] /\ slot \in [Kinds -> Owners \cup {"none"}]
    /\ loop \in [pc : LoopSteps, kind : Kinds \cup {NoKind}, todo : SUBSET Kinds,
                 retrying : BOOLEAN]
    /\ attempt \in [Kinds -> 0 .. MaxBackoffs]
    /\ streak \in [Kinds -> 0 .. Threshold] /\ since \in [Kinds -> 0 .. Threshold]

\* One call at a time changes a table: an optimize and a rebuild never overlap, and
\* neither do two rebuilds, whoever times out, falls back or stops meanwhile.
OneMaintainer ==
    \A k \in Kinds :
        /\ runner[k] = "optimizing" => rebuilds[k] = {}
        /\ rebuilds[k] # Owners

\* The inductive form: the slot names the rebuild at work and its owner is where the
\* slot says; and a loop that rebuilds, or is about to, has a runner only at its gate.
SlotExact ==
    \A k \in Kinds :
        /\ rebuilds[k] = {slot[k]} \ {"none"}
        /\ slot[k] = "loop" <=> LoopAt(k, {"rebuilding"})
        /\ slot[k] = "runner" <=> runner[k] = "fallback"

GateHolds ==
    \A k \in Kinds :
        /\ LoopAt(k, {"rebuilding"}) => runner[k] \in {"none", "ready", "waiting"}
        /\ LoopAt(k, {"woken"}) => runner[k] \in {"none", "ready"}

MaintainerInv == TypeOK /\ SlotExact /\ GateHolds

\* The alert of the health check goes away by an optimize that succeeds, never by the
\* rebuild that a run of failures triggers.
AlertStays ==
    [][\A k \in Kinds :
          streak[k] = Threshold /\ streak'[k] # Threshold => runner[k] = "optimizing" /\ since'[k] = 0]_vars

\* A dirty table is optimized (the flag is consumed when one begins) or the worker
\* stops, although runner and loop wait for each other and cancel each other.
DirtyServed == \A k \in Kinds : dirty[k] ~> ~dirty[k] \/ ~Up
================================================================================
