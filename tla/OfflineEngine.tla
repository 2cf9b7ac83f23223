----------------------------- MODULE OfflineEngine -----------------------------
(***************************************************************************)
(* The offline memory engine (OME): events are dispatched to strategies,   *)
(* each delivery becomes a run, a run makes attempts under the engine's    *)
(* semaphore with a backoff between them, and run_record keeps a row per   *)
(* attempt from which a later start of the engine recovers runs that died. *)
(*                                                                         *)
(*   emit --dispatch--> APScheduler job --> dispatch_run --> attempt       *)
(*    ^                                          ^            |  |         *)
(*    |                                          |         row |           *)
(*    +--------- ctx.emit, ctx.wait_for_event ---+--- retry ---+           *)
(*                                                                         *)
(* An action is what the engine's event loop does between two awaits that  *)
(* others can get between.  Abstractions:                                  *)
(*  - A run of delivery <<e, s>> is named <<e, s, g>>: g = 0 for the run   *)
(*    the dispatch enqueued, g + 1 for the run that recovery enqueued      *)
(*    after run g.  A row is the run and the attempt.                      *)
(*  - Which strategies an event reaches (subscription, enabled,            *)
(*    applies_to) is given per kind of event by Routes.  No strategy of    *)
(*    the repository has a counter gate, so a dispatch is one step.        *)
(*  - An APScheduler job of a dead engine names an engine id that nobody   *)
(*    has any more; the next engine drops it (no_engine_for_runner).  The  *)
(*    model forgets jobs with their engine.                                *)
(*  - The wait of 120 s and the recovery timeout may run out at any time.  *)
(***************************************************************************)
EXTENDS Integers, FiniteSets

CONSTANTS
    Kinds,          \* of events
    External,       \* kinds that the application and the scheduler emit
    Strategies,
    Routes,         \* the strategies each kind of event reaches
    Emits,          \* the kind a strategy's body emits, or NoKind
    NoKind,
    Waiters,        \* strategies that wait for the runs of the event they emit
    MaxRetries,     \* retries after the first attempt
    SlotCounts,     \* values that max_concurrent_runs may have when an engine starts
    MaxRecords,     \* rows kept per strategy
    DrainTimesOut,  \* may the 30 s of stop() be too short?
    Faults,         \* which of FaultKinds may happen
    MaxEvents,      \* bound: events ever emitted
    MaxUpsets       \* bound: stops and crashes of the engine, counted together

FaultKinds == {"body", "contract", "db", "crash"}

ASSUME TopologyAssumption ==
    /\ External \subseteq Kinds /\ NoKind \notin Kinds /\ IsFiniteSet(Strategies)
    /\ Routes \in [Kinds -> SUBSET Strategies]
    /\ Emits \in [Strategies -> Kinds \cup {NoKind}]
    /\ \A s \in Waiters : s \in Strategies /\ Emits[s] # NoKind
ASSUME EngineAssumption ==
    /\ MaxRetries \in Nat /\ SlotCounts \subseteq Nat \ {0} /\ MaxRecords \in Nat \ {0}
    /\ MaxEvents \in Nat /\ MaxUpsets \in Nat /\ DrainTimesOut \in BOOLEAN /\ Faults \subseteq FaultKinds

Events     == 1 .. MaxEvents
Deliveries == Events \X Strategies
Runs       == Events \X Strategies \X (0 .. MaxUpsets)
Attempts   == 0 .. MaxRetries
Keys       == Runs \X Attempts

VARIABLES
    engine,     \* the engine's life: see EngineStates
    active,     \* _active_runs
    kind,       \* of each event, NoKind until it is emitted
    run,        \* where each run is
    row,        \* status of each row of run_record, "none" when there is none
    born,       \* order in which the rows were inserted (started_at)
    todo,       \* stale rows that start() has found and not treated yet
    readd,      \* the run whose row is marked CRASHED and which is not yet enqueued again
    slots,      \* of engine_sem, which start() creates
    upsets      \* stops and crashes so far

vars == <<engine, active, kind, run, row, born, todo, readd, slots, upsets>>

EngineStates == {"off", "starting", "rollback", "on", "draining", "woken"}
LivePhases   == {"queued", "body", "waiting", "good", "bad", "broken", "backoff"}
SlotPhases   == {"body", "waiting", "good", "bad", "broken"}
RowStatuses  == {"none", "running", "success", "failed", "dead_letter", "crashed"}

NoRun   == [phase |-> "none", attempt |-> 0, child |-> 0]
NewRun  == [NoRun EXCEPT !.phase = "queued"]

Live(r)     == run[r].phase \in LivePhases
DeliveryOf(r) == <<r[1], r[2]>>
Key(r)      == <<r, run[r].attempt>>

\* self._started: set at the end of start(), cleared at the end of stop().
Accepts == engine \in {"on", "draining", "woken"}
Alive   == engine # "off"

--------------------------------------------------------------------------------
Init ==
    /\ engine = "off"
    /\ active = 0
    /\ kind  = [e \in Events |-> NoKind]
    /\ run   = [r \in Runs |-> NoRun]
    /\ row   = [k \in Keys |-> "none"]
    /\ born  = [k \in Keys |-> 0]
    /\ todo  = {}
    /\ readd = {}
    /\ slots = 0
    /\ upsets = 0

--------------------------------------------------------------------------------
(* The table run_record. *)

\* UPDATE ... WHERE run_id: no row, no effect, and no look at the old status.
SetStatus(k, status) ==
    row' = [row EXCEPT ![k] = IF @ = "none" THEN "none" ELSE status]

\* The rows of k's strategy that are newer than row j, k's own among them.
Newer(j, k) ==
    {i \in Keys : row[i] # "none" /\ i[1][2] = j[1][2] /\ born[i] > born[j]} \cup {k}

\* INSERT and, in the same transaction, the trim of the strategy's oldest rows.
InsertRunning(k) ==
    /\ row' = [j \in Keys |->
                 IF j = k THEN "running"
                 ELSE IF /\ row[j] # "none" /\ j[1][2] = k[1][2]
                         /\ Cardinality(Newer(j, k)) >= MaxRecords
                 THEN "none" ELSE row[j]]
    /\ born' = [born EXCEPT ![k] = 1 + Cardinality({i \in Keys : born[i] # 0})]

--------------------------------------------------------------------------------
(* Enqueueing and completion: the +1 and the -1 of _active_runs. *)

Completed == active' = IF active = 0 THEN 0 ELSE active - 1

\* One job per route.  When add_job raises, the routes after it are not
\* enqueued and the emitter gets the exception.
Dispatch(e, k, reached) ==
    /\ e \in Events /\ kind[e] = NoKind /\ \A d \in Events : d < e => kind[d] # NoKind
    /\ kind'   = [kind EXCEPT ![e] = k]
    /\ active' = active + Cardinality(reached)

Enqueued(e, reached) ==
    [r \in Runs |-> IF r[1] = e /\ r[2] \in reached /\ r[3] = 0 THEN NewRun ELSE run[r]]

\* What a dispatch of kind k may reach: all its routes, or fewer when it fails.
Reachable(k) == IF "db" \in Faults THEN SUBSET Routes[k] ELSE {Routes[k]}

Emit(k) ==
    /\ Accepts /\ k \in External
    /\ \E e \in Events, reached \in Reachable(k) :
         /\ Dispatch(e, k, reached)
         /\ run' = Enqueued(e, reached)
    /\ UNCHANGED <<engine, row, born, todo, readd, slots, upsets>>

--------------------------------------------------------------------------------
(* A run: Runner.run inside dispatch_run. *)

Goto(r, phase) == run' = [run EXCEPT ![r].phase = phase]

\* The task ends: its slot, if it has one, is released and its +1 taken back.
Finish(r, phase) == Goto(r, phase) /\ Completed

SlotFree == Cardinality({r \in Runs : run[r].phase \in SlotPhases}) < slots

StartAttempt(r) ==
    /\ Alive /\ run[r].phase = "queued" /\ SlotFree
    /\ run' = [run EXCEPT ![r] = [@ EXCEPT !.phase = "body", !.child = 0]]
    /\ InsertRunning(Key(r))
    /\ UNCHANGED <<engine, active, kind, todo, readd, slots, upsets>>

\* mark_running raises: the run is given up without a trace in the table.
StartFails(r) ==
    /\ "db" \in Faults
    /\ Alive /\ run[r].phase = "queued" /\ SlotFree
    /\ Finish(r, "gone")
    /\ UNCHANGED <<engine, kind, row, born, todo, readd, slots, upsets>>

\* ctx.emit; a strategy that waits goes on to poll the records of its event.
BodyEmits(r) ==
    /\ run[r].phase = "body" /\ run[r].child = 0 /\ Emits[r[2]] # NoKind
    /\ Accepts
    /\ \E e \in Events, reached \in Reachable(Emits[r[2]]) :
         /\ Dispatch(e, Emits[r[2]], reached)
         /\ run' = [Enqueued(e, reached) EXCEPT ![r] =
                      [@ EXCEPT !.child = e,
                                !.phase = IF reached # Routes[Emits[r[2]]] THEN "bad"
                                          ELSE IF r[2] \in Waiters THEN "waiting"
                                          ELSE "body"]]
    /\ UNCHANGED <<engine, row, born, todo, readd, slots, upsets>>

\* OMEError: a recovered run may get here before start() has finished.
BodyEmitRefused(r) ==
    /\ run[r].phase = "body" /\ run[r].child = 0 /\ Emits[r[2]] # NoKind
    /\ Alive /\ ~Accepts
    /\ Goto(r, "bad")
    /\ UNCHANGED <<engine, active, kind, row, born, todo, readd, slots, upsets>>

\* Bound: a body returns without its event when MaxEvents are used up.
BodyReturns(r) ==
    /\ run[r].phase = "body"
    /\ \/ Emits[r[2]] = NoKind \/ run[r].child # 0
       \/ \A e \in Events : kind[e] # NoKind
    /\ Goto(r, "good")
    /\ UNCHANGED <<engine, active, kind, row, born, todo, readd, slots, upsets>>

\* An exception, or a StrategyContractError, which is never retried.
BodyRaises(r) ==
    /\ run[r].phase = "body"
    /\ \/ "body" \in Faults /\ Goto(r, "bad")
       \/ "contract" \in Faults /\ Goto(r, "broken")
    /\ UNCHANGED <<engine, active, kind, row, born, todo, readd, slots, upsets>>

RowsOf(e) == {k \in Keys : k[1][1] = e /\ row[k] # "none"}

\* wait_for_event finds rows, all of them in one of _TERMINAL_STATUSES; the rest
\* of the body follows.
WaitReturns(r) ==
    /\ run[r].phase = "waiting"
    /\ RowsOf(run[r].child) # {}
    /\ \A k \in RowsOf(run[r].child) : row[k] # "running"
    /\ Goto(r, "body")
    /\ UNCHANGED <<engine, active, kind, row, born, todo, readd, slots, upsets>>

\* Mutant: the wait has no deadline.
WaitForever(r) == FALSE /\ WaitReturns(r)

\* TimeoutError; reflection logs it and goes on to the next cluster.
WaitTimesOut(r) ==
    /\ run[r].phase = "waiting"
    /\ Goto(r, "body")
    /\ UNCHANGED <<engine, active, kind, row, born, todo, readd, slots, upsets>>

MarkSuccess(r) ==
    /\ run[r].phase = "good"
    /\ SetStatus(Key(r), "success")
    /\ Finish(r, "done")
    /\ UNCHANGED <<engine, kind, born, todo, readd, slots, upsets>>

\* Mutant: one attempt too many.
MarkFailedOnceMore(r) ==
    /\ run[r].phase = "bad" /\ run[r].attempt <= MaxRetries
    /\ SetStatus(Key(r), "failed")
    /\ Goto(r, "backoff")
    /\ UNCHANGED <<engine, active, kind, born, todo, readd, slots, upsets>>

\* The slot is released before the sleep.
MarkFailed(r) ==
    /\ run[r].phase = "bad" /\ run[r].attempt < MaxRetries
    /\ SetStatus(Key(r), "failed")
    /\ Goto(r, "backoff")
    /\ UNCHANGED <<engine, active, kind, born, todo, readd, slots, upsets>>

MarkDeadLetter(r) ==
    /\ \/ run[r].phase = "bad" /\ run[r].attempt >= MaxRetries
       \/ run[r].phase = "broken"
    /\ SetStatus(Key(r), "dead_letter")
    /\ Finish(r, "dead")
    /\ UNCHANGED <<engine, kind, born, todo, readd, slots, upsets>>

\* Any mark raises: the exception ends the run, its row stays RUNNING.
MarkRaises(r) ==
    /\ "db" \in Faults /\ run[r].phase \in {"good", "bad", "broken"}
    /\ Finish(r, "gone")
    /\ UNCHANGED <<engine, kind, row, born, todo, readd, slots, upsets>>

RetryAttempt(r) ==
    /\ run[r].phase = "backoff"
    /\ run' = [run EXCEPT ![r] = [@ EXCEPT !.phase = "queued", !.attempt = run[r].attempt + 1]]
    /\ UNCHANGED <<engine, active, kind, row, born, todo, readd, slots, upsets>>

--------------------------------------------------------------------------------
(* The engine: start with crash recovery, stop, crash. *)

\* Mutant: recovery takes up the failed attempts too.
EngineStartTakesFailed ==
    /\ engine = "off"
    /\ engine' = "starting"
    /\ slots' \in SlotCounts
    /\ \E cutoff \in 0 .. Cardinality(Keys) :
         todo' = {k \in Keys : row[k] \in {"running", "failed"} /\ born[k] <= cutoff}
    /\ UNCHANGED <<active, kind, run, row, born, readd, upsets>>

\* start() makes the semaphore with the number of slots it is given, then takes one
\* snapshot of the RUNNING rows that are older than the recovery timeout, while nothing
\* of this engine runs yet.
EngineStart ==
    /\ engine = "off"
    /\ engine' = "starting"
    /\ slots' \in SlotCounts
    /\ \E cutoff \in 0 .. Cardinality(Keys) :
         todo' = {k \in Keys : row[k] = "running" /\ born[k] <= cutoff}
    /\ UNCHANGED <<active, kind, run, row, born, readd, upsets>>

\* Mutant: the recovered row is left as it was.
RecoverUnmarked(k) ==
    /\ engine = "starting" /\ readd = {} /\ k \in todo
    /\ todo'  = todo \ {k}
    /\ readd' = {k[1]}
    /\ UNCHANGED <<engine, active, kind, run, row, born, slots, upsets>>

RecoverMark(k) ==
    /\ engine = "starting" /\ readd = {} /\ k \in todo
    /\ SetStatus(k, "crashed")
    /\ todo'  = todo \ {k}
    /\ readd' = {k[1]}
    /\ UNCHANGED <<engine, active, kind, run, born, slots, upsets>>

\* Mutant: _enqueue_recovery_job without _on_run_enqueued.
RecoverUncounted(r) ==
    /\ engine = "starting" /\ r \in readd /\ r[3] < MaxUpsets
    /\ readd' = {}
    /\ run' = [run EXCEPT ![<<r[1], r[2], r[3] + 1>>] = NewRun]
    /\ UNCHANGED <<engine, active, kind, row, born, todo, slots, upsets>>

RecoverEnqueue(r) ==
    /\ engine = "starting" /\ r \in readd /\ r[3] < MaxUpsets
    /\ readd' = {}
    /\ run' = [run EXCEPT ![<<r[1], r[2], r[3] + 1>>] = NewRun]
    /\ active' = active + 1
    /\ UNCHANGED <<engine, kind, row, born, todo, slots, upsets>>

\* add_job raises: logged, and the delivery is lost.
RecoverEnqueueFails(r) ==
    /\ "db" \in Faults
    /\ engine = "starting" /\ r \in readd
    /\ readd' = {}
    /\ UNCHANGED <<engine, active, kind, run, row, born, todo, slots, upsets>>

StartDone ==
    /\ engine = "starting" /\ todo = {} /\ readd = {}
    /\ engine' = "on"
    /\ UNCHANGED <<active, kind, run, row, born, todo, readd, slots, upsets>>

\* mark_crashed raises: start() rolls back.
StartAborts ==
    /\ "db" \in Faults
    /\ engine = "starting" /\ upsets < MaxUpsets
    /\ upsets' = upsets + 1
    /\ engine' = "rollback"
    /\ todo' = {} /\ readd' = {}
    /\ UNCHANGED <<active, kind, run, row, born, slots>>

\* stop() waits until the engine is idle or 30 s are over.  Until it goes on to
\* shut the scheduler down, also right after the wake-up, events are accepted.
Stop ==
    /\ engine = "on" /\ upsets < MaxUpsets
    /\ upsets' = upsets + 1
    /\ engine' = "draining"
    /\ UNCHANGED <<active, kind, run, row, born, todo, readd, slots>>

DrainEnds ==
    /\ engine = "draining"
    /\ active = 0 \/ DrainTimesOut
    /\ engine' = "woken"
    /\ UNCHANGED <<active, kind, run, row, born, todo, readd, slots, upsets>>

\* Nothing of the engine's tasks and jobs is left; the tables stay.
GoDown ==
    /\ engine' = "off"
    /\ active' = 0
    /\ run' = [r \in Runs |-> IF Live(r) THEN [run[r] EXCEPT !.phase = "gone"] ELSE run[r]]
    /\ todo' = {} /\ readd' = {} /\ slots' = 0
    /\ UNCHANGED <<kind, row, born>>

Shutdown ==
    /\ engine \in {"woken", "rollback"}
    /\ GoDown
    /\ UNCHANGED upsets

Crash ==
    /\ "crash" \in Faults
    /\ Alive /\ upsets < MaxUpsets
    /\ upsets' = upsets + 1
    /\ GoDown

--------------------------------------------------------------------------------
Body(r) == BodyEmits(r) \/ BodyEmitRefused(r) \/ BodyReturns(r)
Wait(r) == WaitReturns(r) \/ WaitTimesOut(r)
Mark(r) == MarkSuccess(r) \/ MarkFailed(r) \/ MarkDeadLetter(r)

Work(r) ==
    \/ StartAttempt(r) \/ StartFails(r)
    \/ Body(r) \/ BodyRaises(r) \/ Wait(r)
    \/ Mark(r) \/ MarkRaises(r)
    \/ RetryAttempt(r)

Recover ==
    \/ \E k \in Keys : RecoverMark(k)
    \/ \E r \in Runs : RecoverEnqueue(r) \/ RecoverEnqueueFails(r)

Life == EngineStart \/ Recover \/ StartDone \/ StartAborts \/ Stop \/ DrainEnds \/ Shutdown \/ Crash

Next ==
    \/ \E k \in Kinds : Emit(k)
    \/ \E r \in Runs : Work(r)
    \/ Life

Spec == Init /\ [][Next]_vars

\* The event loop runs every task that can run, the semaphore serves its waiters
\* in order, bodies end (their clients have timeouts), waits and sleeps run out.
\* A run can take one of these steps at a time, so fairness of all is that of each.
Fairness ==
    \A r \in Runs :
        WF_vars(StartAttempt(r) \/ Body(r) \/ Wait(r) \/ Mark(r) \/ RetryAttempt(r))

FairSpec == Spec /\ Fairness

--------------------------------------------------------------------------------
RunType == [phase : LivePhases \cup {"none", "done", "dead", "gone"},
            attempt : Attempts, child : 0 .. MaxEvents]

\* Every variable has the type its column, field or task state has in the code.
TypeOK ==
    /\ engine \in EngineStates
    /\ active \in Nat
    /\ kind  \in [Events -> Kinds \cup {NoKind}]
    /\ run   \in [Runs -> RunType]
    /\ row   \in [Keys -> RowStatuses]
    /\ born  \in [Keys -> Nat]
    /\ todo  \in SUBSET Keys
    /\ readd \in SUBSET Runs
    /\ slots \in Nat
    /\ upsets \in Nat

--------------------------------------------------------------------------------
(* Safety. *)

\* The in-flight count, which stop() and wait_idle trust, is the number of runs
\* that are enqueued or at work: no failure, retry, dead letter, recovery or
\* refused enqueue leaks a unit or gives one back twice.
ActiveExact ==
    Alive => active = Cardinality({r \in Runs : Live(r)})

\* A run is open while it may still be worked on, now or after a recovery.
Open(r) ==
    \/ Live(r) \/ r \in readd
    \/ \E a \in Attempts : row[<<r, a>>] = "running" \/ <<r, a>> \in todo

\* A delivery has one open run at most, and none once it has an outcome: retries,
\* crashes, restarts and lost marks never make a strategy handle one event in two
\* runs at once, or again after it was settled.
OneOpenRun ==
    \A r, q \in Runs :
        DeliveryOf(r) = DeliveryOf(q) /\ Open(r) =>
            /\ Open(q) => r = q
            /\ run[q].phase \notin {"done", "dead"}

--------------------------------------------------------------------------------
(* What the engine is for: Delivery.tla. *)

StateOf(d) ==
    LET runs == {r \in Runs : DeliveryOf(r) = d} IN
    IF \E r \in runs : Live(r) THEN "active"
    ELSE IF \E r \in runs : Open(r) THEN "held"
    ELSE IF \E r \in runs : run[r].phase \in {"done", "dead"} THEN "settled"
    ELSE IF \E r \in runs : run[r].phase = "gone" THEN "lost"
    ELSE "none"

Deliver == INSTANCE Delivery WITH state <- [d \in Deliveries |-> StateOf(d)]

\* A delivery is accepted once; a held one is taken up again or lost; a settled
\* and a lost one stay so, through every stop, crash and recovery.
ImplementsDelivery == Deliver!Spec

--------------------------------------------------------------------------------
(* Liveness. *)

\* No run stays in the engine forever, although a waiting strategy keeps
\* its slot and the run it waits for may need it: the deadline of the wait breaks
\* the circle.
RunsEnd == \A r \in Runs : []<>~Live(r)

================================================================================
