--------------------------- MODULE OfflineEngineProofs ---------------------------
(***************************************************************************)
(* Proofs about OfflineEngine.tla, for every set of events, strategies and *)
(* routes, any number of slots, retries, stops and crashes: the in-flight  *)
(* count is exact, a delivery has one open run, and the engine delivers as *)
(* Delivery.tla allows.                                                    *)
(***************************************************************************)
EXTENDS OfflineEngine, FiniteSetTheorems, TLAPS

--------------------------------------------------------------------------------
(* Finite sets, and type correctness. *)

LEMMA FiniteSpace ==
    /\ IsFiniteSet(Runs) /\ IsFiniteSet(Keys)
    /\ \A S \in SUBSET Runs : IsFiniteSet(S) /\ Cardinality(S) \in Nat
    /\ \A S \in SUBSET Keys : IsFiniteSet(S) /\ Cardinality(S) \in Nat
<1> USE TopologyAssumption, EngineAssumption
<1>1. IsFiniteSet(Events) /\ IsFiniteSet(0 .. MaxUpsets) /\ IsFiniteSet(Attempts)
  BY FS_Interval DEF Events, Attempts
<1>2. IsFiniteSet(Events \X Strategies)
  BY <1>1, FS_Product
<1>3. IsFiniteSet((Events \X Strategies) \X (0 .. MaxUpsets))
  BY <1>1, <1>2, FS_Product
<1> DEFINE triple == [p \in (Events \X Strategies) \X (0 .. MaxUpsets) |-> <<p[1][1], p[1][2], p[2]>>]
<1>4. triple \in Surjection((Events \X Strategies) \X (0 .. MaxUpsets), Runs)
  <2>1. triple \in [(Events \X Strategies) \X (0 .. MaxUpsets) -> Runs]
    BY DEF Runs
  <2>2. \A r \in Runs : <<<<r[1], r[2]>>, r[3]>> \in (Events \X Strategies) \X (0 .. MaxUpsets)
                        /\ triple[<<<<r[1], r[2]>>, r[3]>>] = r
    BY DEF Runs
  <2> QED BY <2>1, <2>2 DEF Surjection
<1>5. IsFiniteSet(Runs)
  BY <1>3, <1>4, FS_Surjection
<1>6. IsFiniteSet(Keys)
  BY <1>1, <1>5, FS_Product DEF Keys
<1> QED BY <1>5, <1>6, FS_Subset, FS_CardinalityType

LEMMA InsertType ==
    ASSUME TypeOK, NEW k \in Keys, InsertRunning(k)
    PROVE  row' \in [Keys -> RowStatuses] /\ born' \in [Keys -> Nat]
<1>1. row' \in [Keys -> RowStatuses]
  BY DEF InsertRunning, TypeOK, RowStatuses
<1>2. Cardinality({i \in Keys : born[i] # 0}) \in Nat
  BY FiniteSpace
<1> QED BY <1>1, <1>2 DEF InsertRunning, TypeOK

LEMMA KeyType ==
    ASSUME TypeOK, NEW r \in Runs
    PROVE  Key(r) \in Keys
BY DEF Key, Keys, TypeOK, RunType

LEMMA CompletedType ==
    ASSUME TypeOK, Completed
    PROVE  active' \in Nat
BY DEF TypeOK, Completed

LEMMA GotoType ==
    ASSUME TypeOK, NEW r \in Runs, NEW phase \in LivePhases \cup {"none", "done", "dead", "gone"},
           Goto(r, phase)
    PROVE  run' \in [Runs -> RunType]
BY DEF TypeOK, Goto, RunType

LEMMA EnqueuedType ==
    ASSUME TypeOK, NEW e \in Events, NEW reached
    PROVE  Enqueued(e, reached) \in [Runs -> RunType]
<1>1. NewRun \in RunType
  BY TopologyAssumption, EngineAssumption DEF NewRun, NoRun, RunType, LivePhases, Attempts
<1> QED BY <1>1 DEF Enqueued, TypeOK

LEMMA DispatchType ==
    ASSUME TypeOK, NEW e, NEW k \in Kinds, NEW reached \in Reachable(k), Dispatch(e, k, reached)
    PROVE  kind' \in [Events -> Kinds \cup {NoKind}] /\ active' \in Nat
<1>1. reached \in SUBSET Strategies
  BY TopologyAssumption DEF Reachable
<1>2. Cardinality(reached) \in Nat
  BY <1>1, TopologyAssumption, FS_Subset, FS_CardinalityType
<1> QED BY <1>2 DEF Dispatch, TypeOK

\* A run that waits for its retry has one left.
RetriesLeft == \A r \in Runs : run[r].phase = "backoff" => run[r].attempt < MaxRetries

LEMMA WorkTypes ==
    ASSUME TypeOK, RetriesLeft, NEW r \in Runs, Work(r)
    PROVE  TypeOK'
<1> USE DEF TypeOK
<1>1. CASE StartAttempt(r)
  <2>1. run' = [run EXCEPT ![r] = [run[r] EXCEPT !.phase = "body", !.child = 0]]
    BY <1>1 DEF StartAttempt
  <2>2. [run[r] EXCEPT !.phase = "body", !.child = 0] \in RunType
    <3>1. run[r] \in RunType
      OBVIOUS
    <3>2. 0 \in 0 .. MaxEvents /\ "body" \in LivePhases
      BY EngineAssumption DEF LivePhases
    <3> HIDE DEF TypeOK
    <3> QED BY <3>1, <3>2 DEF RunType
  <2>3. run' \in [Runs -> RunType]
    BY <2>1, <2>2
  <2> QED BY <1>1, <2>3, KeyType, InsertType DEF StartAttempt
<1>2. CASE StartFails(r)
  BY <1>2, GotoType, CompletedType DEF StartFails, Finish
<1>3. CASE BodyEmits(r)
  <2>1. Emits[r[2]] \in Kinds
    BY <1>3, TopologyAssumption DEF BodyEmits, Runs
  <2>2. PICK e \in Events, reached \in Reachable(Emits[r[2]]) :
            /\ Dispatch(e, Emits[r[2]], reached)
            /\ run' = [Enqueued(e, reached) EXCEPT ![r] =
                         [@ EXCEPT !.child = e,
                                   !.phase = IF reached # Routes[Emits[r[2]]] THEN "bad"
                                             ELSE IF r[2] \in Waiters THEN "waiting"
                                             ELSE "body"]]
    BY <1>3 DEF BodyEmits
  <2>3. Enqueued(e, reached) \in [Runs -> RunType]
    BY EnqueuedType
  <2>4. e \in 0 .. MaxEvents
    BY EngineAssumption DEF Events
  <2> DEFINE old == Enqueued(e, reached)
             phase == IF reached # Routes[Emits[r[2]]] THEN "bad"
                      ELSE IF r[2] \in Waiters THEN "waiting" ELSE "body"
  <2>5. phase \in LivePhases
    BY DEF LivePhases
  <2>6. run' = [old EXCEPT ![r] = [old[r] EXCEPT !.child = e, !.phase = phase]]
    BY <2>2
  <2> HIDE DEF old, phase
  <2>7. old \in [Runs -> RunType]
    BY <2>3 DEF old
  <2>8. [old[r] EXCEPT !.child = e, !.phase = phase] \in RunType
    BY <2>4, <2>5, <2>7 DEF RunType
  <2>9. run' \in [Runs -> RunType]
    BY <2>6, <2>7, <2>8
  <2> QED BY <1>3, <2>1, <2>2, <2>9, DispatchType DEF BodyEmits
<1>4. CASE BodyEmitRefused(r) \/ BodyReturns(r) \/ BodyRaises(r) \/ Wait(r)
  BY <1>4, GotoType
  DEF BodyEmitRefused, BodyReturns, BodyRaises, Wait, WaitReturns, WaitTimesOut, LivePhases
<1>5. CASE Mark(r) \/ MarkRaises(r)
  <2>1. run' \in [Runs -> RunType]
    BY <1>5, GotoType
    DEF Mark, MarkSuccess, MarkFailed, MarkDeadLetter, MarkRaises, Finish, LivePhases
  <2>2. active' \in Nat
    BY <1>5, CompletedType DEF Mark, MarkSuccess, MarkFailed, MarkDeadLetter, MarkRaises, Finish
  <2>3. row' \in [Keys -> RowStatuses]
    BY <1>5 DEF Mark, MarkSuccess, MarkFailed, MarkDeadLetter, MarkRaises, SetStatus, RowStatuses
  <2> QED BY <1>5, <2>1, <2>2, <2>3 DEF Mark, MarkSuccess, MarkFailed, MarkDeadLetter, MarkRaises
<1>6. CASE RetryAttempt(r)
  <2>1. run[r].attempt + 1 \in Attempts
    BY <1>6, EngineAssumption DEF RetryAttempt, RetriesLeft, RunType, Attempts
  <2>2. [run[r] EXCEPT !.phase = "queued", !.attempt = run[r].attempt + 1] \in RunType
    BY <2>1 DEF RunType, LivePhases
  <2>3. run' = [run EXCEPT ![r] = [run[r] EXCEPT !.phase = "queued", !.attempt = run[r].attempt + 1]]
    BY <1>6 DEF RetryAttempt
  <2>4. run' \in [Runs -> RunType]
    BY <2>2, <2>3
  <2> QED BY <1>6, <2>4 DEF RetryAttempt
<1> QED BY <1>1, <1>2, <1>3, <1>4, <1>5, <1>6 DEF Work, Body

LEMMA LifeTypes ==
    ASSUME TypeOK, Life
    PROVE  TypeOK'
<1> USE DEF TypeOK
<1>1. CASE EngineStart
  BY <1>1, EngineAssumption DEF EngineStart, EngineStates
<1>2. ASSUME NEW k \in Keys, RecoverMark(k)
      PROVE  TypeOK'
  BY <1>2 DEF RecoverMark, SetStatus, RowStatuses, Keys
<1>3. ASSUME NEW r \in Runs, RecoverEnqueue(r)
      PROVE  TypeOK'
  <2>1. NewRun \in RunType
    BY EngineAssumption DEF NewRun, NoRun, RunType, LivePhases, Attempts
  <2>2. run' \in [Runs -> RunType]
    BY <1>3, <2>1 DEF RecoverEnqueue
  <2>3. active' \in Nat /\ readd' = {}
    BY <1>3 DEF RecoverEnqueue
  <2> QED BY <1>3, <2>2, <2>3 DEF RecoverEnqueue
<1>4. ASSUME NEW r \in Runs, RecoverEnqueueFails(r)
      PROVE  TypeOK'
  BY <1>4 DEF RecoverEnqueueFails
<1>5. CASE StartDone \/ StartAborts \/ Stop \/ DrainEnds
  BY <1>5 DEF StartDone, StartAborts, Stop, DrainEnds, EngineStates
<1>6. CASE Shutdown \/ Crash
  <2>1. \A r \in Runs : [run[r] EXCEPT !.phase = "gone"] \in RunType
    BY DEF RunType
  <2>2. GoDown => run' \in [Runs -> RunType]
    BY <2>1 DEF GoDown
  <2> QED BY <1>6, <2>2 DEF Shutdown, Crash, GoDown, EngineStates
<1> QED BY <1>1, <1>2, <1>3, <1>4, <1>5, <1>6 DEF Life, Recover

LEMMA EmitTypes ==
    ASSUME TypeOK, NEW k \in Kinds, Emit(k)
    PROVE  TypeOK'
<1>1. PICK e \in Events, reached \in Reachable(k) :
          Dispatch(e, k, reached) /\ run' = Enqueued(e, reached)
  BY DEF Emit
<1> QED BY <1>1, EnqueuedType, DispatchType DEF Emit, TypeOK

--------------------------------------------------------------------------------
(* The invariant. *)

Ended == {"done", "dead", "gone"}
Before(q, r) == DeliveryOf(q) = DeliveryOf(r) /\ q[3] < r[3]

\* Nothing is known of an event before it is emitted, nor of a run before it is enqueued.
Unborn ==
    \A r \in Runs :
        /\ kind[r[1]] = NoKind => run[r].phase = "none"
        /\ run[r].phase = "none" => ~Open(r)

\* A run has one RUNNING row at most, that of its present or last attempt, and none between
\* two attempts or once it has an outcome.
RunningExact ==
    \A r \in Runs, a \in Attempts : row[<<r, a>>] = "running" =>
        a = run[r].attempt /\ run[r].phase \in SlotPhases \cup {"gone"}

\* What recovery still has to treat are last attempts of dead runs, and the run it is treating
\* has nothing left that could be recovered once more.
TodoExact ==
    \A k \in todo : /\ k[2] = run[k[1]].attempt /\ run[k[1]].phase = "gone"
                     /\ row[k] \in {"running", "none"}
ReaddExact ==
    \A r \in readd : /\ readd = {r} /\ run[r].phase = "gone"
                      /\ \A a \in Attempts : row[<<r, a>>] # "running" /\ <<r, a>> \notin todo

\* A run is taken up by the next one only when it is gone for good.
Generations ==
    \A q, r \in Runs : Before(q, r) /\ run[r].phase # "none" => run[q].phase = "gone" /\ ~Open(q)

\* Recovery belongs to start(), and a dead engine has no tasks.
EngineOwns ==
    /\ engine = "off" => \A r \in Runs : ~Live(r)
    /\ engine # "starting" => todo = {} /\ readd = {}

RunsInv ==
    /\ TypeOK /\ RetriesLeft
    /\ Unborn /\ RunningExact /\ TodoExact /\ ReaddExact /\ Generations /\ EngineOwns

CountExact == active = Cardinality({r \in Runs : Live(r)})

\* A live run is open, is not in the hands of recovery, and no later run has taken it up.
LEMMA LiveIsLast ==
    ASSUME RunsInv, NEW r \in Runs, Live(r)
    PROVE  /\ Open(r) /\ engine # "off" /\ r \notin readd
           /\ \A k \in todo : k[1] # r
           /\ \A q \in Runs : Before(r, q) => run[q].phase = "none"
<1>1. Open(r)
  BY DEF Open
<1>2. run[r].phase # "gone"
  BY DEF Live, LivePhases
<1> QED BY <1>1, <1>2 DEF RunsInv, EngineOwns, ReaddExact, TodoExact, Generations

\* Attempts: a step of the tasks of one live run.
LEMMA OneRunMoves ==
    ASSUME RunsInv, TypeOK', NEW r \in Runs, Live(r),
           UNCHANGED <<engine, kind, todo, readd>>,
           \A q \in Runs \ {r} : run'[q] = run[q],
           run'[r].phase # "none",
           run'[r].phase = "backoff" => run'[r].attempt < MaxRetries,
           \A q \in Runs \ {r}, a \in Attempts : row'[<<q, a>>] \in {row[<<q, a>>], "none"},
           \A a \in Attempts : row'[<<r, a>>] = "running" =>
               a = run'[r].attempt /\ run'[r].phase \in SlotPhases \cup {"gone"}
    PROVE  RunsInv'
<1> Unborn /\ RunningExact /\ TodoExact /\ ReaddExact /\ Generations /\ EngineOwns /\ RetriesLeft
  BY DEF RunsInv
<1>1. /\ engine # "off" /\ r \notin readd /\ run[r].phase # "none"
      /\ \A k \in todo : k[1] # r
      /\ \A q \in Runs : Before(r, q) => run[q].phase = "none"
  BY LiveIsLast DEF Live, LivePhases
<1>2. \A q \in Runs \ {r} : ~Open(q) => ~Open(q)'
  BY DEF Open, Live
<1>3. RetriesLeft'
  BY DEF RetriesLeft
<1>4. Unborn'
  BY <1>1, <1>2 DEF Unborn
<1>5. RunningExact'
  BY DEF RunningExact
<1>6. TodoExact'
  <2>1. \A k \in todo : k[1] \in Runs \ {r} /\ k[2] \in Attempts /\ k = <<k[1], k[2]>>
    BY <1>1 DEF RunsInv, TypeOK, Keys
  <2> QED BY <2>1 DEF TodoExact
<1>7. ReaddExact'
  <2>1. \A q \in readd : q \in Runs \ {r}
    BY <1>1 DEF RunsInv, TypeOK
  <2> QED BY <2>1 DEF ReaddExact
<1>8. Generations'
  <2> SUFFICES ASSUME NEW q \in Runs, NEW s \in Runs, Before(q, s), run'[s].phase # "none"
               PROVE  run'[q].phase = "gone" /\ ~Open(q)'
    BY DEF Generations, Before, DeliveryOf
  <2>1. run[s].phase # "none"
    BY <1>1
  <2>2. q # r
    BY <1>1, <2>1
  <2> QED BY <1>2, <2>1, <2>2 DEF Generations
<1>9. EngineOwns'
  BY <1>1 DEF EngineOwns
<1> QED BY <1>3, <1>4, <1>5, <1>6, <1>7, <1>8, <1>9 DEF RunsInv

LEMMA GotoMoves ==
    ASSUME TypeOK, NEW r \in Runs, NEW phase, Goto(r, phase)
    PROVE  /\ run'[r].phase = phase /\ run'[r].attempt = run[r].attempt
           /\ \A q \in Runs \ {r} : run'[q] = run[q]
BY DEF TypeOK, Goto, RunType

LEMMA SetStatusMoves ==
    ASSUME TypeOK, NEW r \in Runs, NEW status, status # "running", SetStatus(Key(r), status)
    PROVE  /\ \A q \in Runs \ {r}, a \in Attempts : row'[<<q, a>>] = row[<<q, a>>]
           /\ \A a \in Attempts : row'[<<r, a>>] = "running" =>
                  row[<<r, a>>] = "running" /\ a # run[r].attempt
<1>1. row' = [row EXCEPT ![Key(r)] = IF row[Key(r)] = "none" THEN "none" ELSE status]
  BY DEF SetStatus
<1>2. \A k \in Keys : IF k = Key(r) THEN row'[k] \in {"none", status} ELSE row'[k] = row[k]
  BY <1>1 DEF TypeOK
<1>3. \A q \in Runs, a \in Attempts :
          <<q, a>> \in Keys /\ (<<q, a>> = Key(r) <=> q = r /\ a = run[r].attempt)
  BY DEF Keys, Key
<1> QED BY <1>2, <1>3

LEMMA InsertMoves ==
    ASSUME TypeOK, NEW r \in Runs, InsertRunning(Key(r))
    PROVE  /\ \A q \in Runs \ {r}, a \in Attempts : row'[<<q, a>>] \in {row[<<q, a>>], "none"}
           /\ \A a \in Attempts : row'[<<r, a>>] = "running" =>
                  row[<<r, a>>] = "running" \/ a = run[r].attempt
           /\ row'[Key(r)] = "running"
<1>1. \A q \in Runs, a \in Attempts : <<q, a>> \in Keys
  BY DEF Keys
<1> DEFINE Trimmed(j) == /\ row[j] # "none" /\ j[1][2] = Key(r)[1][2]
                         /\ Cardinality(Newer(j, Key(r))) >= MaxRecords
<1>2. row' = [j \in Keys |-> IF j = Key(r) THEN "running" ELSE IF Trimmed(j) THEN "none" ELSE row[j]]
  BY DEF InsertRunning
<1> HIDE DEF Trimmed
<1>4. \A j \in Keys : IF j = Key(r) THEN row'[j] = "running" ELSE row'[j] \in {row[j], "none"}
  BY <1>2
<1>3. Key(r) \in Keys
  BY KeyType
<1> QED BY <1>1, <1>3, <1>4 DEF Key

\* Between two attempts no row of the run is RUNNING; during one, only its own.
LEMMA OwnRow ==
    ASSUME RunsInv, NEW r \in Runs, NEW a \in Attempts, row[<<r, a>>] = "running"
    PROVE  a = run[r].attempt /\ run[r].phase \in SlotPhases \cup {"gone"}
BY DEF RunsInv, RunningExact

LEMMA WorkKeepsInv ==
    ASSUME RunsInv, TypeOK', NEW r \in Runs, Work(r), ~BodyEmits(r)
    PROVE  RunsInv'
<1> TypeOK
  BY DEF RunsInv
<1> USE OwnRow
<1>1. CASE StartAttempt(r)
  <2>1. run'[r].phase = "body" /\ run'[r].attempt = run[r].attempt /\ run[r].phase = "queued"
    BY <1>1 DEF StartAttempt, TypeOK, RunType
  <2>2. \A q \in Runs \ {r} : run'[q] = run[q]
    BY <1>1 DEF StartAttempt, TypeOK
  <2>3. UNCHANGED <<engine, kind, todo, readd>> /\ InsertRunning(Key(r))
    BY <1>1 DEF StartAttempt
  <2> QED BY <2>1, <2>2, <2>3, InsertMoves, OneRunMoves DEF Live, LivePhases, SlotPhases
<1>2. CASE StartFails(r)
  <2>1. run[r].phase = "queued" /\ Goto(r, "gone") /\ UNCHANGED <<engine, kind, row, todo, readd>>
    BY <1>2 DEF StartFails, Finish
  <2> QED BY <2>1, GotoMoves, OneRunMoves DEF Live, LivePhases, SlotPhases
<1>3. ASSUME NEW phase \in SlotPhases, run[r].phase \in SlotPhases, Goto(r, phase),
             UNCHANGED <<engine, kind, row, todo, readd>>
      PROVE  RunsInv'
  BY <1>3, GotoMoves, OneRunMoves DEF Live, LivePhases, SlotPhases
<1>4. CASE BodyEmitRefused(r) \/ BodyReturns(r) \/ BodyRaises(r)
  BY <1>3, <1>4 DEF BodyEmitRefused, BodyReturns, BodyRaises, SlotPhases
<1>5. CASE Wait(r)
  BY <1>3, <1>5 DEF Wait, WaitReturns, WaitTimesOut, SlotPhases
<1>6. ASSUME NEW phase \in {"done", "dead", "backoff"}, run[r].phase \in SlotPhases,
             phase = "backoff" => run[r].attempt < MaxRetries,
             Goto(r, phase), NEW status, status # "running", SetStatus(Key(r), status),
             UNCHANGED <<engine, kind, todo, readd>>
      PROVE  RunsInv'
  BY <1>6, GotoMoves, SetStatusMoves, OneRunMoves DEF Live, LivePhases, SlotPhases
<1>7. CASE Mark(r)
  <2>1. CASE MarkSuccess(r)
    BY <1>6, <2>1 DEF MarkSuccess, Finish, SlotPhases
  <2>2. CASE MarkFailed(r)
    BY <1>6, <2>2 DEF MarkFailed, SlotPhases
  <2>3. CASE MarkDeadLetter(r)
    BY <1>6, <2>3 DEF MarkDeadLetter, Finish, SlotPhases
  <2> QED BY <1>7, <2>1, <2>2, <2>3 DEF Mark
<1>8. CASE MarkRaises(r)
  <2>1. /\ run[r].phase \in SlotPhases /\ Goto(r, "gone")
        /\ UNCHANGED <<engine, kind, row, todo, readd>>
    BY <1>8 DEF MarkRaises, Finish, SlotPhases
  <2> QED BY <2>1, GotoMoves, OneRunMoves DEF Live, LivePhases, SlotPhases
<1>9. CASE RetryAttempt(r)
  <2>1. run'[r].phase = "queued" /\ run[r].phase = "backoff"
    BY <1>9 DEF RetryAttempt, TypeOK, RunType
  <2>2. \A q \in Runs \ {r} : run'[q] = run[q]
    BY <1>9 DEF RetryAttempt, TypeOK
  <2>3. UNCHANGED <<engine, kind, row, todo, readd>>
    BY <1>9 DEF RetryAttempt
  <2> QED BY <2>1, <2>2, <2>3, OneRunMoves DEF Live, LivePhases, SlotPhases
<1> QED BY <1>1, <1>2, <1>4, <1>5, <1>7, <1>8, <1>9 DEF Work, Body

\* Dispatch: the first runs of an event that nobody knew, and perhaps a step of its emitter.
LEMMA DispatchKeepsInv ==
    ASSUME RunsInv, TypeOK', Accepts, NEW e \in Events, NEW k \in Kinds,
           kind[e] = NoKind, kind' = [kind EXCEPT ![e] = k],
           UNCHANGED <<engine, row, todo, readd>>,
           \A q \in Runs :
               \/ q[1] = e /\ q[3] = 0 /\ run'[q].phase = "queued"
               \/ /\ run'[q].attempt = run[q].attempt
                  /\ run'[q].phase = run[q].phase \/ {run[q].phase, run'[q].phase} \subseteq SlotPhases
    PROVE  RunsInv'
<1> Unborn /\ RunningExact /\ TodoExact /\ ReaddExact /\ Generations /\ EngineOwns /\ RetriesLeft
  BY DEF RunsInv
<1>1. /\ engine \notin {"off", "starting"} /\ todo = {} /\ readd = {}
      /\ todo' = {} /\ readd' = {} /\ engine' \notin {"off", "starting"}
  BY DEF Accepts, EngineOwns
<1>2. k # NoKind /\ kind'[e] = k /\ \A d \in Events \ {e} : kind'[d] = kind[d]
  BY TopologyAssumption DEF RunsInv, TypeOK
<1>3. \A q \in Runs : q[1] \in Events /\ q[3] \in 0 .. MaxUpsets
  BY DEF Runs
<1>4. \A q \in Runs : q[1] = e => /\ run[q].phase = "none"
                                  /\ \A a \in Attempts : row[<<q, a>>] # "running"
  BY DEF Unborn, Open
<1>5. \A q \in Runs : q[1] # e =>
          /\ run'[q].attempt = run[q].attempt
          /\ run'[q].phase = run[q].phase \/ {run[q].phase, run'[q].phase} \subseteq SlotPhases
  OBVIOUS
<1>6. \A q \in Runs : q[1] = e => run'[q].phase = "none" \/ q[3] = 0
  BY <1>4 DEF SlotPhases
<1>7. \A q \in Runs : ~Live(q) /\ q[1] # e => run'[q].phase = run[q].phase /\ ~Live(q)'
  BY <1>5 DEF Live, LivePhases, SlotPhases
<1>8. RetriesLeft'
  BY <1>5, <1>4 DEF RetriesLeft, SlotPhases
<1>9. Unborn'
  <2> SUFFICES ASSUME NEW q \in Runs
               PROVE  /\ kind'[q[1]] = NoKind => run'[q].phase = "none"
                      /\ run'[q].phase = "none" => ~Open(q)'
    BY DEF Unborn
  <2>1. kind'[q[1]] = NoKind => run'[q].phase = "none"
    BY <1>2, <1>3, <1>5 DEF Unborn, SlotPhases
  <2>2. run'[q].phase = "none" => run[q].phase = "none"
    BY <1>4, <1>5 DEF SlotPhases
  <2>3. run'[q].phase = "none" => ~Live(q)'
    BY DEF Live, LivePhases
  <2> QED BY <1>1, <2>1, <2>2, <2>3 DEF Unborn, Open
<1>10. RunningExact'
  BY <1>4, <1>5 DEF RunningExact, SlotPhases
<1>11. Generations'
  <2> SUFFICES ASSUME NEW q \in Runs, NEW r \in Runs, Before(q, r), run'[r].phase # "none"
               PROVE  run'[q].phase = "gone" /\ ~Open(q)'
    BY DEF Generations, Before, DeliveryOf
  <2>1. q[1] = r[1] /\ q[3] < r[3]
    BY DEF Before, DeliveryOf
  <2>2. r[1] # e
    BY <1>3, <1>6, <2>1
  <2>3. run[r].phase # "none"
    BY <1>5, <2>2 DEF SlotPhases
  <2>4. run[q].phase = "gone" /\ ~Open(q)
    BY <2>3 DEF Generations
  <2>5. run'[q].phase = "gone" /\ ~Live(q)'
    BY <1>7, <2>1, <2>2, <2>4 DEF Open
  <2> QED BY <1>1, <2>4, <2>5 DEF Open
<1>12. TodoExact' /\ ReaddExact' /\ EngineOwns'
  BY <1>1 DEF TodoExact, ReaddExact, EngineOwns
<1> QED BY <1>8, <1>9, <1>10, <1>11, <1>12 DEF RunsInv

LEMMA EmitKeepsInv ==
    ASSUME RunsInv, TypeOK', NEW k \in Kinds, Emit(k)
    PROVE  RunsInv'
<1>1. PICK e \in Events, reached \in Reachable(k) :
          Dispatch(e, k, reached) /\ run' = Enqueued(e, reached)
  BY DEF Emit
<1>2. \A q \in Runs : \/ q[1] = e /\ q[3] = 0 /\ run'[q].phase = "queued"
                      \/ run'[q] = run[q]
  BY <1>1 DEF Enqueued, NewRun, NoRun
<1>3. \A q \in Runs :
          \/ q[1] = e /\ q[3] = 0 /\ run'[q].phase = "queued"
          \/ /\ run'[q].attempt = run[q].attempt
             /\ run'[q].phase = run[q].phase \/ {run[q].phase, run'[q].phase} \subseteq SlotPhases
  BY <1>2
<1>4. kind[e] = NoKind /\ kind' = [kind EXCEPT ![e] = k]
  BY <1>1 DEF Dispatch
<1>5. Accepts /\ UNCHANGED <<engine, row, todo, readd>>
  BY DEF Emit
<1> QED BY <1>3, <1>4, <1>5, DispatchKeepsInv

\* What a body that emits does: the dispatch, and its own step to another phase of its slot.
LEMMA BodyEmitsMoves ==
    ASSUME RunsInv, NEW r \in Runs, BodyEmits(r)
    PROVE  \E e \in Events, k \in Kinds, phase \in SlotPhases : \E reached \in Reachable(k) :
               /\ Accepts /\ Dispatch(e, k, reached) /\ run[r].phase = "body" /\ r[1] # e
               /\ UNCHANGED <<engine, row, todo, readd>>
               /\ run'[r].phase = phase /\ run'[r].attempt = run[r].attempt
               /\ \A q \in Runs \ {r} : run'[q] = Enqueued(e, reached)[q]
<1> TypeOK
  BY DEF RunsInv
<1>1. Emits[r[2]] \in Kinds
  BY TopologyAssumption DEF BodyEmits, Runs
<1>2. PICK e \in Events, reached \in Reachable(Emits[r[2]]) :
          /\ Dispatch(e, Emits[r[2]], reached)
          /\ run' = [Enqueued(e, reached) EXCEPT ![r] =
                       [@ EXCEPT !.child = e,
                                 !.phase = IF reached # Routes[Emits[r[2]]] THEN "bad"
                                           ELSE IF r[2] \in Waiters THEN "waiting"
                                           ELSE "body"]]
  BY DEF BodyEmits
<1> DEFINE phase == IF reached # Routes[Emits[r[2]]] THEN "bad"
                    ELSE IF r[2] \in Waiters THEN "waiting" ELSE "body"
           old == Enqueued(e, reached)
<1>3. phase \in SlotPhases
  BY DEF SlotPhases
<1>4. run' = [old EXCEPT ![r] = [old[r] EXCEPT !.child = e, !.phase = phase]]
  BY <1>2
<1>5. run[r].phase = "body" /\ Accepts /\ UNCHANGED <<engine, row, todo, readd>>
  BY DEF BodyEmits
<1>6. r[1] # e
  BY <1>2, <1>5 DEF Dispatch, RunsInv, Unborn
<1>7. old[r] = run[r]
  BY <1>6 DEF Enqueued
<1>8. old \in [Runs -> RunType]
  BY EnqueuedType
<1> HIDE DEF phase, old
<1>9. run'[r] = [run[r] EXCEPT !.child = e, !.phase = phase] /\ \A q \in Runs \ {r} : run'[q] = old[q]
  BY <1>4, <1>7, <1>8
<1>10. run[r] \in RunType
  BY DEF TypeOK
<1>11. run'[r].phase = phase /\ run'[r].attempt = run[r].attempt
  BY <1>9, <1>10 DEF RunType
<1> QED BY <1>1, <1>2, <1>3, <1>5, <1>6, <1>9, <1>11 DEF old

LEMMA BodyEmitsKeepsInv ==
    ASSUME RunsInv, TypeOK', NEW r \in Runs, BodyEmits(r)
    PROVE  RunsInv'
<1>1. PICK e \in Events, k \in Kinds, phase \in SlotPhases : \E reached \in Reachable(k) :
          /\ Accepts /\ Dispatch(e, k, reached) /\ run[r].phase = "body" /\ r[1] # e
          /\ UNCHANGED <<engine, row, todo, readd>>
          /\ run'[r].phase = phase /\ run'[r].attempt = run[r].attempt
          /\ \A q \in Runs \ {r} : run'[q] = Enqueued(e, reached)[q]
  BY BodyEmitsMoves
<1>2. \A q \in Runs \ {r} : \/ q[1] = e /\ q[3] = 0 /\ run'[q].phase = "queued"
                            \/ run'[q] = run[q]
  BY <1>1 DEF Enqueued, NewRun, NoRun
<1>3. {run[r].phase, run'[r].phase} \subseteq SlotPhases
  BY <1>1 DEF SlotPhases
<1>4. kind[e] = NoKind /\ kind' = [kind EXCEPT ![e] = k]
  BY <1>1 DEF Dispatch
<1>5. \A q \in Runs :
          \/ q[1] = e /\ q[3] = 0 /\ run'[q].phase = "queued"
          \/ /\ run'[q].attempt = run[q].attempt
             /\ run'[q].phase = run[q].phase \/ {run[q].phase, run'[q].phase} \subseteq SlotPhases
  BY <1>1, <1>2, <1>3
<1> QED BY <1>1, <1>4, <1>5, DispatchKeepsInv

LEMMA LifeKeepsInv ==
    ASSUME RunsInv, TypeOK', Life
    PROVE  RunsInv'
<1> TypeOK /\ Unborn /\ RunningExact /\ TodoExact /\ ReaddExact /\ Generations /\ EngineOwns /\ RetriesLeft
  BY DEF RunsInv
<1>0. \A k \in Keys : k[1] \in Runs /\ k[2] \in Attempts /\ k = <<k[1], k[2]>>
  BY DEF Keys
<1>1. CASE EngineStart
  <2>1. /\ todo' \subseteq {k \in Keys : row[k] = "running"} /\ engine = "off"
        /\ engine' = "starting" /\ UNCHANGED <<kind, run, row, readd>>
    BY <1>1 DEF EngineStart
  <2>2. todo = {} /\ readd = {} /\ \A r \in Runs : ~Live(r)
    BY <2>1 DEF EngineOwns
  <2>3. \A r \in Runs : ~Open(r) => ~Open(r)'
    BY <1>0, <2>1 DEF Open, Live
  <2>4. TodoExact'
    <3> SUFFICES ASSUME NEW k \in todo'
                 PROVE  k[2] = run[k[1]].attempt /\ run[k[1]].phase = "gone" /\ row[k] = "running"
      BY <2>1 DEF TodoExact
    <3>1. k[1] \in Runs /\ k[2] \in Attempts /\ row[<<k[1], k[2]>>] = "running"
      BY <1>0, <2>1
    <3> QED BY <2>1, <2>2, <3>1 DEF RunningExact, Live, LivePhases, SlotPhases
  <2>5. Unborn' /\ RetriesLeft' /\ RunningExact'
    BY <2>1, <2>3 DEF Unborn, RetriesLeft, RunningExact
  <2>6. Generations'
    BY <2>1, <2>3 DEF Generations, Before, DeliveryOf
  <2>7. ReaddExact' /\ EngineOwns'
    BY <2>1, <2>2 DEF ReaddExact, EngineOwns
  <2> QED BY <2>4, <2>5, <2>6, <2>7 DEF RunsInv
<1>2. ASSUME NEW k \in Keys, RecoverMark(k)
      PROVE  RunsInv'
  <2>1. /\ engine = "starting" /\ readd = {} /\ k \in todo
        /\ todo' = todo \ {k} /\ readd' = {k[1]} /\ UNCHANGED <<engine, kind, run>>
    BY <1>2 DEF RecoverMark
  <2>2. /\ row'[k] # "running"
        /\ \A j \in Keys \ {k} : row'[j] = row[j]
    BY <1>2 DEF RecoverMark, SetStatus, TypeOK
  <2>3. \A j \in todo : j[1] = k[1] => j = k
    BY <1>0, <2>1 DEF TodoExact, TypeOK
  <2>4. \A r \in Runs, a \in Attempts : row'[<<r, a>>] = "running" => row[<<r, a>>] = "running"
    BY <2>2 DEF Keys
  <2>5. \A r \in Runs : ~Open(r) => ~Open(r)'
    <3> SUFFICES ASSUME NEW r \in Runs, ~Open(r)
                 PROVE  ~Open(r)'
      OBVIOUS
    <3>1. r # k[1]
      BY <1>0, <2>1 DEF Open
    <3> QED BY <2>1, <2>4, <3>1 DEF Open, Live
  <2>6. Unborn' /\ RetriesLeft' /\ RunningExact'
    BY <2>1, <2>4, <2>5 DEF Unborn, RetriesLeft, RunningExact
  <2>7. TodoExact'
    <3>1. \A j \in todo' : j \in todo /\ row'[j] = row[j]
      BY <2>1, <2>2 DEF TypeOK
    <3> QED BY <2>1, <3>1 DEF TodoExact
  <2>8. ReaddExact'
    <3>1. run[k[1]].phase = "gone" /\ k[2] = run[k[1]].attempt
      BY <2>1 DEF TodoExact
    <3>2. \A a \in Attempts : row'[<<k[1], a>>] # "running"
      BY <1>0, <2>2, <2>4, <3>1 DEF RunningExact
    <3>3. \A a \in Attempts : <<k[1], a>> \notin todo'
      BY <2>1, <2>3
    <3> QED BY <2>1, <3>1, <3>2, <3>3 DEF ReaddExact
  <2>9. Generations'
    BY <2>1, <2>5 DEF Generations, Before, DeliveryOf
  <2>10. EngineOwns'
    BY <2>1 DEF EngineOwns
  <2> QED BY <2>6, <2>7, <2>8, <2>9, <2>10 DEF RunsInv
<1>3. ASSUME NEW r \in Runs, RecoverEnqueue(r)
      PROVE  RunsInv'
  <2> DEFINE next == <<r[1], r[2], r[3] + 1>>
  <2>1. /\ engine = "starting" /\ r \in readd /\ r[3] < MaxUpsets /\ readd' = {}
        /\ run' = [run EXCEPT ![next] = NewRun] /\ UNCHANGED <<engine, kind, row, todo>>
    BY <1>3 DEF RecoverEnqueue
  <2>2. next \in Runs /\ Before(r, next)
    BY <2>1, EngineAssumption DEF Runs, Before, DeliveryOf
  <2>3. /\ run[r].phase = "gone" /\ readd = {r} /\ Open(r)
        /\ \A a \in Attempts : row[<<r, a>>] # "running" /\ <<r, a>> \notin todo
    BY <2>1 DEF ReaddExact, Open
  <2>4. \A q \in Runs : Before(r, q) => run[q].phase = "none"
    BY <2>3 DEF Generations
  <2>5. run[next].phase = "none" /\ ~Open(next)
    BY <2>2, <2>4 DEF Unborn
  <2>6. run'[next].phase = "queued" /\ \A q \in Runs \ {next} : run'[q] = run[q]
    BY <2>1, <2>2 DEF TypeOK, NewRun, NoRun
  <2>7. \A q \in Runs \ {next} : ~Open(q) => ~Open(q)'
    BY <2>1, <2>6 DEF Open, Live
  <2>8. ~Open(r)'
    <3>1. r # next
      BY DEF Runs
    <3>2. run'[r].phase = "gone"
      BY <2>3, <2>6, <3>1
    <3> QED BY <2>1, <2>3, <3>2 DEF Open, Live, LivePhases
  <2>9. RetriesLeft'
    BY <2>6 DEF RetriesLeft
  <2>10. kind[r[1]] # NoKind
    BY <2>3 DEF Unborn
  <2>11. Unborn'
    <3>1. \A q \in Runs \ {next} : /\ kind'[q[1]] = NoKind => run'[q].phase = "none"
                                   /\ run'[q].phase = "none" => ~Open(q)'
      BY <2>1, <2>6, <2>7 DEF Unborn
    <3>2. kind'[next[1]] # NoKind
      BY <2>1, <2>10
    <3> QED BY <2>6, <3>1, <3>2 DEF Unborn
  <2>12. RunningExact'
    <3>1. \A a \in Attempts : row[<<next, a>>] # "running"
      BY <2>5 DEF Open
    <3> HIDE DEF next
    <3> QED BY <2>1, <2>6, <3>1 DEF RunningExact
  <2>13. TodoExact'
    <3>1. \A k \in todo : k[1] \in Runs \ {next}
      BY <1>0, <2>5 DEF TodoExact, TypeOK
    <3> HIDE DEF next
    <3> QED BY <2>1, <2>6, <3>1 DEF TodoExact
  <2>14. Generations'
    <3> SUFFICES ASSUME NEW q \in Runs, NEW s \in Runs, Before(q, s), run'[s].phase # "none"
                 PROVE  run'[q].phase = "gone" /\ ~Open(q)'
      BY DEF Generations, Before, DeliveryOf
    <3>1. q[3] \in Int /\ s[3] \in Int /\ r[3] \in Int
      BY DEF Runs
    <3>2. CASE s = next
      <4>1. q = r \/ Before(q, r)
        <5>1. q[1] = r[1] /\ q[2] = r[2] /\ q[3] < r[3] + 1
          BY <3>2 DEF Before, DeliveryOf
        <5>2. q = <<q[1], q[2], q[3]>> /\ r = <<r[1], r[2], r[3]>>
          BY DEF Runs
        <5> QED BY <3>1, <5>1, <5>2 DEF Before, DeliveryOf
      <4>2. q # next
        BY <3>1, <3>2 DEF Before
      <4>3. CASE q = r
        BY <2>3, <2>6, <2>8, <4>2, <4>3
      <4>4. CASE Before(q, r)
        <5>1. run[q].phase = "gone" /\ ~Open(q)
          BY <2>3, <4>4 DEF Generations
        <5> QED BY <2>6, <2>7, <4>2, <5>1
      <4> QED BY <4>1, <4>3, <4>4
    <3>3. CASE s # next
      <4>1. run[q].phase = "gone" /\ ~Open(q)
        BY <2>6, <3>3 DEF Generations
      <4>2. q # next
        BY <2>5, <4>1
      <4> QED BY <2>6, <2>7, <4>1, <4>2
    <3> QED BY <3>2, <3>3
  <2>15. ReaddExact' /\ EngineOwns'
    BY <2>1 DEF ReaddExact, EngineOwns
  <2> QED BY <2>9, <2>11, <2>12, <2>13, <2>14, <2>15 DEF RunsInv
<1>4. CASE /\ UNCHANGED <<kind, run, row>> /\ todo' \subseteq todo /\ readd' = {}
           /\ engine' # "off"
           /\ engine' # "starting" => todo' = {}
  <2>1. \A r \in Runs : ~Open(r) => ~Open(r)'
    BY <1>4 DEF Open, Live
  <2>2. Unborn' /\ RetriesLeft' /\ RunningExact'
    BY <1>4, <2>1 DEF Unborn, RetriesLeft, RunningExact
  <2>3. Generations'
    BY <1>4, <2>1 DEF Generations, Before, DeliveryOf
  <2>4. TodoExact'
    BY <1>4 DEF TodoExact
  <2>5. ReaddExact' /\ EngineOwns'
    BY <1>4 DEF ReaddExact, EngineOwns
  <2> QED BY <2>2, <2>3, <2>4, <2>5 DEF RunsInv
<1>5. ASSUME NEW r \in Runs, RecoverEnqueueFails(r)
      PROVE  RunsInv'
  BY <1>4, <1>5 DEF RecoverEnqueueFails
<1>6. CASE StartDone \/ StartAborts \/ Stop \/ DrainEnds
  <2>1. CASE StartDone
    BY <1>4, <2>1 DEF StartDone
  <2>2. CASE StartAborts
    BY <1>4, <2>2 DEF StartAborts
  <2>3. CASE Stop
    BY <1>4, <2>3 DEF Stop, EngineOwns
  <2>4. CASE DrainEnds
    BY <1>4, <2>4 DEF DrainEnds, EngineOwns
  <2> QED BY <1>6, <2>1, <2>2, <2>3, <2>4
<1>7. CASE GoDown
  <2>1. /\ engine' = "off" /\ todo' = {} /\ readd' = {} /\ UNCHANGED <<kind, row>>
        /\ \A r \in Runs : run'[r] = IF Live(r) THEN [run[r] EXCEPT !.phase = "gone"] ELSE run[r]
    BY <1>7 DEF GoDown
  <2>2. \A r \in Runs : /\ run'[r].phase = IF Live(r) THEN "gone" ELSE run[r].phase
                        /\ run'[r].attempt = run[r].attempt
    <3>1. \A r \in Runs : run[r] \in RunType
      BY DEF TypeOK
    <3>2. \A x \in RunType : /\ [x EXCEPT !.phase = "gone"].phase = "gone"
                             /\ [x EXCEPT !.phase = "gone"].attempt = x.attempt
      BY DEF RunType
    <3> QED BY <2>1, <3>1, <3>2
  <2>3. \A r \in Runs : ~Live(r)' /\ (run'[r].phase = "none" <=> run[r].phase = "none")
    BY <2>2 DEF Live, LivePhases
  <2>4. \A r \in Runs : ~Open(r) => ~Open(r)' /\ run'[r].phase = run[r].phase
    BY <2>1, <2>2, <2>3 DEF Open
  <2>5. Unborn'
    BY <2>1, <2>3, <2>4 DEF Unborn
  <2>6. RunningExact'
    BY <2>1, <2>2 DEF RunningExact
  <2>7. Generations'
    BY <2>3, <2>4 DEF Generations, Before, DeliveryOf
  <2>8. RetriesLeft'
    BY <2>2, <2>3 DEF RetriesLeft, Live, LivePhases
  <2>9. TodoExact' /\ ReaddExact' /\ EngineOwns'
    BY <2>1, <2>3 DEF TodoExact, ReaddExact, EngineOwns
  <2> QED BY <2>5, <2>6, <2>7, <2>8, <2>9 DEF RunsInv
<1> QED BY <1>1, <1>2, <1>3, <1>5, <1>6, <1>7 DEF Life, Recover, Shutdown, Crash

LEMMA RunsInductive ==
    ASSUME RunsInv, Next
    PROVE  RunsInv'
<1> TypeOK /\ RetriesLeft
  BY DEF RunsInv
<1>1. TypeOK'
  BY WorkTypes, LifeTypes, EmitTypes DEF Next
<1> QED BY <1>1, WorkKeepsInv, BodyEmitsKeepsInv, EmitKeepsInv, LifeKeepsInv DEF Next

LEMMA RunsInitially == Init => RunsInv
<1> SUFFICES ASSUME Init PROVE RunsInv
  OBVIOUS
<1>1. NoRun \in RunType
  BY EngineAssumption DEF NoRun, RunType, Attempts
<1>2. TypeOK
  BY <1>1 DEF Init, TypeOK, EngineStates, RowStatuses
<1>3. \A r \in Runs : run[r].phase = "none" /\ ~Open(r)
  BY DEF Init, NoRun, Open, Live, LivePhases, Keys
<1>4. \A r \in Runs, a \in Attempts : row[<<r, a>>] # "running"
  BY DEF Init, Keys
<1> QED BY <1>2, <1>3, <1>4
    DEF Init, RunsInv, RetriesLeft, Unborn, RunningExact, TodoExact, ReaddExact, Generations,
        EngineOwns, Open

\* RunsInv is an invariant of the engine.
LEMMA RunsInvariant == Spec => []RunsInv
<1>1. RunsInv /\ UNCHANGED vars => RunsInv'
  BY DEF RunsInv, TypeOK, RetriesLeft, Unborn, RunningExact, TodoExact, ReaddExact, Generations,
         EngineOwns, Before, DeliveryOf, Open, Live, vars
<1> QED BY <1>1, RunsInitially, RunsInductive, PTL DEF Spec

\* Every variable has its type: no retry is numbered past the last one, and the count of the
\* runs in flight never goes below zero.
THEOREM TypeCorrect == Spec => []TypeOK
<1>1. RunsInv => TypeOK
  BY DEF RunsInv
<1> QED BY <1>1, RunsInvariant, PTL

\* An open run has no outcome, and whoever is before or after it is closed.
LEMMA OpenIsAlone ==
    ASSUME RunsInv, NEW r \in Runs, NEW q \in Runs, DeliveryOf(r) = DeliveryOf(q), Open(r)
    PROVE  (Open(q) => r = q) /\ run[q].phase \notin {"done", "dead"}
<1> Unborn /\ RunningExact /\ TodoExact /\ ReaddExact /\ Generations
  BY DEF RunsInv
<1>1. run[r].phase \notin {"none", "done", "dead"}
  <2>1. run[r].phase # "none"
    BY DEF Unborn
  <2>2. CASE Live(r)
    BY <2>2 DEF Live, LivePhases
  <2>3. CASE r \in readd
    BY <2>3 DEF ReaddExact
  <2>4. CASE \E a \in Attempts : row[<<r, a>>] = "running"
    BY <2>1, <2>4 DEF RunningExact, SlotPhases
  <2>5. CASE \E a \in Attempts : <<r, a>> \in todo
    <3>1. PICK k \in todo : k[1] = r
      BY <2>5
    <3> QED BY <3>1 DEF TodoExact
  <2> QED BY <2>1, <2>2, <2>3, <2>4, <2>5 DEF Open
<1>2. r = q \/ Before(q, r) \/ Before(r, q)
  BY DEF Runs, Before, DeliveryOf
<1>3. CASE r = q
  BY <1>1, <1>3
<1>4. CASE Before(q, r)
  BY <1>1, <1>4 DEF Generations
<1>5. CASE Before(r, q)
  BY <1>1, <1>5 DEF Generations, Unborn
<1> QED BY <1>2, <1>3, <1>4, <1>5

\* Retries, crashes, restarts and lost marks never make a strategy handle one event in two
\* runs at once, or again after it has an outcome.
THEOREM OneOpenRunAlways == Spec => []OneOpenRun
<1>1. RunsInv => OneOpenRun
  BY OpenIsAlone DEF OneOpenRun
<1> QED BY <1>1, RunsInvariant, PTL

--------------------------------------------------------------------------------
(* The in-flight count. *)

LiveRuns == {r \in Runs : Live(r)}

\* The first runs of a dispatch, one for each route.
First(e, reached) == {r \in Runs : r[1] = e /\ r[2] \in reached /\ r[3] = 0}

LEMMA FirstCount ==
    ASSUME NEW e \in Events, NEW reached \in SUBSET Strategies
    PROVE  Cardinality(First(e, reached)) = Cardinality(reached)
<1> DEFINE f == [r \in First(e, reached) |-> r[2]]
<1>1. f \in Surjection(First(e, reached), reached)
  <2>1. f \in [First(e, reached) -> reached]
    BY DEF First
  <2>2. \A s \in reached : <<e, s, 0>> \in First(e, reached) /\ f[<<e, s, 0>>] = s
    BY EngineAssumption DEF First, Runs
  <2> QED BY <2>1, <2>2 DEF Surjection
<1>2. f \in Injection(First(e, reached), reached)
  <2>1. \A r \in First(e, reached) : r = <<e, r[2], 0>>
    BY DEF First, Runs
  <2>2. \A r, q \in First(e, reached) : f[r] = f[q] => r = q
    BY <2>1
  <2> QED BY <1>1, <2>2 DEF Surjection, Injection, IsInjective
<1>3. IsFiniteSet(reached)
  BY TopologyAssumption, FS_Subset
<1> QED BY <1>1, <1>2, <1>3, FS_Injection

LEMMA FinishCounts ==
    ASSUME TypeOK, CountExact, NEW r \in Runs, Live(r), NEW phase \in Ended, Finish(r, phase)
    PROVE  CountExact'
<1>1. LiveRuns' = LiveRuns \ {r}
  <2>1. run'[r].phase = phase /\ \A q \in Runs \ {r} : run'[q] = run[q]
    BY GotoMoves DEF Finish, Ended
  <2> QED BY <2>1 DEF LiveRuns, Live, LivePhases, Ended
<1>2. r \in LiveRuns /\ IsFiniteSet(LiveRuns) /\ Cardinality(LiveRuns) \in Nat
  BY FiniteSpace DEF LiveRuns
<1>3. Cardinality(LiveRuns') = Cardinality(LiveRuns) - 1
  BY <1>1, <1>2, FS_RemoveElement
<1>4. Cardinality(LiveRuns) # 0
  BY <1>2, FS_EmptySet
<1>5. active = Cardinality(LiveRuns)
  BY DEF CountExact, LiveRuns
<1>6. active' = active - 1
  BY <1>4, <1>5 DEF Finish, Completed
<1>7. active' = Cardinality(LiveRuns')
  BY <1>3, <1>5, <1>6
<1> QED BY <1>7 DEF CountExact, LiveRuns

LEMMA DispatchCounts ==
    ASSUME TypeOK, Unborn, CountExact, NEW e \in Events, NEW k \in Kinds, NEW reached \in Reachable(k),
           Dispatch(e, k, reached),
           \A q \in Runs : run'[q] = Enqueued(e, reached)[q] \/ (q[1] # e /\ Live(q) /\ Live(q)')
    PROVE  CountExact'
<1>1. reached \in SUBSET Strategies
  BY TopologyAssumption DEF Reachable
<1>2. LiveRuns' = LiveRuns \cup First(e, reached)
  <2>1. \A q \in Runs : Live(q)' <=> Live(q) \/ q \in First(e, reached)
    BY DEF Enqueued, NewRun, NoRun, Live, LivePhases, First
  <2> QED BY <2>1 DEF LiveRuns, First
<1>3. LiveRuns \cap First(e, reached) = {}
  <2>1. kind[e] = NoKind
    BY DEF Dispatch
  <2>2. \A q \in First(e, reached) : run[q].phase = "none"
    BY <2>1 DEF First, Unborn
  <2> QED BY <2>2 DEF LiveRuns, Live, LivePhases
<1>4. /\ IsFiniteSet(LiveRuns) /\ Cardinality(LiveRuns) \in Nat
      /\ IsFiniteSet(First(e, reached)) /\ Cardinality(First(e, reached)) \in Nat
  BY FiniteSpace DEF LiveRuns, First
<1>5. Cardinality(LiveRuns') = Cardinality(LiveRuns) + Cardinality(First(e, reached))
  <2>1. Cardinality(LiveRuns \cup First(e, reached)) =
          Cardinality(LiveRuns) + Cardinality(First(e, reached))
          - Cardinality(LiveRuns \cap First(e, reached))
    BY <1>4, FS_Union
  <2>2. Cardinality(LiveRuns \cap First(e, reached)) = 0
    BY <1>3, FS_EmptySet
  <2> QED BY <1>2, <1>4, <2>1, <2>2
<1>6. active' = active + Cardinality(reached)
  BY DEF Dispatch
<1>7. active = Cardinality(LiveRuns)
  BY DEF CountExact, LiveRuns
<1>8. active' = Cardinality(LiveRuns')
  BY <1>1, <1>5, <1>6, <1>7, FirstCount
<1> QED BY <1>8 DEF CountExact, LiveRuns

LEMMA CountInductive ==
    ASSUME RunsInv, CountExact, Next
    PROVE  CountExact'
<1> TypeOK /\ Unborn
  BY DEF RunsInv
<1>1. ASSUME active' = active, \A q \in Runs : Live(q)' <=> Live(q)
      PROVE  CountExact'
  <2>1. LiveRuns' = LiveRuns
    BY <1>1 DEF LiveRuns
  <2> QED BY <1>1, <2>1 DEF CountExact, LiveRuns
<1>2. ASSUME NEW k \in Kinds, Emit(k)
      PROVE  CountExact'
  <2>1. PICK e \in Events, reached \in Reachable(k) :
            Dispatch(e, k, reached) /\ run' = Enqueued(e, reached)
    BY <1>2 DEF Emit
  <2> QED BY <2>1, DispatchCounts
<1>3. ASSUME NEW r \in Runs, BodyEmits(r)
      PROVE  CountExact'
  <2>1. PICK e \in Events, k \in Kinds, phase \in SlotPhases : \E reached \in Reachable(k) :
            /\ Accepts /\ Dispatch(e, k, reached) /\ run[r].phase = "body" /\ r[1] # e
            /\ UNCHANGED <<engine, row, todo, readd>>
            /\ run'[r].phase = phase /\ run'[r].attempt = run[r].attempt
            /\ \A q \in Runs \ {r} : run'[q] = Enqueued(e, reached)[q]
    BY <1>3, BodyEmitsMoves
  <2>2. Live(r) /\ Live(r)'
    BY <2>1 DEF Live, LivePhases, SlotPhases
  <2> QED BY <2>1, <2>2, DispatchCounts
<1>4. ASSUME NEW r \in Runs, NEW phase \in LivePhases, Live(r), Goto(r, phase), active' = active
      PROVE  CountExact'
  <2>1. run'[r].phase = phase /\ \A q \in Runs \ {r} : run'[q] = run[q]
    BY <1>4, GotoMoves
  <2> QED BY <1>1, <1>4, <2>1 DEF Live
<1>5. ASSUME NEW r \in Runs, StartAttempt(r) \/ RetryAttempt(r)
      PROVE  CountExact'
  <2>1. run'[r].phase \in LivePhases /\ run[r].phase \in LivePhases
    BY <1>5 DEF StartAttempt, RetryAttempt, LivePhases, TypeOK, RunType
  <2>2. active' = active /\ \A q \in Runs \ {r} : run'[q] = run[q]
    BY <1>5 DEF StartAttempt, RetryAttempt, TypeOK
  <2> QED BY <1>1, <2>1, <2>2 DEF Live
<1>6. ASSUME NEW r \in Runs,
             BodyEmitRefused(r) \/ BodyReturns(r) \/ BodyRaises(r) \/ Wait(r) \/ MarkFailed(r)
      PROVE  CountExact'
  BY <1>4, <1>6
  DEF BodyEmitRefused, BodyReturns, BodyRaises, Wait, WaitReturns, WaitTimesOut, MarkFailed,
      Live, LivePhases
<1>7. ASSUME NEW r \in Runs,
             StartFails(r) \/ MarkSuccess(r) \/ MarkDeadLetter(r) \/ MarkRaises(r)
      PROVE  CountExact'
  <2>1. Live(r)
    BY <1>7 DEF StartFails, MarkSuccess, MarkDeadLetter, MarkRaises, Live, LivePhases
  <2>2. Finish(r, "gone") \/ Finish(r, "done") \/ Finish(r, "dead")
    BY <1>7 DEF StartFails, MarkSuccess, MarkDeadLetter, MarkRaises
  <2> QED BY <2>1, <2>2, FinishCounts DEF Ended
<1>8. ASSUME NEW r \in Runs, RecoverEnqueue(r)
      PROVE  CountExact'
  <2> DEFINE next == <<r[1], r[2], r[3] + 1>>
  <2>1. /\ r \in readd /\ r[3] < MaxUpsets /\ run' = [run EXCEPT ![next] = NewRun]
        /\ active' = active + 1
    BY <1>8 DEF RecoverEnqueue
  <2>2. next \in Runs /\ Before(r, next)
    BY <2>1, EngineAssumption DEF Runs, Before, DeliveryOf
  <2>3. Open(r)
    BY <2>1 DEF Open
  <2>4. run[next].phase = "none"
    BY <2>2, <2>3 DEF RunsInv, Generations
  <2>5. run'[next].phase = "queued" /\ \A q \in Runs \ {next} : run'[q] = run[q]
    BY <2>1, <2>2 DEF TypeOK, NewRun, NoRun
  <2>6. LiveRuns' = LiveRuns \cup {next} /\ next \notin LiveRuns
    BY <2>2, <2>4, <2>5 DEF LiveRuns, Live, LivePhases
  <2>7. IsFiniteSet(LiveRuns) /\ active = Cardinality(LiveRuns)
    BY FiniteSpace DEF LiveRuns, CountExact
  <2>8. Cardinality(LiveRuns') = active + 1
    BY <2>6, <2>7, FS_AddElement
  <2> QED BY <2>1, <2>8 DEF CountExact, LiveRuns
<1>9. CASE GoDown
  <2>1. \A r \in Runs : ~Live(r)'
    <3>1. \A x \in RunType : [x EXCEPT !.phase = "gone"].phase = "gone"
      BY DEF RunType
    <3> QED BY <1>9, <3>1 DEF GoDown, Live, LivePhases, TypeOK
  <2>2. LiveRuns' = {}
    BY <2>1 DEF LiveRuns
  <2>3. active' = 0
    BY <1>9 DEF GoDown
  <2> QED BY <2>2, <2>3, FS_EmptySet DEF CountExact, LiveRuns
<1>10. ASSUME UNCHANGED <<active, run>>
       PROVE  CountExact'
  BY <1>1, <1>10 DEF Live
<1>11. CASE Life
  BY <1>8, <1>9, <1>10, <1>11
  DEF Life, Recover, EngineStart, RecoverMark, RecoverEnqueueFails, StartDone, StartAborts, Stop,
      DrainEnds, Shutdown, Crash
<1> QED BY <1>2, <1>3, <1>5, <1>6, <1>7, <1>11 DEF Next, Work, Body, Mark

\* The count that stop() and wait_idle trust is the number of runs that are enqueued or at
\* work: no failure, retry, dead letter or recovery leaks a unit or gives one back twice.
THEOREM ActiveIsExact == Spec => []ActiveExact
<1>1. Init => CountExact
  <2> SUFFICES ASSUME Init PROVE CountExact
    OBVIOUS
  <2>1. {r \in Runs : Live(r)} = {}
    BY DEF Init, NoRun, Live, LivePhases
  <2> QED BY <2>1, FS_EmptySet DEF Init, CountExact
<1>2. CountExact /\ UNCHANGED vars => CountExact'
  BY DEF CountExact, Live, vars
<1>3. CountExact => ActiveExact
  BY DEF CountExact, ActiveExact
<1>4. RunsInv /\ CountExact /\ [Next]_vars => CountExact'
  BY <1>2, CountInductive
<1> QED BY <1>1, <1>3, <1>4, RunsInvariant, PTL DEF Spec

--------------------------------------------------------------------------------
(* The refinement: what a step does to a run, and so to its delivery. *)

\* A run that the step leaves where it is, and does not open.
Calm(q) == run'[q].phase = run[q].phase /\ (Open(q)' => Open(q))

\* A step of the tasks of a run, or their death.
Worked(q) == Live(q) /\ run'[q].phase # "none"

\* The first run of a delivery, or the one that takes up an open run.
Born(q) ==
    /\ run[q].phase = "none" /\ Live(q)'
    /\ \/ \A r \in Runs : DeliveryOf(r) = DeliveryOf(q) => run[r].phase = "none"
       \/ \E r \in Runs : DeliveryOf(r) = DeliveryOf(q) /\ Open(r)

Fate(q) == Calm(q) \/ Worked(q) \/ Born(q)

LEMMA WorkIsOwn ==
    ASSUME TypeOK, NEW r \in Runs, Work(r), ~BodyEmits(r)
    PROVE  /\ Live(r) /\ run'[r].phase # "none" /\ UNCHANGED <<todo, readd>>
           /\ \A q \in Runs \ {r} : run'[q] = run[q]
           /\ \A q \in Runs \ {r}, a \in Attempts : row'[<<q, a>>] \in {row[<<q, a>>], "none"}
<1>1. CASE StartAttempt(r)
  <2>1. run'[r].phase = "body" /\ \A q \in Runs \ {r} : run'[q] = run[q]
    BY <1>1 DEF StartAttempt, TypeOK, RunType
  <2>2. run[r].phase = "queued" /\ UNCHANGED <<todo, readd>> /\ InsertRunning(Key(r))
    BY <1>1 DEF StartAttempt
  <2> QED BY <2>1, <2>2, InsertMoves DEF Live, LivePhases
<1>2. CASE RetryAttempt(r)
  <2>1. run'[r].phase = "queued" /\ \A q \in Runs \ {r} : run'[q] = run[q]
    BY <1>2 DEF RetryAttempt, TypeOK, RunType
  <2> QED BY <1>2, <2>1 DEF RetryAttempt, Live, LivePhases
<1>3. ASSUME Live(r), NEW phase, phase # "none", Goto(r, phase), UNCHANGED <<row, todo, readd>>
      PROVE  /\ Live(r) /\ run'[r].phase # "none" /\ UNCHANGED <<todo, readd>>
             /\ \A q \in Runs \ {r} : run'[q] = run[q]
             /\ \A q \in Runs \ {r}, a \in Attempts : row'[<<q, a>>] \in {row[<<q, a>>], "none"}
  BY <1>3, GotoMoves
<1>4. CASE StartFails(r) \/ MarkRaises(r)
  BY <1>3, <1>4 DEF StartFails, MarkRaises, Finish, Live, LivePhases
<1>5. CASE BodyEmitRefused(r) \/ BodyReturns(r) \/ BodyRaises(r)
  BY <1>3, <1>5 DEF BodyEmitRefused, BodyReturns, BodyRaises, Live, LivePhases
<1>6. CASE Wait(r)
  BY <1>3, <1>6 DEF Wait, WaitReturns, WaitTimesOut, Live, LivePhases
<1>7. CASE Mark(r)
  <2>1. PICK phase \in {"done", "dead", "backoff"}, status \in {"success", "failed", "dead_letter"} :
            Goto(r, phase) /\ SetStatus(Key(r), status)
    BY <1>7 DEF Mark, MarkSuccess, MarkFailed, MarkDeadLetter, Finish
  <2>2. Live(r) /\ UNCHANGED <<todo, readd>>
    BY <1>7 DEF Mark, MarkSuccess, MarkFailed, MarkDeadLetter, Live, LivePhases
  <2> QED BY <2>1, <2>2, GotoMoves, SetStatusMoves
<1> QED BY <1>1, <1>2, <1>4, <1>5, <1>6, <1>7 DEF Work, Body

LEMMA DispatchFates ==
    ASSUME RunsInv, NEW e \in Events, kind[e] = NoKind, UNCHANGED <<row, todo, readd>>,
           \A q \in Runs : \/ q[1] = e /\ q[3] = 0 /\ run'[q].phase = "queued"
                           \/ run'[q] = run[q]
                           \/ Worked(q)
    PROVE  \A q \in Runs : Fate(q)
<1> SUFFICES ASSUME NEW q \in Runs PROVE Fate(q)
  OBVIOUS
<1>1. CASE q[1] = e /\ run'[q].phase = "queued"
  <2>1. \A r \in Runs : r[1] = e => run[r].phase = "none"
    BY DEF RunsInv, Unborn
  <2>2. Live(q)' /\ run[q].phase = "none"
    BY <1>1, <2>1 DEF Live, LivePhases
  <2> QED BY <1>1, <2>1, <2>2 DEF Fate, Born, DeliveryOf
<1>2. CASE run'[q] = run[q]
  BY <1>2 DEF Fate, Calm, Open, Live
<1> QED BY <1>1, <1>2 DEF Fate

LEMMA LifeFates ==
    ASSUME RunsInv, Life
    PROVE  \A q \in Runs : Fate(q)
<1> TypeOK
  BY DEF RunsInv
<1>0. \A k \in Keys : k[1] \in Runs /\ k[2] \in Attempts /\ k = <<k[1], k[2]>>
  BY DEF Keys
<1> SUFFICES ASSUME NEW q \in Runs PROVE Fate(q)
  OBVIOUS
<1>1. CASE EngineStart
  <2>1. run' = run /\ row' = row /\ readd' = readd /\ todo' \subseteq {k \in Keys : row[k] = "running"}
    BY <1>1 DEF EngineStart
  <2> QED BY <2>1 DEF Fate, Calm, Open, Live
<1>2. ASSUME NEW k \in Keys, RecoverMark(k)
      PROVE  Fate(q)
  <2>1. k \in todo /\ run' = run /\ todo' \subseteq todo /\ readd' = {k[1]}
    BY <1>2 DEF RecoverMark
  <2>2. \A a \in Attempts : row'[<<q, a>>] = "running" => row[<<q, a>>] = "running"
    BY <1>2 DEF RecoverMark, SetStatus, TypeOK, Keys
  <2>3. q \in readd' => Open(q)
    BY <1>0, <2>1 DEF Open
  <2> QED BY <2>1, <2>2, <2>3 DEF Fate, Calm, Open, Live
<1>3. ASSUME NEW r \in Runs, RecoverEnqueue(r)
      PROVE  Fate(q)
  <2> DEFINE next == <<r[1], r[2], r[3] + 1>>
  <2>1. /\ r \in readd /\ r[3] < MaxUpsets /\ readd' = {}
        /\ run' = [run EXCEPT ![next] = NewRun] /\ UNCHANGED <<row, todo>>
    BY <1>3 DEF RecoverEnqueue
  <2>2. next \in Runs /\ Before(r, next)
    BY <2>1, EngineAssumption DEF Runs, Before, DeliveryOf
  <2>3. Open(r)
    BY <2>1 DEF Open
  <2>4. run[next].phase = "none"
    BY <2>2, <2>3 DEF RunsInv, Generations
  <2>5. run'[next].phase = "queued" /\ \A s \in Runs \ {next} : run'[s] = run[s]
    BY <2>1, <2>2 DEF TypeOK, NewRun, NoRun
  <2>6. CASE q = next
    BY <2>2, <2>3, <2>4, <2>5, <2>6 DEF Fate, Born, Before, Live, LivePhases
  <2>7. CASE q # next
    <3>1. run'[q] = run[q]
      BY <2>5, <2>7
    <3> QED BY <2>1, <3>1 DEF Fate, Calm, Open, Live
  <2> QED BY <2>6, <2>7
<1>4. CASE UNCHANGED <<run, row>> /\ todo' \subseteq todo /\ readd' \subseteq readd
  BY <1>4 DEF Fate, Calm, Open, Live
<1>5. ASSUME NEW r \in Runs, RecoverEnqueueFails(r)
      PROVE  Fate(q)
  BY <1>4, <1>5 DEF RecoverEnqueueFails
<1>6. CASE StartDone \/ StartAborts \/ Stop \/ DrainEnds
  BY <1>4, <1>6 DEF StartDone, StartAborts, Stop, DrainEnds
<1>7. CASE GoDown
  <2>1. /\ todo' = {} /\ readd' = {} /\ row' = row
        /\ run'[q] = IF Live(q) THEN [run[q] EXCEPT !.phase = "gone"] ELSE run[q]
    BY <1>7 DEF GoDown
  <2>2. run[q] \in RunType
    BY DEF TypeOK
  <2>3. CASE Live(q)
    <3>1. run'[q].phase = "gone"
      BY <2>1, <2>2, <2>3 DEF RunType
    <3> QED BY <2>3, <3>1 DEF Fate, Worked
  <2>4. CASE ~Live(q)
    BY <2>1, <2>4 DEF Fate, Calm, Open, Live
  <2> QED BY <2>3, <2>4
<1> QED BY <1>1, <1>2, <1>3, <1>5, <1>6, <1>7 DEF Life, Recover, Shutdown, Crash

LEMMA StepFates ==
    ASSUME RunsInv, Next
    PROVE  \A q \in Runs : Fate(q)
<1> TypeOK
  BY DEF RunsInv
<1>1. ASSUME NEW k \in Kinds, Emit(k)
      PROVE  \A q \in Runs : Fate(q)
  <2>1. PICK e \in Events, reached \in Reachable(k) :
            Dispatch(e, k, reached) /\ run' = Enqueued(e, reached)
    BY <1>1 DEF Emit
  <2>2. \A q \in Runs : \/ q[1] = e /\ q[3] = 0 /\ run'[q].phase = "queued"
                        \/ run'[q] = run[q]
    BY <2>1 DEF Enqueued, NewRun, NoRun
  <2>3. kind[e] = NoKind /\ UNCHANGED <<row, todo, readd>>
    BY <1>1, <2>1 DEF Emit, Dispatch
  <2> QED BY <2>2, <2>3, DispatchFates
<1>2. ASSUME NEW r \in Runs, BodyEmits(r)
      PROVE  \A q \in Runs : Fate(q)
  <2>1. PICK e \in Events, k \in Kinds, phase \in SlotPhases : \E reached \in Reachable(k) :
            /\ Accepts /\ Dispatch(e, k, reached) /\ run[r].phase = "body" /\ r[1] # e
            /\ UNCHANGED <<engine, row, todo, readd>>
            /\ run'[r].phase = phase /\ run'[r].attempt = run[r].attempt
            /\ \A q \in Runs \ {r} : run'[q] = Enqueued(e, reached)[q]
    BY <1>2, BodyEmitsMoves
  <2>2. \A q \in Runs \ {r} : \/ q[1] = e /\ q[3] = 0 /\ run'[q].phase = "queued"
                              \/ run'[q] = run[q]
    BY <2>1 DEF Enqueued, NewRun, NoRun
  <2>3. Worked(r)
    BY <2>1 DEF Worked, Live, LivePhases, SlotPhases
  <2>4. kind[e] = NoKind
    BY <2>1 DEF Dispatch
  <2> QED BY <2>1, <2>2, <2>3, <2>4, DispatchFates
<1>3. ASSUME NEW r \in Runs, Work(r), ~BodyEmits(r)
      PROVE  \A q \in Runs : Fate(q)
  <2> SUFFICES ASSUME NEW q \in Runs PROVE Fate(q)
    OBVIOUS
  <2>1. CASE q = r
    BY <1>3, <2>1, WorkIsOwn DEF Fate, Worked
  <2>2. CASE q # r
    <3>1. /\ run'[q] = run[q] /\ UNCHANGED <<todo, readd>>
          /\ \A a \in Attempts : row'[<<q, a>>] = "running" => row[<<q, a>>] = "running"
      BY <1>3, <2>2, WorkIsOwn
    <3> QED BY <3>1 DEF Fate, Calm, Open, Live
  <2> QED BY <2>1, <2>2
<1> QED BY <1>1, <1>2, <1>3, LifeFates DEF Next

\* What the state of a delivery says of its runs.
Means ==
    \A d \in Deliveries :
        /\ StateOf(d) \in {"none", "active", "held", "settled", "lost"}
        /\ StateOf(d) = "none" <=> \A r \in Runs : DeliveryOf(r) = d => run[r].phase = "none"
        /\ StateOf(d) = "active" <=> \E r \in Runs : DeliveryOf(r) = d /\ Live(r)
        /\ StateOf(d) = "settled" <=>
             \E r \in Runs : DeliveryOf(r) = d /\ run[r].phase \in {"done", "dead"}
        /\ StateOf(d) \in {"active", "held"} <=> \E r \in Runs : DeliveryOf(r) = d /\ Open(r)

LEMMA StateMeans == RunsInv => Means
<1> SUFFICES ASSUME RunsInv, NEW d \in Deliveries
             PROVE  /\ StateOf(d) \in {"none", "active", "held", "settled", "lost"}
                    /\ StateOf(d) = "none" <=>
                         \A r \in Runs : DeliveryOf(r) = d => run[r].phase = "none"
                    /\ StateOf(d) = "active" <=> \E r \in Runs : DeliveryOf(r) = d /\ Live(r)
                    /\ StateOf(d) = "settled" <=>
                         \E r \in Runs : DeliveryOf(r) = d /\ run[r].phase \in {"done", "dead"}
                    /\ StateOf(d) \in {"active", "held"} <=>
                         \E r \in Runs : DeliveryOf(r) = d /\ Open(r)
  BY DEF Means
<1> DEFINE live    == \E r \in Runs : DeliveryOf(r) = d /\ Live(r)
           open    == \E r \in Runs : DeliveryOf(r) = d /\ Open(r)
           settled == \E r \in Runs : DeliveryOf(r) = d /\ run[r].phase \in {"done", "dead"}
           gone    == \E r \in Runs : DeliveryOf(r) = d /\ run[r].phase = "gone"
           unborn  == \A r \in Runs : DeliveryOf(r) = d => run[r].phase = "none"
<1>1. StateOf(d) = IF live THEN "active" ELSE IF open THEN "held"
                   ELSE IF settled THEN "settled" ELSE IF gone THEN "lost" ELSE "none"
  BY DEF StateOf
<1>2. live => open
  BY DEF Open
<1>3. open => ~settled
  BY OpenIsAlone
<1>4. unborn <=> ~open /\ ~settled /\ ~gone
  <2>1. \A r \in Runs : run[r].phase \in LivePhases \cup {"none", "done", "dead", "gone"}
    BY DEF RunsInv, TypeOK, RunType
  <2>2. unborn => ~open
    BY DEF RunsInv, Unborn
  <2>3. unborn => ~settled /\ ~gone
    OBVIOUS
  <2>4. ~open => \A r \in Runs : DeliveryOf(r) = d => run[r].phase \notin LivePhases
    BY DEF Open, Live
  <2> QED BY <2>1, <2>2, <2>3, <2>4
<1> HIDE DEF live, open, settled, gone, unborn
<1>5. /\ StateOf(d) \in {"none", "active", "held", "settled", "lost"}
      /\ StateOf(d) = "none" <=> unborn
      /\ StateOf(d) = "active" <=> live
      /\ StateOf(d) = "settled" <=> settled
      /\ StateOf(d) \in {"active", "held"} <=> open
  BY <1>1, <1>2, <1>3, <1>4
<1> QED BY <1>5 DEF live, open, settled, unborn

LEMMA FateFollows ==
    ASSUME RunsInv, RunsInv', Means, Means', \A q \in Runs : Fate(q), NEW d \in Deliveries
    PROVE  StateOf(d)' \in Deliver!Follows(StateOf(d))
<1> DEFINE mine(q) == DeliveryOf(q) = d
<1>1. CASE StateOf(d) = "none"
  <2>1. \A q \in Runs : mine(q) => run[q].phase = "none"
    BY <1>1 DEF Means
  <2>2. \A q \in Runs : mine(q) => run'[q].phase = "none" \/ Live(q)'
    BY <2>1 DEF Fate, Calm, Worked, Born, Live, LivePhases
  <2>3. StateOf(d)' \in {"none", "active"}
    BY <2>2 DEF Means, DeliveryOf
  <2> QED BY <1>1, <2>3 DEF Deliver!Follows
<1>2. CASE StateOf(d) = "active"
  <2>1. PICK r \in Runs : mine(r) /\ Live(r)
    BY <1>2 DEF Means
  <2>2. run'[r].phase # "none"
    BY <2>1 DEF Fate, Calm, Worked, Born, Live, LivePhases
  <2>3. StateOf(d)' # "none"
    BY <2>1, <2>2 DEF Means, DeliveryOf
  <2>4. StateOf(d)' \in {"none", "active", "held", "settled", "lost"}
    BY DEF Means
  <2> QED BY <1>2, <2>3, <2>4 DEF Deliver!Follows
<1>3. CASE StateOf(d) = "held"
  <2>1. PICK r \in Runs : mine(r) /\ Open(r)
    BY <1>3 DEF Means
  <2>2. \A q \in Runs : mine(q) => ~Live(q) /\ run[q].phase \notin {"done", "dead"}
    BY <1>3 DEF Means
  <2>3. run[r].phase # "none"
    BY <2>1 DEF RunsInv, Unborn
  <2>4. run'[r].phase # "none"
    BY <2>1, <2>3 DEF Fate, Calm, Worked, Born
  <2>5. \A q \in Runs : mine(q) => run'[q].phase \notin {"done", "dead"}
    BY <2>2 DEF Fate, Calm, Worked, Born, Live, LivePhases
  <2>6. StateOf(d)' \notin {"none", "settled"}
    BY <2>1, <2>4, <2>5 DEF Means, DeliveryOf
  <2>7. StateOf(d)' \in {"none", "active", "held", "settled", "lost"}
    BY DEF Means
  <2> QED BY <1>3, <2>6, <2>7 DEF Deliver!Follows
<1>4. CASE StateOf(d) \in {"settled", "lost"}
  <2>1. \A q \in Runs : mine(q) => ~Open(q) /\ ~Live(q)
    BY <1>4 DEF Means, Open
  <2>2. PICK r \in Runs : mine(r) /\ run[r].phase # "none"
    BY <1>4 DEF Means
  <2>3. \A q \in Runs : mine(q) => Calm(q)
    BY <2>1, <2>2 DEF Fate, Worked, Born
  <2>4. \A q \in Runs : mine(q) => run'[q].phase = run[q].phase /\ ~Open(q)'
    BY <2>1, <2>3 DEF Calm
  <2>5. StateOf(d)' \notin {"active", "held", "none"}
    BY <2>2, <2>4 DEF Means, DeliveryOf
  <2>6. StateOf(d)' = "settled" <=> StateOf(d) = "settled"
    BY <2>4 DEF Means, DeliveryOf
  <2>7. StateOf(d)' \in {"none", "active", "held", "settled", "lost"}
    BY DEF Means
  <2> QED BY <1>4, <2>5, <2>6, <2>7 DEF Deliver!Follows
<1> QED BY <1>1, <1>2, <1>3, <1>4 DEF Means

\* The engine delivers as Delivery.tla allows: a delivery is accepted once, a held one is taken
\* up again or lost, and a settled or a lost one stays so, through every stop, crash and
\* recovery, for any number of each.
THEOREM DeliveryImplemented == Spec => ImplementsDelivery
<1>1. Init => Deliver!Init
  <2> SUFFICES ASSUME Init PROVE \A d \in Deliveries : StateOf(d) = "none"
    BY DEF Deliver!Init
  <2>1. \A r \in Runs : run[r].phase = "none"
    BY DEF Init, NoRun
  <2> QED BY <2>1, RunsInitially, StateMeans DEF Means
<1>2. RunsInv /\ RunsInv' /\ Means /\ Means' /\ [Next]_vars => Deliver!Next
  <2> SUFFICES ASSUME RunsInv, RunsInv', Means, Means', [Next]_vars PROVE Deliver!Next
    OBVIOUS
  <2>1. \A q \in Runs : Fate(q)
    <3>1. CASE Next
      BY <3>1, StepFates
    <3>2. CASE UNCHANGED vars
      BY <3>2 DEF vars, Fate, Calm, Open, Live
    <3> QED BY <3>1, <3>2
  <2>2. \A d \in Deliveries : StateOf(d)' \in Deliver!Follows(StateOf(d))
    BY <2>1, FateFollows
  <2>3. \A d \in Deliveries : StateOf(d)' \in {"none", "active", "held", "settled", "lost"}
    BY DEF Means
  <2> QED BY <2>2, <2>3 DEF Deliver!Next, Deliver!States
<1> QED BY <1>1, <1>2, StateMeans, RunsInvariant, PTL DEF Spec, ImplementsDelivery, Deliver!Spec

================================================================================
