----------------------------- MODULE CascadeProofs -----------------------------
(***************************************************************************)
(* Proofs about Cascade.tla, for every set of paths and processes and      *)
(* every value of the limits: the types, the retry budget and, from the    *)
(* inductive invariant of CascadeInv.tla, that what the cascade settles is *)
(* indexed exactly.                                                        *)
(***************************************************************************)
EXTENDS CascadeInv, FiniteSetTheorems, TLAPS

--------------------------------------------------------------------------------
(* The statements of the repository keep the table a table. *)

LEMMA NoRowType == NoRow \in Row /\ ResetAll \in Table
BY DEF NoRow, Row, ResetAll, Table, Statuses, Changes

LEMMA UpsertType ==
    ASSUME NEW t \in Table, NEW p \in Paths, NEW change \in Changes, NEW mtime \in Nat
    PROVE  /\ Upsert(t, p, change, mtime) \in Table
           /\ Upsert(t, p, change, mtime)[p].status = "pending"
           /\ Upsert(t, p, change, mtime)[p].change = change
           /\ Upsert(t, p, change, mtime)[p].mtime = mtime
           /\ \A q \in Paths \ {p} : Upsert(t, p, change, mtime)[q] = t[q]
BY DEF Upsert, CarriedRetries, Table, Row, Statuses, Changes

LEMMA NextLsnType ==
    ASSUME NEW f \in [Paths -> Nat], NEW p \in Paths
    PROVE  NextLsn(f, p) \in [Paths -> Nat]
<1>1. Cardinality(Paths) \in Nat
  BY PathsAssumption, FS_CardinalityType
<1> QED BY <1>1 DEF NextLsn

LEMMA ClaimPicksType ==
    ASSUME NEW t \in Table, NEW picks \in SUBSET Paths
    PROVE  ClaimPicks(t, picks) \in Table
BY DEF ClaimPicks, Table, Row, Statuses

LEMMA MarkDoneType ==
    ASSUME NEW t \in Table, NEW p \in Paths
    PROVE  MarkDone(t, p) \in Table
BY DEF MarkDone, Table, Row, Statuses

LEMMA MarkFailedType ==
    ASSUME NEW t \in Table, NEW p \in Paths, NEW n \in Nat,
           NEW verdict \in {"null", "true", "false"}
    PROVE  MarkFailed(t, p, verdict, n) \in Table
BY DEF MarkFailed, Table, Row, Statuses

LEMMA RecoverOrphansType ==
    ASSUME NEW t \in Table
    PROVE  RecoverOrphans(t) \in Table
BY DEF RecoverOrphans, Table, Row, Statuses

LEMMA ResetRetryableType ==
    ASSUME NEW t \in Table
    PROVE  ResetRetryable(t) \in Table
BY DEF ResetRetryable, Table, Row, Statuses

LEMMA DecideType ==
    ASSUME NEW seen \in Nat, NEW row \in Row
    PROVE  /\ Decide(seen, row) \in Decision \cup {NoDecision}
           /\ Decide(seen, row).mtime \in {0, seen, row.mtime}
BY DEF Decide, Decision, NoDecision, Row, Changes

--------------------------------------------------------------------------------
(* Type correctness. *)

LEMMA ConstantTypes ==
    /\ NoScan \in Sweeps /\ NoDrain \in Drainings /\ NoJob \in Jobs
    /\ [p \in Paths |-> NoJob] \in [Paths -> Jobs]
BY DEF NoScan, NoDrain, NoJob, Sweeps, Drainings, Jobs, NoDecision, Phases, Changes

LEMMA NewJobType == ASSUME NEW row \in Row PROVE NewJob(row) \in Jobs
BY DEF NewJob, NoJob, Jobs, Row, Phases, Changes

LEMMA TypeInit == Init => TypeOK
BY NoRowType, ConstantTypes DEF Init, TypeOK, Modes

LEMMA EnvironmentType == TypeOK /\ Environment => TypeOK'
<1> SUFFICES ASSUME TypeOK, NEW p \in Paths,
                    Write(p) \/ Unlink(p) \/ Restore(p) \/ SpuriousEvent(p)
             PROVE  TypeOK'
  BY DEF Environment
<1> USE DEF TypeOK, Notify, Event, Changes, workerVars, watchVars, envVars
<1>1. CASE Write(p)
  BY <1>1 DEF Write
<1>2. CASE Unlink(p)
  BY <1>2 DEF Unlink
<1>3. CASE Restore(p)
  BY <1>3 DEF Restore
<1>4. CASE SpuriousEvent(p)
  BY <1>4 DEF SpuriousEvent
<1> QED BY <1>1, <1>2, <1>3, <1>4

LEMMA WatchType == TypeOK /\ Watch => TypeOK'
<1> SUFFICES ASSUME TypeOK, Watch PROVE TypeOK'
  OBVIOUS
<1> USE DEF TypeOK, workerVars, watchVars, envVars
<1>1. ASSUME NEW e \in events, WatcherLook(e) PROVE TypeOK'
  BY <1>1 DEF WatcherLook
<1>2. ASSUME NEW e \in looked, WatcherStat(e) PROVE TypeOK'
  BY <1>2 DEF WatcherStat, Event, Call
<1>3. ASSUME NEW c \in calls, WatcherUpsert(c) PROVE TypeOK'
  <2>1. c.path \in Paths /\ c.change \in Changes /\ c.mtime \in Nat
    BY DEF Call
  <2>2. rows' \in Table /\ lsn' \in [Paths -> Nat]
    BY <1>3, <2>1, UpsertType, NextLsnType DEF WatcherUpsert
  <2> QED BY <1>3, <2>2 DEF WatcherUpsert
<1> QED BY <1>1, <1>2, <1>3 DEF Watch

LEMMA SweepType ==
    ASSUME NEW pr \in Procs, TypeOK, Sweep(pr) \/ ScanAbort(pr)
    PROVE  TypeOK'
<1> USE DEF TypeOK, workerVars, watchVars, envVars
<1>1. CASE ScanWalk(pr)
  <2>1. scan' \in [Procs -> Sweeps]
    BY <1>1, ConstantTypes DEF ScanWalk, Sweeps, NoScan
  <2> QED BY <1>1, <2>1 DEF ScanWalk
<1>2. CASE ScanDecide(pr)
  <2>1. scan[pr].seen \in [Paths -> Nat]
    BY DEF Sweeps
  <2>2. Reconcile(scan[pr].seen, rows) \in [Paths -> Decision \cup {NoDecision}]
    BY <2>1, DecideType DEF Reconcile, Table
  <2>3. scan' \in [Procs -> Sweeps]
    BY <1>2, <2>2, ConstantTypes DEF ScanDecide, Sweeps, NoScan
  <2> QED BY <1>2, <2>3 DEF ScanDecide
<1>3. CASE ScanEnd(pr)
  BY <1>3, ConstantTypes DEF ScanEnd, Modes
<1>4. ASSUME NEW p \in Paths, ScanApply(pr, p) PROVE TypeOK'
  <2>0. /\ scan[pr].plan[p] \in Decision \cup {NoDecision}
        /\ scan[pr].plan[p] # NoDecision
    BY <1>4 DEF ScanApply, Planned, Sweeps
  <2>1. scan[pr].plan[p] \in Decision
    BY <2>0
  <2>2. rows' \in Table /\ lsn' \in [Paths -> Nat]
    BY <1>4, <2>1, UpsertType, NextLsnType DEF ScanApply, Decision
  <2>3. [scan[pr].plan EXCEPT ![p] = NoDecision] \in [Paths -> Decision \cup {NoDecision}]
    BY DEF Sweeps
  <2>4. [scan[pr] EXCEPT !.plan = [scan[pr].plan EXCEPT ![p] = NoDecision]] \in Sweeps
    <3>1. scan[pr] \in Sweeps
      OBVIOUS
    <3>2. \A plan \in [Paths -> Decision \cup {NoDecision}] :
              [scan[pr] EXCEPT !.plan = plan] \in Sweeps
      BY <3>1 DEF Sweeps
    <3> QED BY <2>3, <3>2
  <2>5. scan' = [scan EXCEPT ![pr] =
                     [scan[pr] EXCEPT !.plan = [scan[pr].plan EXCEPT ![p] = NoDecision]]]
    BY <1>4 DEF ScanApply
  <2>6. scan' \in [Procs -> Sweeps]
    BY <2>4, <2>5
  <2> QED BY <1>4, <2>2, <2>6 DEF ScanApply
<1>5. CASE ScanAbort(pr)
  BY <1>5, ConstantTypes DEF ScanAbort, Modes
<1> QED BY <1>1, <1>2, <1>3, <1>4, <1>5 DEF Sweep

LEMMA DrainType ==
    ASSUME NEW pr \in Procs, TypeOK, Drain(pr)
    PROVE  TypeOK'
<1> USE DEF TypeOK, workerVars, watchVars, envVars
<1>0. ASSUME NothingDrained(pr)
      PROVE  drain' \in [Procs -> Drainings] /\ mode' \in [Procs -> Modes]
  BY <1>0, ConstantTypes DEF NothingDrained, Modes
<1>1. CASE ClaimPick(pr)
  <2>1. PickOldest(rows, lsn, BatchSize) \in SUBSET Paths
    BY DEF PickOldest, Pending
  <2>2. drain' \in [Procs -> Drainings] /\ mode' \in [Procs -> Modes]
    BY <1>0, <1>1, <2>1 DEF ClaimPick, Drainings
  <2> QED BY <1>1, <2>2 DEF ClaimPick
<1>2. CASE ClaimUpdate(pr)
  <2>1. drain[pr].picks \in SUBSET Paths
    BY DEF Drainings
  <2>2. rows' \in Table
    BY <1>2, <2>1, ClaimPicksType DEF ClaimUpdate
  <2>3. drain' \in [Procs -> Drainings] /\ mode' \in [Procs -> Modes]
    <3>1. CASE NothingDrained(pr)
      BY <1>0, <3>1
    <3>2. CASE drain' = [drain EXCEPT ![pr].phase = "updated"] /\ mode' = mode
      BY <3>2 DEF Drainings
    <3> QED BY <1>2, <3>1, <3>2 DEF ClaimUpdate
  <2> QED BY <1>2, <2>2, <2>3 DEF ClaimUpdate
<1>3. CASE ClaimSelect(pr)
  <2>1. drain' \in [Procs -> Drainings] /\ mode' \in [Procs -> Modes]
    BY <1>0, <1>3 DEF ClaimSelect, Drainings
  <2>2. job' \in [Procs -> [Paths -> Jobs]]
    BY <1>3, NewJobType DEF ClaimSelect, Table
  <2> QED BY <1>3, <2>1, <2>2 DEF ClaimSelect
<1>4. CASE BatchDone(pr)
  BY <1>4, ConstantTypes DEF BatchDone
<1> QED BY <1>1, <1>2, <1>3, <1>4 DEF Drain

LEMMA AttemptType ==
    ASSUME NEW j \in Jobs
    PROVE  /\ [j EXCEPT !.phase = "call", !.retries = j.retries + 1,
                        !.attempt = j.attempt + 1, !.version = 0] \in Jobs
           /\ [j EXCEPT !.phase = "fail",
                        !.verdict = IF j.retries < MaxTotalRetries
                                    THEN "true" ELSE "false"] \in Jobs
<1>1. /\ j.retries + 1 \in Nat /\ j.attempt + 1 \in Nat
      /\ "call" \in Phases /\ "fail" \in Phases
  BY DEF Jobs, Phases
<1>2. [j EXCEPT !.phase = "call", !.retries = j.retries + 1,
               !.attempt = j.attempt + 1, !.version = 0] \in Jobs
  BY <1>1 DEF Jobs
<1>3. [j EXCEPT !.phase = "fail",
               !.verdict = IF j.retries < MaxTotalRetries
                           THEN "true" ELSE "false"] \in Jobs
  BY <1>1 DEF Jobs
<1> QED BY <1>2, <1>3

LEMMA HandleType ==
    ASSUME NEW pr \in Procs, NEW p \in Paths, TypeOK, Handle(pr, p)
    PROVE  TypeOK'
<1> USE DEF TypeOK, workerVars, watchVars, envVars
<1>0. job[pr][p] \in Jobs
  OBVIOUS
<1>a. ASSUME NEW j \in Jobs, job' = [job EXCEPT ![pr][p] = j]
      PROVE  job' \in [Procs -> [Paths -> Jobs]]
  BY <1>a
<1>1. ASSUME NEW phase \in Phases, Goto(pr, p, phase)
      PROVE  job' \in [Procs -> [Paths -> Jobs]]
  <2>1. [job[pr][p] EXCEPT !.phase = phase] \in Jobs
    BY <1>0 DEF Jobs
  <2>2. job' = [job EXCEPT ![pr][p] = [job[pr][p] EXCEPT !.phase = phase]]
    BY <1>1 DEF Goto
  <2> QED BY <1>a, <2>1, <2>2
<1>2. "mark" \in Phases /\ "gone" \in Phases /\ "prune" \in Phases
  BY DEF Phases
<1>3. CASE HandleDeleted(pr, p)
  <2>1. job' \in [Procs -> [Paths -> Jobs]]
    BY <1>1, <1>2, <1>3 DEF HandleDeleted
  <2> QED BY <1>3, <2>1 DEF HandleDeleted
<1>4. CASE ReadFile(pr, p)
  <2>1. job' \in [Procs -> [Paths -> Jobs]]
    <3>1. CASE Goto(pr, p, "gone") \/ Goto(pr, p, "mark")
      BY <1>1, <1>2, <3>1
    <3>2. CASE job' = [job EXCEPT ![pr][p] = [@ EXCEPT !.phase   = "embed",
                                                       !.version = disk[p]]]
      <4>1. [job[pr][p] EXCEPT !.phase = "embed", !.version = disk[p]] \in Jobs
        BY <1>0 DEF Jobs, Phases
      <4> QED BY <1>a, <3>2, <4>1
    <3> QED BY <1>4, <3>1, <3>2 DEF ReadFile
  <2> QED BY <1>4, <2>1 DEF ReadFile
<1>5. CASE UpsertEntries(pr, p)
  <2>1. job' \in [Procs -> [Paths -> Jobs]]
    BY <1>1, <1>2, <1>5 DEF UpsertEntries
  <2> QED BY <1>5, <2>1 DEF UpsertEntries
<1>6. CASE DeleteStaleEntries(pr, p)
  <2>1. job' \in [Procs -> [Paths -> Jobs]]
    BY <1>1, <1>2, <1>6 DEF DeleteStaleEntries
  <2>2. job[pr][p].version \in Nat
    BY DEF Jobs
  <2> QED BY <1>6, <2>1, <2>2 DEF DeleteStaleEntries
<1>7. CASE FailTransient(pr, p)
  <2> DEFINE j == job[pr][p]
             again == [j EXCEPT !.phase = "call", !.retries = j.retries + 1,
                                !.attempt = j.attempt + 1, !.version = 0]
             giveUp == [j EXCEPT !.phase = "fail",
                                 !.verdict = IF j.retries < MaxTotalRetries
                                             THEN "true" ELSE "false"]
  <2>0. again \in Jobs /\ giveUp \in Jobs
    BY <1>0, AttemptType
  <2>1. job' \in [Procs -> [Paths -> Jobs]]
    <3>1. CASE j.attempt < MaxRetry
      <4>1. job' = [job EXCEPT ![pr][p] = again]
        BY <1>7, <3>1 DEF FailTransient
      <4> QED BY <1>a, <2>0, <4>1
    <3>2. CASE ~(j.attempt < MaxRetry)
      <4>1. job' = [job EXCEPT ![pr][p] = giveUp]
        BY <1>7, <3>2 DEF FailTransient
      <4> QED BY <1>a, <2>0, <4>1
    <3> QED BY <3>1, <3>2
  <2> QED BY <1>7, <2>1 DEF FailTransient
<1>8. CASE FailFatal(pr, p)
  <2>1. job' \in [Procs -> [Paths -> Jobs]]
    BY <1>0, <1>8 DEF FailFatal, Jobs, Phases
  <2> QED BY <1>8, <2>1 DEF FailFatal
<1>9. CASE ReportDone(pr, p)
  BY <1>9, MarkDoneType, ConstantTypes DEF ReportDone
<1>10. CASE ReportFailed(pr, p)
  <2>1. job[pr][p].verdict \in {"null", "true", "false"} /\ job[pr][p].retries \in Nat
    BY <1>0 DEF Jobs
  <2>2. rows' \in Table
    BY <1>10, <2>1, MarkFailedType DEF ReportFailed
  <2> QED BY <1>10, <2>2, ConstantTypes DEF ReportFailed
<1> QED BY <1>3, <1>4, <1>5, <1>6, <1>7, <1>8, <1>9, <1>10 DEF Handle

LEMMA ProcessType ==
    ASSUME NEW pr \in Procs, TypeOK,
           Cli(pr) \/ Crash(pr) \/ ServerStart \/ \E p \in Paths : ReportLost(p)
    PROVE  TypeOK'
<1> USE ProcsAssumption DEF TypeOK, workerVars, watchVars, envVars
<1>0. ASSUME NEW q \in Procs, NEW to \in Modes, Launch(q, to)
      PROVE  mode' \in [Procs -> Modes]
  BY <1>0 DEF Launch
<1>1. CASE ServerStart
  <2>1. mode' \in [Procs -> Modes]
    BY <1>0, <1>1 DEF ServerStart, Modes
  <2> QED BY <1>1, <2>1, RecoverOrphansType DEF ServerStart, Launch
<1>2. CASE CliSync(pr)
  <2>1. mode' \in [Procs -> Modes]
    BY <1>0, <1>2 DEF CliSync, Modes
  <2> QED BY <1>2, <2>1 DEF CliSync, Command, Launch
<1>3. ASSUME NEW p \in Paths, CliSyncPath(pr, p) PROVE TypeOK'
  <2>1. mode' \in [Procs -> Modes]
    BY <1>0, <1>3 DEF CliSyncPath, Modes
  <2>2. rows' \in Table /\ lsn' \in [Paths -> Nat]
    BY <1>3, UpsertType, NextLsnType DEF CliSyncPath, ForceEnqueue, Changes
  <2> QED BY <1>3, <2>1, <2>2 DEF CliSyncPath, Command, Launch
<1>4. CASE CliFixApply(pr)
  <2>1. mode' \in [Procs -> Modes]
    BY <1>0, <1>4 DEF CliFixApply, Modes
  <2> QED BY <1>4, <2>1, ResetRetryableType DEF CliFixApply, Command, Launch
<1>5. CASE CliRebuild(pr)
  <2>1. mode' \in [Procs -> Modes]
    BY <1>0, <1>5 DEF CliRebuild, Modes
  <2> QED BY <1>5, <2>1, NoRowType DEF CliRebuild, Command, Launch
<1>6. CASE RebuildDrop(pr)
  BY <1>6 DEF RebuildDrop, Modes
<1>7. CASE Crash(pr)
  BY <1>7, ConstantTypes DEF Crash, Modes
<1>8. ASSUME NEW p \in Paths, ReportLost(p) PROVE TypeOK'
  BY <1>8, ConstantTypes DEF ReportLost
<1> QED BY <1>1, <1>2, <1>3, <1>4, <1>5, <1>6, <1>7, <1>8 DEF Cli

LEMMA TypeNext == TypeOK /\ [Next]_vars => TypeOK'
<1> SUFFICES ASSUME TypeOK, [Next]_vars PROVE TypeOK'
  OBVIOUS
<1>1. CASE UNCHANGED vars
  BY <1>1 DEF vars, TypeOK
<1>2. CASE Next
  BY <1>2, EnvironmentType, WatchType, SweepType, DrainType, HandleType, ProcessType,
     ProcsAssumption DEF Next
<1> QED BY <1>1, <1>2

\* Every variable keeps its type, whatever the processes do.
THEOREM TypeCorrect == Spec => []TypeOK
BY TypeInit, TypeNext, PTL DEF Spec

--------------------------------------------------------------------------------
(* The budget of retries. *)

\* A handler begins with budget left or fails at once, each of its attempts costs one, and it
\* reports a failure as retryable only while there is budget left.
JobWithin(j) ==
    /\ j.attempt <= MaxRetry /\ j.retries < MaxTotalRetries + MaxRetry
    /\ j.phase \in Failable => j.retries < MaxTotalRetries + j.attempt
    /\ j.verdict = "true" => j.phase = "fail" /\ j.retries < MaxTotalRetries

RowWithin(row) ==
    /\ row.retryable = "true" => row.retries < MaxTotalRetries
    /\ row.retries < MaxTotalRetries + MaxRetry

BudgetInv ==
    /\ TypeOK
    /\ \A p \in Paths : RowWithin(rows[p])
    /\ \A pr \in Procs, p \in Paths : JobWithin(job[pr][p])

LEMMA NewWithin ==
    /\ RowWithin(NoRow) /\ JobWithin(NoJob)
    /\ \A row \in Row : RowWithin(row) => JobWithin(NewJob(row))
BY LimitsAssumption, MaxTotalRetriesAssumption
DEF RowWithin, JobWithin, NoRow, NoJob, NewJob, Row, Failable

LEMMA StatementsWithin ==
    ASSUME NEW t \in Table, \A p \in Paths : RowWithin(t[p])
    PROVE  /\ \A p \in Paths, change \in Changes, mtime \in Nat :
                  \A q \in Paths : RowWithin(Upsert(t, p, change, mtime)[q])
           /\ \A picks \in SUBSET Paths : \A q \in Paths : RowWithin(ClaimPicks(t, picks)[q])
           /\ \A p \in Paths : \A q \in Paths : RowWithin(MarkDone(t, p)[q])
           /\ \A q \in Paths : RowWithin(RecoverOrphans(t)[q]) /\ RowWithin(ResetRetryable(t)[q])
           /\ \A q \in Paths : RowWithin(ResetAll[q])
<1> USE LimitsAssumption, MaxTotalRetriesAssumption
<1>0. \A q \in Paths : t[q] \in Row
  BY DEF Table
<1>1. ASSUME NEW p \in Paths, NEW change \in Changes, NEW mtime \in Nat, NEW q \in Paths
      PROVE  RowWithin(Upsert(t, p, change, mtime)[q])
  <2>1. CASE q = p
    <3>1. Upsert(t, p, change, mtime)[q].retryable = "null"
          /\ Upsert(t, p, change, mtime)[q].retries \in {0, t[q].retries}
      BY <2>1 DEF Upsert, CarriedRetries, Table
    <3> QED BY <3>1 DEF RowWithin
  <2>2. CASE q # p
    BY <2>2, UpsertType
  <2> QED BY <2>1, <2>2
<1>2. ASSUME NEW r \in Row, NEW q \in Row, q.retryable \in {r.retryable, "null"},
             q.retries \in {r.retries, 0}, RowWithin(r)
      PROVE  RowWithin(q)
  BY <1>2 DEF RowWithin
<1>3. ASSUME NEW picks \in SUBSET Paths, NEW q \in Paths
      PROVE  RowWithin(ClaimPicks(t, picks)[q])
  BY <1>0 DEF ClaimPicks, RowWithin, Row
<1>4. ASSUME NEW p \in Paths, NEW q \in Paths
      PROVE  RowWithin(MarkDone(t, p)[q])
  BY <1>0 DEF MarkDone, RowWithin, Row, Table
<1>5. \A q \in Paths : RowWithin(RecoverOrphans(t)[q])
  BY <1>0 DEF RecoverOrphans, RowWithin, Row
<1>6. \A q \in Paths : RowWithin(ResetRetryable(t)[q])
  BY <1>0 DEF ResetRetryable, RowWithin, Row
<1>7. \A q \in Paths : RowWithin(ResetAll[q])
  BY NewWithin DEF ResetAll
<1> QED BY <1>1, <1>3, <1>4, <1>5, <1>6, <1>7

LEMMA HandleBudget ==
    ASSUME BudgetInv, NEW pr \in Procs, NEW p \in Paths, Handle(pr, p)
    PROVE  (\A q \in Paths : RowWithin(rows'[q])) /\ (\A q \in Procs, x \in Paths : JobWithin(job'[q][x]))
<1> DEFINE j == job[pr][p]
<1>0. /\ j \in Jobs /\ job \in [Procs -> [Paths -> Jobs]] /\ rows \in Table /\ JobWithin(j)
      /\ \A q \in Paths : RowWithin(rows[q])
      /\ \A q \in Procs, x \in Paths : JobWithin(job[q][x])
  BY DEF BudgetInv, TypeOK
<1> HIDE DEF j
<1>1. ASSUME NEW k \in Jobs, JobWithin(k), job' = [job EXCEPT ![pr][p] = k]
      PROVE  \A q \in Procs, x \in Paths : JobWithin(job'[q][x])
  BY <1>0, <1>1
<1>2. ASSUME NEW phase \in Phases \ {"fail"}, phase \in Failable => j.phase \in Failable,
             j.verdict # "true", Goto(pr, p, phase)
      PROVE  \A q \in Procs, x \in Paths : JobWithin(job'[q][x])
  <2> DEFINE k == [j EXCEPT !.phase = phase]
  <2>1. k \in Jobs /\ JobWithin(k)
    BY <1>0, <1>2 DEF Jobs, JobWithin
  <2>2. job' = [job EXCEPT ![pr][p] = k]
    BY <1>2 DEF Goto, j
  <2> HIDE DEF k
  <2> QED BY <1>1, <2>1, <2>2
<1>3. "mark" \in Phases \ {"fail"} /\ "gone" \in Phases \ {"fail"} /\ "prune" \in Phases \ {"fail"}
      /\ "mark" \notin Failable
  BY DEF Phases, Failable
<1>4. j.phase # "fail" => j.verdict # "true"
  BY <1>0 DEF JobWithin
<1>5. CASE HandleDeleted(pr, p)
  <2>1. rows' = rows /\ Goto(pr, p, "mark") /\ j.phase # "fail"
    BY <1>5 DEF HandleDeleted, j
  <2> QED BY <1>0, <1>2, <1>3, <1>4, <2>1
<1>6. CASE ReadFile(pr, p)
  <2>1. rows' = rows /\ j.phase = "call"
    BY <1>6 DEF ReadFile, j
  <2>2. CASE Goto(pr, p, "gone") \/ Goto(pr, p, "mark")
    BY <1>0, <1>2, <1>3, <1>4, <2>1, <2>2 DEF Failable
  <2>3. CASE job' = [job EXCEPT ![pr][p] = [@ EXCEPT !.phase   = "embed",
                                                     !.version = disk[p]]]
    <3> DEFINE k == [j EXCEPT !.phase = "embed", !.version = disk[p]]
    <3>1. disk[p] \in Nat
      BY DEF BudgetInv, TypeOK
    <3>2. k \in Jobs /\ JobWithin(k)
      BY <1>0, <1>4, <2>1, <3>1 DEF Jobs, JobWithin, Phases, Failable
    <3>3. job' = [job EXCEPT ![pr][p] = k]
      BY <2>3 DEF j
    <3> HIDE DEF k
    <3> QED BY <1>0, <1>1, <2>1, <3>2, <3>3
  <2> QED BY <1>6, <2>2, <2>3 DEF ReadFile
<1>7. CASE UpsertEntries(pr, p)
  <2>1. rows' = rows /\ Goto(pr, p, "prune") /\ j.phase = "embed"
    BY <1>7 DEF UpsertEntries, j
  <2> QED BY <1>0, <1>2, <1>3, <1>4, <2>1 DEF Failable
<1>8. CASE DeleteStaleEntries(pr, p)
  <2>1. rows' = rows /\ Goto(pr, p, "mark") /\ j.phase = "prune"
    BY <1>8 DEF DeleteStaleEntries, j
  <2> QED BY <1>0, <1>2, <1>3, <1>4, <2>1
<1>9. CASE FailTransient(pr, p)
  <2> DEFINE again  == [j EXCEPT !.phase = "call", !.retries = j.retries + 1,
                                 !.attempt = j.attempt + 1, !.version = 0]
             giveUp == [j EXCEPT !.phase = "fail",
                                 !.verdict = IF j.retries < MaxTotalRetries
                                             THEN "true" ELSE "false"]
  <2>1. again \in Jobs /\ giveUp \in Jobs
    BY <1>0, AttemptType
  <2>2. j.phase \in Failable /\ rows' = rows
    BY <1>9 DEF FailTransient, j
  <2>3. j.retries \in Nat /\ j.attempt \in Nat
    BY <1>0 DEF Jobs
  <2>4. CASE j.attempt < MaxRetry
    <3>1. /\ again.phase = "call" /\ again.retries = j.retries + 1
          /\ again.attempt = j.attempt + 1 /\ again.verdict = j.verdict
      BY <1>0 DEF Jobs
    <3>2. JobWithin(again)
      <4>1. j.retries < MaxTotalRetries + j.attempt /\ j.verdict # "true"
        BY <1>0, <1>4, <2>2 DEF JobWithin, Failable
      <4>2. again.attempt <= MaxRetry /\ again.retries < MaxTotalRetries + again.attempt
            /\ again.retries < MaxTotalRetries + MaxRetry
        <5> HIDE DEF again
        <5> QED BY <2>3, <2>4, <3>1, <4>1, LimitsAssumption, MaxTotalRetriesAssumption
      <4> QED BY <3>1, <4>1, <4>2 DEF JobWithin
    <3>3. job' = [job EXCEPT ![pr][p] = again]
      BY <1>9, <2>4 DEF FailTransient, j
    <3> HIDE DEF again
    <3> QED BY <1>0, <1>1, <2>1, <2>2, <3>2, <3>3
  <2>5. CASE ~(j.attempt < MaxRetry)
    <3>1. /\ giveUp.phase = "fail" /\ giveUp.retries = j.retries /\ giveUp.attempt = j.attempt
          /\ giveUp.verdict = IF j.retries < MaxTotalRetries THEN "true" ELSE "false"
      BY <1>0 DEF Jobs
    <3>2. JobWithin(giveUp)
      BY <1>0, <3>1 DEF JobWithin, Failable
    <3>3. job' = [job EXCEPT ![pr][p] = giveUp]
      BY <1>9, <2>5 DEF FailTransient, j
    <3> HIDE DEF giveUp
    <3> QED BY <1>0, <1>1, <2>1, <2>2, <3>2, <3>3
  <2> QED BY <2>4, <2>5
<1>10. CASE FailFatal(pr, p)
  <2> DEFINE k == [j EXCEPT !.phase = "fail", !.verdict = "false"]
  <2>1. k \in Jobs /\ JobWithin(k)
    BY <1>0 DEF Jobs, Phases, JobWithin, Failable
  <2>2. job' = [job EXCEPT ![pr][p] = k] /\ rows' = rows
    BY <1>10 DEF FailFatal, j
  <2> HIDE DEF k
  <2> QED BY <1>0, <1>1, <2>1, <2>2
<1>11. CASE ReportDone(pr, p)
  <2>1. rows' = MarkDone(rows, p) /\ job' = [job EXCEPT ![pr][p] = NoJob]
    BY <1>11 DEF ReportDone
  <2> QED BY <1>0, <1>1, <2>1, NewWithin, ConstantTypes, StatementsWithin
<1>12. CASE ReportFailed(pr, p)
  <2>1. rows' = MarkFailed(rows, p, j.verdict, j.retries) /\ job' = [job EXCEPT ![pr][p] = NoJob]
    BY <1>12 DEF ReportFailed, j
  <2>2. \A q \in Paths : RowWithin(rows'[q])
    <3> SUFFICES ASSUME NEW q \in Paths PROVE RowWithin(rows'[q])
      OBVIOUS
    <3>1. \/ rows'[q] = rows[q]
          \/ rows'[q].retryable = j.verdict /\ rows'[q].retries = j.retries
      BY <1>0, <2>1 DEF MarkFailed, Table, Row
    <3> QED BY <1>0, <3>1 DEF RowWithin, JobWithin
  <2> QED BY <1>1, <2>1, <2>2, NewWithin, ConstantTypes
<1> QED BY <1>5, <1>6, <1>7, <1>8, <1>9, <1>10, <1>11, <1>12 DEF Handle

LEMMA BudgetNext == BudgetInv /\ [Next]_vars => BudgetInv'
<1> SUFFICES ASSUME BudgetInv, [Next]_vars PROVE BudgetInv'
  OBVIOUS
<1>0. /\ TypeOK /\ TypeOK' /\ rows \in Table /\ \A q \in Paths : RowWithin(rows[q])
      /\ \A q \in Procs, x \in Paths : JobWithin(job[q][x])
  BY TypeNext DEF BudgetInv, TypeOK
<1>1. ASSUME job' = job, \A q \in Paths : RowWithin(rows'[q])
      PROVE  BudgetInv'
  BY <1>0, <1>1 DEF BudgetInv
<1>2. ASSUME UNCHANGED <<rows, job>>
      PROVE  BudgetInv'
  BY <1>0, <1>2 DEF BudgetInv
<1>3. ASSUME NEW p \in Paths, NEW change \in Changes, NEW mtime \in Nat, job' = job,
             rows' = Upsert(rows, p, change, mtime)
      PROVE  BudgetInv'
  BY <1>0, <1>1, <1>3, StatementsWithin
<1>4. CASE Environment \/ UNCHANGED vars
  BY <1>2, <1>4 DEF Environment, Write, Unlink, Restore, SpuriousEvent, workerVars, vars
<1>5. CASE Watch
  <2>1. ASSUME NEW e \in Event, WatcherLook(e) \/ WatcherStat(e)
        PROVE  BudgetInv'
    BY <1>2, <2>1 DEF WatcherLook, WatcherStat, workerVars
  <2>2. ASSUME NEW c \in calls, WatcherUpsert(c)
        PROVE  BudgetInv'
    <3>1. c.path \in Paths /\ c.change \in Changes /\ c.mtime \in Nat
      BY <1>0 DEF TypeOK, Call
    <3> QED BY <1>3, <2>2, <3>1 DEF WatcherUpsert, workerVars
  <2> QED BY <1>0, <1>5, <2>1, <2>2 DEF Watch, TypeOK
<1>6. ASSUME NEW pr \in Procs, Sweep(pr) \/ ScanAbort(pr)
      PROVE  BudgetInv'
  <2>1. CASE ScanWalk(pr) \/ ScanDecide(pr) \/ ScanEnd(pr) \/ ScanAbort(pr)
    BY <1>2, <2>1 DEF ScanWalk, ScanDecide, ScanEnd, ScanAbort, workerVars
  <2>2. ASSUME NEW p \in Paths, ScanApply(pr, p)
        PROVE  BudgetInv'
    <3>1. /\ scan[pr].plan[p] \in Decision \cup {NoDecision}
          /\ scan[pr].plan[p] # NoDecision
      BY <1>0, <2>2 DEF ScanApply, Planned, Sweeps, TypeOK
    <3>2. scan[pr].plan[p].change \in Changes /\ scan[pr].plan[p].mtime \in Nat
      BY <3>1 DEF Decision
    <3> QED BY <1>3, <2>2, <3>2 DEF ScanApply, workerVars
  <2> QED BY <1>6, <2>1, <2>2 DEF Sweep
<1>7. ASSUME NEW pr \in Procs, Drain(pr)
      PROVE  BudgetInv'
  <2>1. CASE ClaimPick(pr) \/ BatchDone(pr)
    BY <1>2, <2>1 DEF ClaimPick, BatchDone
  <2>2. CASE ClaimUpdate(pr)
    <3>1. drain[pr].picks \in SUBSET Paths
      BY <1>0 DEF TypeOK, Drainings
    <3> QED BY <1>0, <1>1, <2>2, <3>1, StatementsWithin DEF ClaimUpdate
  <2>3. CASE ClaimSelect(pr)
    <3>1. rows' = rows
      BY <2>3 DEF ClaimSelect
    <3>2. \A q \in Procs, x \in Paths : job'[q][x] \in {job[q][x], NewJob(rows[x])}
      BY <1>0, <2>3 DEF ClaimSelect, TypeOK
    <3>3. \A x \in Paths : JobWithin(NewJob(rows[x]))
      BY <1>0, NewWithin DEF Table
    <3> QED BY <1>0, <3>1, <3>2, <3>3 DEF BudgetInv
  <2> QED BY <1>7, <2>1, <2>2, <2>3 DEF Drain
<1>8. ASSUME NEW pr \in Procs, NEW p \in Paths, Handle(pr, p)
      PROVE  BudgetInv'
  BY <1>0, <1>8, HandleBudget DEF BudgetInv
<1>9. CASE ServerStart
  BY <1>0, <1>1, <1>9, StatementsWithin DEF ServerStart, Launch, workerVars
<1>10. ASSUME NEW pr \in Procs, Cli(pr)
       PROVE  BudgetInv'
  <2>1. CASE CliSync(pr) \/ RebuildDrop(pr)
    BY <1>2, <2>1 DEF CliSync, RebuildDrop, Launch, workerVars
  <2>2. CASE CliFixApply(pr)
    BY <1>0, <1>1, <2>2, StatementsWithin DEF CliFixApply, Launch, workerVars
  <2>3. CASE CliRebuild(pr)
    BY <1>0, <1>1, <2>3, StatementsWithin DEF CliRebuild, Launch, workerVars
  <2>4. ASSUME NEW p \in Paths, CliSyncPath(pr, p)
        PROVE  BudgetInv'
    BY <1>3, <2>4 DEF CliSyncPath, ForceEnqueue, Changes, Launch, workerVars
  <2> QED BY <1>10, <2>1, <2>2, <2>3, <2>4 DEF Cli
<1>11. ASSUME NEW pr \in Procs, Crash(pr)
       PROVE  BudgetInv'
  <2>1. rows' = rows /\ \A q \in Procs, x \in Paths : job'[q][x] \in {job[q][x], NoJob}
    BY <1>0, <1>11 DEF Crash, TypeOK
  <2> QED BY <1>0, <2>1, NewWithin DEF BudgetInv
<1>12. ASSUME NEW p \in Paths, ReportLost(p)
       PROVE  BudgetInv'
  <2>1. rows' = rows /\ \A q \in Procs, x \in Paths : job'[q][x] \in {job[q][x], NoJob}
    BY <1>0, <1>12, ProcsAssumption DEF ReportLost, TypeOK
  <2> QED BY <1>0, <2>1, NewWithin DEF BudgetInv
<1> QED BY <1>4, <1>5, <1>6, <1>7, <1>8, <1>9, <1>10, <1>11, <1>12 DEF Next

\* The retries of a path stay within its budget and the inline attempts of its last claim, and
\* a row is offered again only with budget left, whatever runs beside what.
THEOREM BudgetKept == Spec => []RetryBudget
<1>1. Init => BudgetInv
  BY TypeInit, NewWithin DEF Init, BudgetInv, ResetAll
<1>2. BudgetInv => RetryBudget
  BY DEF BudgetInv, RowWithin, RetryBudget
<1> QED BY <1>1, <1>2, BudgetNext, PTL DEF Spec

--------------------------------------------------------------------------------
(* What is settled is indexed exactly. *)

\* The three conditions under which the claim holds.  `cascade sync` beside a
\* server drops the first; a file restored with an old mtime drops the second; and the third goes
\* with a mark that raises, which leaves the batch's other handlers at work.
Careful == Exclusive /\ ~Restores /\ "db" \notin Faults

\* SettledInv without the type invariant.
Facts ==
    /\ VersionsBounded /\ OneProcess /\ WorkInDrain /\ ServerModes
    /\ HandledNotFinished /\ HandlerExact /\ FinishedExact

--------------------------------------------------------------------------------
(* The initial state. *)

LEMMA SettledInit == Init => SettledInv
<1> SUFFICES ASSUME Init PROVE SettledInv
  OBVIOUS
<1> USE DEF Init
<1>1. TypeOK
  BY TypeInit
<1>2. VersionsBounded
  BY DEF VersionsBounded, ResetAll, NoRow, NoScan, NoDecision
<1>3. OneProcess /\ WorkInDrain /\ ServerModes
  BY ProcsAssumption DEF OneProcess, WorkInDrain, ServerModes, Drains, NoDrain, Active,
     NoJob, NoScan, ResetAll, NoRow
<1>4. HandledNotFinished /\ HandlerExact /\ FinishedExact
  BY DEF HandledNotFinished, HandlerExact, FinishedExact, Active, Claimed, NoJob,
     ResetAll, NoRow
<1> QED BY <1>1, <1>2, <1>3, <1>4 DEF SettledInv

--------------------------------------------------------------------------------
LEMMA Numbers ==
    ASSUME TypeOK
    PROVE  /\ \A p \in Paths : disk[p] \in Nat /\ last[p] \in Nat /\ rows[p].mtime \in Nat
           /\ \A pr \in Procs, p \in Paths :
                  scan[pr].seen[p] \in Nat /\ scan[pr].plan[p].mtime \in Nat
           /\ \A c \in calls : c.path \in Paths /\ c.mtime \in Nat
<1> USE DEF TypeOK
<1>1. ASSUME NEW pr \in Procs, NEW p \in Paths PROVE scan[pr].plan[p].mtime \in Nat
  <2>1. scan[pr].plan[p] \in Decision \cup {NoDecision}
    BY DEF Sweeps
  <2> QED BY <2>1 DEF Decision, NoDecision
<1> QED BY <1>1 DEF Sweeps, Table, Row, Call

(* Who can be at work. *)

\* While a process is in a drain no other process has a handler.
LEMMA OneWorker ==
    ASSUME SettledInv, NEW pr \in Procs, NEW q \in Procs, q # pr, mode[pr] # "off"
    PROVE  /\ mode[q] = "off" /\ drain[q].phase = "idle"
           /\ \A p \in Paths : ~Active(q, p)
BY DEF SettledInv, OneProcess, WorkInDrain, Drains

\* A process with a handler runs, and drains.
LEMMA WorkerRuns ==
    ASSUME SettledInv, NEW pr \in Procs, NEW p \in Paths, Active(pr, p)
    PROVE  Drains(pr) /\ mode[pr] # "off"
BY DEF SettledInv, WorkInDrain, Drains

--------------------------------------------------------------------------------
(* The file system: a write makes the row stale, nothing makes a stale row
   fresh again. *)

LEMMA EnvironmentSettled ==
    ASSUME SettledInv, Careful, Environment
    PROVE  Facts'
<1> PICK p \in Paths : Write(p) \/ Unlink(p) \/ Restore(p) \/ SpuriousEvent(p)
  BY DEF Environment
<1> USE DEF SettledInv, TypeOK
<1>1. /\ UNCHANGED <<rows, index, mode, scan, drain, job, calls>>
      /\ \A q \in Paths : last[q] <= last'[q] /\ disk'[q] <= last'[q]
      /\ \A q \in Paths : disk'[q] = disk[q] \/ disk'[q] = 0 \/ disk'[q] > last[q]
  <2> USE DEF VersionsBounded, workerVars
  <2>1. CASE Write(p)
    BY <2>1 DEF Write
  <2>2. CASE Unlink(p)
    BY <2>2 DEF Unlink
  <2>3. CASE SpuriousEvent(p)
    BY <2>3 DEF SpuriousEvent, envVars
  <2>4. ~Restore(p)
    BY DEF Restore, Careful
  <2> QED BY <2>1, <2>2, <2>3, <2>4
<1>2. \A q \in Paths : last'[q] \in Nat /\ disk'[q] \in Nat
  BY EnvironmentType DEF Environment
<1>3. VersionsBounded'
  BY <1>1, <1>2, Numbers DEF VersionsBounded
<1>4. (OneProcess /\ WorkInDrain /\ HandledNotFinished)'
  BY <1>1 DEF OneProcess, WorkInDrain, HandledNotFinished, Drains, Active
<1>7. ServerModes'
  <2>1. mode[Server] = "off" => UNCHANGED <<events, looked>>
    BY DEF Write, Unlink, Restore, SpuriousEvent, Notify
  <2> QED BY <1>1, <2>1 DEF ServerModes
<1>5. \A q \in Paths : Fresh(q)' => Fresh(q) /\ disk'[q] = disk[q]
  BY <1>1, <1>2, Numbers DEF Fresh, VersionsBounded
<1>6. (HandlerExact /\ FinishedExact)'
  BY <1>1, <1>5 DEF HandlerExact, FinishedExact, Claimed, Active
<1> QED BY <1>3, <1>4, <1>6, <1>7 DEF Facts

--------------------------------------------------------------------------------
(* Queueing a path again: its row is pending, whatever a handler still does
   with the path no longer counts. *)

LEMMA Requeued ==
    ASSUME SettledInv, NEW p \in Paths,
           rows'[p].status = "pending",
           \A q \in Paths \ {p} : rows'[q] = rows[q],
           UNCHANGED <<disk, index, job>>
    PROVE  (HandledNotFinished /\ HandlerExact /\ FinishedExact)'
<1> USE DEF SettledInv
<1>1. HandledNotFinished'
  BY DEF HandledNotFinished, Active
<1>2. HandlerExact'
  <2>1. \A pr \in Procs, q \in Paths : Claimed(pr, q)' => q # p /\ Claimed(pr, q)
    BY DEF Claimed, Active
  <2>2. \A q \in Paths \ {p} : Fresh(q)' <=> Fresh(q)
    BY DEF Fresh
  <2> QED BY <2>1, <2>2 DEF HandlerExact
<1>3. FinishedExact'
  BY DEF FinishedExact, Fresh
<1> QED BY <1>1, <1>2, <1>3

LEMMA WatchSettled ==
    ASSUME SettledInv, Careful, Watch
    PROVE  Facts'
<1> USE DEF SettledInv, workerVars, envVars
<1>0. TypeOK /\ TypeOK'
  BY WatchType
<1>1. ASSUME NEW e \in events, WatcherLook(e) PROVE Facts'
  BY <1>1 DEF WatcherLook, Facts, VersionsBounded, OneProcess, WorkInDrain, ServerModes,
     HandledNotFinished, HandlerExact, FinishedExact, Drains, Active, Claimed, Fresh
<1>2. ASSUME NEW e \in looked, WatcherStat(e) PROVE Facts'
  <2>1. e.path \in Paths
    BY <1>0 DEF TypeOK, Event
  <2>2. VersionsBounded'
    BY <1>0, <1>2, <2>1, Numbers DEF WatcherStat, VersionsBounded
  <2>3. mode[Server] # "off"
    BY <1>2 DEF ServerModes
  <2>4. ServerModes'
    BY <1>2, <2>3 DEF WatcherStat, ServerModes
  <2> QED BY <1>2, <2>2, <2>4 DEF WatcherStat, Facts, OneProcess, WorkInDrain,
             HandledNotFinished, HandlerExact, FinishedExact, Drains, Active, Claimed, Fresh
<1>3. ASSUME NEW c \in calls, WatcherUpsert(c) PROVE Facts'
  <2>1. c.path \in Paths /\ c.change \in Changes /\ c.mtime \in Nat /\ rows \in Table
    BY <1>0 DEF TypeOK, Call
  <2>2. /\ rows'[c.path].status = "pending" /\ rows'[c.path].mtime = c.mtime
        /\ \A q \in Paths \ {c.path} : rows'[q] = rows[q]
    BY <1>3, <2>1, UpsertType DEF WatcherUpsert
  <2>3. VersionsBounded'
    BY <1>3, <2>1, <2>2 DEF WatcherUpsert, VersionsBounded
  <2>4. ServerModes'
    <3>1. mode[Server] = "serving"
      BY DEF ServerModes
    <3>2. \A pr \in Procs : mode[pr] # "dropping"
      BY <3>1, ProcsAssumption DEF OneProcess
    <3> QED BY <1>3, <3>1, <3>2 DEF WatcherUpsert, ServerModes
  <2>5. (OneProcess /\ WorkInDrain)'
    BY <1>3 DEF WatcherUpsert, OneProcess, WorkInDrain, Drains, Active
  <2>6. (HandledNotFinished /\ HandlerExact /\ FinishedExact)'
    BY <1>3, <2>1, <2>2, Requeued DEF WatcherUpsert
  <2> QED BY <2>3, <2>4, <2>5, <2>6 DEF Facts
<1> QED BY <1>1, <1>2, <1>3 DEF Watch

--------------------------------------------------------------------------------
(* The scanner. *)

LEMMA SweepSettled ==
    ASSUME SettledInv, Careful, NEW pr \in Procs, Sweep(pr) \/ ScanAbort(pr)
    PROVE  Facts'
<1> USE DEF SettledInv, workerVars, watchVars, envVars
<1>0. TypeOK /\ TypeOK'
  BY SweepType
<1>1. ASSUME UNCHANGED <<rows, index, disk, job>>
      PROVE  (HandledNotFinished /\ HandlerExact /\ FinishedExact)'
  BY <1>1 DEF HandledNotFinished, HandlerExact, FinishedExact, Active, Claimed, Fresh
<1>3. CASE ScanWalk(pr)
  <2>1. /\ scan'[pr].seen = disk /\ scan'[pr].plan = NoScan.plan
        /\ scan'[pr].phase = "walked"
        /\ \A q \in Procs \ {pr} : scan'[q] = scan[q]
    BY <1>0, <1>3 DEF ScanWalk, NoScan, TypeOK
  <2>2. VersionsBounded'
    BY <1>0, <1>3, <2>1, Numbers DEF ScanWalk, VersionsBounded, NoScan, NoDecision
  <2>3. WorkInDrain'
    BY <1>3, <2>1 DEF ScanWalk, WorkInDrain, Drains, Active
  <2> QED BY <1>1, <1>3, <2>2, <2>3 DEF ScanWalk, Facts, OneProcess, ServerModes
<1>4. CASE ScanDecide(pr)
  <2>1. /\ scan'[pr].seen = NoScan.seen /\ scan'[pr].phase = "apply"
        /\ scan'[pr].plan = Reconcile(scan[pr].seen, rows)
        /\ \A q \in Procs \ {pr} : scan'[q] = scan[q]
    BY <1>0, <1>4 DEF ScanDecide, NoScan, TypeOK
  <2>2. \A p \in Paths : scan'[pr].plan[p].mtime \in {0, scan[pr].seen[p], rows[p].mtime}
    BY <1>0, <2>1, Numbers, DecideType DEF Reconcile, TypeOK, Table
  <2>3. VersionsBounded'
    BY <1>0, <1>4, <2>1, <2>2, Numbers DEF ScanDecide, VersionsBounded, NoScan
  <2>4. WorkInDrain'
    BY <1>4, <2>1 DEF ScanDecide, WorkInDrain, Drains, Active
  <2> QED BY <1>1, <1>4, <2>3, <2>4 DEF ScanDecide, Facts, OneProcess, ServerModes
<1>5. CASE ScanEnd(pr) \/ ScanAbort(pr)
  <2>1. /\ scan'[pr] = NoScan
        /\ \A q \in Procs \ {pr} : scan'[q] = scan[q] /\ mode'[q] = mode[q]
        /\ \/ mode'[pr] = mode[pr]
           \/ mode[pr] = "scanning" /\ mode'[pr] \in {"draining", "off"}
        /\ UNCHANGED <<disk, last, rows, index, drain, job, events, looked, calls>>
    <3>1. CASE ScanEnd(pr)
      BY <1>0, <3>1 DEF ScanEnd, TypeOK
    <3>2. CASE ScanAbort(pr)
      BY <1>0, <3>2 DEF ScanAbort, TypeOK
    <3> QED BY <1>5, <3>1, <3>2
  <2>2. VersionsBounded'
    BY <1>0, <2>1, Numbers DEF VersionsBounded, NoScan, NoDecision
  <2>3. WorkInDrain'
    BY <2>1 DEF WorkInDrain, Drains, Active, NoScan
  <2>4. (OneProcess /\ ServerModes)'
    BY <2>1, ProcsAssumption DEF OneProcess, ServerModes
  <2> QED BY <1>1, <2>1, <2>2, <2>3, <2>4 DEF Facts
<1>6. ASSUME NEW p \in Paths, ScanApply(pr, p) PROVE Facts'
  <2>0. /\ scan[pr].plan[p] \in Decision \cup {NoDecision}
        /\ scan[pr].plan[p] # NoDecision
        /\ rows' = Upsert(rows, p, scan[pr].plan[p].change, scan[pr].plan[p].mtime)
    BY <1>0, <1>6 DEF ScanApply, Planned, Sweeps, TypeOK
  <2>1. /\ scan[pr].plan[p].change \in Changes /\ scan[pr].plan[p].mtime \in Nat
        /\ rows \in Table
    BY <1>0, <2>0 DEF Decision, TypeOK
  <2>2. /\ rows'[p].status = "pending" /\ rows'[p].mtime = scan[pr].plan[p].mtime
        /\ \A q \in Paths \ {p} : rows'[q] = rows[q]
    <3> DEFINE new == Upsert(rows, p, scan[pr].plan[p].change, scan[pr].plan[p].mtime)
    <3>1. /\ new[p].status = "pending" /\ new[p].mtime = scan[pr].plan[p].mtime
          /\ \A q \in Paths \ {p} : new[q] = rows[q]
      BY <2>1, UpsertType
    <3> QED BY <2>0, <3>1
  <2>3. /\ scan'[pr].seen = scan[pr].seen /\ scan'[pr].phase = scan[pr].phase
        /\ \A q \in Paths : scan'[pr].plan[q] \in {scan[pr].plan[q], NoDecision}
        /\ \A q \in Procs \ {pr} : scan'[q] = scan[q]
    <3>1. scan[pr] \in Sweeps /\ scan \in [Procs -> Sweeps]
      BY <1>0 DEF TypeOK
    <3>2. scan' = [scan EXCEPT ![pr] =
                       [scan[pr] EXCEPT !.plan = [scan[pr].plan EXCEPT ![p] = NoDecision]]]
      BY <1>6 DEF ScanApply
    <3>3. scan'[pr].plan = [scan[pr].plan EXCEPT ![p] = NoDecision]
      BY <3>1, <3>2 DEF Sweeps
    <3>4. \A q \in Paths : scan'[pr].plan[q] \in {scan[pr].plan[q], NoDecision}
      BY <3>1, <3>3 DEF Sweeps
    <3> QED BY <3>1, <3>2, <3>4 DEF Sweeps
  <2>4. VersionsBounded'
    <3>1. UNCHANGED <<disk, last, calls>>
      BY <1>6 DEF ScanApply, envVars, watchVars
    <3>2. \A q \in Paths : disk[q] <= last[q] /\ rows'[q].mtime <= last[q]
      BY <1>6, <2>2 DEF VersionsBounded
    <3>3. /\ scan'[pr].seen = scan[pr].seen
          /\ \A r \in Paths : scan'[pr].plan[r].mtime \in {scan[pr].plan[r].mtime, 0}
      BY <2>3 DEF NoDecision
    <3>4. \A r \in Paths : scan'[pr].seen[r] <= last[r] /\ scan'[pr].plan[r].mtime <= last[r]
      BY <1>0, <3>3, Numbers DEF VersionsBounded
    <3>5. \A q \in Procs, r \in Paths :
              scan'[q].seen[r] <= last[r] /\ scan'[q].plan[r].mtime <= last[r]
      BY <2>3, <3>4 DEF VersionsBounded
    <3>6. \A c \in calls : c.mtime <= last[c.path]
      BY DEF VersionsBounded
    <3> QED BY <3>1, <3>2, <3>5, <3>6 DEF VersionsBounded
  <2>5. mode[pr] \notin {"off", "draining", "dropping"}
    BY <1>6 DEF ScanApply, WorkInDrain
  <2>6. \A q \in Procs : mode[q] # "dropping"
    BY <2>5 DEF OneProcess
  <2>7. (OneProcess /\ ServerModes)'
    BY <1>6, <2>6 DEF ScanApply, OneProcess, ServerModes
  <2>8. WorkInDrain'
    BY <1>6, <2>3 DEF ScanApply, WorkInDrain, Drains, Active
  <2>9. (HandledNotFinished /\ HandlerExact /\ FinishedExact)'
    BY <1>6, <2>2, Requeued DEF ScanApply
  <2> QED BY <2>4, <2>7, <2>8, <2>9 DEF Facts
<1> QED BY <1>3, <1>4, <1>5, <1>6 DEF Sweep

--------------------------------------------------------------------------------
(* The worker: nobody has a handler when a claim turns rows to `processing`, so
   every claim's handler starts from the row it claimed. *)

LEMMA DrainSettled ==
    ASSUME SettledInv, NEW pr \in Procs, Drain(pr)
    PROVE  Facts'
<1> USE DEF SettledInv, watchVars, envVars
<1>0. TypeOK /\ TypeOK'
  BY DrainType
<1>1. Drains(pr) /\ \A q \in Procs, p \in Paths : Active(q, p) => q = pr
  <2>1. Drains(pr)
    BY DEF Drain, ClaimPick, ClaimUpdate, ClaimSelect, BatchDone, WorkInDrain
  <2> QED BY <2>1, OneWorker DEF Drains
\* What the claim and the drain do to modes and phases.
<1>2. ASSUME NothingDrained(pr)
      PROVE  /\ drain'[pr].phase = "idle"
             /\ \/ mode'[pr] = mode[pr]
                \/ mode[pr] = "draining" /\ mode'[pr] = "off"
             /\ \A q \in Procs \ {pr} : mode'[q] = mode[q] /\ drain'[q] = drain[q]
  BY <1>0, <1>2 DEF NothingDrained, NoDrain, TypeOK
<1>3. CASE ClaimPick(pr)
  <2>1. /\ drain'[pr].phase \in {"idle", "picked"} /\ drain[pr].phase = "idle"
        /\ \/ mode'[pr] = mode[pr]
           \/ mode[pr] = "draining" /\ mode'[pr] = "off" /\ drain'[pr].phase = "idle"
        /\ \A q \in Procs \ {pr} : mode'[q] = mode[q] /\ drain'[q] = drain[q]
    BY <1>0, <1>2, <1>3 DEF ClaimPick, TypeOK
  <2>2. (OneProcess /\ WorkInDrain /\ ServerModes)'
    BY <1>1, <1>3, <2>1, ProcsAssumption DEF ClaimPick, OneProcess, WorkInDrain, ServerModes, Drains, Active
  <2>3. VersionsBounded'
    BY <1>3 DEF ClaimPick, VersionsBounded
  <2>4. (HandledNotFinished /\ HandlerExact /\ FinishedExact)'
    BY <1>3 DEF ClaimPick, HandledNotFinished, HandlerExact, FinishedExact, Active, Claimed, Fresh
  <2> QED BY <2>2, <2>3, <2>4 DEF Facts
<1>4. CASE ClaimUpdate(pr)
  <2>1. /\ drain'[pr].phase \in {"idle", "updated"} /\ drain[pr].phase = "picked"
        /\ \/ mode'[pr] = mode[pr]
           \/ mode[pr] = "draining" /\ mode'[pr] = "off" /\ drain'[pr].phase = "idle"
        /\ \A q \in Procs \ {pr} : mode'[q] = mode[q] /\ drain'[q] = drain[q]
    BY <1>0, <1>2, <1>4 DEF ClaimUpdate, TypeOK, Drainings
  <2>2. \A q \in Procs, p \in Paths : ~Active(q, p)
    BY <1>1, <2>1 DEF WorkInDrain
  <2>3. \A p \in Paths :
           /\ rows'[p].mtime = rows[p].mtime
           /\ rows'[p] = rows[p] \/ rows'[p].status = "processing"
           /\ rows[p].status = "none" => rows'[p] = rows[p]
    BY <1>0, <1>4 DEF ClaimUpdate, ClaimPicks, TypeOK, Table, Row
  <2>4. \A q \in Procs : mode[q] # "dropping"
    BY <1>1 DEF OneProcess, Drains
  <2>5. (OneProcess /\ WorkInDrain /\ ServerModes)'
    BY <1>1, <1>4, <2>1, <2>2, <2>4, ProcsAssumption
       DEF ClaimUpdate, OneProcess, WorkInDrain, ServerModes, Drains, Active
  <2>6. VersionsBounded'
    BY <1>4, <2>3 DEF ClaimUpdate, VersionsBounded
  <2>7. (HandledNotFinished /\ HandlerExact)'
    BY <1>4, <2>2 DEF ClaimUpdate, HandledNotFinished, HandlerExact, Active, Claimed
  <2>8. FinishedExact'
    BY <1>4, <2>3 DEF ClaimUpdate, FinishedExact, Fresh
  <2> QED BY <2>5, <2>6, <2>7, <2>8 DEF Facts
<1>5. CASE ClaimSelect(pr)
  <2> DEFINE claimed == SelectClaimed(rows, drain[pr].picks)
  <2>1. /\ drain[pr].phase = "updated"
        /\ drain'[pr].phase = IF claimed = {} THEN "idle" ELSE "running"
        /\ \/ mode'[pr] = mode[pr]
           \/ mode[pr] = "draining" /\ mode'[pr] = "off" /\ claimed = {}
        /\ \A q \in Procs \ {pr} : mode'[q] = mode[q] /\ drain'[q] = drain[q]
    BY <1>0, <1>2, <1>5 DEF ClaimSelect, TypeOK
  <2>2. \A q \in Procs, p \in Paths : ~Active(q, p)
    BY <1>1, <2>1 DEF WorkInDrain
  <2>3. \A q \in Procs, p \in Paths :
           job'[q][p] = IF q = pr /\ p \in claimed THEN NewJob(rows[p]) ELSE job[q][p]
    BY <1>0, <1>5 DEF ClaimSelect, TypeOK
  <2>4. \A p \in claimed : rows[p].status = "processing"
    BY DEF SelectClaimed
  <2>5. \A p \in Paths : NewJob(rows[p]).phase \in {"call", "fail"} /\ NewJob(rows[p]).change = rows[p].change
    BY DEF NewJob, NoJob
  <2>6. \A q \in Procs, p \in Paths : Active(q, p)' => q = pr /\ p \in claimed
    BY <2>2, <2>3 DEF Active
  <2>7. (OneProcess /\ WorkInDrain /\ ServerModes)'
    BY <1>1, <1>5, <2>1, <2>6, ProcsAssumption
       DEF ClaimSelect, OneProcess, WorkInDrain, ServerModes, Drains
  <2>8. VersionsBounded'
    BY <1>5 DEF ClaimSelect, VersionsBounded
  <2>9. HandledNotFinished'
    BY <1>5, <2>4, <2>6 DEF ClaimSelect, HandledNotFinished
  <2>10. HandlerExact'
    BY <1>5, <2>3, <2>5, <2>6 DEF ClaimSelect, HandlerExact, Claimed, Fresh
  <2>11. FinishedExact'
    BY <1>5 DEF ClaimSelect, FinishedExact, Fresh
  <2> QED BY <2>7, <2>8, <2>9, <2>10, <2>11 DEF Facts
<1>6. CASE BatchDone(pr)
  <2>1. /\ drain'[pr].phase = "idle"
        /\ \A q \in Procs \ {pr} : drain'[q] = drain[q]
    BY <1>0, <1>6 DEF BatchDone, NoDrain, TypeOK
  <2>2. WorkInDrain'
    BY <1>6, <2>1 DEF BatchDone, Busy, WorkInDrain, Drains, Active
  <2>3. (VersionsBounded /\ OneProcess /\ ServerModes)'
    BY <1>6 DEF BatchDone, VersionsBounded, OneProcess, ServerModes
  <2>4. (HandledNotFinished /\ HandlerExact /\ FinishedExact)'
    BY <1>6 DEF BatchDone, HandledNotFinished, HandlerExact, FinishedExact, Active, Claimed, Fresh
  <2> QED BY <2>2, <2>3, <2>4 DEF Facts
<1> QED BY <1>3, <1>4, <1>5, <1>6 DEF Drain

--------------------------------------------------------------------------------
(* The handlers.  A step of the handler of p changes nothing but p's row, p's
   entries and that handler; what SettledInv says of these three is LocalFacts. *)

LocalFacts(pr, p) ==
    /\ Active(pr, p) => rows[p].status \in {"pending", "processing"}
    /\ job[pr][p].change = "deleted" => job[pr][p].phase \in {"none", "call", "mark", "fail"}
    /\ Claimed(pr, p) =>
         /\ job[pr][p].change = rows[p].change
         /\ rows[p].change = "deleted" /\ job[pr][p].phase = "mark" => index[p] = 0
         /\ rows[p].change = "changed" /\ Fresh(p) =>
              /\ job[pr][p].phase # "gone"
              /\ job[pr][p].phase \in {"embed", "prune"} => job[pr][p].version = disk[p]
              /\ job[pr][p].phase = "mark" => index[p] = disk[p]
    /\ rows[p].status = "done" =>
         /\ rows[p].change = "deleted" => index[p] = 0
         /\ rows[p].change = "changed" /\ Fresh(p) => index[p] = disk[p]

LEMMA HandleLocal ==
    ASSUME SettledInv, NEW pr \in Procs, NEW p \in Paths, Handle(pr, p)
    PROVE  /\ Active(pr, p)
           /\ UNCHANGED <<disk, last, mode, scan, drain, events, looked, calls>>
           /\ \A q \in Procs, x \in Paths : q # pr \/ x # p => job'[q][x] = job[q][x]
           /\ \A x \in Paths : x # p => rows'[x] = rows[x] /\ index'[x] = index[x]
           /\ rows'[p].mtime = rows[p].mtime
           /\ LocalFacts(pr, p)'
<1> DEFINE Frame ==
      /\ Active(pr, p)
      /\ UNCHANGED <<disk, last, mode, scan, drain, events, looked, calls>>
      /\ \A q \in Procs, x \in Paths : q # pr \/ x # p => job'[q][x] = job[q][x]
      /\ \A x \in Paths : x # p => rows'[x] = rows[x] /\ index'[x] = index[x]
      /\ rows'[p].mtime = rows[p].mtime
<1> SUFFICES Frame /\ LocalFacts(pr, p)'
  OBVIOUS
<1> USE DEF SettledInv, watchVars, envVars
<1>0. /\ job \in [Procs -> [Paths -> Jobs]] /\ job[pr][p] \in Jobs
      /\ index \in [Paths -> Nat \cup {Torn}] /\ disk \in [Paths -> Nat]
      /\ rows \in [Paths -> Row] /\ rows[p] \in Row
  BY DEF TypeOK, Table
<1>1. LocalFacts(pr, p)
  BY DEF LocalFacts, HandledNotFinished, HandlerExact, FinishedExact
\* Changes of one handler.
<1>2. ASSUME NEW j, job' = [job EXCEPT ![pr][p] = j]
      PROVE  /\ job'[pr][p] = j
             /\ \A q \in Procs, x \in Paths : q # pr \/ x # p => job'[q][x] = job[q][x]
  BY <1>0, <1>2
<1>3. ASSUME NEW phase, Goto(pr, p, phase)
      PROVE  /\ job'[pr][p] = [job[pr][p] EXCEPT !.phase = phase]
             /\ job'[pr][p].phase = phase /\ job'[pr][p].change = job[pr][p].change
             /\ job'[pr][p].version = job[pr][p].version
             /\ \A q \in Procs, x \in Paths : q # pr \/ x # p => job'[q][x] = job[q][x]
  <2>1. job' = [job EXCEPT ![pr][p] = [job[pr][p] EXCEPT !.phase = phase]]
    BY <1>3 DEF Goto
  <2> QED BY <1>0, <1>2, <2>1 DEF Jobs
<1>4. CASE HandleDeleted(pr, p)
  <2>1. Frame /\ index'[p] = 0 /\ rows' = rows /\ disk' = disk
    BY <1>0, <1>3, <1>4 DEF HandleDeleted, Active
  <2>2. job'[pr][p].phase = "mark" /\ job'[pr][p].change = job[pr][p].change
    BY <1>3, <1>4 DEF HandleDeleted
  <2>3. job[pr][p].phase = "gone" \/ job[pr][p].change = "deleted"
    BY <1>4 DEF HandleDeleted
  <2> QED BY <1>1, <2>1, <2>2, <2>3 DEF LocalFacts, Claimed, Active, Fresh
<1>5. CASE ReadFile(pr, p)
  <2>1. CASE disk[p] = 0
    <3>1. Goto(pr, p, "gone")
      BY <1>5, <2>1 DEF ReadFile
    <3>2. Frame /\ index' = index /\ rows' = rows /\ disk' = disk
      BY <1>3, <1>5, <3>1 DEF ReadFile, Active
    <3> QED BY <1>1, <1>3, <1>5, <2>1, <3>1, <3>2 DEF ReadFile, LocalFacts, Claimed, Active, Fresh
  <2>2. CASE disk[p] # 0 /\ index[p] = disk[p]
    <3>1. Goto(pr, p, "mark")
      BY <1>5, <2>2 DEF ReadFile
    <3>2. Frame /\ index' = index /\ rows' = rows /\ disk' = disk
      BY <1>3, <1>5, <3>1 DEF ReadFile, Active
    <3>3. job'[pr][p].phase = "mark" /\ job'[pr][p].change = job[pr][p].change
      BY <1>3, <3>1
    <3>4. job[pr][p].change = "changed"
      BY <1>5 DEF ReadFile
    <3> QED BY <1>1, <2>2, <3>2, <3>3, <3>4 DEF LocalFacts, Claimed, Active, Fresh
  <2>3. CASE disk[p] # 0 /\ index[p] # disk[p]
    <3> DEFINE j == [job[pr][p] EXCEPT !.phase = "embed", !.version = disk[p]]
    <3>1. job' = [job EXCEPT ![pr][p] = j]
      BY <1>5, <2>3 DEF ReadFile
    <3>2. j.phase = "embed" /\ j.version = disk[p] /\ j.change = job[pr][p].change
      BY <1>0 DEF Jobs
    <3>3. Frame /\ index' = index /\ rows' = rows /\ disk' = disk
      BY <1>2, <1>5, <3>1 DEF ReadFile, Active
    <3> HIDE DEF j
    <3> QED BY <1>1, <1>2, <1>5, <3>1, <3>2, <3>3 DEF ReadFile, LocalFacts, Claimed, Active, Fresh
  <2> QED BY <2>1, <2>2, <2>3
<1>6. CASE UpsertEntries(pr, p)
  <2>1. Frame /\ rows' = rows /\ disk' = disk
    BY <1>0, <1>3, <1>6 DEF UpsertEntries, Active
  <2>2. Goto(pr, p, "prune")
    BY <1>6 DEF UpsertEntries
  <2>3. job'[pr][p].phase = "prune" /\ job'[pr][p].change = job[pr][p].change
        /\ job'[pr][p].version = job[pr][p].version
    BY <1>3, <2>2
  <2>4. job[pr][p].phase = "embed"
    BY <1>6 DEF UpsertEntries
  <2> QED BY <1>1, <2>1, <2>3, <2>4 DEF LocalFacts, Claimed, Active, Fresh
<1>7. CASE DeleteStaleEntries(pr, p)
  <2>1. Frame /\ index'[p] = job[pr][p].version /\ rows' = rows /\ disk' = disk
    BY <1>0, <1>3, <1>7 DEF DeleteStaleEntries, Active
  <2>2. Goto(pr, p, "mark")
    BY <1>7 DEF DeleteStaleEntries
  <2> QED BY <1>1, <1>3, <1>7, <2>1, <2>2 DEF DeleteStaleEntries, LocalFacts, Claimed, Active, Fresh
<1>8. CASE FailTransient(pr, p) \/ FailFatal(pr, p)
  <2>1. PICK j \in Jobs : /\ job' = [job EXCEPT ![pr][p] = j]
                          /\ j.phase \in {"call", "fail"} /\ j.change = job[pr][p].change
    <3> DEFINE again  == [job[pr][p] EXCEPT !.phase = "call",
                                            !.retries = job[pr][p].retries + 1,
                                            !.attempt = job[pr][p].attempt + 1,
                                            !.version = 0]
               giveUp == [job[pr][p] EXCEPT !.phase = "fail",
                                            !.verdict = IF job[pr][p].retries < MaxTotalRetries
                                                        THEN "true" ELSE "false"]
               fail   == [job[pr][p] EXCEPT !.phase = "fail", !.verdict = "false"]
    <3>1. again \in Jobs /\ again.phase = "call" /\ again.change = job[pr][p].change
      <4>1. again \in Jobs
        BY <1>0, AttemptType
      <4> QED BY <1>0, <4>1 DEF Jobs
    <3>2. giveUp \in Jobs /\ giveUp.phase = "fail" /\ giveUp.change = job[pr][p].change
      BY <1>0 DEF Jobs, Phases
    <3>3. fail \in Jobs /\ fail.phase = "fail" /\ fail.change = job[pr][p].change
      BY <1>0 DEF Jobs, Phases
    <3>4. \/ job' = [job EXCEPT ![pr][p] = again]
          \/ job' = [job EXCEPT ![pr][p] = giveUp]
          \/ job' = [job EXCEPT ![pr][p] = fail]
      BY <1>8 DEF FailTransient, FailFatal
    <3> HIDE DEF again, giveUp, fail
    <3> QED BY <3>1, <3>2, <3>3, <3>4
  <2>2. Frame /\ index' = index /\ rows' = rows /\ disk' = disk
    BY <1>2, <1>8, <2>1 DEF FailTransient, FailFatal, Failable, Active
  <2> QED BY <1>1, <1>2, <2>1, <2>2 DEF LocalFacts, Claimed, Active, Fresh
<1>9. CASE ReportDone(pr, p)
  <2>1. /\ rows'[p].mtime = rows[p].mtime /\ rows'[p].change = rows[p].change
        /\ \A x \in Paths : x # p => rows'[x] = rows[x]
        /\ rows'[p] = rows[p] \/ rows[p].status = "processing"
    BY <1>0, <1>9 DEF ReportDone, MarkDone, Row
  <2>2. Frame /\ index' = index /\ disk' = disk /\ job'[pr][p] = NoJob
    BY <1>2, <1>9, <2>1 DEF ReportDone, Active
  <2> QED BY <1>1, <1>9, <2>1, <2>2 DEF ReportDone, LocalFacts, Claimed, Active, Fresh, NoJob
<1>10. CASE ReportFailed(pr, p)
  <2>1. /\ rows'[p].mtime = rows[p].mtime /\ rows'[p].change = rows[p].change
        /\ \A x \in Paths : x # p => rows'[x] = rows[x]
        /\ rows'[p] = rows[p] \/ rows'[p].status = "failed"
    BY <1>0, <1>10 DEF ReportFailed, MarkFailed, Row
  <2>2. Frame /\ index' = index /\ disk' = disk /\ job'[pr][p] = NoJob
    BY <1>2, <1>10, <2>1 DEF ReportFailed, Active
  <2> QED BY <1>1, <2>1, <2>2 DEF LocalFacts, Claimed, Active, Fresh, NoJob
<1> QED BY <1>4, <1>5, <1>6, <1>7, <1>8, <1>9, <1>10 DEF Handle

LEMMA HandleSettled ==
    ASSUME SettledInv, NEW pr \in Procs, NEW p \in Paths, Handle(pr, p)
    PROVE  Facts'
<1> USE DEF SettledInv
<1>1. /\ Drains(pr) /\ mode[pr] # "off"
      /\ \A q \in Procs, x \in Paths : Active(q, x) => q = pr
  BY HandleLocal, WorkerRuns, OneWorker
<1>2. (VersionsBounded /\ OneProcess)'
  BY HandleLocal DEF VersionsBounded, OneProcess
<1>3. WorkInDrain'
  BY HandleLocal, <1>1 DEF WorkInDrain, Drains, Active
<1>4. ServerModes'
  BY HandleLocal, <1>1 DEF ServerModes, OneProcess, Drains
<1>5. \A q \in Procs : q # pr => job'[q] = job[q]  \/ \A x \in Paths : job'[q][x] = job[q][x]
  BY HandleLocal
<1>6. HandledNotFinished'
  BY HandleLocal, <1>1 DEF HandledNotFinished, LocalFacts, Active
<1>7. HandlerExact'
  BY HandleLocal, <1>1 DEF HandlerExact, LocalFacts, Claimed, Active, Fresh
<1>8. FinishedExact'
  BY HandleLocal DEF FinishedExact, LocalFacts, Fresh
<1> QED BY <1>2, <1>3, <1>4, <1>6, <1>7, <1>8 DEF Facts

--------------------------------------------------------------------------------
(* Processes come and go: with one process at a time nobody is at work when one
   is launched, and a crash ends everything its process was doing. *)

LEMMA Launched ==
    ASSUME SettledInv, Exclusive, NEW pr \in Procs, NEW to \in Modes, Launch(pr, to)
    PROVE  /\ \A q \in Procs : /\ mode[q] = "off" /\ drain[q].phase = "idle"
                               /\ scan[q].phase = "idle"
                               /\ mode'[q] = IF q = pr THEN to ELSE "off"
           /\ \A q \in Procs, p \in Paths : ~Active(q, p)
           /\ calls = {} /\ events = {} /\ looked = {}
           /\ OneProcess' /\ WorkInDrain'
           /\ UNCHANGED <<disk, last, scan, drain, job, events, looked, calls>>
<1> USE DEF SettledInv
<1>1. /\ mode \in [Procs -> Modes] /\ \A q \in Procs : mode[q] = "off"
      /\ mode' = [mode EXCEPT ![pr] = to]
      /\ UNCHANGED <<disk, last, scan, drain, job, events, looked, calls>>
  BY DEF Launch, TypeOK, envVars, workerVars, watchVars
<1>2. \A q \in Procs : /\ drain[q].phase = "idle" /\ scan[q].phase = "idle"
                       /\ \A p \in Paths : ~Active(q, p)
  BY <1>1 DEF WorkInDrain, Drains
<1>3. \A q \in Procs : mode'[q] = IF q = pr THEN to ELSE "off"
  BY <1>1
<1>4. OneProcess'
  BY <1>3 DEF OneProcess
<1>5. WorkInDrain'
  BY <1>1, <1>2 DEF WorkInDrain, Active
<1> QED BY <1>1, <1>2, <1>3, <1>4, <1>5, ProcsAssumption DEF ServerModes

LEMMA ProcessSettled ==
    ASSUME SettledInv, Careful, NEW pr \in Procs,
           Cli(pr) \/ Crash(pr) \/ ServerStart
    PROVE  Facts'
<1> USE DEF SettledInv
<1>0. TypeOK /\ rows \in [Paths -> Row] /\ rows \in Table
  BY DEF TypeOK, Table
\* While nobody works, the handlers' conjuncts say nothing.
<1>1. ASSUME \A q \in Procs, p \in Paths : ~Active(q, p), job' = job
      PROVE  (HandledNotFinished /\ HandlerExact)'
  BY <1>1 DEF HandledNotFinished, HandlerExact, Active, Claimed
<1>2. CASE ServerStart
  <2>1. Launch(Server, "serving") /\ "serving" \in Modes /\ index' = index
    BY <1>2 DEF ServerStart, Modes
  <2>2. \A p \in Paths : /\ rows'[p].mtime = rows[p].mtime
                         /\ rows'[p].status = "done" => rows'[p] = rows[p]
    BY <1>0, <1>2 DEF ServerStart, RecoverOrphans, Row
  <2>3. VersionsBounded'
    BY <2>1, <2>2, Launched, ProcsAssumption DEF Careful, VersionsBounded
  <2>4. ServerModes'
    BY <2>1, Launched, ProcsAssumption DEF Careful, ServerModes
  <2>5. FinishedExact'
    BY <2>1, <2>2, Launched, ProcsAssumption DEF Careful, FinishedExact, Fresh
  <2> QED BY <1>1, <2>1, <2>3, <2>4, <2>5, Launched, ProcsAssumption DEF Careful, Facts
<1>3. CASE CliSync(pr)
  <2>1. Launch(pr, "scanning") /\ "scanning" \in Modes /\ pr # Server
        /\ index' = index /\ rows' = rows
    BY <1>3 DEF CliSync, Command, Clis, Modes
  <2>2. VersionsBounded'
    BY <2>1, Launched DEF Careful, VersionsBounded
  <2>3. ServerModes'
    BY <2>1, Launched, ProcsAssumption DEF Careful, ServerModes
  <2>4. FinishedExact'
    BY <2>1, Launched DEF Careful, FinishedExact, Fresh
  <2> QED BY <1>1, <2>1, <2>2, <2>3, <2>4, Launched DEF Careful, Facts
<1>4. ASSUME NEW x \in Paths, CliSyncPath(pr, x) PROVE Facts'
  <2>1. Launch(pr, "scanning") /\ "scanning" \in Modes /\ pr # Server /\ index' = index
    BY <1>4 DEF CliSyncPath, Command, Clis, Modes
  <2>2. /\ rows'[x].status = "pending" /\ rows'[x].mtime = 0
        /\ \A p \in Paths : p # x => rows'[p] = rows[p]
    BY <1>0, <1>4, UpsertType DEF CliSyncPath, ForceEnqueue, Changes
  <2>3. VersionsBounded'
    BY <1>0, <2>1, <2>2, Launched, Numbers DEF Careful, VersionsBounded
  <2>4. ServerModes'
    BY <2>1, Launched, ProcsAssumption DEF Careful, ServerModes
  <2>5. FinishedExact'
    BY <2>1, <2>2, Launched DEF Careful, FinishedExact, Fresh
  <2> QED BY <1>1, <2>1, <2>3, <2>4, <2>5, Launched DEF Careful, Facts
<1>5. CASE CliFixApply(pr)
  <2> DEFINE to == IF Retryable(rows) # {} THEN "draining" ELSE "off"
  <2>1. Launch(pr, to) /\ to \in Modes /\ pr # Server /\ index' = index /\ to # "dropping"
    BY <1>5 DEF CliFixApply, Command, Clis, Modes
  <2>2. \A p \in Paths : /\ rows'[p].mtime = rows[p].mtime
                         /\ rows'[p].status = "done" => rows'[p] = rows[p]
    BY <1>0, <1>5 DEF CliFixApply, ResetRetryable, Row
  <2> HIDE DEF to
  <2>3. VersionsBounded'
    BY <2>1, <2>2, Launched DEF Careful, VersionsBounded
  <2>4. ServerModes'
    BY <2>1, Launched, ProcsAssumption DEF Careful, ServerModes
  <2>5. FinishedExact'
    BY <2>1, <2>2, Launched DEF Careful, FinishedExact, Fresh
  <2> QED BY <1>1, <2>1, <2>3, <2>4, <2>5, Launched DEF Careful, Facts
<1>6. CASE CliRebuild(pr)
  <2>1. Launch(pr, "dropping") /\ "dropping" \in Modes /\ pr # Server /\ index' = index
    BY <1>6 DEF CliRebuild, Command, Clis, Modes
  <2>2. \A p \in Paths : rows'[p].mtime = 0 /\ rows'[p].status = "none"
    BY <1>6 DEF CliRebuild, ResetAll, NoRow
  <2>3. VersionsBounded'
    BY <1>0, <2>1, <2>2, Launched, Numbers DEF Careful, VersionsBounded
  <2>4. ServerModes'
    BY <2>1, <2>2, Launched, ProcsAssumption DEF Careful, ServerModes
  <2>5. FinishedExact'
    BY <2>2 DEF FinishedExact
  <2> QED BY <1>1, <2>1, <2>3, <2>4, <2>5, Launched DEF Careful, Facts
<1>7. CASE RebuildDrop(pr)
  <2>1. /\ mode[pr] = "dropping" /\ mode'[pr] = "scanning"
        /\ \A q \in Procs : q # pr => mode'[q] = mode[q]
        /\ UNCHANGED <<disk, last, rows, scan, drain, job, events, looked, calls>>
    BY <1>0, <1>7 DEF RebuildDrop, TypeOK, envVars, workerVars, watchVars
  <2>2. \A p \in Paths : rows[p].status = "none"
    BY <2>1 DEF ServerModes
  <2>3. \A q \in Procs, p \in Paths : ~Active(q, p)
    BY <2>2 DEF HandledNotFinished
  <2>4. VersionsBounded'
    BY <2>1 DEF VersionsBounded
  <2>5. (OneProcess /\ WorkInDrain /\ ServerModes)'
    BY <2>1, <2>2, <2>3, ProcsAssumption DEF OneProcess, WorkInDrain, ServerModes, Drains, Active
  <2>6. FinishedExact'
    BY <2>1, <2>2 DEF FinishedExact
  <2> QED BY <1>1, <2>1, <2>3, <2>4, <2>5, <2>6 DEF Facts
<1>8. CASE Crash(pr)
  <2>1. /\ mode'[pr] = "off" /\ scan'[pr] = NoScan /\ drain'[pr] = NoDrain
        /\ \A p \in Paths : job'[pr][p] = NoJob
        /\ \A q \in Procs : q # pr => /\ mode'[q] = mode[q] /\ scan'[q] = scan[q]
                                     /\ drain'[q] = drain[q] /\ job'[q] = job[q]
        /\ UNCHANGED <<disk, last, rows, index>>
    BY <1>0, <1>8 DEF Crash, TypeOK, envVars
  <2>2. /\ pr = Server => events' = {} /\ looked' = {} /\ calls' = {}
        /\ pr # Server => UNCHANGED <<events, looked, calls>>
    BY <1>8 DEF Crash, watchVars
  <2>3. VersionsBounded'
    BY <1>0, <2>1, <2>2, Numbers DEF VersionsBounded, NoScan, NoDecision
  <2>4. (OneProcess /\ ServerModes)'
    BY <2>1, <2>2, ProcsAssumption DEF OneProcess, ServerModes
  <2>5. WorkInDrain'
    BY <2>1 DEF WorkInDrain, Drains, Active, NoScan, NoDrain, NoJob
  <2>6. HandledNotFinished'
    BY <2>1 DEF HandledNotFinished, Active, NoJob
  <2>7. HandlerExact'
    BY <2>1 DEF HandlerExact, Claimed, Active, Fresh, NoJob
  <2>8. FinishedExact'
    BY <2>1 DEF FinishedExact, Fresh
  <2> QED BY <2>3, <2>4, <2>5, <2>6, <2>7, <2>8 DEF Facts
<1> QED BY <1>2, <1>3, <1>4, <1>5, <1>6, <1>7, <1>8 DEF Cli

--------------------------------------------------------------------------------
(* The theorems. *)

LEMMA SettledNext == Careful /\ SettledInv /\ [Next]_vars => SettledInv'
<1> SUFFICES ASSUME Careful, SettledInv, [Next]_vars PROVE SettledInv'
  OBVIOUS
<1>1. TypeOK'
  BY TypeNext DEF SettledInv
<1>2. Facts'
  <2>1. CASE UNCHANGED vars
    BY <2>1 DEF vars, SettledInv, Facts, VersionsBounded, OneProcess, WorkInDrain, ServerModes,
       HandledNotFinished, HandlerExact, FinishedExact, Drains, Active, Claimed, Fresh
  <2>2. \A p \in Paths : ~ReportLost(p)
    BY DEF ReportLost, Careful
  <2>3. CASE Next
    BY <2>2, <2>3, EnvironmentSettled, WatchSettled, SweepSettled, DrainSettled,
       HandleSettled, ProcessSettled, ProcsAssumption DEF Next
  <2> QED BY <2>1, <2>3
<1> QED BY <1>1, <1>2 DEF SettledInv, Facts

LEMMA InvSettles == SettledInv => SettledIndexed
BY DEF SettledInv, FinishedExact, SettledIndexed, Settled, Fresh, TypeOK, Table, Row, Changes

\* The inductive invariant of the cascade: handlers, claims and finished rows
\* agree on what the index holds.
THEOREM SettledInvariant ==
    ASSUME Careful
    PROVE  Spec => []SettledInv
BY SettledInit, SettledNext, PTL DEF Spec

\* One process at a time, files whose mtime never comes back and marks that reach
\* the database: whatever else happens, a path the cascade calls settled is
\* indexed exactly as it is on disk.
THEOREM SettledCorrect ==
    ASSUME Careful
    PROVE  Spec => []SettledIndexed
BY SettledInvariant, InvSettles, PTL

--------------------------------------------------------------------------------
(* No claimed row is forgotten. *)

\* While the server runs a claimed row is between the two statements of its claim, or in the
\* hands of a handler.
ClaimsHeld ==
    mode[Server] = "serving" =>
        \A p \in Paths : rows[p].status = "processing" =>
            \/ drain[Server].phase = "updated" /\ p \in drain[Server].picks
            \/ drain[Server].phase = "running" /\ Active(Server, p)

LEMMA ClaimsNext == Careful /\ SettledInv /\ ClaimsHeld /\ [Next]_vars => ClaimsHeld'
<1> SUFFICES ASSUME Careful, SettledInv, ClaimsHeld, [Next]_vars, mode'[Server] = "serving",
                    NEW p \in Paths, rows'[p].status = "processing"
             PROVE  \/ drain'[Server].phase = "updated" /\ p \in drain'[Server].picks
                    \/ drain'[Server].phase = "running" /\ Active(Server, p)'
  BY DEF ClaimsHeld
<1> USE ProcsAssumption
<1>0. TypeOK /\ rows \in Table /\ \A q \in Paths : rows[q] \in Row
  BY DEF SettledInv, TypeOK, Table
<1> DEFINE Held == \/ drain'[Server].phase = "updated" /\ p \in drain'[Server].picks
                   \/ drain'[Server].phase = "running" /\ Active(Server, p)'
\* A step that claims nothing and leaves the server's drain alone.
<1>1. ASSUME mode[Server] = "serving", rows[p].status = "processing",
             drain'[Server] = drain[Server], job'[Server][p] = job[Server][p]
      PROVE  Held
  BY <1>1 DEF ClaimsHeld, Active
<1>2. ASSUME mode[Server] = "serving"
      PROVE  \A pr \in Procs : pr # Server => mode[pr] = "off" /\ drain[pr].phase = "idle"
                                              /\ scan[pr].phase = "idle" /\ \A q \in Paths : ~Active(pr, q)
  BY <1>2 DEF SettledInv, OneProcess, WorkInDrain, Drains
<1>3. CASE Environment \/ UNCHANGED vars
  BY <1>1, <1>3 DEF Environment, Write, Unlink, Restore, SpuriousEvent, workerVars, vars
<1>4. ASSUME NEW q \in Paths, NEW change \in Changes, NEW mtime \in Nat,
             rows' = Upsert(rows, q, change, mtime)
      PROVE  rows[p].status = "processing"
  <2>1. p # q
    BY <1>0, <1>4, UpsertType
  <2> QED BY <1>0, <1>4, <2>1, UpsertType
<1>5. CASE Watch
  <2>1. mode' = mode /\ drain' = drain /\ job' = job
    BY <1>5 DEF Watch, WatcherLook, WatcherStat, WatcherUpsert, workerVars
  <2>2. ASSUME NEW c \in calls, WatcherUpsert(c)
        PROVE  rows[p].status = "processing"
    <3>1. c.path \in Paths /\ c.change \in Changes /\ c.mtime \in Nat
      BY <1>0 DEF TypeOK, Call
    <3> QED BY <1>4, <2>2, <3>1 DEF WatcherUpsert
  <2>3. rows[p].status = "processing"
    BY <1>5, <2>2 DEF Watch, WatcherLook, WatcherStat
  <2> QED BY <1>1, <2>1, <2>3
<1>6. ASSUME NEW pr \in Procs, Sweep(pr) \/ ScanAbort(pr)
      PROVE  Held
  <2>1. drain' = drain /\ job' = job
    BY <1>6 DEF Sweep, ScanWalk, ScanDecide, ScanEnd, ScanApply, ScanAbort, workerVars
  <2>2. mode[Server] = "serving"
    BY <1>0, <1>6 DEF Sweep, ScanWalk, ScanDecide, ScanEnd, ScanApply, ScanAbort, TypeOK
  <2>3. ASSUME NEW q \in Paths, ScanApply(pr, q)
        PROVE  rows[p].status = "processing"
    <3>1. /\ scan[pr].plan[q] \in Decision \cup {NoDecision}
          /\ scan[pr].plan[q] # NoDecision
      BY <1>0, <2>3 DEF ScanApply, Planned, Sweeps, TypeOK
    <3>2. scan[pr].plan[q].change \in Changes /\ scan[pr].plan[q].mtime \in Nat
      BY <3>1 DEF Decision
    <3> QED BY <1>4, <2>3, <3>2 DEF ScanApply
  <2>4. rows[p].status = "processing"
    BY <1>6, <2>3 DEF Sweep, ScanWalk, ScanDecide, ScanEnd, ScanAbort
  <2> QED BY <1>1, <2>1, <2>2, <2>4
<1>7. ASSUME NEW pr \in Procs, Drain(pr)
      PROVE  Held
  <2>1. Drains(pr)
    BY <1>7 DEF Drain, ClaimPick, ClaimUpdate, ClaimSelect, BatchDone, SettledInv, WorkInDrain
  <2>2. mode[Server] = "serving"
    BY <1>0, <1>7 DEF Drain, ClaimPick, ClaimUpdate, ClaimSelect, BatchDone, NothingDrained, TypeOK
  <2>3. pr = Server
    BY <1>2, <2>1, <2>2 DEF Drains
  <2>4. /\ drain \in [Procs -> Drainings] /\ job \in [Procs -> [Paths -> Jobs]]
        /\ drain[Server] \in Drainings
    BY <1>0 DEF TypeOK
  <2>5. CASE ClaimPick(Server)
    BY <2>2, <2>5 DEF ClaimPick, ClaimsHeld
  <2>6. CASE ClaimUpdate(Server)
    <3>1. drain[Server].phase = "picked" /\ rows' = ClaimPicks(rows, drain[Server].picks)
      BY <2>6 DEF ClaimUpdate
    <3>2. rows[p].status # "processing"
      BY <2>2, <3>1 DEF ClaimsHeld
    <3>3. p \in drain[Server].picks \cap Pending(rows)
      BY <3>1, <3>2 DEF ClaimPicks, Pending
    <3>4. drain' = [drain EXCEPT ![Server].phase = "updated"]
      BY <2>6, <3>3 DEF ClaimUpdate
    <3>5. drain'[Server].phase = "updated" /\ drain'[Server].picks = drain[Server].picks
      BY <2>4, <3>4 DEF Drainings
    <3> QED BY <3>3, <3>5
  <2>7. CASE ClaimSelect(Server)
    <3>1. drain[Server].phase = "updated" /\ rows' = rows
      BY <2>7 DEF ClaimSelect
    <3>2. p \in SelectClaimed(rows, drain[Server].picks)
      BY <2>2, <3>1 DEF ClaimsHeld, SelectClaimed
    <3>3. drain'[Server].phase = "running"
      BY <2>4, <2>7, <3>2 DEF ClaimSelect
    <3>4. job'[Server][p] = NewJob(rows[p])
      BY <2>4, <2>7, <3>2 DEF ClaimSelect
    <3> QED BY <3>3, <3>4 DEF Active, NewJob, NoJob
  <2>8. CASE BatchDone(Server)
    BY <2>2, <2>8 DEF BatchDone, Busy, ClaimsHeld, Active
  <2> QED BY <1>7, <2>3, <2>5, <2>6, <2>7, <2>8 DEF Drain
<1>8. ASSUME NEW pr \in Procs, NEW q \in Paths, Handle(pr, q)
      PROVE  Held
  <2>1. Active(pr, q)
    BY <1>8
    DEF Handle, HandleDeleted, ReadFile, UpsertEntries, DeleteStaleEntries, FailTransient,
        FailFatal, ReportDone, ReportFailed, Failable, Active
  <2>2. mode' = mode /\ drain' = drain
    BY <1>8
    DEF Handle, HandleDeleted, ReadFile, UpsertEntries, DeleteStaleEntries, FailTransient,
        FailFatal, ReportDone, ReportFailed
  <2>3. pr = Server
    BY <1>2, <2>1, <2>2
  <2>4. rows[p].status = "processing"
    BY <1>0, <1>8
    DEF Handle, HandleDeleted, ReadFile, UpsertEntries, DeleteStaleEntries, FailTransient,
        FailFatal, ReportDone, ReportFailed, MarkDone, MarkFailed, Table, Row
  <2>5. CASE p # q
    <3>1. job'[Server][p] = job[Server][p]
      <4>1. PICK j : job' = [job EXCEPT ![pr][q] = j]
        BY <1>8
        DEF Handle, HandleDeleted, ReadFile, UpsertEntries, DeleteStaleEntries, FailTransient,
            FailFatal, ReportDone, ReportFailed, Goto
      <4> QED BY <1>0, <2>5, <4>1 DEF TypeOK
    <3> QED BY <1>1, <2>2, <2>4, <3>1
  <2>6. CASE p = q
    <3>1. drain[Server].phase = "running"
      BY <2>1, <2>3 DEF SettledInv, WorkInDrain
    <3>2. ~ReportDone(pr, q) /\ ~ReportFailed(pr, q)
      <4>1. MarkDone(rows, p)[p].status = "done"
        BY <1>0, <2>4 DEF MarkDone, Table, Row
      <4>2. \A verdict, retries : MarkFailed(rows, p, verdict, retries)[p].status = "failed"
        BY <1>0, <2>4 DEF MarkFailed, Table, Row
      <4> QED BY <2>6, <4>1, <4>2 DEF ReportDone, ReportFailed
    <3>3. job[pr][q] \in Jobs /\ job \in [Procs -> [Paths -> Jobs]]
      BY <1>0 DEF TypeOK
    <3>4. job'[pr][q].phase # "none"
      <4>1. ASSUME NEW phase, phase # "none", Goto(pr, q, phase)
            PROVE  job'[pr][q].phase # "none"
        BY <3>3, <4>1 DEF Goto, Jobs
      <4>2. CASE HandleDeleted(pr, q) \/ UpsertEntries(pr, q) \/ DeleteStaleEntries(pr, q)
        BY <4>1, <4>2 DEF HandleDeleted, UpsertEntries, DeleteStaleEntries
      <4>3. CASE ReadFile(pr, q)
        <5>1. CASE job' = [job EXCEPT ![pr][q] = [@ EXCEPT !.phase = "embed", !.version = disk[q]]]
          <6>1. [job[pr][q] EXCEPT !.phase = "embed", !.version = disk[q]].phase = "embed"
            BY <3>3 DEF Jobs
          <6> QED BY <3>3, <5>1, <6>1
        <5> QED BY <4>1, <4>3, <5>1 DEF ReadFile
      <4>4. CASE FailFatal(pr, q)
        <5>1. [job[pr][q] EXCEPT !.phase = "fail", !.verdict = "false"].phase = "fail"
          BY <3>3 DEF Jobs
        <5> QED BY <3>3, <4>4, <5>1 DEF FailFatal
      <4>5. CASE FailTransient(pr, q)
        <5> DEFINE again  == [job[pr][q] EXCEPT !.phase = "call",
                                                !.retries = job[pr][q].retries + 1,
                                                !.attempt = job[pr][q].attempt + 1,
                                                !.version = 0]
                   giveUp == [job[pr][q] EXCEPT !.phase = "fail",
                                                !.verdict = IF job[pr][q].retries < MaxTotalRetries
                                                            THEN "true" ELSE "false"]
        <5>1. again.phase = "call" /\ giveUp.phase = "fail"
          BY <3>3 DEF Jobs
        <5>2. job' = [job EXCEPT ![pr][q] = again] \/ job' = [job EXCEPT ![pr][q] = giveUp]
          BY <4>5 DEF FailTransient
        <5> HIDE DEF again, giveUp
        <5> QED BY <3>3, <5>1, <5>2
      <4> QED BY <1>8, <3>2, <4>2, <4>3, <4>4, <4>5 DEF Handle
    <3> QED BY <2>2, <2>3, <2>6, <3>1, <3>4 DEF Active
  <2> QED BY <2>5, <2>6
<1>9. CASE ServerStart
  BY <1>0, <1>9 DEF ServerStart, RecoverOrphans, Row
<1>10. ASSUME NEW pr \in Procs, Cli(pr)
       PROVE  Held
  <2>1. mode \in [Procs -> Modes]
    BY <1>0 DEF TypeOK
  <2>2. ~RebuildDrop(pr)
    <3>1. SUFFICES ASSUME RebuildDrop(pr)
                   PROVE  FALSE
      OBVIOUS
    <3>2. pr # Server
      BY <3>1 DEF RebuildDrop, SettledInv, ServerModes
    <3>3. mode[Server] = "serving"
      BY <2>1, <3>1, <3>2 DEF RebuildDrop
    <3> QED BY <1>2, <3>1, <3>2, <3>3 DEF RebuildDrop
  <2>3. PICK to : Command(pr) /\ Launch(pr, to)
    BY <1>10, <2>2 DEF Cli, CliSync, CliFixApply, CliRebuild, CliSyncPath
  <2>4. pr # Server /\ mode[Server] = "off" /\ mode' = [mode EXCEPT ![pr] = to]
    BY <2>3 DEF Command, Clis, Launch, Careful
  <2> QED BY <2>1, <2>4
<1>11. ASSUME NEW pr \in Procs, Crash(pr)
       PROVE  Held
  <2>1. mode[pr] # "off" /\ mode' = [mode EXCEPT ![pr] = "off"]
    BY <1>11 DEF Crash, Running
  <2>2. pr # Server /\ mode[Server] = "serving"
    BY <1>0, <2>1 DEF TypeOK
  <2> QED BY <1>2, <2>1, <2>2
<1>12. ASSUME NEW q \in Paths, ReportLost(q)
       PROVE  Held
  BY <1>12 DEF ReportLost, Careful
<1> QED BY <1>3, <1>5, <1>6, <1>7, <1>8, <1>9, <1>10, <1>11, <1>12 DEF Next

\* One process at a time, files whose mtime never comes back and marks that reach the database:
\* no interleaving of claims, re-enqueues, crashes and restarts leaves a row in `processing`
\* that nobody works for.
THEOREM NoRowIsStranded ==
    ASSUME Careful
    PROVE  Spec => []NoStrandedRow
<1>1. Init => ClaimsHeld
  BY ProcsAssumption DEF Init, ClaimsHeld
<1>2. SettledInv /\ ClaimsHeld => NoStrandedRow
  BY DEF ClaimsHeld, NoStrandedRow, Active
<1> QED BY <1>1, <1>2, ClaimsNext, SettledInvariant, PTL DEF Spec

--------------------------------------------------------------------------------
(* The cascade implements the mirror. *)

\* What is indexed is a version the file has had, or a mixture.
Versioned ==
    /\ \A p \in Paths : last[p] <= MaxVersion
    /\ \A pr \in Procs, p \in Paths : job[pr][p].version <= MaxVersion

LEMMA VersionedNext == SettledInv /\ Versioned /\ [Next]_vars => Versioned'
<1> SUFFICES ASSUME SettledInv, Versioned, [Next]_vars PROVE Versioned'
  OBVIOUS
<1> USE LimitsAssumption
<1>0. TypeOK /\ job \in [Procs -> [Paths -> Jobs]]
  BY DEF SettledInv, TypeOK
<1>1. ASSUME UNCHANGED <<last, job>> PROVE Versioned'
  BY <1>1 DEF Versioned
<1>2. ASSUME last' = last, NEW pr \in Procs, NEW p \in Paths, NEW j,
             j.version <= MaxVersion, job' = [job EXCEPT ![pr][p] = j]
      PROVE  Versioned'
  BY <1>0, <1>2 DEF Versioned
<1>3. CASE Environment \/ UNCHANGED vars
  <2>1. job' = job
    BY <1>3 DEF Environment, Write, Unlink, Restore, SpuriousEvent, workerVars, vars
  <2>2. \A p \in Paths : last'[p] <= MaxVersion
    <3>1. ASSUME NEW q \in Paths, Write(q)
          PROVE  \A p \in Paths : last'[p] <= MaxVersion
      BY <1>0, <3>1 DEF Write, Versioned, TypeOK
    <3>2. CASE last' = last
      BY <3>2 DEF Versioned
    <3> QED BY <1>3, <3>1, <3>2 DEF Environment, Unlink, Restore, SpuriousEvent, envVars, vars
  <2> QED BY <2>1, <2>2 DEF Versioned
<1>4. CASE Watch
  BY <1>1, <1>4 DEF Watch, WatcherLook, WatcherStat, WatcherUpsert, workerVars, envVars
<1>5. ASSUME NEW pr \in Procs, Sweep(pr) \/ ScanAbort(pr)
      PROVE  Versioned'
  BY <1>1, <1>5 DEF Sweep, ScanWalk, ScanDecide, ScanEnd, ScanApply, ScanAbort, workerVars, envVars
<1>6. ASSUME NEW pr \in Procs, Drain(pr)
      PROVE  Versioned'
  <2>1. CASE ClaimPick(pr) \/ ClaimUpdate(pr) \/ BatchDone(pr)
    BY <1>1, <2>1 DEF ClaimPick, ClaimUpdate, BatchDone, envVars
  <2>2. CASE ClaimSelect(pr)
    <3>1. last' = last
      BY <2>2 DEF ClaimSelect, envVars
    <3>2. \A row \in Row : NewJob(row).version = 0
      BY DEF NewJob, NoJob
    <3>3. \A q \in Procs, p \in Paths :
             job'[q][p] = job[q][p] \/ job'[q][p] = NewJob(rows[p])
      BY <1>0, <2>2 DEF ClaimSelect
    <3>4. \A p \in Paths : rows[p] \in Row
      BY <1>0 DEF TypeOK, Table
    <3> QED BY <3>1, <3>2, <3>3, <3>4 DEF Versioned
  <2> QED BY <1>6, <2>1, <2>2 DEF Drain
<1>7. ASSUME NEW pr \in Procs, NEW p \in Paths, Handle(pr, p)
      PROVE  Versioned'
  <2>1. last' = last
    BY <1>7, HandleLocal
  <2>2. job[pr][p] \in Jobs /\ job[pr][p].version <= MaxVersion
    BY <1>0 DEF Versioned
  <2>3. ASSUME NEW phase, Goto(pr, p, phase)
        PROVE  Versioned'
    <3>1. [job[pr][p] EXCEPT !.phase = phase].version <= MaxVersion
      BY <2>2 DEF Jobs
    <3>2. job' = [job EXCEPT ![pr][p] = [job[pr][p] EXCEPT !.phase = phase]]
      BY <1>0, <2>3 DEF Goto
    <3> QED BY <1>2, <2>1, <3>1, <3>2
  <2>4. CASE HandleDeleted(pr, p) \/ UpsertEntries(pr, p) \/ DeleteStaleEntries(pr, p)
    BY <2>3, <2>4 DEF HandleDeleted, UpsertEntries, DeleteStaleEntries
  <2>5. CASE ReadFile(pr, p)
    <3> DEFINE j == [job[pr][p] EXCEPT !.phase = "embed", !.version = disk[p]]
    <3>1. CASE job' = [job EXCEPT ![pr][p] = j]
      <4>1. disk[p] <= MaxVersion
        BY <1>0, Numbers DEF SettledInv, VersionsBounded, Versioned
      <4>2. j.version <= MaxVersion
        BY <2>2, <4>1 DEF Jobs
      <4> QED BY <1>2, <2>1, <3>1, <4>2
    <3> QED BY <2>3, <2>5, <3>1 DEF ReadFile
  <2>6. CASE FailTransient(pr, p)
    <3> DEFINE again  == [job[pr][p] EXCEPT !.phase = "call",
                                            !.retries = job[pr][p].retries + 1,
                                            !.attempt = job[pr][p].attempt + 1,
                                            !.version = 0]
               giveUp == [job[pr][p] EXCEPT !.phase = "fail",
                                            !.verdict = IF job[pr][p].retries < MaxTotalRetries
                                                        THEN "true" ELSE "false"]
    <3>1. again.version <= MaxVersion /\ giveUp.version <= MaxVersion
      BY <2>2 DEF Jobs
    <3>2. job' = [job EXCEPT ![pr][p] = again] \/ job' = [job EXCEPT ![pr][p] = giveUp]
      BY <2>6 DEF FailTransient
    <3> HIDE DEF again, giveUp
    <3> QED BY <1>2, <2>1, <3>1, <3>2
  <2>7. CASE FailFatal(pr, p)
    <3>1. [job[pr][p] EXCEPT !.phase = "fail", !.verdict = "false"].version <= MaxVersion
      BY <2>2 DEF Jobs
    <3> QED BY <1>2, <2>1, <2>7, <3>1 DEF FailFatal
  <2>8. CASE ReportDone(pr, p) \/ ReportFailed(pr, p)
    <3>1. NoJob.version <= MaxVersion
      BY DEF NoJob
    <3> QED BY <1>2, <2>1, <2>8, <3>1 DEF ReportDone, ReportFailed
  <2> QED BY <1>7, <2>4, <2>5, <2>6, <2>7, <2>8 DEF Handle
<1>8. ASSUME NEW pr \in Procs, Cli(pr) \/ ServerStart
      PROVE  Versioned'
  BY <1>1, <1>8
  DEF Cli, CliSync, CliFixApply, CliRebuild, CliSyncPath, RebuildDrop, ServerStart, Launch,
      workerVars, envVars
<1>9. ASSUME NEW pr \in Procs, Crash(pr)
      PROVE  Versioned'
  <2>1. last' = last /\ job' = [job EXCEPT ![pr] = [p \in Paths |-> NoJob]]
    BY <1>9 DEF Crash, envVars
  <2>2. NoJob.version <= MaxVersion
    BY DEF NoJob
  <2> QED BY <1>0, <2>1, <2>2 DEF Versioned
<1>10. ASSUME NEW p \in Paths, ReportLost(p)
       PROVE  Versioned'
  <2>1. NoJob.version <= MaxVersion
    BY DEF NoJob
  <2> QED BY <1>2, <1>10, <2>1, ProcsAssumption DEF ReportLost, envVars
<1> QED BY <1>3, <1>4, <1>5, <1>6, <1>7, <1>8, <1>9, <1>10, ProcsAssumption DEF Next

\* The steps of the mirror, recognised by what they do to files, entries and settled paths.

LEMMA ReopenStep ==
    ASSUME UNCHANGED <<disk, index>>, \A p \in Paths : Settled(p)' => Settled(p)
    PROVE  Mirror!Next
<1> DEFINE ps == {p \in Paths : Settled(p) /\ ~Settled(p)'}
<1>1. {p \in Paths : Settled(p)}' = {p \in Paths : Settled(p)} \ ps
  OBVIOUS
<1>2. Mirror!Reopen(ps)
  BY <1>1 DEF Mirror!Reopen
<1> QED BY <1>2 DEF Mirror!Next

LEMMA ReindexStep ==
    ASSUME SettledInv, NEW p \in Paths, ~Settled(p), NEW v \in 0..MaxVersion \cup {-1},
           index' = [index EXCEPT ![p] = v], UNCHANGED <<disk, rows>>
    PROVE  Mirror!Next
<1>1. {q \in Paths : Settled(q)}' = {q \in Paths : Settled(q)}
  BY DEF Settled
<1>2. index' = [q \in Paths |-> IF q \in {p} THEN [x \in {p} |-> v][q] ELSE index[q]]
  BY DEF SettledInv, TypeOK
<1>3. [x \in {p} |-> v] \in [{p} -> 0..MaxVersion \cup {-1}]
  OBVIOUS
<1>4. Mirror!Reindex({p})
  BY <1>1, <1>2, <1>3 DEF Mirror!Reindex
<1> QED BY <1>4 DEF Mirror!Next

LEMMA FileStep ==
    ASSUME SettledInv, Versioned, NEW p \in Paths, Write(p) \/ Unlink(p)
    PROVE  Mirror!Next
<1> DEFINE done == {q \in Paths : Settled(q)}
           v    == disk'[p]
<1> USE LimitsAssumption
<1>1. TypeOK /\ disk \in [Paths -> Nat] /\ last \in [Paths -> Nat]
  BY DEF SettledInv, TypeOK
<1>2. UNCHANGED <<rows, index>>
  BY DEF Write, Unlink
<1>3. disk' = [disk EXCEPT ![p] = v] /\ v \in 0..MaxVersion /\ v # disk[p]
  <2>1. CASE Write(p)
    BY <1>1, <2>1, Numbers DEF Write, SettledInv, VersionsBounded
  <2>2. CASE Unlink(p)
    BY <1>1, <2>2 DEF Unlink
  <2> QED BY <2>1, <2>2
<1>4. \A q \in Paths \ {p} : Settled(q)' <=> Settled(q)
  BY <1>1, <1>2, <1>3 DEF Settled
<1>5. Settled(p)' => index[p] = v
  <2>1. ~(Write(p) /\ Settled(p)')
    BY <1>1, <1>2, Numbers DEF Write, Settled, SettledInv, VersionsBounded
  <2>2. CASE Unlink(p)
    <3>1. v = 0
      BY <1>1, <2>2 DEF Unlink
    <3> QED BY <1>2, <3>1 DEF Settled, SettledInv, FinishedExact
  <2> QED BY <2>1, <2>2
<1>6. \/ done' = done \ {p}
      \/ index[p] = v /\ done' = done \cup {p}
  BY <1>4, <1>5
<1>7. Mirror!Edit(p)
  BY <1>2, <1>3, <1>6 DEF Mirror!Edit
<1> QED BY <1>7 DEF Mirror!Next

\* No handler writes under a settled row, and a row is marked done only with an exact index.
LEMMA HandlerStep ==
    ASSUME SettledInv, SettledInv', Versioned, NEW pr \in Procs, NEW p \in Paths, Handle(pr, p)
    PROVE  Mirror!Next
<1>0. job[pr][p] \in Jobs /\ rows \in Table
  BY DEF SettledInv, TypeOK
<1>1. ~Settled(p)
  BY HandleLocal DEF SettledInv, HandledNotFinished, Settled
<1>2. CASE HandleDeleted(pr, p)
  <2>1. 0 \in 0..MaxVersion
    BY LimitsAssumption
  <2>2. index' = [index EXCEPT ![p] = 0] /\ UNCHANGED <<disk, rows>>
    BY <1>2 DEF HandleDeleted, envVars
  <2> QED BY <1>1, <2>1, <2>2, ReindexStep
<1>3. CASE UpsertEntries(pr, p)
  BY <1>1, <1>3, ReindexStep DEF UpsertEntries, envVars, Torn
<1>4. CASE DeleteStaleEntries(pr, p)
  <2>1. job[pr][p].version \in 0..MaxVersion
    BY <1>0, LimitsAssumption DEF Versioned, Jobs
  <2> QED BY <1>1, <1>4, <2>1, ReindexStep DEF DeleteStaleEntries, envVars
<1>5. CASE ReadFile(pr, p) \/ FailTransient(pr, p) \/ FailFatal(pr, p)
  BY <1>5, ReopenStep DEF ReadFile, FailTransient, FailFatal, envVars, Settled
<1>6. CASE ReportFailed(pr, p)
  <2>1. \A q \in Paths : Settled(q)' => Settled(q)
    BY <1>0, <1>6 DEF ReportFailed, MarkFailed, Settled, envVars, Table
  <2> QED BY <1>6, <2>1, ReopenStep DEF ReportFailed, envVars
<1>7. CASE ReportDone(pr, p)
  <2>1. UNCHANGED <<disk, index>> /\ \A q \in Paths \ {p} : Settled(q)' <=> Settled(q)
    BY <1>0, <1>7 DEF ReportDone, MarkDone, Settled, envVars, Table
  <2>2. CASE Settled(p)'
    <3>1. index[p] = disk[p]
      <4>1. SettledIndexed'
        BY InvSettles, PTL
      <4> QED BY <2>1, <2>2, <4>1 DEF SettledIndexed
    <3>2. {q \in Paths : Settled(q)}' = {q \in Paths : Settled(q)} \cup {p}
      BY <2>1, <2>2
    <3>3. Mirror!Settle(p)
      BY <2>1, <3>1, <3>2 DEF Mirror!Settle
    <3> QED BY <3>3 DEF Mirror!Next
  <2>3. CASE ~Settled(p)'
    BY <1>1, <2>1, <2>3, ReopenStep
  <2> QED BY <2>2, <2>3
<1> QED BY <1>2, <1>3, <1>4, <1>5, <1>6, <1>7 DEF Handle

\* A rebuild drops the tables while no row is settled.
LEMMA DropStep ==
    ASSUME SettledInv, NEW pr \in Procs, RebuildDrop(pr)
    PROVE  Mirror!Next
<1>1. {p \in Paths : Settled(p)} = {} /\ {p \in Paths : Settled(p)}' = {}
  BY DEF RebuildDrop, SettledInv, ServerModes, Settled
<1>2. [p \in Paths |-> 0] \in [Paths -> 0..MaxVersion \cup {-1}]
  BY LimitsAssumption
<1>3. index' = [p \in Paths |-> IF p \in Paths THEN [x \in Paths |-> 0][p] ELSE index[p]]
  BY DEF RebuildDrop
<1>4. disk' = disk
  BY DEF RebuildDrop, envVars
<1>5. Mirror!Reindex(Paths)
  BY <1>1, <1>2, <1>3, <1>4 DEF Mirror!Reindex
<1> QED BY <1>5 DEF Mirror!Next

LEMMA MirrorNext ==
    ASSUME Careful, SettledInv, SettledInv', Versioned, [Next]_vars
    PROVE  Mirror!Next
<1>0. TypeOK /\ rows \in Table
  BY DEF SettledInv, TypeOK
<1>1. ASSUME NEW p \in Paths, NEW change \in Changes, NEW mtime \in Nat,
             rows' = Upsert(rows, p, change, mtime), disk' = disk
      PROVE  \A q \in Paths : Settled(q)' => Settled(q)
  <2>1. rows'[p].status = "pending"
    BY <1>0, <1>1, UpsertType
  <2>2. \A q \in Paths \ {p} : rows'[q] = rows[q]
    BY <1>0, <1>1, UpsertType
  <2> QED BY <1>1, <2>1, <2>2 DEF Settled
<1>2. CASE Environment
  BY <1>2, FileStep, ReopenStep DEF Environment, Restore, Careful, SpuriousEvent, envVars, Settled
<1>3. CASE Watch
  <2>1. UNCHANGED <<disk, index>>
    BY <1>3 DEF Watch, WatcherLook, WatcherStat, WatcherUpsert, envVars
  <2>2. ASSUME NEW c \in calls, WatcherUpsert(c)
        PROVE  \A q \in Paths : Settled(q)' => Settled(q)
    <3>1. c.path \in Paths /\ c.change \in Changes /\ c.mtime \in Nat
      BY <1>0 DEF TypeOK, Call
    <3> QED BY <1>1, <2>1, <2>2, <3>1 DEF WatcherUpsert
  <2>3. \A q \in Paths : Settled(q)' => Settled(q)
    BY <1>3, <2>1, <2>2 DEF Watch, WatcherLook, WatcherStat, Settled
  <2> QED BY <2>1, <2>3, ReopenStep
<1>4. ASSUME NEW pr \in Procs, Sweep(pr) \/ ScanAbort(pr)
      PROVE  Mirror!Next
  <2>1. UNCHANGED <<disk, index>>
    BY <1>4 DEF Sweep, ScanWalk, ScanDecide, ScanEnd, ScanApply, ScanAbort, envVars
  <2>2. ASSUME NEW p \in Paths, ScanApply(pr, p)
        PROVE  \A q \in Paths : Settled(q)' => Settled(q)
    <3>1. scan[pr].plan[p] \in Decision
      BY <1>0, <2>2 DEF ScanApply, Planned, Sweeps, TypeOK
    <3>2. scan[pr].plan[p].change \in Changes /\ scan[pr].plan[p].mtime \in Nat
      BY <3>1 DEF Decision
    <3> QED BY <1>1, <2>1, <2>2, <3>2 DEF ScanApply
  <2>3. \A q \in Paths : Settled(q)' => Settled(q)
    BY <1>4, <2>1, <2>2 DEF Sweep, ScanWalk, ScanDecide, ScanEnd, ScanAbort, Settled
  <2> QED BY <2>1, <2>3, ReopenStep
<1>5. ASSUME NEW pr \in Procs, Drain(pr)
      PROVE  Mirror!Next
  <2>1. UNCHANGED <<disk, index>>
    BY <1>5 DEF Drain, ClaimPick, ClaimUpdate, ClaimSelect, BatchDone, envVars
  <2>2. \A q \in Paths : rows'[q] = rows[q] \/ rows'[q].status = "processing"
    BY <1>0, <1>5 DEF Drain, ClaimPick, ClaimUpdate, ClaimSelect, BatchDone, ClaimPicks, Table, Row
  <2>3. \A q \in Paths : Settled(q)' => Settled(q)
    BY <2>1, <2>2 DEF Settled
  <2> QED BY <2>1, <2>3, ReopenStep
<1>6. ASSUME NEW pr \in Procs, ServerStart \/ Cli(pr), ~RebuildDrop(pr)
      PROVE  Mirror!Next
  <2>1. UNCHANGED <<disk, index>>
    BY <1>6 DEF ServerStart, Cli, CliSync, CliFixApply, CliRebuild, CliSyncPath, Launch, envVars
  <2>2. ASSUME NEW p \in Paths, CliSyncPath(pr, p)
        PROVE  \A q \in Paths : Settled(q)' => Settled(q)
    BY <1>1, <2>1, <2>2 DEF CliSyncPath, ForceEnqueue, Changes
  <2>3. ASSUME \A q \in Paths : rows'[q] = rows[q] \/ rows'[q].status \in {"none", "pending"}
        PROVE  \A q \in Paths : Settled(q)' => Settled(q)
    BY <2>1, <2>3 DEF Settled
  <2>4. ServerStart \/ CliSync(pr) \/ CliFixApply(pr) \/ CliRebuild(pr)
          => \A q \in Paths : rows'[q] = rows[q] \/ rows'[q].status \in {"none", "pending"}
    <3>1. \A q \in Paths : rows[q] \in Row
      BY <1>0 DEF Table
    <3>2. CASE ServerStart
      BY <3>1, <3>2 DEF ServerStart, RecoverOrphans, Row
    <3>3. CASE CliSync(pr) \/ CliRebuild(pr)
      BY <3>3 DEF CliSync, CliRebuild, ResetAll, NoRow
    <3>4. CASE CliFixApply(pr)
      BY <3>1, <3>4 DEF CliFixApply, ResetRetryable, Row
    <3> QED BY <3>2, <3>3, <3>4
  <2>5. \A q \in Paths : Settled(q)' => Settled(q)
    BY <1>6, <2>2, <2>3, <2>4 DEF Cli
  <2> QED BY <2>1, <2>5, ReopenStep
<1>7. ASSUME NEW pr \in Procs, Crash(pr)
      PROVE  Mirror!Next
  BY <1>7, ReopenStep DEF Crash, envVars, Settled
<1>8. ASSUME NEW p \in Paths, ReportLost(p)
      PROVE  Mirror!Next
  BY <1>8 DEF ReportLost, Careful
<1>9. CASE UNCHANGED vars
  BY <1>9, ReopenStep DEF vars, Settled
<1> QED BY <1>2, <1>3, <1>4, <1>5, <1>6, <1>7, <1>8, <1>9, HandlerStep, DropStep,
           ProcsAssumption DEF Next, Cli

\* One process at a time, files whose mtime never comes back and marks that reach the database:
\* every step of watcher, sweeps, claims, handlers, commands and crashes is a step of the mirror
\* or changes nothing it can see.
THEOREM MirrorImplemented ==
    ASSUME Careful
    PROVE  Spec => ImplementsMirror
<1>1. Init => Mirror!Init
  BY DEF Init, Mirror!Init, Settled, ResetAll, NoRow
<1>2. Init => Versioned
  BY LimitsAssumption DEF Init, Versioned, NoJob
<1>3. SettledInv /\ SettledInv' /\ Versioned /\ [Next]_vars => [Mirror!Next]_(Mirror!vars)
  BY MirrorNext
<1> QED BY <1>1, <1>2, <1>3, VersionedNext, SettledInvariant, PTL
        DEF Spec, ImplementsMirror, Mirror!Spec

================================================================================
