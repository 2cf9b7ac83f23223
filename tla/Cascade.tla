-------------------------------- MODULE Cascade --------------------------------
(***************************************************************************)
(* The cascade: markdown files on disk are the truth, the LanceDB index    *)
(* follows them through the md_change_state queue.                         *)
(*                                                                         *)
(*   file system --events--> watcher --upsert--+                           *)
(*        |                                    v                           *)
(*        +------- walk ---> scanner ------> queue --claim--> worker       *)
(*                                                              |          *)
(*                                     index <--- handler ------+          *)
(*                                                                         *)
(* A process is the server (watcher, scanner and worker run concurrently)  *)
(* or a CLI command (`cascade sync`, `fix --apply`, `rebuild`), which owns *)
(* a scanner and a worker of its own over the same tables.  An action is   *)
(* what the program does between two awaits that others can get between.   *)
(*                                                                         *)
(* A file's content and its mtime are one number, its version: a write     *)
(* gives the path a version it never had.  Files are independent of each   *)
(* other except for the queue's order and batch limit.                     *)
(***************************************************************************)
EXTENDS ChangeQueue, Integers

CONSTANTS
    Procs,          \* the processes; the server and any CLI commands
    Server,         \* the one that runs the orchestrator
    BatchSize,      \* rows per claim
    MaxRetry,       \* inline attempts after the first
    Watching,       \* does the platform deliver file system events?
    Restores,       \* can a deleted file come back with its old mtime?
    Exclusive,      \* does the operator run one process at a time?
    Deletable,      \* paths whose file may be deleted
    Noisy,          \* paths that get events without a change of content
    Faults,         \* which of FaultKinds may happen
    MaxVersion,     \* bound: writes per path
    MaxUpsets,      \* bound: crashes and CLI commands, counted together
    MaxCalls        \* bound: the watcher's waiting events, and its waiting upserts

FaultKinds == {"transient", "fatal", "db", "scan", "crash"}

ASSUME ProcsAssumption == Server \in Procs
ASSUME LimitsAssumption ==
    /\ BatchSize \in Nat \ {0} /\ MaxRetry \in Nat
    /\ MaxVersion \in Nat /\ MaxUpsets \in Nat /\ MaxCalls \in Nat
ASSUME EnvironmentAssumption ==
    /\ Watching \in BOOLEAN /\ Restores \in BOOLEAN /\ Exclusive \in BOOLEAN
    /\ Deletable \subseteq Paths /\ Noisy \subseteq Paths /\ Faults \subseteq FaultKinds

VARIABLES
    disk,       \* version of each file, 0 when it does not exist
    last,       \* last version each path ever had
    rows,       \* md_change_state
    lsn,        \* rank of each row's lsn
    index,      \* version each path's LanceDB rows stand for, 0 when none
    mode,       \* what each process is doing
    scan,       \* each process's sweep
    drain,      \* each process's drain_once
    job,        \* each process's handler invocation for a path
    events,     \* file system events the watcher thread has not taken yet
    looked,     \* events whose exists() check is done and stat() is not
    calls,      \* upserts handed to the event loop and not yet committed
    upsets      \* crashes and CLI commands so far

envVars    == <<disk, last>>
watchVars  == <<events, looked, calls>>
workerVars == <<drain, job>>
vars == <<disk, last, rows, lsn, index, mode, scan, drain, job,
          events, looked, calls, upsets>>

Clis == Procs \ {Server}

\* LanceDB rows of two versions at once: upserted, the stale ones not deleted.
Torn == -1

Modes == {"off", "serving", "scanning", "draining", "dropping"}
Phases == {"none", "call", "gone", "embed", "prune", "mark", "fail"}

NoScan  == [phase |-> "idle", seen |-> [p \in Paths |-> 0],
            plan |-> [p \in Paths |-> NoDecision]]
NoDrain == [phase |-> "idle", picks |-> {}]
NoJob   == [phase |-> "none", change |-> "changed", retries |-> 0,
            attempt |-> 0, version |-> 0, verdict |-> "null"]

Event == [path : Paths, change : Changes]
Call  == [path : Paths, change : Changes, mtime : Nat]

Running(pr) == mode[pr] # "off"
Busy(pr)    == \E p \in Paths : job[pr][p].phase # "none"
Planned(pr) == {p \in Paths : scan[pr].plan[p] # NoDecision}

--------------------------------------------------------------------------------
Init ==
    /\ disk  = [p \in Paths |-> 0]
    /\ last  = [p \in Paths |-> 0]
    /\ rows  = ResetAll
    /\ lsn   = [p \in Paths |-> 0]
    /\ index = [p \in Paths |-> 0]
    /\ mode  = [pr \in Procs |-> "off"]
    /\ scan  = [pr \in Procs |-> NoScan]
    /\ drain = [pr \in Procs |-> NoDrain]
    /\ job   = [pr \in Procs |-> [p \in Paths |-> NoJob]]
    /\ events = {} /\ looked = {} /\ calls = {}
    /\ upsets = 0

--------------------------------------------------------------------------------
(* The file system.  The watcher may miss any event (fsevents drops, WSL2 and
   network mounts), and misses all of them while the server is down. *)

Notify(p, change) ==
    \/ events' = events
    \/ /\ Watching /\ mode[Server] = "serving"
       /\ Cardinality(events) < MaxCalls
       /\ events' = events \cup {[path |-> p, change |-> change]}

Write(p) ==
    /\ last[p] < MaxVersion
    /\ last' = [last EXCEPT ![p] = last[p] + 1]
    /\ disk' = [disk EXCEPT ![p] = last[p] + 1]
    /\ Notify(p, "changed")
    /\ UNCHANGED <<rows, lsn, index, mode, scan, workerVars, looked, calls, upsets>>

Unlink(p) ==
    /\ p \in Deletable /\ disk[p] # 0
    /\ disk' = [disk EXCEPT ![p] = 0]
    /\ Notify(p, "deleted")
    /\ UNCHANGED <<last, rows, lsn, index, mode, scan, workerVars, looked, calls, upsets>>

\* `mv` back, `cp -p`, a backup tool: the old file with the old mtime.
Restore(p) ==
    /\ Restores /\ disk[p] = 0 /\ last[p] # 0
    /\ disk' = [disk EXCEPT ![p] = last[p]]
    /\ Notify(p, "changed")
    /\ UNCHANGED <<last, rows, lsn, index, mode, scan, workerVars, looked, calls, upsets>>

--------------------------------------------------------------------------------
(* The watcher.  watchdog's thread takes one event at a time: on_deleted looks
   whether the path exists, _enqueue stats it, and run_coroutine_threadsafe
   hands the upsert to the event loop, where several are in flight at once and
   may commit in any order. *)

\* An event that reports no change of content (metadata, a touch of the inode).
SpuriousEvent(p) ==
    /\ p \in Noisy /\ disk[p] # 0
    /\ Watching /\ mode[Server] = "serving"
    /\ Cardinality(events) < MaxCalls
    /\ events' = events \cup {[path |-> p, change |-> "changed"]}
    /\ UNCHANGED <<envVars, rows, lsn, index, mode, scan, workerVars, looked, calls, upsets>>

WatcherLook(e) ==
    /\ e \in events /\ looked = {}
    /\ events' = events \ {e}
    /\ looked' = IF e.change = "deleted" /\ disk[e.path] # 0 THEN {} ELSE {e}
    /\ UNCHANGED <<envVars, rows, lsn, index, mode, scan, workerVars, calls, upsets>>

WatcherStat(e) ==
    /\ e \in looked
    /\ Cardinality(calls) < MaxCalls
    /\ looked' = {}
    /\ calls' = calls \cup {[path |-> e.path, change |-> e.change,
                             mtime |-> disk[e.path]]}
    /\ UNCHANGED <<envVars, rows, lsn, index, mode, scan, workerVars, events, upsets>>

WatcherUpsert(c) ==
    /\ c \in calls
    /\ calls' = calls \ {c}
    /\ rows' = Upsert(rows, c.path, c.change, c.mtime)
    /\ lsn'  = NextLsn(lsn, c.path)
    /\ UNCHANGED <<envVars, index, mode, scan, workerVars, events, looked, upsets>>

--------------------------------------------------------------------------------
(* The scanner: walk the tree, then read the table, then upsert the decisions
   one by one, the deletions last. *)

ScanWalk(pr) ==
    /\ mode[pr] \in {"serving", "scanning"} /\ scan[pr].phase = "idle"
    /\ scan' = [scan EXCEPT ![pr] = [NoScan EXCEPT !.phase = "walked", !.seen = disk]]
    /\ UNCHANGED <<envVars, rows, lsn, index, mode, workerVars, watchVars, upsets>>

ScanDecide(pr) ==
    /\ scan[pr].phase = "walked"
    /\ scan' = [scan EXCEPT ![pr] =
                   [NoScan EXCEPT !.phase = "apply",
                                  !.plan  = Reconcile(scan[pr].seen, rows)]]
    /\ UNCHANGED <<envVars, rows, lsn, index, mode, workerVars, watchVars, upsets>>

ScanApply(pr, p) ==
    /\ scan[pr].phase = "apply" /\ p \in Planned(pr)
    /\ scan[pr].plan[p].change = "deleted" =>
           \A q \in Planned(pr) : scan[pr].plan[q].change = "deleted"
    /\ rows' = Upsert(rows, p, scan[pr].plan[p].change, scan[pr].plan[p].mtime)
    /\ lsn'  = NextLsn(lsn, p)
    /\ scan' = [scan EXCEPT ![pr].plan[p] = NoDecision]
    /\ UNCHANGED <<envVars, index, mode, workerVars, watchVars, upsets>>

\* The server sleeps until its next sweep; a CLI command goes on to drain.
ScanEnd(pr) ==
    /\ scan[pr].phase = "apply" /\ Planned(pr) = {}
    /\ scan' = [scan EXCEPT ![pr] = NoScan]
    /\ mode' = [mode EXCEPT ![pr] = IF @ = "scanning" THEN "draining" ELSE @]
    /\ UNCHANGED <<envVars, rows, lsn, index, workerVars, watchVars, upsets>>

\* An OSError in the walk or a database error in an upsert: the server logs it
\* and sweeps again later, the exception ends a CLI command.
ScanAbort(pr) ==
    /\ "scan" \in Faults /\ scan[pr].phase # "idle"
    /\ scan' = [scan EXCEPT ![pr] = NoScan]
    /\ mode' = [mode EXCEPT ![pr] = IF @ = "scanning" THEN "off" ELSE @]
    /\ UNCHANGED <<envVars, rows, lsn, index, workerVars, watchVars, upsets>>

--------------------------------------------------------------------------------
(* The worker's drain_once: claim a batch, run its handlers concurrently, wait
   for all of them.  A CLI command exits when a drain handled nothing. *)

Drains(pr) == mode[pr] \in {"serving", "draining"}

\* Nothing claimed: the server polls again, drain_until_empty returns.
NothingDrained(pr) ==
    /\ drain' = [drain EXCEPT ![pr] = NoDrain]
    /\ mode' = [mode EXCEPT ![pr] = IF @ = "draining" THEN "off" ELSE @]

ClaimPick(pr) ==
    /\ Drains(pr) /\ drain[pr].phase = "idle"
    /\ LET picks == PickOldest(rows, lsn, BatchSize) IN
         IF picks = {}
         THEN mode[pr] = "draining" /\ NothingDrained(pr)
         ELSE /\ drain' = [drain EXCEPT ![pr] = [phase |-> "picked", picks |-> picks]]
              /\ UNCHANGED mode
    /\ UNCHANGED <<envVars, rows, lsn, index, scan, job, watchVars, upsets>>

ClaimUpdate(pr) ==
    /\ drain[pr].phase = "picked"
    /\ rows' = ClaimPicks(rows, drain[pr].picks)
    /\ IF drain[pr].picks \cap Pending(rows) = {}
       THEN NothingDrained(pr)
       ELSE /\ drain' = [drain EXCEPT ![pr].phase = "updated"]
            /\ UNCHANGED mode
    /\ UNCHANGED <<envVars, lsn, index, scan, job, watchVars, upsets>>

\* _process_one looks at the budget of the claimed row before the first attempt.
NewJob(row) ==
    [NoJob EXCEPT !.phase   = IF row.retries >= MaxTotalRetries THEN "fail" ELSE "call",
                  !.change  = row.change,
                  !.retries = row.retries,
                  !.verdict = IF row.retries >= MaxTotalRetries THEN "false" ELSE "null"]

\* Bound: no second handler of one process for a path whose earlier handler
\* was abandoned by a failed drain and still runs.
ClaimSelect(pr) ==
    /\ drain[pr].phase = "updated"
    /\ LET claimed == SelectClaimed(rows, drain[pr].picks) IN
         /\ \A p \in claimed : job[pr][p].phase = "none"
         /\ job' = [job EXCEPT ![pr] =
                       [p \in Paths |-> IF p \in claimed THEN NewJob(rows[p])
                                                         ELSE job[pr][p]]]
         /\ IF claimed = {}
            THEN NothingDrained(pr)
            ELSE /\ drain' = [drain EXCEPT ![pr] = [phase |-> "running", picks |-> {}]]
                 /\ UNCHANGED mode
    /\ UNCHANGED <<envVars, rows, lsn, index, scan, watchVars, upsets>>

BatchDone(pr) ==
    /\ drain[pr].phase = "running" /\ ~Busy(pr)
    /\ drain' = [drain EXCEPT ![pr] = NoDrain]
    /\ UNCHANGED <<envVars, rows, lsn, index, mode, scan, job, watchVars, upsets>>

--------------------------------------------------------------------------------
(* One row's handler.  The file is read once, embedding is awaited, then the
   changed rows are upserted and after them the rows that left the file are
   deleted. *)

Goto(pr, p, phase) == job' = [job EXCEPT ![pr][p].phase = phase]

\* The delete of the rows by path: a "deleted" row does it without looking at
\* the file, a "changed" row whose file is gone falls back to it.
HandleDeleted(pr, p) ==
    /\ \/ job[pr][p].phase = "call" /\ job[pr][p].change = "deleted"
       \/ job[pr][p].phase = "gone"
    /\ index' = [index EXCEPT ![p] = 0]
    /\ Goto(pr, p, "mark")
    /\ UNCHANGED <<envVars, rows, lsn, mode, scan, drain, watchVars, upsets>>

\* Entries whose digest equals the indexed one are skipped.
ReadFile(pr, p) ==
    /\ job[pr][p].phase = "call" /\ job[pr][p].change = "changed"
    /\ IF disk[p] = 0 THEN Goto(pr, p, "gone")
       ELSE IF index[p] = disk[p] THEN Goto(pr, p, "mark")
       ELSE job' = [job EXCEPT ![pr][p] = [@ EXCEPT !.phase   = "embed",
                                                    !.version = disk[p]]]
    /\ UNCHANGED <<envVars, rows, lsn, index, mode, scan, drain, watchVars, upsets>>

\* Mutant: the rows that left the file are not deleted.
UpsertEntriesOnly(pr, p) ==
    /\ job[pr][p].phase = "embed"
    /\ index' = [index EXCEPT ![p] = Torn]
    /\ Goto(pr, p, "mark")
    /\ UNCHANGED <<envVars, rows, lsn, mode, scan, drain, watchVars, upsets>>

UpsertEntries(pr, p) ==
    /\ job[pr][p].phase = "embed"
    /\ index' = [index EXCEPT ![p] = Torn]
    /\ Goto(pr, p, "prune")
    /\ UNCHANGED <<envVars, rows, lsn, mode, scan, drain, watchVars, upsets>>

DeleteStaleEntries(pr, p) ==
    /\ job[pr][p].phase = "prune"
    /\ index' = [index EXCEPT ![p] = job[pr][p].version]
    /\ Goto(pr, p, "mark")
    /\ UNCHANGED <<envVars, rows, lsn, mode, scan, drain, watchVars, upsets>>

Failable == {"call", "gone", "embed", "prune"}

\* Mutant: the failure that uses up the budget is reported as retryable.
FailTransientForever(pr, p) ==
    /\ "transient" \in Faults /\ job[pr][p].phase \in Failable
    /\ LET j == job[pr][p] IN
         job' = [job EXCEPT ![pr][p] =
            IF j.attempt < MaxRetry
            THEN [j EXCEPT !.phase = "call", !.retries = j.retries + 1,
                           !.attempt = j.attempt + 1, !.version = 0]
            ELSE [j EXCEPT !.phase = "fail", !.verdict = "true"]]
    /\ UNCHANGED <<envVars, rows, lsn, index, mode, scan, drain, watchVars, upsets>>

\* ExternalServiceError: try again from the top, or give up for this sweep.
FailTransient(pr, p) ==
    /\ "transient" \in Faults /\ job[pr][p].phase \in Failable
    /\ LET j == job[pr][p] IN
         job' = [job EXCEPT ![pr][p] =
            IF j.attempt < MaxRetry
            THEN [j EXCEPT !.phase = "call", !.retries = j.retries + 1,
                           !.attempt = j.attempt + 1, !.version = 0]
            ELSE [j EXCEPT !.phase = "fail",
                           !.verdict = IF j.retries < MaxTotalRetries
                                       THEN "true" ELSE "false"]]
    /\ UNCHANGED <<envVars, rows, lsn, index, mode, scan, drain, watchVars, upsets>>

\* Any other exception: malformed markdown, a LanceDB error.
FailFatal(pr, p) ==
    /\ "fatal" \in Faults /\ job[pr][p].phase \in Failable
    /\ job' = [job EXCEPT ![pr][p] = [@ EXCEPT !.phase = "fail", !.verdict = "false"]]
    /\ UNCHANGED <<envVars, rows, lsn, index, mode, scan, drain, watchVars, upsets>>

ReportDone(pr, p) ==
    /\ job[pr][p].phase = "mark"
    /\ rows' = MarkDone(rows, p)
    /\ job'  = [job EXCEPT ![pr][p] = NoJob]
    /\ UNCHANGED <<envVars, lsn, index, mode, scan, drain, watchVars, upsets>>

ReportFailed(pr, p) ==
    /\ job[pr][p].phase = "fail"
    /\ rows' = MarkFailed(rows, p, job[pr][p].verdict, job[pr][p].retries)
    /\ job'  = [job EXCEPT ![pr][p] = NoJob]
    /\ UNCHANGED <<envVars, lsn, index, mode, scan, drain, watchVars, upsets>>

\* mark_done or mark_failed raises: gather passes the exception on, the drain
\* ends, the batch's other handlers run on.
ReportLost(p) ==
    /\ "db" \in Faults /\ job[Server][p].phase \in {"mark", "fail"}
    /\ job'   = [job EXCEPT ![Server][p] = NoJob]
    /\ drain' = [drain EXCEPT ![Server] = NoDrain]
    /\ UNCHANGED <<envVars, rows, lsn, index, mode, scan, watchVars, upsets>>

--------------------------------------------------------------------------------
(* Processes. *)

Launch(pr, to) ==
    /\ mode[pr] = "off"
    /\ Exclusive => \A q \in Procs : mode[q] = "off"
    /\ mode' = [mode EXCEPT ![pr] = to]
    /\ UNCHANGED <<envVars, scan, workerVars, watchVars>>

Command(pr) ==
    /\ pr \in Clis /\ upsets < MaxUpsets
    /\ upsets' = upsets + 1

\* orchestrator.start(): recover the queue, then watcher, scanner and worker.
ServerStart ==
    /\ Launch(Server, "serving")
    /\ rows' = RecoverOrphans(rows)
    /\ UNCHANGED <<lsn, index, upsets>>

CliSync(pr) ==
    /\ Command(pr) /\ Launch(pr, "scanning")
    /\ UNCHANGED <<rows, lsn, index>>

CliSyncPath(pr, p) ==
    /\ Command(pr) /\ Launch(pr, "scanning")
    /\ rows' = ForceEnqueue(rows, p)
    /\ lsn'  = NextLsn(lsn, p)
    /\ UNCHANGED index

\* Drains only if it moved a row.
CliFixApply(pr) ==
    /\ Command(pr) /\ Launch(pr, IF Retryable(rows) # {} THEN "draining" ELSE "off")
    /\ rows' = ResetRetryable(rows)
    /\ UNCHANGED <<lsn, index>>

\* Mutant: the tables are dropped and the queue is left as it is.
CliRebuildKeepsQueue(pr) ==
    /\ Command(pr) /\ Launch(pr, "dropping")
    /\ mode[Server] = "off"
    /\ UNCHANGED <<rows, lsn, index>>

\* Refused while a server holds the OME lock.  The queue is emptied first.
CliRebuild(pr) ==
    /\ Command(pr) /\ Launch(pr, "dropping")
    /\ mode[Server] = "off"
    /\ rows' = ResetAll
    /\ lsn'  = [p \in Paths |-> 0]
    /\ UNCHANGED index

RebuildDrop(pr) ==
    /\ mode[pr] = "dropping"
    /\ index' = [p \in Paths |-> 0]
    /\ mode'  = [mode EXCEPT ![pr] = "scanning"]
    /\ UNCHANGED <<envVars, rows, lsn, scan, workerVars, watchVars, upsets>>

\* A crash, a kill or an orderly stop: the tasks are gone, the tables stay.
Crash(pr) ==
    /\ "crash" \in Faults /\ Running(pr) /\ upsets < MaxUpsets
    /\ upsets' = upsets + 1
    /\ mode'  = [mode EXCEPT ![pr] = "off"]
    /\ scan'  = [scan EXCEPT ![pr] = NoScan]
    /\ drain' = [drain EXCEPT ![pr] = NoDrain]
    /\ job'   = [job EXCEPT ![pr] = [p \in Paths |-> NoJob]]
    /\ IF pr = Server THEN events' = {} /\ looked' = {} /\ calls' = {}
                      ELSE UNCHANGED watchVars
    /\ UNCHANGED <<envVars, rows, lsn, index>>

--------------------------------------------------------------------------------
Environment == \E p \in Paths : Write(p) \/ Unlink(p) \/ Restore(p) \/ SpuriousEvent(p)

Watch ==
    \/ \E e \in events : WatcherLook(e)
    \/ \E e \in looked : WatcherStat(e)
    \/ \E c \in calls  : WatcherUpsert(c)

Sweep(pr) ==
    \/ ScanWalk(pr) \/ ScanDecide(pr) \/ ScanEnd(pr)
    \/ \E p \in Paths : ScanApply(pr, p)

Drain(pr) == ClaimPick(pr) \/ ClaimUpdate(pr) \/ ClaimSelect(pr) \/ BatchDone(pr)

Handle(pr, p) ==
    \/ HandleDeleted(pr, p) \/ ReadFile(pr, p)
    \/ UpsertEntries(pr, p) \/ DeleteStaleEntries(pr, p)
    \/ FailTransient(pr, p) \/ FailFatal(pr, p)
    \/ ReportDone(pr, p) \/ ReportFailed(pr, p)

Cli(pr) ==
    \/ CliSync(pr) \/ CliFixApply(pr) \/ CliRebuild(pr) \/ RebuildDrop(pr)
    \/ \E p \in Paths : CliSyncPath(pr, p)

Next ==
    \/ Environment
    \/ Watch
    \/ ServerStart
    \/ \E p \in Paths : ReportLost(p)
    \/ \E pr \in Procs :
         \/ Sweep(pr) \/ ScanAbort(pr) \/ Drain(pr) \/ Cli(pr) \/ Crash(pr)
         \/ \E p \in Paths : Handle(pr, p)

Spec == Init /\ [][Next]_vars

\* The event loop runs every task that can run, the scanner sweeps every
\* scan_interval, the watcher thread takes its events, and whoever operates the
\* server starts it again.  A sweep comes every scan_interval (30 s) and cannot
\* hit the gap between a claim's commit and its SELECT every time, hence the
\* strong fairness.  Nothing obliges the file system to change or a user to give
\* a command.
Fairness ==
    /\ WF_vars(ServerStart)
    /\ WF_vars(Watch)
    /\ \A pr \in Procs :
         /\ WF_vars(Sweep(pr)) /\ WF_vars(Drain(pr)) /\ WF_vars(RebuildDrop(pr))
         /\ SF_vars(ClaimSelect(pr) /\ drain'[pr].phase = "running")
         /\ \A p \in Paths : WF_vars(Handle(pr, p))

FairSpec == Spec /\ Fairness

--------------------------------------------------------------------------------
Sweeps == [phase : {"idle", "walked", "apply"},
           seen  : [Paths -> Nat],
           plan  : [Paths -> Decision \cup {NoDecision}]]

Drainings == [phase : {"idle", "picked", "updated", "running"}, picks : SUBSET Paths]

Jobs == [phase : Phases, change : Changes, retries : Nat, attempt : Nat,
         version : Nat, verdict : {"null", "true", "false"}]

\* Every variable has the type its column, field or set has in the code.
TypeOK ==
    /\ disk  \in [Paths -> Nat] /\ last \in [Paths -> Nat]
    /\ rows  \in Table
    /\ lsn   \in [Paths -> Nat]
    /\ index \in [Paths -> Nat \cup {Torn}]
    /\ mode  \in [Procs -> Modes]
    /\ scan  \in [Procs -> Sweeps]
    /\ drain \in [Procs -> Drainings]
    /\ job   \in [Procs -> [Paths -> Jobs]]
    /\ events \in SUBSET Event /\ looked \in SUBSET Event /\ calls \in SUBSET Call
    /\ upsets \in Nat

--------------------------------------------------------------------------------
(* Safety. *)

\* The queue has nothing left to do for p: a finished row that no sweep will
\* touch again.  A finished delete of a path that has a file again is left out:
\* see FilesStayIndexed.
Settled(p) ==
    /\ rows[p].status = "done"
    /\ IF rows[p].change = "deleted" THEN disk[p] = 0
       ELSE disk[p] # 0 /\ rows[p].mtime = disk[p]

\* What is settled is right: the index holds exactly the version on disk, and
\* nothing for a file that is gone.  Watcher, scanner, handlers, retries and
\* crashes may interleave as they like between the upsert that queued a path
\* and the mark_done that settles it.
SettledIndexed == \A p \in Paths : Settled(p) => index[p] = disk[p]

\* The claim of the change_type column ("a hint for the worker - handler
\* re-derives truth from the actual file state"): a file that is on disk and
\* that no sweep will enqueue again is indexed, whatever its row says happened.
\* It is false where a watcher's upsert falls between a sweep's walk and its look
\* at the table, and where a deleted file comes back with its old mtime.
FilesStayIndexed ==
    \A p \in Paths :
        /\ disk[p] # 0 /\ rows[p].status = "done"
        /\ Decide(disk[p], rows[p]) = NoDecision
        /\ ~\E e \in events \cup looked : e.path = p
        /\ ~\E c \in calls : c.path = p
        /\ \A pr \in Procs : scan[pr].phase = "idle"
        => index[p] = disk[p]

\* The total budget bounds what sweeps and two processes spend on a failed row
\* that nobody touches: one that is offered again has budget left, and no row goes
\* beyond the budget by more than the inline retries of its last claim.  How often
\* the count starts from 0 again it does not say: see CarriedRetries.
RetryBudget ==
    \A p \in Paths :
        /\ rows[p].retryable = "true" => rows[p].retries < MaxTotalRetries
        /\ rows[p].retries < MaxTotalRetries + MaxRetry

\* A claimed row is in the hands of the process that serves: no interleaving of
\* claims, re-enqueues, crashes and restarts leaves a row in `processing` with
\* nobody to finish it, where neither claim nor sweep would find it again.
NoStrandedRow ==
    mode[Server] = "serving" =>
        \A p \in Paths : rows[p].status = "processing" =>
            p \in drain[Server].picks \/ job[Server][p].phase # "none"

--------------------------------------------------------------------------------
(* What the cascade is for: IndexMirror.tla, with "settled" as above. *)

Mirror == INSTANCE IndexMirror WITH
    Versions <- 0 .. MaxVersion,
    settled  <- {p \in Paths : Settled(p)}

\* Every step of the cascade edits a file, reopens, reindexes or settles paths as
\* the mirror allows, or changes nothing the mirror can see; in particular no
\* handler ever writes under a settled row.
ImplementsMirror == Mirror!Spec

--------------------------------------------------------------------------------
(* Liveness. *)

GivenUp(p) == rows[p].status = "failed" /\ rows[p].retryable = "false"

\* A delete whose handler raises.  Every sweep offers a missing file's row again
\* whatever its verdict, so deletes are retried without a budget.
FailingDelete(p) == disk[p] = 0 /\ \E pr \in Procs : job[pr][p].phase = "fail"

\* The hole of FilesStayIndexed: a delete went through for a file that is there,
\* with the mtime it has.  No sweep looks at it again.
TakenForDeleted(p) ==
    /\ disk[p] # 0 /\ rows[p].mtime = disk[p]
    /\ rows[p].status = "done" /\ rows[p].change = "deleted"

\* Once the files stop changing, every path comes to hold its file's version,
\* to be marked as beyond retry (a delete that fails forever is retried forever)
\* or to fall into the one hole the sweeps have: polling alone repairs missed
\* events, crashes, half-applied plans and interrupted commands.
Converges ==
    \A p \in Paths :
        []<>(index[p] = disk[p] \/ GivenUp(p) \/ FailingDelete(p) \/ TakenForDeleted(p))

\* A file in the queue is claimed in the end, even while another path is
\* re-enqueued over and over: the fresh lsn sends the busy one to the back.  (A
\* queued delete has no such guarantee: each sweep sends it to the back too.)
NotStarved ==
    \A p \in Paths \ Noisy :
        rows[p].status = "pending" /\ disk[p] # 0
            ~> rows[p].status # "pending" \/ disk[p] = 0

================================================================================
