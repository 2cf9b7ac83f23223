# EverOS in TLA+

EverOS keeps the memory of agents as markdown files. A service turns chat
messages into memory cells and episodes, an offline engine derives further
memories from them, and a cascade keeps a LanceDB index equal to the files. This
directory models the parts whose correctness depends on the order of things:
which step of which task comes first, what a crash leaves behind, what a retry
meets. Source paths below are relative to `src/src/everos/`.

## 1. The system

| Component | State | Operations | Talks to |
|---|---|---|---|
| Memorize (`service/memorize.py`, `service/_boundary.py`, `memory/extract/pipeline/`) | tables `unprocessed_buffer`, `memcell`; a lock per session | `/add`, deferred `/add`, `/flush` | emits events to the engine, appends episodes through the writers |
| Offline engine, OME (`infra/ome/`) | `_active_runs`, the semaphore, jobs, table `run_record`, counters, idle buckets | `emit`, `dispatch_run`, retries, `wait_for_event`, `start`, `stop`, crash recovery, config reload | runs the strategies, which emit events themselves |
| Strategies (`memory/strategies/`) | none of their own; cluster tables | facts, foresight, cases, skills, profile, clustering | write markdown, clusters, events |
| Reflection (`memory/reflection/orchestrator.py`) | cluster tables, reports, merged and deprecated episodes | merge a cluster's episodes, wait for the facts, deprecate | engine, writers, clustering |
| Markdown writers (`core/persistence/markdown/`, `infra/persistence/markdown/`) | files, a lock per path and writer | append, patch, atomic replace, memory-root lock | everything that remembers |
| Cascade (`memory/cascade/`, repository `md_change_state`) | table `md_change_state`, LanceDB rows, watcher calls, sweep, claims, handlers | watch, sweep, claim, handle, mark, recover, `cascade sync / fix / rebuild` | reads files, writes LanceDB |
| LanceDB maintenance (in `memory/cascade/worker.py`) | per kind: dirty flag, optimize and rebuild task, failure streak | optimize, prune, rebuild, supervise | the same tables |
| Knowledge (`service/knowledge.py`) | document directories, backups, two tables | create, replace, patch, delete | writers, cascade |
| Backfill (`memory/cascade/_backfill.py`) | a job store lock, vectors, clusters, runs | embed, cluster, extract skills | LanceDB, engine, strategies |
| Search and get (`memory/search/`, `memory/get/`) | none | reads | LanceDB, SQLite |
| API, CLI, TUI, clients, configuration, observability | none that the properties need | | |

### What is hard, and what correct means

* **Cascade.** File events are lost, doubled and late. The sweep decides from a
  walk and a table that it read at different times. A row can be queued again
  while a handler works for its last claim. A command may work on the same table
  in another process. Correct: what the queue calls finished is in the index as
  the file is; no claimed row is forgotten; every path gets there or is given up
  within its budget; nobody starves.
* **OME.** A run lives in three places, the in-flight count, the scheduler and
  the record table, and each is updated at another moment. Correct: the count is
  exact, a delivery is never worked on by two runs and never again once it has
  an outcome, a run ends even when strategies wait for each other.
* **Memorize.** Four writes to three stores, any of which may be the last.
  Correct: what was answered is kept, "extracted" is true, messages are carved
  once unless somebody retried or broke.
* **LanceDB maintenance.** A runner per kind and one rebuild loop wait for each
  other's task, each with a deadline whose cancellation travels into what it awaits.
  Correct: one of them at a time works on a table; what was written is optimized in
  the end; the alert of a failing optimize is not cleared by the wrong success.
* **Reflection.** Four stores tell of an episode: its log, its LanceDB row, the rows
  of its facts, its cluster. A run changes them one after the other, under a lock that
  clustering does not take, and waits for other runs of the engine in between. Correct:
  what is deprecated is told by a narrative on disk, at rest an episode is found once
  and its facts with it.
* **Knowledge.** A document is a directory that calls move, remove and write, known to
  the cascade by its paths and to the index by its ids, in two stores. Correct: a copy
  of what was answered survives, no row outlives its file, a search shows the files.
* **Backfill.** A command of three phases beside a server that may come up at any
  moment. Correct: exit code 0 is true, a vector is that of its text, nothing is
  clustered twice, an interrupted phase is completed by the next one.
* **Writers.** Read, append, replace. Correct: nobody's entry or mark is overwritten.

## 2. The plan

Done: the change queue and the cascade, with the proof that it implements its mirror;
the engine and `Delivery`, with the proof that one implements the other; the memorize
calls; the maintenance of the tables; Reflection and clustering; knowledge documents and
their handlers; the backfill; the daily logs with the proof of their lock. Every safety
property that a run finds true is also a theorem.

Left, in this order:

1. Compositions: memorize with the engine and the writers; the writers with the
   cascade, whose `Write` action is then theirs; the engine with strategies whose
   retries have effects.
2. The config reloader and the counter gate of the engine; the fusion of search
   results as operators.

## 3. The modules

| Module | Role |
|---|---|
| `ChangeQueue` | The rows of `md_change_state` and every statement on them, as operators on the table; the reconciler's decision. |
| `Cascade` | Processes, files, watcher, sweeps, claims, handlers and commands over that queue; properties. |
| `IndexMirror` | What the cascade promises: a file is edited, its path reopened, reindexed, settled, and nothing writes under a settled path. |
| `CascadeInv` | The invariant behind `SettledIndexed`. |
| `CascadeProofs` | Theorems about `Cascade`, the refinement of `IndexMirror` among them. |
| `OfflineEngine` | Events, runs, attempts, records, recovery and the engine's own life; properties. |
| `Delivery` | What the engine promises of one event for one strategy. |
| `OfflineEngineProofs` | Theorems about `OfflineEngine`, the refinement of `Delivery` among them. |
| `Memorize` | Calls of one session: lock, buffer, memcells, pipelines; properties. |
| `MemorizeProofs` | Theorems about `Memorize`: messages, cells, episodes, answers. |
| `CascadeOptimizer` | Per kind: the runner that optimizes, the rebuild loop, the fallback, their deadlines and `stop()`; properties. |
| `CascadeOptimizerProofs` | Theorems about `CascadeOptimizer`. |
| `Reflection` | One cluster: conversation, clustering, fact extraction, cascade, Reflection runs; properties. |
| `ReflectionProofs` | Theorems about `Reflection`. |
| `Knowledge` | One document: its directories, the calls on it, the two handlers and the two stores; properties. |
| `KnowledgeProofs` | Theorems about `Knowledge`. |
| `Backfill` | The command, its phases, its engine, a server beside it; properties. |
| `BackfillProofs` | Theorems about `Backfill`. |
| `DailyLog` | One log, its two writers and their locks; properties. |
| `DailyLogProofs` | What the lock of one writer guarantees. |
| `MC*` | Values of constants for TLC. |

Operators named in a comment "Mutant:" are not part of a specification. Each is a
plausible bug, kept beside the definition it would replace; `PROJECT.json` says
which property must fail with it.

### Cascade

An action is what a task does between two awaits that others can get between.
`Write`, `Unlink`, `Restore` and `SpuriousEvent` are the programs that own the
files. The watcher has three steps, because its thread looks at the file
(`WatcherLook`, `WatcherStat`) before the event loop commits the row
(`WatcherUpsert`). A sweep walks (`ScanWalk`), reads the table and decides
(`ScanDecide`), and applies one decision at a time (`ScanApply`). A claim is the
three statements of `claim_pending_batch`: pick, update, and the second read
after the commit, which may return less, or another's claim. A handler is its
call, the read of the file, the two writes to LanceDB and the mark, each an
action, with the retries of `_process_one` between them. A lost mark
(`ReportLost`) ends the drain, and the other handlers of the batch run on.

Data: a file's content and mtime are one number, its version, never used twice
(except by `Restore`); the index of a path is the version its rows stand for, or
`Torn` between the upsert and the delete of stale rows. `lsn` is kept as a rank.

### Offline engine

A run is named by its event, its strategy and its generation: recovery makes run
`g + 1` of a delivery after run `g`. `Dispatch` enqueues one job per route and
may fail in the middle. `StartAttempt` takes a slot and inserts the row in one
transaction with the trim of the strategy's oldest rows. `MarkFailed` frees the
slot before the backoff; `MarkRaises` and `StartFails` are failing writes.
`RecoverMark` and `RecoverEnqueue` are the two halves of one recovery, `Stop`,
`DrainEnds` and `Shutdown` the three of a stop: the engine accepts events until
the last of them. Jobs of a dead engine are dropped by the next one
(`_runner_entry`), so `GoDown` forgets them.

Which strategies an event reaches is a constant. No strategy of the repository
has a counter gate or an idle trigger, so neither is modelled.

### Memorize

A call holds the session lock from `Acquire` to its end. `ReadBuffer`, `Detect`,
`InsertMemcells` and `ReplaceByTail` (or `Accumulate`) are the awaits of
`prepare_cells`; the boundary detector may cut anywhere, and leaves no tail for a
flush. The pipelines are tasks: when one raises, the call fails and frees the lock
while the other goes on (`TaskFails`); the timeout cancels both (`Fail`). Clients
send a batch again when it failed or was not answered.

What the merge read may go back into the buffer: for a deferred call, without a user's
message, or when the detector finds no cell. A flush does that too when tool rows are all
there is, because the agent detector drops them before it looks. The write of the
conversation status comes after that of the buffer and may fail (`Accumulate`).

A message is its id. `gen_message_id` makes it from session, timestamp and index, so two
different messages of a client can share one; the merge then drops the later, silently.
The model takes messages with different ids only; see the hazard at
`memory/extract/ingest/id_gen.py:5`.

### Cascade optimizer

`runner[k]` is the task of `_optimize_tasks`, `loop` the supervised rebuild loop,
`rebuilds[k]` the inner tasks at work on a table and `slot[k]` the one in
`rebuild_task`, kept apart so that their agreement is something to check. A runner
passes its gate (`Enter`, `Wake`), optimizes (`OptimizeSucceeds`, `-Conflicts`,
`-Fails`), may fall back to a rebuild of its own, and pauses (`Cooled`); the loop
takes up a round (`Round`), visits a kind (`Visit`), may wait for its runner
(`Resume`) and awaits the rebuild (`RebuildEnds`).

`await task` is not shielded here. A deadline on it cancels the task, and all who
await the same task are cancelled with it: `GiveUp` ends the rebuild and the loop,
`TimeOut` the runner and its fallback. The order of asyncio's ready queue is used
once: a loop that was woken by the end of a runner runs before the first step of a
runner made later (`Enter`). Time is left out: throttles, ticks and backoffs end at
any moment, a deadline passes only where the wait can last that long. The clocks of
prune choose between two calls that are one here.

### Reflection

`md` and `mark` are the log and its `deprecated_entries`, `row[x]` the `deprecated_by`
of a LanceDB row, `fact[x]` the facts of an entry from their extraction to their row,
`members` and `count` the cluster. The conversation writes an episode, its clustering
run reads the cluster (`ReadCluster`) and writes it back (`JoinCluster`) under the
owner's lock. The run may fail after that write, or die, and is made again
(`JoinAndFail`): the count goes up once more, the member is there already. The extraction
of facts gives some, gives none and succeeds all the same (`FindNoFacts`), or fails. The
cascade reads the log and indexes it (`ReadLog`, `IndexLog`), where the update of a mark
may fail unseen (`ApplyMarks`), or makes the index again (`Rebuild`). A run takes a
snapshot if the count is high enough (`Select`), loads its members (`Load`), writes its
narrative and asks for facts (`Merge`), waits until their extraction has ended, well or
not (`Resolve`), or too long (`Timeout`), and then, under the cluster's lock, patches the
log, the rows, the facts, the membership and the count, one action each;
`Interrupted` ends it anywhere.

A narrative is named by its run and its text is the set of episodes it tells of, so
that "what replaced it tells the same" can be said. An update of an older narrative
keeps the first one only (`MergedText`).

### Mishaps

`Reflection` and `Knowledge` keep a history variable, `mishaps`: each thing the code does
not guard against puts its name there when it happens, in the action where it happens.
A property names the mishaps after which it does not hold; each name was found by
dropping it and looking at TLC's counterexample, so the list of a property is also what
a maintainer has to repair to get it without exception. In `Reflection` they are: a
clustering run that writes back what it had read before the merge (`stale`), one that is
made again after its write (`again`), a member
without an index row when it is merged (`lag`), a second old narrative that an update
drops (`dropped`), a failed extraction that the wait takes for an end (`failed`), one that
gives no facts (`empty`), a mark that a handler did not get into a row (`unmarked`), a wait
that is given up (`timeout`), two runs on one cluster (`overlap`), facts indexed after
the deprecation (`late`), a member that joined during it (`joined`), a run that is cut
off (`interrupted`), an index made again (`rebuilt`). In `Knowledge`: two handlers at one
document's rows (`race`), a call that starts from a row that lags behind (`stale`), a
directory moved into an existing one (`nested`), a name taken by somebody else
(`usurp`), a topic that is taken for unchanged (`skip`), a handler that stops between its
two stores (`half`). `Backfill` has `late` and `again` for the same purpose.

### Knowledge

A directory is its category, the slug of its title and how often it was made a backup.
`Create`, `Replace`, `Patch` and `Delete` start a call, whose steps are the file
operations in their order. A failure between the backup and its removal restores it
(`Fails`, `RestoreBackup`); one at any other step, the move of the backup and its way back
among them, ends the call where it is (`Aborts`), as a crash does. `Patch` and `Delete` find the directory by the row the cascade wrote. The handlers
read a file, and write LanceDB before SQLite (`CompareDigest`, `UpsertLance`,
`UpsertSql`), deletes in the same order.

### Backfill

`Probe` looks whether the job store is free, `StartEngine` takes its lock, and that is
what a server cannot have at the same time; phase 1 has no engine and so no lock. A
vector is the version of the text it was made from. `EmbedBatch` may lose a row or a
side, `WriteRow` counts what is missing; a row that the scan cannot read counts as failed.
Phases 2 and 3 emit an event per row or case and wait until their runs are drained; an
interrupt leaves runs that the next server recovers. Phase 3 and the server index
SKILL.md through the cascade (`Index`), of which only a count comes back: a file is left out
when its handler fails for good, and one that was claimed when a drain was cut off
(`CutOff`) stays claimed, since only a start of the cascade takes such rows back. `stuck`
is the set of these files.

### Daily log

A call is the lock, the count, the read and the replacement, one action each, and any
await may raise. The locks are those of the call's own writer.

## 4. What is checked

| Run | Question | Result |
|---|---|---|
| `cascade_exclusive` | One process at a time, events, crashes, commands, failing handlers and sweeps, two versions of a file: is what is settled right (`SettledIndexed`), is no claimed row forgotten (`NoStrandedRow`), is every step one of the mirror's (`ImplementsMirror`), and is the invariant of the proof one (`SettledInv`)? | holds |
| `cascade_budget` | Server and command at once, files back with their old mtime, lost marks: do attempts stay in the budget, and is a row offered again only with budget left (`RetryBudget`)? | holds |
| `cascade_converge` | Do sweeps repair everything (`Converges`)? | holds, with the exceptions the property names |
| `cascade_fair` | Two paths, one slot per batch, one path re-enqueued forever: is the other's turn certain (`NotStarved`)? | holds for files; a queued delete is sent to the back by each sweep |
| `find_scan_race` | Is a file that no sweep will look at again indexed (`FilesStayIndexed`)? | no |
| `ome_runs` | Reflection and fact extraction with two slots, or with one, which Reflection holds while it waits for the extraction: count exact (`ActiveExact`), one open run per delivery (`OneOpenRun`), deliveries as `Delivery` allows (`ImplementsDelivery`), every run ends (`RunsEnd`) | holds |
| `memorize_calls` | Three calls in both modes, broken off anywhere: `NothingLost` and its inductive form `KeptInv`, `DuplicatesExplained`, `ExtractedMeansWritten`, `FlushCarves` | holds |
| `optimizer_tasks` | Two kinds, failing, conflicting and late calls, a stop at any time: one task at a time on a table (`OneMaintainer`, inductively `MaintainerInv`), the alert goes with a successful optimize only (`AlertStays`), a dirty kind is optimized in the end (`DirtyServed`) | holds |
| `reflection_cluster` | Two runs on one cluster of up to three episodes and one fault: is what is deprecated told (`NothingForgotten`), an episode found once (`FoundOnce`), do facts go only when the extraction of their successors has ended (`FactsReplaced`) and found with their entry (`FactsAgree`), is the count right (`CountIsSize`)? | holds, but for the mishaps named |
| `knowledge_document` | A document is made and replaced, patched or deleted beside its handlers: does a copy survive (`CopyKept`), does no row outlive its file (`NoGhostRow`), does a search show the files (`FoundAsWritten`)? | holds, but for the mishaps named |
| `backfill_command` | Two commands, interrupts, a server: is exit 0 true (`ExitZeroMeansEmbedded`), are vectors fresh (`FreshVectors`), rows in one cluster (`OneCluster`), skills of an interruption indexed (`OrphansIndexed`)? | holds, but for a late server, a retried attempt, files that the queue holds back, and the subject noted below |
| `find_append_lost` | Do two writers on one log keep every append (`AppendsKept`)? | no |

### Findings

* **`find_scan_race`** A file that appears, with its event handled, between a
  sweep's walk and its read of the table is taken for deleted. The handler wipes
  its rows without a look at the file, the row ends `done` with the file's real
  mtime, and every later sweep skips it: the file is out of the index until edited.
* **`find_append_lost`** The conversation and Reflection have an `EpisodeWriter` each,
  and a path lock belongs to its writer. Both read the log, and the later replacement
  drops the other's entry or mark, or reuses its id. With one writer
  `DailyLogProofs!OneWriterKeepsAll` says that this cannot happen.

Known disagreements that have no run of their own; each was seen as a counterexample
while a property was written:

* The runbook calls `cascade sync` safe beside a server (`docs/cascade_runbook.md`). The
  claim's second read and `mark_done`'s guard on the status alone let one process finish
  a claim of the other with older content: `SettledIndexed` fails without `Exclusive`.
* `wait_for_event` takes FAILED, written before a retry, for terminal, and does not wait
  for runs that have no row yet (`infra/ome/engine.py:906`). In `Reflection` that is the
  mishap `failed`: facts of the sources are taken out with nothing in their place. An
  extractor that finds no fact returns and counts as a success
  (`extract_atomic_facts.py:51-59`), with the same effect (`empty`). `FactsReplaced` says
  that facts go only when the extraction has ended; it cannot say that it gave any.
* `/flush` empties the buffer before the episode exists. When the extraction fails, the
  retry finds nothing to do and is answered; the messages stay without an episode.
* A runner waits at most 180 s for a rebuild that may last 300 s. Its deadline cancels
  the rebuild, and with it the loop that awaits it; `_supervise` takes the
  `CancelledError` for a stop (`memory/cascade/worker.py:936`).
* Phase 3 of the backfill replays cases without their quality, which the extractor then
  takes for the worst: it ends with exit 0 and no skill (`_backfill.py:1438`).
* A row that has its primary vector and fails to get its subject's is passed over by
  `if not updates: continue` (`_backfill.py:673`) and not counted, so the exit code is 0;
  the comment below it says that automation must see it.
* `upsert_with_members` is called idempotent under retry (`repos/cluster.py:310-316`). The
  member is, the count is not: the retry reads the cluster again and writes one more
  (mishap `again` of `Reflection`). In the backfill the retry decides anew and may put the
  row into a second cluster (`again` of `Backfill`).
* The daily-log handler is to reconstruct `deprecated_by` on every sync and rebuild
  (`handlers/_daily_log_base.py:233-234`), but `_mark_deprecated` swallows every exception
  (261-273) and the handler ends done: sources and narrative stay in the search side by
  side until the file changes again (mishap `unmarked`).
* A transient failure is not to be retried forever (`worker.py:22-26`, `:126-135`), and an
  upsert at the same mtime carries the retries of a failed row. A row that is pending or
  processing starts again from 0, after a doubled event, or when a second sweep queues a
  delete again (`reconciler.py:113` does not look at the status); `force_enqueue` writes
  mtime 0.0, which gives all attempts back. What holds is `RetryBudget`.
* `replace_document` restores the original to its place (`service/knowledge.py:553-557`,
  `575-576`). `shutil.move` puts it inside a directory that is already there, as after a
  new version that failed half-way: then it is kept, but nested (mishap `nested`).
* The topic handler calls retries safe (`handlers/knowledge_topic.py:8-11`). After a failure
  between the stores the digest in LanceDB makes the retry skip the file, and the SQLite
  row is missing or old (mishaps `half`, `skip`).
* Phase 1 of the backfill is called safe beside a server (`_backfill.py:449`,
  `_backfill_cmd.py:153-175`). The probe keeps nothing: a server that comes up afterwards
  edits rows whose vectors the command writes from the old text (mishap `late`).
* Phase 3 of the backfill "guarantees those orphans get picked up" (`_run_phase_skills`). A
  SKILL.md whose row of the queue is failed for good, or still claimed since a drain was cut
  off, stays out of the index, and the exit code is 0: `stuck` of `Backfill`.
* Deprecated facts are marked in LanceDB only, though the storage layout calls the index
  derivable from markdown: a rebuild brings them back (mishap `rebuilt`).

### Bounds

* Cascade: one path in the safety runs. Paths share only the order of the queue and
  the batch; `cascade_fair`, where they matter, has two. Two versions give old and new content, and an edit during each step of a
  handler. Two upsets give a crash and a restart, or a crash in the middle of a
  command. `MaxTotalRetries` 1 or 2 stands for 12 and `MaxRetry` 1 for 3: the code
  only compares them. Two waiting events or upserts give their reordering.
* OME: one event of reflection and its child, or two from outside; two attempts;
  two rows per strategy, fewer than the attempts there are, so that the trim bites;
  one stop, failed start or crash, so recovery happens once per behaviour. Each start
  finds one slot or two: with one, a run that waits keeps the run it waits for from
  starting, until its deadline; with two the wait can return.
* Memorize: three calls are an acknowledged add, a broken call and its retry; one of
  them at a time waits for the lock, whose queue has no order in the model. A
  user's message and a tool row give the anchor, the filter of chat mode, and a cut
  between the two.
* Reflection: two runs and three episodes, two of them settled, give a merge at once, an
  episode that joins before, during and after it, a merge beside another, and an update of
  a narrative. One fault of any kind per behaviour. A second old narrative in one cluster
  takes three runs, more than TLC can go through; the theorems cover any number. The
  proof of `FoundOnce` is what showed that it needs the exception `dropped`: a second
  run takes its snapshot between the first one's removal of members and its addition of
  the narrative, so that both narratives end up in the cluster, and the update of a third
  run keeps one of them. A behaviour of four episodes and three runs, guided along these
  steps, confirmed it in TLC.
* Knowledge: two calls, two categories and two titles, so that a directory can move, and
  move into a name that is taken; one failing step or crash. (Three calls without a
  fault were checked once: 1.9 million states, no error.)
* Backfill: one episode with a subject and two cases, of which one is good enough for a
  skill; two clusters of each kind; two commands, one server, two versions of a text and
  one failure: an interrupted command and its repetition, with a server between or
  beside them.
* Daily log: two appends of the conversation, one narrative, one patch.
* Optimizer: kinds share only the loop, and two are enough for one to be visited
  while the other waits. `Threshold` 2 stands for 5 and `MaxBackoffs` 1 for 3; a
  streak is counted up to the threshold, the only number it is compared with.

Deadlock is not checked: with files, commands, events and calls used up the system
is at rest.

### Fairness

* `cascade_converge`, `cascade_fair`: the tasks of a running process go on (weak
  fairness of the watcher, of sweeps, of drains and of each handler), and a server
  that is down is started again. Strong fairness is asked of a claim that returns
  rows: a claim may come up empty when the row is queued again between its
  statements, and that does not happen at every claim forever. Nothing is asked of
  events, of commands, or of the success of a handler.
* `ome_runs`: a task that can run does run; bodies return (their clients have
  timeouts); the semaphore serves its waiters in order; a wait meets its deadline.
  Nothing is asked of start, stop, recovery or emitters.
* `optimizer_tasks`: the heartbeat schedules a kind with work again and again, calls
  to LanceDB end (each has a deadline), and a task that can run does run. Nothing is
  asked of outcomes, of the deadlines on the waits, of rounds or of `stop()`.

## 5. What is proved

| Theorem | Says | Assumes |
|---|---|---|
| `CascadeProofs!TypeCorrect` | every variable keeps its type | the constants' assumptions |
| `CascadeProofs!BudgetKept` | `RetryBudget` always holds | the constants' assumptions |
| `CascadeProofs!SettledInvariant` | `SettledInv` always holds | `Careful` |
| `CascadeProofs!SettledCorrect` | `SettledIndexed` always holds | `Careful` |
| `CascadeProofs!NoRowIsStranded` | `NoStrandedRow` always holds | `Careful` |
| `CascadeProofs!MirrorImplemented` | `Cascade` implements `IndexMirror` (`ImplementsMirror`) | `Careful` |
| `MemorizeProofs!TypeInvariant` | every variable of `Memorize` keeps its type | the constants' assumptions |
| `MemorizeProofs!KeptInvariant` | `KeptInv` always holds | the constants' assumptions |
| `MemorizeProofs!NothingIsLost` | `NothingLost` always holds | the constants' assumptions |
| `MemorizeProofs!ExtractedIsWritten` | `ExtractedMeansWritten` always holds | the constants' assumptions |
| `MemorizeProofs!FlushHasCarved` | `FlushCarves` always holds | the constants' assumptions |
| `MemorizeProofs!DuplicatesAreExplained` | `DuplicatesExplained` always holds | the constants' assumptions |
| `OfflineEngineProofs!TypeCorrect` | every variable of `OfflineEngine` keeps its type | the constants' assumptions |
| `OfflineEngineProofs!ActiveIsExact` | `ActiveExact` always holds | the constants' assumptions |
| `OfflineEngineProofs!OneOpenRunAlways` | `OneOpenRun` always holds | the constants' assumptions |
| `OfflineEngineProofs!DeliveryImplemented` | `OfflineEngine` implements `Delivery` (`ImplementsDelivery`) | the constants' assumptions |
| `CascadeOptimizerProofs!TypeCorrect` | every variable of `CascadeOptimizer` keeps its type | the constants' assumptions |
| `CascadeOptimizerProofs!MaintainerInvariant` | `MaintainerInv` always holds | the constants' assumptions |
| `CascadeOptimizerProofs!OneMaintainerAlways` | `OneMaintainer` always holds | the constants' assumptions |
| `CascadeOptimizerProofs!AlertIsKept` | `AlertStays` holds of every step | the constants' assumptions |
| `ReflectionProofs!TypeCorrect` | every variable of `Reflection` keeps its type | the constants' assumptions |
| `ReflectionProofs!NothingIsForgotten` | `NothingForgotten` always holds | the constants' assumptions |
| `ReflectionProofs!FactsAreReplaced` | `FactsReplaced` always holds | the constants' assumptions |
| `ReflectionProofs!ReplacementInvariant` | `ReplacementInv` always holds | the constants' assumptions |
| `ReflectionProofs!CountIsTrue` | `CountIsSize` always holds | the constants' assumptions |
| `ReflectionProofs!FactsAndRowsAgree` | `FactsAgree` always holds | the constants' assumptions |
| `ReflectionProofs!EveryEpisodeFoundOnce` | `FoundOnce` always holds | the constants' assumptions |
| `KnowledgeProofs!TypeCorrect` | every variable of `Knowledge` keeps its type | the constants' assumptions |
| `KnowledgeProofs!KnowledgeInvariant` | `KnowledgeInv` always holds | the constants' assumptions |
| `KnowledgeProofs!CopyIsKept` | `CopyKept` always holds | the constants' assumptions |
| `KnowledgeProofs!NoGhostStays` | `NoGhostRow` always holds | the constants' assumptions |
| `KnowledgeProofs!FoundWhereWritten` | `FoundAsWritten` always holds | the constants' assumptions |
| `BackfillProofs!BackfillInvariant` | `BackfillInv` always holds | the constants' assumptions |
| `BackfillProofs!TypeCorrect` | every variable of `Backfill` keeps its type | the constants' assumptions |
| `BackfillProofs!ExitCodeIsHonest` | `ExitZeroMeansEmbedded` always holds | the constants' assumptions |
| `BackfillProofs!VectorsAreFresh` | `FreshVectors` always holds | the constants' assumptions |
| `BackfillProofs!RowsHaveOneCluster` | `OneCluster` always holds | the constants' assumptions |
| `BackfillProofs!OrphansAreIndexed` | `OrphansIndexed` holds of every step | the constants' assumptions |
| `DailyLogProofs!OneWriterKeepsAll` | `AppendsKept`, `PatchesKept` and `IdsUnique` always hold | `OneWriter` |

`Careful` is: one process at a time, no file that comes back with an old mtime, no
mark that raises. Each is needed. `cascade sync` beside a server breaks the first. A deleted
file that comes back with its old mtime matches the row of its first appearance
again, though a handler that found it gone has wiped its rows. And a mark that raises gives up the drain but not the batch's other
handlers, so that the next drain claims what they still work on; TLC finds that with
two paths, a batch of two and `Faults = {"db"}`. Everything else, paths, processes, versions, limits, batch size,
the other faults, is arbitrary.

The constants' assumptions give each constant its kind: sets of names, of which the
finite ones are counted, limits that are natural numbers, values that are none of the
others (`NoneAssumption` says so of `None` and what a record can be in `Reflection` and
`Knowledge`). None of them bounds the size of a set.

**The argument for the cascade.** `SettledIndexed` alone is not inductive: a row
becomes `done` by a mark, so something must be known of the handler that marks.
`SettledInv` says (`CascadeInv`): a handler that works for the row's present claim
has, at each of its steps, read and written the file's present version or the row
is not fresh any more (`HandlerExact`); a finished row stays right while its file
stays as it was (`FinishedExact`); a path in the hands of a handler is claimed or
queued, never finished (`HandledNotFinished`); a process that drains is the only one
that runs (`OneProcess`, `WorkInDrain`, `ServerModes`), so nobody claims what
another handles; and nothing that is remembered of a file is newer than its last
version (`VersionsBounded`), so a new version differs from everything in flight.

From there, `NoStrandedRow` needs where a claimed row is between two steps: picked and
updated, or with a handler (`ClaimsHeld`). The refinement has one lemma per step of the
mirror: a file changes (`FileStep`), an entry is written that is not settled, because
its row is claimed or queued again (`ReindexStep`, `HandlerStep`, `DropStep`), a mark
settles what is exact, or settled paths only become fewer (`ReopenStep`).

The budget needs none of this. A handler starts with budget left or fails at once, each
inline attempt costs one, and it says "retryable" only while there is some left
(`JobWithin`); the statements of the queue keep a row inside (`RowWithin`), whoever runs
them beside whom.

**The argument for memorize.** While a call holds the lock, what it read covers the
buffer, and once it has inserted its cells, tail and cells together cover what it
read. So replacing the buffer loses nothing, whoever wrote it; the lock is what
makes the first half true. That tail and cells cover everything rests on the least
cut at or after a message, a fact about natural numbers.

For the answers three more invariants are needed. `WrittenInv`: an event follows its
entry, and while a call waits for its pipelines every one of them is at work or through,
so `Return` is enabled only when all is written. `FlushOwes`: from the moment it is sent
a flush finds what it owes in the buffer, the cells or its own reading; it leaves no
tail, so what it replaces the buffer by is carved. And for `DuplicatesExplained` one has
to say where a carved message may still be (`CarvedOnce`): in the buffer or in a reading
only if it was sent twice, if the call that carved it broke, or if that call is just
about to replace the buffer. Cells of one cut are disjoint, and a tail from its cells.

**The argument for the engine.** The in-flight count is a cardinality: each step adds
the first runs of a dispatch or the one run of a recovery, or takes one live run away,
and `Completed` never hits its floor because the run that ends was counted. For one open
run per delivery one has to follow the table: a RUNNING row belongs to the present
attempt of a run at work or dead at work (`RunningExact`); what recovery has found is
such a row of a dead run, or one that was trimmed since (`TodoExact`); once it is marked,
nothing of the run can be recovered again (`ReaddExact`); so a run of a later generation
exists only when all earlier ones are closed (`Generations`). The refinement then needs
the fate of a run in a step only: it stays where it is and closed runs stay closed
(`Calm`), it is live and goes on or dies (`Worked`), or it is enqueued, as the first of
its delivery or after an open one (`Born`). What the delivery does follows from `Means`.

**The argument for the optimizer.** Each side looks for the other's task and then
starts its own with no await in between, so it is enough to know that what it looks
at is true and stays true while it waits. `SlotExact`: `rebuild_task` is exactly the
rebuild at work, and its owner is where the slot says, through every cancellation.
`GateHolds`: while the loop rebuilds, or has been woken to, a runner of that kind is
at most at its gate. The first makes the runner's look sound, the second the loop's.
`AlertStays` is one lemma over all actions: a streak at the threshold changes only in an
optimize that succeeds (`StreakShrinks`); nothing else ever lowers it.

**The argument for Reflection.** The text of a narrative is fixed when it is written,
and nothing refers to it earlier (`Placed`, `Unseen`), so "r tells of x" is stable once
it is true. A merge makes it true of all that it has loaded, which is its whole snapshot
unless a member had no row (`RunsTell`); what is deprecated under the lock is a part of
that. The cascade may carry a mark later than it was written, so the same is said of what
a handler has read (`HandlerTells`). A run gets to the lock only when the extraction it
waits for is over (`FactsThere`): with facts, with none to find, or failed, and the last
only beside `failed`.

What holds at rest needs a second invariant on top, `ReplacementInv`, about the time in
between. Unless a clustering run is made again, nobody has seen an episode that is on its way
to the cluster (`NewcomersUnseen`),
so a join meets no run that has it already; with that the count is the number of members
except from a removal to the end of its run (`CountKept`). The index is what the cascade has
read last, and when nothing is left to read it has every mark of the log but those that
were lost (`CaughtUp`). A
run deprecates just what it has loaded (`LoadsAll`), so facts, where there are any, follow the rows of their
entries, and a run that has taken out a row has still to take out its facts
(`FactsFollow`). For `FoundOnce`, call an entry standing when it has no mark and no
pending run is to put it in the place of others. One standing entry tells of every
episode (`OneStands`): a merge adds a narrative that is not standing, and the patch of the
log, one step, takes what it loaded from the standing entries and puts the narrative
there. That this exchanges like for like is `RunsReplace`. At rest rows are live just for
standing entries.

**The argument for knowledge.** One call is open at a time. `CopyKept` needs what a call
has written so far (`CopyBeside`): while the target is written, the backup is whole, or it
is inside another directory. For `NoGhostRow` a row without a file must have a
successor in sight: its path is among the changes or in the hands of a handler that deletes
(`Leaving`), and what a handler has read is the file unless the path has changed again
(`ReadIsFile`). LanceDB is written and deleted before SQLite, so a handler that breaks off
in between leaves a row in SQLite only, and its path among the changes; this is why no
failure is an exception. `FoundAsWritten` is proved for behaviours without a mishap, in
which a document that is patched is in one directory (`PatchAlone`), only one handler of a
part has a file to store (`OneStores`), the two stores differ only between the two writes of
a handler (`StoresAgree`), and a file without changes is in its row (`DocFound`,
`TopicFound`).

**The argument for the backfill.** What the command has in hand at each step
(`CommandShape`) and that a server beside it came late (`ServerSeen`) come first. A gap
that phase 1 found is still to do, in the batch with what was got for it, filled, or counted
as a failure (`GapsKept`); at the end nothing is to do and the exit code says the rest. What
was scanned is still the text (`ScansFresh`), because a server that could change it is late.
A row has one run, in the engine or left behind, until it is in a cluster, and none
after (`OneRun`); the scan for missing rows is what makes that so when the command comes
again. Between the sync of phase 3 and its scan nobody writes a file, so one without a row is
`stuck` (`OrphansSynced`).

**The argument for daily logs.** While a call is inside the lock nobody else is
(`Alone`), so what it has read is what the file holds (`Current`); the count is an upper
bound of all numbers (`Numbered`), so the new one is new.

Only model-checked: what holds under fairness (`Converges`, `NotStarved`, `RunsEnd`,
`DirtyServed`). Liveness and ENABLED are out of the prover's reach. All other properties
of the runs that hold are theorems.

## 6. What is not modelled

`PROJECT.json` lists every component with its reason, and every hazard that no
property covers with a note. In short:

* The config reloader, counter gate and idle scanner of the engine: no strategy of the
  repository uses the last two, and the first swaps values that are read once per run.
* Strategies other than clustering and fact extraction: a prompt, a parse and a write;
  what they do again in a retry needs a composition with the engine.
* Profile and skill files, which are overwritten as a whole, and the polling lock of the
  memory root between processes.
* Search, get, API, CLI shell, TUI, provider clients, configuration and telemetry: they
  keep no state whose order matters. Together they are the larger part of the source,
  the TUI demo and the API routes alone a fifth of it.
* A cancelled call whose `os.replace` is already in its worker thread is taken to end
  with that thread; asyncio would give the lock back a moment earlier.
