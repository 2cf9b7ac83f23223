------------------------------ MODULE ChangeQueue ------------------------------
(***************************************************************************)
(* The cascade work queue: the SQLite table md_change_state and the        *)
(* repository that is its only writer.  One row per markdown path.         *)
(*                                                                         *)
(* The operators below are the repository's statements, each one a single  *)
(* committed transaction, as functions from the table to the table.  The   *)
(* module declares no variable: Cascade.tla decides when they run.         *)
(*                                                                         *)
(* Abstractions.                                                           *)
(*  - A modification time is a natural number; 0 stands for the 0.0 that   *)
(*    the watcher and the CLI store when they have no stat result.  Two    *)
(*    times are equal when they agree within MTIME_TOLERANCE_SECONDS.      *)
(*  - "added" and "modified" are one change, "changed": no statement and   *)
(*    no handler tells them apart.                                         *)
(*  - The lsn of a row matters only relative to the others, so the model   *)
(*    keeps its rank: MAX(lsn) + 1 moves a path behind every other path.   *)
(***************************************************************************)
EXTENDS Naturals, FiniteSets

CONSTANTS
    Paths,              \* the markdown paths that match a registered kind
    MaxTotalRetries     \* _MAX_TOTAL_RETRIES, the budget across sweeps

ASSUME PathsAssumption == IsFiniteSet(Paths)
ASSUME MaxTotalRetriesAssumption == MaxTotalRetries \in Nat \ {0}

Statuses == {"pending", "processing", "done", "failed"}
Changes  == {"changed", "deleted"}

\* retryable is a nullable boolean: null exactly on rows that are not failed.
Row == [status : Statuses \cup {"none"}, change : Changes, mtime : Nat,
        retryable : {"null", "true", "false"}, retries : Nat]

\* A path without a row.
NoRow == [status |-> "none", change |-> "changed", mtime |-> 0,
          retryable |-> "null", retries |-> 0]

Table == [Paths -> Row]

--------------------------------------------------------------------------------
(* Writers: watcher, scanner, `cascade sync --path`. *)

\* The retry budget survives the re-enqueue of a failed row whose file has the
\* same mtime, and only that: a pending or claimed row that is queued once more
\* (a second event, a second sweep of a delete, `cascade sync --path`) starts from
\* 0 again, though its file may be the same.
CarriedRetries(row, mtime) ==
    IF row.status = "failed" /\ row.mtime = mtime THEN row.retries ELSE 0

Upsert(rows, p, change, mtime) ==
    [rows EXCEPT ![p] = [status    |-> "pending",
                         change    |-> change,
                         mtime     |-> mtime,
                         retryable |-> "null",
                         retries   |-> CarriedRetries(rows[p], mtime)]]

\* Mutant: a re-enqueued row keeps the lsn of its first insert.
NextLsnKept(lsn, p) ==
    IF lsn[p] # 0 THEN lsn ELSE [lsn EXCEPT ![p] = Cardinality({q \in Paths : lsn[q] # 0}) + 1]

\* Every upsert takes a fresh lsn: p goes behind all other paths.
NextLsn(lsn, p) ==
    [q \in Paths |-> IF q = p THEN Cardinality(Paths)
                     ELSE IF lsn[q] > lsn[p] THEN lsn[q] - 1
                     ELSE lsn[q]]

ForceEnqueue(rows, p) == Upsert(rows, p, "changed", 0)

--------------------------------------------------------------------------------
(* The claim, in the three steps the repository takes: SELECT the oldest
   pending paths, UPDATE them and commit, SELECT what is now processing. *)

Pending(rows) == {p \in Paths : rows[p].status = "pending"}

PickOldest(rows, lsn, limit) ==
    {p \in Pending(rows) :
        Cardinality({q \in Pending(rows) : lsn[q] < lsn[p]}) < limit}

ClaimPicks(rows, picks) ==
    [p \in Paths |-> IF p \in picks /\ rows[p].status = "pending"
                     THEN [rows[p] EXCEPT !.status = "processing"]
                     ELSE rows[p]]

\* The closing SELECT runs after the commit, in a transaction of its own.
SelectClaimed(rows, picks) == {p \in picks : rows[p].status = "processing"}

--------------------------------------------------------------------------------
(* Results.  Both statements are guarded by status = 'processing'. *)

\* Mutant: no WHERE status = 'processing'.
MarkDoneUnguarded(rows, p) ==
    [rows EXCEPT ![p] = [rows[p] EXCEPT !.status = "done", !.retryable = "null"]]

MarkDone(rows, p) ==
    IF rows[p].status = "processing"
    THEN [rows EXCEPT ![p] = [rows[p] EXCEPT !.status    = "done",
                                             !.retryable = "null"]]
    ELSE rows

MarkFailed(rows, p, retryable, retries) ==
    IF rows[p].status = "processing"
    THEN [rows EXCEPT ![p] = [rows[p] EXCEPT !.status    = "failed",
                                             !.retryable = retryable,
                                             !.retries   = retries]]
    ELSE rows

--------------------------------------------------------------------------------
(* Startup recovery and the CLI. *)

\* Mutant: the claims of a dead process stay claimed.
RecoverNothing(rows) == rows

RecoverOrphans(rows) ==
    [p \in Paths |-> IF rows[p].status = "processing"
                     THEN [rows[p] EXCEPT !.status = "pending"]
                     ELSE rows[p]]

Retryable(rows) ==
    {p \in Paths : rows[p].status = "failed" /\ rows[p].retryable = "true"}

ResetRetryable(rows) ==
    [p \in Paths |-> IF p \in Retryable(rows)
                     THEN [rows[p] EXCEPT !.status    = "pending",
                                          !.retryable = "null",
                                          !.retries   = 0]
                     ELSE rows[p]]

ResetAll == [p \in Paths |-> NoRow]

--------------------------------------------------------------------------------
(* reconcile(): what one sweep enqueues for a path, given the mtime the walk
   saw (0 when the file was not there) and the row it found afterwards. *)

Decision   == [change : Changes, mtime : Nat]
NoDecision == [change |-> "none", mtime |-> 0]

\* Mutant: a failed row is left alone even if it is retryable.
LeftAloneWhenFailed(seen, row) == row.mtime = seen

\* A file on disk is left alone when its row has the same mtime and is
\* finished, queued or claimed, or failed beyond retry.
LeftAlone(seen, row) ==
    /\ row.mtime = seen
    /\ \/ row.status \in {"done", "pending", "processing"}
       \/ row.status = "failed" /\ row.retryable = "false"

\* A missing file is settled once a delete has gone through.
DeleteFinished(row) == row.status = "done" /\ row.change = "deleted"

Decide(seen, row) ==
    IF seen # 0
    THEN IF row.status # "none" /\ LeftAlone(seen, row)
         THEN NoDecision
         ELSE [change |-> "changed", mtime |-> seen]
    ELSE IF row.status = "none" \/ DeleteFinished(row)
         THEN NoDecision
         ELSE [change |-> "deleted", mtime |-> row.mtime]

Reconcile(seen, rows) == [p \in Paths |-> Decide(seen[p], rows[p])]

================================================================================
