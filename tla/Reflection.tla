------------------------------ MODULE Reflection ------------------------------
(***************************************************************************)
(* One cluster of one user's episodes: the conversation path that writes   *)
(* episodes and clusters them, the Reflection runs that merge the cluster  *)
(* into one narrative and deprecate what it replaces, and the two derived  *)
(* indexes that the cascade keeps of the episode and atomic-fact files.    *)
(*                                                                         *)
(* Four stores tell of an episode: the markdown file (its entry, and the   *)
(* deprecation mark in the frontmatter), the LanceDB row, the rows of its  *)
(* facts and the membership of the cluster in SQLite.  A run changes them  *)
(* one after the other while the others go on.                             *)
(*                                                                         *)
(* Abstractions:                                                           *)
(*  - The narrative of a run is known by its run.  Its text is the set of  *)
(*    the conversation's episodes it tells of.                             *)
(*  - Every episode joins the one cluster, or is never clustered: the      *)
(*    geometry is left out, the snapshot it is decided on is not.          *)
(*  - All entries are in one daily log; appending an entry and emitting    *)
(*    EpisodeExtracted is one step.                                        *)
(*  - The facts of an episode are one row, there as soon as extracted.     *)
(*  - All is in one space.  The query that takes facts out names the owner *)
(*    and the entry but not the space: entry ids are taken as unique.      *)
(***************************************************************************)
EXTENDS Integers, FiniteSets

CONSTANTS
    Episodes,       \* episodes of the conversation (parent_type "memcell")
    Settled,        \* those that are written, clustered and indexed at the start
    Runs,           \* runs of one cluster, and the narratives they write
    None,
    Live,           \* deprecated_by IS NULL
    MaxFaults       \* bound: errors, crashes, failed or empty extractions, rebuilds

ASSUME ReflectionAssumption ==
    /\ MaxFaults \in Nat /\ Settled \subseteq Episodes /\ IsFiniteSet(Settled)
    /\ Episodes \cap Runs = {} /\ {None, Live} \cap (Episodes \cup Runs) = {} /\ None # Live

VARIABLES
    md,         \* entries of the daily log
    mark,       \* deprecated_entries of its frontmatter
    dirty,      \* the file has changed since the cascade last read it
    handler,    \* what a cascade handler has read of the file
    row,        \* deprecated_by of the LanceDB row
    fact,       \* the facts of an entry: their extraction, then their row
    members,    \* cluster_member
    count,      \* cluster.count
    events,     \* episodes whose clustering run has yet to start
    join,       \* the clustering run at work, and what it has read
    run,        \* the Reflection runs
    mishaps,    \* what has happened that the code does not guard against
    faults

vars == <<md, mark, dirty, handler, row, fact, members, count, events, join, run,
          mishaps, faults>>
files == <<md, mark, dirty>>
index == <<handler, row>>
cluster == <<members, count, events, join>>

Entries == Episodes \cup Runs

\* What a cascade handler has in hand when it has read the file; None is no such reading.
Reading == [entries : SUBSET Entries, marks : [Entries -> Runs \cup {None}]]

ASSUME NoneAssumption == None \notin Reading

NoRun == [pc |-> "none", snap |-> {}, loaded |-> {}, todo |-> {}, tells |-> {}]
Locked == {"patch", "rows", "facts", "remove", "add", "metadata"}

\* What the text of an entry tells of.
Told(x) == IF x \in Runs THEN run[x].tells ELSE {x}

At(r, pc) == run[r].pc = pc
Goto(r, pc) == run' = [run EXCEPT ![r].pc = pc]
Ended(tells) == [NoRun EXCEPT !.pc = "done", !.tells = tells]
Mishap(m, happened) == mishaps' = IF happened THEN mishaps \cup {m} ELSE mishaps
Fault(m) == faults < MaxFaults /\ faults' = faults + 1 /\ mishaps' = mishaps \cup {m}

--------------------------------------------------------------------------------
(* The conversation. *)

\* UserMemoryPipeline: the entry and its event, upon which facts are extracted.
WriteEpisode(e) ==
    /\ e \notin md
    /\ md' = md \cup {e} /\ dirty' = TRUE
    /\ fact' = [fact EXCEPT ![e] = "open"]
    /\ events' = events \cup {e}
    /\ UNCHANGED <<mark, index, members, count, join, run, mishaps, faults>>

\* trigger_profile_clustering holds the owner's lock from the read to the write.
ReadCluster(e) ==
    /\ e \in events /\ join = None
    /\ events' = events \ {e}
    /\ join' = [episode |-> e, members |-> members, count |-> count]
    /\ UNCHANGED <<files, index, fact, members, count, run, mishaps, faults>>

\* upsert_with_members: the count that was read and one, and every member that was read.
Upsert ==
    /\ join # None
    /\ members' = members \cup join.members \cup {join.episode}
    /\ count' = join.count + 1
    /\ join' = None

Stale == {m \in {"stale"} : members # join.members \/ count # join.count}

JoinCluster ==
    /\ Upsert
    /\ mishaps' = mishaps \cup Stale
    /\ UNCHANGED <<files, index, fact, events, run, faults>>

\* The emit after the write raises, or the process dies: another attempt reads it all again.
\* An attempt that ends before the write leaves no trace.
JoinAndFail ==
    /\ Upsert
    /\ events' = events \cup {join.episode}
    /\ faults < MaxFaults /\ faults' = faults + 1
    /\ mishaps' = mishaps \cup Stale \cup {"again"}
    /\ UNCHANGED <<files, index, fact, run>>

\* extract_atomic_facts, whichever entry asked for it, at once or in a later attempt; the
\* cascade then indexes what it wrote.
ExtractFacts(x) ==
    /\ fact[x] \in {"open", "failed"}
    /\ fact' = [fact EXCEPT ![x] = "live"]
    /\ UNCHANGED <<files, index, cluster, run, mishaps, faults>>

\* The extractor finds no facts: the run is a SUCCESS and nothing is written.
FindNoFacts(x) ==
    /\ fact[x] \in {"open", "failed"}
    /\ fact' = [fact EXCEPT ![x] = "empty"]
    /\ Fault("empty")
    /\ UNCHANGED <<files, index, cluster, run>>

\* An attempt ends as FAILED, to be followed by another one, or as DEAD_LETTER.
FactsFail(x) ==
    /\ fact[x] = "open"
    /\ fact' = [fact EXCEPT ![x] = "failed"]
    /\ Fault("failed")
    /\ UNCHANGED <<files, index, cluster, run>>

--------------------------------------------------------------------------------
(* The cascade. *)

ReadLog ==
    /\ dirty /\ handler = None
    /\ dirty' = FALSE
    /\ handler' = [entries |-> md, marks |-> mark]
    /\ UNCHANGED <<md, mark, row, fact, cluster, run, mishaps, faults>>

\* Rows for the entries that have none, then the marks of the frontmatter on the rows; a mark
\* whose update raises is lost, and the file is done all the same.
ApplyMarks(lost) ==
    row' = [x \in Entries |->
              IF x \notin handler.entries THEN row[x]
              ELSE IF handler.marks[x] # None /\ x \notin lost THEN handler.marks[x]
              ELSE IF row[x] = None THEN Live ELSE row[x]]

IndexLog ==
    /\ handler # None
    /\ handler' = None
    /\ \/ ApplyMarks({}) /\ UNCHANGED <<mishaps, faults>>
       \/ \E lost \in SUBSET handler.entries : ApplyMarks(lost) /\ Fault("unmarked")
    /\ UNCHANGED <<files, fact, cluster, run>>

\* The LanceDB tables are dropped and made again from the files; the frontmatter of a fact
\* file has no marks, so its rows are all new.
Rebuild ==
    /\ handler = None
    /\ row' = [x \in Entries |-> None]
    /\ fact' = [x \in Entries |-> IF fact[x] = "old" THEN "live" ELSE fact[x]]
    /\ dirty' = TRUE
    /\ Fault("rebuilt")
    /\ UNCHANGED <<md, mark, handler, cluster, run>>

--------------------------------------------------------------------------------
(* A run: select, merge, re-extract. *)

\* Both sides of the test on the reports ask for two members.
Select(r) ==
    /\ At(r, "none") /\ Cardinality(members) >= 2
    /\ Goto(r, "load")
    /\ UNCHANGED <<files, index, fact, cluster, mishaps, faults>>

\* The members are read when the turn of the cluster comes, however many they are by then.
Load(r) ==
    /\ At(r, "load") /\ members # {}
    /\ run' = [run EXCEPT ![r] = [@ EXCEPT !.pc = "merge", !.snap = members]]
    /\ UNCHANGED <<files, index, fact, cluster, mishaps, faults>>

\* An update hands on the first narrative and the new episodes; another narrative is dropped.
MergedText(loaded, tells) ==
    LET told(S) == UNION {Told(x) : x \in S} IN
    IF loaded \cap Runs = {}
    THEN tells = told(loaded)
    ELSE \E old \in loaded \cap Runs : tells = told({old} \cup (loaded \cap Episodes))

\* The members that have a row are merged, the narrative is written, its facts asked for.
Merge(r) ==
    /\ At(r, "merge")
    /\ LET loaded == {x \in run[r].snap : row[x] # None} IN
         /\ loaded # {}
         /\ \E tells \in SUBSET Episodes :
              /\ MergedText(loaded, tells)
              /\ run' = [run EXCEPT ![r] = [@ EXCEPT !.pc = "wait", !.loaded = loaded, !.tells = tells]]
         /\ mishaps' = mishaps \cup {m \in {"lag", "dropped"} :
                                      IF m = "lag" THEN loaded # run[r].snap
                                      ELSE \E q, s \in loaded \cap Runs : q # s}
    /\ md' = md \cup {r} /\ dirty' = TRUE
    /\ fact' = [fact EXCEPT ![r] = "open"]
    /\ UNCHANGED <<mark, index, cluster, faults>>

\* No member, no row at all, or a reflector that fails: nothing has been written.
Skip(r) ==
    /\ run[r].pc \in {"load", "merge"}
    /\ run' = [run EXCEPT ![r] = Ended({})]
    /\ UNCHANGED <<files, index, fact, cluster, mishaps, faults>>

\* The narrative stays in the file, beside what it tells of.
Timeout(r) ==
    /\ At(r, "wait") /\ fact[r] = "open"
    /\ run' = [run EXCEPT ![r] = Ended(@.tells)]
    /\ mishaps' = mishaps \cup {"timeout"}
    /\ UNCHANGED <<files, index, fact, cluster, faults>>

--------------------------------------------------------------------------------
(* Deprecation, under the lock of the cluster. *)

\* Mutant: the wait is left out.
ResolveAtOnce(r) ==
    /\ At(r, "wait") /\ \A q \in Runs : run[q].pc \notin Locked
    /\ LET todo == run[r].snap \cap members IN
         /\ run' = [run EXCEPT ![r] = [@ EXCEPT !.pc = "patch", !.todo = todo, !.snap = {},
                                                !.loaded = @ \cap todo]]
         /\ Mishap("overlap", todo # run[r].snap)
    /\ UNCHANGED <<files, index, fact, cluster, faults>>

\* Mutant: the lock is not taken.
ResolveUnlocked(r) ==
    /\ At(r, "wait") /\ fact[r] # "open"
    /\ LET todo == run[r].snap \cap members IN
         /\ run' = [run EXCEPT ![r] = IF todo = {} THEN Ended(@.tells)
                                      ELSE [@ EXCEPT !.pc = "patch", !.todo = todo, !.snap = {},
                                                     !.loaded = @ \cap todo]]
         /\ Mishap("overlap", todo # run[r].snap)
    /\ UNCHANGED <<files, index, fact, cluster, faults>>

\* Mutant: every present member is deprecated.
ResolveMembers(r) ==
    /\ At(r, "wait") /\ fact[r] # "open" /\ \A q \in Runs : run[q].pc \notin Locked
    /\ run' = [run EXCEPT ![r] = [@ EXCEPT !.pc = "patch", !.todo = members, !.snap = {},
                                           !.loaded = @ \cap members]]
    /\ Mishap("overlap", run[r].snap \ members # {})
    /\ UNCHANGED <<files, index, fact, cluster, faults>>

\* wait_for_event returns when an attempt has ended, and does not tell how.
\* _resolve_deprecation_targets: those of the snapshot that are still members.
Resolve(r) ==
    /\ At(r, "wait") /\ fact[r] # "open" /\ \A q \in Runs : run[q].pc \notin Locked
    /\ LET todo == run[r].snap \cap members IN
         /\ run' = [run EXCEPT ![r] =
                      IF todo = {} THEN Ended(run[r].tells)
                      ELSE [run[r] EXCEPT !.pc = "patch", !.todo = todo, !.snap = {},
                                          !.loaded = run[r].loaded \cap todo]]
         /\ Mishap("overlap", todo # run[r].snap)
    /\ UNCHANGED <<files, index, fact, cluster, faults>>

\* Mutant: the marks are not written.
PatchNothing(r) ==
    /\ At(r, "patch")
    /\ Goto(r, "rows")
    /\ UNCHANGED <<files, index, fact, cluster, mishaps, faults>>

\* Only what was loaded has a path to patch.
PatchLog(r) ==
    /\ At(r, "patch")
    /\ mark' = [x \in Entries |-> IF x \in run[r].loaded THEN r ELSE mark[x]]
    /\ dirty' = (dirty \/ run[r].loaded # {})
    /\ Goto(r, "rows")
    /\ UNCHANGED <<md, index, fact, cluster, mishaps, faults>>

DeprecateRows(r) ==
    /\ At(r, "rows")
    /\ row' = [x \in Entries |-> IF x \in run[r].todo /\ row[x] # None THEN r ELSE row[x]]
    /\ Goto(r, "facts")
    /\ UNCHANGED <<files, handler, fact, cluster, mishaps, faults>>

\* Mutant: the facts stay.
DeprecateNoFacts(r) ==
    /\ At(r, "facts")
    /\ Goto(r, "remove")
    /\ UNCHANGED <<files, index, fact, cluster, mishaps, faults>>

\* Facts that are not in LanceDB yet are not found.
DeprecateFacts(r) ==
    /\ At(r, "facts")
    /\ fact' = [x \in Entries |-> IF x \in run[r].todo /\ fact[x] = "live" THEN "old" ELSE fact[x]]
    /\ Goto(r, "remove")
    /\ Mishap("late", \E x \in run[r].todo : fact[x] \in {"open", "failed"})
    /\ UNCHANGED <<files, index, cluster, faults>>

RemoveMembers(r) ==
    /\ At(r, "remove")
    /\ members' = members \ run[r].todo
    /\ Goto(r, "add")
    /\ UNCHANGED <<files, index, fact, count, events, join, mishaps, faults>>

AddMember(r) ==
    /\ At(r, "add")
    /\ members' = members \cup {r}
    /\ Goto(r, "metadata")
    /\ UNCHANGED <<files, index, fact, count, events, join, mishaps, faults>>

\* Mutant: the count is left as it was.
KeepMetadata(r) ==
    /\ At(r, "metadata")
    /\ run' = [run EXCEPT ![r] = Ended(@.tells)]
    /\ Mishap("joined", members # {r})
    /\ UNCHANGED <<files, index, fact, cluster, faults>>

\* The count is one whoever has joined meanwhile.  The report is written and the run is over.
UpdateMetadata(r) ==
    /\ At(r, "metadata")
    /\ count' = 1
    /\ run' = [run EXCEPT ![r] = Ended(@.tells)]
    /\ Mishap("joined", members # {r})
    /\ UNCHANGED <<files, index, fact, members, events, join, faults>>

\* A step that raises, or a crash; what has been done stays done.
Interrupted(r) ==
    /\ run[r].pc \in {"wait"} \cup Locked
    /\ run' = [run EXCEPT ![r] = Ended(@.tells)]
    /\ Fault("interrupted")
    /\ UNCHANGED <<files, index, fact, cluster>>

--------------------------------------------------------------------------------
Init ==
    /\ md = Settled /\ mark = [x \in Entries |-> None] /\ dirty = FALSE
    /\ handler = None /\ row = [x \in Entries |-> IF x \in Settled THEN Live ELSE None]
    /\ fact = [x \in Entries |-> IF x \in Settled THEN "live" ELSE "none"]
    /\ members = Settled /\ count = Cardinality(Settled) /\ events = {} /\ join = None
    /\ run = [r \in Runs |-> NoRun]
    /\ mishaps = {} /\ faults = 0

Converse ==
    \/ \E e \in Episodes : WriteEpisode(e) \/ ReadCluster(e)
    \/ JoinCluster \/ JoinAndFail
    \/ \E x \in Entries : ExtractFacts(x) \/ FindNoFacts(x) \/ FactsFail(x)

Cascade == ReadLog \/ IndexLog \/ Rebuild

Reflect(r) ==
    \/ Select(r) \/ Load(r) \/ Merge(r) \/ Skip(r) \/ Timeout(r) \/ Resolve(r)
    \/ PatchLog(r) \/ DeprecateRows(r) \/ DeprecateFacts(r)
    \/ RemoveMembers(r) \/ AddMember(r) \/ UpdateMetadata(r) \/ Interrupted(r)

Next == Converse \/ Cascade \/ \E r \in Runs : Reflect(r)

Spec == Init /\ [][Next]_vars

--------------------------------------------------------------------------------
(* Properties. *)

TypeOK ==
    /\ md \in SUBSET Entries /\ mark \in [Entries -> Runs \cup {None}] /\ dirty \in BOOLEAN
    /\ handler = None \/ (handler \in Reading /\ handler.entries \subseteq md)
    /\ row \in [Entries -> Runs \cup {None, Live}]
    /\ fact \in [Entries -> {"none", "open", "failed", "empty", "live", "old"}]
    /\ members \in SUBSET md /\ events \in SUBSET md /\ count \in Nat
    /\ \/ join = None
       \/ join.episode \in md /\ join.members \in SUBSET md /\ join.count \in Nat
    /\ \A r \in Runs :
         /\ run[r].pc \in {"none", "load", "merge", "wait", "done"} \cup Locked
         /\ run[r].loaded \subseteq md /\ run[r].tells \subseteq Episodes
         /\ run[r].pc \in Locked => r \in md /\ run[r].todo # {} /\ run[r].loaded \subseteq run[r].todo
    /\ \A q, r \in Runs : run[q].pc \in Locked /\ run[r].pc \in Locked => q = r
    /\ mishaps \subseteq {"stale", "again", "lag", "dropped", "failed", "empty", "timeout",
                         "overlap", "late", "joined", "interrupted", "rebuilt", "unmarked"}

Without(S) == mishaps \cap S = {}

\* No run is at work and every store has caught up with the files.
AtRest ==
    /\ ~dirty /\ handler = None /\ join = None
    /\ \A x \in Entries : fact[x] # "open"
    /\ \A r \in Runs : run[r].pc \in {"none", "done"}

\* An entry is deprecated, in the file or in the index, only by a narrative that is on disk
\* and tells of all that it told, whoever joined the cluster or ran beside.  A member whose
\* row was not there when the cluster was merged is deprecated unread, and so is a second
\* old narrative.
NothingForgotten ==
    Without({"lag", "dropped"}) =>
        \A x \in Entries, r \in Runs :
            r \in {mark[x], row[x]} => r \in md /\ Told(x) \subseteq run[r].tells

Tellers(e) == {x \in Entries : row[x] = Live /\ e \in Told(x)}

\* At rest every episode is found exactly once: by itself, or by the one narrative that took
\* its place; also when the index has been made again from the files, if the update of every
\* mark went through (a mark that is lost then leaves the sources beside the narrative).  A
\* run that ends before its time, or beside another one, leaves a narrative that tells the
\* same again, and so may an episode that is clustered again; a member that was deprecated
\* unread, and a second narrative that a merge drops, are found by nobody.
FoundOnce ==
    AtRest /\ Without({"lag", "dropped", "stale", "again", "timeout", "overlap", "interrupted",
                      "unmarked"}) =>
        \A e \in Episodes \cap md : Cardinality(Tellers(e)) = 1

\* The extraction of the facts has come to an end, with facts (that may be deprecated by now),
\* with none, or in a failed attempt.
Extracted == {"live", "old", "empty", "failed"}

\* The facts of an entry are taken out of the search only when the extraction of the facts of a
\* narrative that tells the same has come to an end.  The code does not ask how it ended: a
\* narrative without facts, or whose extraction failed, takes them out as well.
FactsReplaced ==
    Without({"lag", "dropped"}) =>
        \A x \in Entries : fact[x] = "old" =>
            \E r \in Runs : fact[r] \in Extracted /\ Told(x) \subseteq run[r].tells

\* At rest an entry and the facts it has are in the search together or not at all.  Facts that
\* are indexed after the deprecation of their entry stay, as do all facts after a rebuild: the
\* deprecation of facts is kept in LanceDB only.
FactsAgree ==
    AtRest /\ Without({"lag", "failed", "late", "interrupted", "rebuilt"}) =>
        \A x \in md : fact[x] # "empty" => (fact[x] = "live" <=> row[x] = Live)

\* At rest the count of the cluster is the number of its members, unless one joined on a stale
\* snapshot, between the merge and its end, or for a second time: the count goes up with every
\* attempt that gets to the write, the members do not.
CountIsSize ==
    AtRest /\ Without({"stale", "again", "joined", "interrupted"}) =>
        count = Cardinality(members)

================================================================================
